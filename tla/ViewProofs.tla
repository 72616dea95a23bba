------------------------------- MODULE ViewProofs -------------------------------
(***************************************************************************)
(* Proofs about what shows a state that others change: the running game,   *)
(* which follows the arrangement on disk, the timeline, which mirrors a    *)
(* view of the substrate, and the desk and its panels, which gestures and  *)
(* calls of several tabs move.  For every set of versions, of types,       *)
(* entries, windows, views, panels and tabs, and any number of steps.      *)
(***************************************************************************)
EXTENDS HotReload, Timeline, PanelDesk, PanelPositions, ItemList, Controls,
        ArrangementProofs, SequenceTheorems

--------------------------------------------------------------------------------
(* The reload diff of the running game *)

(* The instances after a load, in terms of the spec it chose.              *)
LEMMA LoadMakes ==
    ASSUME NEW arr, LoadArrangement(arr)
    PROVE  /\ running' = arr
           /\ \E spec \in Specs(arr) :
                 /\ DOMAIN nodes' = Kept(spec) \cup {i \in DOMAIN spec : spec[i].type \in Registered}
                 /\ \A id \in DOMAIN nodes' :
                       /\ nodes'[id].kind = spec[id]
                       /\ id \in Kept(spec) => nodes'[id].made = nodes[id].made
<1>1. PICK spec \in Specs(arr) :
        nodes' = [id \in Kept(spec) \cup {i \in DOMAIN spec : spec[i].type \in Registered}
                     |-> Instance(id, spec)]
  BY DEF LoadArrangement
<1>2. \A id : /\ Instance(id, spec).kind = spec[id]
              /\ id \in Kept(spec) => Instance(id, spec).made = nodes[id].made
  BY DEF Instance
<1>3. running' = arr
  BY DEF LoadArrangement
<1> QED
  BY <1>1, <1>2, <1>3

(* A spec gives every id of the arrangement one of the kinds it has there. *)
LEMMA SpecKinds ==
    ASSUME NEW arr, NEW spec \in Specs(arr)
    PROVE  /\ DOMAIN spec = NodeIds(arr)
           /\ \A id \in NodeIds(arr) : [id |-> id, kind |-> spec[id]] \in arr.nodes
BY DEF Specs

\* A reload is of a whole file; any other poll leaves the runtime alone.
LEMMA PollReadCases ==
    ASSUME PollRead
    PROVE  \/ UNCHANGED <<running, nodes, loads>>
           \/ file.state = "whole" /\ loads' = loads + 1 /\ LoadArrangement(file.arr)
BY DEF PollRead, ReadText, Created, Unreadable, LoadArrangement

LEMMA OthersKeepNodes ==
    ASSUME Write \/ PollExists
    PROVE  UNCHANGED <<running, nodes, loads>>
BY DEF Write, StoreCommits, SceneLoads, PanelOpens, PanelFlushes, PanelCloses,
       ChannelLoads, ChannelRemoves, ChannelRenames, Edit, PollExists, hostVars

(***************************************************************************)
(* The instances follow the running arrangement.                           *)
(***************************************************************************)
LEMMA RunsInit == Init => RunsWhatItLoaded
BY DEF Init, RunsWhatItLoaded, EmptyArr

LEMMA RunsLoad ==
    ASSUME RunsWhatItLoaded, NEW arr, LoadArrangement(arr)
    PROVE  RunsWhatItLoaded'
<1>1. running' = arr
  BY LoadMakes
<1>2. PICK spec \in Specs(arr) :
        /\ DOMAIN nodes' = Kept(spec) \cup {i \in DOMAIN spec : spec[i].type \in Registered}
        /\ \A id \in DOMAIN nodes' : nodes'[id].kind = spec[id]
  BY LoadMakes
<1>3. \A id \in DOMAIN nodes' : spec[id].type \in Registered
  BY <1>2 DEF Kept, RunsWhatItLoaded
<1>4. \A id \in DOMAIN nodes' :
         /\ nodes'[id].kind = spec[id]
         /\ [id |-> id, kind |-> spec[id]] \in arr.nodes
  <2> TAKE id \in DOMAIN nodes'
  <2>1. nodes'[id].kind = spec[id]
    BY <1>2
  <2>2. id \in DOMAIN spec
    BY <1>2 DEF Kept
  <2> QED
    BY <2>1, <2>2, SpecKinds
<1>5. ASSUME NEW n \in arr.nodes, n.id \notin DOMAIN nodes'
      PROVE  \E m \in arr.nodes : m.id = n.id /\ m.kind.type \notin Registered
  <2>1. n.id \in DOMAIN spec /\ [id |-> n.id, kind |-> spec[n.id]] \in arr.nodes
    BY SpecKinds DEF NodeIds
  <2>2. spec[n.id].type \notin Registered
    BY <1>2, <1>5, <2>1
  <2> QED
    BY <2>1, <2>2
<1> QED
  BY <1>1, <1>3, <1>4, <1>5 DEF RunsWhatItLoaded

LEMMA RunsNext == RunsWhatItLoaded /\ [Next]_vars => RunsWhatItLoaded'
<1> SUFFICES ASSUME RunsWhatItLoaded, [Next]_vars PROVE RunsWhatItLoaded'
  OBVIOUS
<1>1. CASE UNCHANGED <<running, nodes, loads>>
  BY <1>1 DEF RunsWhatItLoaded
<1>2. CASE PollRead
  BY <1>1, <1>2, PollReadCases, RunsLoad
<1>3. CASE Write \/ PollExists
  BY <1>1, <1>3, OthersKeepNodes
<1>4. CASE UNCHANGED vars
  BY <1>1, <1>4 DEF vars, hostVars
<1> QED
  BY <1>2, <1>3, <1>4 DEF Next, Poll

(* The running graph is the arrangement loaded last, node for node, after  *)
(* any sequence of reloads.                                                *)
THEOREM AlwaysRunsWhatItLoaded == Spec => []RunsWhatItLoaded
BY RunsInit, RunsNext, PTL DEF Spec

(***************************************************************************)
(* The lives of instances.                                                 *)
(***************************************************************************)
LEMMA LoadGivesUp ==
    ASSUME NEW arr, LoadArrangement(arr), NEW id \in DOMAIN nodes, GivenUp(id),
           id \in NodeIds(arr)
    PROVE  \E n \in arr.nodes : n.id = id /\ n.kind.type # nodes[id].kind.type
<1>1. PICK spec \in Specs(arr) :
        /\ DOMAIN nodes' = Kept(spec) \cup {i \in DOMAIN spec : spec[i].type \in Registered}
        /\ \A i \in DOMAIN nodes' : i \in Kept(spec) => nodes'[i].made = nodes[i].made
  BY LoadMakes
<1>2. id \notin Kept(spec)
  <2> SUFFICES ASSUME id \in Kept(spec) PROVE FALSE
    OBVIOUS
  <2>1. id \in DOMAIN nodes'
    BY <1>1
  <2>2. nodes'[id].made = nodes[id].made
    BY <1>1, <2>1
  <2> QED
    BY <2>1, <2>2 DEF GivenUp
<1>3. id \in DOMAIN spec /\ [id |-> id, kind |-> spec[id]] \in arr.nodes
  BY SpecKinds
<1>4. spec[id].type # nodes[id].kind.type
  BY <1>2, <1>3 DEF Kept
<1> QED
  BY <1>3, <1>4

(* An instance is given up only for a whole arrangement without a node of  *)
(* its id, or with one of another type: no torn, empty or missing file     *)
(* ever costs one.                                                         *)
THEOREM InstancesAlwaysSurvive == Spec => InstancesSurvive
<1>1. [Next]_vars =>
         \A id \in DOMAIN nodes : GivenUp(id) =>
            /\ file.state = "whole"
            /\ id \in NodeIds(file.arr) =>
                  \E n \in file.arr.nodes : n.id = id /\ n.kind.type # nodes[id].kind.type
  <2> SUFFICES ASSUME [Next]_vars, NEW id \in DOMAIN nodes, GivenUp(id)
               PROVE  /\ file.state = "whole"
                      /\ id \in NodeIds(file.arr) =>
                           \E n \in file.arr.nodes :
                              n.id = id /\ n.kind.type # nodes[id].kind.type
    OBVIOUS
  <2>1. ~UNCHANGED <<running, nodes, loads>>
    BY DEF GivenUp
  <2>2. PollRead
    BY <2>1, OthersKeepNodes DEF Next, Poll, vars, hostVars
  <2> QED
    BY <2>1, <2>2, PollReadCases, LoadGivesUp
<1> QED
  BY <1>1, PTL DEF Spec, InstancesSurvive

--------------------------------------------------------------------------------
(* The timeline and the view it mirrors *)

Ats == {AtEnd} \cup {AtAnchor(i) : i \in Ids} \cup {AtScroll(y) : y \in Scrolls}

\* An entry of an id that is there has a first of that id.
LEMMA FirstIsThere ==
    ASSUME NEW pos \in Seq(Entry), NEW id, \E i \in DOMAIN pos : pos[i].id = id
    PROVE  FirstOf(pos, id) \in 1 .. Len(pos)
<1> DEFINE T == {i \in DOMAIN pos : pos[i].id = id}
<1>1. T \subseteq Nat /\ T # {}
  OBVIOUS
<1>2. \E i \in T : \A j \in T : i <= j
  <2> HIDE DEF T
  <2> QED
    BY <1>1, LeastElement
<1>3. \E i \in DOMAIN pos : pos[i].id = id /\ \A j \in DOMAIN pos : pos[j].id = id => i <= j
  BY <1>2
<1> QED
  BY <1>3 DEF FirstOf

\* The center of a window is an entry; at the end it is the last.
LEMMA CenterIsThere ==
    ASSUME NEW pos \in Seq(Entry), pos # <<>>, NEW at, Found(pos, at),
           \/ at.by = "end"
           \/ at.by = "anchor"
           \/ at.by = "scroll" /\ at.y \in Int
    PROVE  /\ Center(pos, at) \in 0 .. Len(pos) - 1
           /\ at.by = "end" => Center(pos, at) = Len(pos) - 1
<1>1. Len(pos) \in Nat /\ Len(pos) > 0
  OBVIOUS
<1>2. CASE at.by = "end"
  BY <1>1, <1>2 DEF Center
<1>3. CASE at.by = "scroll"
  <2>1. at.y \in Int /\ Center(pos, at) = Clamp(at.y, Len(pos))
    BY <1>3 DEF Center
  <2> QED
    BY <1>1, <1>3, <2>1 DEF Clamp
<1>4. CASE at.by = "anchor"
  <2>1. FirstOf(pos, at.id) \in 1 .. Len(pos) /\ Center(pos, at) = FirstOf(pos, at.id) - 1
    BY <1>4, FirstIsThere DEF Center, Found
  <2> QED
    BY <1>1, <1>4, <2>1
<1> QED
  BY <1>2, <1>3, <1>4

\* The visible band, by the arithmetic of the shift at the edges.
LEMMA VisibleIs ==
    ASSUME NEW pos \in Seq(Entry), pos # <<>>, NEW at, NEW s \in Nat,
           Center(pos, at) \in 0 .. Len(pos) - 1,
           at.by = "end" => Center(pos, at) = Len(pos) - 1
    PROVE  LET v == Visible(pos, at, s)  n == Len(pos)  c == Center(pos, at) IN
           /\ v[1] \in Nat /\ v[2] \in Nat /\ v[1] <= v[2] /\ v[2] <= n
           /\ s > 0 => v[2] - v[1] = Least(s, n)
           /\ s > 0 \/ at.by # "end" => v[1] <= c /\ c < v[2]
<1> DEFINE n == Len(pos)  c == Center(pos, at)  h == s \div 2
           first == Most(0, c - h)  end == Least(n, first + s)
           start == IF end - first < s THEN Most(0, end - s) ELSE first
           band == IF at.by = "end" THEN <<Most(0, c + 1 - s), Least(n, c + 1)>> ELSE <<start, end>>
<1>1. Visible(pos, at, s) = IF band[2] <= band[1] THEN <<band[1], Least(n, band[1] + 1)>> ELSE band
  BY DEF Visible
<1>2. n \in Nat /\ n > 0 /\ c \in 0 .. n - 1 /\ h \in Nat /\ (s > 0 => h < s) /\ (s = 0 => h = 0)
  <2>1. h \in Nat /\ (s > 0 => h < s) /\ (s = 0 => h = 0)
    OBVIOUS
  <2> QED
    BY <2>1
<1>3. /\ start \in Nat /\ end \in Nat /\ start <= end /\ end <= n
      /\ s > 0 => start <= c /\ c < end /\ end - start = Least(s, n)
      /\ s = 0 => start = c /\ end = c
  <2>1. first = Most(0, c - h) /\ end = Least(n, first + s)
    OBVIOUS
  <2>2. \/ end - first < s /\ start = Most(0, end - s)
        \/ ~(end - first < s) /\ start = first
    OBVIOUS
  <2>3. first \in Int /\ end \in Int /\ start \in Int
    <3> HIDE DEF n, c, h
    <3>1. first \in Int
      BY <1>2 DEF Most
    <3>2. end \in Int
      <4> HIDE DEF first
      <4> QED
        BY <1>2, <3>1 DEF Least
    <3> HIDE DEF first, end
    <3> QED
      BY <3>1, <3>2 DEF Most
  <2> HIDE DEF n, c, h, first, end, start
  <2>a. first \in Nat /\ first <= c /\ (c - h <= first) /\ (h = 0 => first = c) /\ (first = 0 \/ first = c - h)
    BY <1>2, <2>1, <2>3 DEF Most
  <2>b. end \in Nat /\ end <= n /\ (end = n \/ end = first + s) /\ end <= first + s
    BY <1>2, <2>1, <2>3, <2>a DEF Least
  <2>c. CASE s = 0
    <3>1. first = c /\ end = c
      BY <1>2, <2>1, <2>a, <2>c DEF Least
    <3> QED
      BY <1>2, <2>2, <2>3, <2>c, <3>1
  <2>d. CASE s > 0
    <3>1. c < end
      <4>1. c < first + s
        BY <1>2, <2>a, <2>d
      <4> QED
        BY <1>2, <2>b, <4>1
    <3>2. CASE end - first < s
      <4>1. end = n
        BY <1>2, <2>2, <2>3, <2>a, <2>b, <3>2
      <4>2. start = Most(0, n - s)
        BY <2>2, <3>2, <4>1
      <4>3. n - s < first
        BY <1>2, <2>a, <3>2, <4>1
      <4>4. start \in Nat /\ start <= first /\ n - start = Least(s, n)
        BY <1>2, <2>a, <4>2, <4>3 DEF Most, Least
      <4> QED
        BY <1>2, <2>a, <2>b, <2>d, <3>1, <4>1, <4>4
    <3>3. CASE ~(end - first < s)
      <4>1. end = first + s /\ start = first
        BY <1>2, <2>2, <2>3, <2>a, <2>b, <3>3
      <4>2. end - start = s /\ s <= n
        BY <1>2, <2>a, <2>b, <4>1
      <4> QED
        BY <1>2, <2>a, <2>b, <2>d, <3>1, <4>1, <4>2 DEF Least
    <3> QED
      BY <1>2, <3>2, <3>3
  <2> QED
    BY <1>2, <2>c, <2>d
<1> DEFINE v == Visible(pos, at, s)
<1>4. CASE at.by = "end"
  <2>1. band = <<Most(0, n - s), n>> /\ c = n - 1
    <3>1. c = n - 1
      BY <1>4
    <3>2. Least(n, c + 1) = n /\ c + 1 - s = n - s
      BY <1>2, <3>1 DEF Least
    <3> QED
      BY <1>4, <3>1, <3>2
  <2>2. band[1] = Most(0, n - s) /\ band[2] = n
    BY <2>1
  <2> HIDE DEF n, c, band, v
  <2>3. CASE s > 0
    <3>1. band[1] \in Nat /\ band[1] < n /\ n - band[1] = Least(s, n)
      BY <1>2, <2>2, <2>3 DEF Most, Least
    <3>2. Visible(pos, at, s) = band
      BY <1>1, <1>2, <2>2, <3>1
    <3> QED
      BY <1>2, <2>1, <2>2, <2>3, <3>1, <3>2 DEF n, c
  <2>4. CASE s = 0
    <3>1. band[1] = n
      BY <1>2, <2>2, <2>4 DEF Most
    <3>2. Visible(pos, at, s) = <<n, n>>
      BY <1>1, <1>2, <2>2, <3>1 DEF Least
    <3> QED
      BY <1>2, <1>4, <2>4, <3>2 DEF n
  <2> QED
    BY <2>3, <2>4
<1>5. CASE at.by # "end"
  <2>1. band = <<start, end>>
    BY <1>5
  <2>2. band[1] = start /\ band[2] = end
    BY <2>1
  <2> HIDE DEF n, c, band, v, start, end
  <2>3. CASE s > 0
    <3>1. Visible(pos, at, s) = band
      BY <1>1, <1>2, <1>3, <2>2, <2>3
    <3> QED
      BY <1>2, <1>3, <2>2, <2>3, <3>1 DEF n, c
  <2>4. CASE s = 0
    <3>1. Visible(pos, at, s) = <<c, c + 1>>
      BY <1>1, <1>2, <1>3, <2>2, <2>4 DEF Least
    <3> QED
      BY <1>2, <2>4, <3>1 DEF n, c
  <2> QED
    BY <2>3, <2>4
<1> QED
  BY <1>4, <1>5

\* A window that parses has a size and two buffers.
LEMMA WindowIs ==
    ASSUME NEW w \in Seq(Int), Parses(w)
    PROVE  Window(w)[1] \in Nat /\ Window(w)[2] \in Nat /\ Window(w)[3] \in Nat
<1>1. Defaults[1] \in Nat /\ Defaults[2] \in Nat /\ Defaults[3] \in Nat
  BY TimelineAssumption
<1>2. Len(w) \in {0, 1, 3} /\ \A i \in DOMAIN w : w[i] \in Nat
  BY DEF Parses
<1>3. CASE Len(w) = 0
  BY <1>1, <1>3 DEF Window
<1>4. CASE Len(w) = 1
  <2>1. w[1] \in Nat
    BY <1>2, <1>4
  <2> QED
    BY <1>1, <1>4, <2>1 DEF Window
<1>5. CASE Len(w) = 3
  <2>1. w[1] \in Nat /\ w[2] \in Nat /\ w[3] \in Nat
    BY <1>2, <1>5
  <2> QED
    BY <1>5, <2>1 DEF Window
<1> QED
  BY <1>2, <1>3, <1>4, <1>5

--------------------------------------------------------------------------------
\* What is rendered of positions is true of them, for every window and every place.
BandTrue(p) ==
    p.size > 0 =>
        LET b == p.bands  n == Len(p.pos) IN
        /\ b.end - b.start = IF p.at.by = "end" \/ p.size < n THEN Least(p.size, n) ELSE n
        /\ b.start <= Center(p.pos, p.at) /\ Center(p.pos, p.at) < b.end
        /\ 0 <= b.above /\ b.above <= b.start /\ b.end <= b.below /\ b.below <= n
BodiesTrue(p) ==
    /\ p.freeze => \A i \in DOMAIN p.boxes : p.boxes[i].body \in {NoBody, p.boxes[i].id}
    /\ \A i \in p.bands.start + 1 .. p.bands.end :
          p.pos[i].id # Malformed => \E j \in DOMAIN p.boxes : p.boxes[j].id = p.pos[i].id

\* What a panel may be placed at.
LEMMA PlacesAre ==
    ASSUME NEW at \in Ats
    PROVE  at.by = "end" \/ at.by = "anchor" \/ (at.by = "scroll" /\ at.y \in Int)
<1>1. at = AtEnd \/ (\E i : at = AtAnchor(i)) \/ \E y \in Scrolls : at = AtScroll(y)
  BY DEF Ats
<1>2. AtEnd.by = "end"
  BY DEF AtEnd
<1>3. \A i : AtAnchor(i).by = "anchor"
  BY DEF AtAnchor
<1>4. \A y \in Scrolls : AtScroll(y).by = "scroll" /\ AtScroll(y).y \in Int
  BY TimelineAssumption DEF AtScroll
<1> QED
  BY <1>1, <1>2, <1>3, <1>4

LEMMA RenderedIsTrue ==
    ASSUME NEW pos \in Seq(Entry), NEW at \in Ats, NEW w \in Seq(Int), NEW fetched, NEW freeze,
           NEW p, p = Rendered(pos, at, w, fetched, freeze)
    PROVE  /\ p.kind \in {"hint", "raised", "refused", "shown"}
           /\ p.kind = "shown" => BandTrue(p) /\ BodiesTrue(p)
<1> DEFINE b == Bands(pos, at, Window(w))
           here == Proper(pos, b.above, b.below)
           refused == Refused({pos[i].id : i \in here}, fetched, freeze)
           shownPage == [kind |-> "shown", pos |-> pos, at |-> at, size |-> Window(w)[1],
                  freeze |-> freeze, bands |-> b,
                  boxes |-> [i \in here |-> Box(pos, pos[i].id, fetched)]]
<1>1. CASE ~Parses(w) \/ (pos # <<>> /\ ~Found(pos, at)) \/ pos = <<>>
  BY <1>1 DEF Rendered
<1>2. CASE Parses(w) /\ Found(pos, at) /\ pos # <<>>
  <2>1. p = IF refused THEN [kind |-> "refused"] ELSE shownPage
    BY <1>2 DEF Rendered
  <2>2. CASE refused
    <3> HIDE DEF refused, shownPage
    <3> QED
      BY <2>1, <2>2
  <2>3. CASE ~refused
    <3>1. p = shownPage
      BY <2>1, <2>3
    <3>2. /\ p.kind = "shown" /\ p.pos = pos /\ p.at = at /\ p.size = Window(w)[1] /\ p.freeze = freeze
          /\ p.bands = b /\ DOMAIN p.boxes = here
          /\ \A i \in here : p.boxes[i] = Box(pos, pos[i].id, fetched)
      BY <3>1
    <3>0. \A i \in here : p.boxes[i].id = pos[i].id /\ p.boxes[i].body = fetched[pos[i].id]
      <4>1. \A id : Box(pos, id, fetched).id = id /\ Box(pos, id, fetched).body = fetched[id]
        BY DEF Box
      <4> HIDE DEF here, b
      <4> QED
        BY <3>2, <4>1
    <3>3. Center(pos, at) \in 0 .. Len(pos) - 1 /\ (at.by = "end" => Center(pos, at) = Len(pos) - 1)
      <4>1. at.by = "end" \/ at.by = "anchor" \/ (at.by = "scroll" /\ at.y \in Int)
        BY PlacesAre
      <4> QED
        BY <1>2, <4>1, CenterIsThere
    <3>4. Window(w)[1] \in Nat /\ Window(w)[2] \in Nat /\ Window(w)[3] \in Nat
      BY <1>2, WindowIs
    <3> DEFINE v == Visible(pos, at, Window(w)[1])  n == Len(pos)  c == Center(pos, at)  s == Window(w)[1]
    <3>5. /\ v[1] \in Nat /\ v[2] \in Nat /\ v[1] <= v[2] /\ v[2] <= n
          /\ s > 0 => v[2] - v[1] = Least(s, n)
          /\ s > 0 \/ at.by # "end" => v[1] <= c /\ c < v[2]
      BY <1>2, <3>3, <3>4, VisibleIs
    <3>6. /\ b.start = v[1] /\ b.end = v[2]
          /\ b.above = Most(0, v[1] - Window(w)[2]) /\ b.below = Least(n, v[2] + Window(w)[3])
      BY DEF Bands
    <3>7. n \in Nat /\ n > 0 /\ c \in Int
      BY <1>2, <3>3
    <3>8. /\ b.above \in Nat /\ b.below \in Nat /\ b.start \in Nat /\ b.end \in Nat
          /\ b.above <= b.start /\ b.end <= b.below /\ b.below <= n
      <4> HIDE DEF v, n, c, s, b
      <4>1. b.above \in Nat /\ b.above <= b.start /\ b.start \in Nat
        BY <3>4, <3>5, <3>6 DEF Most
      <4>2. b.below \in Nat /\ b.end <= b.below /\ b.below <= n /\ b.end \in Nat
        BY <3>4, <3>5, <3>6, <3>7 DEF Least
      <4> QED
        BY <4>1, <4>2
    <3>9. BandTrue(p)
      <4> SUFFICES ASSUME s > 0
                   PROVE  /\ b.end - b.start = IF at.by = "end" \/ s < n THEN Least(s, n) ELSE n
                          /\ b.start <= c /\ c < b.end
                          /\ 0 <= b.above /\ b.above <= b.start /\ b.end <= b.below /\ b.below <= n
        <5> HIDE DEF b
        <5> QED
          BY <3>2 DEF BandTrue
      <4> HIDE DEF v, n, c, s, b
      <4>1. Least(s, n) = IF at.by = "end" \/ s < n THEN Least(s, n) ELSE n
        BY DEF Least
      <4>2. b.end - b.start = Least(s, n) /\ b.start <= c /\ c < b.end
        BY <3>5, <3>6
      <4> QED
        BY <3>8, <4>1, <4>2
    <3>10. BodiesTrue(p)
      <4>1. ASSUME freeze, NEW i \in here PROVE p.boxes[i].body \in {NoBody, p.boxes[i].id}
        <5>1. p.boxes[i].body = fetched[pos[i].id] /\ p.boxes[i].id = pos[i].id
          BY <3>0
        <5>2. fetched[pos[i].id] \in {NoBody, pos[i].id}
          <6> HIDE DEF here
          <6> QED
            BY <2>3, <4>1 DEF Refused
        <5> QED
          BY <5>1, <5>2
      <4>2. ASSUME NEW i \in b.start + 1 .. b.end, pos[i].id # Malformed
            PROVE  i \in here /\ p.boxes[i].id = pos[i].id
        <5>1. i \in b.above + 1 .. b.below
          <6> HIDE DEF b
          <6> QED
            BY <3>8
        <5>2. i \in here
          <6> HIDE DEF b
          <6> QED
            BY <4>2, <5>1 DEF Proper
        <5> QED
          BY <3>0, <5>2
      <4> HIDE DEF b, here
      <4> QED
        BY <3>2, <4>1, <4>2 DEF BodiesTrue
    <3> QED
      BY <3>2, <3>9, <3>10
  <2> QED
    BY <2>2, <2>3
<1> QED
  BY <1>1, <1>2

\* Whoever scrolls to an entry sees it.
LEMMA ScrolledIsSeen == entries \in Seq(Entry) => EveryEntryIsReached
<1> SUFFICES ASSUME entries \in Seq(Entry), NEW w \in {v \in Windows : Parses(v)}, NEW i \in DOMAIN entries
             PROVE  \E y \in 0 .. Len(entries) - 1 :
                        LET v == Visible(entries, AtScroll(y), Window(w)[1]) IN v[1] < i /\ i <= v[2]
  BY DEF EveryEntryIsReached
<1> DEFINE y == i - 1
<1>1. entries # <<>> /\ i \in 1 .. Len(entries) /\ Len(entries) \in Nat
  OBVIOUS
<1>2. y \in 0 .. Len(entries) - 1 /\ y \in Int
  BY <1>1
<1>3. AtScroll(y).by = "scroll" /\ AtScroll(y).y = y
  BY DEF AtScroll
<1>4. Center(entries, AtScroll(y)) = y
  <2>1. Center(entries, AtScroll(y)) = Clamp(y, Len(entries))
    BY <1>3 DEF Center
  <2> HIDE DEF y
  <2> QED
    BY <1>1, <1>2, <2>1 DEF Clamp
<1>5. Window(w)[1] \in Nat
  <2>1. w \in Seq(Int) /\ Parses(w)
    BY TimelineAssumption
  <2> QED
    BY <2>1, WindowIs
<1>6. LET v == Visible(entries, AtScroll(y), Window(w)[1]) IN v[1] \in Nat /\ v[2] \in Nat /\ v[1] <= y /\ y < v[2]
  <2> HIDE DEF y
  <2> QED
    BY <1>1, <1>2, <1>3, <1>4, <1>5, VisibleIs
<1>7. LET v == Visible(entries, AtScroll(y), Window(w)[1]) IN v[1] < i /\ i <= v[2]
  BY <1>1, <1>6
<1> QED
  BY <1>2, <1>7

--------------------------------------------------------------------------------
\* What is on the page was true when it was rendered, and is until it is taken away.
PageIsTrue == Shown => BandTrue(page) /\ BodiesTrue(page)

TimelineInv == TimelineTypeOK /\ MirrorIsPrefix /\ PageIsTrue

LEMMA InvIsTrue == TimelineInv => TimelineIsTrue
<1> SUFFICES ASSUME TimelineInv PROVE TimelineIsTrue
  OBVIOUS
<1>1. EveryEntryIsReached
  BY ScrolledIsSeen DEF TimelineInv, TimelineTypeOK
<1>2. BandHoldsItsCenter
  BY DEF TimelineInv, PageIsTrue, BandTrue, BandHoldsItsCenter
<1>3. BodiesAreFrozen
  BY DEF TimelineInv, PageIsTrue, BodiesTrue, BodiesAreFrozen
<1> QED
  BY <1>1, <1>2, <1>3 DEF TimelineInv, TimelineIsTrue

LEMMA TimelineStarts == TimelineInit => TimelineInv
<1> SUFFICES ASSUME TimelineInit PROVE TimelineInv
  OBVIOUS
<1>1. cache.positions = <<>> /\ cache.error = (named = "name")
  BY DEF TimelineInit, Empty
<1>2. page.kind = "none"
  BY DEF TimelineInit, NoPage
<1>3. TimelineTypeOK
  <2>1. cache.error \in BOOLEAN
    BY <1>1, Zenon
  <2>2. entries \in Seq(Entry) /\ Len(entries) <= MaxEntries /\ cache.positions \in Seq(Entry)
    <3>1. <<>> \in Seq(Entry) /\ Len(<<>>) = 0
      OBVIOUS
    <3>2. entries = <<>> /\ cache.positions = <<>>
      BY <1>1 DEF TimelineInit
    <3>3. 0 <= MaxEntries
      BY TimelineAssumption
    <3> QED
      BY <3>1, <3>2, <3>3
  <2>3. named \in {"none", "name", "both"} /\ form \in Forms
    BY DEF TimelineInit, Forms
  <2>4. stale \in BOOLEAN
    BY Zenon DEF TimelineInit
  <2> QED
    BY <1>2, <2>1, <2>2, <2>3, <2>4 DEF TimelineTypeOK
<1>4. MirrorIsPrefix
  <2>1. IsPrefix(<<>>, <<>>)
    BY DEF IsPrefix
  <2>2. /\ entries = <<>> /\ cache.positions = <<>> /\ form = "whole" /\ ~stale
        /\ cache.error = (named = "name")
    BY <1>1 DEF TimelineInit
  <2> QED
    BY <2>1, <2>2 DEF MirrorIsPrefix
<1> QED
  BY <1>2, <1>3, <1>4 DEF TimelineInv, PageIsTrue, Shown

\* One lemma per action.
LEMMA AppendKeepsTrue ==
    ASSUME TimelineInv, NEW e \in Entry, Append1(e)
    PROVE  TimelineInv'
<1>1. /\ entries' = Append(entries, e) /\ entries \in Seq(Entry) /\ Len(entries) < MaxEntries
      /\ cache' = cache /\ cache.positions \in Seq(Entry)
      /\ named' = named /\ form' = form /\ stale' = TRUE /\ page'.kind = "none"
  BY DEF Append1, NoPage, TimelineInv, TimelineTypeOK
<1>2. TimelineTypeOK'
  <2>1. entries' \in Seq(Entry) /\ Len(entries') = Len(entries) + 1
    BY <1>1
  <2>2. Len(entries') <= MaxEntries
    BY <1>1, <2>1, TimelineAssumption
  <2> QED
    BY <1>1, <2>1, <2>2 DEF TimelineInv, TimelineTypeOK
<1>3. MirrorIsPrefix'
  <2>1. IsPrefix(cache.positions, entries)
    BY DEF TimelineInv, MirrorIsPrefix
  <2>2. IsPrefix(cache.positions, entries')
    BY <1>1, <2>1 DEF IsPrefix
  <2> QED
    BY <1>1, <2>2 DEF TimelineInv, MirrorIsPrefix
<1> QED
  BY <1>1, <1>2, <1>3 DEF TimelineInv, PageIsTrue, Shown

LEMMA FormKeepsTrue ==
    ASSUME TimelineInv, NEW f \in Forms, Form(f)
    PROVE  TimelineInv'
<1>1. /\ entries' = entries /\ cache' = cache /\ named' = named /\ form' \in Forms
      /\ stale' = TRUE /\ page'.kind = "none"
  BY DEF Form, NoPage
<1>2. TimelineTypeOK'
  BY <1>1 DEF TimelineInv, TimelineTypeOK
<1>3. MirrorIsPrefix'
  BY <1>1 DEF TimelineInv, MirrorIsPrefix
<1> QED
  BY <1>1, <1>2, <1>3 DEF TimelineInv, PageIsTrue, Shown

LEMMA PrecomputeKeepsTrue ==
    ASSUME TimelineInv, Precompute
    PROVE  TimelineInv'
<1>1. /\ entries' = entries /\ entries \in Seq(Entry) /\ named' = named /\ form' = form
      /\ named \in {"none", "name", "both"} /\ stale' = FALSE /\ page'.kind = "none"
  BY DEF Precompute, NoPage, TimelineInv, TimelineTypeOK
<1>2. \/ named = "none" /\ cache'.positions = <<>> /\ cache'.error = FALSE
      \/ /\ named = "name" \/ (named = "both" /\ form # "whole")
         /\ cache'.positions = <<>> /\ cache'.error = TRUE
      \/ named = "both" /\ form = "whole" /\ cache'.positions = entries /\ cache'.error = FALSE
  BY <1>1 DEF Precompute, Empty
<1>3. TimelineTypeOK'
  <2>1. cache'.positions \in Seq(Entry) /\ cache'.error \in BOOLEAN
    <3>1. <<>> \in Seq(Entry) /\ entries \in Seq(Entry)
      BY <1>1
    <3>2. cache'.positions \in {<<>>, entries} /\ cache'.error \in {TRUE, FALSE}
      BY <1>2
    <3> QED
      BY <3>1, <3>2
  <2>2. stale' \in BOOLEAN
    BY <1>1
  <2> QED
    BY <1>1, <2>1, <2>2 DEF TimelineInv, TimelineTypeOK
<1>4. MirrorIsPrefix'
  <2>1. IsPrefix(<<>>, entries) /\ IsPrefix(entries, entries)
    BY <1>1 DEF IsPrefix
  <2>2. IsPrefix(cache'.positions, entries')
    BY <1>1, <1>2, <2>1
  <2> QED
    BY <1>1, <1>2, <2>2 DEF MirrorIsPrefix
<1> QED
  BY <1>1, <1>3, <1>4 DEF TimelineInv, PageIsTrue, Shown

\* A page that is rendered, of the mirror or of the view.
LEMMA PageKeepsTrue ==
    ASSUME TimelineInv, UNCHANGED <<named, form, entries, cache, stale, forms>>,
           page'.kind \in {"hint", "error", "raised", "refused", "shown"},
           page'.kind = "shown" => BandTrue(page') /\ BodiesTrue(page')
    PROVE  TimelineInv'
<1>1. TimelineTypeOK'
  BY DEF TimelineInv, TimelineTypeOK
<1>2. MirrorIsPrefix'
  BY DEF TimelineInv, MirrorIsPrefix
<1>3. PageIsTrue'
  BY DEF PageIsTrue, Shown, BandTrue, BodiesTrue, Center, Found, Clamp
<1> QED
  BY <1>1, <1>2, <1>3 DEF TimelineInv

LEMMA PanelKeepsTrue ==
    ASSUME TimelineInv, Panel
    PROVE  TimelineInv'
<1> DEFINE p == Rendered(cache.positions, AtEnd, <<>>, [i \in Ids |-> NoBody], TRUE)
<1>1. cache.positions \in Seq(Entry) /\ AtEnd \in Ats /\ <<>> \in Seq(Int)
  BY DEF TimelineInv, TimelineTypeOK, Ats
<1>2. /\ p.kind \in {"hint", "raised", "refused", "shown"}
      /\ p.kind = "shown" => BandTrue(p) /\ BodiesTrue(p)
  BY <1>1, RenderedIsTrue
<1>3. page' = [kind |-> "error"] \/ page' = p
  BY DEF Panel
<1>4. /\ page'.kind \in {"hint", "error", "raised", "refused", "shown"}
      /\ page'.kind = "shown" => BandTrue(page') /\ BodiesTrue(page')
  <2> HIDE DEF p
  <2>1. CASE page' = [kind |-> "error"]
    BY <2>1
  <2>2. CASE page' = p
    BY <1>2, <2>2
  <2> QED
    BY <1>3, <2>1, <2>2
<1> QED
  BY <1>4, PageKeepsTrue DEF Panel

LEMMA RenderKeepsTrue ==
    ASSUME TimelineInv, NEW w \in Windows, NEW at \in Ats, NEW fetched, NEW freeze,
           Render(w, at, fetched, freeze)
    PROVE  TimelineInv'
<1> DEFINE p == Rendered(entries, at, w, fetched, freeze)
<1>1. entries \in Seq(Entry) /\ w \in Seq(Int)
  BY TimelineAssumption DEF TimelineInv, TimelineTypeOK
<1>2. /\ p.kind \in {"hint", "raised", "refused", "shown"}
      /\ p.kind = "shown" => BandTrue(p) /\ BodiesTrue(p)
  BY <1>1, RenderedIsTrue
<1>3. page' = p
  BY DEF Render
<1>4. /\ page'.kind \in {"hint", "error", "raised", "refused", "shown"}
      /\ page'.kind = "shown" => BandTrue(page') /\ BodiesTrue(page')
  <2> HIDE DEF p
  <2> QED
    BY <1>2, <1>3
<1> QED
  BY <1>4, PageKeepsTrue DEF Render

\* The timeline shows what was appended, whatever the substrate does: the mirror is a
\* prefix of the view, the windows hold what was scrolled to, nothing is out of reach,
\* and no body is another's (workflow_view.py, sliding_window.py).
THEOREM TimelineTrue == TimelineSpec => []TimelineIsTrue
<1>1. TimelineInv /\ [TimelineNext]_timelineVars => TimelineInv'
  <2> SUFFICES ASSUME TimelineInv, [TimelineNext]_timelineVars PROVE TimelineInv'
    OBVIOUS
  <2>1. ASSUME NEW e \in Entry, Append1(e) PROVE TimelineInv'
    BY <2>1, AppendKeepsTrue
  <2>2. ASSUME NEW f \in Forms, Form(f) PROVE TimelineInv'
    BY <2>2, FormKeepsTrue
  <2>3. CASE Precompute
    BY <2>3, PrecomputeKeepsTrue
  <2>4. CASE Panel
    BY <2>4, PanelKeepsTrue
  <2>5. ASSUME NEW w \in Windows, NEW at \in Ats, NEW fetched \in Fetches, NEW freeze \in BOOLEAN,
               Render(w, at, fetched, freeze)
        PROVE  TimelineInv'
    BY <2>5, RenderKeepsTrue
  <2>6. CASE UNCHANGED timelineVars
    BY <2>6 DEF timelineVars, TimelineInv, TimelineTypeOK, MirrorIsPrefix, PageIsTrue, Shown,
                BandTrue, BodiesTrue
  <2> QED
    BY <2>1, <2>2, <2>3, <2>4, <2>5, <2>6 DEF TimelineNext, Ats
<1> QED
  BY <1>1, TimelineStarts, InvIsTrue, PTL DEF TimelineSpec

--------------------------------------------------------------------------------
(* Panels and the calls that place them *)

PanelRecs == [made : Nat, x : Int, w : Int, locked : BOOLEAN, archived : BOOLEAN]
PanelCalls == [at : {"idle", "insert", "check", "write", "size", "return"}, verb : Verbs,
               panel : PanelIds, x : Int, w : Int, made : Nat, crossed : BOOLEAN]

PlacesTyped ==
    /\ panels \in [PanelIds -> PanelRecs] /\ call \in [Tabs -> PanelCalls]
    /\ promised \subseteq PanelIds /\ replaced \subseteq PanelIds

\* The call has a record in hand.
HasOne(t) == call[t].at \in {"check", "write", "size", "return"}

\* A call's record is the panel's, or another has replaced it; a lock nothing has
\* crossed has no unlock beside it, and when it is about to answer it is there.
CallsInv ==
    \A t \in Tabs :
        /\ HasOne(t) => /\ 0 < call[t].made /\ call[t].made <= panels[Rec(t)].made
                        /\ Current(t) \/ Rec(t) \in replaced
        /\ At(t, "size") => call[t].verb = "register"
        /\ InCall(t) /\ call[t].verb = "lock" /\ ~call[t].crossed =>
              \A u \in Others(t, Rec(t)) : call[u].verb # "unlock"
        /\ At(t, "return") /\ call[t].verb = "lock" /\ ~call[t].crossed /\ Current(t) =>
              panels[Rec(t)].locked

\* Once a lock was answered, who may still change the panel began before, and nobody
\* is about to unlock it.
PromisedInv ==
    \A p \in promised :
        /\ HasRecord(p)
        /\ p \in replaced \/ panels[p].locked
        /\ \A t \in Tabs : InCall(t) /\ Rec(t) = p =>
              /\ call[t].verb # "unlock"
              /\ At(t, "insert") => call[t].crossed
              /\ At(t, "write") /\ call[t].verb \in {"move", "resize", "snap"} =>
                    call[t].crossed \/ p \in replaced

\* A size that was asked for is left only while the registration that brought it runs.
SoundSize(w) == w >= LeastSize /\ (w % SnapGrid = 0 \/ w \in {LeastSize, FirstSize})
Registers(t, p) ==
    /\ call[t].at \in {"check", "write", "size"} /\ call[t].verb = "register"
    /\ Rec(t) = p /\ Current(t)
SizesInv == \A p \in PanelIds :
    HasRecord(p) => SoundSize(panels[p].w) \/ \E t \in Tabs : Registers(t, p)

PlacesInv == PlacesTyped /\ CallsInv /\ PromisedInv /\ SizesInv

LEMMA PlacesStart == PlacesInit => PlacesInv
<1> SUFFICES ASSUME PlacesInit PROVE PlacesInv
  OBVIOUS
<1>1. NoPanel \in PanelRecs /\ NoPanel.made = 0
  BY PlacesAssumption DEF NoPanel, PanelRecs
<1>2. NoCall \in PanelCalls /\ NoCall.at = "idle" /\ NoCall.verb = "move"
  <2>1. (CHOOSE p \in PanelIds : TRUE) \in PanelIds
    BY PlacesAssumption
  <2> QED
    BY <2>1 DEF NoCall, PanelCalls, Verbs
<1>3. /\ \A p \in PanelIds : panels[p] = NoPanel
      /\ \A t \in Tabs : call[t] = NoCall
      /\ promised = {} /\ replaced = {}
      /\ panels \in [PanelIds -> PanelRecs] /\ call \in [Tabs -> PanelCalls]
  BY <1>1, <1>2 DEF PlacesInit
<1>4. PlacesTyped
  BY <1>3 DEF PlacesTyped
<1>5. CallsInv
  BY <1>2, <1>3 DEF CallsInv, HasOne, At, InCall
<1>6. PromisedInv
  BY <1>3 DEF PromisedInv
<1>7. SizesInv
  BY <1>1, <1>3 DEF SizesInv, HasRecord
<1> QED
  BY <1>4, <1>5, <1>6, <1>7 DEF PlacesInv

\* What is rounded to the grid is on it.
LEMMA GridDivides ==
    ASSUME NEW g \in Nat \ {0}, NEW k \in Int
    PROVE  (g * k) % g = 0
<1> DEFINE q == (g * k) \div g  r == (g * k) % g
<1>1. q \in Int /\ r \in 0 .. g - 1 /\ g * k = g * q + r
  OBVIOUS
<1> HIDE DEF q, r
<1>2. g * (k - q) = r
  BY <1>1
<1>3. k - q <= 0
  <2> SUFFICES ASSUME k - q >= 1 PROVE FALSE
    BY <1>1
  <2>1. g * (k - q) >= g
    BY <1>1
  <2> QED
    BY <1>1, <1>2, <2>1
<1>4. k - q >= 0
  <2> SUFFICES ASSUME k - q <= -1 PROVE FALSE
    BY <1>1
  <2>1. g * (k - q) <= -g
    BY <1>1
  <2> QED
    BY <1>1, <1>2, <2>1
<1>5. k = q
  BY <1>1, <1>3, <1>4
<1>6. r = 0
  BY <1>1, <1>2, <1>5
<1> QED
  BY <1>6 DEF r

LEMMA WidthIsSound ==
    ASSUME NEW n \in Int
    PROVE  Width(n) \in Int /\ SoundSize(Width(n)) /\ OnGrid(n) \in Int
<1> DEFINE q == n \div SnapGrid  r == 2 * (n % SnapGrid)
           k == IF r > SnapGrid \/ (r = SnapGrid /\ q % 2 = 1) THEN q + 1 ELSE q
<1>1. SnapGrid \in Nat \ {0} /\ LeastSize \in Nat
  BY PlacesAssumption
<1>2. OnGrid(n) = SnapGrid * k
  BY DEF OnGrid
<1>3. k \in Int
  <2>1. q \in Int
    BY <1>1
  <2> HIDE DEF q, r
  <2> QED
    BY <2>1
<1> HIDE DEF k
<1>4. OnGrid(n) \in Int /\ OnGrid(n) % SnapGrid = 0
  BY <1>1, <1>2, <1>3, GridDivides
<1> QED
  BY <1>1, <1>4 DEF Width, SoundSize

\* One lemma per action.  A call begins: others may learn that it crosses them.
LEMMA FetchKeeps ==
    ASSUME PlacesInv, NEW t \in Tabs, NEW verb \in Verbs, NEW p \in PanelIds,
           NEW x \in Int, NEW w \in Int, Fetch(t, verb, p, x, w)
    PROVE  PlacesInv'
<1> DEFINE mine == [at |-> IF HasRecord(p) THEN "check" ELSE IF verb = "snap" THEN "idle" ELSE "insert",
               verb |-> verb, panel |-> p, x |-> x, w |-> w, made |-> panels[p].made,
               crossed |-> verb = "lock" /\ \E v \in Others(t, p) : call[v].verb = "unlock"]
           crosses(u) == verb = "unlock" /\ u \in Others(t, p) /\ call[u].verb = "lock"
<1>1. /\ PlacesTyped /\ CallsInv /\ PromisedInv /\ SizesInv
      /\ panels \in [PanelIds -> PanelRecs] /\ call \in [Tabs -> PanelCalls]
  BY DEF PlacesInv, PlacesTyped
<1>2. /\ panels' = panels /\ replaced' = replaced
      /\ promised' = IF verb = "unlock" THEN promised \ {p} ELSE promised
      /\ call' = [u \in Tabs |-> IF u = t THEN mine
                                 ELSE IF crosses(u) THEN [call[u] EXCEPT !.crossed = TRUE] ELSE call[u]]
      /\ call[t].at = "idle"
  BY Zenon DEF Fetch, At
<1>3. call'[t] = mine
  BY <1>2
<1>4. /\ mine \in PanelCalls
      /\ mine.verb = verb /\ mine.panel = p /\ mine.made = panels[p].made
      /\ mine.at \in {"check", "insert", "idle"}
      /\ mine.at = "check" <=> HasRecord(p)
      /\ mine.at = "insert" => ~HasRecord(p)
      /\ mine.crossed = (verb = "lock" /\ \E v \in Others(t, p) : call[v].verb = "unlock")
  <2>1. panels[p].made \in Nat
    BY <1>1 DEF PanelRecs
  <2>2. (verb = "lock" /\ \E v \in Others(t, p) : call[v].verb = "unlock") \in BOOLEAN
    OBVIOUS
  <2> QED
    BY <2>1, <2>2 DEF PanelCalls
<1>5. \A u \in Tabs \ {t} :
        /\ call'[u] \in PanelCalls
        /\ call'[u].at = call[u].at /\ call'[u].verb = call[u].verb /\ call'[u].panel = call[u].panel
        /\ call'[u].made = call[u].made
        /\ call[u].crossed => call'[u].crossed
        /\ crosses(u) => call'[u].crossed
  <2> SUFFICES ASSUME NEW u \in Tabs \ {t}
               PROVE  /\ call'[u] \in PanelCalls
                      /\ call'[u].at = call[u].at /\ call'[u].verb = call[u].verb
                      /\ call'[u].panel = call[u].panel
                      /\ call'[u].made = call[u].made
                      /\ call[u].crossed => call'[u].crossed
                      /\ crosses(u) => call'[u].crossed
    BY Zenon
  <2> HIDE DEF crosses, mine
  <2>1. call[u] \in PanelCalls /\ call'[u] = IF crosses(u) THEN [call[u] EXCEPT !.crossed = TRUE] ELSE call[u]
    BY <1>1, <1>2
  <2>2. CASE crosses(u)
    BY <2>1, <2>2 DEF PanelCalls
  <2>3. CASE ~crosses(u)
    BY <2>1, <2>3
  <2> QED
    BY <2>2, <2>3
<1> HIDE DEF mine
<1>6. PlacesTyped'
  <2>1. call' \in [Tabs -> PanelCalls]
    <3>1. \A u \in Tabs : call'[u] \in PanelCalls
      BY <1>3, <1>4, <1>5
    <3>2. call' = [u \in Tabs |-> call'[u]]
      BY <1>2
    <3> QED
      BY <3>1, <3>2, Zenon
  <2> QED
    BY <1>1, <1>2, <2>1 DEF PlacesTyped
<1>7. CallsInv'
  <2> SUFFICES ASSUME NEW u \in Tabs
               PROVE  /\ HasOne(u)' => /\ 0 < call'[u].made /\ call'[u].made <= panels'[call'[u].panel].made
                                       /\ call'[u].made = panels'[call'[u].panel].made \/ call'[u].panel \in replaced'
                      /\ call'[u].at = "size" => call'[u].verb = "register"
                      /\ call'[u].at # "idle" /\ call'[u].verb = "lock" /\ ~call'[u].crossed =>
                            \A v \in Tabs \ {u} : call'[v].at # "idle" /\ call'[v].panel = call'[u].panel
                                  => call'[v].verb # "unlock"
                      /\ call'[u].at = "return" /\ call'[u].verb = "lock" /\ ~call'[u].crossed
                            /\ call'[u].made = panels'[call'[u].panel].made => panels'[call'[u].panel].locked
    BY DEF CallsInv, HasOne, At, InCall, Current, Rec, Others
  <2>1. CASE u = t
    <3>1. panels[p].made \in Nat
      BY <1>1 DEF PanelRecs
    <3>2. /\ HasOne(u)' => HasRecord(p)
          /\ call'[u].at \in {"check", "insert", "idle"}
          /\ call'[u].verb = verb /\ call'[u].panel = p /\ call'[u].made = panels'[p].made
      BY <1>2, <1>3, <1>4, <2>1 DEF HasOne
    <3>3. ASSUME call'[u].verb = "lock", ~call'[u].crossed,
                 NEW v \in Tabs \ {u}, call'[v].at # "idle", call'[v].panel = call'[u].panel
          PROVE  call'[v].verb # "unlock"
      <4>1. v \in Others(t, p)
        BY <1>5, <2>1, <3>2, <3>3 DEF Others, At, Rec
      <4>2. call[v].verb # "unlock"
        BY <1>3, <1>4, <2>1, <3>3, <4>1
      <4> QED
        BY <1>5, <2>1, <4>2
    <3> QED
      BY <1>2, <3>1, <3>2, <3>3 DEF HasRecord
  <2>2. CASE u # t
    <3>1. /\ HasOne(u) => /\ 0 < call[u].made /\ call[u].made <= panels[call[u].panel].made
                          /\ call[u].made = panels[call[u].panel].made \/ call[u].panel \in replaced
          /\ call[u].at = "size" => call[u].verb = "register"
          /\ call[u].at # "idle" /\ call[u].verb = "lock" /\ ~call[u].crossed =>
                \A v \in Tabs \ {u} : call[v].at # "idle" /\ call[v].panel = call[u].panel
                      => call[v].verb # "unlock"
          /\ call[u].at = "return" /\ call[u].verb = "lock" /\ ~call[u].crossed
                /\ call[u].made = panels[call[u].panel].made => panels[call[u].panel].locked
      BY <1>1 DEF CallsInv, HasOne, At, InCall, Current, Rec, Others
    <3>2. u \in Tabs \ {t}
      BY <2>2
    <3>3. call'[u].at # "idle" /\ call'[u].verb = "lock" /\ ~call'[u].crossed =>
             \A v \in Tabs \ {u} : call'[v].at # "idle" /\ call'[v].panel = call'[u].panel
                   => call'[v].verb # "unlock"
      <4> SUFFICES ASSUME call'[u].at # "idle", call'[u].verb = "lock", ~call'[u].crossed,
                          NEW v \in Tabs \ {u}, call'[v].at # "idle", call'[v].panel = call'[u].panel
                   PROVE  call'[v].verb # "unlock"
        OBVIOUS
      <4>1. call[u].at # "idle" /\ call[u].verb = "lock" /\ ~call[u].crossed /\ call[u].panel = call'[u].panel
        BY <1>5, <3>2
      <4>2. CASE v = t
        <5>1. ~crosses(u)
          BY <1>5, <3>2
        <5>2. call[u].panel = p /\ call'[v].verb = verb
          BY <1>3, <1>4, <4>1, <4>2
        <5>3. u \in Others(t, p)
          BY <3>2, <4>1, <5>2 DEF Others, At, Rec
        <5> QED
          BY <4>1, <5>1, <5>2, <5>3
      <4>3. CASE v # t
        BY <1>5, <3>1, <4>1, <4>3
      <4> QED
        BY <4>2, <4>3
    <3> QED
      BY <1>2, <1>5, <3>1, <3>2, <3>3 DEF HasOne
  <2> QED
    BY <2>1, <2>2
<1>8. PromisedInv'
  <2> SUFFICES ASSUME NEW q \in promised'
               PROVE  /\ panels'[q].made > 0
                      /\ q \in replaced' \/ panels'[q].locked
                      /\ \A u \in Tabs : call'[u].at # "idle" /\ call'[u].panel = q =>
                            /\ call'[u].verb # "unlock"
                            /\ call'[u].at = "insert" => call'[u].crossed
                            /\ call'[u].at = "write" /\ call'[u].verb \in {"move", "resize", "snap"} =>
                                  call'[u].crossed \/ q \in replaced'
    BY DEF PromisedInv, HasRecord, At, InCall, Rec
  <2>1. q \in promised /\ (verb = "unlock" => q # p)
    BY <1>2
  <2>2. /\ panels[q].made > 0
        /\ q \in replaced \/ panels[q].locked
        /\ \A u \in Tabs : call[u].at # "idle" /\ call[u].panel = q =>
              /\ call[u].verb # "unlock"
              /\ call[u].at = "insert" => call[u].crossed
              /\ call[u].at = "write" /\ call[u].verb \in {"move", "resize", "snap"} =>
                    call[u].crossed \/ q \in replaced
    BY <1>1, <2>1 DEF PromisedInv, HasRecord, At, InCall, Rec
  <2>3. ASSUME NEW u \in Tabs, call'[u].at # "idle", call'[u].panel = q
        PROVE  /\ call'[u].verb # "unlock"
               /\ call'[u].at = "insert" => call'[u].crossed
               /\ call'[u].at = "write" /\ call'[u].verb \in {"move", "resize", "snap"} =>
                     call'[u].crossed \/ q \in replaced'
    <3>1. CASE u = t
      <4>1. p = q /\ call'[u].verb = verb /\ HasRecord(p)
        BY <1>3, <1>4, <2>2, <2>3, <3>1 DEF HasRecord
      <4> QED
        BY <1>3, <1>4, <2>1, <3>1, <4>1
    <3>2. CASE u # t
      BY <1>2, <1>5, <2>2, <2>3, <3>2
    <3> QED
      BY <3>1, <3>2
  <2> QED
    BY <1>2, <2>2, <2>3
<1>9. SizesInv'
  <2> SUFFICES ASSUME NEW q \in PanelIds, panels'[q].made > 0, ~SoundSize(panels'[q].w)
               PROVE  \E u \in Tabs : /\ call'[u].at \in {"check", "write", "size"} /\ call'[u].verb = "register"
                                      /\ call'[u].panel = q /\ call'[u].made = panels'[call'[u].panel].made
    BY DEF SizesInv, HasRecord, Registers, Current, Rec, SoundSize
  <2>1. PICK u \in Tabs : /\ call[u].at \in {"check", "write", "size"} /\ call[u].verb = "register"
                          /\ call[u].panel = q /\ call[u].made = panels[call[u].panel].made
    BY <1>1, <1>2 DEF SizesInv, HasRecord, Registers, Current, Rec
  <2>2. u \in Tabs \ {t}
    BY <1>2, <2>1
  <2> QED
    BY <1>2, <1>5, <2>1, <2>2
<1> QED
  BY <1>6, <1>7, <1>8, <1>9 DEF PlacesInv

\* What the other calls know of themselves, and of a panel, in plain terms.
CallsPlain(cl, ps, rs) ==
    \A u \in Tabs :
        /\ cl[u].at \in {"check", "write", "size", "return"} =>
              /\ 0 < cl[u].made /\ cl[u].made <= ps[cl[u].panel].made
              /\ cl[u].made = ps[cl[u].panel].made \/ cl[u].panel \in rs
        /\ cl[u].at = "size" => cl[u].verb = "register"
        /\ cl[u].at # "idle" /\ cl[u].verb = "lock" /\ ~cl[u].crossed =>
              \A v \in Tabs \ {u} : cl[v].at # "idle" /\ cl[v].panel = cl[u].panel => cl[v].verb # "unlock"
        /\ cl[u].at = "return" /\ cl[u].verb = "lock" /\ ~cl[u].crossed /\ cl[u].made = ps[cl[u].panel].made
              => ps[cl[u].panel].locked
PromisedPlain(cl, ps, rs, pr) ==
    \A q \in pr :
        /\ ps[q].made > 0
        /\ q \in rs \/ ps[q].locked
        /\ \A u \in Tabs : cl[u].at # "idle" /\ cl[u].panel = q =>
              /\ cl[u].verb # "unlock"
              /\ cl[u].at = "insert" => cl[u].crossed
              /\ cl[u].at = "write" /\ cl[u].verb \in {"move", "resize", "snap"} => cl[u].crossed \/ q \in rs
SizesPlain(cl, ps) ==
    \A q \in PanelIds : ps[q].made > 0 =>
        \/ SoundSize(ps[q].w)
        \/ \E u \in Tabs : /\ cl[u].at \in {"check", "write", "size"} /\ cl[u].verb = "register"
                           /\ cl[u].panel = q /\ cl[u].made = ps[q].made

LEMMA Plainly ==
    /\ PlacesInv <=> /\ PlacesTyped /\ CallsPlain(call, panels, replaced)
                     /\ PromisedPlain(call, panels, replaced, promised) /\ SizesPlain(call, panels)
    /\ PlacesInv' <=> /\ PlacesTyped' /\ CallsPlain(call', panels', replaced')
                      /\ PromisedPlain(call', panels', replaced', promised') /\ SizesPlain(call', panels')
<1>1. CallsInv <=> CallsPlain(call, panels, replaced)
  BY DEF CallsInv, CallsPlain, HasOne, At, InCall, Current, Rec, Others
<1>2. CallsInv' <=> CallsPlain(call', panels', replaced')
  BY DEF CallsInv, CallsPlain, HasOne, At, InCall, Current, Rec, Others
<1>3. PromisedInv <=> PromisedPlain(call, panels, replaced, promised)
  BY DEF PromisedInv, PromisedPlain, HasRecord, At, InCall, Rec
<1>4. PromisedInv' <=> PromisedPlain(call', panels', replaced', promised')
  BY DEF PromisedInv, PromisedPlain, HasRecord, At, InCall, Rec
<1>5. SizesInv <=> SizesPlain(call, panels)
  BY DEF SizesInv, SizesPlain, HasRecord, Registers, Current, Rec, SoundSize
<1>6. SizesInv' <=> SizesPlain(call', panels')
  BY DEF SizesInv, SizesPlain, HasRecord, Registers, Current, Rec, SoundSize
<1> QED
  BY <1>1, <1>2, <1>3, <1>4, <1>5, <1>6 DEF PlacesInv

LEMMA InsertKeeps ==
    ASSUME PlacesInv, NEW t \in Tabs, Insert(t)
    PROVE  PlacesInv'
<1> DEFINE p == call[t].panel
           rec == panels'[p]
<1>1. /\ panels \in [PanelIds -> PanelRecs] /\ call \in [Tabs -> PanelCalls]
      /\ promised \subseteq PanelIds /\ replaced \subseteq PanelIds
      /\ CallsPlain(call, panels, replaced)
      /\ PromisedPlain(call, panels, replaced, promised) /\ SizesPlain(call, panels)
  BY Plainly DEF PlacesTyped
<1>2. call[t] \in PanelCalls /\ p \in PanelIds /\ panels[p] \in PanelRecs /\ panels[p].made \in Nat
      /\ call[t].w \in Int
  BY <1>1 DEF PanelCalls, PanelRecs
<1>3. /\ call[t].at = "insert" /\ promised' = promised
      /\ replaced' = IF panels[p].made > 0 THEN replaced \cup {p} ELSE replaced
      /\ panels' = [panels EXCEPT ![p] = [NoPanel EXCEPT !.made = panels[p].made + 1,
                        !.w = IF call[t].verb = "register" THEN call[t].w ELSE FirstSize]]
      /\ call' = [call EXCEPT ![t].at = "check", ![t].made = panels[p].made + 1]
  BY DEF Insert, At, Rec, HasRecord
<1>4. /\ rec \in PanelRecs /\ rec.made = panels[p].made + 1
      /\ rec.w = IF call[t].verb = "register" THEN call[t].w ELSE FirstSize
      /\ panels' \in [PanelIds -> PanelRecs]
      /\ \A q \in PanelIds \ {p} : panels'[q] = panels[q]
  <2> DEFINE m == panels[p].made + 1
             width == IF call[t].verb = "register" THEN call[t].w ELSE FirstSize
             new == [NoPanel EXCEPT !.made = m, !.w = width]
  <2>2. width \in Int /\ m \in Nat
    BY <1>2, PlacesAssumption
  <2>3. new \in PanelRecs /\ new.made = m /\ new.w = width
    <3> HIDE DEF width, m
    <3>1. NoPanel \in PanelRecs
      BY PlacesAssumption DEF NoPanel, PanelRecs
    <3> QED
      BY <2>2, <3>1 DEF PanelRecs
  <2> HIDE DEF new
  <2>4. panels' = [panels EXCEPT ![p] = new]
    BY <1>3 DEF new
  <2> HIDE DEF p
  <2>5. panels'[p] = new
    BY <1>1, <1>2, <2>4
  <2> QED
    BY <1>1, <1>2, <2>3, <2>4, <2>5 DEF width, m
<1>5. /\ call' \in [Tabs -> PanelCalls]
      /\ call'[t].at = "check" /\ call'[t].made = panels[p].made + 1
      /\ call'[t].verb = call[t].verb /\ call'[t].panel = p /\ call'[t].crossed = call[t].crossed
      /\ \A u \in Tabs \ {t} : call'[u] = call[u]
  <2>1. panels[p].made + 1 \in Nat
    BY <1>2
  <2> DEFINE m == panels[p].made + 1  new == [call[t] EXCEPT !.at = "check", !.made = m]
  <2>2. call' = [call EXCEPT ![t] = new]
    BY <1>1, <1>3
  <2> HIDE DEF m
  <2>3. /\ new \in PanelCalls /\ new.at = "check" /\ new.made = m
        /\ new.verb = call[t].verb /\ new.panel = call[t].panel /\ new.crossed = call[t].crossed
    BY <1>2, <2>1 DEF PanelCalls, m
  <2> HIDE DEF new
  <2> QED
    BY <1>1, <2>2, <2>3 DEF m
<1> HIDE DEF p, rec
<1>6. PlacesTyped'
  BY <1>1, <1>2, <1>3, <1>4, <1>5 DEF PlacesTyped
<1>7. CallsPlain(call', panels', replaced')
  <2> SUFFICES ASSUME NEW u \in Tabs
        PROVE  /\ call'[u].at \in {"check", "write", "size", "return"} =>
                     /\ 0 < call'[u].made /\ call'[u].made <= panels'[call'[u].panel].made
                     /\ call'[u].made = panels'[call'[u].panel].made \/ call'[u].panel \in replaced'
               /\ call'[u].at = "size" => call'[u].verb = "register"
               /\ call'[u].at # "idle" /\ call'[u].verb = "lock" /\ ~call'[u].crossed =>
                     \A v \in Tabs \ {u} : call'[v].at # "idle" /\ call'[v].panel = call'[u].panel
                         => call'[v].verb # "unlock"
               /\ call'[u].at = "return" /\ call'[u].verb = "lock" /\ ~call'[u].crossed
                    /\ call'[u].made = panels'[call'[u].panel].made => panels'[call'[u].panel].locked
    BY DEF CallsPlain
  <2>1. /\ call[u].at # "idle" /\ call[u].verb = "lock" /\ ~call[u].crossed =>
             \A v \in Tabs \ {u} : call[v].at # "idle" /\ call[v].panel = call[u].panel => call[v].verb # "unlock"
        /\ call[u].at \in {"check", "write", "size", "return"} =>
              /\ 0 < call[u].made /\ call[u].made <= panels[call[u].panel].made
              /\ call[u].made = panels[call[u].panel].made \/ call[u].panel \in replaced
        /\ call[u].at = "size" => call[u].verb = "register"
        /\ call[u].at = "return" /\ call[u].verb = "lock" /\ ~call[u].crossed
             /\ call[u].made = panels[call[u].panel].made => panels[call[u].panel].locked
        /\ call[u].panel \in PanelIds /\ call[u].made \in Nat /\ panels[call[u].panel].made \in Nat
    BY <1>1 DEF CallsPlain, PanelCalls, PanelRecs
  <2>2. call'[u].at # "idle" /\ call'[u].verb = "lock" /\ ~call'[u].crossed =>
             \A v \in Tabs \ {u} : call'[v].at # "idle" /\ call'[v].panel = call'[u].panel => call'[v].verb # "unlock"
    BY <1>3, <1>5, <2>1 DEF p
  <2>3. CASE u = t
    BY <1>2, <1>4, <1>5, <2>2, <2>3 DEF rec
  <2>4. CASE u # t
    <3>1. call'[u] = call[u]
      BY <1>5, <2>4
    <3>2. CASE call[u].panel = p
      <4>1. call[u].at \in {"check", "write", "size", "return"} =>
              /\ 0 < call[u].made /\ call[u].made <= panels'[p].made /\ call[u].made # panels'[p].made
              /\ p \in replaced'
        BY <1>2, <1>3, <1>4, <2>1, <3>2 DEF rec
      <4> QED
        BY <2>1, <2>2, <3>1, <3>2, <4>1
    <3>3. CASE call[u].panel # p
      <4>1. panels'[call[u].panel] = panels[call[u].panel]
        BY <1>4, <2>1, <3>3
      <4>2. call[u].panel \in replaced => call[u].panel \in replaced'
        BY <1>3
      <4> QED
        BY <2>1, <2>2, <3>1, <4>1, <4>2
    <3> QED
      BY <3>2, <3>3
  <2> QED
    BY <2>3, <2>4
<1>8. PromisedPlain(call', panels', replaced', promised')
  <2> SUFFICES ASSUME NEW q \in promised
               PROVE  /\ panels'[q].made > 0
                      /\ q \in replaced' \/ panels'[q].locked
                      /\ \A u \in Tabs : call'[u].at # "idle" /\ call'[u].panel = q =>
                            /\ call'[u].verb # "unlock"
                            /\ call'[u].at = "insert" => call'[u].crossed
                            /\ call'[u].at = "write" /\ call'[u].verb \in {"move", "resize", "snap"} =>
                                  call'[u].crossed \/ q \in replaced'
    BY <1>3 DEF PromisedPlain
  <2>1. /\ panels[q].made > 0 /\ q \in PanelIds
        /\ q \in replaced \/ panels[q].locked
        /\ \A u \in Tabs : call[u].at # "idle" /\ call[u].panel = q =>
              /\ call[u].verb # "unlock"
              /\ call[u].at = "insert" => call[u].crossed
              /\ call[u].at = "write" /\ call[u].verb \in {"move", "resize", "snap"} =>
                    call[u].crossed \/ q \in replaced
    BY <1>1 DEF PromisedPlain
  <2>2. ASSUME NEW u \in Tabs, call'[u].at # "idle", call'[u].panel = q
        PROVE  /\ call'[u].verb # "unlock"
               /\ call'[u].at = "insert" => call'[u].crossed
               /\ call'[u].at = "write" /\ call'[u].verb \in {"move", "resize", "snap"} =>
                     call'[u].crossed \/ q \in replaced'
    BY <1>3, <1>5, <2>1, <2>2 DEF p
  <2>3. CASE q = p
    <3>1. panels'[q].made > 0 /\ q \in replaced'
      BY <1>2, <1>3, <1>4, <2>1, <2>3 DEF rec
    <3> QED
      BY <2>2, <3>1
  <2>4. CASE q # p
    BY <1>3, <1>4, <2>1, <2>2, <2>4
  <2> QED
    BY <2>3, <2>4
<1>9. SizesPlain(call', panels')
  <2> SUFFICES ASSUME NEW q \in PanelIds, panels'[q].made > 0, ~SoundSize(panels'[q].w)
               PROVE  \E u \in Tabs : /\ call'[u].at \in {"check", "write", "size"} /\ call'[u].verb = "register"
                                      /\ call'[u].panel = q /\ call'[u].made = panels'[q].made
    BY DEF SizesPlain
  <2>1. CASE q = p
    <3>1. SoundSize(FirstSize)
      BY PlacesAssumption DEF SoundSize
    <3>2. call[t].verb = "register"
      BY <1>4, <2>1, <3>1 DEF rec
    <3> QED
      BY <1>4, <1>5, <2>1, <3>2 DEF rec
  <2>2. CASE q # p
    <3>1. PICK u \in Tabs : /\ call[u].at \in {"check", "write", "size"} /\ call[u].verb = "register"
                            /\ call[u].panel = q /\ call[u].made = panels[q].made
      BY <1>1, <1>4, <2>2 DEF SizesPlain
    <3>2. u # t
      BY <1>3, <3>1
    <3> QED
      BY <1>4, <1>5, <2>2, <3>1, <3>2
  <2> QED
    BY <2>1, <2>2
<1> QED
  BY <1>6, <1>7, <1>8, <1>9, Plainly

\* The other steps of a call leave the records that were made, and what is told of
\* the panels; a call that goes on by itself is where it was of the same call.
LEMMA GoesOn ==
    ASSUME PlacesInv, NEW t \in Tabs,
           call' \in [Tabs -> PanelCalls], panels' \in [PanelIds -> PanelRecs],
           promised' = promised, replaced' = replaced,
           \A u \in Tabs \ {t} : call'[u] = call[u],
           HasOne(t), HasOne(t)',
           /\ call'[t].verb = call[t].verb /\ call'[t].panel = call[t].panel
           /\ call'[t].made = call[t].made /\ call'[t].crossed = call[t].crossed,
           \A q \in PanelIds :
              /\ panels'[q].made = panels[q].made
              /\ panels[q].locked /\ ~panels'[q].locked =>
                    call[t].verb = "unlock" /\ call[t].panel = q
              /\ panels'[q].w = panels[q].w \/ SoundSize(panels'[q].w),
           call'[t].at = "size" => call[t].verb = "register",
           call'[t].at = "return" /\ call[t].verb = "lock" /\ call[t].made = panels[call[t].panel].made =>
              panels'[call[t].panel].locked,
           call'[t].at = "write" /\ call[t].verb \in {"move", "resize", "snap"}
              /\ call[t].made = panels[call[t].panel].made =>
              ~panels[call[t].panel].locked,
           call'[t].at = "return" /\ call[t].verb = "register" /\ call[t].made = panels[call[t].panel].made =>
              SoundSize(panels'[call[t].panel].w)
    PROVE  PlacesInv'
<1>1. /\ panels \in [PanelIds -> PanelRecs] /\ call \in [Tabs -> PanelCalls]
      /\ promised \subseteq PanelIds /\ replaced \subseteq PanelIds
      /\ CallsPlain(call, panels, replaced)
      /\ PromisedPlain(call, panels, replaced, promised) /\ SizesPlain(call, panels)
  BY Plainly DEF PlacesTyped
<1>2. PlacesTyped'
  BY <1>1 DEF PlacesTyped
<1>3. /\ call[t].at \in {"check", "write", "size", "return"}
      /\ call'[t].at \in {"check", "write", "size", "return"}
  BY DEF HasOne
<1>4. CallsPlain(call', panels', replaced')
  <2> SUFFICES ASSUME NEW u \in Tabs
        PROVE  /\ call'[u].at \in {"check", "write", "size", "return"} =>
                     /\ 0 < call'[u].made /\ call'[u].made <= panels'[call'[u].panel].made
                     /\ call'[u].made = panels'[call'[u].panel].made \/ call'[u].panel \in replaced'
               /\ call'[u].at = "size" => call'[u].verb = "register"
               /\ call'[u].at # "idle" /\ call'[u].verb = "lock" /\ ~call'[u].crossed =>
                     \A v \in Tabs \ {u} : call'[v].at # "idle" /\ call'[v].panel = call'[u].panel
                         => call'[v].verb # "unlock"
               /\ call'[u].at = "return" /\ call'[u].verb = "lock" /\ ~call'[u].crossed
                    /\ call'[u].made = panels'[call'[u].panel].made => panels'[call'[u].panel].locked
    BY DEF CallsPlain
  <2>1. /\ call[u].at # "idle" /\ call[u].verb = "lock" /\ ~call[u].crossed =>
             \A v \in Tabs \ {u} : call[v].at # "idle" /\ call[v].panel = call[u].panel => call[v].verb # "unlock"
        /\ call[u].at \in {"check", "write", "size", "return"} =>
              /\ 0 < call[u].made /\ call[u].made <= panels[call[u].panel].made
              /\ call[u].made = panels[call[u].panel].made \/ call[u].panel \in replaced
        /\ call[u].at = "size" => call[u].verb = "register"
        /\ call[u].at = "return" /\ call[u].verb = "lock" /\ ~call[u].crossed
             /\ call[u].made = panels[call[u].panel].made => panels[call[u].panel].locked
        /\ call[u].panel \in PanelIds
    BY <1>1 DEF CallsPlain, PanelCalls
  <2>2. call'[u].at # "idle" /\ call'[u].verb = "lock" /\ ~call'[u].crossed =>
             \A v \in Tabs \ {u} : call'[v].at # "idle" /\ call'[v].panel = call'[u].panel => call'[v].verb # "unlock"
    BY <1>3, <2>1
  <2>3. panels'[call[u].panel].made = panels[call[u].panel].made
    BY <2>1
  <2>4. CASE u = t
    BY <1>3, <2>1, <2>2, <2>3, <2>4
  <2>5. CASE u # t
    <3>1. call'[u] = call[u]
      BY <2>5
    <3>2. call[u].at = "return" /\ call[u].verb = "lock" /\ ~call[u].crossed
             /\ call[u].made = panels[call[u].panel].made => panels'[call[u].panel].locked
      BY <1>3, <2>1, <2>5
    <3> QED
      BY <2>1, <2>2, <2>3, <3>1, <3>2
  <2> QED
    BY <2>4, <2>5
<1>5. PromisedPlain(call', panels', replaced', promised')
  <2> SUFFICES ASSUME NEW q \in promised
               PROVE  /\ panels'[q].made > 0
                      /\ q \in replaced \/ panels'[q].locked
                      /\ \A u \in Tabs : call'[u].at # "idle" /\ call'[u].panel = q =>
                            /\ call'[u].verb # "unlock"
                            /\ call'[u].at = "insert" => call'[u].crossed
                            /\ call'[u].at = "write" /\ call'[u].verb \in {"move", "resize", "snap"} =>
                                  call'[u].crossed \/ q \in replaced
    BY DEF PromisedPlain
  <2>1. /\ panels[q].made > 0 /\ q \in PanelIds
        /\ q \in replaced \/ panels[q].locked
        /\ \A u \in Tabs : call[u].at # "idle" /\ call[u].panel = q =>
              /\ call[u].verb # "unlock"
              /\ call[u].at = "insert" => call[u].crossed
              /\ call[u].at = "write" /\ call[u].verb \in {"move", "resize", "snap"} =>
                    call[u].crossed \/ q \in replaced
    BY <1>1 DEF PromisedPlain
  <2>2. ASSUME NEW u \in Tabs, call'[u].at # "idle", call'[u].panel = q
        PROVE  /\ call'[u].verb # "unlock"
               /\ call'[u].at = "insert" => call'[u].crossed
               /\ call'[u].at = "write" /\ call'[u].verb \in {"move", "resize", "snap"} =>
                     call'[u].crossed \/ q \in replaced
    <3>1. CASE u = t
      <4>1. call[t].made = panels[q].made \/ q \in replaced
        BY <1>1, <1>3, <2>2, <3>1 DEF CallsPlain
      <4> QED
        BY <1>3, <2>1, <2>2, <3>1, <4>1
    <3>2. CASE u # t
      BY <2>1, <2>2, <3>2
    <3> QED
      BY <3>1, <3>2
  <2>3. q \in replaced \/ panels'[q].locked
    BY <1>3, <2>1
  <2> QED
    BY <2>1, <2>2, <2>3
<1>6. SizesPlain(call', panels')
  <2> SUFFICES ASSUME NEW q \in PanelIds, panels'[q].made > 0, ~SoundSize(panels'[q].w)
               PROVE  \E u \in Tabs : /\ call'[u].at \in {"check", "write", "size"} /\ call'[u].verb = "register"
                                      /\ call'[u].panel = q /\ call'[u].made = panels'[q].made
    BY DEF SizesPlain
  <2>1. panels'[q].made = panels[q].made /\ panels'[q].w = panels[q].w
    OBVIOUS
  <2>2. PICK u \in Tabs : /\ call[u].at \in {"check", "write", "size"} /\ call[u].verb = "register"
                          /\ call[u].panel = q /\ call[u].made = panels[q].made
    BY <1>1, <2>1 DEF SizesPlain
  <2>3. CASE u = t
    <3>1. call'[t].at # "return"
      BY <2>2, <2>3
    <3> QED
      BY <1>3, <2>1, <2>2, <2>3, <3>1
  <2>4. CASE u # t
    BY <2>1, <2>2, <2>4
  <2> QED
    BY <2>3, <2>4
<1> QED
  BY <1>2, <1>4, <1>5, <1>6, Plainly

LEMMA CheckKeeps ==
    ASSUME PlacesInv, NEW t \in Tabs, Check(t)
    PROVE  PlacesInv'
<1> DEFINE p == call[t].panel
<1>1. /\ panels \in [PanelIds -> PanelRecs] /\ call \in [Tabs -> PanelCalls]
      /\ call[t] \in PanelCalls /\ p \in PanelIds /\ call[t].at = "check"
      /\ panels' = panels /\ promised' = promised /\ replaced' = replaced
  BY DEF PlacesInv, PlacesTyped, PanelCalls, Check, At
<1>2. PICK x \in IF call[t].verb = "snap" /\ ~Declined(t) THEN PeerSnaps(Rec(t)) ELSE {OnGrid(call[t].x)} :
         call' = [call EXCEPT ![t].at = IF Declined(t) THEN "return" ELSE "write", ![t].x = x]
  BY DEF Check
<1>3. x \in Int
  <2>1. CASE call[t].verb = "snap" /\ ~Declined(t)
    <3>1. \A q \in PanelIds : panels[q].x \in Int /\ panels[q].w \in Int
      BY <1>1 DEF PanelRecs
    <3>2. Aligned(p) \subseteq Int
      <4> SUFFICES ASSUME NEW q \in Peers(p)
                   PROVE  {panels[q].x, panels[q].x - panels[p].w, panels[q].x + panels[q].w,
                           panels[q].x + panels[q].w - panels[p].w} \subseteq Int
        BY DEF Aligned
      <4>1. q \in PanelIds
        BY DEF Peers
      <4> QED
        BY <1>1, <3>1, <4>1
    <3>3. x \in PeerSnaps(p)
      BY <1>2, <2>1 DEF Rec
    <3> QED
      BY <1>1, <3>1, <3>2, <3>3 DEF PeerSnaps
  <2>2. CASE ~(call[t].verb = "snap" /\ ~Declined(t))
    <3>1. call[t].x \in Int /\ x = OnGrid(call[t].x)
      BY <1>1, <1>2, <2>2 DEF PanelCalls
    <3> QED
      BY <3>1, WidthIsSound
  <2> QED
    BY <2>1, <2>2
<1>4. /\ call' \in [Tabs -> PanelCalls]
      /\ \A u \in Tabs \ {t} : call'[u] = call[u]
      /\ call'[t].at = IF Declined(t) THEN "return" ELSE "write"
      /\ call'[t].verb = call[t].verb /\ call'[t].panel = p
      /\ call'[t].made = call[t].made /\ call'[t].crossed = call[t].crossed
  <2> DEFINE where == IF Declined(t) THEN "return" ELSE "write"
             new == [call[t] EXCEPT !.at = where, !.x = x]
  <2>1. where \in {"return", "write"}
    OBVIOUS
  <2>2. call' = [call EXCEPT ![t] = new]
    BY <1>1, <1>2
  <2> HIDE DEF where
  <2>3. /\ new \in PanelCalls /\ new.at = where
        /\ new.verb = call[t].verb /\ new.panel = call[t].panel
        /\ new.made = call[t].made /\ new.crossed = call[t].crossed
    BY <1>1, <1>3, <2>1 DEF PanelCalls
  <2> HIDE DEF new
  <2> QED
    BY <1>1, <2>2, <2>3 DEF where
<1>5. /\ Declined(t) => call[t].verb \in {"move", "resize", "snap"}
      /\ call[t].verb \in {"move", "resize", "snap"} /\ call[t].made = panels[p].made /\ panels[p].locked
            => Declined(t)
  BY DEF Declined, Current, Rec
<1>6. HasOne(t) /\ HasOne(t)'
  BY <1>1, <1>4 DEF HasOne
<1> HIDE DEF p
<1>7. call'[t].at # "size" /\ (call'[t].at = "return" => Declined(t)) /\ (call'[t].at = "write" => ~Declined(t))
  BY <1>4
<1>8. \A q \in PanelIds : panels'[q].made = panels[q].made /\ panels'[q].w = panels[q].w
                            /\ panels'[q].locked = panels[q].locked
  BY <1>1
<1> QED
  BY <1>1, <1>4, <1>5, <1>6, <1>7, <1>8, GoesOn DEF p

LEMMA WriteKeeps ==
    ASSUME PlacesInv, NEW t \in Tabs, WriteIn(t)
    PROVE  PlacesInv'
<1> DEFINE p == call[t].panel
           current == call[t].made = panels[p].made
           verb == call[t].verb
<1>1. /\ panels \in [PanelIds -> PanelRecs] /\ call \in [Tabs -> PanelCalls]
      /\ call[t] \in PanelCalls /\ p \in PanelIds /\ panels[p] \in PanelRecs
      /\ call[t].x \in Int /\ call[t].w \in Int /\ verb \in Verbs
      /\ call[t].at = "write" /\ promised' = promised /\ replaced' = replaced
      /\ panels' = IF current THEN [panels EXCEPT ![p] = Changed(t, @)] ELSE panels
      /\ call' = [call EXCEPT ![t].at = IF verb = "register" THEN "size" ELSE "return"]
  BY DEF PlacesInv, PlacesTyped, PanelCalls, PanelRecs, WriteIn, At, Current, Rec
<1>2. LET r == Changed(t, panels[p]) IN
      /\ r \in PanelRecs /\ r.made = panels[p].made
      /\ r.locked = IF verb \in {"lock", "unlock"} THEN verb = "lock" ELSE panels[p].locked
      /\ r.w = IF verb = "resize" THEN Width(call[t].w) ELSE panels[p].w
  <2> DEFINE r == Changed(t, panels[p])
  <2>1. CASE verb \in {"register", "move", "snap"}
    <3>1. r = [panels[p] EXCEPT !.x = call[t].x]
      BY <2>1 DEF Changed
    <3> QED
      BY <1>1, <2>1, <3>1 DEF PanelRecs
  <2>2. CASE verb = "resize"
    <3>1. r = [panels[p] EXCEPT !.w = Width(call[t].w)] /\ Width(call[t].w) \in Int
      BY <1>1, <2>2, WidthIsSound DEF Changed
    <3> QED
      BY <1>1, <2>2, <3>1 DEF PanelRecs
  <2>3. CASE verb \in {"lock", "unlock"}
    <3>1. r = [panels[p] EXCEPT !.locked = (verb = "lock")] /\ (verb = "lock") \in BOOLEAN
      BY <2>3 DEF Changed
    <3> QED
      BY <1>1, <2>3, <3>1 DEF PanelRecs
  <2>4. CASE verb \in {"archive", "unarchive"}
    <3>1. r = [panels[p] EXCEPT !.archived = (verb = "archive")] /\ (verb = "archive") \in BOOLEAN
      BY <2>4 DEF Changed
    <3> QED
      BY <1>1, <2>4, <3>1 DEF PanelRecs
  <2> QED
    BY <1>1, <2>1, <2>2, <2>3, <2>4 DEF Verbs
<1>3. /\ call' \in [Tabs -> PanelCalls]
      /\ \A u \in Tabs \ {t} : call'[u] = call[u]
      /\ call'[t].at = IF verb = "register" THEN "size" ELSE "return"
      /\ call'[t].verb = verb /\ call'[t].panel = p
      /\ call'[t].made = call[t].made /\ call'[t].crossed = call[t].crossed
  BY <1>1 DEF PanelCalls
<1> HIDE DEF p
<1>4. panels' \in [PanelIds -> PanelRecs] /\ \A q \in PanelIds \ {p} : panels'[q] = panels[q]
  BY <1>1, <1>2
<1>5. panels'[p] = IF current THEN Changed(t, panels[p]) ELSE panels[p]
  BY <1>1
<1>6. /\ panels'[p].made = panels[p].made
      /\ panels[p].locked /\ ~panels'[p].locked => verb = "unlock"
      /\ panels'[p].w = panels[p].w \/ SoundSize(panels'[p].w)
      /\ current /\ verb = "lock" => panels'[p].locked
  <2>1. SoundSize(Width(call[t].w))
    BY <1>1, WidthIsSound
  <2> HIDE DEF verb, current
  <2> QED
    BY <1>2, <1>5, <2>1 DEF Verbs
<1>7. HasOne(t) /\ HasOne(t)'
  BY <1>1, <1>3 DEF HasOne
<1>8. \A q \in PanelIds :
         /\ panels'[q].made = panels[q].made
         /\ panels[q].locked /\ ~panels'[q].locked => verb = "unlock" /\ q = p
         /\ panels'[q].w = panels[q].w \/ SoundSize(panels'[q].w)
  BY <1>4, <1>6
<1>9. /\ call'[t].at = "size" => call[t].verb = "register"
      /\ call'[t].at = "return" => call[t].verb # "register"
      /\ call'[t].at # "write"
      /\ call[t].verb = "lock" /\ call[t].made = panels[call[t].panel].made => panels'[call[t].panel].locked
      /\ call'[t].verb = call[t].verb /\ call'[t].panel = call[t].panel
  BY <1>3, <1>6 DEF p
<1>10. \A q \in PanelIds :
         /\ panels'[q].made = panels[q].made
         /\ panels[q].locked /\ ~panels'[q].locked => call[t].verb = "unlock" /\ call[t].panel = q
         /\ panels'[q].w = panels[q].w \/ SoundSize(panels'[q].w)
  BY <1>8 DEF p
<1> HIDE DEF current, verb
<1> QED
  BY <1>1, <1>3, <1>4, <1>7, <1>9, <1>10, GoesOn

LEMMA WriteSizeKeeps ==
    ASSUME PlacesInv, NEW t \in Tabs, WriteSize(t)
    PROVE  PlacesInv'
<1> DEFINE p == call[t].panel
           current == call[t].made = panels[p].made
           width == Width(call[t].w)
<1>1. /\ panels \in [PanelIds -> PanelRecs] /\ call \in [Tabs -> PanelCalls]
      /\ call[t] \in PanelCalls /\ p \in PanelIds /\ panels[p] \in PanelRecs
      /\ call[t].w \in Int
      /\ call[t].at = "size" /\ call[t].verb = "register" /\ promised' = promised /\ replaced' = replaced
      /\ panels' = IF current THEN [panels EXCEPT ![p].w = width] ELSE panels
      /\ call' = [call EXCEPT ![t].at = "return"]
  BY DEF PlacesInv, PlacesTyped, CallsInv, PanelCalls, PanelRecs, WriteSize, At, Current, Rec
<1>2. width \in Int /\ SoundSize(width)
  BY <1>1, WidthIsSound
<1>3. /\ call' \in [Tabs -> PanelCalls]
      /\ \A u \in Tabs \ {t} : call'[u] = call[u]
      /\ call'[t].at = "return"
      /\ call'[t].verb = "register" /\ call'[t].panel = p
      /\ call'[t].made = call[t].made /\ call'[t].crossed = call[t].crossed
  BY <1>1 DEF PanelCalls
<1> HIDE DEF p, width
<1>4. /\ panels' \in [PanelIds -> PanelRecs] /\ \A q \in PanelIds \ {p} : panels'[q] = panels[q]
      /\ panels'[p].made = panels[p].made /\ panels'[p].locked = panels[p].locked
      /\ panels'[p].w = IF current THEN width ELSE panels[p].w
  BY <1>1, <1>2 DEF PanelRecs
<1>5. HasOne(t) /\ HasOne(t)'
  BY <1>1, <1>3 DEF HasOne
<1>6. \A q \in PanelIds :
         /\ panels'[q].made = panels[q].made /\ panels'[q].locked = panels[q].locked
         /\ panels'[q].w = panels[q].w \/ SoundSize(panels'[q].w)
  BY <1>2, <1>4
<1>7. /\ call[t].verb = "register" /\ call'[t].at # "size" /\ call'[t].at # "write"
      /\ call[t].made = panels[call[t].panel].made => SoundSize(panels'[call[t].panel].w)
      /\ call'[t].verb = call[t].verb /\ call'[t].panel = call[t].panel
      /\ call'[t].made = call[t].made /\ call'[t].crossed = call[t].crossed
  BY <1>1, <1>2, <1>3, <1>4 DEF p
<1>8. call[t].verb \notin {"lock", "unlock", "move", "resize", "snap"}
  BY <1>7
<1>9. /\ call' \in [Tabs -> PanelCalls] /\ \A u \in Tabs \ {t} : call'[u] = call[u]
      /\ promised' = promised /\ replaced' = replaced /\ panels' \in [PanelIds -> PanelRecs]
  BY <1>1, <1>3, <1>4
<1> QED
  BY <1>5, <1>6, <1>7, <1>8, <1>9, GoesOn

LEMMA ReturnKeeps ==
    ASSUME PlacesInv, NEW t \in Tabs, Return(t)
    PROVE  PlacesInv'
<1> DEFINE p == call[t].panel
           holds == call[t].verb = "lock" /\ ~call[t].crossed
           warned(u) == holds /\ u \in Others(t, p)
<1>1. /\ panels \in [PanelIds -> PanelRecs] /\ call \in [Tabs -> PanelCalls]
      /\ promised \subseteq PanelIds /\ replaced \subseteq PanelIds
      /\ CallsPlain(call, panels, replaced)
      /\ PromisedPlain(call, panels, replaced, promised) /\ SizesPlain(call, panels)
      /\ p \in PanelIds
  BY Plainly DEF PlacesTyped, PanelCalls
<1>2. /\ call[t].at = "return" /\ panels' = panels /\ replaced' = replaced
      /\ promised' = IF holds THEN promised \cup {p} ELSE promised
      /\ call' = [u \in Tabs |-> IF u = t THEN NoCall
                                 ELSE IF warned(u) THEN [call[u] EXCEPT !.crossed = TRUE] ELSE call[u]]
  BY Zenon DEF Return, At, Rec
<1>3. NoCall \in PanelCalls /\ NoCall.at = "idle"
  <2>1. (CHOOSE q \in PanelIds : TRUE) \in PanelIds
    BY PlacesAssumption
  <2> QED
    BY <2>1 DEF NoCall, PanelCalls, Verbs
<1>4. call'[t] \in PanelCalls /\ call'[t].at = "idle"
  BY <1>2, <1>3
<1>5. \A u \in Tabs \ {t} :
        /\ call'[u] \in PanelCalls
        /\ call'[u].at = call[u].at /\ call'[u].verb = call[u].verb /\ call'[u].panel = call[u].panel
        /\ call'[u].made = call[u].made
        /\ call[u].crossed => call'[u].crossed
        /\ warned(u) => call'[u].crossed
  <2> SUFFICES ASSUME NEW u \in Tabs \ {t}
               PROVE  /\ call'[u] \in PanelCalls
                      /\ call'[u].at = call[u].at /\ call'[u].verb = call[u].verb
                      /\ call'[u].panel = call[u].panel
                      /\ call'[u].made = call[u].made
                      /\ call[u].crossed => call'[u].crossed
                      /\ warned(u) => call'[u].crossed
    BY Zenon
  <2> HIDE DEF warned
  <2>1. call[u] \in PanelCalls /\ call'[u] = IF warned(u) THEN [call[u] EXCEPT !.crossed = TRUE] ELSE call[u]
    BY <1>1, <1>2
  <2>2. CASE warned(u)
    BY <2>1, <2>2 DEF PanelCalls
  <2>3. CASE ~warned(u)
    BY <2>1, <2>3
  <2> QED
    BY <2>2, <2>3
<1>6. PlacesTyped'
  <2>1. call' \in [Tabs -> PanelCalls]
    <3>1. \A u \in Tabs : call'[u] \in PanelCalls
      BY <1>4, <1>5
    <3>2. call' = [u \in Tabs |-> call'[u]]
      BY <1>2
    <3> QED
      BY <3>1, <3>2, Zenon
  <2> QED
    BY <1>1, <1>2, <2>1 DEF PlacesTyped
<1>7. CallsPlain(call', panels', replaced')
  BY <1>1, <1>2, <1>4, <1>5 DEF CallsPlain
<1>8. PromisedPlain(call', panels', replaced', promised')
  <2> SUFFICES ASSUME NEW q \in promised'
               PROVE  /\ panels[q].made > 0
                      /\ q \in replaced \/ panels[q].locked
                      /\ \A u \in Tabs : call'[u].at # "idle" /\ call'[u].panel = q =>
                            /\ call'[u].verb # "unlock"
                            /\ call'[u].at = "insert" => call'[u].crossed
                            /\ call'[u].at = "write" /\ call'[u].verb \in {"move", "resize", "snap"} =>
                                  call'[u].crossed \/ q \in replaced
    BY <1>2 DEF PromisedPlain
  <2>1. CASE q \in promised
    <3>1. /\ panels[q].made > 0
          /\ q \in replaced \/ panels[q].locked
          /\ \A u \in Tabs : call[u].at # "idle" /\ call[u].panel = q =>
                /\ call[u].verb # "unlock"
                /\ call[u].at = "insert" => call[u].crossed
                /\ call[u].at = "write" /\ call[u].verb \in {"move", "resize", "snap"} =>
                      call[u].crossed \/ q \in replaced
      BY <1>1, <2>1 DEF PromisedPlain
    <3> QED
      BY <1>4, <1>5, <3>1
  <2>2. CASE holds /\ q = p
    <3>1. /\ call[t].made > 0 /\ call[t].made <= panels[p].made
          /\ call[t].made = panels[p].made \/ p \in replaced
          /\ \A v \in Tabs \ {t} : call[v].at # "idle" /\ call[v].panel = p => call[v].verb # "unlock"
          /\ call[t].made = panels[p].made => panels[p].locked
      BY <1>1, <1>2, <2>2 DEF CallsPlain
    <3>2. panels[p].made > 0
      <4>1. call[t].made \in Nat /\ panels[p].made \in Nat
        BY <1>1 DEF PanelCalls, PanelRecs
      <4> QED
        BY <3>1, <4>1
    <3>3. ASSUME NEW u \in Tabs, call'[u].at # "idle", call'[u].panel = q
          PROVE  call'[u].verb # "unlock" /\ call'[u].crossed
      <4>1. u \in Tabs \ {t}
        BY <1>4, <3>3
      <4>2. u \in Others(t, p)
        BY <1>5, <2>2, <3>3, <4>1 DEF Others, At, Rec
      <4> QED
        BY <1>5, <2>2, <3>1, <3>3, <4>1, <4>2
    <3> QED
      BY <2>2, <3>1, <3>2, <3>3
  <2> QED
    BY <1>2, <2>1, <2>2
<1>9. SizesPlain(call', panels')
  <2> SUFFICES ASSUME NEW q \in PanelIds, panels[q].made > 0, ~SoundSize(panels[q].w)
               PROVE  \E u \in Tabs : /\ call'[u].at \in {"check", "write", "size"} /\ call'[u].verb = "register"
                                      /\ call'[u].panel = q /\ call'[u].made = panels[q].made
    BY <1>2 DEF SizesPlain
  <2>1. PICK u \in Tabs : /\ call[u].at \in {"check", "write", "size"} /\ call[u].verb = "register"
                          /\ call[u].panel = q /\ call[u].made = panels[q].made
    BY <1>1 DEF SizesPlain
  <2>2. u \in Tabs \ {t}
    BY <1>2, <2>1
  <2> QED
    BY <1>5, <2>1, <2>2
<1> QED
  BY <1>6, <1>7, <1>8, <1>9, Plainly

\* A step of any call.
StepOf(t) ==
    \/ \E verb \in Verbs, p \in PanelIds, x \in Int, w \in Int : Fetch(t, verb, p, x, w)
    \/ Insert(t) \/ Check(t) \/ WriteIn(t) \/ WriteSize(t) \/ Return(t)

LEMMA NextIsAStep == PlacesNext => \E t \in Tabs : StepOf(t)
<1> SUFFICES ASSUME PlacesNext PROVE \E t \in Tabs : StepOf(t)
  OBVIOUS
<1>1. PICK t \in Tabs :
        \/ \E p \in PanelIds, n \in Asked :
             Fetch(t, "register", p, n, n) \/ Fetch(t, "move", p, n, 0) \/ Fetch(t, "resize", p, 0, n)
        \/ \E p \in PanelIds, v \in Verbs \ {"register", "move", "resize"} : Fetch(t, v, p, 0, 0)
        \/ Insert(t) \/ Check(t) \/ WriteIn(t) \/ WriteSize(t) \/ Return(t)
  BY Zenon DEF PlacesNext
<1>2. Asked \subseteq Int /\ 0 \in Int /\ {"register", "move", "resize"} \subseteq Verbs
  BY PlacesAssumption DEF Verbs
<1>3. StepOf(t)
  BY <1>1, <1>2 DEF StepOf
<1> QED
  BY <1>3

LEMMA StepKeeps == ASSUME PlacesInv, NEW t \in Tabs, StepOf(t) PROVE PlacesInv'
<1>1. CASE \E verb \in Verbs, p \in PanelIds, x \in Int, w \in Int : Fetch(t, verb, p, x, w)
  BY <1>1, FetchKeeps
<1> QED
  BY <1>1, InsertKeeps, CheckKeeps, WriteKeeps, WriteSizeKeeps, ReturnKeeps DEF StepOf

\* Only a call that began before the lock was answered, or a registration, moves it.
LEMMA StepKeepsPromise ==
    ASSUME PlacesInv, NEW t \in Tabs, StepOf(t), NEW p \in promised \ replaced,
           <<panels'[p].x, panels'[p].w>> # <<panels[p].x, panels[p].w>>
    PROVE  \E u \in Tabs : InCall(u) /\ Rec(u) = p /\ (call[u].crossed \/ call[u].verb = "register")
<1>1. /\ panels \in [PanelIds -> PanelRecs] /\ p \in PanelIds /\ panels[p].made > 0
      /\ InCall(t) /\ Rec(t) = p /\ At(t, "insert") => call[t].crossed
      /\ InCall(t) /\ Rec(t) = p /\ At(t, "write") /\ call[t].verb \in {"move", "resize", "snap"}
           => call[t].crossed
  BY DEF PlacesInv, PlacesTyped, PromisedInv, HasRecord
<1>2. CASE panels' = panels
  BY <1>2
<1>3. CASE Insert(t)
  <2>1. InCall(t) /\ At(t, "insert") /\ (Rec(t) # p => panels'[p] = panels[p])
    BY <1>1, <1>3 DEF Insert, InCall, At
  <2> QED
    BY <1>1, <2>1
<1>4. CASE WriteIn(t)
  <2>1. InCall(t) /\ At(t, "write") /\ (Rec(t) # p => panels'[p] = panels[p])
    BY <1>1, <1>4 DEF WriteIn, InCall, At
  <2>2. Rec(t) = p
    BY <2>1
  <2>3. panels'[p] = Changed(t, panels[p])
    BY <1>1, <1>4, <2>2 DEF WriteIn
  <2>4. CASE call[t].verb \in {"register", "move", "resize", "snap"}
    BY <1>1, <2>1, <2>2, <2>4
  <2>5. CASE call[t].verb \in {"lock", "unlock", "archive", "unarchive"}
    <3>1. panels[p] \in PanelRecs
      BY <1>1
    <3>2. panels'[p].x = panels[p].x /\ panels'[p].w = panels[p].w
      BY <2>3, <2>5, <3>1 DEF Changed, PanelRecs
    <3> QED
      BY <3>2
  <2>6. call[t].verb \in Verbs
    BY DEF PlacesInv, PlacesTyped, PanelCalls
  <2> QED
    BY <2>4, <2>5, <2>6 DEF Verbs
<1>5. CASE WriteSize(t)
  <2>1. InCall(t) /\ At(t, "size") /\ (Rec(t) # p => panels'[p] = panels[p])
    BY <1>1, <1>5 DEF WriteSize, InCall, At
  <2>2. call[t].verb = "register"
    BY <2>1 DEF PlacesInv, CallsInv
  <2> QED
    BY <2>1, <2>2
<1>6. CASE Check(t) \/ Return(t) \/ \E verb \in Verbs, q \in PanelIds, x \in Int, w \in Int : Fetch(t, verb, q, x, w)
  <2>1. panels' = panels
    BY <1>6 DEF Check, Return, Fetch
  <2> QED
    BY <1>2, <2>1
<1> QED
  BY <1>3, <1>4, <1>5, <1>6 DEF StepOf

LEMMA InvIsSound == PlacesInv => PlacesTypeOK /\ LockIsKept /\ SizesAreSound
<1> SUFFICES ASSUME PlacesInv PROVE PlacesTypeOK /\ LockIsKept /\ SizesAreSound
  OBVIOUS
<1>1. PlacesTypeOK
  <2>1. \A p \in PanelIds : panels[p].made \in Nat /\ panels[p].x \in Int /\ panels[p].w \in Int
    BY DEF PlacesInv, PlacesTyped, PanelRecs
  <2>2. \A t \in Tabs : call[t].verb \in Verbs /\ Rec(t) \in PanelIds
    BY DEF PlacesInv, PlacesTyped, PanelCalls, Rec
  <2>3. \A t \in Tabs : call[t].at \in {"check", "write", "size", "return"} => call[t].made > 0
    BY DEF PlacesInv, CallsInv, HasOne
  <2> QED
    BY <2>1, <2>2, <2>3 DEF PlacesInv, PlacesTyped, PlacesTypeOK
<1>2. LockIsKept
  BY DEF PlacesInv, PromisedInv, LockIsKept
<1>3. SizesAreSound
  BY DEF PlacesInv, SizesInv, SizesAreSound, SoundSize, Registers, InCall, At
<1> QED
  BY <1>1, <1>2, <1>3

\* Whatever calls interleave: a lock that was answered is kept, and keeps its panel in
\* place, unless two first calls made the record twice; and when nobody is at work,
\* panels have sizes that the positioner gives (panel_positioner.py, handle_action).
THEOREM PositionsSound == PlacesSpec => PositionsAreSound
<1>1. PlacesInv /\ [PlacesNext]_placeVars => PlacesInv'
  <2>1. CASE UNCHANGED placeVars
    BY <2>1 DEF placeVars, PlacesInv, PlacesTyped, CallsInv, PromisedInv, SizesInv, HasOne, At, InCall,
                Current, Rec, Others, HasRecord, Registers
  <2> QED
    BY <2>1, NextIsAStep, StepKeeps
<1>2. PlacesInv /\ [PlacesNext]_placeVars =>
        [\A p \in promised \ replaced :
            <<panels'[p].x, panels'[p].w>> # <<panels[p].x, panels[p].w>> =>
                \E t \in Tabs : /\ InCall(t) /\ Rec(t) = p
                                /\ call[t].crossed \/ call[t].verb = "register"]_placeVars
  BY NextIsAStep, StepKeepsPromise
<1>3. PlacesSpec => []PlacesInv
  BY <1>1, PlacesStart, PTL DEF PlacesSpec
<1>4. PlacesSpec => [](PlacesTypeOK /\ LockIsKept /\ SizesAreSound)
  BY <1>3, InvIsSound, PTL
<1>5. PlacesSpec => PromiseHolds
  BY <1>2, <1>3, PTL DEF PlacesSpec, PromiseHolds
<1> QED
  BY <1>4, <1>5 DEF PositionsAreSound

--------------------------------------------------------------------------------
(* The desk *)

HandleRecs == [known : BOOLEAN, pos : Int, size : Int, archived : BOOLEAN]
Drags == [kind : {"none", "move", "resize"}, panel : Panels \cup {0}, origin : Int]

\* Handles that the shell has, and those it has not yet.
GoodHandles(hs) ==
    /\ hs \in [Panels -> HandleRecs]
    /\ \A p \in Panels : /\ hs[p].known => hs[p].size >= MinSize
                         /\ ~hs[p].known => ~hs[p].archived

DeskInv ==
    /\ GoodHandles(handles)
    /\ hidden \subseteq registered /\ registered \subseteq Views
    /\ locked \subseteq WithHandle /\ shown \subseteq WithHandle
    /\ host \in {"up", "gone"}
    /\ drag \in Drags
    /\ drag.kind = "none" => drag = NoDrag
    /\ drag.kind # "none" => drag.panel \in WithHandle
    /\ ActiveIsVisible /\ ActiveIsShown

LEMMA PanelsAre ==
    /\ 0 \notin Panels /\ Views \subseteq Panels /\ IsFiniteSet(Panels)
    /\ Default \in Views /\ NoView \notin Views
<1>1. IsFiniteSet(Views \cup ExtraPanels)
  BY DeskAssumption, FS_Union
<1> QED
  BY <1>1, DeskAssumption DEF Panels, Default, NoView

LEMMA SnapIsInt == ASSUME NEW v \in Int PROVE snap_to_grid(v) \in Int
<1>1. Grid \in Nat \ {0}
  BY DeskAssumption
<1>2. Rounded(v, Grid) \in Int
  <2>1. v \div Grid \in Int
    BY <1>1
  <2> QED
    BY <2>1 DEF Rounded
<1> QED
  BY <1>1, <1>2 DEF snap_to_grid

\* A panel that is given a handle has one, and the others keep theirs.
LEMMA EnsuredIs ==
    ASSUME NEW hs, GoodHandles(hs), NEW p \in Panels
    PROVE  /\ GoodHandles(Ensured(hs, p)) /\ Ensured(hs, p)[p].known
           /\ \A q \in Panels : hs[q].known => Ensured(hs, p)[q] = hs[q]
           /\ \A q \in Panels : Ensured(hs, p)[q].archived = hs[q].archived
<1>1. CASE hs[p].known
  <2>1. Ensured(hs, p) = hs
    BY <1>1 DEF Ensured
  <2> QED
    BY <1>1, <2>1
<1>2. CASE ~hs[p].known
  <2> DEFINE at == snap_to_grid(2 * Grid * Cardinality({k \in Panels : hs[k].known}))
             new == [known |-> TRUE, pos |-> at, size |-> StartSize, archived |-> FALSE]
  <2>1. Ensured(hs, p) = [hs EXCEPT ![p] = new]
    BY <1>2 DEF Ensured
  <2>2. at \in Int
    <3>1. Cardinality({k \in Panels : hs[k].known}) \in Nat
      BY PanelsAre, FS_Subset, FS_CardinalityType
    <3> QED
      BY <3>1, SnapIsInt, DeskAssumption
  <2> HIDE DEF at
  <2>3. new \in HandleRecs /\ new.known /\ new.size >= MinSize /\ ~new.archived
    BY <2>2, DeskAssumption DEF HandleRecs
  <2>4. hs \in [Panels -> HandleRecs] /\ ~hs[p].archived /\ hs[p].archived \in BOOLEAN
    BY <1>2 DEF GoodHandles, HandleRecs
  <2> HIDE DEF new
  <2>5. /\ Ensured(hs, p)[p] = new /\ Ensured(hs, p) \in [Panels -> HandleRecs]
        /\ \A q \in Panels \ {p} : Ensured(hs, p)[q] = hs[q]
    BY <2>1, <2>3, <2>4
  <2>6. new.archived \in BOOLEAN
    BY <2>3 DEF HandleRecs
  <2>7. \A q \in Panels : Ensured(hs, p)[q].archived = hs[q].archived
    BY <2>3, <2>4, <2>5, <2>6
  <2>8. GoodHandles(Ensured(hs, p))
    BY <2>3, <2>5 DEF GoodHandles
  <2> QED
    BY <1>2, <2>3, <2>5, <2>7, <2>8
<1> QED
  BY <1>1, <1>2

LEMMA DeskStarts == DeskInit => DeskInv
<1> SUFFICES ASSUME DeskInit PROVE DeskInv
  OBVIOUS
<1> DEFINE none == [p \in Panels |-> NoHandle]
<1>1. Default \in Panels /\ 0 \in Int
  BY PanelsAre
<1>2. GoodHandles(none)
  BY DEF GoodHandles, NoHandle, HandleRecs
<1>3. GoodHandles(handles) /\ handles[Default].known
  <2>1. handles = Ensured(none, Default)
    BY DEF DeskInit
  <2> HIDE DEF none
  <2> QED
    BY <1>1, <1>2, <2>1, EnsuredIs
<1>4. drag \in Drags /\ drag = NoDrag /\ drag.kind = "none"
  BY DEF DeskInit, NoDrag, Drags
<1> QED
  BY <1>1, <1>3, <1>4 DEF DeskInit, DeskInv, WithHandle, ActiveIsVisible, ActiveIsShown, VisibleViews

--------------------------------------------------------------------------------
\* An alignment that was taken stays: its own distance is nothing.
LEMMA TakenStays ==
    ASSUME NEW p \in Panels, NEW c \in Candidates(p), c \in Int, c >= 0, Candidates(p) \subseteq Int
    PROVE  Snaps(p, c) = {c}
<1>1. Grid \in Nat
  BY DeskAssumption
<1>2. Distance(c, c) = 0 /\ \A d \in Int : Distance(d, c) \in Nat /\ (Distance(d, c) = 0 => d = c)
  BY DEF Distance
<1>3. Alignments(p, c) = {c}
  <2>1. c \in Alignments(p, c)
    BY <1>1, <1>2 DEF Alignments
  <2>2. ASSUME NEW d \in Alignments(p, c) PROVE d = c
    <3>1. d \in Int /\ Distance(d, c) <= Distance(c, c)
      BY <1>1, <1>2, <2>2 DEF Alignments
    <3> QED
      BY <1>2, <3>1
  <2> QED
    BY <2>1, <2>2
<1>4. Floored(c, 0) = c
  BY DEF Floored
<1> QED
  BY <1>3, <1>4 DEF Snaps

LEMMA CandidatesAreInts == ASSUME GoodHandles(handles), NEW p \in Panels PROVE Candidates(p) \subseteq Int
<1>1. \A q \in Panels : handles[q].pos \in Int /\ handles[q].size \in Int
  BY DEF GoodHandles, HandleRecs
<1> SUFFICES ASSUME NEW peer \in {k \in WithHandle \ {p} : ~handles[k].archived}
             PROVE  LET q == handles[peer] IN
                    {q.pos, q.pos - handles[p].size, q.pos + q.size, q.pos + q.size - handles[p].size}
                       \subseteq Int
  BY DEF Candidates
<1>2. peer \in Panels
  BY DEF WithHandle
<1> QED
  BY <1>1, <1>2

\* Where a release puts a panel.
LEMMA SnapsSettle ==
    ASSUME GoodHandles(handles), NEW p \in Panels, NEW was \in Int, NEW is \in Snaps(p, was), is # was
    PROVE  /\ is \in Int
           /\ Distance(is, was) <= Grid \/ was < 0
           /\ is \in Candidates(p) \cup {0}
           /\ is \in Candidates(p) => Snaps(p, is) = {is}
<1>1. Candidates(p) \subseteq Int /\ Grid \in Nat
  BY CandidatesAreInts, DeskAssumption
<1>2. CASE Alignments(p, was) = {}
  <2>1. is = Floored(was, 0)
    BY <1>2 DEF Snaps
  <2>2. was < 0 /\ is = 0
    BY <2>1 DEF Floored
  <2> QED
    BY <1>1, <2>2, TakenStays
<1>3. CASE Alignments(p, was) # {}
  <2>1. PICK c \in Alignments(p, was) : is = Floored(c, 0)
    BY <1>3 DEF Snaps
  <2>2. c \in Candidates(p) /\ c \in Int /\ Distance(c, was) <= Grid
    BY <1>1, <2>1 DEF Alignments
  <2>3. CASE c >= 0
    <3>1. is = c
      BY <2>1, <2>2, <2>3 DEF Floored
    <3> QED
      BY <1>1, <2>2, <2>3, <3>1, TakenStays
  <2>4. CASE ~(c >= 0)
    <3>1. is = 0
      BY <2>1, <2>2, <2>4 DEF Floored
    <3>2. Distance(0, was) <= Grid \/ was < 0
      BY <1>1, <2>2, <2>4 DEF Distance
    <3> QED
      BY <1>1, <3>1, <3>2, TakenStays
  <2> QED
    BY <2>3, <2>4
<1> QED
  BY <1>2, <1>3

--------------------------------------------------------------------------------
\* What the step properties of the desk say of one step.
LockedStep ==
    \A p \in locked \cap locked' :
       handles'[p].pos = handles[p].pos /\ handles'[p].size = handles[p].size

SnapStep ==
    \A p \in Panels :
       LET was == handles[p].pos   is == handles'[p].pos IN
       Gesture(p, drag.kind) /\ drag' = NoDrag /\ is # was =>
           /\ Distance(is, was) <= Grid \/ was < 0
           /\ is \in Candidates(p) \cup {0}
           /\ is \in Candidates(p) => Snaps(p, is) = {is}

RestoredStep ==
    \A p \in registered : handles[p].archived /\ ~handles'[p].archived => p \notin hidden'

StepSound == LockedStep /\ SnapStep /\ RestoredStep

\* hs has the handles there were, and new ones perhaps.
KeepsHandles(hs) == GoodHandles(hs) /\ \A p \in WithHandle : hs[p].known

\* hs leaves what is locked where it is, and what is archived archived.
LeavesAlone(hs) ==
    /\ \A p \in locked : hs[p].pos = handles[p].pos /\ hs[p].size = handles[p].size
    /\ \A p \in Panels : handles[p].archived => hs[p].archived

LEMMA QuietSteps ==
    ASSUME DeskInv, LeavesAlone(handles'), drag' = drag \/ handles' = handles
    PROVE  StepSound
<1>1. LockedStep
  BY DEF LeavesAlone, LockedStep
<1>2. SnapStep
  <2> SUFFICES ASSUME NEW p \in Panels, drag.panel = p, drag' = NoDrag, handles'[p].pos # handles[p].pos
               PROVE  FALSE
    BY DEF SnapStep, Gesture
  <2>1. drag = NoDrag
    OBVIOUS
  <2> QED
    BY <2>1, PanelsAre DEF NoDrag
<1>3. RestoredStep
  <2>1. registered \subseteq Panels
    BY PanelsAre DEF DeskInv
  <2> QED
    BY <2>1 DEF LeavesAlone, RestoredStep
<1> QED
  BY <1>1, <1>2, <1>3 DEF StepSound

\* The lists stay about panels with a handle.
LEMMA ListsStay ==
    ASSUME DeskInv, KeepsHandles(handles')
    PROVE  /\ locked \subseteq WithHandle' /\ shown \subseteq WithHandle'
           /\ drag.kind # "none" => drag.panel \in WithHandle'
           /\ WithHandle \subseteq WithHandle'
<1>1. WithHandle \subseteq WithHandle'
  BY DEF KeepsHandles, WithHandle
<1> QED
  BY <1>1 DEF DeskInv

LEMMA HandlesChange ==
    ASSUME DeskInv, KeepsHandles(handles'), UNCHANGED <<registered, hidden, active, locked, shown, host, drag>>
    PROVE  DeskInv'
<1>1. GoodHandles(handles')
  BY DEF KeepsHandles
<1>2. ActiveIsVisible' /\ ActiveIsShown'
  <2>1. active \in WithHandle => active \in WithHandle'
    BY ListsStay
  <2> QED
    BY <2>1 DEF DeskInv, ActiveIsVisible, ActiveIsShown, VisibleViews
<1> QED
  BY <1>1, <1>2, ListsStay DEF DeskInv

\* One panel's place or size is set.
LEMMA OneIsSet ==
    ASSUME DeskInv, NEW hs, KeepsHandles(hs), LeavesAlone(hs), NEW p \in Panels, p \notin locked, hs[p].known,
           NEW rec \in HandleRecs, rec.known, rec.archived = hs[p].archived, rec.size >= MinSize
    PROVE  KeepsHandles([hs EXCEPT ![p] = rec]) /\ LeavesAlone([hs EXCEPT ![p] = rec])
<1> DEFINE new == [hs EXCEPT ![p] = rec]
<1>1. hs \in [Panels -> HandleRecs]
  BY DEF KeepsHandles, GoodHandles
<1>2. new \in [Panels -> HandleRecs] /\ new[p] = rec /\ \A q \in Panels \ {p} : new[q] = hs[q]
  BY <1>1
<1> HIDE DEF new
<1>3. GoodHandles(new)
  BY <1>2 DEF KeepsHandles, GoodHandles
<1>4. KeepsHandles(new)
  BY <1>2, <1>3 DEF KeepsHandles, WithHandle
<1>5. locked \subseteq Panels
  BY DEF DeskInv, WithHandle
<1>6. LeavesAlone(new)
  BY <1>2, <1>5 DEF LeavesAlone
<1> QED
  BY <1>4, <1>6 DEF new

LEMMA HandlesAreKept == DeskInv => KeepsHandles(handles) /\ LeavesAlone(handles)
BY DEF DeskInv, KeepsHandles, LeavesAlone, WithHandle

LEMMA EnsuredExtends ==
    ASSUME DeskInv, NEW hs, KeepsHandles(hs), NEW p \in Panels
    PROVE  /\ KeepsHandles(Ensured(hs, p)) /\ Ensured(hs, p)[p].known
           /\ LeavesAlone(hs) => LeavesAlone(Ensured(hs, p))
<1>1. GoodHandles(hs) /\ locked \subseteq WithHandle /\ WithHandle \subseteq Panels
  BY DEF KeepsHandles, DeskInv, WithHandle
<1>2. /\ GoodHandles(Ensured(hs, p)) /\ Ensured(hs, p)[p].known
      /\ \A q \in Panels : hs[q].known => Ensured(hs, p)[q] = hs[q]
      /\ \A q \in Panels : Ensured(hs, p)[q].archived = hs[q].archived
  BY <1>1, EnsuredIs
<1>3. KeepsHandles(Ensured(hs, p))
  BY <1>1, <1>2 DEF KeepsHandles
<1>4. LeavesAlone(hs) => LeavesAlone(Ensured(hs, p))
  BY <1>1, <1>2 DEF LeavesAlone, KeepsHandles
<1> QED
  BY <1>2, <1>3, <1>4

--------------------------------------------------------------------------------
\* The text commands and the gestures' motions set one panel.
LEMMA FlooredIs ==
    ASSUME NEW v \in Int, NEW least \in Int PROVE Floored(v, least) \in Int /\ Floored(v, least) >= least
BY DEF Floored

LEMMA MovePanelKeeps ==
    ASSUME DeskInv, NEW p \in Panels, NEW x \in Targets, MovePanel(p, x) PROVE DeskInv' /\ StepSound
<1> DEFINE hs == Ensured(handles, p)
<1>1. KeepsHandles(hs) /\ LeavesAlone(hs) /\ hs[p].known
  BY HandlesAreKept, EnsuredExtends
<1>2. handles' = IF Free(p) THEN [hs EXCEPT ![p].pos = snap_to_grid(x)] ELSE hs
  BY DEF MovePanel
<1> HIDE DEF hs
<1>3. KeepsHandles(handles') /\ LeavesAlone(handles')
  <2>1. CASE Free(p)
    <3> DEFINE rec == [hs[p] EXCEPT !.pos = snap_to_grid(x)]
    <3>1. hs[p] \in HandleRecs /\ hs[p].size >= MinSize /\ hs \in [Panels -> HandleRecs]
      BY <1>1 DEF KeepsHandles, GoodHandles
    <3>2. snap_to_grid(x) \in Int
      BY SnapIsInt, DeskAssumption
    <3>3. rec \in HandleRecs /\ rec.known /\ rec.archived = hs[p].archived /\ rec.size >= MinSize
      BY <1>1, <3>1, <3>2 DEF HandleRecs
    <3>4. handles' = [hs EXCEPT ![p] = rec]
      BY <1>2, <2>1
    <3> HIDE DEF rec
    <3> QED
      BY <1>1, <2>1, <3>3, <3>4, OneIsSet DEF Free
  <2> QED
    BY <1>1, <1>2, <2>1
<1>4. UNCHANGED <<registered, hidden, active, locked, shown, host, drag>>
  BY DEF MovePanel
<1> QED
  BY <1>3, <1>4, HandlesChange, QuietSteps

LEMMA ResizePanelKeeps ==
    ASSUME DeskInv, NEW p \in Panels, NEW w \in Targets, ResizePanel(p, w) PROVE DeskInv' /\ StepSound
<1> DEFINE hs == Ensured(handles, p)
<1>1. KeepsHandles(hs) /\ LeavesAlone(hs) /\ hs[p].known
  BY HandlesAreKept, EnsuredExtends
<1>2. handles' = IF Free(p) THEN [hs EXCEPT ![p].size = Floored(snap_to_grid(w), MinSize)] ELSE hs
  BY DEF ResizePanel
<1> HIDE DEF hs
<1>3. KeepsHandles(handles') /\ LeavesAlone(handles')
  <2>1. CASE Free(p)
    <3> DEFINE rec == [hs[p] EXCEPT !.size = Floored(snap_to_grid(w), MinSize)]
    <3>1. hs[p] \in HandleRecs /\ hs \in [Panels -> HandleRecs]
      BY <1>1 DEF KeepsHandles, GoodHandles
    <3>2. Floored(snap_to_grid(w), MinSize) \in Int /\ Floored(snap_to_grid(w), MinSize) >= MinSize
      BY SnapIsInt, FlooredIs, DeskAssumption
    <3>3. rec \in HandleRecs /\ rec.known /\ rec.archived = hs[p].archived /\ rec.size >= MinSize
      BY <1>1, <3>1, <3>2 DEF HandleRecs
    <3>4. handles' = [hs EXCEPT ![p] = rec]
      BY <1>2, <2>1
    <3> HIDE DEF rec
    <3> QED
      BY <1>1, <2>1, <3>3, <3>4, OneIsSet DEF Free
  <2> QED
    BY <1>1, <1>2, <2>1
<1>4. UNCHANGED <<registered, hidden, active, locked, shown, host, drag>>
  BY DEF ResizePanel
<1> QED
  BY <1>3, <1>4, HandlesChange, QuietSteps

\* What a gesture is about has a handle.
LEMMA UnderHasHandle ==
    ASSUME DeskInv, NEW p \in Panels, Under(p)
    PROVE  /\ handles[p].known /\ handles[p] \in HandleRecs /\ handles[p].size >= MinSize
           /\ p \in WithHandle /\ drag.origin \in Int /\ handles \in [Panels -> HandleRecs]
BY DEF DeskInv, Under, WithHandle, GoodHandles, Drags

LEMMA DragMotionKeeps ==
    ASSUME DeskInv, NEW p \in Panels, NEW d \in Cursor, DragMotion(p, d) PROVE DeskInv' /\ StepSound
<1> DEFINE at == Floored(snap_to_grid(drag.origin + d), 0)
           rec == [handles[p] EXCEPT !.pos = at]
<1>1. Under(p) /\ p \notin locked /\ handles' = [handles EXCEPT ![p].pos = at]
  BY DEF DragMotion, Gesture, Free
<1>2. at \in Int
  BY <1>1, UnderHasHandle, SnapIsInt, FlooredIs, DeskAssumption
<1> HIDE DEF at
<1>3. rec \in HandleRecs /\ rec.known /\ rec.archived = handles[p].archived /\ rec.size >= MinSize
  BY <1>1, <1>2, UnderHasHandle DEF HandleRecs
<1>4. handles' = [handles EXCEPT ![p] = rec]
  BY <1>1
<1> HIDE DEF rec
<1>5. KeepsHandles(handles') /\ LeavesAlone(handles')
  <2>1. handles[p].known /\ KeepsHandles(handles) /\ LeavesAlone(handles) /\ p \notin locked
    BY <1>1, UnderHasHandle, HandlesAreKept
  <2>2. KeepsHandles([handles EXCEPT ![p] = rec]) /\ LeavesAlone([handles EXCEPT ![p] = rec])
    BY <1>3, <2>1, OneIsSet
  <2> QED
    BY <1>4, <2>2
<1>6. UNCHANGED <<registered, hidden, active, locked, shown, host, drag>>
  BY DEF DragMotion
<1> QED
  BY <1>5, <1>6, HandlesChange, QuietSteps

LEMMA ResizeMotionKeeps ==
    ASSUME DeskInv, NEW p \in Panels, NEW d \in Cursor, ResizeMotion(p, d) PROVE DeskInv' /\ StepSound
<1> DEFINE to == Floored(snap_to_grid(drag.origin + d), MinSize)
           rec == [handles[p] EXCEPT !.size = to]
<1>1. Under(p) /\ p \notin locked /\ handles' = [handles EXCEPT ![p].size = to]
  BY DEF ResizeMotion, Gesture, Free
<1>2. to \in Int /\ to >= MinSize
  BY <1>1, UnderHasHandle, SnapIsInt, FlooredIs, DeskAssumption
<1> HIDE DEF to
<1>3. rec \in HandleRecs /\ rec.known /\ rec.archived = handles[p].archived /\ rec.size >= MinSize
  BY <1>1, <1>2, UnderHasHandle DEF HandleRecs
<1>4. handles' = [handles EXCEPT ![p] = rec]
  BY <1>1
<1> HIDE DEF rec
<1>5. KeepsHandles(handles') /\ LeavesAlone(handles')
  <2>1. handles[p].known /\ KeepsHandles(handles) /\ LeavesAlone(handles) /\ p \notin locked
    BY <1>1, UnderHasHandle, HandlesAreKept
  <2>2. KeepsHandles([handles EXCEPT ![p] = rec]) /\ LeavesAlone([handles EXCEPT ![p] = rec])
    BY <1>3, <2>1, OneIsSet
  <2> QED
    BY <1>4, <2>2
<1>6. UNCHANGED <<registered, hidden, active, locked, shown, host, drag>>
  BY DEF ResizeMotion
<1> QED
  BY <1>5, <1>6, HandlesChange, QuietSteps

\* A press and a release.
LEMMA PressKeeps ==
    ASSUME DeskInv, NEW p \in Panels, NEW kind \in {"move", "resize"}, Press(p, kind) PROVE DeskInv' /\ StepSound
<1>1. Under(p) /\ UNCHANGED <<registered, hidden, active, handles, locked, shown, host>>
  BY DEF Press
<1>2. /\ drag' \in Drags
      /\ drag'.kind = "none" => drag' = NoDrag
      /\ drag'.kind # "none" => drag'.panel \in WithHandle
  <2>1. CASE ~Free(p)
    BY <2>1 DEF Press, NoDrag, Drags
  <2>2. CASE Free(p)
    <3> DEFINE origin == IF kind = "move" THEN handles[p].pos ELSE handles[p].size
    <3>1. origin \in Int
      BY <1>1, UnderHasHandle DEF HandleRecs
    <3>2. drag' = [kind |-> kind, panel |-> p, origin |-> origin]
      BY <2>2 DEF Press
    <3> HIDE DEF origin
    <3> QED
      BY <1>1, <3>1, <3>2, UnderHasHandle DEF Drags
  <2> QED
    BY <2>1, <2>2
<1>3. DeskInv'
  BY <1>1, <1>2 DEF DeskInv, ActiveIsVisible, ActiveIsShown, VisibleViews, WithHandle
<1> QED
  BY <1>1, <1>3, HandlesAreKept, QuietSteps

LEMMA ReleaseKeeps ==
    ASSUME DeskInv, NEW p \in Panels, Release(p) PROVE DeskInv' /\ StepSound
<1>1. Under(p) /\ drag' = NoDrag /\ UNCHANGED <<registered, hidden, active, locked, shown, host>>
  BY DEF Release
<1>2. drag' \in Drags /\ drag'.kind = "none"
  BY <1>1 DEF NoDrag, Drags
<1>3. ASSUME KeepsHandles(handles') PROVE DeskInv'
  <2>1. active \in WithHandle => active \in WithHandle'
    BY <1>3, ListsStay
  <2>2. ActiveIsVisible' /\ ActiveIsShown'
    BY <1>1, <2>1 DEF DeskInv, ActiveIsVisible, ActiveIsShown, VisibleViews
  <2> QED
    BY <1>1, <1>2, <1>3, <2>2, ListsStay DEF DeskInv, KeepsHandles
<1>4. CASE UNCHANGED handles
  BY <1>3, <1>4, HandlesAreKept, QuietSteps
<1>5. CASE drag.panel = p /\ Free(p) /\ \E x \in Snaps(p, handles[p].pos) : handles' = [handles EXCEPT ![p].pos = x]
  <2>1. PICK x \in Snaps(p, handles[p].pos) : handles' = [handles EXCEPT ![p].pos = x]
    BY <1>5
  <2>2. GoodHandles(handles) /\ handles[p].pos \in Int
    BY <1>1, UnderHasHandle DEF DeskInv, HandleRecs
  <2>3. x # handles[p].pos =>
           /\ x \in Int
           /\ Distance(x, handles[p].pos) <= Grid \/ handles[p].pos < 0
           /\ x \in Candidates(p) \cup {0}
           /\ x \in Candidates(p) => Snaps(p, x) = {x}
    BY <2>2, SnapsSettle
  <2> DEFINE rec == [handles[p] EXCEPT !.pos = x]
  <2>4. x \in Int
    BY <2>2, <2>3
  <2>5. rec \in HandleRecs /\ rec.known /\ rec.archived = handles[p].archived /\ rec.size >= MinSize
    BY <1>1, <2>4, UnderHasHandle DEF HandleRecs
  <2>6. handles' = [handles EXCEPT ![p] = rec]
    BY <2>1
  <2>7. handles'[p].pos = x /\ \A q \in Panels \ {p} : handles'[q] = handles[q]
    BY <1>1, <2>1, UnderHasHandle DEF HandleRecs
  <2> HIDE DEF rec
  <2>8. KeepsHandles(handles') /\ LeavesAlone(handles')
    BY <1>1, <1>5, <2>5, <2>6, UnderHasHandle, HandlesAreKept, OneIsSet DEF Free
  <2>9. SnapStep
    BY <2>3, <2>7 DEF SnapStep
  <2>10. LockedStep /\ RestoredStep
    <3>1. registered \subseteq Panels
      BY PanelsAre DEF DeskInv
    <3> QED
      BY <2>8, <3>1 DEF LeavesAlone, LockedStep, RestoredStep
  <2> QED
    BY <1>3, <2>8, <2>9, <2>10 DEF StepSound
<1> QED
  BY <1>4, <1>5 DEF Release

--------------------------------------------------------------------------------
\* The views: the tabs and the panels behind them.
LEMMA SelectedIs ==
    ASSUME DeskInv, NEW hs, KeepsHandles(hs), LeavesAlone(hs), NEW v \in Views, Selected(v, hs)
    PROVE  /\ KeepsHandles(handles') /\ LeavesAlone(handles') /\ active' = v
           /\ shown' \subseteq WithHandle'
           /\ host = "up" => shown' = {v} /\ v \in WithHandle'
<1>1. v \in Panels /\ active' = v
  BY PanelsAre DEF Selected
<1>2. CASE host = "up"
  <2>1. shown' = {v} /\ handles' = Ensured(hs, v)
    BY <1>2 DEF Selected
  <2>2. KeepsHandles(handles') /\ LeavesAlone(handles') /\ handles'[v].known
    BY <1>1, <2>1, EnsuredExtends
  <2> QED
    BY <1>1, <2>1, <2>2 DEF WithHandle
<1>3. CASE host # "up"
  <2>1. shown' = shown /\ handles' = hs
    BY <1>3 DEF Selected
  <2>2. shown' \subseteq WithHandle'
    BY <2>1, ListsStay
  <2> QED
    BY <1>1, <1>3, <2>1, <2>2
<1> QED
  BY <1>2, <1>3

\* A selection of a view that is visible after the step.
LEMMA SelectionKeeps ==
    ASSUME DeskInv, NEW hs, KeepsHandles(hs), LeavesAlone(hs), NEW v \in Views, Selected(v, hs),
           v \in registered' \ hidden', hidden' \subseteq registered', registered' \subseteq Views,
           UNCHANGED <<locked, host, drag>>
    PROVE  DeskInv' /\ StepSound
<1>1. /\ KeepsHandles(handles') /\ LeavesAlone(handles') /\ active' = v
      /\ shown' \subseteq WithHandle'
      /\ host = "up" => shown' = {v} /\ v \in WithHandle'
  BY SelectedIs
<1>2. ActiveIsVisible' /\ ActiveIsShown'
  BY <1>1 DEF ActiveIsVisible, ActiveIsShown, VisibleViews
<1>3. DeskInv'
  BY <1>1, <1>2, ListsStay DEF DeskInv, KeepsHandles
<1> QED
  BY <1>1, <1>3, QuietSteps

LEMMA SelectTabKeeps == ASSUME DeskInv, NEW v \in Views, SelectTab(v) PROVE DeskInv' /\ StepSound
<1>1. /\ Selected(v, handles) /\ v \in registered' \ hidden' /\ UNCHANGED <<registered, hidden>>
      /\ UNCHANGED <<locked, host, drag>>
  BY DEF SelectTab, VisibleViews
<1>2. KeepsHandles(handles) /\ LeavesAlone(handles) /\ hidden' \subseteq registered' /\ registered' \subseteq Views
  BY <1>1, HandlesAreKept DEF DeskInv
<1> QED
  BY <1>1, <1>2, SelectionKeeps

LEMMA SetViewKeeps == ASSUME DeskInv, NEW v \in Views, SetView(v) PROVE DeskInv' /\ StepSound
<1>1. /\ Selected(v, handles) /\ v \in registered' \ hidden' /\ registered' = registered
      /\ hidden' \subseteq hidden /\ UNCHANGED <<locked, host, drag>>
  BY DEF SetView
<1>2. KeepsHandles(handles) /\ LeavesAlone(handles) /\ hidden' \subseteq registered' /\ registered' \subseteq Views
  BY <1>1, HandlesAreKept DEF DeskInv
<1> QED
  BY <1>1, <1>2, SelectionKeeps

\* The first of the other visible views.
LEMMA FallbackIsVisible ==
    ASSUME DeskInv, NEW v, VisibleViews \ {v} # {} PROVE Fallback(v) \in VisibleViews \ {v}
<1> DEFINE others == VisibleViews \ {v}
<1>1. others \subseteq Nat
  BY DeskAssumption DEF DeskInv, VisibleViews
<1>2. \E m \in others : \A x \in others : m <= x
  BY <1>1, LeastElement
<1> HIDE DEF others
<1>3. Min(others) \in others
  BY <1>2 DEF Min
<1> QED
  BY <1>3 DEF Fallback, others

\* Archiving a view, from its tab or with its panel.
LEMMA ArchivesViewKeeps ==
    ASSUME DeskInv, NEW hs, KeepsHandles(hs), LeavesAlone(hs), NEW v \in registered, ArchivesView(v, hs),
           UNCHANGED <<registered, locked, drag>>
    PROVE  DeskInv' /\ StepSound
<1>1. /\ hidden \subseteq registered /\ registered \subseteq Views /\ ActiveIsVisible /\ ActiveIsShown
      /\ GoodHandles(hs)
  BY DEF DeskInv, KeepsHandles
<1>2. CASE v # active
  <2>1. handles' = hs /\ hidden' = hidden \cup {v} /\ UNCHANGED <<active, shown, host>>
    BY <1>2 DEF ArchivesView
  <2>2. active \in WithHandle => active \in WithHandle'
    BY <2>1, ListsStay
  <2>3. ActiveIsVisible' /\ ActiveIsShown'
    BY <1>1, <1>2, <2>1, <2>2 DEF ActiveIsVisible, ActiveIsShown, VisibleViews
  <2>4. DeskInv'
    BY <1>1, <2>1, <2>3, ListsStay DEF DeskInv
  <2> QED
    BY <2>1, <2>4, QuietSteps
<1>3. CASE v = active /\ VisibleViews \ {v} = {}
  <2>1. handles' = hs /\ hidden' = hidden \cup {v} /\ active' = NoView /\ host' = "gone" /\ shown' = shown
    BY <1>3 DEF ArchivesView
  <2>2. ActiveIsVisible' /\ ActiveIsShown'
    BY <2>1 DEF ActiveIsVisible, ActiveIsShown
  <2>3. DeskInv'
    BY <1>1, <2>1, <2>2, ListsStay DEF DeskInv
  <2> QED
    BY <2>1, <2>3, QuietSteps
<1>4. CASE v = active /\ VisibleViews \ {v} # {}
  <2>1. /\ Selected(Fallback(v), hs) /\ UNCHANGED <<locked, host, drag>>
        /\ hidden' \in {hidden, hidden \cup {v}}
    BY <1>4 DEF ArchivesView
  <2>2. Fallback(v) \in VisibleViews \ {v}
    BY <1>4, FallbackIsVisible
  <2>3. Fallback(v) \in Views /\ Fallback(v) \in registered' \ hidden'
    BY <1>1, <2>1, <2>2 DEF VisibleViews
  <2>4. hidden' \subseteq registered' /\ registered' \subseteq Views
    BY <1>1, <2>1
  <2> QED
    BY <2>1, <2>3, <2>4, SelectionKeeps
<1> QED
  BY <1>2, <1>3, <1>4

LEMMA ArchiveTabKeeps == ASSUME DeskInv, NEW v \in Views, ArchiveTab(v) PROVE DeskInv' /\ StepSound
<1>1. v \in registered /\ ArchivesView(v, handles) /\ UNCHANGED <<registered, locked, drag>>
  BY DEF ArchiveTab, VisibleViews
<1>2. KeepsHandles(handles) /\ LeavesAlone(handles)
  BY HandlesAreKept
<1> QED
  BY <1>1, <1>2, ArchivesViewKeeps

LEMMA ArchivePanelKeeps == ASSUME DeskInv, NEW p \in Panels, ArchivePanel(p) PROVE DeskInv' /\ StepSound
<1> DEFINE hs == [handles EXCEPT ![p].archived = TRUE]
<1>1. GoodHandles(handles) /\ handles[p].known /\ locked \subseteq Panels
  BY DEF ArchivePanel, WithHandle, DeskInv
<1>2. KeepsHandles(hs) /\ LeavesAlone(hs)
  <2> DEFINE rec == [handles[p] EXCEPT !.archived = TRUE]
  <2>1. handles[p] \in HandleRecs /\ handles \in [Panels -> HandleRecs]
    BY <1>1 DEF GoodHandles
  <2>2. /\ rec \in HandleRecs /\ rec.known /\ rec.archived /\ rec.pos = handles[p].pos
        /\ rec.size = handles[p].size /\ rec.size >= MinSize
    BY <1>1, <2>1 DEF HandleRecs, GoodHandles
  <2>3. hs = [handles EXCEPT ![p] = rec]
    OBVIOUS
  <2> HIDE DEF rec
  <2>4. hs \in [Panels -> HandleRecs] /\ hs[p] = rec /\ \A q \in Panels \ {p} : hs[q] = handles[q]
    BY <2>1, <2>2, <2>3
  <2> HIDE DEF hs
  <2>5. GoodHandles(hs)
    BY <1>1, <2>2, <2>4 DEF GoodHandles
  <2>6. KeepsHandles(hs)
    BY <2>2, <2>4, <2>5 DEF KeepsHandles, WithHandle
  <2>7. LeavesAlone(hs)
    BY <1>1, <2>2, <2>4 DEF LeavesAlone
  <2> QED
    BY <2>6, <2>7
<1>3. UNCHANGED <<registered, locked, drag>>
  BY DEF ArchivePanel
<1>4. CASE p \in registered
  <2>1. ArchivesView(p, hs)
    BY <1>4 DEF ArchivePanel
  <2> HIDE DEF hs
  <2> QED
    BY <1>2, <1>3, <1>4, <2>1, ArchivesViewKeeps
<1>5. CASE p \notin registered
  <2>1. handles' = hs /\ UNCHANGED <<registered, hidden, active, locked, shown, host, drag>>
    BY <1>3, <1>5 DEF ArchivePanel
  <2> HIDE DEF hs
  <2> QED
    BY <1>2, <2>1, HandlesChange, QuietSteps
<1> QED
  BY <1>4, <1>5

\* Restoring one, and the steps that touch one list.
LEMMA RestorePanelKeeps == ASSUME DeskInv, NEW p \in Panels, RestorePanel(p) PROVE DeskInv' /\ StepSound
<1> DEFINE rec == [handles[p] EXCEPT !.archived = FALSE]
<1>1. /\ handles' = [handles EXCEPT ![p].archived = FALSE] /\ hidden' = hidden \ {p}
      /\ UNCHANGED <<registered, active, locked, shown, host, drag>>
  BY DEF RestorePanel
<1>2. /\ handles[p] \in HandleRecs /\ handles \in [Panels -> HandleRecs] /\ handles[p].known
      /\ GoodHandles(handles) /\ locked \subseteq Panels
  BY DEF RestorePanel, WithHandle, DeskInv, GoodHandles
<1>3. /\ rec \in HandleRecs /\ rec.known /\ ~rec.archived /\ rec.pos = handles[p].pos
      /\ rec.size = handles[p].size /\ rec.size >= MinSize
  BY <1>2 DEF HandleRecs, GoodHandles
<1>4. handles' = [handles EXCEPT ![p] = rec]
  BY <1>1
<1> HIDE DEF rec
<1>5. handles' \in [Panels -> HandleRecs] /\ handles'[p] = rec /\ \A q \in Panels \ {p} : handles'[q] = handles[q]
  BY <1>2, <1>3, <1>4
<1>6. GoodHandles(handles')
  BY <1>2, <1>3, <1>5 DEF GoodHandles
<1>7. KeepsHandles(handles')
  BY <1>3, <1>5, <1>6 DEF KeepsHandles, WithHandle
<1>8. DeskInv'
  <2>1. active \in WithHandle => active \in WithHandle'
    BY <1>7, ListsStay
  <2>2. ActiveIsVisible' /\ ActiveIsShown'
    BY <1>1, <2>1 DEF DeskInv, ActiveIsVisible, ActiveIsShown, VisibleViews
  <2> QED
    BY <1>1, <1>6, <1>7, <2>2, ListsStay DEF DeskInv
<1>9. LockedStep
  BY <1>2, <1>3, <1>5 DEF LockedStep
<1>10. RestoredStep
  <2>1. registered \subseteq Panels
    BY PanelsAre DEF DeskInv
  <2> QED
    BY <1>1, <1>5, <2>1 DEF RestoredStep
<1>11. SnapStep
  BY <1>3, <1>5 DEF SnapStep
<1> QED
  BY <1>8, <1>9, <1>10, <1>11 DEF StepSound

LEMMA ListStepsKeep ==
    ASSUME DeskInv,
           \/ \E v \in Views : RestoreView(v) \/ RegisterView(v)
           \/ \E p \in Panels : LockPanel(p) \/ UnlockPanel(p)
           \/ UNCHANGED deskVars
    PROVE  DeskInv' /\ StepSound
<1>1. /\ UNCHANGED <<active, handles, shown, host, drag>>
      /\ hidden' \subseteq hidden /\ registered \subseteq registered' /\ registered' \subseteq Views
      /\ locked' \subseteq WithHandle
  BY DEF DeskInv, RestoreView, RegisterView, LockPanel, UnlockPanel, deskVars
<1>2. WithHandle' = WithHandle
  BY <1>1 DEF WithHandle
<1>3. ActiveIsVisible' /\ ActiveIsShown'
  BY <1>1, <1>2 DEF DeskInv, ActiveIsVisible, ActiveIsShown, VisibleViews
<1>4. DeskInv'
  BY <1>1, <1>2, <1>3 DEF DeskInv
<1> QED
  BY <1>1, <1>4, HandlesAreKept, QuietSteps

LEMMA DeskKeeps == DeskInv /\ [DeskNext]_deskVars => DeskInv' /\ StepSound
<1> SUFFICES ASSUME DeskInv, [DeskNext]_deskVars PROVE DeskInv' /\ StepSound
  OBVIOUS
<1>1. ASSUME NEW v \in Views, SelectTab(v) \/ ArchiveTab(v) \/ SetView(v) PROVE DeskInv' /\ StepSound
  BY <1>1, SelectTabKeeps, ArchiveTabKeeps, SetViewKeeps
<1>2. ASSUME NEW p \in Panels, ArchivePanel(p) \/ RestorePanel(p) \/ Release(p) PROVE DeskInv' /\ StepSound
  BY <1>2, ArchivePanelKeeps, RestorePanelKeeps, ReleaseKeeps
<1>3. ASSUME NEW p \in Panels, DragStart(p) \/ ResizeStart(p) PROVE DeskInv' /\ StepSound
  BY <1>3, PressKeeps DEF DragStart, ResizeStart
<1>4. ASSUME NEW p \in Panels, NEW x \in Targets, MovePanel(p, x) \/ ResizePanel(p, x)
      PROVE  DeskInv' /\ StepSound
  BY <1>4, MovePanelKeeps, ResizePanelKeeps
<1>5. ASSUME NEW p \in Panels, NEW d \in Cursor, DragMotion(p, d) \/ ResizeMotion(p, d)
      PROVE  DeskInv' /\ StepSound
  BY <1>5, DragMotionKeeps, ResizeMotionKeeps
<1> QED
  BY <1>1, <1>2, <1>3, <1>4, <1>5, ListStepsKeep DEF DeskNext

\* In any order of tabs, text commands and gestures the desk shows its active
\* view, locks hold, snaps settle and what is restored is visible.
THEOREM DeskSound == DeskSpec => DeskIsSound
<1>1. DeskSpec => []DeskInv
  BY DeskStarts, DeskKeeps, PTL DEF DeskSpec
<1>2. DeskInv => DeskTypeOK /\ ActiveIsVisible /\ ActiveIsShown
  BY DEF DeskInv, DeskTypeOK, GoodHandles, WithHandle, Drags
<1>3. DeskInv /\ [DeskNext]_deskVars => [LockedStep]_deskVars /\ [SnapStep]_deskVars /\ [RestoredStep]_deskVars
  BY DeskKeeps DEF StepSound
<1>4. DeskSpec => [][LockedStep]_deskVars /\ [][SnapStep]_deskVars /\ [][RestoredStep]_deskVars
  BY <1>1, <1>3, PTL DEF DeskSpec
<1> QED
  BY <1>1, <1>2, <1>4, PTL DEF DeskIsSound, LockedStays, SnapSettles, RestoredIsVisible, LockedStep, SnapStep, RestoredStep

--------------------------------------------------------------------------------
(* The lists over sources that change *)

Line == Things \cup {Blank}

\* A message is in its source at most once.
OnceIn(ls) == \A i, j \in DOMAIN ls : ls[i] # Blank /\ ls[i] = ls[j] => i = j

\* A message's id is its own name, so that it means the same wherever it is found.
NamesItself(S) == \A x \in S : x.thing \in Things /\ x.id = x.thing

ListInv ==
    /\ lines \in Seq(Line) /\ OnceIn(lines)
    /\ trusted \subseteq Senders /\ granted \subseteq Senders
    /\ NamesItself(items) /\ NamesItself(rows)
    /\ expanded # NotExpanded => expanded.id = expanded.meant
    /\ ActsOnWhatWasMeant

\* What a step that acts on messages may do: the panel lists none of them afterwards.
HandledStep == acted' # acted => \A a \in acted' \ acted : \A r \in rows' : r.thing # a[2]

(* What is left of a sequence without one of its elements.                 *)
LEMMA RemoveAtIs ==
    ASSUME NEW S, NEW s \in Seq(S), NEW i \in DOMAIN s
    PROVE  /\ RemoveAt(s, i) \in Seq(S) /\ Len(RemoveAt(s, i)) = Len(s) - 1
           /\ \A j \in 1 .. Len(s) - 1 : RemoveAt(s, i)[j] = s[IF j < i THEN j ELSE j + 1]
<1> DEFINE n == Len(s)
           a == SubSeq(s, 1, i - 1)
           b == SubSeq(s, i + 1, n)
           new == RemoveAt(s, i)
<1>1. n \in Nat /\ DOMAIN s = 1 .. n /\ i \in 1 .. n
  OBVIOUS
<1>2. new = a \o b
  BY DEF RemoveAt
<1>3. /\ a \in Seq(S) /\ Len(a) = i - 1 /\ \A j \in 1 .. i - 1 : a[j] = s[j]
      /\ b \in Seq(S) /\ Len(b) = n - i /\ \A j \in 1 .. n - i : b[j] = s[i + j]
  BY <1>1
<1> HIDE DEF a, b, new
<1>4. /\ new \in Seq(S) /\ Len(new) = Len(a) + Len(b)
      /\ \A j \in 1 .. Len(a) + Len(b) : new[j] = IF j <= Len(a) THEN a[j] ELSE b[j - Len(a)]
  BY <1>2, <1>3, ConcatProperties
<1>5. Len(new) = n - 1
  BY <1>1, <1>3, <1>4
<1>6. ASSUME NEW j \in 1 .. n - 1 PROVE new[j] = s[IF j < i THEN j ELSE j + 1]
  <2>1. CASE j < i
    BY <2>1, <1>1, <1>3, <1>4
  <2>2. CASE j >= i
    <3>1. j - (i - 1) \in 1 .. n - i /\ ~(j <= i - 1) /\ i + (j - (i - 1)) = j + 1
      BY <2>2, <1>1
    <3>2. j \in 1 .. Len(a) + Len(b) /\ ~(j <= Len(a)) /\ j - Len(a) = j - (i - 1)
      BY <3>1, <1>1, <1>3
    <3>3. new[j] = b[j - (i - 1)]
      BY <3>2, <1>4
    <3> QED
      BY <2>2, <3>1, <3>3, <1>1, <1>3
  <2> QED
    BY <2>1, <2>2, <1>1
<1> QED
  BY <1>4, <1>5, <1>6 DEF new

(* Without one of its lines a source is still one.                         *)
LEMMA WithoutLine ==
    ASSUME NEW ls \in Seq(Line), OnceIn(ls), NEW i \in DOMAIN ls
    PROVE  /\ RemoveAt(ls, i) \in Seq(Line) /\ OnceIn(RemoveAt(ls, i))
           /\ ls[i] # Blank =>
                 \A j \in DOMAIN RemoveAt(ls, i) : RemoveAt(ls, i)[j] # ls[i]
<1> DEFINE n == Len(ls)
           new == RemoveAt(ls, i)
           from(j) == IF j < i THEN j ELSE j + 1
<1>1. n \in Nat /\ DOMAIN ls = 1 .. n /\ i \in 1 .. n
  OBVIOUS
<1>2. /\ new \in Seq(Line) /\ Len(new) = n - 1
      /\ \A j \in 1 .. n - 1 : new[j] = ls[from(j)]
  BY RemoveAtIs
<1>3. \A j \in 1 .. n - 1 : from(j) \in 1 .. n /\ from(j) # i
  BY <1>1
<1>4. DOMAIN new = 1 .. n - 1
  BY <1>1, <1>2
<1>5. \A j, k \in 1 .. n - 1 : from(j) = from(k) => j = k
  BY <1>1
<1> HIDE DEF new, from, n
<1>6. OnceIn(new)
  BY <1>1, <1>2, <1>3, <1>4, <1>5 DEF OnceIn
<1>7. ls[i] # Blank => \A j \in DOMAIN new : new[j] # ls[i]
  BY <1>1, <1>2, <1>3, <1>4 DEF OnceIn
<1> QED
  BY <1>2, <1>6, <1>7 DEF new

(* With a line that is blank or new it is, too.                            *)
LEMMA WithLine ==
    ASSUME NEW ls \in Seq(Line), OnceIn(ls), NEW i \in 1 .. Len(ls) + 1, NEW x \in Line,
           x = Blank \/ x \notin ToSet(ls)
    PROVE  InsertAt(ls, i, x) \in Seq(Line) /\ OnceIn(InsertAt(ls, i, x))
<1> DEFINE n == Len(ls)
           a == SubSeq(ls, 1, i - 1)
           b == SubSeq(ls, i, n)
           new == InsertAt(ls, i, x)
           from(j) == IF j < i THEN j ELSE j - 1
<1>1. n \in Nat /\ DOMAIN ls = 1 .. n /\ i \in 1 .. n + 1
  OBVIOUS
<1>2. new = a \o <<x>> \o b
  BY DEF InsertAt
<1>3. /\ a \in Seq(Line) /\ Len(a) = i - 1 /\ \A j \in 1 .. i - 1 : a[j] = ls[j]
      /\ b \in Seq(Line) /\ Len(b) = n - i + 1 /\ \A j \in 1 .. n - i + 1 : b[j] = ls[i + j - 1]
  BY <1>1
<1> DEFINE c == a \o <<x>>
<1> HIDE DEF a, b, new
<1>c. /\ c \in Seq(Line) /\ Len(c) = i /\ c[i] = x
      /\ \A j \in 1 .. i - 1 : c[j] = ls[j]
  <2>1. <<x>> \in Seq(Line) /\ Len(<<x>>) = 1 /\ <<x>>[1] = x
    OBVIOUS
  <2>2. /\ c \in Seq(Line) /\ Len(c) = Len(a) + 1
        /\ \A j \in 1 .. Len(a) + 1 : c[j] = IF j <= Len(a) THEN a[j] ELSE <<x>>[j - Len(a)]
    BY <2>1, <1>3, ConcatProperties DEF c
  <2> QED
    BY <2>1, <2>2, <1>1, <1>3
<1>d. new = c \o b
  BY <1>2 DEF c
<1> HIDE DEF c
<1>p. /\ new \in Seq(Line) /\ Len(new) = Len(c) + Len(b)
      /\ \A j \in 1 .. Len(c) + Len(b) : new[j] = IF j <= Len(c) THEN c[j] ELSE b[j - Len(c)]
  BY <1>3, <1>c, <1>d, ConcatProperties
<1>4. new \in Seq(Line) /\ Len(new) = n + 1 /\ new[i] = x
  BY <1>1, <1>3, <1>c, <1>p
<1>5. \A j \in 1 .. n + 1 : j # i => new[j] = ls[from(j)] /\ from(j) \in 1 .. n
  <2> SUFFICES ASSUME NEW j \in 1 .. n + 1, j # i
               PROVE  new[j] = ls[from(j)] /\ from(j) \in 1 .. n
    OBVIOUS
  <2>1. CASE j < i
    BY <2>1, <1>1, <1>3, <1>c, <1>p
  <2>2. CASE j > i
    BY <2>2, <1>1, <1>3, <1>c, <1>p
  <2> QED
    BY <2>1, <2>2, <1>1
<1>6. DOMAIN new = 1 .. n + 1
  BY <1>1, <1>4
<1>7. \A j, k \in 1 .. n + 1 : j # i /\ k # i /\ from(j) = from(k) => j = k
  BY <1>1
<1>8. x # Blank => \A k \in 1 .. n : ls[k] # x
  BY <1>1 DEF ToSet
<1> HIDE DEF new, from, n
<1>9. OnceIn(new)
  BY <1>1, <1>4, <1>5, <1>6, <1>7, <1>8 DEF OnceIn
<1> QED
  BY <1>4, <1>9 DEF new

(* What a panel of messages is given names itself, is in its source, and   *)
(* is of nobody who is trusted.                                            *)
LEMMA ParsedNames ==
    ASSUME ~Positional, NEW ls \in Seq(Line), NEW trust
    PROVE  /\ NamesItself(Parsed(ls, trust))
           /\ \A r \in Parsed(ls, trust) :
                 /\ \E i \in DOMAIN ls : r.thing = ls[i]
                 /\ Sender[r.thing] \notin trust
<1>1. \A i \in Listed(ls, trust) : i \in DOMAIN ls /\ ls[i] # Blank /\ Sender[ls[i]] \notin trust
  BY DEF Listed
<1>2. \A i \in DOMAIN ls : ls[i] \in Line
  OBVIOUS
<1>3. \A i \in DOMAIN ls : Item(ls, i) = [id |-> ls[i], thing |-> ls[i]]
  BY DEF Item
<1>4. \A r \in Parsed(ls, trust) : \E i \in Listed(ls, trust) : r = Item(ls, i)
  BY DEF Parsed
<1> QED
  BY <1>1, <1>2, <1>3, <1>4 DEF NamesItself, Line

LEMMA ListStarts == ListInit => ListInv
BY DEF ListInit, ListInv, OnceIn, NamesItself, ActsOnWhatWasMeant, Line

\* A row resolves to nothing but what it names.
LEMMA ResolvesToItself ==
    ASSUME ListInv, NEW r \in rows
    PROVE  \A x \in ReResolved(r) : x = r.thing /\ x \in Things
BY DEF ListInv, NamesItself, ReResolved, ResolvedItems

(***************************************************************************)
(* A verb that was done leaves a panel without what it was done to.        *)
(***************************************************************************)
LEMMA HandledKeeps ==
    ASSUME ~Positional, ListInv, NEW r \in rows, NEW ls \in Seq(Line), OnceIn(ls),
           NEW trust \in SUBSET Senders, Handled(r, ls, trust),
           (\A i \in DOMAIN ls : ls[i] # r.thing) \/ Sender[r.thing] \in trust
    PROVE  ListInv' /\ HandledStep
<1>1. /\ lines' = ls /\ trusted' = trust /\ granted' = trust
      /\ items' = Parsed(ls, trust) /\ rows' = Parsed(ls, trust)
      /\ expanded' = expanded
      /\ acted' = acted \cup {<<r.thing, x>> : x \in ReResolved(r)}
  BY DEF Handled, ListPrecomputed
<1>2. \A a \in acted' \ acted : a = <<r.thing, r.thing>>
  BY <1>1, ResolvesToItself
<1>3. NamesItself(Parsed(ls, trust))
  BY ParsedNames
<1>4. \A q \in Parsed(ls, trust) : q.thing # r.thing
  BY ParsedNames
<1>5. (NamesItself(items))' /\ (NamesItself(rows))'
  BY <1>1, <1>3 DEF NamesItself
<1>6. ActsOnWhatWasMeant'
  BY <1>2 DEF ActsOnWhatWasMeant, ListInv
<1>7. (expanded # NotExpanded => expanded.id = expanded.meant)'
  BY <1>1 DEF ListInv, NotExpanded
<1>8. HandledStep
  BY <1>1, <1>2, <1>4 DEF HandledStep
<1> QED
  BY <1>1, <1>5, <1>6, <1>7, <1>8 DEF ListInv, OnceIn

\* A step that acts on no message keeps the rest if it keeps what it touches sound.
LEMMA QuietKeeps ==
    ASSUME ListInv, acted' = acted,
           lines' \in Seq(Line), (OnceIn(lines))',
           trusted' \subseteq Senders, granted' \subseteq Senders,
           (NamesItself(items))', (NamesItself(rows))',
           (expanded # NotExpanded => expanded.id = expanded.meant)'
    PROVE  ListInv' /\ HandledStep
BY DEF ListInv, HandledStep, ActsOnWhatWasMeant

LEMMA ListKeeps == ASSUME ~Positional, ListInv, [ListNext]_listVars PROVE ListInv' /\ HandledStep
<1>0. /\ lines \in Seq(Line) /\ OnceIn(lines)
      /\ trusted \subseteq Senders /\ granted \subseteq Senders
      /\ NamesItself(items) /\ NamesItself(rows)
      /\ expanded # NotExpanded => expanded.id = expanded.meant
  BY DEF ListInv
<1>a. lines' = lines => lines' \in Seq(Line) /\ (OnceIn(lines))'
  BY <1>0 DEF OnceIn
<1>b. items' = items => (NamesItself(items))'
  BY <1>0 DEF NamesItself
<1>c. rows' = rows \/ rows' = items => (NamesItself(rows))'
  BY <1>0 DEF NamesItself
<1>d. expanded' = expanded => (expanded # NotExpanded => expanded.id = expanded.meant)'
  BY <1>0 DEF NotExpanded
<1>e. \A trust : items' = Parsed(lines, trust) => (NamesItself(items))'
  BY <1>0, ParsedNames DEF NamesItself
<1>1. ASSUME ListPrecompute \/ Draw PROVE ListInv' /\ HandledStep
  BY <1>1, <1>0, <1>a, <1>b, <1>c, <1>d, <1>e, QuietKeeps DEF ListPrecompute, ListPrecomputed, Draw
<1>2. ASSUME Collapse PROVE ListInv' /\ HandledStep
  BY <1>2, <1>0, <1>a, <1>b, <1>c, QuietKeeps DEF Collapse, NotExpanded
<1>3. ASSUME NEW i \in 1 .. Len(lines) + 1, NEW x \in Things \cup {Blank}, InsertLine(x, i)
      PROVE  ListInv' /\ HandledStep
  <2>1. lines' = InsertAt(lines, i, x) /\ (x = Blank \/ x \notin ToSet(lines))
    BY <1>3 DEF InsertLine
  <2>2. InsertAt(lines, i, x) \in Seq(Line) /\ OnceIn(InsertAt(lines, i, x))
    BY <2>1, <1>0, WithLine DEF Line
  <2>3. lines' \in Seq(Line) /\ (OnceIn(lines))'
    BY <2>1, <2>2 DEF OnceIn
  <2> QED
    BY <1>3, <2>3, <1>0, <1>b, <1>c, <1>d, QuietKeeps DEF InsertLine
<1>4. ASSUME NEW i \in DOMAIN lines, DeleteLine(i) PROVE ListInv' /\ HandledStep
  <2>1. lines' = RemoveAt(lines, i)
    BY <1>4 DEF DeleteLine
  <2>2. lines' \in Seq(Line) /\ (OnceIn(lines))'
    BY <2>1, <1>0, WithoutLine DEF OnceIn
  <2> QED
    BY <1>4, <2>2, <1>0, <1>b, <1>c, <1>d, QuietKeeps DEF DeleteLine
<1>5. ASSUME NEW r \in rows, Expand(r) PROVE ListInv' /\ HandledStep
  <2>1. expanded' = [id |-> r.id, meant |-> r.thing] /\ r.id = r.thing
    BY <1>5, <1>0 DEF Expand, NamesItself
  <2> QED
    BY <1>5, <2>1, <1>0, <1>a, <1>b, <1>c, QuietKeeps DEF Expand
<1>6. ASSUME NEW r \in rows, DeleteMessage(r) PROVE ListInv' /\ HandledStep
  <2>1. PICK i \in DOMAIN lines :
          lines[i] \in ReResolved(r) /\ Handled(r, RemoveAt(lines, i), trusted)
    BY <1>6 DEF DeleteMessage
  <2>2. lines[i] = r.thing /\ lines[i] # Blank
    BY <2>1, ResolvesToItself, BlankAssumption
  <2>3. /\ RemoveAt(lines, i) \in Seq(Line) /\ OnceIn(RemoveAt(lines, i))
        /\ \A j \in DOMAIN RemoveAt(lines, i) : RemoveAt(lines, i)[j] # r.thing
    BY <2>2, <1>0, WithoutLine
  <2> QED
    BY <2>1, <2>3, <1>0, HandledKeeps
<1>7. ASSUME NEW r \in rows, Promote(r) PROVE ListInv' /\ HandledStep
  <2>1. PICK x \in ReResolved(r) : Handled(r, lines, trusted \cup {Sender[x]})
    BY <1>7 DEF Promote
  <2>2. x = r.thing /\ Sender[x] \in Senders
    BY <2>1, ResolvesToItself DEF Senders
  <2> QED
    BY <2>1, <2>2, <1>0, HandledKeeps
<1>8. ASSUME NEW r \in rows, Misses(r) PROVE ListInv' /\ HandledStep
  BY <1>8, <1>0, <1>a, <1>b, <1>c, <1>d, QuietKeeps DEF Misses
<1>9. ASSUME NEW s \in Senders, Revoke(s) PROVE ListInv' /\ HandledStep
  <2>1. /\ trusted' = trusted \ {s} /\ granted' = trusted'
        /\ items' = Parsed(lines, trusted')
    BY <1>9 DEF Revoke, ListPrecomputed
  <2> QED
    BY <1>9, <2>1, <1>0, <1>a, <1>c, <1>d, <1>e, QuietKeeps DEF Revoke
<1>10. ASSUME UNCHANGED listVars PROVE ListInv' /\ HandledStep
  BY <1>10, <1>0, <1>a, <1>b, <1>c, <1>d, QuietKeeps DEF listVars
<1> QED
  BY <1>1, <1>2, <1>3, <1>4, <1>5, <1>6, <1>7, <1>8, <1>9, <1>10 DEF ListNext

LEMMA ListInvIsTrue == ListInv => ListTypeOK /\ ActsOnWhatWasMeant /\ ExpandedIsMeant
<1> SUFFICES ASSUME ListInv PROVE ListTypeOK /\ ExpandedIsMeant
  BY DEF ListInv
<1>1. ToSet(lines) \subseteq Line
  BY DEF ListInv, ToSet
<1> QED
  BY <1>1 DEF ListInv, ListTypeOK, ExpandedIsMeant, NamesItself, Line

(***************************************************************************)
(* For lists of messages, however their source, the cache and the trusted  *)
(* senders change between the drawing and the click: a verb is done to the *)
(* message that was clicked, the body shown is that of the message that    *)
(* was expanded, and a message that was acted on is gone from the panel.   *)
(***************************************************************************)
THEOREM ListsTrue == ~Positional => (ListSpec => ListsAreTrue)
<1> SUFFICES ASSUME ~Positional PROVE ListSpec => ListsAreTrue
  OBVIOUS
<1>1. ListInv /\ [ListNext]_listVars => ListInv' /\ HandledStep
  BY ListKeeps
<1>2. HandledStep <=> (acted' # acted => \A a \in acted' \ acted : \A r \in rows' : r.thing # a[2])
  BY DEF HandledStep
<1> QED
  BY <1>1, <1>2, ListStarts, ListInvIsTrue, PTL DEF ListSpec, ListsAreTrue, HandledIsGone

--------------------------------------------------------------------------------
(* The controls of a panel *)

Children == [name : Names, as : {"link", "rendered"}]

IsRange(t, s) ==
    t \in Ranged =>
        /\ s \in [min : Int, max : Int, value : Int, step : Int]
        /\ s.min <= s.value /\ s.value <= s.max /\ s.step > 0

IsDropdown(t, s) ==
    t = "Dropdown" =>
        /\ s \in [options : Seq(Names), selected : Names \cup {NoOption}]
        /\ IF s.options = << >> THEN s.selected = NoOption ELSE s.selected \in ToSet(s.options)

IsToolbox(t, s) ==
    t = "Toolbox" => s \in [contents : Seq(Children)] /\ Len(s.contents) <= MaxItems

\* The submissions that are kept, by their numbers: the last ones up to the limit.
Latest(now, built) ==
    LET n == Lesser(Limit, now - built) IN [i \in 1 .. n |-> now - n + i]

IsTerminal(t, s, ty) ==
    t = "Terminal" =>
        /\ s \in [visibility : ToSet(Visibilities), output : Nat, history : Seq(Int)]
        /\ s.history = Latest(ty.now, ty.built)

RangeInv == IsRange(type, state)
DropdownInv == IsDropdown(type, state)
ToolboxInv == IsToolbox(type, state)
TerminalInv == IsTerminal(type, state, typed)

ControlInv ==
    /\ type \in Ranged \cup {"Dropdown", "Toolbox", "Terminal"}
    /\ verbs \in 0 .. MaxVerbs
    /\ typed \in [now : Nat, built : Nat] /\ typed.built <= typed.now
    /\ RangeInv /\ DropdownInv /\ ToolboxInv /\ TerminalInv

\* What a step changes of the state it shows, unless it builds the state again.
ChangesShown ==
    \A f \in DOMAIN state \ {"selected"} :
        state' # Build(type, params') /\ state'[f] # state[f] => f \in DOMAIN view' /\ view'[f] = state'[f]

LEMMA ClampedIs ==
    ASSUME NEW n \in Int, NEW lo \in Int, NEW hi \in Int, lo <= hi
    PROVE  Clamped(n, lo, hi) \in Int /\ lo <= Clamped(n, lo, hi) /\ Clamped(n, lo, hi) <= hi
BY DEF Clamped, Lesser, Greater

(* The options without those that come again are options.                  *)
LEMMA DistinctIs ==
    ASSUME NEW S, NEW s \in Seq(S)
    PROVE  Distinct(s) \in Seq(S)
<1> DEFINE n == Len(s)
           After(out, x) == IF x \in ToSet(out) THEN out ELSE Append(out, x)
           IsTrace(g, m) ==
              g = [k \in 0 .. m |-> IF k = 0 THEN << >> ELSE After(g[k-1], s[k])]
           T == {m \in 0 .. n : ~\E g : IsTrace(g, m)}
           kept == CHOOSE g : IsTrace(g, n)
<1>0. n \in Nat
  OBVIOUS
<1>1. T = {}
  <2> SUFFICES ASSUME T # {} PROVE FALSE
    OBVIOUS
  <2>0. T \subseteq Nat
    OBVIOUS
  <2>1. PICK m \in T : \A y \in T : m <= y
    <3> HIDE DEF T
    <3> QED
      BY <2>0, LeastElement
  <2>2. CASE m = 0
    <3>1. IsTrace([k \in 0 .. 0 |-> << >>], 0)
      OBVIOUS
    <3> QED
      BY <2>2, <3>1
  <2>3. CASE m # 0
    <3>1. m \in 1 .. n /\ m - 1 \in 0 .. n /\ m - 1 \notin T
      <4>1. m \in 0 .. n
        OBVIOUS
      <4> HIDE DEF T, n
      <4> QED
        BY <1>0, <2>0, <2>1, <2>3, <4>1
    <3>2. PICK g : IsTrace(g, m - 1)
      BY <3>1
    <3> DEFINE h == [k \in 0 .. m |-> IF k = 0 THEN << >> ELSE After(g[k-1], s[k])]
    <3>3. \A k \in 0 .. m - 1 : h[k] = g[k]
      <4> HIDE DEF T, n, After
      <4> QED
        BY <3>1, <3>2
    <3>4. \A k \in 0 .. m : k # 0 => k - 1 \in 0 .. m - 1
      <4> HIDE DEF T, n
      <4> QED
        BY <3>1
    <3>5. IsTrace(h, m)
      <4>1. \A k \in 0 .. m : k # 0 => h[k-1] = g[k-1]
        BY <3>3, <3>4
      <4> HIDE DEF After
      <4> QED
        BY <4>1
    <3> QED
      BY <3>5
  <2> QED
    BY <2>2, <2>3
<1>2. \E g : IsTrace(g, n)
  BY <1>1
<1>3. IsTrace(kept, n)
  BY <1>2
<1>4. Distinct(s) = kept[n]
  BY DEF Distinct
<1> HIDE DEF kept
<1>5. kept[0] = << >> /\ \A k \in 1 .. n : kept[k] = After(kept[k-1], s[k])
  <2> HIDE DEF After, n
  <2> QED
    BY <1>0, <1>3
<1> DEFINE U == {m \in 0 .. n : kept[m] \notin Seq(S)}
<1>6. U = {}
  <2> SUFFICES ASSUME U # {} PROVE FALSE
    OBVIOUS
  <2>1. U \subseteq Nat
    OBVIOUS
  <2>2. PICK m \in U : \A y \in U : m <= y
    <3> HIDE DEF U
    <3> QED
      BY <2>1, LeastElement
  <2>3. m # 0
    <3>1. kept[0] \in Seq(S)
      BY <1>5
    <3>2. kept[m] \notin Seq(S)
      BY <2>2
    <3> QED
      BY <3>1, <3>2
  <2>4. m \in 1 .. n /\ m - 1 \in 0 .. n
    BY <2>3, <1>0
  <2>5. kept[m-1] \in Seq(S)
    BY <2>2, <2>4
  <2>6. s[m] \in S
    BY <2>4
  <2>7. kept[m] \in Seq(S)
    <3>1. kept[m] = IF s[m] \in ToSet(kept[m-1]) THEN kept[m-1] ELSE Append(kept[m-1], s[m])
      BY <1>5, <2>4
    <3>2. Append(kept[m-1], s[m]) \in Seq(S)
      BY <2>5, <2>6, AppendProperties
    <3> QED
      BY <2>5, <3>1, <3>2
  <2> QED
    BY <2>7
<1> QED
  BY <1>0, <1>4, <1>6

LEMMA LatestIs ==
    ASSUME NEW now \in Nat, NEW built \in Nat, built <= now
    PROVE  Latest(now, built) \in Seq(Int)
BY ControlAssumption DEF Latest, Lesser

(* A control is built sound from any parameters.                           *)
LEMMA BuiltIs ==
    ASSUME NEW t \in Ranged \cup {"Dropdown", "Toolbox", "Terminal"}, NEW p \in Params(t),
           NEW ty \in [now : Nat, built : Nat], ty.built = ty.now
    PROVE  /\ IsRange(t, Build(t, p)) /\ IsDropdown(t, Build(t, p))
           /\ IsToolbox(t, Build(t, p)) /\ IsTerminal(t, Build(t, p), ty)
<1> DEFINE s == Build(t, p)
<1>1. CASE t \in Ranged
  <2>1. p \in Ranges /\ s = BuildRange(p)
    BY <1>1 DEF Ranged, Params, Build
  <2>2. p.min \in Int /\ p.max \in Int /\ p.value \in Int /\ p.step \in Int /\ DefaultStep \in Nat \ {0}
    BY <2>1, ControlAssumption
  <2> DEFINE lo == Lesser(p.min, p.max)
             hi == Greater(p.min, p.max)
             step == IF p.step <= 0 THEN DefaultStep ELSE p.step
             value == Clamped(p.value, lo, hi)
  <2>3. lo \in Int /\ hi \in Int /\ lo <= hi /\ step \in Int /\ step > 0
    BY <2>2 DEF Lesser, Greater
  <2>4. s = [min |-> lo, max |-> hi, value |-> value, step |-> step]
    BY <2>1 DEF BuildRange
  <2> HIDE DEF lo, hi, step
  <2>5. value \in Int /\ lo <= value /\ value <= hi
    BY <2>2, <2>3, ClampedIs
  <2> HIDE DEF value
  <2>6. IsRange(t, s)
    BY <2>3, <2>4, <2>5 DEF IsRange
  <2> QED
    BY <1>1, <2>6 DEF Ranged, IsDropdown, IsToolbox, IsTerminal
<1>2. CASE t = "Dropdown"
  <2>1. p \in [options : Seqs(Names), selected : Names \cup {NoOption}] /\ s = BuildDropdown(p)
    BY <1>2 DEF Ranged, Params, Build
  <2>2. p.options \in Seq(Names)
    BY <2>1, ControlAssumption DEF Seqs
  <2> DEFINE options == Distinct(p.options)
  <2>3. options \in Seq(Names)
    BY <2>2, DistinctIs
  <2>4. /\ s.options = options
        /\ s = [options |-> options,
                    selected |-> IF p.selected \in ToSet(options) THEN p.selected ELSE FirstOption(options)]
    BY <2>1 DEF BuildDropdown
  <2> HIDE DEF options
  <2>5. /\ options = << >> => FirstOption(options) = NoOption /\ ToSet(options) = {}
        /\ options # << >> => FirstOption(options) \in Names /\ FirstOption(options) \in ToSet(options)
    BY <2>3 DEF FirstOption, ToSet
  <2>6. IsDropdown(t, s)
    BY <2>1, <2>3, <2>4, <2>5, <1>2 DEF IsDropdown
  <2> QED
    BY <1>2, <2>6 DEF Ranged, IsRange, IsToolbox, IsTerminal
<1>3. CASE t = "Toolbox"
  <2>1. p \in [contents : {<<>>} \cup {<<Child(x, "link")>> : x \in Names}] /\ s = [contents |-> p.contents]
    BY <1>3 DEF Ranged, Params, Build
  <2>2. p.contents \in Seq(Children) /\ Len(p.contents) <= 1
    <3>1. \A x \in Names : Child(x, "link") \in Children
      BY DEF Child, Children
    <3>2. p.contents = << >> \/ \E x \in Names : p.contents = <<Child(x, "link")>>
      BY <2>1
    <3>3. CASE p.contents = << >>
      BY <3>3
    <3>4. ASSUME NEW x \in Names, p.contents = <<Child(x, "link")>>
          PROVE  p.contents \in Seq(Children) /\ Len(p.contents) <= 1
      <4> DEFINE c == Child(x, "link")
      <4>1. c \in Children /\ p.contents = <<c>>
        BY <3>1, <3>4
      <4> HIDE DEF c
      <4> QED
        BY <4>1
    <3> QED
      BY <3>2, <3>3, <3>4
  <2>3. IsToolbox(t, s)
    BY <2>1, <2>2, ControlAssumption DEF IsToolbox
  <2> QED
    BY <1>3, <2>3 DEF Ranged, IsRange, IsDropdown, IsTerminal
<1>4. CASE t = "Terminal"
  <2>1. s = [visibility |-> "compact", output |-> 0, history |-> << >>]
    BY <1>4 DEF Ranged, Params, Build
  <2>2. Latest(ty.now, ty.built) = << >>
    BY ControlAssumption DEF Latest, Lesser
  <2>3. IsTerminal(t, s, ty)
    BY <2>1, <2>2 DEF IsTerminal, Visibilities, ToSet
  <2> QED
    BY <1>4, <2>3 DEF Ranged, IsRange, IsDropdown, IsToolbox
<1> QED
  BY <1>1, <1>2, <1>3, <1>4

LEMMA ControlStarts == ControlInit => ControlInv
<1> SUFFICES ASSUME ControlInit PROVE ControlInv
  OBVIOUS
<1>1. /\ type \in Ranged \cup {"Dropdown", "Toolbox", "Terminal"}
      /\ params \in Params(type) /\ state = Build(type, params)
      /\ typed \in [now : Nat, built : Nat] /\ typed.built = typed.now
  BY DEF ControlInit
<1>2. RangeInv /\ DropdownInv /\ ToolboxInv /\ TerminalInv
  BY <1>1, BuiltIs DEF RangeInv, DropdownInv, ToolboxInv, TerminalInv
<1> QED
  BY <1>1, <1>2, ControlAssumption DEF ControlInit, ControlInv

(***************************************************************************)
(* A verb keeps a control sound if it does so for its type, and shows what *)
(* its delta holds of the new state.                                       *)
(***************************************************************************)
LEMMA DoesKeeps ==
    ASSUME ControlInv, NEW new, NEW delta, Does(new, delta),
           typed' \in [now : Nat, built : Nat], typed'.built <= typed'.now,
           (RangeInv /\ DropdownInv /\ ToolboxInv /\ TerminalInv)',
           \A f \in DOMAIN state \ {"selected"} :
              new[f] # state[f] => f \in DOMAIN delta /\ delta[f] = new[f]
    PROVE  ControlInv' /\ ChangesShown
<1>1. view' = Merged(delta, view) /\ state' = new /\ type' = type /\ verbs' = verbs + 1 /\ verbs < MaxVerbs
  BY DEF Does
<1>2. \A f \in DOMAIN delta : f \in DOMAIN view' /\ view'[f] = delta[f]
  BY <1>1 DEF Merged
<1> QED
  BY <1>1, <1>2, ControlAssumption DEF ControlInv, ChangesShown

(* A value that is set is snapped into the range.                          *)
LEMMA SetValueKeeps ==
    ASSUME ControlInv, NEW n \in Values, SetValue(n)
    PROVE  ControlInv' /\ ChangesShown
<1> DEFINE v == SnapToStep(n)
           new == [state EXCEPT !.value = v]
           delta == [value |-> v]
<1>1. type \in Ranged /\ Does(new, delta) /\ typed' = typed
  BY DEF SetValue
<1>2. /\ state \in [min : Int, max : Int, value : Int, step : Int]
      /\ state.min <= state.max /\ state.step > 0 /\ n \in Int
  BY <1>1, ControlAssumption DEF ControlInv, RangeInv, IsRange
<1>3. v \in Int /\ state.min <= v /\ v <= state.max
  <2> DEFINE in == Clamped(n, state.min, state.max)
             q == (in - state.min) \div state.step
             to == RoundedTo(in - state.min, state.step)
  <2>1. in \in Int /\ state.min <= in /\ in <= state.max
    BY <1>2, ClampedIs
  <2>2. v = IF type = "ScrollBar" THEN in ELSE Clamped(state.min + to, state.min, state.max)
    BY DEF SnapToStep
  <2>3. to \in Int
    <3> HIDE DEF in
    <3>1. q \in Int
      BY <1>2, <2>1
    <3>2. to = state.step * q \/ to = state.step * (q + 1)
      BY DEF RoundedTo
    <3> HIDE DEF q, to
    <3> QED
      BY <1>2, <3>1, <3>2
  <2> HIDE DEF in, to
  <2> DEFINE out == Clamped(state.min + to, state.min, state.max)
  <2>4. out \in Int /\ state.min <= out /\ out <= state.max
    <3>1. state.min + to \in Int
      BY <1>2, <2>3
    <3> QED
      BY <1>2, <3>1, ClampedIs
  <2>5. v = IF type = "ScrollBar" THEN in ELSE out
    BY <2>2
  <2> HIDE DEF out, v
  <2> QED
    BY <2>1, <2>4, <2>5
<1> HIDE DEF v
<1>4. state' = new /\ type' = type
  BY <1>1 DEF Does
<1>5. (RangeInv /\ DropdownInv /\ ToolboxInv /\ TerminalInv)'
  BY <1>1, <1>2, <1>3, <1>4
     DEF Ranged, RangeInv, IsRange, DropdownInv, IsDropdown, ToolboxInv, IsToolbox, TerminalInv, IsTerminal
<1>6. \A f \in DOMAIN state \ {"selected"} : new[f] # state[f] => f \in DOMAIN delta /\ delta[f] = new[f]
  BY <1>2
<1> HIDE DEF new, delta
<1> QED
  BY <1>1, <1>5, <1>6, DoesKeeps DEF ControlInv

LEMMA StepByKeeps == ASSUME ControlInv, NEW by \in Int, Step(by) PROVE ControlInv' /\ ChangesShown
<1> DEFINE v == Clamped(state.value + by * state.step, state.min, state.max)
           new == [state EXCEPT !.value = v]
           delta == [value |-> v]
<1>1. type = "Slider" /\ Does(new, delta) /\ typed' = typed
  BY DEF Step
<1>2. /\ state \in [min : Int, max : Int, value : Int, step : Int]
      /\ state.min <= state.max /\ state.step > 0
  BY <1>1 DEF ControlInv, RangeInv, IsRange, Ranged
<1>3. v \in Int /\ state.min <= v /\ v <= state.max
  <2>1. state.value + by * state.step \in Int
    BY <1>2
  <2> QED
    BY <1>2, <2>1, ClampedIs
<1> HIDE DEF v
<1>4. state' = new /\ type' = type
  BY <1>1 DEF Does
<1>5. (RangeInv /\ DropdownInv /\ ToolboxInv /\ TerminalInv)'
  BY <1>1, <1>2, <1>3, <1>4
     DEF Ranged, RangeInv, IsRange, DropdownInv, IsDropdown, ToolboxInv, IsToolbox, TerminalInv, IsTerminal
<1>6. \A f \in DOMAIN state \ {"selected"} : new[f] # state[f] => f \in DOMAIN delta /\ delta[f] = new[f]
  BY <1>2
<1> HIDE DEF new, delta
<1> QED
  BY <1>1, <1>5, <1>6, DoesKeeps DEF ControlInv

(* The options and which is selected, after a verb on a dropdown.          *)
LEMMA DropdownDoes ==
    ASSUME ControlInv, type = "Dropdown", typed' = typed, NEW delta,
           NEW options \in Seq(Names), NEW selected \in Names \cup {NoOption},
           Does([options |-> options, selected |-> selected], delta),
           IF options = << >> THEN selected = NoOption ELSE selected \in ToSet(options),
           options # state.options => "options" \in DOMAIN delta /\ delta["options"] = options
    PROVE  ControlInv' /\ ChangesShown
<1> DEFINE new == [options |-> options, selected |-> selected]
<1>1. state' = new /\ type' = type
  BY DEF Does
<1>2. state \in [options : Seq(Names), selected : Names \cup {NoOption}]
  BY DEF ControlInv, DropdownInv, IsDropdown
<1>3. (RangeInv /\ DropdownInv /\ ToolboxInv /\ TerminalInv)'
  BY <1>1
     DEF Ranged, RangeInv, IsRange, DropdownInv, IsDropdown, ToolboxInv, IsToolbox, TerminalInv, IsTerminal
<1>4. \A f \in DOMAIN state \ {"selected"} : new[f] # state[f] => f \in DOMAIN delta /\ delta[f] = new[f]
  BY <1>2
<1>5. Does(new, delta)
  OBVIOUS
<1> HIDE DEF new
<1> QED
  BY <1>3, <1>4, <1>5, DoesKeeps DEF ControlInv

LEMMA SelectKeeps == ASSUME ControlInv, NEW o \in Names, Select(o) PROVE ControlInv' /\ ChangesShown
<1>1. type = "Dropdown" /\ o \in ToSet(state.options) /\ typed' = typed
  BY DEF Select
<1>2. state \in [options : Seq(Names), selected : Names \cup {NoOption}]
  BY <1>1 DEF ControlInv, DropdownInv, IsDropdown
<1>3. [state EXCEPT !.selected = o] = [options |-> state.options, selected |-> o]
  BY <1>2
<1>4. Does([options |-> state.options, selected |-> o], [selected |-> o])
  BY <1>3 DEF Select
<1>5. state.options # << >>
  BY <1>1 DEF ToSet
<1> QED
  BY <1>1, <1>2, <1>4, <1>5, DropdownDoes

LEMMA AddOptionKeeps ==
    ASSUME ControlInv, NEW o \in Names, AddOption(o)
    PROVE  ControlInv' /\ ChangesShown
<1> DEFINE options == Append(state.options, o)
           selected == IF state.selected = NoOption THEN o ELSE state.selected
<1>1. /\ type = "Dropdown" /\ typed' = typed
      /\ Does([options |-> options, selected |-> selected], [options |-> options])
  BY DEF AddOption
<1>2. /\ state \in [options : Seq(Names), selected : Names \cup {NoOption}]
      /\ IF state.options = << >> THEN state.selected = NoOption
         ELSE state.selected \in ToSet(state.options)
  BY <1>1 DEF ControlInv, DropdownInv, IsDropdown
<1>3. /\ options \in Seq(Names) /\ options # << >>
      /\ Len(options) = Len(state.options) + 1 /\ options[Len(state.options) + 1] = o
      /\ \A i \in 1 .. Len(state.options) : options[i] = state.options[i]
  BY <1>2, AppendProperties
<1>4. o \in ToSet(options) /\ ToSet(state.options) \subseteq ToSet(options)
  <2>1. DOMAIN state.options = 1 .. Len(state.options) /\ DOMAIN options = 1 .. Len(state.options) + 1
        /\ Len(state.options) \in Nat
    BY <1>2, <1>3
  <2> HIDE DEF options
  <2> QED
    BY <1>3, <2>1 DEF ToSet
<1>5. selected \in ToSet(options) /\ selected \in Names \cup {NoOption}
  <2> HIDE DEF options
  <2> QED
    BY <1>2, <1>4
<1> DEFINE delta == [options |-> options]
<1>6. "options" \in DOMAIN delta /\ delta["options"] = options
  OBVIOUS
<1>7. Does([options |-> options, selected |-> selected], delta)
  BY <1>1
<1> HIDE DEF options, selected, delta
<1> QED
  BY <1>1, <1>3, <1>5, <1>6, <1>7, DropdownDoes

LEMMA WithoutElement ==
    ASSUME NEW S, NEW s \in Seq(S), NEW i \in DOMAIN s
    PROVE  ToSet(s) \subseteq ToSet(RemoveAt(s, i)) \cup {s[i]}
<1> DEFINE n == Len(s)
           new == RemoveAt(s, i)
<1>1. n \in Nat /\ DOMAIN s = 1 .. n /\ i \in 1 .. n
  OBVIOUS
<1>2. /\ DOMAIN new = 1 .. n - 1
      /\ \A j \in 1 .. n - 1 : new[j] = s[IF j < i THEN j ELSE j + 1]
  <2>1. /\ new \in Seq(S) /\ Len(new) = n - 1
        /\ \A j \in 1 .. n - 1 : new[j] = s[IF j < i THEN j ELSE j + 1]
    BY RemoveAtIs
  <2> HIDE DEF n, new
  <2> QED
    BY <2>1
<1> HIDE DEF n, new
<1>3. ASSUME NEW j \in 1 .. n, j # i PROVE \E k \in 1 .. n - 1 : new[k] = s[j]
  <2>1. CASE j < i
    <3>1. j \in 1 .. n - 1 /\ new[j] = s[j]
      BY <2>1, <1>1, <1>2
    <3> QED
      BY <3>1
  <2>2. CASE j > i
    <3>1. j - 1 \in 1 .. n - 1 /\ new[j - 1] = s[j]
      BY <2>2, <1>1, <1>2
    <3> QED
      BY <3>1
  <2> QED
    BY <1>3, <2>1, <2>2, <1>1
<1> QED
  <2>1. ASSUME NEW j \in 1 .. n PROVE s[j] \in ToSet(new) \cup {s[i]}
    <3>1. CASE j = i
      BY <3>1
    <3>2. CASE j # i
      <4>1. PICK k \in DOMAIN new : new[k] = s[j]
        BY <1>2, <1>3, <3>2
      <4> QED
        BY <4>1 DEF ToSet
    <3> QED
      BY <3>1, <3>2
  <2>2. \A x \in ToSet(s) : \E j \in 1 .. n : x = s[j]
    BY <1>1 DEF ToSet
  <2>3. ToSet(s) \subseteq ToSet(new) \cup {s[i]}
    BY <2>1, <2>2
  <2> QED
    BY <2>3 DEF new

LEMMA RemoveOptionKeeps ==
    ASSUME ControlInv, NEW o \in Names, RemoveOption(o)
    PROVE  ControlInv' /\ ChangesShown
<1>1. PICK i \in DOMAIN state.options :
        /\ state.options[i] = o
        /\ Does([options |-> RemoveAt(state.options, i),
                 selected |-> IF state.selected = o THEN FirstOption(RemoveAt(state.options, i))
                              ELSE state.selected],
                [options |-> RemoveAt(state.options, i)])
  BY DEF RemoveOption
<1> DEFINE options == RemoveAt(state.options, i)
           selected == IF state.selected = o THEN FirstOption(options) ELSE state.selected
           delta == [options |-> options]
<1>2. type = "Dropdown" /\ typed' = typed
  BY DEF RemoveOption
<1>3. /\ state \in [options : Seq(Names), selected : Names \cup {NoOption}]
      /\ IF state.options = << >> THEN state.selected = NoOption
         ELSE state.selected \in ToSet(state.options)
  BY <1>2 DEF ControlInv, DropdownInv, IsDropdown
<1>4. options \in Seq(Names) /\ ToSet(state.options) \subseteq ToSet(options) \cup {o}
  BY <1>1, <1>3, RemoveAtIs, WithoutElement
<1>5. state.options # << >>
  BY <1>1
<1>6. "options" \in DOMAIN delta /\ delta["options"] = options
  OBVIOUS
<1>7. Does([options |-> options, selected |-> selected], delta)
  BY <1>1
<1> HIDE DEF options, delta
<1>8. /\ options = << >> => FirstOption(options) = NoOption /\ ToSet(options) = {}
      /\ options # << >> => FirstOption(options) \in Names /\ FirstOption(options) \in ToSet(options)
  BY <1>4 DEF FirstOption, ToSet
<1>9. /\ selected \in Names \cup {NoOption}
      /\ IF options = << >> THEN selected = NoOption ELSE selected \in ToSet(options)
  BY <1>3, <1>4, <1>5, <1>8
<1> HIDE DEF selected
<1> QED
  BY <1>2, <1>4, <1>6, <1>7, <1>9, DropdownDoes

(* A verb that leaves a toolbox with as many entries as it may have.       *)
LEMMA HoldsKeeps ==
    ASSUME ControlInv, type = "Toolbox", typed' = typed, NEW delta,
           NEW contents \in Seq(Children), Len(contents) <= MaxItems, Holds(contents, delta),
           "contents" \notin DOMAIN delta
    PROVE  ControlInv' /\ ChangesShown
<1> DEFINE new == [contents |-> contents]
           sent == Merged(delta, new)
<1>1. Does(new, sent)
  BY DEF Holds
<1>2. state' = new /\ type' = type
  BY <1>1 DEF Does
<1>3. state \in [contents : Seq(Children)]
  BY DEF ControlInv, ToolboxInv, IsToolbox
<1>4. (RangeInv /\ DropdownInv /\ ToolboxInv /\ TerminalInv)'
  BY <1>2
     DEF Ranged, RangeInv, IsRange, DropdownInv, IsDropdown, ToolboxInv, IsToolbox, TerminalInv, IsTerminal
<1>5. "contents" \in DOMAIN sent /\ sent["contents"] = contents
  BY DEF Merged
<1>6. \A f \in DOMAIN state \ {"selected"} : new[f] # state[f] => f \in DOMAIN sent /\ sent[f] = new[f]
  BY <1>3, <1>5
<1> HIDE DEF new, sent
<1> QED
  BY <1>1, <1>4, <1>6, DoesKeeps DEF ControlInv

LEMMA ToolboxIs ==
    ASSUME ControlInv, type = "Toolbox"
    PROVE  state.contents \in Seq(Children) /\ Len(state.contents) <= MaxItems
BY DEF ControlInv, ToolboxInv, IsToolbox

LEMMA AddKeeps ==
    ASSUME ControlInv, NEW n \in Names, NEW as \in {"link", "rendered"}, Add(n, as)
    PROVE  ControlInv' /\ ChangesShown
<1> DEFINE c == Child(n, as)
           contents == Append(state.contents, c)
           delta == IF as = "rendered" /\ ~HasRendered(state.contents) THEN [flip |-> n] ELSE << >>
<1>1. /\ type = "Toolbox" /\ typed' = typed /\ Len(state.contents) < MaxItems
      /\ Holds(contents, delta)
  BY DEF Add
<1>2. c \in Children
  BY DEF Child, Children
<1> HIDE DEF c
<1>3. state.contents \in Seq(Children)
  BY <1>1, ToolboxIs
<1>4. contents \in Seq(Children) /\ Len(contents) <= MaxItems
  BY <1>1, <1>2, <1>3, ControlAssumption, AppendProperties
<1>5. "contents" \notin DOMAIN delta
  <2>1. DOMAIN << >> = {}
    OBVIOUS
  <2>2. DOMAIN [flip |-> n] = {"flip"}
    OBVIOUS
  <2> QED
    BY <2>1, <2>2
<1> HIDE DEF contents, delta
<1> QED
  BY <1>1, <1>4, <1>5, HoldsKeeps

\* Taking an entry out.
LEMMA TakingKeeps ==
    ASSUME ControlInv, type = "Toolbox", typed' = typed, NEW i \in DOMAIN state.contents,
           Holds(RemoveAt(state.contents, i), << >>)
    PROVE  ControlInv' /\ ChangesShown
<1> DEFINE contents == RemoveAt(state.contents, i)
<1>1. state.contents \in Seq(Children) /\ Len(state.contents) <= MaxItems
  BY ToolboxIs
<1>2. contents \in Seq(Children) /\ Len(contents) = Len(state.contents) - 1
  BY <1>1, RemoveAtIs
<1>3. "contents" \notin DOMAIN << >>
  OBVIOUS
<1>4. Holds(contents, << >>)
  OBVIOUS
<1> HIDE DEF contents
<1>5. Len(contents) <= MaxItems
  BY <1>1, <1>2, ControlAssumption
<1> QED
  BY <1>2, <1>3, <1>4, <1>5, HoldsKeeps

LEMMA MoveKeeps == ASSUME ControlInv, NEW i, NEW j, Move(i, j) PROVE ControlInv' /\ ChangesShown
<1> DEFINE contents == [state.contents EXCEPT ![i] = state.contents[j], ![j] = state.contents[i]]
<1>1. /\ type = "Toolbox" /\ typed' = typed /\ i \in DOMAIN state.contents /\ j \in DOMAIN state.contents
      /\ Holds(contents, << >>)
  BY DEF Move
<1>2. state.contents \in Seq(Children) /\ Len(state.contents) <= MaxItems
  BY <1>1, ToolboxIs
<1>3. contents \in Seq(Children) /\ Len(contents) = Len(state.contents)
  BY <1>1, <1>2
<1>4. "contents" \notin DOMAIN << >>
  OBVIOUS
<1> HIDE DEF contents
<1> QED
  BY <1>1, <1>2, <1>3, <1>4, HoldsKeeps

(***************************************************************************)
(* One submission more: the numbers move on by one, and the first is       *)
(* dropped when the limit is reached.                                      *)
(***************************************************************************)
LEMMA RetainedIs ==
    ASSUME NEW now \in Nat, NEW built \in Nat, built <= now
    PROVE  Retained(Append(Latest(now, built), now + 1)) = Latest(now + 1, built)
<1> DEFINE n == Lesser(Limit, now - built)
           next == now + 1
           m == Lesser(Limit, next - built)
           old == Latest(now, built)
           all == Append(old, now + 1)
<1>1. n \in Nat /\ m \in Nat /\ Limit \in Nat /\ n <= Limit
  BY ControlAssumption DEF Lesser
<1>2. (n < Limit /\ m = n + 1) \/ (n = Limit /\ m = n)
  BY ControlAssumption DEF Lesser
<1>3. old = [i \in 1 .. n |-> now - n + i]
  BY DEF Latest
<1>m. Latest(next, built) = [i \in 1 .. m |-> next - m + i]
  <2> HIDE DEF next
  <2> QED
    BY DEF Latest
<1> HIDE DEF n, m, old
<1>4. old \in Seq(Int) /\ Len(old) = n
  BY <1>1, <1>3
<1>5. /\ all \in Seq(Int) /\ Len(all) = n + 1 /\ all[n + 1] = now + 1
      /\ \A i \in 1 .. n : all[i] = now - n + i
  BY <1>1, <1>3, <1>4, AppendProperties
<1>6. all = [i \in 1 .. n + 1 |-> now - n + i]
  <2>1. DOMAIN all = 1 .. n + 1 /\ all = [i \in DOMAIN all |-> all[i]]
    BY <1>1, <1>5
  <2>2. \A i \in 1 .. n + 1 : all[i] = now - n + i
    <3> HIDE DEF all
    <3> QED
      BY <1>1, <1>5
  <2> HIDE DEF all
  <2> QED
    BY <2>1, <2>2
<1>7. Retained(all) = IF n + 1 > Limit THEN SubSeq(all, n + 1 - Limit + 1, n + 1) ELSE all
  <2> HIDE DEF all
  <2>1. Retained(all) =
          IF Len(all) > Limit THEN SubSeq(all, Len(all) - Limit + 1, Len(all)) ELSE all
    BY DEF Retained
  <2>2. Len(all) = n + 1
    BY <1>5
  <2> QED
    BY <1>1, <2>1, <2>2
<1> DEFINE new == Latest(next, built)
<1> HIDE DEF all, new
<1>8. ASSUME n < Limit PROVE Retained(all) = new
  <2>1. Retained(all) = all /\ m = n + 1
    BY <1>1, <1>2, <1>7, <1>8
  <2>2. \A i \in 1 .. n + 1 : now - n + i = now + 1 - m + i
    BY <1>1, <2>1
  <2>3. new = [i \in 1 .. n + 1 |-> now + 1 - m + i]
    BY <1>m, <2>1 DEF new
  <2> QED
    BY <1>6, <2>1, <2>2, <2>3 DEF new
<1>9. ASSUME n = Limit PROVE Retained(all) = new
  <2>1. Retained(all) = SubSeq(all, 2, n + 1) /\ m = n
    <3>1. n + 1 > Limit /\ n + 1 - Limit + 1 = 2
      BY <1>1, <1>9
    <3> QED
      BY <1>2, <1>1, <1>7, <1>9, <3>1
  <2>2. SubSeq(all, 2, n + 1) = [i \in 1 .. n |-> all[i + 1]]
    BY <1>1, <1>5
  <2>3. \A i \in 1 .. n : all[i + 1] = now + 1 - n + i
    BY <1>1, <1>6
  <2>4. new = [i \in 1 .. n |-> next - m + i]
    <3> HIDE DEF next
    <3> QED
      BY <1>m, <2>1 DEF new
  <2>5. \A i \in 1 .. n : all[i + 1] = next - m + i
    BY <1>1, <2>1, <2>3
  <2> HIDE DEF next
  <2> QED
    BY <2>1, <2>2, <2>4, <2>5
<1> QED
  BY <1>1, <1>2, <1>8, <1>9 DEF all, old, new

LEMMA SubmitKeeps == ASSUME ControlInv, Submit PROVE ControlInv' /\ ChangesShown
<1> DEFINE n == typed.now + 1
           history == Retained(Append(state.history, n))
           new == [state EXCEPT !.history = history, !.output = n]
           delta == [history |-> history, output |-> n]
<1>1. type = "Terminal" /\ Does(new, delta) /\ typed' = [typed EXCEPT !.now = n]
  BY DEF Submit
<1>2. /\ state \in [visibility : ToSet(Visibilities), output : Nat, history : Seq(Int)]
      /\ state.history = Latest(typed.now, typed.built)
      /\ typed \in [now : Nat, built : Nat] /\ typed.built <= typed.now
  BY <1>1 DEF ControlInv, TerminalInv, IsTerminal
<1>3. typed' \in [now : Nat, built : Nat] /\ typed'.now = typed.now + 1 /\ typed'.built = typed.built
  BY <1>1, <1>2
<1>4. history = Latest(typed'.now, typed'.built)
  BY <1>2, <1>3, RetainedIs
<1>5. history \in Seq(Int) /\ typed'.built <= typed'.now
  BY <1>2, <1>3, <1>4, LatestIs
<1>6. n \in Nat
  BY <1>2
<1> HIDE DEF history, n
<1>7. state' = new /\ type' = type
  BY <1>1 DEF Does
<1>8. TerminalInv'
  BY <1>1, <1>2, <1>4, <1>5, <1>6, <1>7 DEF TerminalInv, IsTerminal
<1>9. (RangeInv /\ DropdownInv /\ ToolboxInv)'
  BY <1>1, <1>7 DEF Ranged, RangeInv, IsRange, DropdownInv, IsDropdown, ToolboxInv, IsToolbox
<1>10. \A f \in DOMAIN state \ {"selected"} : new[f] # state[f] => f \in DOMAIN delta /\ delta[f] = new[f]
  <2>1. DOMAIN state = {"visibility", "output", "history"} /\ new["visibility"] = state["visibility"]
    BY <1>2
  <2>2. /\ DOMAIN delta = {"history", "output"}
        /\ delta["history"] = history /\ delta["output"] = n
        /\ new["history"] = history /\ new["output"] = n
    BY <1>2
  <2> HIDE DEF new, delta
  <2> QED
    BY <2>1, <2>2
<1> HIDE DEF new, delta
<1> QED
  BY <1>1, <1>3, <1>5, <1>8, <1>9, <1>10, DoesKeeps

LEMMA VisibilityKeeps ==
    ASSUME ControlInv, NEW v \in ToSet(Visibilities), SetVisibility(v)
    PROVE  ControlInv' /\ ChangesShown
<1> DEFINE new == [state EXCEPT !.visibility = v]
           delta == [visibility |-> v]
<1>1. type = "Terminal" /\ Does(new, delta) /\ typed' = typed
  BY DEF SetVisibility
<1>2. /\ state \in [visibility : ToSet(Visibilities), output : Nat, history : Seq(Int)]
      /\ state.history = Latest(typed.now, typed.built)
      /\ typed \in [now : Nat, built : Nat] /\ typed.built <= typed.now
  BY <1>1 DEF ControlInv, TerminalInv, IsTerminal
<1>3. state' = new /\ type' = type
  BY <1>1 DEF Does
<1>4. (RangeInv /\ DropdownInv /\ ToolboxInv /\ TerminalInv)'
  BY <1>1, <1>2, <1>3
     DEF Ranged, RangeInv, IsRange, DropdownInv, IsDropdown, ToolboxInv, IsToolbox, TerminalInv, IsTerminal
<1>5. \A f \in DOMAIN state \ {"selected"} : new[f] # state[f] => f \in DOMAIN delta /\ delta[f] = new[f]
  BY <1>2
<1> HIDE DEF new, delta
<1> QED
  BY <1>1, <1>2, <1>4, <1>5, DoesKeeps

LEMMA RebuildKeeps ==
    ASSUME ControlInv, NEW p \in Params(type), Rebuild(p)
    PROVE  ControlInv' /\ ChangesShown
<1>1. /\ state' = Build(type, p) /\ params' = p /\ type' = type /\ verbs' = verbs + 1 /\ verbs < MaxVerbs
      /\ typed' = [typed EXCEPT !.built = typed.now]
  BY DEF Rebuild
<1>2. /\ type \in Ranged \cup {"Dropdown", "Toolbox", "Terminal"}
      /\ typed \in [now : Nat, built : Nat] /\ verbs \in 0 .. MaxVerbs
  BY DEF ControlInv
<1>3. typed' \in [now : Nat, built : Nat] /\ typed'.built = typed'.now
  BY <1>1, <1>2
<1>4. (RangeInv /\ DropdownInv /\ ToolboxInv /\ TerminalInv)'
  BY <1>1, <1>2, <1>3, BuiltIs DEF RangeInv, DropdownInv, ToolboxInv, TerminalInv
<1>5. ChangesShown
  BY <1>1 DEF ChangesShown
<1>6. verbs' \in 0 .. MaxVerbs
  BY <1>1, <1>2, ControlAssumption
<1> QED
  BY <1>1, <1>2, <1>3, <1>4, <1>5, <1>6 DEF ControlInv

LEMMA ControlKeeps == ASSUME ControlInv, [ControlNext]_controlVars PROVE ControlInv' /\ ChangesShown
<1>1. ASSUME NEW n \in Values, SetValue(n) PROVE ControlInv' /\ ChangesShown
  BY <1>1, SetValueKeeps
<1>2. ASSUME Step(1) \/ Step(-1) PROVE ControlInv' /\ ChangesShown
  BY <1>2, StepByKeeps
<1>3. ASSUME NEW n \in Names, Select(n) \/ AddOption(n) \/ RemoveOption(n)
      PROVE  ControlInv' /\ ChangesShown
  BY <1>3, SelectKeeps, AddOptionKeeps, RemoveOptionKeeps
<1>4. ASSUME NEW n \in Names, Add(n, "link") \/ Add(n, "rendered") PROVE ControlInv' /\ ChangesShown
  BY <1>4, AddKeeps
<1>5. ASSUME NEW n \in Names, RemoveChild(n) PROVE ControlInv' /\ ChangesShown
  BY <1>5, TakingKeeps DEF RemoveChild
<1>6. ASSUME NEW i, Delete(i) PROVE ControlInv' /\ ChangesShown
  BY <1>6, TakingKeeps DEF Delete
<1>7. ASSUME NEW i, NEW j, Move(i, j) PROVE ControlInv' /\ ChangesShown
  BY <1>7, MoveKeeps
<1>8. ASSUME NEW v \in ToSet(Visibilities), SetVisibility(v) PROVE ControlInv' /\ ChangesShown
  BY <1>8, VisibilityKeeps
<1>9. ASSUME Cycle PROVE ControlInv' /\ ChangesShown
  <2>1. PICK i \in 1 .. 3 : SetVisibility(Visibilities[(i % 3) + 1])
    BY <1>9 DEF Cycle
  <2>2. Visibilities[(i % 3) + 1] \in ToSet(Visibilities)
    <3>1. i = 1 \/ i = 2 \/ i = 3
      OBVIOUS
    <3>2. (i % 3) + 1 \in 1 .. 3
      BY <3>1
    <3>3. DOMAIN Visibilities = 1 .. 3
      BY DEF Visibilities
    <3> QED
      BY <3>2, <3>3 DEF ToSet
  <2> QED
    BY <2>1, <2>2, VisibilityKeeps
<1>10. ASSUME Submit PROVE ControlInv' /\ ChangesShown
  BY <1>10, SubmitKeeps
<1>11. ASSUME NEW p \in Params(type), Rebuild(p) PROVE ControlInv' /\ ChangesShown
  BY <1>11, RebuildKeeps
<1>12. ASSUME UNCHANGED controlVars PROVE ControlInv' /\ ChangesShown
  BY <1>12 DEF controlVars, ControlInv, RangeInv, IsRange, DropdownInv, IsDropdown,
               ToolboxInv, IsToolbox, TerminalInv, IsTerminal, ChangesShown
<1> QED
  BY <1>1, <1>2, <1>3, <1>4, <1>5, <1>6, <1>7, <1>8, <1>9, <1>10, <1>11, <1>12 DEF ControlNext

LEMMA ControlInvIsSound ==
    ControlInv => ControlTypeOK /\ ValueInRange /\ SelectedIsAnOption /\ HistoryIsLatest
<1> SUFFICES ASSUME ControlInv PROVE ControlTypeOK /\ ValueInRange /\ SelectedIsAnOption /\ HistoryIsLatest
  OBVIOUS
<1>1. ControlTypeOK
  BY DEF ControlInv, RangeInv, IsRange, ToolboxInv, IsToolbox, TerminalInv, IsTerminal, ControlTypeOK
<1>2. ValueInRange
  BY DEF ControlInv, RangeInv, IsRange, ValueInRange
<1>3. SelectedIsAnOption
  BY DEF ControlInv, DropdownInv, IsDropdown, SelectedIsAnOption
<1>4. HistoryIsLatest
  BY DEF ControlInv, TerminalInv, IsTerminal, HistoryIsLatest, Latest
<1> QED
  BY <1>1, <1>2, <1>3, <1>4

(***************************************************************************)
(* For every range, value, set of options and limit, and any number of     *)
(* verbs and rebuilds: a slider stays in its range, a dropdown has one of  *)
(* its options selected, a terminal keeps its latest submissions, and what *)
(* a verb changes the panels see.                                          *)
(***************************************************************************)
THEOREM ControlsSound == ControlSpec => ControlsAreSound
<1>1. ControlInv /\ [ControlNext]_controlVars => ControlInv' /\ ChangesShown
  BY ControlKeeps
<1>2. ChangesShown <=>
        (\A f \in DOMAIN state \ {"selected"} :
            state' # Build(type, params') /\ state'[f] # state[f]
                => f \in DOMAIN view' /\ view'[f] = state'[f])
  BY DEF ChangesShown
<1> QED
  BY <1>1, <1>2, ControlStarts, ControlInvIsSound, PTL
     DEF ControlSpec, ControlsAreSound, ChangesAreShown
=============================================================================
