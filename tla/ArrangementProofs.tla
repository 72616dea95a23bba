--------------------------- MODULE ArrangementProofs ---------------------------
(***************************************************************************)
(* What the pure functions of the data model do for every arrangement and  *)
(* every batch: apply never takes anything out of the graph, and the       *)
(* structural gate is enough to keep a sound graph sound.                  *)
(*                                                                         *)
(* Both are inductions over the actions of a batch, each written as the    *)
(* impossibility of a least action that breaks the claim (LeastElement).   *)
(***************************************************************************)
EXTENDS Arrangement, Integers, TLAPS, FiniteSetTheorems, WellFoundedInduction

(* A set of naturals that is not empty has a least member. *)
LEMMA LeastElement ==
    ASSUME NEW T, T \subseteq Nat, T # {}
    PROVE  \E x \in T : \A y \in T : x <= y
<1>1. PICK n \in T : TRUE
  OBVIOUS
<1> DEFINE S == 0 .. n
           U == {0 .. i : i \in T \cap S}
<1>2. IsWellFoundedOn(StrictSubsetOrdering(S), SUBSET S)
  <2>1. IsFiniteSet(S)
    BY FS_Interval
  <2>2. FiniteSubsetsOf(S) = SUBSET S
    BY <2>1, FS_FiniteSubsetsOfFinite
  <2> QED
    BY <2>2, FS_StrictSubsetOrderingWellFounded
<1>3. U \subseteq SUBSET S /\ U # {}
  OBVIOUS
<1>4. PICK X \in U : \A Y \in U : ~(<<Y, X>> \in StrictSubsetOrdering(S))
  BY <1>2, <1>3, WFMin
<1>5. PICK x \in T \cap S : X = 0 .. x
  OBVIOUS
<1>6. ASSUME NEW y \in T PROVE x <= y
  <2>1. CASE y > n
    BY <2>1
  <2>2. CASE y <= n /\ y < x
    <3>1. 0 .. y \in U /\ 0 .. y \subseteq X /\ 0 .. y # X
      BY <2>2, <1>5, x \in 0 .. x, x \notin 0 .. y
    <3> QED
      BY <3>1, <1>3, <1>4 DEF StrictSubsetOrdering
  <2> QED
    BY <2>1, <2>2
<1> QED
  BY <1>6

(* A batch has a graph after each of its actions, each made from the last. *)
LEMMA AppliedSteps ==
    ASSUME NEW arr, NEW actions, Len(actions) \in Nat
    PROVE  Applied(arr, actions) =
              [k \in 0 .. Len(actions) |->
                  IF k = 0 THEN arr
                  ELSE ApplyOne(Applied(arr, actions)[k-1], actions[k])]
<1> DEFINE n == Len(actions)
           IsTrace(g, m) ==
              g = [k \in 0 .. m |-> IF k = 0 THEN arr ELSE ApplyOne(g[k-1], actions[k])]
           T == {m \in 0 .. n : ~\E g : IsTrace(g, m)}
<1>0. n \in Nat
  OBVIOUS
<1>1. T = {}
  <2> SUFFICES ASSUME T # {} PROVE FALSE
    OBVIOUS
  <2>0. T \subseteq Nat
    OBVIOUS
  <2>1. PICK m \in T : \A y \in T : m <= y
    <3> HIDE DEF T
    <3> QED
      BY <2>0, LeastElement
  <2>2. CASE m = 0
    <3>1. IsTrace([k \in 0 .. 0 |-> arr], 0)
      OBVIOUS
    <3> QED
      BY <2>2, <3>1
  <2>3. CASE m # 0
    <3>1. m \in 1 .. n /\ m - 1 \in 0 .. n /\ m - 1 \notin T
      <4>1. m \in 0 .. n
        OBVIOUS
      <4> HIDE DEF T, n
      <4> QED
        BY <1>0, <2>0, <2>1, <2>3, <4>1
    <3>2. PICK g : IsTrace(g, m - 1)
      BY <3>1
    <3> DEFINE h == [k \in 0 .. m |-> IF k = 0 THEN arr ELSE ApplyOne(g[k-1], actions[k])]
    <3>3. \A k \in 0 .. m - 1 : h[k] = g[k]
      <4> HIDE DEF T, n
      <4> QED
        BY <3>1, <3>2
    <3>4. \A k \in 0 .. m : k # 0 => k - 1 \in 0 .. m - 1
      <4> HIDE DEF T, n
      <4> QED
        BY <3>1
    <3>5. IsTrace(h, m)
      <4>1. \A k \in 0 .. m : k # 0 => h[k-1] = g[k-1]
        BY <3>3, <3>4
      <4> QED
        BY <4>1
    <3> QED
      BY <3>5
  <2> QED
    BY <2>2, <2>3
<1>2. \E g : IsTrace(g, n)
  BY <1>1
<1> QED
  BY <1>2 DEF Applied

(* The first and the next graph, as facts to cite. *)
LEMMA AppliedFirst ==
    ASSUME NEW arr, NEW actions, Len(actions) \in Nat
    PROVE  Applied(arr, actions)[0] = arr
BY AppliedSteps

LEMMA AppliedNext ==
    ASSUME NEW arr, NEW actions, Len(actions) \in Nat,
           NEW k \in 1 .. Len(actions)
    PROVE  Applied(arr, actions)[k] = ApplyOne(Applied(arr, actions)[k-1], actions[k])
BY AppliedSteps

-----------------------------------------------------------------------------

LEMMA OneExtends ==
    ASSUME NEW arr, NEW a
    PROVE  Extends(ApplyOne(arr, a), arr)
BY DEF Extends, ApplyOne, Added

(***************************************************************************)
(* Applying a batch only adds: every node and every wire of the graph is   *)
(* in the result ("append-only; input untouched", apply).                  *)
(***************************************************************************)
THEOREM ApplyExtends ==
    ASSUME NEW arr, NEW actions, IsBatch(actions)
    PROVE  Extends(Apply(arr, actions), arr)
<1> DEFINE n == Len(actions)
           g == Applied(arr, actions)
           T == {k \in 0 .. n : ~Extends(g[k], arr)}
<1>0. n \in Nat /\ T \subseteq Nat
  BY DEF IsBatch
<1>1. T = {}
  <2> SUFFICES ASSUME T # {} PROVE FALSE
    OBVIOUS
  <2>1. PICK k \in T : \A y \in T : k <= y
    <3> HIDE DEF T
    <3> QED
      BY <1>0, LeastElement
  <2>2. k # 0
    BY <1>0, AppliedFirst DEF Extends
  <2>3. k \in 1 .. n /\ k - 1 \in 0 .. n /\ k - 1 \notin T
    <3>1. k \in 0 .. n
      OBVIOUS
    <3> HIDE DEF T, n
    <3> QED
      BY <1>0, <2>1, <2>2, <3>1
  <2>4. Extends(g[k-1], arr)
    BY <2>3
  <2>5. Extends(g[k], g[k-1])
    BY <1>0, <2>3, AppliedNext, OneExtends
  <2>6. Extends(g[k], arr)
    BY <2>4, <2>5 DEF Extends
  <2> QED
    BY <2>6
<1>2. n \notin T
  BY <1>1
<1> QED
  BY <1>0, <1>2 DEF Apply
-----------------------------------------------------------------------------

(* Every wire has its nodes, and so has the tip. *)
Connected(arr) == Dangling(arr) = {} /\ arr.tip \in NodeIds(arr) \cup {NoId}

LEMMA AddedIds ==
    ASSUME NEW arr, NEW a, NEW nid
    PROVE  NodeIds(Added(arr, a, nid)) = NodeIds(arr) \cup {nid}
<1> DEFINE new == Added(arr, a, nid)
           node == [id |-> nid, kind |-> a.kind]
<1>1. new.nodes = arr.nodes \cup {node}
  BY DEF Added
<1>2. node.id = nid
  OBVIOUS
<1> HIDE DEF new, node
<1>3. NodeIds(new) = NodeIds(arr) \cup {nid}
  BY <1>1, <1>2 DEF NodeIds
<1> QED
  BY <1>3 DEF new

(* A named node is there once it was added, under its own name or because  *)
(* the name was taken.                                                     *)
LEMMA UniqueIdTaken ==
    ASSUME NEW arr, NEW base, base # NoId
    PROVE  base \in NodeIds(arr) \cup {UniqueId(arr, base)}
BY DEF UniqueId

LEMMA OneConnected ==
    ASSUME NEW arr, Connected(arr),
           NEW known, known \ {NoId} \subseteq NodeIds(arr),
           NEW a, Admissible(known, a)
    PROVE  /\ Connected(ApplyOne(arr, a))
           /\ NodeIds(arr) \subseteq NodeIds(ApplyOne(arr, a))
           /\ a.op = "add_node" => a.id \in NodeIds(ApplyOne(arr, a)) \cup {NoId}
<1>1. CASE a.op = "add_node"
  <2> DEFINE nid == UniqueId(arr, a.id)
             new == Added(arr, a, nid)
  <2>1. ApplyOne(arr, a) = new
    BY <1>1 DEF ApplyOne
  <2>2. NodeIds(new) = NodeIds(arr) \cup {nid}
    BY AddedIds
  <2>3. a.parent \in NodeIds(arr) \cup {NoId}
    BY <1>1 DEF Admissible
  <2>4. new.tip = arr.tip
    BY DEF Added
  <2>5. \A w \in new.wires : w.from \in NodeIds(new) /\ w.to \in NodeIds(new)
    <3> TAKE w \in new.wires
    <3>1. CASE w \in arr.wires
      BY <3>1, <2>2 DEF Connected, Dangling
    <3>2. CASE a.parent # NoId /\ w = ParentWire(a.parent, nid)
      BY <3>2, <2>2, <2>3 DEF ParentWire
    <3> QED
      BY <3>1, <3>2 DEF Added
  <2>6. a.id # NoId => a.id \in NodeIds(new)
    BY <2>2, UniqueIdTaken
  <2> HIDE DEF new, nid
  <2> QED
    BY <2>1, <2>2, <2>4, <2>5, <2>6 DEF Connected, Dangling
<1>2. CASE a.op = "wire"
  BY <1>2 DEF ApplyOne, Admissible, Connected, Dangling, NodeIds
<1>3. CASE a.op = "set_active_tip"
  BY <1>3 DEF ApplyOne, Admissible, Connected, Dangling, NodeIds
<1> QED
  BY <1>1, <1>2, <1>3 DEF Admissible

(***************************************************************************)
(* The gate is enough: a batch it admits, applied to a sound graph, leaves *)
(* a sound graph, though the gate checks its references against the ids    *)
(* the batch names and apply may give its nodes other ones.                *)
(***************************************************************************)
THEOREM GateKeepsSound ==
    ASSUME NEW arr, ValidateArrangement(arr),
           NEW actions, IsBatch(actions), ValidateActions(arr, actions)
    PROVE  ValidateArrangement(Apply(arr, actions))
<1> DEFINE n == Len(actions)
           g == Applied(arr, actions)
           Good(k) == /\ Connected(g[k])
                      /\ Known(arr, actions, k + 1) \ {NoId} \subseteq NodeIds(g[k])
           T == {k \in 0 .. n : ~Good(k)}
<1>0. n \in Nat /\ T \subseteq Nat
  BY DEF IsBatch
<1>1. Good(0)
  <2>1. g[0] = arr
    BY <1>0, AppliedFirst
  <2>2. Known(arr, actions, 1) = NodeIds(arr)
    BY DEF Known
  <2> QED
    BY <2>1, <2>2 DEF Connected, ValidateArrangement
<1>2. ASSUME NEW k \in 1 .. n, Good(k-1) PROVE Good(k)
  <2>1. Admissible(Known(arr, actions, k), actions[k])
    BY DEF ValidateActions
  <2>2. Known(arr, actions, k) \ {NoId} \subseteq NodeIds(g[k-1])
    BY <1>2, <1>0
  <2>3. g[k] = ApplyOne(g[k-1], actions[k])
    BY <1>0, AppliedNext
  <2>4. /\ Connected(g[k])
        /\ NodeIds(g[k-1]) \subseteq NodeIds(g[k])
        /\ actions[k].op = "add_node" => actions[k].id \in NodeIds(g[k]) \cup {NoId}
    <3> HIDE DEF g
    <3> QED
      BY <1>2, <2>1, <2>2, <2>3, OneConnected
  <2>5. Known(arr, actions, k + 1) \subseteq
           Known(arr, actions, k)
              \cup {actions[j].id : j \in {i \in {k} : actions[i].op = "add_node"}}
    <3>1. 1 .. (k + 1) - 1 = (1 .. k - 1) \cup {k}
      BY <1>0
    <3> QED
      BY <3>1 DEF Known
  <2> HIDE DEF g
  <2> QED
    BY <2>2, <2>4, <2>5
<1>3. T = {}
  <2> SUFFICES ASSUME T # {} PROVE FALSE
    OBVIOUS
  <2>1. PICK k \in T : \A y \in T : k <= y
    <3> HIDE DEF T
    <3> QED
      BY <1>0, LeastElement
  <2>2. k \in 0 .. n /\ ~Good(k)
    OBVIOUS
  <2> HIDE DEF Good
  <2>3. k # 0
    BY <1>1, <2>2
  <2>4. k \in 1 .. n /\ k - 1 \in 0 .. n /\ k - 1 \notin T
    <3> HIDE DEF T, n
    <3> QED
      BY <1>0, <2>1, <2>2, <2>3
  <2>5. Good(k-1)
    BY <2>4
  <2> QED
    BY <1>2, <2>2, <2>4, <2>5
<1>4. Connected(Apply(arr, actions))
  <2>1. Good(n)
    <3> HIDE DEF Good
    <3> QED
      BY <1>0, <1>3
  <2> QED
    BY <2>1 DEF Apply
<1>5. ~HasCycle(Apply(arr, actions))
  <2>1. CASE actions = << >>
    <3>1. Apply(arr, actions) = arr
      BY <2>1, <1>0, AppliedFirst DEF Apply
    <3> QED
      BY <3>1 DEF ValidateArrangement
  <2>2. CASE actions # << >>
    BY <2>2 DEF ValidateActions
  <2> QED
    BY <2>1, <2>2
<1> QED
  BY <1>4, <1>5 DEF Connected, ValidateArrangement

-----------------------------------------------------------------------------
(* Induction over the numbers up to n, for a set of numbers. *)
LEMMA IntervalInduction ==
    ASSUME NEW n \in Nat, NEW S, 0 \in S,
           \A k \in 1 .. n : k - 1 \in S => k \in S
    PROVE  0 .. n \subseteq S
<1> DEFINE T == {k \in 0 .. n : k \notin S}
<1>1. ASSUME T # {} PROVE FALSE
  <2>1. PICK m \in T : \A y \in T : m <= y
    <3>1. T \subseteq Nat
      OBVIOUS
    <3> HIDE DEF T
    <3> QED
      BY <1>1, <3>1, LeastElement
  <2>2. m \in 0 .. n /\ m \notin S
    OBVIOUS
  <2> HIDE DEF T
  <2>3. m \in 1 .. n /\ m - 1 \in 0 .. n /\ ~(m <= m - 1)
    BY <2>2
  <2>4. m - 1 \notin T
    BY <2>1, <2>3
  <2> QED
    BY <2>2, <2>3, <2>4 DEF T
<1> QED
  BY <1>1

-----------------------------------------------------------------------------
(* The walk up the parent wires sees one level more at each step. *)
LEMMA ClimbedSteps ==
    ASSUME NEW arr, NEW id, Cardinality(arr.wires) \in Nat
    PROVE  Climbed(arr, id) =
              [k \in 0 .. Cardinality(arr.wires) |->
                  IF k = 0 THEN ParentsOf(arr, id)
                  ELSE Climbed(arr, id)[k-1]
                          \cup UNION {ParentsOf(arr, p) : p \in Climbed(arr, id)[k-1]}]
<1> DEFINE n == Cardinality(arr.wires)
           Next1(X) == X \cup UNION {ParentsOf(arr, p) : p \in X}
           IsTrace(g, m) ==
              g = [k \in 0 .. m |-> IF k = 0 THEN ParentsOf(arr, id) ELSE Next1(g[k-1])]
           S == {m \in 0 .. n : \E g : IsTrace(g, m)}
<1>0. n \in Nat
  OBVIOUS
<1>1. 0 \in S
  <2>1. IsTrace([k \in 0 .. 0 |-> ParentsOf(arr, id)], 0)
    OBVIOUS
  <2> HIDE DEF IsTrace, n
  <2> QED
    BY <2>1, <1>0
<1>2. ASSUME NEW m \in 1 .. n, m - 1 \in S PROVE m \in S
  <2>1. PICK g : IsTrace(g, m - 1)
    BY <1>2
  <2> HIDE DEF n, Next1
  <2>0. m \in Nat /\ m - 1 \in Nat /\ m \in 0 .. n /\ 0 .. m - 1 \subseteq 0 .. m
    BY <1>0
  <2> DEFINE h == [k \in 0 .. m |-> IF k = 0 THEN ParentsOf(arr, id) ELSE Next1(g[k-1])]
  <2>2. \A k \in 0 .. m - 1 : h[k] = g[k]
    BY <2>1, <2>0
  <2>3. \A k \in 0 .. m : k # 0 => k - 1 \in 0 .. m - 1
    BY <2>0
  <2>4. IsTrace(h, m)
    <3>1. \A k \in 0 .. m : k # 0 => h[k-1] = g[k-1]
      BY <2>2, <2>3
    <3> QED
      BY <3>1
  <2> QED
    BY <2>0, <2>4
<1>3. n \in S
  <2> HIDE DEF S, n
  <2> QED
    BY <1>0, <1>1, <1>2, IntervalInduction
<1>4. \E g : IsTrace(g, n)
  BY <1>3
<1> QED
  BY <1>4 DEF Climbed

LEMMA ClimbedFirst ==
    ASSUME NEW arr, NEW id, Cardinality(arr.wires) \in Nat
    PROVE  Climbed(arr, id)[0] = ParentsOf(arr, id)
BY ClimbedSteps

LEMMA ClimbedNext ==
    ASSUME NEW arr, NEW id, Cardinality(arr.wires) \in Nat,
           NEW k \in 1 .. Cardinality(arr.wires)
    PROVE  Climbed(arr, id)[k] =
              Climbed(arr, id)[k-1]
                 \cup UNION {ParentsOf(arr, p) : p \in Climbed(arr, id)[k-1]}
BY ClimbedSteps

(* The deeper the walk, the more it has seen. *)
LEMMA ClimbedGrows ==
    ASSUME NEW arr, NEW id, Cardinality(arr.wires) \in Nat,
           NEW i \in 0 .. Cardinality(arr.wires), NEW j \in i .. Cardinality(arr.wires)
    PROVE  Climbed(arr, id)[i] \subseteq Climbed(arr, id)[j]
<1> DEFINE n == Cardinality(arr.wires)
           seen == Climbed(arr, id)
           S == {k \in 0 .. n : i <= k => seen[i] \subseteq seen[k]}
<1>1. 0 \in S
  OBVIOUS
<1>2. ASSUME NEW k \in 1 .. n, k - 1 \in S PROVE k \in S
  <2>1. seen[k-1] \subseteq seen[k]
    BY ClimbedNext
  <2>2. CASE i <= k - 1
    BY <1>2, <2>1, <2>2
  <2>3. CASE ~(i <= k - 1)
    <3>1. i <= k => i = k
      BY <2>3
    <3> QED
      BY <3>1
  <2> QED
    BY <2>2, <2>3
<1>3. 0 .. n \subseteq S
  <2> HIDE DEF S
  <2> QED
    BY <1>1, <1>2, IntervalInduction
<1>4. j \in S /\ i <= j
  <2> HIDE DEF S
  <2> QED
    BY <1>3
<1> QED
  BY <1>4

(* Whoever is seen is a parent or seen from a parent, one level less deep. *)
LEMMA ClimbedThroughParent ==
    ASSUME NEW arr, NEW x, NEW y, Cardinality(arr.wires) \in Nat,
           NEW k \in 0 .. Cardinality(arr.wires), y \in Climbed(arr, x)[k]
    PROVE  \E p \in ParentsOf(arr, x) : y = p \/ (k > 0 /\ y \in Climbed(arr, p)[k-1])
<1> DEFINE n == Cardinality(arr.wires)
           Through(z, i) == \E p \in ParentsOf(arr, x) :
                                z = p \/ (i > 0 /\ z \in Climbed(arr, p)[i-1])
           S == {i \in 0 .. n : \A z \in Climbed(arr, x)[i] : Through(z, i)}
<1>1. 0 \in S
  <2>1. \A z \in Climbed(arr, x)[0] : Through(z, 0)
    BY ClimbedFirst
  <2> HIDE DEF Through
  <2> QED
    BY <2>1
<1>2. ASSUME NEW i \in 1 .. n, i - 1 \in S PROVE i \in S
  <2> SUFFICES ASSUME NEW z \in Climbed(arr, x)[i] PROVE Through(z, i)
    <3> HIDE DEF Through
    <3> QED
      OBVIOUS
  <2>0. i \in 0 .. n /\ i - 1 \in 0 .. n /\ i > 0
    OBVIOUS
  <2>1. \A q \in Climbed(arr, x)[i-1] : Through(q, i-1)
    BY <1>2
  <2>2. CASE z \in Climbed(arr, x)[i-1]
    <3>1. PICK p \in ParentsOf(arr, x) : z = p \/ (i - 1 > 0 /\ z \in Climbed(arr, p)[i-2])
      BY <2>1, <2>2
    <3>2. i - 1 > 0 => Climbed(arr, p)[i-2] \subseteq Climbed(arr, p)[i-1]
      <4>1. ASSUME i - 1 > 0 PROVE i - 1 \in 1 .. n /\ (i - 1) - 1 = i - 2
        BY <4>1
      <4> QED
        BY <4>1, ClimbedNext
    <3> QED
      BY <2>0, <3>1, <3>2
  <2>3. CASE z \notin Climbed(arr, x)[i-1]
    <3>1. PICK q \in Climbed(arr, x)[i-1] : z \in ParentsOf(arr, q)
      BY <2>3, ClimbedNext
    <3>2. PICK p \in ParentsOf(arr, x) : q = p \/ (i - 1 > 0 /\ q \in Climbed(arr, p)[i-2])
      BY <2>1
    <3>3. CASE q = p
      <4>1. z \in Climbed(arr, p)[0]
        BY <3>1, <3>3, ClimbedFirst
      <4>2. 0 \in 0 .. n /\ i - 1 \in 0 .. n
        OBVIOUS
      <4>3. Climbed(arr, p)[0] \subseteq Climbed(arr, p)[i-1]
        BY <4>2, ClimbedGrows
      <4> QED
        BY <2>0, <4>1, <4>3
    <3>4. CASE i - 1 > 0 /\ q \in Climbed(arr, p)[i-2]
      <4>1. i - 1 \in 1 .. n /\ (i - 1) - 1 = i - 2
        BY <3>4
      <4>2. z \in Climbed(arr, p)[i-1]
        BY <3>1, <3>4, <4>1, ClimbedNext
      <4> QED
        BY <2>0, <4>2
    <3> QED
      BY <3>2, <3>3, <3>4
  <2> QED
    BY <2>2, <2>3
<1>3. 0 .. n \subseteq S
  <2> HIDE DEF S
  <2> QED
    BY <1>1, <1>2, IntervalInduction
<1>4. k \in S
  <2> HIDE DEF S
  <2> QED
    BY <1>3
<1> QED
  BY <1>4

(* The walk ends with all there is: it has been above whatever it has seen. *)
LEMMA AncestorsClosed ==
    ASSUME NEW arr, NEW x, IsFiniteSet(arr.wires),
           NEW q, q = x \/ q \in Ancestors(arr, x)
    PROVE  ParentsOf(arr, q) \subseteq Ancestors(arr, x)
<1> DEFINE n == Cardinality(arr.wires)
           seen == Climbed(arr, x)
           F == {w.from : w \in arr.wires}
<1>0. n \in Nat
  BY FS_CardinalityType
<1>1. IsFiniteSet(F) /\ Cardinality(F) <= n /\ Cardinality(F) \in Nat
  <2> DEFINE f == [w \in arr.wires |-> w.from]
  <2>1. f \in Surjection(arr.wires, F)
    BY DEF Surjection
  <2> QED
    BY <2>1, FS_Surjection, FS_CardinalityType
<1>2. \A id : ParentsOf(arr, id) \subseteq F
  BY DEF ParentsOf
<1>3. \A k \in 0 .. n : seen[k] \subseteq F
  <2> DEFINE S == {k \in 0 .. n : seen[k] \subseteq F}
  <2>1. 0 \in S
    BY <1>0, <1>2, ClimbedFirst
  <2>2. ASSUME NEW k \in 1 .. n, k - 1 \in S PROVE k \in S
    <3>1. seen[k] \subseteq F
      BY <1>0, <1>2, <2>2, ClimbedNext
    <3> QED
      BY <3>1
  <2>3. 0 .. n \subseteq S
    <3> HIDE DEF S
    <3> QED
      BY <1>0, <2>1, <2>2, IntervalInduction
  <2> QED
    BY <2>3
<1>4. ASSUME NEW k \in 0 .. n PROVE seen[k] \subseteq F /\ IsFiniteSet(seen[k]) /\ Cardinality(seen[k]) \in Nat
  <2>1. seen[k] \subseteq F
    BY <1>3
  <2> HIDE DEF F, seen
  <2> QED
    BY <2>1, <1>1, FS_Subset, FS_CardinalityType
<1> DEFINE Still(k) == seen[k] = seen[k-1]
<1>5. CASE \E k \in 1 .. n : Still(k)
  <2>1. PICK k \in 1 .. n : Still(k)
    BY <1>5
  <2>2. \A p \in seen[k-1] : ParentsOf(arr, p) \subseteq seen[k-1]
    BY <1>0, <2>1, ClimbedNext
  <2> DEFINE S == {j \in 0 .. n : k - 1 <= j => seen[j] = seen[k-1]}
  <2>3. 0 \in S
    BY <1>0
  <2>4. ASSUME NEW j \in 1 .. n, j - 1 \in S PROVE j \in S
    <3>1. CASE k - 1 <= j - 1
      <4>1. seen[j-1] = seen[k-1]
        BY <2>4, <3>1
      <4>2. seen[j] = seen[j-1] \cup UNION {ParentsOf(arr, p) : p \in seen[j-1]}
        BY <1>0, ClimbedNext
      <4> HIDE DEF seen
      <4>3. seen[j] = seen[k-1]
        BY <2>2, <4>1, <4>2
      <4> QED
        BY <4>3
    <3>2. CASE ~(k - 1 <= j - 1)
      <4>1. k - 1 <= j => j = k - 1
        BY <3>2
      <4> QED
        BY <4>1
    <3> QED
      BY <3>1, <3>2
  <2>5. n \in S /\ k - 1 <= n
    <3> HIDE DEF S
    <3> QED
      BY <1>0, <2>3, <2>4, IntervalInduction
  <2>6. seen[n] = seen[k-1]
    BY <2>5
  <2>7. ParentsOf(arr, x) \subseteq seen[n]
    <3>1. 0 \in 0 .. n /\ n \in 0 .. n
      BY <1>0
    <3> QED
      BY <1>0, <3>1, ClimbedFirst, ClimbedGrows
  <2> QED
    BY <2>2, <2>6, <2>7 DEF Ancestors
<1>6. CASE \A k \in 1 .. n : ~Still(k)
  <2> DEFINE S == {k \in 0 .. n : Cardinality(seen[k]) >= k}
  <2>1. 0 \in S
    BY <1>0, <1>4
  <2>2. ASSUME NEW k \in 1 .. n, k - 1 \in S PROVE k \in S
    <3>1. k \in 0 .. n /\ k - 1 \in 0 .. n
      BY <1>0
    <3>2. seen[k-1] \subseteq seen[k] /\ seen[k-1] # seen[k]
      BY <1>0, <1>6, ClimbedNext
    <3>3. Cardinality(seen[k-1]) >= k - 1
      BY <2>2
    <3>4. /\ IsFiniteSet(seen[k]) /\ Cardinality(seen[k]) \in Nat
          /\ Cardinality(seen[k-1]) \in Nat
      BY <1>4, <3>1
    <3>5. Cardinality(seen[k]) >= k
      <4> HIDE DEF seen
      <4>1. Cardinality(seen[k-1]) <= Cardinality(seen[k]) /\ Cardinality(seen[k-1]) # Cardinality(seen[k])
        BY <3>2, <3>4, FS_Subset
      <4> QED
        BY <3>3, <3>4, <4>1, <1>0
    <3> QED
      BY <3>1, <3>5
  <2>3. n \in S
    <3> HIDE DEF S
    <3> QED
      BY <1>0, <2>1, <2>2, IntervalInduction
  <2>4. n \in 0 .. n /\ Cardinality(seen[n]) >= n
    BY <2>3
  <2>5. seen[n] = F
    <3>1. seen[n] \subseteq F /\ Cardinality(seen[n]) \in Nat
      BY <1>4, <2>4
    <3> HIDE DEF seen, F
    <3>2. Cardinality(seen[n]) <= Cardinality(F)
      BY <1>1, <3>1, FS_Subset
    <3>3. Cardinality(seen[n]) = Cardinality(F)
      BY <1>0, <1>1, <2>4, <3>1, <3>2
    <3> QED
      BY <1>1, <3>1, <3>3, FS_Subset
  <2> QED
    BY <1>2, <2>5 DEF Ancestors
<1> QED
  BY <1>5, <1>6

(* A node among its own ancestors lies on a cycle. *)
LEMMA OwnAncestorMakesCycle ==
    ASSUME NEW arr, NEW x, IsFiniteSet(arr.wires), x \in Ancestors(arr, x)
    PROVE  HasCycle(arr)
<1> DEFINE n == Cardinality(arr.wires)
           Ends == {w.to : w \in arr.wires}
           S == {y \in Ends : x \in Ancestors(arr, y)}
<1>0. n \in Nat /\ n \in 0 .. n
  BY FS_CardinalityType
<1>1. ASSUME NEW y, x \in Ancestors(arr, y)
      PROVE  y \in Ends /\ \E p \in ParentsOf(arr, y) : x = p \/ x \in Ancestors(arr, p)
  <2>1. PICK p \in ParentsOf(arr, y) : x = p \/ (n > 0 /\ x \in Climbed(arr, p)[n-1])
    BY <1>0, <1>1, ClimbedThroughParent DEF Ancestors
  <2>2. n > 0 => n \in 1 .. n
    BY <1>0
  <2>3. n > 0 /\ x \in Climbed(arr, p)[n-1] => x \in Ancestors(arr, p)
    BY <1>0, <2>2, ClimbedNext DEF Ancestors
  <2>4. y \in Ends
    BY <2>1 DEF ParentsOf
  <2> QED
    BY <2>1, <2>3, <2>4
<1>2. S \in (SUBSET Ends) \ {{}}
  BY <1>1
<1>3. ASSUME NEW y \in S
      PROVE  \E w \in arr.wires : w.to = y /\ w.in = ParentPort /\ w.from \in S
  <2>1. PICK p \in ParentsOf(arr, y) : x = p \/ x \in Ancestors(arr, p)
    BY <1>1
  <2>2. x \in Ancestors(arr, p)
    BY <2>1
  <2>3. p \in S
    BY <1>1, <2>2
  <2> HIDE DEF S
  <2> QED
    BY <2>3 DEF ParentsOf
<1> QED
  BY <1>2, <1>3 DEF HasCycle

(* What an action or a batch leaves is finite if the graph was. *)
LEMMA OneFinite ==
    ASSUME NEW arr, NEW a, IsFiniteSet(arr.wires)
    PROVE  IsFiniteSet(ApplyOne(arr, a).wires)
<1>1. \/ ApplyOne(arr, a).wires = arr.wires
      \/ \E w : ApplyOne(arr, a).wires = arr.wires \cup {w}
  BY DEF ApplyOne, Added
<1>2. \A w : IsFiniteSet(arr.wires \cup {w})
  BY FS_AddElement
<1> QED
  BY <1>1, <1>2

LEMMA ApplyFinite ==
    ASSUME NEW arr, NEW actions, IsBatch(actions), IsFiniteSet(arr.wires)
    PROVE  IsFiniteSet(Apply(arr, actions).wires)
<1> DEFINE n == Len(actions)
           g == Applied(arr, actions)
           S == {k \in 0 .. n : IsFiniteSet(g[k].wires)}
<1>0. n \in Nat
  BY DEF IsBatch
<1>1. 0 \in S
  BY <1>0, AppliedFirst
<1>2. ASSUME NEW k \in 1 .. n, k - 1 \in S PROVE k \in S
  <2>1. IsFiniteSet(g[k-1].wires)
    BY <1>2
  <2>2. g[k] = ApplyOne(g[k-1], actions[k])
    BY <1>0, AppliedNext
  <2>3. IsFiniteSet(g[k].wires)
    <3> HIDE DEF g
    <3> QED
      BY <2>1, <2>2, OneFinite
  <2> QED
    BY <2>3
<1>3. n \in S
  <2> HIDE DEF S, n
  <2> QED
    BY <1>0, <1>1, <1>2, IntervalInduction
<1> QED
  BY <1>3 DEF Apply

(***************************************************************************)
(* What a selection pulls into its context only grows with the graph.      *)
(***************************************************************************)
LEMMA ContextGrows ==
    ASSUME NEW old, NEW new, IsFiniteSet(old.wires), IsFiniteSet(new.wires),
           Extends(new, old), NEW x
    PROVE  ContextNodes(old, {x}) \subseteq ContextNodes(new, {x})
<1> DEFINE n == Cardinality(old.wires)
           S == {k \in 0 .. n : Climbed(old, x)[k] \subseteq Ancestors(new, x)}
<1>0. n \in Nat
  BY FS_CardinalityType
<1>1. \A q : ParentsOf(old, q) \subseteq ParentsOf(new, q)
  BY DEF ParentsOf, Extends
<1>2. 0 \in S
  <2>1. ParentsOf(new, x) \subseteq Ancestors(new, x)
    BY AncestorsClosed
  <2> QED
    BY <1>0, <1>1, <2>1, ClimbedFirst
<1>3. ASSUME NEW k \in 1 .. n, k - 1 \in S PROVE k \in S
  <2>1. \A p \in Climbed(old, x)[k-1] : ParentsOf(new, p) \subseteq Ancestors(new, x)
    BY <1>3, AncestorsClosed
  <2>2. Climbed(old, x)[k] \subseteq Ancestors(new, x)
    BY <1>0, <1>1, <1>3, <2>1, ClimbedNext
  <2> QED
    BY <2>2
<1>4. n \in S
  <2> HIDE DEF S
  <2> QED
    BY <1>0, <1>2, <1>3, IntervalInduction
<1>5. Ancestors(old, x) \subseteq Ancestors(new, x)
  BY <1>4 DEF Ancestors
<1> QED
  BY <1>5 DEF ContextNodes, Extends
=============================================================================
