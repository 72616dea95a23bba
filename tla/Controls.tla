-------------------------------- MODULE Controls --------------------------------
(***************************************************************************)
(* The controls of a panel: slider, scroll bar, dropdown, toolbox and      *)
(* terminal.  Each is a node whose state is built from its parameters;     *)
(* its verbs change that state in place and answer with a delta, which     *)
(* dispatch_action merges into the view state that panels read.  Setting a *)
(* parameter, or saving the type's file, builds the state again; the view  *)
(* state stays as it is.                                                   *)
(*                                                                         *)
(* One node is modelled.  Colours, sizes and labels are left out, and so   *)
(* are the verbs that only read and the entries last_<verb>.               *)
(***************************************************************************)
EXTENDS Integers, Sequences, SequencesExt

CONSTANTS
    Ranges,       \* what sliders and scroll bars are spawned with: min, max, value, step
    Values,       \* the values they are asked to take
    DefaultStep,  \* DEFAULT_STEP
    Names,        \* the options of a dropdown, the children of a toolbox
    MaxItems,     \* bound: their number
    Limit,        \* 1024, the most submissions a terminal keeps
    MaxVerbs      \* bound: verbs

VARIABLES
    type,      \* the node's type
    params,    \* its parameters
    state,     \* node.state
    view,      \* what of it the view state shows
    typed,     \* history: how often a terminal was submitted to, and since when it is as it is
    verbs

ASSUME ControlAssumption ==
    /\ \A r \in Ranges : {r.min, r.max, r.value, r.step} \subseteq Int
    /\ Values \subseteq Int
    /\ {DefaultStep, MaxItems} \subseteq Nat \ {0}
    /\ {Limit, MaxVerbs} \subseteq Nat

controlVars == <<type, params, state, view, typed, verbs>>

Ranged == {"Slider", "ScrollBar"}
NoOption == "none"
Visibilities == <<"hidden", "compact", "expanded">>

Lesser(a, b) == IF a < b THEN a ELSE b
Greater(a, b)  == IF a < b THEN b ELSE a
Clamped(n, lo, hi) == Greater(lo, Lesser(hi, n))

Seqs(S) == UNION {[1 .. n -> S] : n \in 0 .. MaxItems}
Child(name, as) == [name |-> name, as |-> as]

Params(t) ==
    CASE t \in Ranged   -> Ranges
      [] t = "Dropdown" -> [options : Seqs(Names), selected : Names \cup {NoOption}]
      [] t = "Toolbox"  -> [contents : {<<>>} \cup {<<Child(n, "link")>> : n \in Names}]
      [] OTHER          -> {[visibility |-> "compact"]}

-----------------------------------------------------------------------------
\* build

BuildRange(p) ==
    LET lo == Lesser(p.min, p.max)
        hi == Greater(p.min, p.max)
    IN  [min |-> lo, max |-> hi, value |-> Clamped(p.value, lo, hi),
         step |-> IF p.step <= 0 THEN DefaultStep ELSE p.step]

\* An id that comes again is skipped.
Distinct(s) ==
    LET kept[k \in 0 .. Len(s)] ==
            IF k = 0 THEN << >>
            ELSE IF s[k] \in ToSet(kept[k-1]) THEN kept[k-1] ELSE Append(kept[k-1], s[k])
    IN  kept[Len(s)]

FirstOption(options) == IF options = << >> THEN NoOption ELSE options[1]

BuildDropdown(p) ==
    LET options == Distinct(p.options)
    IN  [options |-> options,
         selected |-> IF p.selected \in ToSet(options) THEN p.selected ELSE FirstOption(options)]

Build(t, p) ==
    CASE t \in Ranged   -> BuildRange(p)
      [] t = "Dropdown" -> BuildDropdown(p)
      [] t = "Toolbox"  -> [contents |-> p.contents]
      [] OTHER          -> [visibility |-> p.visibility, output |-> 0, history |-> << >>]

ControlInit ==
    /\ type \in Ranged \cup {"Dropdown", "Toolbox", "Terminal"}
    /\ params \in Params(type)
    /\ state = Build(type, params)
    /\ view = << >>
    /\ typed = [now |-> 0, built |-> 0]
    /\ verbs = 0

Merged(delta, base) ==
    [f \in DOMAIN delta \cup DOMAIN base |-> IF f \in DOMAIN delta THEN delta[f] ELSE base[f]]

\* A verb changes the state and shows what its delta holds.
Does(new, delta) ==
    /\ verbs < MaxVerbs
    /\ verbs' = verbs + 1
    /\ state' = new
    /\ view' = Merged(delta, view)
    /\ UNCHANGED <<type, params>>

-----------------------------------------------------------------------------
\* Slider and scroll bar

\* Python rounds half to even.
RoundedTo(n, unit) ==
    LET q == n \div unit
        r == 2 * (n % unit)
    IN  unit * (IF r > unit \/ (r = unit /\ q % 2 = 1) THEN q + 1 ELSE q)

\* Mutant: not clamped again after the snap.
SnapToStepOnly(n) ==
    LET in == Clamped(n, state.min, state.max)
    IN  IF type = "ScrollBar" THEN in ELSE state.min + RoundedTo(in - state.min, state.step)

\* Clamped, snapped to a step from the least value, and clamped again.
SnapToStep(n) ==
    LET in == Clamped(n, state.min, state.max)
    IN  IF type = "ScrollBar" THEN in
        ELSE Clamped(state.min + RoundedTo(in - state.min, state.step), state.min, state.max)

SetValue(n) ==
    /\ type \in Ranged
    /\ LET v == SnapToStep(n) IN Does([state EXCEPT !.value = v], [value |-> v])
    /\ UNCHANGED typed

\* step_up, step_down
Step(by) ==
    /\ type = "Slider"
    /\ LET v == Clamped(state.value + by * state.step, state.min, state.max)
       IN  Does([state EXCEPT !.value = v], [value |-> v])
    /\ UNCHANGED typed

-----------------------------------------------------------------------------
\* Dropdown

Select(o) ==
    /\ type = "Dropdown" /\ o \in ToSet(state.options)
    /\ Does([state EXCEPT !.selected = o], [selected |-> o])
    /\ UNCHANGED typed

\* The first option is selected; the delta does not say so.
AddOption(o) ==
    /\ type = "Dropdown" /\ o \notin ToSet(state.options) /\ Len(state.options) < MaxItems
    /\ LET options == Append(state.options, o)
       IN  Does([options |-> options, selected |-> IF state.selected = NoOption THEN o ELSE state.selected],
                [options |-> options])
    /\ UNCHANGED typed

\* Nor that another is selected when the selected one goes.
RemoveOption(o) ==
    /\ type = "Dropdown"
    /\ \E i \in DOMAIN state.options :
         /\ state.options[i] = o
         /\ LET options == RemoveAt(state.options, i)
            IN  Does([options |-> options,
                      selected |-> IF state.selected = o THEN FirstOption(options)
                                   ELSE state.selected],
                     [options |-> options])
    /\ UNCHANGED typed

-----------------------------------------------------------------------------
\* Toolbox

HasRendered(contents) == \E i \in DOMAIN contents : contents[i].as = "rendered"

Holds(contents, delta) == Does([contents |-> contents], Merged(delta, [contents |-> contents]))

\* The first rendered child asks for the flip into a container of its kind.
Add(n, as) ==
    /\ type = "Toolbox" /\ Len(state.contents) < MaxItems
    /\ Holds(Append(state.contents, Child(n, as)),
             IF as = "rendered" /\ ~HasRendered(state.contents)
             THEN [flip |-> n] ELSE << >>)
    /\ UNCHANGED typed

\* remove takes the first entry of a name, delete the entry of an index.
Delete(i) ==
    /\ type = "Toolbox" /\ i \in DOMAIN state.contents
    /\ Holds(RemoveAt(state.contents, i), << >>)
    /\ UNCHANGED typed

RemoveChild(n) ==
    /\ type = "Toolbox"
    /\ \E i \in DOMAIN state.contents :
         /\ state.contents[i].name = n
         /\ \A j \in 1 .. i - 1 : state.contents[j].name # n
         /\ Holds(RemoveAt(state.contents, i), << >>)
    /\ UNCHANGED typed

\* up, down, move
Move(i, j) ==
    /\ type = "Toolbox" /\ {i, j} \subseteq DOMAIN state.contents
    /\ Holds([state.contents EXCEPT ![i] = state.contents[j], ![j] = state.contents[i]], << >>)
    /\ UNCHANGED typed

-----------------------------------------------------------------------------
\* Terminal

Retained(history) ==
    IF Len(history) > Limit THEN SubSeq(history, Len(history) - Limit + 1, Len(history)) ELSE history

\* Every submission has an answer, of the host or of its failure, and is told
\* apart by its number.
Submit ==
    /\ type = "Terminal"
    /\ LET n == typed.now + 1
           history == Retained(Append(state.history, n))
       IN  /\ Does([state EXCEPT !.history = history, !.output = n],
                   [history |-> history, output |-> n])
           /\ typed' = [typed EXCEPT !.now = n]

\* One that is not known makes it compact.
SetVisibility(v) ==
    /\ type = "Terminal"
    /\ Does([state EXCEPT !.visibility = v], [visibility |-> v])
    /\ UNCHANGED typed

Cycle ==
    /\ type = "Terminal"
    /\ \E i \in 1 .. 3 : state.visibility = Visibilities[i] /\ SetVisibility(Visibilities[(i % 3) + 1])

-----------------------------------------------------------------------------

\* set_param builds the state from the new parameters, a reload of the type
\* from the same ones.
Rebuild(p) ==
    /\ verbs < MaxVerbs
    /\ params' = p
    /\ state' = Build(type, p)
    /\ verbs' = verbs + 1
    /\ typed' = [typed EXCEPT !.built = typed.now]
    /\ UNCHANGED <<type, view>>

ControlNext ==
    \/ \E n \in Values : SetValue(n)
    \/ Step(1) \/ Step(-1)
    \/ \E n \in Names :
        \/ Select(n) \/ AddOption(n) \/ RemoveOption(n)
        \/ Add(n, "link") \/ Add(n, "rendered") \/ RemoveChild(n)
    \/ \E i, j \in 1 .. MaxItems : Delete(i) \/ Move(i, j)
    \/ Submit
    \/ \E v \in ToSet(Visibilities) : SetVisibility(v)
    \/ Cycle
    \/ \E p \in Params(type) : Rebuild(p)

ControlSpec == ControlInit /\ [][ControlNext]_controlVars

-----------------------------------------------------------------------------

ControlTypeOK ==
    /\ verbs \in 0 .. MaxVerbs
    /\ type \in Ranged => state.min <= state.max /\ state.step > 0
    /\ type = "Toolbox" => Len(state.contents) <= MaxItems
    /\ type = "Terminal" => state.visibility \in ToSet(Visibilities)

(***************************************************************************)
(* Whatever a slider or scroll bar is asked for, however its least and     *)
(* greatest value, its step and the rounding fall, it stays in its range.  *)
(***************************************************************************)
ValueInRange == type \in Ranged => state.value \in state.min .. state.max

(***************************************************************************)
(* A dropdown has one of its options selected, and none only when it has   *)
(* none: as it was built, and however options come and go.                 *)
(***************************************************************************)
SelectedIsAnOption ==
    type = "Dropdown" =>
        IF state.options = << >> THEN state.selected = NoOption
        ELSE state.selected \in ToSet(state.options)

(***************************************************************************)
(* A terminal keeps its last submissions, in order, up to the limit.       *)
(***************************************************************************)
HistoryIsLatest ==
    type = "Terminal" =>
        LET n == Lesser(Limit, typed.now - typed.built)
        IN  state.history = [i \in 1 .. n |-> typed.now - n + i]

(***************************************************************************)
(* What a verb changes of the state, panels see: the view state has it too *)
(* (but for the option that is selected because another came or went).     *)
(***************************************************************************)
ChangesAreShown ==
    [][\A f \in DOMAIN state \ {"selected"} :
        state' # Build(type, params') /\ state'[f] # state[f] => f \in DOMAIN view' /\ view'[f] = state'[f]]_controlVars

(***************************************************************************)
(* slider.py:210: "Slider thumbs land on step-aligned positions", those at *)
(* the end of the range aside.                                             *)
(***************************************************************************)
ThumbsAlign ==
    type = "Slider" /\ state.value # state.max =>
        (state.value - state.min) % state.step = 0

(***************************************************************************)
(* dropdown.py: what the view state holds as selected is what is selected. *)
(***************************************************************************)
SelectionIsShown ==
    type = "Dropdown" /\ "selected" \in DOMAIN view => view.selected = state.selected

\* Whatever is asked of a control: its value is in its range, its selection among its
\* options, its history the latest, and its view says what changed of its state.
ControlsAreSound ==
    /\ [](ControlTypeOK /\ ValueInRange /\ SelectedIsAnOption /\ HistoryIsLatest)
    /\ ChangesAreShown
=============================================================================
