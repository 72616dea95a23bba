------------------------------ MODULE FramePump ------------------------------
(***************************************************************************)
(* The 3D tab of the GUI shell: opening it makes a window backend, a       *)
(* realtime driver and a frame callback that reschedules itself; leaving   *)
(* it, quitting and a failing frame tear them down.  Keys reach a backend  *)
(* through one application-wide binding, wait in its queue for the next    *)
(* frame, and are resolved there against the view of the frame before.     *)
(*                                                                         *)
(* Everything runs on the toolkit's thread, one callback at a time.  The   *)
(* camera is left out of the view but for its gravity mode; Escape quits   *)
(* (the scene's root is not a WorkflowView, where it would change modes).  *)
(***************************************************************************)
EXTENDS Integers, Sequences, FiniteSets

CONSTANTS
    Keys,      \* among them "escape" and "space"
    Window,    \* double_tap_window, in ticks
    MaxOpens,  \* bound: openings of the tab that make or try to make a backend
    MaxQueue,  \* bound: key events between two frames
    MaxClock   \* bound: ticks

VARIABLES
    tab,      \* the active tab: "3D" or "list"
    driver,   \* the opening that made the driver; 0 is None
    backend,  \* the opening that made the backend; 0 is None
    bound,    \* the opening whose backend the key binding calls; 0 is nobody
    pumping,  \* _frame_pump_active
    timers,   \* the frame callbacks that are pending
    named,    \* _frame_pump_after_id, 0 for None
    queue,    \* the events of the backend
    held, lastPress, gravity,  \* the driver's binding context and view
    down,     \* the keys the user holds down
    clock,
    opens, reopened, failed, taps
              \* openings so far; how many of them while a driver ran; whether one
              \* failed; presses of space the present driver has been sent

shell == <<driver, backend, bound, pumping, timers, named>>
input == <<queue, held, lastPress, gravity>>
vars == <<tab, shell, input, down, clock, opens, reopened, failed, taps>>

Event == [kind : {"key_down", "key_up"}, key : Keys, at : 0 .. MaxClock]
Timers == 1 .. MaxOpens + 1
Never == MaxClock + Window   \* later than any press: no press yet

Init ==
    /\ tab = "list"
    /\ driver = 0 /\ backend = 0 /\ bound = 0
    /\ pumping = FALSE /\ timers = {} /\ named = 0
    /\ queue = << >> /\ held = {} /\ lastPress = Never /\ gravity = "world"
    /\ down = {} /\ clock = 0
    /\ opens = 0 /\ reopened = 0 /\ failed = FALSE /\ taps = 0

-----------------------------------------------------------------------------
(* Keys.  The binding calls the backend that asked for it last, whether or *)
(* not the shell still holds that backend.                                 *)

Delivered(e) ==
    IF bound # 0 /\ bound = backend
    THEN /\ Len(queue) < MaxQueue
         /\ queue' = Append(queue, e)
    ELSE queue' = queue

Press(k) ==
    /\ k \notin down
    /\ down' = down \cup {k}
    /\ Delivered([kind |-> "key_down", key |-> k, at |-> clock])
    /\ taps' = IF k = "space" /\ bound # 0 /\ bound = backend /\ taps < 2
               THEN taps + 1 ELSE taps
    /\ UNCHANGED <<tab, shell, held, lastPress, gravity, clock, opens, reopened, failed>>

Lift(k) ==
    /\ k \in down
    /\ down' = down \ {k}
    /\ Delivered([kind |-> "key_up", key |-> k, at |-> clock])
    /\ UNCHANGED <<tab, shell, held, lastPress, gravity, clock, opens, reopened, failed, taps>>

Tick ==
    /\ clock < MaxClock
    /\ clock' = clock + 1
    /\ UNCHANGED <<tab, shell, input, down, opens, reopened, failed, taps>>

-----------------------------------------------------------------------------
(* The shell: opening and tearing down.                                    *)

\* Mutant: the pending frame callback is not cancelled.
TornDownUncancelled(pending) ==
    /\ pumping' = FALSE
    /\ timers' = pending
    /\ named' = 0
    /\ driver' = 0 /\ backend' = 0
    /\ bound' = IF backend # 0 THEN 0 ELSE bound

\* Only the callback named last is cancelled, and only the backend the shell
\* still holds is closed, which takes the key binding away whoever owns it.
TornDown(pending) ==
    /\ pumping' = FALSE
    /\ timers' = pending \ {named}
    /\ named' = 0
    /\ driver' = 0 /\ backend' = 0
    /\ bound' = IF backend # 0 THEN 0 ELSE bound

\* Scheduling names the new callback; the one named before stays pending.
Scheduled(pending) ==
    \E id \in Timers \ pending : timers' = pending \cup {id} /\ named' = id

\* The presses of a driver that is gone mean nothing to the next one.
Forgotten ==
    /\ queue' = << >> /\ held' = {} /\ lastPress' = Never /\ gravity' = "world"
    /\ taps' = 0

SelectList ==
    /\ tab' = "list"
    /\ IF driver # 0
       THEN TornDown(timers) /\ Forgotten
       ELSE UNCHANGED <<shell, input, taps>>
    /\ UNCHANGED <<down, clock, opens, reopened, failed>>

\* The scene file cannot be read: a label is shown and nothing is opened.
SelectUnreadable ==
    /\ tab' = "3D"
    /\ UNCHANGED <<shell, input, down, clock, opens, reopened, failed, taps>>

\* Opening the backend fails, before or after it has taken the key binding.
\* A driver that was running loses its backend but is still there.
SelectFails ==
    /\ opens < MaxOpens
    /\ opens' = opens + 1
    /\ tab' = "3D" /\ failed' = TRUE
    /\ backend' = 0
    /\ bound' \in {bound, opens + 1}
    /\ queue' = << >>
    /\ UNCHANGED <<driver, pumping, timers, named, held, lastPress, gravity,
                   down, clock, reopened, taps>>

\* A driver that was running is replaced, its pending callback is not.
SelectOpens ==
    /\ opens < MaxOpens
    /\ opens' = opens + 1
    /\ tab' = "3D"
    /\ reopened' = IF driver = 0 THEN reopened ELSE reopened + 1
    /\ driver' = opens + 1 /\ backend' = opens + 1 /\ bound' = opens + 1
    /\ pumping' = TRUE
    /\ Scheduled(timers)
    /\ Forgotten
    /\ UNCHANGED <<down, clock, failed>>

-----------------------------------------------------------------------------
(* A frame: the waiting events are taken in their order, so the last event *)
(* of a key says whether it is held.                                       *)

Of(k) == {i \in DOMAIN queue : queue[i].key = k}
Presses(k) == {i \in Of(k) : queue[i].kind = "key_down"}
Latest(places) == CHOOSE i \in places : \A j \in places : j <= i

HeldAfter == {k \in Keys : IF Of(k) = {} THEN k \in held ELSE Latest(Of(k)) \in Presses(k)}
PressAfter == IF Presses("space") = {} THEN lastPress ELSE queue[Latest(Presses("space"))].at

\* A press is recorded and then resolved: the last press that its time is compared
\* with is the press itself.
Toggles == \E i \in Presses("space") : queue[i].at - queue[i].at < Window

\* Escape is consumed before anything is held.  Every toggle of one frame is computed
\* from the gravity the frame began with.
Frame(pending) ==
    /\ queue' = << >>
    /\ \/ /\ Presses("escape") # {}
          /\ TornDown(pending)
          /\ held' = {} /\ lastPress' = Never /\ gravity' = "world" /\ taps' = 0
       \/ /\ Presses("escape") = {}
          /\ held' = HeldAfter /\ lastPress' = PressAfter
          /\ gravity' = IF ~Toggles THEN gravity
                        ELSE IF gravity = "world" THEN "free" ELSE "world"
          /\ Scheduled(pending)
          /\ UNCHANGED <<driver, backend, bound, pumping, taps>>

\* A frame that raises (a colour channel of the wrong shape) ends the pump.
FrameRaises(pending) == TornDown(pending) /\ Forgotten

\* A callback that comes after the end of its pump does nothing.
Fire(id) ==
    /\ id \in timers
    /\ IF pumping /\ driver # 0 /\ backend # 0
       THEN Frame(timers \ {id}) \/ FrameRaises(timers \ {id})
       ELSE /\ timers' = timers \ {id}
            /\ UNCHANGED <<driver, backend, bound, pumping, named, input, taps>>
    /\ UNCHANGED <<tab, down, clock, opens, reopened, failed>>

Next ==
    \/ \E k \in Keys : Press(k) \/ Lift(k)
    \/ Tick
    \/ SelectList \/ SelectUnreadable \/ SelectFails \/ SelectOpens
    \/ \E id \in Timers : Fire(id)

\* The toolkit's main loop runs the callbacks that are due.
Spec == Init /\ [][Next]_vars /\ WF_vars(\E id \in Timers : Fire(id))

-----------------------------------------------------------------------------

TypeOK ==
    /\ tab \in {"3D", "list"}
    /\ {driver, backend, bound, opens, reopened} \subseteq 0 .. MaxOpens
    /\ pumping = (driver # 0) /\ failed \in BOOLEAN
    /\ timers \subseteq Timers /\ named \in Timers \cup {0}
    /\ queue \in Seq(Event) /\ held \subseteq Keys /\ down \subseteq Keys
    /\ lastPress \in 0 .. Never /\ gravity \in {"world", "free"}
    /\ clock \in 0 .. MaxClock /\ taps \in 0 .. 2

(***************************************************************************)
(* Keys do not leak: as long as no opening has failed, they go to the      *)
(* backend in use, and to nobody while another tab is active ("the GUI     *)
(* shell tears the backend down before activating a 2D tab so global keys  *)
(* cannot leak between tabs").                                             *)
(***************************************************************************)
KeysStayIn3D ==
    bound # 0 /\ ~failed => tab = "3D" /\ bound = backend /\ bound = driver

(***************************************************************************)
(* The picture does not freeze: a driver with a backend always has a frame *)
(* to come, and it is the one a teardown would cancel.                     *)
(***************************************************************************)
FramesGoOn == driver # 0 /\ backend # 0 => pumping /\ named \in timers

(***************************************************************************)
(* A second pump comes only from selecting the 3D tab while it is open:    *)
(* there is at most one callback more than there were such selections,     *)
(* however often the tab is left, fails or quits between them.             *)
(***************************************************************************)
PumpsAreReopenings == Cardinality(timers) <= 1 + reopened

(***************************************************************************)
(* No key sticks: once its events are taken, the driver holds for pressed  *)
(* only keys the user is pressing, over every change of tab and driver.    *)
(***************************************************************************)
HeldIsDown ==
    queue = << >> /\ driver # 0 /\ backend = bound => held \subseteq down

(***************************************************************************)
(* Escape leaves the scene: once it waits in the queue, that backend goes. *)
(***************************************************************************)
EscapeLeaves ==
    \A n \in 1 .. MaxOpens :
        (/\ backend = n
         /\ \E i \in DOMAIN queue : queue[i].kind = "key_down" /\ queue[i].key = "escape")
            ~> backend # n

(***************************************************************************)
(* "Double-tap: toggle gravity mode" (engine/input.py:183): the mode       *)
(* changes only after space has been pressed twice.                        *)
(***************************************************************************)
GravityNeedsTwoTaps == gravity = "free" => taps = 2

\* However the tabs are switched, openings fail and frames raise: keys go to the 3D
\* backend in use, its frames go on, and no more pumps run than were asked for.
FramesAreKept ==
    TypeOK /\ KeysStayIn3D /\ FramesGoOn /\ PumpsAreReopenings /\ HeldIsDown
=============================================================================
