-------------------------- MODULE WriteAhead --------------------------
(* What the daemon promises with its state file: it acts on the machine only while
   a record on disk asks for the undoing. It takes that request back
   only when everything is undone, and records what it holds whenever it
   comes to rest. A failure at any moment leaves what the record names; the next session
   undoes that, and nothing else, before it takes a command. *)

CONSTANTS
    Item,     \* what can be held: the processes
    Setting,  \* the limits that can be in force
    Off       \* the limits of a machine without the daemon

VARIABLES
    phase,     \* "off", "starting", "ready" (takes commands) or "working"
    setting,   \* the limits in force
    held,      \* what the daemon holds; while it is off, what the next one knows of
    dirty,     \* the record asks for the undoing
    recorded   \* what the record names

vars == <<phase, setting, held, dirty, recorded>>

Undone == setting = Off /\ held = {}

Start ==
    /\ phase = "off" /\ phase' = "starting"
    /\ UNCHANGED <<setting, held, dirty, recorded>>

\* Recovery only takes back.
Undo ==
    /\ phase = "starting" /\ dirty
    /\ setting' \in {setting, Off} /\ held' \in SUBSET held
    /\ UNCHANGED <<phase, dirty, recorded>>

Recovered ==
    /\ phase = "starting" /\ Undone
    /\ phase' \in {"starting", "ready"}
    /\ dirty' = FALSE /\ recorded' = {}
    /\ UNCHANGED <<setting, held>>

\* The record is marked before anything is done.
Mark ==
    /\ phase \in {"ready", "working"} /\ phase' = "working"
    /\ dirty' = TRUE
    /\ UNCHANGED <<setting, held, recorded>>

Work ==
    /\ phase = "working" /\ dirty
    /\ setting' \in Setting /\ held' \in SUBSET Item
    /\ UNCHANGED <<phase, dirty, recorded>>

\* A handler records the outcome and rests, exits, or (after the signal)
\* is about to exit.
Record ==
    /\ phase = "working" /\ phase' \in {"ready", "working", "off"}
    /\ dirty' = (setting # Off) /\ recorded' = held
    /\ ~dirty' => Undone
    /\ phase' = "off" => ~dirty'
    /\ UNCHANGED <<setting, held>>

\* The daemon ends without a further word, or the machine does.
Fail ==
    /\ phase' = "off"
    /\ setting' \in {setting, Off} /\ held' = recorded
    /\ UNCHANGED <<dirty, recorded>>

Init == phase = "off" /\ setting = Off /\ held = {} /\ dirty = FALSE /\ recorded = {}
Next == Start \/ Undo \/ Recovered \/ Mark \/ Work \/ Record \/ Fail
Spec == Init /\ [][Next]_vars

------------------------------------------------------------------------
(* What it is good for: a record that asks for nothing means that there is nothing to
   undo, so the next session may skip recovery; at rest the record
   names exactly what is held. *)
Truthful ==
    /\ ~dirty => Undone /\ recorded = {}
    /\ phase = "ready" => recorded = held /\ dirty = (setting # Off)
=======================================================================
