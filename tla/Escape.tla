---------------------------- MODULE Escape ----------------------------
(* scripts/emergency-restore.sh, the last resort of a user whose desktop
   is frozen, beside the daemon in whatever state that is: dead, being
   restarted, recovering, idle, or in the middle of a handler that takes
   longer than the ten seconds the script's client waits.

   The script asks the daemon first. Only if that fails it restores by hand, and
   then it works on the same processes, cgroups, compositor and state file
   as the daemon does, with no lock between them. *)
EXTENDS SupaadProperties

VARIABLES
    script,   \* where the script is
    left,     \* pids its current loop has still to visit
    request,  \* its EmergencyRestore, on the daemon's side
    unread,   \* history: stopped pids of the file it could not read and has not continued
    passed,   \* history: stopped pids it passed over, for their name
    told,     \* history: the compositor was sent the unlock
    beside    \* history: a SetMode handler ran during the restore by hand

lapses == <<unread, passed, told>>
scriptVars == <<script, left, request, lapses, beside>>
escapeVars == <<vars, scriptVars>>

ByHand == {"read", "continue_recorded", "continue_stopped", "drain_focus",
           "drain_background", "unlock", "mark_clean"}

ScriptTypeOK ==
    /\ script \in {"none", "asked", "done"} \cup ByHand
    /\ left \in SUBSET Pids
    /\ request \in {"none", "queued", "running", "answered"}
    /\ unread \in SUBSET Pids /\ passed \in SUBSET Pids /\ told \in BOOLEAN
    /\ beside \in BOOLEAN

------------------------------------------------------------------------
(* try_daemon *)

Listening == pc \notin NotRunning \cup Recovering /\ job # "recover"

ScriptGoto(step) == script' = step

\* supaa emergency-restore is run; the socket may be dead.
Run ==
    /\ script = "none"
    /\ ScriptGoto("asked")
    /\ request' = IF Listening THEN "queued" ELSE "none"
    /\ UNCHANGED <<vars, left, lapses, beside>>

\* The daemon takes the request when it is its turn, whether or not the
\* client still waits.
TakeRequest ==
    /\ request = "queued"
    /\ EmergencyRestore(FALSE)
    /\ request' = "running"
    /\ UNCHANGED <<script, left, lapses, beside>>

Succeeded ==
    /\ script = "asked" /\ request = "answered"
    /\ ScriptGoto("done") /\ request' = "none"
    /\ UNCHANGED <<vars, left, lapses, beside>>

\* Refused, closed without an answer, ten seconds without one, or no
\* client installed: then by hand. As a variant, that is the end of it.
GaveUpForGood ==
    /\ script = "asked" /\ request # "answered"
    /\ ScriptGoto("done")
    /\ UNCHANGED <<vars, left, request, lapses, beside>>
GaveUp ==
    /\ script = "asked" /\ request # "answered"
    /\ ScriptGoto("read")
    /\ beside' = (job = "mode")
    /\ UNCHANGED <<vars, left, request, lapses>>

------------------------------------------------------------------------
(* The restore by hand *)

\* thaw_from_state. The fallback without jq looks for the pids on the line of
\* "frozen_pids", and the daemon prints each on a line of its own: it finds none.
ReadRecordedMarkingClean ==
    /\ script = "read"
    /\ \/ left' = file.frozen /\ unread' = {}
       \/ left' = {} /\ unread' = file.frozen \cap stopped
    /\ file' = Fresh
    /\ ScriptGoto("continue_recorded")
    /\ UNCHANGED <<kernelVars, locked, daemonVars, request, passed, told, beside>>
ReadRecorded ==
    /\ script = "read"
    /\ \/ left' = file.frozen /\ unread' = {}
       \/ left' = {} /\ unread' = file.frozen \cap stopped
    /\ ScriptGoto("continue_recorded")
    /\ UNCHANGED <<vars, request, passed, told, beside>>

\* kill -CONT on one pid of either loop. As a variant, the loop over
\* /proc starts again after each.
ContinueStartingOver(p) ==
    /\ script \in {"continue_recorded", "continue_stopped"} /\ p \in left
    /\ stopped' = stopped \ {p}
    /\ left' = IF script = "continue_stopped" THEN alive ELSE left \ {p}
    /\ unread' = unread \ {p}
    /\ UNCHANGED <<table, cgroups, locked, daemonVars, file, script, request, passed, told, beside>>
Continue(p) ==
    /\ script \in {"continue_recorded", "continue_stopped"} /\ p \in left
    /\ stopped' = stopped \ {p}
    /\ left' = left \ {p}
    /\ unread' = unread \ {p}
    /\ UNCHANGED <<table, cgroups, locked, daemonVars, file, script, request, passed, told, beside>>

\* The loop over /proc reads the name of a stopped process and leaves some
\* alone. Those names are not the daemon's whitelist (dbus* is more than
\* dbus-daemon and dbus-broker): any process it stopped may have one.
PassOver(p) ==
    /\ script = "continue_stopped" /\ p \in left \cap stopped
    /\ passed' = passed \cup {p}
    /\ left' = left \ {p}
    /\ UNCHANGED <<vars, script, request, unread, told, beside>>

\* thaw_all_stopped visits the pids of one expansion of /proc/[0-9]*.
ScanStoppedRecorded ==
    /\ script = "continue_recorded" /\ left = {}
    /\ left' = file.frozen
    /\ ScriptGoto("continue_stopped")
    /\ UNCHANGED <<vars, request, lapses, beside>>
ScanStopped ==
    /\ script = "continue_recorded" /\ left = {}
    /\ left' = alive
    /\ ScriptGoto("continue_stopped")
    /\ UNCHANGED <<vars, request, lapses, beside>>

\* reset_cgroups: the weights of the directories there are, then the
\* members of each, then rmdir.
ScriptReset ==
    /\ script = "continue_stopped" /\ left = {}
    /\ limits' = "Normal"
    /\ left' = Members("focus")
    /\ ScriptGoto("drain_focus")
    /\ UNCHANGED <<table, stopped, dirs, locked, daemonVars, file, request, lapses, beside>>

ScriptDrainFocus ==
    /\ script = "drain_focus"
    /\ Release(left)
    /\ left' = Members("background")
    /\ ScriptGoto("drain_background")
    /\ UNCHANGED <<alive, parent, stopped, cgroups, locked, daemonVars, file, request, lapses, beside>>

\* A limit is in force while both directories exist.
ScriptDrainBackground ==
    /\ script = "drain_background"
    /\ Release(left)
    /\ RemoveEmptyDirs
    /\ limits' = IF dirs' = Managed THEN limits ELSE "Normal"
    /\ left' = {}
    /\ ScriptGoto("unlock")
    /\ UNCHANGED <<alive, parent, stopped, locked, daemonVars, file, request, lapses, beside>>

\* unlock_workspaces sends nothing without socat, and what it sends goes to the
\* first socket it finds, which may be that of a Hyprland that has ended.
ScriptUnlock ==
    /\ script = "unlock"
    /\ told' \in BOOLEAN
    /\ IF told' THEN UnlockWorkspace ELSE UNCHANGED locked
    /\ ScriptGoto("mark_clean")
    /\ UNCHANGED <<kernelVars, daemonVars, file, left, request, unread, passed, beside>>

\* mark_clean truncates the file and writes it in place. An empty or half
\* written file is to the daemon what a clean one is, and a file renamed
\* over it meanwhile is not touched by the write: truncation is the step.
MarkClean ==
    /\ script = "mark_clean"
    /\ file' = Fresh
    /\ ScriptGoto("done")
    /\ passed' = {} /\ told' = FALSE
    /\ UNCHANGED <<kernelVars, locked, daemonVars, left, request, unread, beside>>

------------------------------------------------------------------------

\* A step of anything but the script, and what it means for the request.
Meanwhile ==
    /\ \/ Start \/ Restart \/ Recovery
       \/ Command \/ TakeSignal \/ Handler \/ ExitNow
       \/ Signal \/ KilledAtStartup \/ Crash \/ Machine
    /\ request' = IF request = "answered" THEN request
                  ELSE IF pc' \in NotRunning THEN "none"
                  ELSE IF request = "running" /\ job' = "none" THEN "answered"
                  ELSE request
    /\ beside' = (beside \/ (script \in ByHand /\ job' = "mode"))
    /\ UNCHANGED <<script, left, lapses>>

\* Power is lost: that is the end of the script too.
PowerFails ==
    /\ PowerLoss
    /\ ScriptGoto(IF script = "none" THEN "none" ELSE "done")
    /\ left' = {} /\ request' = "none"
    /\ unread' = {} /\ passed' = {} /\ told' = FALSE
    /\ UNCHANGED beside

Script ==
    \/ Succeeded \/ GaveUp
    \/ ReadRecorded \/ ScanStopped \/ \E p \in Pids : Continue(p) \/ PassOver(p)
    \/ ScriptReset \/ ScriptDrainFocus \/ ScriptDrainBackground
    \/ ScriptUnlock \/ MarkClean

EscapeInit ==
    /\ Init
    /\ script = "none" /\ left = {} /\ request = "none"
    /\ unread = {} /\ passed = {} /\ told = FALSE /\ beside = FALSE
EscapeNext == Run \/ Script \/ TakeRequest \/ Meanwhile \/ PowerFails
EscapeSpec == EscapeInit /\ [][EscapeNext]_escapeVars

(* The script runs on, and its client has a timeout; the daemon's fairness is
   that of FairSpec. *)
EscapeFairSpec ==
    /\ EscapeSpec
    /\ WF_escapeVars(Script)
    /\ WF_vars(Recovery \/ Handler)

------------------------------------------------------------------------
(* Properties *)

\* What the restore by hand has achieved at each step, while no SetMode
\* handler runs beside it.
ByHandInv ==
    script \in ByHand /\ ~beside =>
        /\ job # "mode"
        /\ script = "continue_recorded" => stopped \cap Known \subseteq left \cup unread
        /\ script = "continue_stopped" => stopped \subseteq left \cup passed
        /\ script \in {"drain_focus", "drain_background", "unlock", "mark_clean"}
            => stopped \subseteq passed /\ limits = "Normal"
        /\ script \notin {"read", "continue_recorded"} => stopped \cap Known \subseteq unread
        /\ script = "mark_clean" /\ told /\ CompositorObeys => ~locked

\* What the daemon remembers, whatever the script does to the file: the record in
\* its memory names what it holds stopped,
MemoryInv ==
    /\ pc \in ThawedSteps => frozen = {}
    /\ pc = "thaw" => todo = frozen
    /\ pc \in {"idle", "persist"} /\ mode # "SupaaPlus" => frozen = {}
    /\ pc \notin FreezeWindow => frozen \subseteq st.frozen
    /\ job \notin {"none", "recover"} => ~st.clean

\* and neither that record nor the file names a stopped process it does not hold.
RecordInv ==
    /\ stopped \cap st.frozen \subseteq frozen
    /\ stopped \cap Recoverable \subseteq Known

\* What the file still has to say of it: what is stopped, not what was.
FileKnowsAllBut(lost) ==
    /\ pc \notin FreezeWindow => stopped \cap frozen \subseteq Recoverable \cup lost
    /\ pc = "thaw_recorded" => stopped \cap todo \subseteq Recoverable \cup lost
KnownInv ==
    /\ script \in {"none", "asked"} => ~beside
    /\ ~beside => FileKnowsAllBut(IF script = "done" THEN unread ELSE {})

(* The restore by hand makes progress that nothing but a SetMode handler
   takes back, though the daemon may be at any step of its own; and until it
   rewrites the file that still names every process the daemon holds stopped. *)
EscapeInv ==
    TypeOK /\ ScriptTypeOK /\ JobInv /\ ByHandInv /\ MemoryInv /\ RecordInv /\ KnownInv

(* When a restore by hand that no SetMode handler ran beside writes that all is
   clean, no limit is in force, switching is locked only if the compositor was not
   told, and a process is stopped only if thaw_all_stopped passed over its name and
   neither a daemon nor the file knew of it, or thaw_from_state could not read
   that. Whatever else the daemon did: died, was restarted, recovered, restored, shut down. *)
RestoredByHand ==
    [][MarkClean /\ ~beside =>
        /\ limits' = "Normal"
        /\ CompositorObeys /\ told => ~locked'
        /\ stopped' \subseteq passed \cap (Stranded \cup unread)]_escapeVars

(* It makes the daemon and its successor forget no stopped process but those it
   could not read and then passed over. *)
ScriptStrandsNothing ==
    [][~beside' => \/ Stranded' \subseteq Stranded \cup unread
                   \/ pc \in FreezeWindow /\ pc' \in NotRunning]_escapeVars

(* It comes to its end whatever the daemon does and however many processes start
   meanwhile: each of its steps goes forward, or visits one pid less,
   and nothing but a power loss moves it otherwise. *)
ScriptRank(step) ==
    CASE step = "none" -> 0              [] step = "asked" -> 1
      [] step = "read" -> 2              [] step = "continue_recorded" -> 3
      [] step = "continue_stopped" -> 4  [] step = "drain_focus" -> 5
      [] step = "drain_background" -> 6  [] step = "unlock" -> 7
      [] step = "mark_clean" -> 8        [] OTHER -> 9
ScriptForward ==
    \/ ScriptRank(script') > ScriptRank(script)
    \/ script' = script /\ left' \subseteq left /\ left' # left
ScriptAdvances ==
    [][/\ Script => ScriptForward
       /\ script \notin {"none", "done"} => ScriptForward \/ UNCHANGED <<script, left>>]_escapeVars

(* The hatch opens: once the script runs unanswered a stopped process that the
   file names is continued, by the daemon or by hand, unless the script cannot read
   the file and passes over its name too. *)
HatchOpens ==
    \A p \in Pids :
        script = "asked" /\ request # "answered" /\ p \in stopped \cap Recoverable
            ~> p \notin stopped \/ p \in passed \cap unread
=======================================================================
