---------------------------- MODULE Supaad ----------------------------
(* The daemon supaad: startup recovery, the command handlers of daemon.rs
   with every effect they have on processes, cgroups, the compositor and
   the state file (policy.rs, freezer.rs, recovery.rs), the SIGTERM task,
   crashes, the service manager's restart, and the rest of the machine
   between any two steps.

   A handler runs under the daemon's mutex, so the daemon has one program
   counter; pc names what the handler does next. One step is one system
   call whose interleaving with the machine or with a crash matters: each
   signal, each background move, each snapshot of /proc or of a cgroup,
   each save of the state file. A run of weight writes, the moves of a
   focus tree and the moves of one drained directory are one step each. *)
EXTENDS Cgroup

CONSTANTS
    CompositorObeys,  \* dispatch to Hyprland reaches it and takes effect
    MayCrash,         \* the daemon or the machine may fail
    MaySignal         \* the running daemon may be sent SIGTERM or SIGINT

ASSUME SupaadAssumption == {CompositorObeys, MayCrash, MaySignal} \subseteq BOOLEAN

VARIABLES
    locked,  \* Hyprland: workspace switching is locked
    pc,      \* next step of the daemon, or why there is none
    job,     \* the handler that is running
    target,  \* its argument: the mode to change to
    todo,    \* pids the current loop has still to visit
    tree,    \* snapshot of the focus process tree
    mode, focus, frozen, st, wlocked,   \* struct Daemon
    file,    \* the state file on disk; run_recovery treats none as a clean one
    sig      \* the signal task: none, a signal pending, or after shutdown()

table      == <<alive, parent, member>>     \* of Kernel, for UNCHANGED
cgroups    == <<dirs, limits>>
handler    == <<job, target>>
memVars    == <<mode, focus, frozen, st, wlocked>>
daemonVars == <<pc, handler, todo, tree, memVars, sig>>
vars       == <<kernelVars, locked, daemonVars, file>>

Job  == {"none", "recover", "mode", "emergency", "quit", "sigterm"}
Step == {"down", "failed", "thaw_recorded", "unlock_recorded", "save_recovered",
         "new", "idle", "thaw", "reset", "drain", "remove", "unlock",
         "apply", "scan_tree", "scan_pids", "populate", "lock", "scan_all",
         "scan_focus", "freeze", "persist", "finish"}

\* PersistedState, without its timestamp, version and the focus fields
\* that nothing reads back.
State  == [mode : Mode, frozen : SUBSET Pids, locked : BOOLEAN, clean : BOOLEAN]
Fresh  == [mode |-> "Normal", frozen |-> {}, locked |-> FALSE, clean |-> TRUE]

TypeOK ==
    /\ KernelTypeOK
    /\ locked \in BOOLEAN
    /\ pc \in Step /\ job \in Job /\ target \in Mode
    /\ todo \in SUBSET Pids /\ tree \in SUBSET Pids
    /\ mode \in Mode /\ focus \in Pids \cup {NoPid}
    /\ frozen \in SUBSET Pids /\ wlocked \in BOOLEAN
    /\ st \in State /\ file \in State
    /\ sig \in {"none", "pending", "exiting"}

NotRunning == {"down", "failed"}    \* no daemon process
Recovering == {"thaw_recorded", "unlock_recorded", "save_recovered", "new"}

------------------------------------------------------------------------
(* Building blocks. A definition whose name says what is wrong with it
   (Late, Forgotten, Never, ...) is a faulty variant of the one it
   precedes: with it a property below must fail. *)

\* What a process that is not running remembers, in canonical form.
Forget ==
    /\ job' = "none" /\ target' = "Normal" /\ todo' = {} /\ tree' = {}
    /\ mode' = "Normal" /\ focus' = NoPid /\ frozen' = {}
    /\ st' = Fresh /\ wlocked' = FALSE /\ sig' = "none"

Goto(step) == pc' = step
Save(s) == st' = s /\ file' = s      \* st := s; save_state(st)

\* mark_dirty's record: the last outcome, no longer clean.
MarkedDirtyLate == st
MarkedDirtyCleared == [st EXCEPT !.clean = FALSE, !.frozen = {}]
MarkedDirty == [st EXCEPT !.clean = FALSE]

\* What handle_set_mode records when it is done.
OutcomeBeforeFreeze ==
    [mode |-> mode, frozen |-> st.frozen, locked |-> ShouldLock(mode),
     clean |-> mode = "Normal"]
Outcome ==
    [mode |-> mode, frozen |-> frozen, locked |-> ShouldLock(mode),
     clean |-> IF mode = "Normal" THEN TRUE ELSE st.clean]

\* What is left to visit after p; a loop visits the pids of one snapshot.
RestRescanned(p) == AllPids \ {p}
Rest(p) == todo \ {p}

\* Hyprland's answer; when it cannot be reached nothing may change.
LockWorkspace   == locked' \in (IF CompositorObeys THEN {TRUE} ELSE {TRUE, locked})
UnlockWorkspace == locked' \in (IF CompositorObeys THEN {FALSE} ELSE {FALSE, locked})

------------------------------------------------------------------------
(* Startup: main, run_recovery, Daemon::new *)

RecordedForgotten == {}
RecordedPids == file.frozen

Boot ==
    /\ IF file.clean
       THEN Goto("new") /\ UNCHANGED <<job, todo>>
       ELSE Goto("thaw_recorded") /\ job' = "recover" /\ todo' = RecordedPids
    /\ UNCHANGED <<kernelVars, locked, target, tree, memVars, sig, file>>

\* The operator or the machine's boot starts the unit.
Start == pc = "down" /\ Boot

\* Restart=on-failure, RestartSec=3s.
Restart == pc = "failed" /\ Boot

\* thaw_pid_list on one recorded pid; a pid that is gone is skipped.
ThawRecorded(p) ==
    /\ pc = "thaw_recorded" /\ p \in todo
    /\ stopped' = stopped \ {p}
    /\ todo' = Rest(p)
    /\ UNCHANGED <<table, cgroups, locked, pc, handler, tree, memVars, sig, file>>

ThawedRecorded ==
    /\ pc = "thaw_recorded" /\ todo = {}
    /\ Goto("unlock_recorded")
    /\ UNCHANGED <<kernelVars, locked, handler, todo, tree, memVars, sig, file>>

UnlockIfRecordedNever == UNCHANGED locked
UnlockIfRecorded == IF file.locked THEN UnlockWorkspace ELSE UNCHANGED locked

UnlockRecorded ==
    /\ pc = "unlock_recorded"
    /\ UnlockIfRecorded
    /\ Goto("reset")
    /\ UNCHANGED <<kernelVars, handler, todo, tree, memVars, sig, file>>

\* init_cgroups, then the clean state saved.
SaveRecovered ==
    /\ pc = "save_recovered"
    /\ EnsureCgroups
    /\ file' = Fresh
    /\ job' = "none"
    /\ Goto("new")
    /\ UNCHANGED <<table, stopped, limits, locked, target, todo, tree, memVars, sig>>

\* Daemon::new: Normal mode, whatever the file says; nothing is saved.
New ==
    /\ pc = "new"
    /\ EnsureCgroups
    /\ Goto("idle")
    /\ UNCHANGED <<table, stopped, limits, locked, handler, todo, tree, memVars, sig, file>>

------------------------------------------------------------------------
(* Commands, taken while no handler runs *)

\* handle_set_mode up to its first effect; the current mode is a no-op.
SetMode(m) ==
    /\ pc = "idle" /\ m # mode
    /\ Save(MarkedDirty)
    /\ job' = "mode" /\ target' = m
    /\ IF mode = "Normal"
       THEN Goto("apply") /\ UNCHANGED todo
       ELSE Goto("thaw") /\ todo' = frozen
    /\ UNCHANGED <<kernelVars, locked, tree, mode, focus, frozen, wlocked, sig>>

\* handle_emergency_restore and shutdown up to their first signal.
BeginRestore(j) ==
    /\ pc = "idle"
    /\ Save(MarkedDirty)
    /\ job' = j
    /\ todo' = frozen
    /\ Goto("thaw")
    /\ UNCHANGED <<kernelVars, locked, target, tree, mode, focus, frozen, wlocked>>

EmergencyRestore(quit) ==
    BeginRestore(IF quit THEN "quit" ELSE "emergency") /\ UNCHANGED sig

\* Command::Shutdown: from here on the calls EmergencyRestore{quit} makes.
Shutdown   == BeginRestore("quit") /\ UNCHANGED sig
TakeSignal == sig = "pending" /\ BeginRestore("sigterm") /\ UNCHANGED sig

\* handle_set_focus: the tree moves, nothing is thawed, saved or moved out.
SetFocus(p) ==
    /\ pc = "idle"
    /\ focus' = p
    /\ MoveTreeToFocus(p, dirs)
    /\ UNCHANGED <<alive, parent, stopped, cgroups, locked, pc, handler, todo, tree, mode, frozen, st, wlocked, sig, file>>

\* handle_clear_focus releases the tree the focus pid has now.
ClearFocus ==
    /\ pc = "idle" /\ focus # NoPid
    /\ focus' = NoPid
    /\ Release(ProcessTree(focus))
    /\ UNCHANGED <<alive, parent, stopped, cgroups, locked, pc, handler, todo, tree, mode, frozen, st, wlocked, sig, file>>

Command ==
    \/ \E m \in Mode : SetMode(m)
    \/ \E quit \in BOOLEAN : EmergencyRestore(quit)
    \/ Shutdown
    \/ \E p \in Pids : SetFocus(p)
    \/ ClearFocus

------------------------------------------------------------------------
(* Undoing: restore_on_transition, restore_all, teardown_cgroups *)

\* thaw_pid on one pid of thaw_all's copy of the frozen set.
Thaw(p) ==
    /\ pc = "thaw" /\ p \in todo
    /\ stopped' = stopped \ {p}
    /\ frozen' = frozen \ {p}
    /\ todo' = Rest(p)
    /\ UNCHANGED <<table, cgroups, locked, pc, handler, tree, mode, focus, st, wlocked, sig, file>>

\* The rest of restore_on_transition, once nothing is left to thaw; on the
\* way to Normal the directories are torn down too.
Relax ==
    /\ pc = "thaw" /\ todo = {} /\ job = "mode"
    /\ SetLimits("Normal", dirs)
    /\ UnlockWorkspace
    /\ Goto(IF target = "Normal" THEN "reset" ELSE "apply")
    /\ UNCHANGED <<table, stopped, dirs, handler, todo, tree, memVars, sig, file>>

\* teardown_cgroups, called directly or by restore_all after its thaw_all:
\* weights reset, then focus/cgroup.procs is read,
ResetLimits ==
    /\ \/ pc = "reset"
       \/ pc = "thaw" /\ todo = {} /\ job # "mode"
    /\ SetLimits("Normal", dirs)
    /\ todo' = Members("focus")
    /\ Goto("drain")
    /\ UNCHANGED <<table, stopped, dirs, locked, handler, tree, memVars, sig, file>>

\* its pids are released and background/cgroup.procs is read,
DrainFocus ==
    /\ pc = "drain"
    /\ Release(todo)
    /\ todo' = Members("background")
    /\ Goto("remove")
    /\ UNCHANGED <<alive, parent, stopped, cgroups, locked, handler, tree, memVars, sig, file>>

\* those are released, and the directories left empty are removed.
DrainBackground ==
    /\ pc = "remove"
    /\ Release(todo)
    /\ RemoveEmptyDirs
    /\ todo' = {}
    /\ Goto(CASE job = "recover" -> "save_recovered"
              [] job = "mode"    -> "apply"
              [] OTHER           -> "unlock")
    /\ UNCHANGED <<alive, parent, stopped, limits, locked, handler, tree, memVars, sig, file>>

RestoreUnlock ==
    /\ pc = "unlock"
    /\ UnlockWorkspace
    /\ Goto("finish")
    /\ UNCHANGED <<kernelVars, handler, todo, tree, memVars, sig, file>>

\* handle_emergency_restore after restore_all,
FinishEmergency ==
    /\ pc = "finish" /\ job = "emergency"
    /\ Save(Fresh)
    /\ Goto("idle") /\ job' = "none"
    /\ mode' = "Normal" /\ focus' = NoPid /\ wlocked' = FALSE
    /\ UNCHANGED <<kernelVars, locked, target, todo, tree, frozen, sig>>

\* or, like shutdown() too, ending the process with the mutex still held.
FinishQuit ==
    /\ pc = "finish" /\ job = "quit"
    /\ file' = Fresh
    /\ Goto("down") /\ Forget
    /\ UNCHANGED <<kernelVars, locked>>

\* The signal task: shutdown() returns and the guard is dropped; the
\* mode, the focus pid and the workspace flag keep their values.
FinishSignalOnly ==
    /\ pc = "finish" /\ job = "sigterm"
    /\ Save(Fresh)
    /\ Goto("idle") /\ job' = "none"
    /\ sig' = "none"
    /\ UNCHANGED <<kernelVars, locked, target, todo, tree, mode, focus, frozen, wlocked>>
FinishSignal ==
    /\ pc = "finish" /\ job = "sigterm"
    /\ Save(Fresh)
    /\ Goto("idle") /\ job' = "none"
    /\ sig' = "exiting"
    /\ UNCHANGED <<kernelVars, locked, target, todo, tree, mode, focus, frozen, wlocked>>

\* Only then does it call exit(0), whatever another task is doing.
ExitNow ==
    /\ sig = "exiting"
    /\ Goto("down") /\ Forget
    /\ UNCHANGED <<kernelVars, locked, file>>

------------------------------------------------------------------------
(* Applying: the second half of handle_set_mode, and apply_mode *)

\* self.mode := mode; for Normal apply_mode returns at once. Otherwise the
\* directories, the limits and the focus tree.
Apply ==
    /\ pc = "apply"
    /\ mode' = target
    /\ st' = [st EXCEPT !.mode = target]
    /\ IF target = "Normal"
       THEN Goto("persist") /\ UNCHANGED <<cgroups, member>>
       ELSE /\ Goto("scan_tree")
            /\ EnsureCgroups
            /\ SetLimits(target, dirs')
            /\ IF focus = NoPid THEN UNCHANGED member
                                ELSE MoveTreeToFocus(focus, Managed)
    /\ UNCHANGED <<alive, parent, stopped, locked, handler, todo, tree, focus, frozen, wlocked, sig, file>>

\* populate_background takes the focus tree first, the pids second.
ScanTree ==
    /\ pc = "scan_tree"
    /\ tree' = FocusTree(focus)
    /\ Goto("scan_pids")
    /\ UNCHANGED <<kernelVars, locked, handler, todo, memVars, sig, file>>

ScanPids ==
    /\ pc = "scan_pids"
    /\ todo' = AllPids
    /\ Goto("populate")
    /\ UNCHANGED <<kernelVars, locked, handler, tree, memVars, sig, file>>

PopulateBackground(p) ==
    /\ pc = "populate" /\ p \in todo
    /\ Populate(p, tree)
    /\ todo' = Rest(p)
    /\ UNCHANGED <<alive, parent, stopped, cgroups, locked, pc, handler, tree, memVars, sig, file>>

Populated ==
    /\ pc = "populate" /\ todo = {}
    /\ tree' = {}
    /\ Goto("lock")
    /\ UNCHANGED <<kernelVars, locked, handler, todo, memVars, sig, file>>

LockThenFreeze ==
    /\ pc = "lock" /\ ShouldLock(mode) /\ ShouldFreeze(mode)
    /\ LockWorkspace
    /\ Goto("scan_all")
    /\ UNCHANGED <<kernelVars, handler, todo, tree, memVars, sig, file>>

\* The other branch: unlock, then thaw_all on what is left frozen.
UnlockThenThaw ==
    /\ pc = "lock" /\ ~ShouldLock(mode) /\ ~ShouldFreeze(mode)
    /\ UnlockWorkspace
    /\ stopped' = stopped \ frozen
    /\ frozen' = {}
    /\ Goto("persist")
    /\ UNCHANGED <<table, cgroups, handler, todo, tree, mode, focus, st, wlocked, sig, file>>

\* freeze_all_background takes the pids first, the focus tree second.
ScanAll ==
    /\ pc = "scan_all"
    /\ todo' = AllPids
    /\ Goto("scan_focus")
    /\ UNCHANGED <<kernelVars, locked, handler, tree, memVars, sig, file>>

\* In one step, which stands for get_process_tree's reads of one parent after the
\* other only where no process is a subreaper; TreeScan has them one by one.
ScanFocus ==
    /\ pc = "scan_focus"
    /\ tree' = FocusTree(focus)
    /\ Goto("freeze")
    /\ UNCHANGED <<kernelVars, locked, handler, todo, memVars, sig, file>>

\* freeze_pid on one pid of the scan: SIGSTOP, then the frozen set.
Freeze(p) ==
    /\ pc = "freeze" /\ p \in todo
    /\ todo' = Rest(p)
    /\ IF p \in tree \/ IsWhitelisted(p) \/ p \in frozen
       THEN UNCHANGED <<stopped, frozen>>
       ELSE stopped' = stopped \cup {p} /\ frozen' = frozen \cup {p}
    /\ UNCHANGED <<table, cgroups, locked, pc, handler, tree, mode, focus, st, wlocked, sig, file>>

FrozeAll ==
    /\ pc = "freeze" /\ todo = {}
    /\ tree' = {}
    /\ Goto("persist")
    /\ UNCHANGED <<kernelVars, locked, handler, todo, memVars, sig, file>>

\* The end of handle_set_mode: the outcome recorded, in memory and on disk.
Persist ==
    /\ pc = "persist"
    /\ wlocked' = ShouldLock(mode)
    /\ Save(Outcome)
    /\ Goto("idle") /\ job' = "none" /\ target' = "Normal"
    /\ UNCHANGED <<kernelVars, locked, todo, tree, mode, focus, frozen, sig>>

------------------------------------------------------------------------
(* The rest of the machine *)

\* SIGTERM or SIGINT is delivered; the task waits for the mutex.
Signal ==
    /\ MaySignal
    /\ pc \notin NotRunning \cup Recovering /\ job # "recover" /\ sig = "none"
    /\ sig' = "pending"
    /\ UNCHANGED <<kernelVars, locked, pc, handler, todo, tree, memVars, file>>

\* SIGKILL, the OOM killer, or an error of accept() that makes main return
\* it: the exit status is not 0 and systemd restarts the unit.
Crash ==
    /\ MayCrash /\ pc \notin NotRunning
    /\ Goto("failed") /\ Forget
    /\ UNCHANGED <<kernelVars, locked, file>>

\* Until run() has installed the handler, SIGTERM ends the process; to
\* systemd that is a clean exit.
KilledAtStartup ==
    /\ pc \in Recovering \/ job = "recover"
    /\ Goto("down") /\ Forget
    /\ UNCHANGED <<kernelVars, locked, file>>

\* Only the state file survives.
PowerLoss ==
    /\ MayCrash
    /\ KernelReset
    /\ locked' = FALSE
    /\ Goto("down") /\ Forget
    /\ UNCHANGED file

\* Pids are handed out in increasing order and wrap after millions: none
\* of a scan in progress is reused.
Machine ==
    /\ \/ \E p \in Pids \ (todo \cup tree), c \in LaunchIn : Launch(p, c)
       \/ \E p \in Pids, c \in Pids \ (todo \cup tree) : Fork(p, c)
       \/ \E p \in Pids : Exit(p)
    /\ UNCHANGED <<locked, daemonVars, file>>

------------------------------------------------------------------------

Init ==
    /\ KernelInit
    /\ locked = FALSE
    /\ pc = "down" /\ job = "none" /\ target = "Normal"
    /\ todo = {} /\ tree = {}
    /\ mode = "Normal" /\ focus = NoPid /\ frozen = {} /\ wlocked = FALSE
    /\ st = Fresh /\ file = Fresh
    /\ sig = "none"

Recovery ==
    \/ \E p \in Pids : ThawRecorded(p)
    \/ ThawedRecorded \/ UnlockRecorded \/ SaveRecovered \/ New

Handler ==
    \/ \E p \in Pids : Thaw(p) \/ PopulateBackground(p) \/ Freeze(p)
    \/ Relax \/ ResetLimits \/ DrainFocus \/ DrainBackground
    \/ RestoreUnlock \/ FinishEmergency \/ FinishQuit \/ FinishSignal
    \/ Apply \/ ScanTree \/ ScanPids \/ Populated \/ LockThenFreeze
    \/ UnlockThenThaw \/ ScanAll \/ ScanFocus \/ FrozeAll \/ Persist

Next ==
    \/ Start \/ Restart \/ Recovery
    \/ Command \/ TakeSignal \/ Handler \/ ExitNow
    \/ Signal \/ KilledAtStartup \/ Crash \/ PowerLoss \/ Machine

Spec == Init /\ [][Next]_vars

(* Fairness. The runtime keeps running the task that holds the mutex and
   exit(0) follows shutdown(); systemd restarts a failed unit after three
   seconds; tokio's mutex is FIFO, so the signal task, which commands may
   overtake while it is not yet queued, is served again and again until it
   is its turn. Nobody is obliged to send a command, and the environment is
   obliged to nothing. Crashes do not go on for ever: *)
FairSpec ==
    /\ Spec
    /\ WF_vars(Recovery \/ Handler)
    /\ WF_vars(Restart)
    /\ WF_vars(ExitNow)
    /\ SF_vars(TakeSignal)
    /\ <>[][~(Crash \/ PowerLoss)]_vars
=======================================================================
