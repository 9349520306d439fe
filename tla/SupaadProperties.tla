------------------------ MODULE SupaadProperties ------------------------
(* What makes supaad correct, and the inductive invariant its safety
   follows from. *)
EXTENDS Supaad

\* The frozen processes a recovery that starts now would thaw.
Recoverable == IF file.clean THEN {} ELSE file.frozen

\* Stopped processes nobody is going to continue: they are neither in the
\* memory of a running daemon nor in what the next one will read.
Known ==
    IF pc \in NotRunning THEN Recoverable
    ELSE IF pc = "thaw_recorded" THEN todo ELSE frozen
Stranded == stopped \ Known

\* Between the first SIGSTOP and the save that records it.
FreezeWindow == {"freeze", "persist"}

(* freezer.rs tracks what it froze "so we can always thaw on recovery": no
   step, crash, exit or recovery leaves a stopped process without a record,
   save the daemon's death between freezing and saving. *)
NoNewStranded ==
    [][Stranded' \subseteq Stranded \/ (pc \in FreezeWindow /\ pc' \in NotRunning)]_vars

(* mark_dirty before the first effect, mark_clean after the last restore:
   while the state file says clean, which makes the next startup skip
   recovery, no limit is in force and the daemon holds nothing frozen. *)
CleanFileMeansOff == file.clean => limits = "Normal" /\ frozen = {}

(* Between commands the file, the copy of it in memory and the daemon's
   fields agree, so that GetStatus tells the truth about the disk: dirty
   exactly outside Normal, frozen and locked only in Supaa++. After a
   signal's shutdown() the fields are stale. *)
DiskMirrorsMemory ==
    pc = "idle" /\ sig # "exiting" =>
        /\ file = st
        /\ st = [mode |-> mode, frozen |-> frozen, locked |-> ShouldLock(mode),
                 clean |-> mode = "Normal"]
        /\ wlocked = ShouldLock(mode)
        /\ frozen # {} => ShouldFreeze(mode)

(* The mode the daemon reports is the one in force, whatever sequence of
   transitions, restores and restarts led to it: the limits are its own and
   are in directories that exist (the P0.2 fix of daemon.rs). *)
ModeInForce ==
    pc = "idle" /\ sig # "exiting" =>
        /\ limits = mode
        /\ mode # "Normal" => dirs = Managed

\* Switching is locked between the lock and the save without a record.
LockWindow == {"scan_all", "scan_focus", "freeze", "persist"}
LockKnown ==
    IF pc \in NotRunning \cup {"thaw_recorded", "unlock_recorded"}
    THEN ~file.clean /\ file.locked
    ELSE wlocked \/ pc \in LockWindow
LockStranded == locked /\ ~LockKnown

(* With a compositor that obeys, no handler, exit or recovery forgets that
   switching is locked, save the daemon's death between lock and save. *)
NoNewStrandedLock ==
    [][CompositorObeys /\ LockStranded'
        => LockStranded \/ (pc \in LockWindow /\ pc' \in NotRunning)]_vars

(* A process of the focus tree as it is at the moment of the SIGSTOP is
   never stopped, though the tree was read before and processes have come,
   gone and been orphaned since (freeze_all_background scans pids first). Where a
   subreaper adopts orphans it is TreeScan that has the scan as the code makes it. *)
FocusSpared ==
    [][\A p \in stopped' \ stopped : focus # NoPid => p \notin ProcessTree(focus)]_vars

\* What a death of the daemon may cost, which no record covers.
DiesInWindow == pc \in LockWindow /\ pc' \in NotRunning

(* The promise of Normal mode, and of a daemon that has ended behind a clean
   file: the machine is as it was. It is kept by a daemon that never dies in its
   window. *)
GivenBack ==
    (pc = "idle" /\ mode = "Normal" /\ sig # "exiting") \/ (pc \in NotRunning /\ file.clean)
        => stopped = {} /\ limits = "Normal" /\ (CompositorObeys => ~locked)

(* Liveness: a process the file names is continued after a crash, unless
   the unit is stopped while it recovers, *)
RecordedAreThawed ==
    \A p \in Pids :
        pc = "failed" /\ p \in stopped \cap Recoverable ~> p \notin stopped \/ pc = "down"

(* a signalled daemon stops, however many commands are sent, *)
SignalStops == sig = "pending" ~> pc \in NotRunning

(* and every handler and every recovery comes to its end, though processes
   are started and end while it visits them. *)
HandlersEnd == job # "none" ~> job = "none"

(* The ranking behind that: no step of a handler or a recovery goes back, and one
   that stays where it is visits one pid less; nothing else moves them but
   the end of the process. *)
Rank(step) ==
    CASE step = "thaw_recorded" -> 1   [] step = "unlock_recorded" -> 2  [] step = "thaw" -> 3
      [] step = "reset" -> 4           [] step = "drain" -> 5            [] step = "remove" -> 6
      [] step = "save_recovered" -> 7  [] step = "new" -> 8              [] step = "unlock" -> 9
      [] step = "finish" -> 10         [] step = "apply" -> 11           [] step = "scan_tree" -> 12
      [] step = "scan_pids" -> 13      [] step = "populate" -> 14        [] step = "lock" -> 15
      [] step = "scan_all" -> 16       [] step = "scan_focus" -> 17      [] step = "freeze" -> 18
      [] step = "persist" -> 19        [] step = "idle" -> 20            [] OTHER -> 21
Forward == Rank(pc') > Rank(pc) \/ (pc' = pc /\ todo' \subseteq todo /\ todo' # todo)
HandlersAdvance ==
    [][/\ Recovery \/ Handler => Forward
       /\ job # "none" => Forward \/ UNCHANGED <<pc, todo>>]_vars

------------------------------------------------------------------------
(* The abstract specification the daemon implements *)

\* The limits and the frozen set are what it does to the machine, the state
\* file is the record. After a signal's shutdown() it is not ready any more.
Phase ==
    IF pc \in NotRunning THEN "off"
    ELSE IF pc \in Recovering \/ job = "recover" THEN "starting"
    ELSE IF pc = "idle" /\ sig # "exiting" THEN "ready"
    ELSE "working"
Journal == INSTANCE WriteAhead
              WITH Item <- Pids, Setting <- Mode, Off <- "Normal",
                   phase <- Phase, setting <- limits, held <- Known,
                   dirty <- ~file.clean, recorded <- Recoverable

(* Every handler marks the file before its first effect and records its
   outcome when it rests; recovery undoes what the file names before the
   first command; an exit without a restore, a crash or a power loss at any
   step leaves the next daemon knowing what the file names. *)
ImplementsWriteAhead == Journal!Spec

------------------------------------------------------------------------
(* The inductive invariant: what the daemon remembers, and what the file
   says, at each step. *)

\* Steps at which the frozen set is empty: everything was thawed and
\* nothing is frozen yet.
ThawedSteps == NotRunning \cup Recovering \cup
    {"reset", "drain", "remove", "unlock", "finish", "apply", "scan_tree",
     "scan_pids", "populate", "lock", "scan_all", "scan_focus"}

\* Steps of a command handler, from mark_dirty to the final save.
HandlerSteps == {"thaw", "unlock", "finish", "apply", "scan_tree", "scan_pids",
                 "populate", "lock", "scan_all", "scan_focus", "freeze", "persist"}
TeardownSteps == {"reset", "drain", "remove"}

\* Which handler is at which step.
JobInv ==
    /\ pc \in NotRunning \cup {"new", "idle"} => job = "none"
    /\ pc \in Recovering \ {"new"} => job = "recover"
    /\ pc \in HandlerSteps => job \notin {"none", "recover"}
    /\ pc \in TeardownSteps => job # "none"
    /\ pc \in {"unlock", "finish"} => job # "mode"
    /\ pc \in {"apply", "scan_tree", "scan_pids", "populate", "lock",
               "scan_all", "scan_focus", "freeze", "persist"} => job = "mode"
    /\ pc \in {"scan_all", "scan_focus", "freeze"} => mode = "SupaaPlus"
    /\ pc \in {"scan_tree", "scan_pids", "populate", "lock", "scan_all", "scan_focus",
               "freeze"} => mode # "Normal"

\* What a process that is not up yet holds.
ColdInv ==
    pc \in NotRunning \cup Recovering \/ job = "recover" =>
        mode = "Normal" /\ ~wlocked /\ st = Fresh /\ sig = "none"

FrozenInv ==
    /\ pc \in ThawedSteps => frozen = {}
    /\ pc = "thaw" => todo = frozen
    /\ pc \in {"idle", "persist"} /\ mode # "SupaaPlus" => frozen = {}
    /\ pc \notin FreezeWindow => frozen \subseteq Recoverable
    /\ pc = "thaw_recorded" => todo \subseteq Recoverable

FileInv ==
    /\ pc = "new" => file = Fresh
    /\ pc \in {"thaw_recorded", "unlock_recorded", "save_recovered"} => ~file.clean
    /\ job # "none" => ~file.clean
    /\ job \notin {"none", "recover"} => ~st.clean
    /\ file.clean => file = Fresh
    /\ pc = "idle" => file = st
    /\ pc = "idle" /\ sig # "exiting" => DiskMirrorsMemory

LimitsInv ==
    /\ limits # "Normal" => ~file.clean /\ dirs = Managed
    /\ pc \in {"drain", "remove", "unlock", "finish", "save_recovered", "new"}
        => limits = "Normal"
    /\ pc = "idle" /\ sig # "exiting" => ModeInForce
    /\ pc \in {"scan_tree", "scan_pids", "populate", "lock", "scan_all", "scan_focus",
               "freeze"} \/ (pc = "persist" /\ mode # "Normal")
        => limits = mode /\ dirs = Managed
    /\ pc = "apply" /\ target = "Normal" => limits = "Normal"
    /\ pc = "persist" /\ mode = "Normal" => limits = "Normal"

\* The lock, where the compositor obeys.
LockInv ==
    /\ pc \in {"thaw", "reset", "drain", "remove", "apply"} /\ job = "mode"
        => target # mode
    /\ CompositorObeys =>
        /\ pc = "finish" => ~locked
        /\ pc \in {"reset", "drain", "remove", "apply"} /\ job = "mode" /\ mode # "Normal"
            => ~locked
        /\ pc = "persist" /\ mode # "SupaaPlus" => ~locked
        /\ wlocked /\ locked /\ pc \notin LockWindow => ~file.clean /\ file.locked

\* A parent is alive, or pid 1; a free pid has no parent of its own.
TableInv ==
    \A q \in Pids : /\ parent[q] \in alive \cup {Systemd}
                    /\ q \notin alive => parent[q] = Systemd

\* What the freeze loop has yet to visit: a pid that is in the focus tree
\* now was in it when the loop read it, where pid 1 adopts every orphan.
ScanInv ==
    Reapers = {} /\ pc = "freeze" /\ focus # NoPid
        => ProcessTree(focus) \cap todo \subseteq tree

\* All of it that does not depend on what a scan of /proc returns, and the
\* whole.
CoreInv ==
    /\ TypeOK
    /\ TableInv
    /\ JobInv
    /\ ColdInv
    /\ FrozenInv
    /\ FileInv
    /\ LimitsInv
    /\ LockInv
IInv == CoreInv /\ ScanInv
=======================================================================
