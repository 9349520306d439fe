------------------------- MODULE SupaadProofs -------------------------
(* Proofs about the daemon, for every set of pids, every whitelist and
   both kinds of compositor. *)
EXTENDS SupaadProperties, TLAPS

------------------------------------------------------------------------
(* Lemmas about the building blocks *)

\* mark_dirty changes the clean flag of a record and nothing else.
LEMMA StateFacts ==
    ASSUME NEW s \in State
    PROVE  /\ [s EXCEPT !.clean = FALSE] \in State
           /\ [s EXCEPT !.clean = FALSE].clean = FALSE
           /\ [s EXCEPT !.clean = FALSE].frozen = s.frozen
           /\ [s EXCEPT !.clean = FALSE].mode = s.mode
           /\ [s EXCEPT !.clean = FALSE].locked = s.locked
  BY DEF State

\* mark_clean's record is a state file.
LEMMA FreshFacts == Fresh \in State
  BY DEF Fresh, State, Mode

\* Moving pids between cgroups leaves every pid in some cgroup.
LEMMA MovedType ==
    ASSUME member \in [Pids -> Cgroup], NEW S, NEW d \in Cgroup
    PROVE  Moved(S, d) \in [Pids -> Cgroup]
  BY DEF Moved

\* A process tree is a set of pids.
LEMMA TreeType == ASSUME NEW f PROVE FocusTree(f) \subseteq Pids
  BY DEF FocusTree, ProcessTree

\* Orphans are adopted by pid 1 or by a living reaper they descend from.
LEMMA ExitAdopts ==
    ASSUME KernelTypeOK, NEW p \in Pids, Exit(p)
    PROVE  \E a \in ((Reapers \cap alive) \ {p}) \cup {Systemd} :
               /\ a # Systemd => p \in Descendants(a)
               /\ parent' \in [Pids -> Pids \cup {Systemd}]
               /\ \A q \in Pids : parent'[q] = IF q = p THEN Systemd
                                               ELSE IF parent[q] = p THEN a ELSE parent[q]
<1>1. PICK a \in Adopters(p) :
        parent' = [q \in Pids |-> IF q = p THEN Systemd
                                  ELSE IF parent[q] = p THEN a ELSE parent[q]]
  BY DEF Exit
<1>2. a = Systemd \/ (a \in Reapers \cap alive /\ a # p /\ p \in Descendants(a))
  BY DEF Adopters
<1>3. parent' \in [Pids -> Pids \cup {Systemd}]
  BY <1>1, <1>2, KernelAssumption DEF KernelTypeOK
<1> QED BY <1>1, <1>2, <1>3

\* What a process that ended remembers is well typed.
LEMMA ForgetType ==
    ASSUME Forget
    PROVE  /\ job' \in Job /\ target' \in Mode /\ todo' \in SUBSET Pids
           /\ tree' \in SUBSET Pids /\ mode' \in Mode /\ focus' \in Pids \cup {NoPid}
           /\ frozen' \in SUBSET Pids /\ st' \in State /\ wlocked' \in BOOLEAN
           /\ sig' \in {"none", "pending", "exiting"}
  BY FreshFacts DEF Forget, Job, Mode

\* Whatever Hyprland answers, switching is locked or it is not.
LEMMA UnlockType == ASSUME locked \in BOOLEAN, UnlockWorkspace PROVE locked' \in BOOLEAN
  BY SupaadAssumption DEF UnlockWorkspace

------------------------------------------------------------------------
(* Type correctness *)

\* A machine that has just booted is well typed.
LEMMA InitType == Init => TypeOK
  <1> SUFFICES ASSUME Init PROVE TypeOK OBVIOUS
  <1>1. KernelTypeOK BY DEF Init, KernelInit, KernelTypeOK, Mode, Cgroup
  <1> QED BY <1>1, FreshFacts DEF Init, TypeOK, Mode, Step, Job

\* A step that leaves the kernel alone leaves it well typed.
LEMMA KernelKept == ASSUME KernelTypeOK, UNCHANGED kernelVars PROVE KernelTypeOK'
  BY DEF KernelTypeOK, kernelVars

\* Every step keeps every type: one case per action of Next.
LEMMA NextType == TypeOK /\ [Next]_vars => TypeOK'
<1> SUFFICES ASSUME TypeOK, [Next]_vars PROVE TypeOK'
  OBVIOUS
<1> USE DEF TypeOK, Goto, Save, Step, Job, handler, table, cgroups, memVars, daemonVars
<1>0. KernelTypeOK
  OBVIOUS
<1>1. ASSUME Start \/ Restart PROVE TypeOK'
  BY <1>0, <1>1, KernelKept DEF Start, Restart, Boot, RecordedPids, State
<1>2. ASSUME NEW p \in Pids, ThawRecorded(p) PROVE TypeOK'
  <2>1. KernelTypeOK' BY <1>0, <1>2 DEF ThawRecorded, KernelTypeOK
  <2> QED BY <1>2, <2>1 DEF ThawRecorded, Rest
<1>3. ASSUME ThawedRecorded PROVE TypeOK'
  BY <1>0, <1>3, KernelKept DEF ThawedRecorded
<1>4. ASSUME UnlockRecorded PROVE TypeOK'
  BY <1>0, <1>4, KernelKept, UnlockType DEF UnlockRecorded, UnlockIfRecorded
<1>5. ASSUME SaveRecovered PROVE TypeOK'
  <2>1. KernelTypeOK' BY <1>0, <1>5 DEF SaveRecovered, KernelTypeOK, EnsureCgroups
  <2> QED BY <1>5, <2>1, FreshFacts DEF SaveRecovered
<1>6. ASSUME New PROVE TypeOK'
  <2>1. KernelTypeOK' BY <1>0, <1>6 DEF New, KernelTypeOK, EnsureCgroups
  <2> QED BY <1>6, <2>1 DEF New
<1>7. ASSUME NEW m \in Mode, SetMode(m) PROVE TypeOK'
  <2>1. KernelTypeOK' BY <1>0, <1>7, KernelKept DEF SetMode
  <2>2. st' \in State /\ file' \in State BY <1>7, StateFacts DEF SetMode, MarkedDirty
  <2> QED BY <1>7, <2>1, <2>2 DEF SetMode
<1>8. ASSUME NEW j \in Job, BeginRestore(j), UNCHANGED sig PROVE TypeOK'
  <2>1. KernelTypeOK' BY <1>0, <1>8, KernelKept DEF BeginRestore
  <2>2. st' \in State /\ file' \in State BY <1>8, StateFacts DEF BeginRestore, MarkedDirty
  <2> QED BY <1>8, <2>1, <2>2 DEF BeginRestore
<1>9. ASSUME NEW p \in Pids, SetFocus(p) PROVE TypeOK'
  <2>1. member' \in [Pids -> Cgroup]
    BY <1>9, MovedType DEF SetFocus, MoveTreeToFocus, KernelTypeOK, Cgroup, Managed
  <2>2. KernelTypeOK' BY <1>0, <1>9, <2>1 DEF SetFocus, KernelTypeOK
  <2> QED BY <1>9, <2>2 DEF SetFocus
<1>10. ASSUME ClearFocus PROVE TypeOK'
  <2>1. member' \in [Pids -> Cgroup]
    BY <1>10, MovedType DEF ClearFocus, Release, KernelTypeOK, Cgroup
  <2>2. KernelTypeOK' BY <1>0, <1>10, <2>1 DEF ClearFocus, KernelTypeOK
  <2> QED BY <1>10, <2>2 DEF ClearFocus
<1>11. ASSUME NEW p \in Pids, Thaw(p) PROVE TypeOK'
  <2>1. KernelTypeOK' BY <1>0, <1>11 DEF Thaw, KernelTypeOK
  <2> QED BY <1>11, <2>1 DEF Thaw, Rest
<1>13. ASSUME Relax PROVE TypeOK'
  <2>1. KernelTypeOK' BY <1>0, <1>13 DEF Relax, KernelTypeOK, SetLimits, Mode
  <2> QED BY <1>13, <2>1, UnlockType DEF Relax
<1>14. ASSUME ResetLimits PROVE TypeOK'
  <2>1. KernelTypeOK' BY <1>0, <1>14 DEF ResetLimits, KernelTypeOK, SetLimits, Mode
  <2> QED BY <1>14, <2>1 DEF ResetLimits, Members, KernelTypeOK
<1>15. ASSUME DrainFocus PROVE TypeOK'
  <2>1. member' \in [Pids -> Cgroup]
    BY <1>15, MovedType DEF DrainFocus, Release, KernelTypeOK, Cgroup
  <2>2. KernelTypeOK' BY <1>0, <1>15, <2>1 DEF DrainFocus, KernelTypeOK
  <2> QED BY <1>15, <2>2 DEF DrainFocus, Members, KernelTypeOK
<1>16. ASSUME DrainBackground PROVE TypeOK'
  <2>1. member' \in [Pids -> Cgroup]
    BY <1>16, MovedType DEF DrainBackground, Release, KernelTypeOK, Cgroup
  <2>2. KernelTypeOK' BY <1>0, <1>16, <2>1 DEF DrainBackground, RemoveEmptyDirs, KernelTypeOK
  <2> QED BY <1>16, <2>2 DEF DrainBackground
<1>17. ASSUME RestoreUnlock PROVE TypeOK'
  BY <1>0, <1>17, KernelKept, UnlockType DEF RestoreUnlock
<1>18. ASSUME FinishEmergency PROVE TypeOK'
  BY <1>0, <1>18, KernelKept, ForgetType, FreshFacts DEF FinishEmergency, Mode
<1>19. ASSUME FinishQuit PROVE TypeOK'
  BY <1>0, <1>19, KernelKept, ForgetType, FreshFacts DEF FinishQuit
<1>20. ASSUME FinishSignal PROVE TypeOK'
  BY <1>0, <1>20, KernelKept, FreshFacts DEF FinishSignal
<1>21. ASSUME ExitNow PROVE TypeOK'
  BY <1>0, <1>21, KernelKept, ForgetType DEF ExitNow
<1>22. ASSUME Apply PROVE TypeOK'
  <2>1. member' \in [Pids -> Cgroup]
    BY <1>22, MovedType DEF Apply, MoveTreeToFocus, KernelTypeOK, Cgroup, Managed
  <2>2. KernelTypeOK'
    BY <1>0, <1>22, <2>1 DEF Apply, KernelTypeOK, SetLimits, EnsureCgroups
  <2>3. st' \in State BY <1>22 DEF Apply, State
  <2> QED BY <1>22, <2>2, <2>3 DEF Apply
<1>23. ASSUME ScanTree \/ ScanFocus PROVE TypeOK'
  BY <1>0, <1>23, KernelKept, TreeType DEF ScanTree, ScanFocus
<1>24. ASSUME ScanPids \/ ScanAll PROVE TypeOK'
  BY <1>0, <1>24, KernelKept DEF ScanPids, ScanAll, AllPids, KernelTypeOK
<1>25. ASSUME NEW p \in Pids, PopulateBackground(p) PROVE TypeOK'
  <2>1. member' \in [Pids -> Cgroup]
    BY <1>25, MovedType DEF PopulateBackground, Populate, KernelTypeOK, Cgroup, Managed
  <2>2. KernelTypeOK' BY <1>0, <1>25, <2>1 DEF PopulateBackground, KernelTypeOK
  <2> QED BY <1>25, <2>2 DEF PopulateBackground, Rest
<1>26. ASSUME Populated \/ FrozeAll PROVE TypeOK'
  BY <1>0, <1>26, KernelKept DEF Populated, FrozeAll
<1>27. ASSUME LockThenFreeze PROVE TypeOK'
  BY <1>0, <1>27, KernelKept, SupaadAssumption DEF LockThenFreeze, LockWorkspace
<1>28. ASSUME UnlockThenThaw PROVE TypeOK'
  <2>1. KernelTypeOK' BY <1>0, <1>28 DEF UnlockThenThaw, KernelTypeOK
  <2> QED BY <1>28, <2>1, UnlockType DEF UnlockThenThaw
<1>29. ASSUME NEW p \in Pids, Freeze(p) PROVE TypeOK'
  <2>1. KernelTypeOK' BY <1>0, <1>29 DEF Freeze, KernelTypeOK, IsWhitelisted
  <2> QED BY <1>29, <2>1 DEF Freeze, Rest
<1>30. ASSUME Persist PROVE TypeOK'
  <2>1. Outcome \in State BY DEF Outcome, State, ShouldLock
  <2> QED BY <1>0, <1>30, <2>1, KernelKept DEF Persist, ShouldLock, Mode
<1>31. ASSUME Signal PROVE TypeOK'
  BY <1>0, <1>31, KernelKept DEF Signal
<1>32. ASSUME Crash \/ KilledAtStartup PROVE TypeOK'
  BY <1>0, <1>32, KernelKept, ForgetType DEF Crash, KilledAtStartup
<1>33. ASSUME PowerLoss PROVE TypeOK'
  <2>1. KernelTypeOK' BY <1>33 DEF PowerLoss, KernelReset, KernelTypeOK, Mode, Cgroup
  <2> QED BY <1>33, <2>1, ForgetType DEF PowerLoss
<1>34. ASSUME Machine PROVE TypeOK'
  <2>1. ASSUME NEW p \in Pids, NEW c \in LaunchIn, Launch(p, c) PROVE KernelTypeOK'
    BY <2>1, <1>0, KernelAssumption DEF Launch, KernelTypeOK, Cgroup
  <2>2. ASSUME NEW p \in Pids, NEW c \in Pids, Fork(p, c) PROVE KernelTypeOK'
    BY <2>2, <1>0 DEF Fork, KernelTypeOK
  <2>3. ASSUME NEW p \in Pids, Exit(p) PROVE KernelTypeOK'
    BY <2>3, <1>0, ExitAdopts DEF Exit, KernelTypeOK, Cgroup
  <2>4. KernelTypeOK' BY <1>34, <2>1, <2>2, <2>3 DEF Machine
  <2> QED BY <1>34, <2>4 DEF Machine
<1>35. ASSUME UNCHANGED vars PROVE TypeOK'
  BY <1>0, <1>35, KernelKept DEF vars
<1>36. ASSUME \E quit \in BOOLEAN : EmergencyRestore(quit) PROVE TypeOK'
  BY <1>8, <1>36 DEF EmergencyRestore
<1>37. ASSUME Shutdown \/ TakeSignal PROVE TypeOK'
  BY <1>8, <1>37 DEF Shutdown, TakeSignal
<1> QED
  BY <1>1, <1>2, <1>3, <1>4, <1>5, <1>6, <1>7, <1>9, <1>10, <1>11, <1>13, <1>14,
     <1>15, <1>16, <1>17, <1>18, <1>19, <1>20, <1>21, <1>22, <1>23, <1>24, <1>25, <1>26,
     <1>27, <1>28, <1>29, <1>30, <1>31, <1>32, <1>33, <1>34, <1>35, <1>36, <1>37
  DEF Next, Recovery, Handler, Command

(* Type correctness: every variable of the daemon, the machine and the state
   file keeps its type, and only live processes are stopped (the fields of
   struct Daemon, daemon.rs, and PersistedState, state.rs). *)
THEOREM TypeCorrect == Spec => []TypeOK
  BY InitType, NextType, PTL DEF Spec

------------------------------------------------------------------------
(* Which steps touch what *)

\* The process table changes by the machine's own doing only.
LEMMA StepKeepsTable ==
    [Next]_vars => UNCHANGED <<alive, parent>> \/ PowerLoss \/ Machine
  BY DEF Next, Recovery, Handler, Command, vars, kernelVars, table, Start, Restart, Boot,
         ThawRecorded, ThawedRecorded, UnlockRecorded, SaveRecovered, New, SetMode,
         EmergencyRestore, Shutdown, TakeSignal, BeginRestore, SetFocus, ClearFocus, Thaw,
         Relax, ResetLimits, DrainFocus, DrainBackground, RestoreUnlock, FinishEmergency,
         FinishQuit, FinishSignal, ExitNow, Apply, ScanTree, ScanPids, PopulateBackground,
         Populated, LockThenFreeze, UnlockThenThaw, ScanAll, ScanFocus, Freeze, FrozeAll, Persist,
         Signal, Crash, KilledAtStartup

\* The freeze loop is entered from the scan of the focus tree.
LEMMA StepsToFreeze ==
    [Next]_vars /\ pc' = "freeze"
      => Machine \/ ScanFocus \/ (\E p \in Pids : Freeze(p)) \/ Signal \/ UNCHANGED vars
  BY DEF Next, Recovery, Handler, Command, Goto, Start, Restart, Boot,
         ThawRecorded, ThawedRecorded, UnlockRecorded, SaveRecovered, New, SetMode,
         EmergencyRestore, Shutdown, TakeSignal, BeginRestore, SetFocus, ClearFocus, Thaw,
         Relax, ResetLimits, DrainFocus, DrainBackground, RestoreUnlock, FinishEmergency,
         FinishQuit, FinishSignal, ExitNow, Apply, ScanTree, ScanPids, PopulateBackground,
         Populated, LockThenFreeze, UnlockThenThaw, ScanAll, FrozeAll, Persist, Crash, PowerLoss,
         KilledAtStartup

\* Only the freeze loop stops processes.
LEMMA OnlyFreezeStops ==
    [Next]_vars => stopped' \subseteq stopped \/ \E p \in Pids : Freeze(p)
  BY DEF Next, Recovery, Handler, Command, vars, kernelVars, table, Start, Restart, Boot,
         ThawRecorded, ThawedRecorded, UnlockRecorded, SaveRecovered, New, SetMode,
         EmergencyRestore, Shutdown, TakeSignal, BeginRestore, SetFocus, ClearFocus, Thaw,
         Relax, ResetLimits, DrainFocus, DrainBackground, RestoreUnlock, FinishEmergency,
         FinishQuit, FinishSignal, ExitNow, Apply, ScanTree, ScanPids, PopulateBackground,
         Populated, LockThenFreeze, UnlockThenThaw, ScanAll, ScanFocus, FrozeAll, Persist,
         Signal, Crash, KilledAtStartup, PowerLoss, KernelReset, Machine, Launch, Fork, Exit

------------------------------------------------------------------------
(* The process tree and the freeze loop *)

\* ProcessTree is the least closed set that holds the root.
LEMMA TreeLeast ==
    ASSUME NEW r \in Pids, NEW S \in SUBSET Pids, r \in S, IsClosed(S)
    PROVE  ProcessTree(r) \subseteq S
  BY DEF ProcessTree

\* The process tree holds its root and is closed under children.
LEMMA TreeClosed ==
    ASSUME NEW r \in Pids, TypeOK
    PROVE  /\ ProcessTree(r) \in SUBSET Pids
           /\ r \in ProcessTree(r)
           /\ IsClosed(ProcessTree(r))
  BY DEF ProcessTree, IsClosed, TypeOK, KernelTypeOK

\* The same after a step.
LEMMA TreeLeastNext ==
    ASSUME NEW r \in Pids, NEW S \in SUBSET Pids, r \in S,
           \A q \in alive' : parent'[q] \in S => q \in S
    PROVE  {q \in Pids : \A T \in SUBSET Pids :
                r \in T /\ (\A z \in alive' : parent'[z] \in T => z \in T) => q \in T}
              \subseteq S
  OBVIOUS

(* A dead process is nobody's parent: the process table, which changes
   only in Machine and in a power loss, keeps TableInv. *)
LEMMA NextTable == TypeOK /\ TableInv /\ [Next]_vars => TableInv'
<1> SUFFICES ASSUME TypeOK, TableInv, [Next]_vars PROVE TableInv'
  OBVIOUS
<1>1. CASE UNCHANGED <<alive, parent>>
  BY <1>1 DEF TableInv
<1>2. CASE PowerLoss
  BY <1>2 DEF PowerLoss, KernelReset, TableInv
<1>3. ASSUME NEW p \in Pids, NEW c \in LaunchIn, Launch(p, c) PROVE TableInv'
  BY <1>3 DEF Launch, TableInv
<1>4. ASSUME NEW p \in Pids, NEW c \in Pids, Fork(p, c) PROVE TableInv'
  BY <1>4 DEF Fork, TableInv, TypeOK, KernelTypeOK
<1>5. ASSUME NEW p \in Pids, Exit(p) PROVE TableInv'
  <2>1. PICK a \in (alive \ {p}) \cup {Systemd} :
          \A q \in Pids : parent'[q] = IF q = p THEN Systemd
                                       ELSE IF parent[q] = p THEN a ELSE parent[q]
    BY <1>5, ExitAdopts DEF TypeOK
  <2>2. alive' = alive \ {p}
    BY <1>5 DEF Exit
  <2> QED BY <2>1, <2>2, KernelAssumption DEF TableInv
<1>6. CASE Machine
  BY <1>3, <1>4, <1>5, <1>6 DEF Machine
<1> QED
  BY <1>1, <1>2, <1>6, StepKeepsTable

(* While the freeze loop runs, and where pid 1 adopts every orphan, a process can
   enter the focus tree only as a child of a member, with a pid the loop has not to
   visit: ScanInv holds. *)
LEMMA NextScan == TypeOK /\ TableInv /\ ScanInv /\ [Next]_vars => ScanInv'
<1> SUFFICES ASSUME TypeOK, TableInv, ScanInv, [Next]_vars,
                    Reapers = {}, pc' = "freeze", focus' # NoPid
             PROVE  (ProcessTree(focus) \cap todo)' \subseteq tree'
  BY DEF ScanInv
<1>1. CASE Machine
  <2>1. /\ pc = "freeze" /\ focus' = focus /\ todo' = todo /\ tree' = tree /\ focus \in Pids
    BY <1>1 DEF Machine, daemonVars, memVars, TypeOK
  <2>2. ProcessTree(focus) \cap todo \subseteq tree
    BY <2>1 DEF ScanInv
  <2> DEFINE T == ProcessTree(focus)
  <2>3. T \in SUBSET Pids /\ focus \in T /\ IsClosed(T)
    BY <2>1, TreeClosed
  <2> HIDE DEF T
  <2>4. ASSUME NEW S \in SUBSET Pids, T \subseteq S,
               \A q \in alive' : parent'[q] \in S => q \in S
        PROVE  ProcessTree(focus)' \subseteq S
    <3>1. {q \in Pids : \A Z \in SUBSET Pids :
              focus \in Z /\ (\A z \in alive' : parent'[z] \in Z => z \in Z) => q \in Z}
            \subseteq S
      BY <2>1, <2>3, <2>4, TreeLeastNext
    <3> QED BY <2>1, <3>1 DEF ProcessTree, IsClosed
  <2>5. ASSUME NEW p \in Pids, NEW c \in LaunchIn, Launch(p, c)
        PROVE  ProcessTree(focus)' \subseteq T
    <3>1. parent'[p] = Systemd /\ Systemd \notin T
      BY <2>3, <2>5, KernelAssumption DEF Launch, TableInv
    <3>2. \A q \in alive' : parent'[q] \in T => q \in T
      BY <2>3, <2>5, <3>1 DEF Launch, IsClosed
    <3> QED BY <2>3, <2>4, <3>2
  <2>6. ASSUME NEW p \in Pids, NEW c \in Pids, c \notin todo, Fork(p, c)
        PROVE  ProcessTree(focus)' \subseteq T \cup {c}
    <3>1. \A q \in Pids : parent[q] # c
      BY <2>6, KernelAssumption DEF Fork, TableInv
    <3>2. \A q \in alive' : parent'[q] \in T \cup {c} => q \in T \cup {c}
      BY <2>3, <2>6, <3>1 DEF Fork, IsClosed, TypeOK, KernelTypeOK
    <3> QED BY <2>3, <2>4, <3>2
  <2>7. ASSUME NEW p \in Pids, Exit(p)
        PROVE  ProcessTree(focus)' \subseteq T
    <3>1. \A q \in Pids : parent'[q] = IF q = p THEN Systemd
                                       ELSE IF parent[q] = p THEN Systemd ELSE parent[q]
      BY <2>7, ExitAdopts DEF TypeOK
    <3>2. \A q \in alive' : parent'[q] \in T => q \in T
      BY <2>3, <2>7, <3>1, KernelAssumption DEF Exit, IsClosed, TypeOK, KernelTypeOK
    <3> QED BY <2>3, <2>4, <3>2
  <2>8. ProcessTree(focus)' \cap todo \subseteq T
    BY <1>1, <2>5, <2>6, <2>7 DEF Machine
  <2> QED BY <2>1, <2>2, <2>8 DEF T
<1>2. CASE ScanFocus
  <2>1. UNCHANGED <<alive, parent, focus>> /\ tree' = FocusTree(focus)
    BY <1>2 DEF ScanFocus, kernelVars, memVars
  <2>2. ProcessTree(focus)' = ProcessTree(focus)
    BY <2>1 DEF ProcessTree, IsClosed
  <2> QED BY <2>1, <2>2 DEF FocusTree
<1>3. CASE \E p \in Pids : Freeze(p)
  <2>1. UNCHANGED <<alive, parent, focus, tree>> /\ todo' \subseteq todo /\ pc = "freeze"
    BY <1>3 DEF Freeze, Rest, table
  <2>2. ProcessTree(focus)' = ProcessTree(focus)
    BY <2>1 DEF ProcessTree, IsClosed
  <2> QED BY <2>1, <2>2 DEF ScanInv
<1>4. CASE Signal \/ UNCHANGED vars
  BY <1>4 DEF Signal, vars, daemonVars, memVars, kernelVars, handler, ScanInv, ProcessTree, IsClosed
<1> QED
  BY <1>1, <1>2, <1>3, <1>4, StepsToFreeze

------------------------------------------------------------------------
(* The inductive invariant *)

\* The inductive invariant holds at boot,
LEMMA InitCore == Init => CoreInv
<1> SUFFICES ASSUME Init PROVE CoreInv OBVIOUS
<1>1. TypeOK /\ TableInv BY InitType DEF Init, KernelInit, TableInv
<1>2. JobInv /\ ColdInv
  BY DEF Init, JobInv, ColdInv, NotRunning, Recovering, HandlerSteps, TeardownSteps, Fresh
<1>3. FrozenInv /\ FileInv
  BY DEF Init, FrozenInv, FileInv, Recoverable, Fresh, FreezeWindow
<1>4. LimitsInv /\ LockInv
  BY DEF Init, KernelInit, LimitsInv, LockInv, TeardownSteps
<1> QED BY <1>1, <1>2, <1>3, <1>4 DEF CoreInv

\* and every step keeps it: one case per action, one fact per conjunct.
LEMMA NextCore == CoreInv /\ [Next]_vars => CoreInv'
<1> SUFFICES ASSUME CoreInv, [Next]_vars PROVE CoreInv'
  OBVIOUS
<1>t. TypeOK /\ TypeOK' /\ TableInv'
  BY NextType, NextTable DEF CoreInv
<1> USE DEF CoreInv, JobInv, ColdInv, FrozenInv, FileInv, LimitsInv, LockInv, Recoverable,
            DiskMirrorsMemory, ModeInForce, NotRunning, Recovering, ThawedSteps, HandlerSteps,
            TeardownSteps, FreezeWindow, LockWindow, Goto, handler, table,
            cgroups, memVars, daemonVars, kernelVars, ShouldLock, ShouldFreeze
<1>1. ASSUME Start \/ Restart PROVE CoreInv'
  BY <1>t, <1>1 DEF Start, Restart, Boot, RecordedPids
<1>2. ASSUME NEW p \in Pids, ThawRecorded(p) PROVE CoreInv'
  BY <1>t, <1>2 DEF ThawRecorded, Rest
<1>3. ASSUME ThawedRecorded PROVE CoreInv'
  BY <1>t, <1>3 DEF ThawedRecorded
<1>4. ASSUME UnlockRecorded PROVE CoreInv'
  BY <1>t, <1>4 DEF UnlockRecorded, UnlockIfRecorded, UnlockWorkspace
<1>5. ASSUME SaveRecovered PROVE CoreInv'
  BY <1>t, <1>5 DEF SaveRecovered, EnsureCgroups, Fresh
<1>6. ASSUME New PROVE CoreInv'
  <2>0. /\ mode = "Normal" /\ frozen = {} /\ wlocked = FALSE /\ st = Fresh /\ file = Fresh
        /\ pc' = "idle" /\ job = "none" /\ UNCHANGED <<memVars, file, job>>
    BY <1>t, <1>6 DEF New, TypeOK
  <2>1a. DiskMirrorsMemory' BY <2>0 DEF Fresh
  <2>1. FileInv' /\ DiskMirrorsMemory' BY <2>0, <2>1a DEF Fresh
  <2>2. JobInv' /\ ColdInv' /\ FrozenInv' BY <1>6, <2>1 DEF New, Fresh
  <2>3. LimitsInv' /\ LockInv' BY <1>6 DEF New, EnsureCgroups, Fresh
  <2> QED BY <1>t, <2>1, <2>2, <2>3
<1>7. ASSUME NEW m \in Mode, SetMode(m) PROVE CoreInv'
  BY <1>t, <1>7, StateFacts DEF SetMode, MarkedDirty, Save, TypeOK, Fresh
<1>8. ASSUME NEW j \in Job \ {"none", "recover", "mode"}, BeginRestore(j), UNCHANGED sig PROVE CoreInv'
  BY <1>t, <1>8, StateFacts DEF BeginRestore, MarkedDirty, Save, TypeOK, Fresh, Job
<1>9. ASSUME NEW p \in Pids, SetFocus(p) PROVE CoreInv'
  BY <1>t, <1>9 DEF SetFocus
<1>10. ASSUME ClearFocus PROVE CoreInv'
  BY <1>t, <1>10 DEF ClearFocus
<1>11. ASSUME NEW p \in Pids, Thaw(p) PROVE CoreInv'
  BY <1>t, <1>11 DEF Thaw, Rest
<1>13. ASSUME Relax PROVE CoreInv'
  BY <1>t, <1>13 DEF Relax, SetLimits, UnlockWorkspace
<1>14. ASSUME ResetLimits PROVE CoreInv'
  BY <1>t, <1>14 DEF ResetLimits, SetLimits
<1>15. ASSUME DrainFocus PROVE CoreInv'
  BY <1>t, <1>15 DEF DrainFocus
<1>16. ASSUME DrainBackground PROVE CoreInv'
  BY <1>t, <1>16 DEF DrainBackground
<1>17. ASSUME RestoreUnlock PROVE CoreInv'
  BY <1>t, <1>17 DEF RestoreUnlock, UnlockWorkspace
<1>18. ASSUME FinishEmergency PROVE CoreInv'
  <2>1. /\ st' = Fresh /\ file' = Fresh /\ pc' = "idle" /\ job' = "none"
        /\ mode' = "Normal" /\ wlocked' = FALSE /\ frozen' = {} /\ limits' = "Normal"
    BY <1>18 DEF FinishEmergency, Save
  <2>2. FileInv' BY <2>1 DEF Fresh
  <2>3. JobInv' /\ ColdInv' /\ FrozenInv' BY <1>18, <2>1 DEF FinishEmergency
  <2>4. LimitsInv' /\ LockInv' BY <1>18, <2>1 DEF FinishEmergency
  <2> QED BY <1>t, <2>2, <2>3, <2>4
<1>19. ASSUME FinishQuit PROVE CoreInv'
  BY <1>t, <1>19 DEF FinishQuit, Forget, Fresh
<1>20. ASSUME FinishSignal PROVE CoreInv'
  BY <1>t, <1>20 DEF FinishSignal, Save, Fresh
<1>21. ASSUME ExitNow PROVE CoreInv'
  BY <1>t, <1>21 DEF ExitNow, Forget
<1>22. ASSUME Apply PROVE CoreInv'
  <2>1. JobInv' /\ ColdInv' /\ FrozenInv' BY <1>t, <1>22 DEF Apply, TypeOK, Mode
  <2>2. FileInv' BY <1>22 DEF Apply, TypeOK, State
  <2>3. LimitsInv' BY <1>22 DEF Apply, SetLimits, EnsureCgroups
  <2>4. LockInv' BY <1>22 DEF Apply
  <2> QED BY <1>t, <2>1, <2>2, <2>3, <2>4
<1>23. ASSUME ScanTree \/ ScanFocus PROVE CoreInv'
  BY <1>t, <1>23 DEF ScanTree, ScanFocus
<1>24. ASSUME ScanPids \/ ScanAll PROVE CoreInv'
  BY <1>t, <1>24 DEF ScanPids, ScanAll
<1>25. ASSUME NEW p \in Pids, PopulateBackground(p) PROVE CoreInv'
  BY <1>t, <1>25 DEF PopulateBackground
<1>26. ASSUME Populated \/ FrozeAll PROVE CoreInv'
  BY <1>t, <1>26 DEF Populated, FrozeAll
<1>27. ASSUME LockThenFreeze PROVE CoreInv'
  BY <1>t, <1>27 DEF LockThenFreeze
<1>28. ASSUME UnlockThenThaw PROVE CoreInv'
  BY <1>t, <1>28 DEF UnlockThenThaw, UnlockWorkspace
<1>29. ASSUME NEW p \in Pids, Freeze(p) PROVE CoreInv'
  BY <1>t, <1>29 DEF Freeze, Rest
<1>30. ASSUME Persist PROVE CoreInv'
  <2>1. /\ st' = Outcome /\ file' = Outcome /\ pc' = "idle" /\ job' = "none"
        /\ ~st.clean /\ wlocked' = (mode = "SupaaPlus")
    BY <1>30 DEF Persist, Save
  <2>2. mode = "Normal" => Outcome = Fresh
    BY <1>30 DEF Persist, Outcome, Fresh
  <2>3. Outcome.clean = (mode = "Normal") /\ Outcome.frozen = frozen
        /\ Outcome.locked = (mode = "SupaaPlus")
    BY <1>t, <2>1 DEF Outcome, TypeOK, State
  <2>4. DiskMirrorsMemory'
    <3>1. Outcome = [mode |-> mode, frozen |-> frozen, locked |-> ShouldLock(mode),
                     clean |-> mode = "Normal"]
      BY <1>t, <2>1 DEF Outcome, TypeOK, State
    <3>2. frozen # {} => mode = "SupaaPlus"
      BY <1>30 DEF Persist
    <3> QED BY <1>30, <2>1, <3>1, <3>2 DEF Persist
  <2>5. FileInv' BY <2>1, <2>2, <2>3, <2>4
  <2>6. JobInv' /\ ColdInv' BY <1>30 DEF Persist
  <2>7. FrozenInv' BY <1>30, <2>1, <2>2, <2>3 DEF Persist
  <2>8. LimitsInv' BY <1>30, <2>1, <2>3 DEF Persist
  <2>9. LockInv' BY <1>30, <2>1, <2>3 DEF Persist
  <2> QED BY <1>t, <2>5, <2>6, <2>7, <2>8, <2>9
<1>31. ASSUME Signal PROVE CoreInv'
  BY <1>t, <1>31 DEF Signal
<1>32. ASSUME Crash \/ KilledAtStartup PROVE CoreInv'
  BY <1>t, <1>32 DEF Crash, KilledAtStartup, Forget
<1>33. ASSUME PowerLoss PROVE CoreInv'
  BY <1>t, <1>33 DEF PowerLoss, KernelReset, Forget
<1>34. ASSUME Machine PROVE CoreInv'
  BY <1>t, <1>34 DEF Machine, Launch, Fork, Exit
<1>35. ASSUME UNCHANGED vars PROVE CoreInv'
  BY <1>t, <1>35 DEF vars
<1>36. ASSUME \E quit \in BOOLEAN : EmergencyRestore(quit) PROVE CoreInv'
  BY <1>8, <1>36 DEF EmergencyRestore, Job
<1>37. ASSUME Shutdown \/ TakeSignal PROVE CoreInv'
  BY <1>8, <1>37 DEF Shutdown, TakeSignal, Job
<1> QED
  BY <1>1, <1>2, <1>3, <1>4, <1>5, <1>6, <1>7, <1>9, <1>10, <1>11, <1>13, <1>14,
     <1>15, <1>16, <1>17, <1>18, <1>19, <1>20, <1>21, <1>22, <1>23, <1>24, <1>25, <1>26,
     <1>27, <1>28, <1>29, <1>30, <1>31, <1>32, <1>33, <1>34, <1>35, <1>36, <1>37
  DEF Next, Recovery, Handler, Command

(* The inductive invariant of the daemon: at each step of a handler or of a
   recovery (daemon.rs, policy.rs, recovery.rs), what the daemon remembers,
   what the file says, and which limits and lock are in force. *)
THEOREM Invariance == Spec => []IInv
<1>1. Init => IInv
  BY InitCore DEF IInv, Init, ScanInv
<1>2. IInv /\ [Next]_vars => IInv'
  BY NextCore, NextScan DEF IInv, CoreInv
<1> QED BY <1>1, <1>2, PTL DEF Spec

\* What most of the theorems need of it.
LEMMA CoreInvariance == Spec => []CoreInv
<1>1. IInv => CoreInv
  BY DEF IInv
<1> QED BY <1>1, Invariance, PTL

------------------------------------------------------------------------
(* The safety properties *)

(* A state file that says clean, and so lets the next startup skip
   run_recovery (recovery.rs), is only ever on disk while no limit is in
   force and the daemon holds nothing frozen. *)
THEOREM CleanFile == Spec => []CleanFileMeansOff
<1>1. CoreInv => CleanFileMeansOff
  BY DEF CoreInv, TypeOK, Step, JobInv, FrozenInv, FileInv, LimitsInv, CleanFileMeansOff,
         Recoverable, NotRunning, Recovering, ThawedSteps, HandlerSteps, FreezeWindow
<1> QED BY <1>1, CoreInvariance, PTL

(* Between commands, GetStatus, the daemon's fields and the state file agree
   (handle_set_mode and handle_emergency_restore, daemon.rs). *)
THEOREM DiskMirrors == Spec => []DiskMirrorsMemory
<1>1. CoreInv => DiskMirrorsMemory
  BY DEF CoreInv, FileInv, DiskMirrorsMemory
<1> QED BY <1>1, CoreInvariance, PTL

(* Between commands the limits in force are those of the reported mode, in
   directories that exist (apply_mode and ensure_cgroups). *)
THEOREM ModeHolds == Spec => []ModeInForce
<1>1. CoreInv => ModeInForce
  BY DEF CoreInv, LimitsInv, ModeInForce
<1> QED BY <1>1, CoreInvariance, PTL

\* The daemon dies: what is known then is what the file names.
LEMMA DeathStrands ==
    ASSUME CoreInv, pc \notin NotRunning, pc' \in NotRunning, pc \notin FreezeWindow,
           file' = file, stopped' \subseteq stopped
    PROVE  Stranded' \subseteq Stranded
  BY DEF CoreInv, FrozenInv, Stranded, Known, Recoverable, FreezeWindow

\* No step strands a process but the daemon's death in its window.
LEMMA StepStrands ==
    ASSUME CoreInv, [Next]_vars
    PROVE  Stranded' \subseteq Stranded \/ (pc \in FreezeWindow /\ pc' \in NotRunning)
<1> USE DEF Stranded, Known, Recoverable, NotRunning, Goto, handler, table, cgroups, memVars,
            daemonVars, kernelVars
<1>1. CASE Start \/ Restart
  BY <1>1 DEF Start, Restart, Boot, RecordedPids, CoreInv, FrozenInv, ThawedSteps
<1>2. CASE Recovery
  <2>1. CASE \E p \in Pids : ThawRecorded(p)
    BY <2>1 DEF ThawRecorded, Rest
  <2>2. CASE ThawedRecorded \/ UnlockRecorded \/ SaveRecovered \/ New
    BY <2>2 DEF ThawedRecorded, UnlockRecorded, SaveRecovered, New, CoreInv, FrozenInv,
                      ThawedSteps, Recovering
  <2> QED BY <1>2, <2>1, <2>2 DEF Recovery
<1>3. CASE Command \/ TakeSignal
  BY <1>3 DEF Command, TakeSignal, SetMode, EmergencyRestore, Shutdown, BeginRestore,
              SetFocus, ClearFocus
<1>4. CASE Handler
  <2>1. CASE \E p \in Pids : Thaw(p) \/ PopulateBackground(p) \/ Freeze(p)
    BY <2>1 DEF Thaw, PopulateBackground, Freeze, Rest
  <2>2. CASE Relax \/ ResetLimits \/ DrainFocus
    BY <2>2 DEF Relax, ResetLimits, DrainFocus
  <2>3. CASE DrainBackground
    BY <2>3 DEF DrainBackground, CoreInv, FrozenInv, ThawedSteps
  <2>4. CASE FinishEmergency \/ FinishQuit \/ FinishSignal \/ RestoreUnlock
    BY <2>4 DEF FinishEmergency, FinishQuit, FinishSignal, RestoreUnlock, Save, Forget,
                      Fresh, CoreInv, FrozenInv, ThawedSteps
  <2>5. CASE Apply \/ ScanTree \/ ScanPids \/ Populated \/ LockThenFreeze \/ UnlockThenThaw
    BY <2>5 DEF Apply, ScanTree, ScanPids, Populated, LockThenFreeze, UnlockThenThaw
  <2>6. CASE ScanAll \/ ScanFocus \/ FrozeAll \/ Persist
    BY <2>6 DEF ScanAll, ScanFocus, FrozeAll, Persist
  <2> QED BY <1>4, <2>1, <2>2, <2>3, <2>4, <2>5, <2>6 DEF Handler
<1>5. CASE ExitNow
  <2>1. pc \notin NotRunning
    BY <1>5 DEF ExitNow, CoreInv, ColdInv
  <2> QED BY <1>5, <2>1, DeathStrands DEF ExitNow
<1>6. CASE Crash
  BY <1>6, DeathStrands DEF Crash
<1>9. CASE KilledAtStartup
  <2>1. pc \notin NotRunning /\ pc \notin FreezeWindow
    BY <1>9 DEF KilledAtStartup, CoreInv, JobInv, Recovering, FreezeWindow
  <2> QED BY <1>9, <2>1, DeathStrands DEF KilledAtStartup
<1>7. CASE PowerLoss
  BY <1>7 DEF PowerLoss, KernelReset
<1>8. CASE Signal \/ Machine \/ UNCHANGED vars
  BY <1>8 DEF Signal, Machine, Launch, Fork, Exit, vars
<1> QED BY <1>1, <1>2, <1>3, <1>4, <1>5, <1>6, <1>7, <1>8, <1>9 DEF Next

(* No process is left stopped without anyone who would continue it, unless
   the daemon dies between freezing and saving: the mark_dirty, thaw,
   restore, finish, exit and recovery paths of the daemon all keep the
   frozen set on disk at least as large as it is in memory. *)
THEOREM NothingStranded == Spec => NoNewStranded
<1>1. CoreInv /\ [Next]_vars
        => [Stranded' \subseteq Stranded \/ (pc \in FreezeWindow /\ pc' \in NotRunning)]_vars
  BY StepStrands
<1> QED BY <1>1, CoreInvariance, PTL DEF Spec, NoNewStranded

\* Nor the workspace lock, where the compositor obeys.
LEMMA StepStrandsLock ==
    ASSUME CoreInv, [Next]_vars, CompositorObeys, LockStranded'
    PROVE  LockStranded \/ (pc \in LockWindow /\ pc' \in NotRunning)
<1>t. locked \in BOOLEAN /\ locked' \in BOOLEAN /\ wlocked \in BOOLEAN /\ wlocked' \in BOOLEAN
  BY NextType DEF CoreInv, TypeOK
<1> USE <1>t DEF LockStranded, LockKnown, LockWindow, NotRunning, Goto, handler,
            table, cgroups, memVars, daemonVars, kernelVars, CoreInv, LockInv
<1>1. CASE Start \/ Restart
  BY <1>1 DEF Start, Restart, Boot, ColdInv
<1>2. CASE Recovery
  BY <1>2 DEF Recovery, ThawRecorded, ThawedRecorded, UnlockRecorded, UnlockIfRecorded,
              UnlockWorkspace, SaveRecovered, New, ColdInv, Recovering, FileInv
<1>3. CASE Command \/ TakeSignal
  BY <1>3 DEF Command, TakeSignal, SetMode, EmergencyRestore, Shutdown, BeginRestore,
              SetFocus, ClearFocus
<1>4. CASE Handler
  <2>1. CASE \E p \in Pids : Thaw(p) \/ PopulateBackground(p) \/ Freeze(p)
    <3>1. UNCHANGED <<locked, wlocked, pc, file>>
      BY <2>1 DEF Thaw, PopulateBackground, Freeze
    <3> QED BY <3>1
  <2>2. CASE Relax \/ ResetLimits \/ DrainFocus
    BY <2>2 DEF Relax, UnlockWorkspace, ResetLimits, DrainFocus
  <2>3. CASE DrainBackground
    BY <2>3 DEF DrainBackground, ColdInv
  <2>4. CASE FinishEmergency \/ FinishQuit \/ FinishSignal \/ RestoreUnlock
    BY <2>4 DEF FinishEmergency, FinishQuit, FinishSignal, RestoreUnlock, Save, Forget,
                UnlockWorkspace
  <2>5. CASE Apply \/ ScanTree \/ ScanPids \/ Populated \/ LockThenFreeze \/ UnlockThenThaw
    BY <2>5 DEF Apply, ScanTree, ScanPids, Populated, LockThenFreeze, UnlockThenThaw,
                UnlockWorkspace
  <2>6. CASE ScanAll \/ ScanFocus \/ FrozeAll
    BY <2>6 DEF ScanAll, ScanFocus, FrozeAll
  <2>7. CASE Persist
    BY <2>7 DEF Persist, ShouldLock
  <2> QED BY <1>4, <2>1, <2>2, <2>3, <2>4, <2>5, <2>6, <2>7 DEF Handler
<1>5. CASE ExitNow \/ Crash \/ KilledAtStartup
  BY <1>5 DEF ExitNow, Crash, KilledAtStartup, ColdInv, Recovering
<1>6. CASE PowerLoss
  BY <1>6 DEF PowerLoss
<1>7. CASE Signal \/ Machine \/ UNCHANGED vars
  BY <1>7 DEF Signal, Machine, Launch, Fork, Exit, vars
<1> QED BY <1>1, <1>2, <1>3, <1>4, <1>5, <1>6, <1>7 DEF Next

(* The same of the workspace lock, where Hyprland obeys: unlock happens on
   every path that forgets the lock, and a death outside the window leaves
   it in the file for recovery to undo. *)
THEOREM NoLockStranded == Spec => NoNewStrandedLock
<1>1. CoreInv /\ [Next]_vars
        => [CompositorObeys /\ LockStranded'
              => LockStranded \/ (pc \in LockWindow /\ pc' \in NotRunning)]_vars
  BY StepStrandsLock
<1> QED BY <1>1, CoreInvariance, PTL DEF Spec, NoNewStrandedLock

(* freeze_all_background reads the pids first and the focus tree second: on a machine
   without subreapers, where a scan of /proc in one step stands for the code's reads of
   one file after the other, whatever is launched, forked, orphaned or ended between
   the two scans and each SIGSTOP, no process is stopped that belongs to the focus tree
   when the signal reaches it. For a scan that takes time, and a machine with
   subreapers, see ScanSparesFocus. *)
THEOREM FocusIsSpared ==
    ASSUME Reapers = {}
    PROVE  Spec => FocusSpared
<1>1. ASSUME IInv, [Next]_vars, NEW p \in stopped' \ stopped, focus # NoPid
      PROVE  p \notin ProcessTree(focus)
  <2>1. PICK q \in Pids : Freeze(q)
    BY <1>1, OnlyFreezeStops
  <2>2. p = q /\ q \in todo /\ q \notin tree /\ pc = "freeze"
    BY <1>1, <2>1 DEF Freeze
  <2> QED BY <1>1, <2>2 DEF IInv, ScanInv
<1>2. IInv /\ [Next]_vars
        => [\A p \in stopped' \ stopped : focus # NoPid => p \notin ProcessTree(focus)]_vars
  BY <1>1
<1> QED BY <1>2, Invariance, PTL DEF Spec, FocusSpared

(* From NoNewStranded and NoNewStrandedLock, for whole behaviours: as long
   as the daemon does not die in its window, every stopped process and a locked
   compositor are known to it or to its file. *)
THEOREM NothingForgotten ==
    Spec /\ [][~DiesInWindow]_vars => [](Stranded = {} /\ (CompositorObeys => ~LockStranded))
<1> DEFINE Safe == Stranded = {} /\ (CompositorObeys => ~LockStranded)
<1>1. Init => Safe
  BY DEF Init, KernelInit, Stranded, LockStranded
<1>2. Safe /\ [Stranded' \subseteq Stranded \/ (pc \in FreezeWindow /\ pc' \in NotRunning)]_vars
        /\ [CompositorObeys /\ LockStranded'
              => LockStranded \/ (pc \in LockWindow /\ pc' \in NotRunning)]_vars
        /\ [~DiesInWindow]_vars
        => Safe'
  <2>1. UNCHANGED vars => Stranded' = Stranded /\ LockStranded' = LockStranded
    BY DEF vars, daemonVars, memVars, kernelVars, Stranded, LockStranded, Known, LockKnown,
           Recoverable
  <2>2. FreezeWindow \subseteq LockWindow
    BY DEF FreezeWindow, LockWindow
  <2> QED BY <2>1, <2>2 DEF DiesInWindow
<1>3. Spec => NoNewStranded /\ NoNewStrandedLock
  BY NothingStranded, NoLockStranded
<1> HIDE DEF Safe
<1>4. Spec /\ [][~DiesInWindow]_vars => []Safe
  BY <1>1, <1>2, <1>3, PTL DEF Spec, NoNewStranded, NoNewStrandedLock
<1> QED BY <1>4 DEF Safe

(* Normal mode gives the machine back (handle_set_mode, handle_emergency_restore),
   and so does every end of the daemon that leaves a clean file: a daemon that
   never dies between locking and saving leaves nothing stopped, limited or locked,
   whatever it, the machine and the service manager did before. *)
THEOREM NormalGivesBack == Spec /\ [][~DiesInWindow]_vars => []GivenBack
<1>1. ASSUME CoreInv, Stranded = {}, CompositorObeys => ~LockStranded
      PROVE  GivenBack
  <2> SUFFICES ASSUME \/ pc = "idle" /\ mode = "Normal" /\ sig # "exiting"
                      \/ pc \in NotRunning /\ file.clean
               PROVE  stopped = {} /\ limits = "Normal" /\ (CompositorObeys => ~locked)
    BY DEF GivenBack
  <2>1. CASE pc = "idle" /\ mode = "Normal" /\ sig # "exiting"
    <3>1. pc \notin NotRunning /\ frozen = {} /\ ~wlocked /\ limits = "Normal"
      BY <1>1, <2>1 DEF CoreInv, FrozenInv, FileInv, LimitsInv, DiskMirrorsMemory, ModeInForce,
                        NotRunning, ShouldLock
    <3> QED BY <1>1, <2>1, <3>1 DEF Stranded, Known, LockStranded, LockKnown, LockWindow
  <2>2. CASE pc \in NotRunning /\ file.clean
    BY <1>1, <2>2 DEF CoreInv, LimitsInv, Stranded, Known, Recoverable, LockStranded, LockKnown
  <2> QED BY <2>1, <2>2
<1>2. CoreInv /\ Stranded = {} /\ (CompositorObeys => ~LockStranded) => GivenBack
  BY <1>1
<1> QED BY <1>2, CoreInvariance, NothingForgotten, PTL

------------------------------------------------------------------------
(* Progress *)

\* What is no step of the handler or recovery that runs does not move it.
LEMMA OthersHold ==
    ASSUME CoreInv, [Next]_vars, job # "none", ~(Recovery \/ Handler)
    PROVE  Forward \/ UNCHANGED <<pc, todo>>
<1>0. pc \notin NotRunning \cup {"idle", "new"} /\ pc \in Step
  BY DEF CoreInv, JobInv, TypeOK
<1>1. pc' \in NotRunning => Forward
  BY <1>0 DEF Forward, Rank, NotRunning, Step
<1>2. CASE Start \/ Restart \/ Command \/ TakeSignal
  BY <1>0, <1>2 DEF Start, Restart, Command, TakeSignal, SetMode, EmergencyRestore, Shutdown,
                    BeginRestore, SetFocus, ClearFocus, NotRunning
<1>3. CASE ExitNow \/ KilledAtStartup \/ Crash \/ PowerLoss
  BY <1>1, <1>3 DEF ExitNow, KilledAtStartup, Crash, PowerLoss, Goto, NotRunning
<1>4. CASE Signal \/ Machine \/ UNCHANGED vars
  BY <1>4 DEF Signal, Machine, vars, daemonVars
<1> QED BY <1>2, <1>3, <1>4 DEF Next

(* The ranking argument for the end of every handler and recovery of daemon.rs,
   policy.rs and recovery.rs: each step goes forward, or visits one pid
   less of a loop that is never refilled, whatever is forked, started or ended meanwhile. *)
THEOREM NeverBack == Spec => HandlersAdvance
<1>1. ASSUME CoreInv, Recovery \/ Handler PROVE Forward
  <2> USE DEF Forward, Goto
  <2>1. CASE Recovery
    <3>1. ASSUME NEW p \in Pids, ThawRecorded(p) PROVE Forward
      BY <3>1 DEF ThawRecorded, Rest
    <3>2. CASE ThawedRecorded \/ UnlockRecorded \/ SaveRecovered \/ New
      BY <3>2 DEF ThawedRecorded, UnlockRecorded, SaveRecovered, New, Rank
    <3> QED BY <2>1, <3>1, <3>2 DEF Recovery
  <2>2. ASSUME NEW p \in Pids, Thaw(p) \/ PopulateBackground(p) \/ Freeze(p) PROVE Forward
    BY <2>2 DEF Thaw, PopulateBackground, Freeze, Rest
  <2>3. CASE Relax \/ ResetLimits \/ DrainFocus
    BY <2>3 DEF Relax, ResetLimits, DrainFocus, Rank
  <2>4. CASE DrainBackground
    BY <2>4 DEF DrainBackground, Rank
  <2>5. CASE RestoreUnlock \/ FinishEmergency \/ FinishQuit \/ FinishSignal
    BY <2>5 DEF RestoreUnlock, FinishEmergency, FinishQuit, FinishSignal, Rank
  <2>6. CASE Apply \/ ScanTree \/ ScanPids \/ Populated \/ LockThenFreeze \/ UnlockThenThaw
    BY <2>6 DEF Apply, ScanTree, ScanPids, Populated, LockThenFreeze, UnlockThenThaw, Rank
  <2>7. CASE ScanAll \/ ScanFocus \/ FrozeAll \/ Persist
    BY <2>7 DEF ScanAll, ScanFocus, FrozeAll, Persist, Rank
  <2> QED BY <1>1, <2>1, <2>2, <2>3, <2>4, <2>5, <2>6, <2>7 DEF Handler
<1>2. CoreInv /\ [Next]_vars
        => [/\ Recovery \/ Handler => Forward
            /\ job # "none" => Forward \/ UNCHANGED <<pc, todo>>]_vars
  BY <1>1, OthersHold
<1> QED BY <1>2, CoreInvariance, PTL DEF Spec, HandlersAdvance
=======================================================================
