------------------------ MODULE TreeScanProofs ------------------------
(* Proofs about the daemon whose scans of /proc take time, for every set of
   pids: what SupaadProofs shows of a scan in one step holds of it too. *)
EXTENDS TreeScan, SupaadRefinement

\* Before the first step no scan is under way.
LEMMA InitScan == ScanInit => CoreInv /\ ReadInv
<1> SUFFICES ASSUME ScanInit PROVE CoreInv /\ ReadInv
  OBVIOUS
<1>1. CoreInv
  BY InitCore DEF ScanInit
<1>2. ScanTypeOK
  BY DEF ScanInit, ScanTypeOK, Blank
<1>3. pc \notin {"scan_focus", "freeze"}
  BY DEF ScanInit, Init
<1> QED BY <1>1, <1>2, <1>3 DEF ScanInit, ReadInv, ListedInv, KinInv

\* The set the walk reaches is the least with the focus pid and the children
\* of its members, as they were read.
LEMMA ReachedClosed ==
    ASSUME ScanTypeOK, focus \in Pids
    PROVE  /\ Reached \in SUBSET Pids /\ focus \in Reached
           /\ \A z \in Pids : ppid[z] \in Reached => z \in Reached
  BY DEF Reached

\* Kin is the least set that holds the root and the children of its members
\* that were not adopted since the list.
LEMMA KinLeast ==
    ASSUME NEW r \in Pids, NEW S \in SUBSET Pids, r \in S,
           \A z \in alive \ fostered : parent[z] \in S => z \in S
    PROVE  Kin(r) \subseteq S
  BY DEF Kin
LEMMA KinClosed ==
    ASSUME NEW r \in Pids, TypeOK
    PROVE  /\ Kin(r) \in SUBSET Pids /\ r \in Kin(r)
           /\ \A z \in alive \ fostered : parent[z] \in Kin(r) => z \in Kin(r)
  BY DEF Kin, TypeOK, KernelTypeOK

(* What the freeze loop needs of the scan: of the pids it is to visit, those
   that are kin to the focus application when the scan ends are in its result. *)
LEMMA KinOfTheEnd ==
    ASSUME TypeOK, TableInv, ReadInv, pc = "scan_focus", reading, unread = {}
    PROVE  Kin(focus) \cap todo \subseteq Reached
<1> DEFINE S == Reached \cup (alive \ todo)
<1>0. focus \in Pids /\ ScanTypeOK /\ ListedInv
  BY DEF TypeOK, ReadInv
<1>1. Reached \in SUBSET Pids /\ focus \in Reached /\ \A z \in Pids : ppid[z] \in Reached => z \in Reached
  BY <1>0, ReachedClosed
<1>2. S \in SUBSET Pids /\ focus \in S
  BY <1>1 DEF TypeOK, KernelTypeOK
<1>3. ASSUME NEW q \in alive \ fostered, parent[q] \in S PROVE q \in S
  <2> SUFFICES ASSUME q \in todo PROVE q \in Reached
    OBVIOUS
  <2>1. q \in Pids /\ parent[q] # Systemd
    BY <1>2, <1>3, KernelAssumption DEF TypeOK, KernelTypeOK
  <2>2. parent[q] \in todo /\ ppid[q] = parent[q]
    BY <1>0, <2>1 DEF ListedInv
  <2>3. ppid[q] \in Reached
    BY <1>3, <2>2
  <2> QED BY <1>1, <2>1, <2>3
<1> HIDE DEF S
<1>4. Kin(focus) \subseteq S
  BY <1>0, <1>2, <1>3, KinLeast
<1> QED BY <1>4 DEF S

\* The end of a scan, as one step of the daemon.
LEMMA ReadKeeps == ASSUME CoreInv, ReadInv, TreeRead PROVE CoreInv'
<1>0. /\ TypeOK /\ TableInv /\ focus \in Pids /\ ScanTypeOK
      /\ (pc = "scan_tree" /\ pc' = "scan_pids") \/ (pc = "scan_focus" /\ pc' = "freeze")
  BY DEF CoreInv, ReadInv, TreeRead, Goto, Scanning, TypeOK
<1>1. tree' \in SUBSET Pids
  BY <1>0, ReachedClosed DEF TreeRead
<1>2. TypeOK' /\ TableInv'
  BY <1>0, <1>1 DEF TreeRead, TypeOK, KernelTypeOK, kernelVars, handler, memVars, Step, TableInv
<1> USE <1>0, <1>2
  DEF CoreInv, JobInv, ColdInv, FrozenInv, FileInv, LimitsInv, LockInv, Recoverable, DiskMirrorsMemory,
      ModeInForce, NotRunning, Recovering, ThawedSteps, HandlerSteps, TeardownSteps, FreezeWindow,
      LockWindow, handler, memVars, kernelVars, TreeRead
<1>3. JobInv' /\ ColdInv' /\ FrozenInv'
  OBVIOUS
<1>4. FileInv' /\ LimitsInv' /\ LockInv'
  OBVIOUS
<1> QED BY <1>3, <1>4

\* Whoever the machine leaves alive and unadopted has its parent still, or pid 1;
LEMMA MachineAdopts ==
    ASSUME TypeOK, TableInv, ScanTypeOK, Machine, Elsewhere, pc \in {"scan_focus", "freeze"}
    PROVE  /\ \A q \in alive' \ fostered' : q \in alive =>
                q \notin fostered /\ parent'[q] \in {parent[q], Systemd}
           /\ \A q \in alive' \ alive : q \notin todo
<1>1. fostered' = alive' \cap (fostered \cup {q \in alive : parent'[q] \notin {parent[q], Systemd}})
  BY DEF Elsewhere, Machine, daemonVars
<1>2. \A q \in alive' \ alive : q \notin todo
  BY DEF Machine, Launch, Fork, Exit
<1> QED BY <1>1, <1>2

\* and whoever it has given a new parent is with a reaper, or pid 1.
LEMMA FosterParents ==
    ASSUME TypeOK, ReadInv, Elsewhere, NEW q \in fostered'
    PROVE  parent'[q] \in Reapers \cup {Systemd}
<1>1. /\ pc' \in {"scan_focus", "freeze"} /\ Next /\ q \in alive /\ q \in Pids
      /\ q \in fostered \/ parent'[q] # parent[q]
  BY DEF Elsewhere, ReadInv, ScanTypeOK, TypeOK, KernelTypeOK
<1>2. CASE UNCHANGED parent
  BY <1>1, <1>2 DEF ReadInv
<1>3. CASE Machine
  <2>1. ASSUME NEW p \in Pids, NEW c \in LaunchIn, Launch(p, c) PROVE UNCHANGED parent
    BY <2>1 DEF Launch
  <2>2. ASSUME NEW p \in Pids, NEW c \in Pids, Fork(p, c) PROVE parent'[q] = parent[q]
    BY <1>1, <2>2 DEF Fork, TypeOK, KernelTypeOK
  <2>3. ASSUME NEW p \in Pids, Exit(p)
        PROVE  parent'[q] \in {parent[q], Systemd} \cup Reapers
    BY <1>1, <2>3, ExitAdopts DEF TypeOK
  <2>4. parent'[q] \in {parent[q], Systemd} \cup Reapers
    BY <1>3, <2>1, <2>2, <2>3 DEF Machine
  <2>5. CASE q \in fostered
    BY <2>4, <2>5 DEF ReadInv
  <2> QED BY <1>1, <2>4, <2>5
<1>4. CASE PowerLoss
  BY <1>1, <1>4 DEF PowerLoss, Goto
<1> QED BY <1>1, <1>2, <1>3, <1>4, StepKeepsTable

(* The machine's steps while a scan is under way: whoever is orphaned has
   no parent to go by any more, and whoever is new is not on the list. *)
LEMMA MachineListed ==
    ASSUME TypeOK, TableInv, ReadInv, Machine, Elsewhere, UNCHANGED scanVars
    PROVE  ListedInv'
<1> SUFFICES ASSUME pc = "scan_focus",
                    NEW q \in (alive' \cap todo) \ fostered', parent'[q] # Systemd
             PROVE  parent'[q] \in todo /\ (reading => q \in unread \/ ppid[q] = parent'[q])
  BY DEF ListedInv, Machine, daemonVars, scanVars
<1>1. q \in alive /\ q \notin fostered /\ parent'[q] = parent[q]
  BY MachineAdopts DEF ReadInv
<1> QED BY <1>1 DEF ReadInv, ListedInv

\* Kin after a step.
LEMMA KinLeastNext ==
    ASSUME NEW r \in Pids, NEW S \in SUBSET Pids, r \in S,
           \A z \in alive' \ fostered' : parent'[z] \in S => z \in S
    PROVE  {q \in Pids : \A Z \in SUBSET Pids :
                r \in Z /\ (\A z \in alive' \ fostered' : parent'[z] \in Z => z \in Z) => q \in Z}
              \subseteq S
  OBVIOUS

(* While the freeze loop runs a process becomes kin only as the child of one, with a
   pid the loop has not to visit. *)
LEMMA ElsewhereKin ==
    ASSUME TypeOK, TableInv, ReadInv, Elsewhere
    PROVE  KinInv'
<1> SUFFICES ASSUME pc' = "freeze", focus' # NoPid
             PROVE  (Kin(focus) \cap todo)' \subseteq tree'
  BY DEF KinInv
<1>0. Next /\ ScanTypeOK /\ KinInv
  BY DEF Elsewhere, ReadInv
<1>1. CASE Machine
  <2>1. /\ pc = "freeze" /\ focus' = focus /\ todo' = todo /\ tree' = tree /\ focus \in Pids
    BY <1>1 DEF Machine, daemonVars, memVars, TypeOK
  <2> DEFINE T == Kin(focus)
             S == T \cup (alive' \ alive)
  <2>2. /\ T \in SUBSET Pids /\ focus \in T
        /\ \A z \in alive \ fostered : parent[z] \in T => z \in T
    BY <2>1, KinClosed
  <2>3. T \cap todo \subseteq tree
    BY <1>0, <2>1 DEF KinInv
  <2> HIDE DEF T
  <2>4. alive' \in SUBSET Pids
    BY <1>0, NextType DEF TypeOK, KernelTypeOK
  <2>5. ASSUME NEW z \in alive' \ fostered', z \in alive, parent'[z] \in S PROVE z \in T
    <3>1. z \notin fostered /\ parent'[z] \in {parent[z], Systemd}
      BY <1>0, <1>1, <2>1, <2>5, MachineAdopts
    <3>2. parent[z] \in T
      BY <2>2, <2>4, <2>5, <3>1, KernelAssumption DEF TableInv, TypeOK, KernelTypeOK
    <3> QED BY <2>2, <2>5, <3>1, <3>2
  <2>6. {q \in Pids : \A Z \in SUBSET Pids :
            focus \in Z /\ (\A z \in alive' \ fostered' : parent'[z] \in Z => z \in Z) => q \in Z}
          \subseteq S
    <3>1. S \in SUBSET Pids /\ focus \in S
      BY <2>2, <2>4
    <3>2. \A z \in alive' \ fostered' : parent'[z] \in S => z \in S
      BY <2>5
    <3> HIDE DEF S
    <3> QED BY <2>1, <3>1, <3>2, KinLeastNext
  <2>7. Kin(focus)' \subseteq S
    BY <2>1, <2>6 DEF Kin
  <2>8. S \cap todo \subseteq T
    BY <1>0, <1>1, <2>1, MachineAdopts
  <2> QED BY <2>1, <2>3, <2>7, <2>8
<1>2. CASE \E p \in Pids : Freeze(p)
  <2>1. UNCHANGED <<alive, parent, focus, tree>> /\ todo' \subseteq todo /\ pc = "freeze"
    BY <1>2 DEF Freeze, Rest, table
  <2>2. fostered' = fostered
    BY <1>0, <2>1 DEF Elsewhere, ScanTypeOK
  <2>3. Kin(focus)' = Kin(focus)
    BY <2>1, <2>2 DEF Kin
  <2> QED BY <1>0, <2>1, <2>3 DEF KinInv
<1>3. CASE Signal \/ UNCHANGED vars
  <2>1. UNCHANGED <<alive, parent, focus, tree, todo, pc>>
    BY <1>3 DEF Signal, vars, kernelVars, daemonVars, memVars
  <2>2. fostered' = fostered
    BY <1>0, <2>1 DEF Elsewhere, ScanTypeOK
  <2>3. Kin(focus)' = Kin(focus)
    BY <2>1, <2>2 DEF Kin
  <2> QED BY <1>0, <2>1, <2>3 DEF KinInv
<1>4. CASE ScanFocus
  BY <1>4 DEF Elsewhere, ScanFocus, memVars
<1> QED BY <1>0, <1>1, <1>2, <1>3, <1>4, StepsToFreeze

\* While a scan is under way only the machine changes what it reads,
LEMMA WhileScanning ==
    ASSUME [Next]_vars, pc \in Scanning, pc' \in Scanning
    PROVE  Machine \/ UNCHANGED <<alive, parent, pc, todo, focus>>
  BY DEF Scanning, Next, Recovery, Handler, Command, Goto, vars, kernelVars, daemonVars, memVars,
         Start, Restart, Boot, ThawRecorded, ThawedRecorded, UnlockRecorded, SaveRecovered, New,
         SetMode, EmergencyRestore, Shutdown, TakeSignal, BeginRestore, SetFocus, ClearFocus, Thaw,
         Relax, ResetLimits, DrainFocus, DrainBackground, RestoreUnlock, FinishEmergency,
         FinishQuit, FinishSignal, ExitNow, Apply, ScanTree, ScanPids, PopulateBackground,
         Populated, LockThenFreeze, UnlockThenThaw, ScanAll, ScanFocus, Freeze, FrozeAll, Persist,
         Signal, Crash, PowerLoss, KilledAtStartup

\* and the freeze loop is to visit the pids alive when it listed them.
LEMMA ScanIsEntered ==
    ASSUME [Next]_vars, pc' = "scan_focus", pc \notin Scanning
    PROVE  todo' = alive'
  BY DEF Scanning, Next, Recovery, Handler, Command, Goto, vars, kernelVars, daemonVars,
         Start, Restart, Boot, ThawRecorded, ThawedRecorded, UnlockRecorded, SaveRecovered, New,
         SetMode, EmergencyRestore, Shutdown, TakeSignal, BeginRestore, SetFocus, ClearFocus, Thaw,
         Relax, ResetLimits, DrainFocus, DrainBackground, RestoreUnlock, FinishEmergency,
         FinishQuit, FinishSignal, ExitNow, Apply, ScanTree, ScanPids, PopulateBackground,
         Populated, LockThenFreeze, UnlockThenThaw, ScanAll, ScanFocus, Freeze, FrozeAll, Persist,
         Signal, Crash, PowerLoss, KilledAtStartup, Machine, AllPids

\* What anything but the scan does to the inputs of the scan.
LEMMA ElsewhereListed ==
    ASSUME CoreInv, CoreInv', ReadInv, Elsewhere
    PROVE  ReadInv'
<1>0. /\ TypeOK /\ TableInv /\ TableInv' /\ ScanTypeOK /\ Next /\ fostered' \in SUBSET alive'
      /\ \A q \in fostered' : parent'[q] \in Reapers \cup {Systemd}
      /\ KinInv'
  BY FosterParents, ElsewhereKin DEF CoreInv, ReadInv, Elsewhere
<1>1. CASE pc' \notin Scanning
  <2>1. ScanTypeOK'
    BY <1>0, <1>1 DEF Elsewhere, ScanEnds, ScanTypeOK, Blank
  <2> QED BY <1>0, <1>1, <2>1 DEF Elsewhere, ScanEnds, ReadInv, ListedInv, Scanning
<1>2. CASE pc' \in Scanning /\ pc \in Scanning
  <2>1. UNCHANGED <<pc, todo, focus>> /\ UNCHANGED scanVars
    BY <1>0, <1>2, WhileScanning DEF Elsewhere, Machine, daemonVars, memVars
  <2>2. ListedInv'
    <3>1. CASE Machine
      BY <1>0, <2>1, <3>1, MachineListed
    <3>2. CASE UNCHANGED <<alive, parent>>
      <4>1. pc = "scan_focus" => fostered' = fostered
        BY <1>0, <2>1, <3>2 DEF Elsewhere, ScanTypeOK
      <4> QED BY <2>1, <3>2, <4>1 DEF ReadInv, ListedInv, scanVars
    <3> QED BY <1>0, <1>2, <3>1, <3>2, WhileScanning
  <2> QED BY <1>0, <2>1, <2>2 DEF ReadInv, ScanTypeOK, scanVars
<1>3. CASE pc' \in Scanning /\ pc \notin Scanning
  <2>1. UNCHANGED scanVars /\ ~reading
    BY <1>3 DEF Elsewhere, ReadInv, ScanTypeOK
  <2>2. ListedInv'
    <3> SUFFICES ASSUME pc' = "scan_focus", NEW q \in (alive' \cap todo') \ fostered', parent'[q] # Systemd
                 PROVE  parent'[q] \in todo'
      BY <2>1 DEF ListedInv, scanVars
    <3>1. todo' = alive' /\ q \in Pids
      BY <1>0, <1>3, ScanIsEntered DEF CoreInv, TypeOK
    <3> QED BY <1>0, <3>1 DEF TableInv
  <2> QED BY <1>0, <2>1, <2>2 DEF ReadInv, ScanTypeOK, scanVars
<1> QED BY <1>1, <1>2, <1>3

\* What does not touch the machine or the daemon keeps what is kin.
LEMMA SameKin ==
    ASSUME ReadInv, UNCHANGED <<alive, parent, pc, todo, focus, tree, fostered>>
    PROVE  KinInv' /\ \A q \in fostered' : parent'[q] \in Reapers \cup {Systemd}
<1>1. Kin(focus)' = Kin(focus)
  BY DEF Kin
<1> QED BY <1>1 DEF ReadInv, KinInv

\* Every step, of the scan or beside it, keeps both invariants.
LEMMA NextRead == CoreInv /\ ReadInv /\ [ScanNext]_treeVars => CoreInv' /\ ReadInv'
<1> SUFFICES ASSUME CoreInv, ReadInv, [ScanNext]_treeVars PROVE CoreInv' /\ ReadInv'
  OBVIOUS
<1>0. ScanTypeOK /\ TypeOK
  BY DEF ReadInv, CoreInv
<1>1. ASSUME UNCHANGED <<vars, fostered>>
      PROVE  /\ CoreInv' /\ UNCHANGED <<alive, parent, pc, todo, focus>>
             /\ KinInv' /\ \A q \in fostered' : parent'[q] \in Reapers \cup {Systemd}
  BY <1>1, NextCore, SameKin DEF vars, kernelVars, daemonVars, memVars
<1>2. CASE UNCHANGED treeVars
  <2>1. CoreInv' /\ UNCHANGED <<alive, parent, pc, todo, focus, fostered>>
    BY <1>1, <1>2 DEF treeVars
  <2> QED BY <1>0, <1>1, <1>2, <2>1 DEF treeVars, scanVars, ReadInv, ListedInv, ScanTypeOK
<1>3. CASE ListPids
  <2>1. CoreInv' /\ UNCHANGED <<alive, parent, pc, todo, focus, fostered>>
    BY <1>1, <1>3 DEF ListPids
  <2>2. ScanTypeOK' /\ ListedInv'
    BY <1>0, <1>3, <2>1 DEF ListPids, AllPids, ReadInv, ListedInv, ScanTypeOK, TypeOK, KernelTypeOK
  <2> QED BY <1>1, <1>3, <2>1, <2>2 DEF ListPids, ReadInv
<1>4. ASSUME NEW p \in Pids, ReadPpid(p) PROVE CoreInv' /\ ReadInv'
  <2>1. CoreInv' /\ UNCHANGED <<alive, parent, pc, todo, focus, fostered>>
    BY <1>1, <1>4 DEF ReadPpid
  <2>2. ScanTypeOK'
    <3>1. ppid' \in [Pids -> Pids \cup {Systemd, NoPid}]
      BY <1>0, <1>4 DEF ReadPpid, ScanTypeOK, TypeOK, KernelTypeOK
    <3> QED BY <1>0, <1>4, <2>1, <3>1 DEF ReadPpid, ScanTypeOK
  <2>3. \A q \in alive : q \in unread => q \in unread' \/ ppid'[q] = parent[q]
    BY <1>0, <1>4 DEF ReadPpid, ScanTypeOK
  <2>4. \A q \in Pids : q \notin unread => ppid'[q] = ppid[q]
    BY <1>0, <1>4 DEF ReadPpid, ScanTypeOK
  <2>5. ListedInv'
    BY <1>0, <1>4, <2>1, <2>3, <2>4 DEF ReadPpid, ReadInv, ListedInv, TypeOK, KernelTypeOK
  <2> QED BY <1>1, <1>4, <2>1, <2>2, <2>5 DEF ReadPpid, ReadInv
<1>5. CASE TreeRead
  <2>1. CoreInv' /\ UNCHANGED <<alive, parent, focus, todo, fostered>> /\ tree' = Reached
    BY <1>5, ReadKeeps DEF TreeRead, kernelVars, memVars
  <2>2. ScanTypeOK'
    BY <1>0, <1>5, <2>1 DEF TreeRead, ScanEnds, ScanTypeOK, Blank
  <2>3. KinInv'
    <3>1. Kin(focus)' = Kin(focus)
      BY <2>1 DEF Kin
    <3>2. pc' = "freeze" => pc = "scan_focus" /\ reading /\ unread = {}
      BY <1>5 DEF TreeRead, ReadInv, Scanning, Goto
    <3>3. pc' = "freeze" => Kin(focus) \cap todo \subseteq Reached
      BY <3>2, KinOfTheEnd DEF CoreInv
    <3> QED BY <2>1, <3>1, <3>3 DEF KinInv
  <2>4. pc' # "scan_focus"
    BY <1>5 DEF TreeRead, Goto
  <2> QED BY <1>5, <2>1, <2>2, <2>3, <2>4 DEF TreeRead, ScanEnds, ReadInv, ListedInv
<1>6. CASE Elsewhere
  <2>1. CoreInv'
    BY <1>6, NextCore DEF Elsewhere
  <2> QED BY <1>6, <2>1, ElsewhereListed
<1> QED BY <1>2, <1>3, <1>4, <1>5, <1>6 DEF ScanNext

\* Beside the reads, which change nothing of the daemon, the steps are those of
\* Supaad and the end of a scan.
LEMMA ScanStep == ASSUME [ScanNext]_treeVars PROVE [Next]_vars \/ TreeRead
  BY DEF ScanNext, ListPids, ReadPpid, Elsewhere, treeVars

\* The end of a scan is not seen by what is recorded, limited, locked or stopped.
LEMMA ScanIsSilent ==
    ASSUME ReadInv, TreeRead
    PROVE  /\ UNCHANGED <<Stranded, LockStranded, pc \in NotRunning, stopped>>
           /\ UNCHANGED <<Phase, limits, Known, ~file.clean, Recoverable>>
<1> USE DEF TreeRead, ReadInv, Scanning, Goto, kernelVars, handler, memVars, NotRunning
<1>1. UNCHANGED <<stopped, limits, file, locked, wlocked, frozen, job, sig, pc \in NotRunning>>
  OBVIOUS
<1>2. Recoverable' = Recoverable /\ Known' = Known /\ Phase' = Phase
  BY <1>1 DEF Recoverable, Known, Phase, Recovering
<1>3. LockStranded' = LockStranded
  BY <1>1 DEF LockStranded, LockKnown, LockWindow
<1> QED BY <1>1, <1>2, <1>3 DEF Stranded

------------------------------------------------------------------------
(* The theorems *)

\* The two invariants, of which the theorems are parts.
LEMMA ScanInvariant == ScanSpec => [](CoreInv /\ ReadInv)
  BY InitScan, NextRead, PTL DEF ScanSpec

(* get_process_tree (whitelist.rs) reads the parents one after the other while
   processes come and go; at every moment of the scan of freeze_all_background what
   it has read agrees with the process table on all the freeze loop is to visit,
   but for those a subreaper has adopted since. *)
THEOREM ScanIsCurrent == ScanSpec => []ReadInv
  BY ScanInvariant, PTL

(* The daemon's own invariant, and with it what the file says and which limits are in
   force, does not depend on the scans being one step. *)
THEOREM ScanInvariance == ScanSpec => []CoreInv
  BY ScanInvariant, PTL

(* freeze_all_background stops no process of the focus tree though get_process_tree
   reads one /proc file at a time, whatever forks, ends or is orphaned between
   two of those reads, but for those a subreaper adopts meanwhile. *)
THEOREM ScanSparesKin == ScanSpec => KinSpared
<1>1. ASSUME CoreInv, ReadInv, [ScanNext]_treeVars, NEW p \in stopped' \ stopped, focus # NoPid
      PROVE  p \notin Kin(focus)
  <2>1. [Next]_vars \/ UNCHANGED stopped
    BY <1>1 DEF ScanNext, ListPids, ReadPpid, TreeRead, Elsewhere, treeVars, vars, kernelVars
  <2>2. PICK q \in Pids : Freeze(q)
    BY <1>1, <2>1, OnlyFreezeStops
  <2>3. p = q /\ q \in todo /\ q \notin tree /\ pc = "freeze"
    BY <1>1, <2>2 DEF Freeze
  <2> QED BY <1>1, <2>3 DEF ReadInv, KinInv
<1>2. CoreInv /\ ReadInv /\ [ScanNext]_treeVars
        => [\A p \in stopped' \ stopped : focus # NoPid => p \notin Kin(focus)]_vars
  BY <1>1
<1> QED BY <1>2, ScanInvariant, PTL DEF ScanSpec, KinSpared

(* Where no process of the focus tree is a subreaper, all of it is spared, as it is by
   a scan in one step. *)
THEOREM ScanSparesFocus == ScanSpec /\ []NoReaperInFocus => FocusSpared
<1>1. ASSUME CoreInv, ReadInv, NoReaperInFocus, focus # NoPid
      PROVE  ProcessTree(focus) \subseteq Kin(focus)
  <2>1. TypeOK /\ focus \in Pids /\ ScanTypeOK
    BY <1>1 DEF CoreInv, ReadInv, TypeOK
  <2>2. /\ Kin(focus) \in SUBSET Pids /\ focus \in Kin(focus)
        /\ \A z \in alive \ fostered : parent[z] \in Kin(focus) => z \in Kin(focus)
    BY <2>1, KinClosed
  <2>3. /\ ProcessTree(focus) \in SUBSET Pids /\ focus \in ProcessTree(focus)
        /\ IsClosed(ProcessTree(focus))
    BY <2>1, TreeClosed
  <2>4. Kin(focus) \subseteq ProcessTree(focus)
    BY <2>1, <2>3, KinLeast DEF IsClosed
  <2>5. ASSUME NEW z \in alive, parent[z] \in Kin(focus) PROVE z \notin fostered
    BY <1>1, <2>2, <2>4, <2>5, KernelAssumption DEF NoReaperInFocus, ReadInv
  <2> QED BY <2>1, <2>2, <2>5, TreeLeast DEF IsClosed
<1>2. CoreInv /\ ReadInv /\ NoReaperInFocus
        /\ [\A p \in stopped' \ stopped : focus # NoPid => p \notin Kin(focus)]_vars
        => [\A p \in stopped' \ stopped : focus # NoPid => p \notin ProcessTree(focus)]_vars
  BY <1>1
<1> QED BY <1>2, ScanInvariant, ScanSparesKin, PTL DEF KinSpared, FocusSpared

(* A daemon that dies while it reads the process table strands no process, as it has
   frozen nothing yet; the scan before a freeze comes after the lock, and its
   reads only make the window of NoNewStrandedLock longer. *)
THEOREM ScanStrandsNothing == ScanSpec => NoNewStranded /\ NoNewStrandedLock
<1>1. CoreInv /\ ReadInv /\ [ScanNext]_treeVars
        => [Stranded' \subseteq Stranded \/ (pc \in FreezeWindow /\ pc' \in NotRunning)]_vars
  BY ScanStep, ScanIsSilent, StepStrands
<1>2. CoreInv /\ ReadInv /\ [ScanNext]_treeVars
        => [CompositorObeys /\ LockStranded'
              => LockStranded \/ (pc \in LockWindow /\ pc' \in NotRunning)]_vars
  BY ScanStep, ScanIsSilent, StepStrandsLock
<1> QED BY <1>1, <1>2, ScanInvariant, PTL
        DEF ScanSpec, NoNewStranded, NoNewStrandedLock

(* The daemon whose scans take time implements the write-ahead record too: a crash
   at any read of a scan leaves the next daemon knowing what the file names. *)
THEOREM ScanRefinesWriteAhead == ScanSpec => ImplementsWriteAhead
<1>1. ScanInit => Journal!Init
  BY InitJournal DEF ScanInit
<1>2. CoreInv /\ ReadInv /\ [ScanNext]_treeVars
        => [Journal!Next]_<<Phase, limits, Known, ~file.clean, Recoverable>>
  BY ScanStep, ScanIsSilent, NextRefines
<1> QED BY <1>1, <1>2, ScanInvariant, PTL
        DEF ScanSpec, ImplementsWriteAhead, Journal!Spec, Journal!vars
=======================================================================
