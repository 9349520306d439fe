------------------------- MODULE EscapeProofs -------------------------
(* Proofs about the emergency script beside the daemon, for every set of
   pids, every whitelist and both kinds of compositor. The daemon's own
   invariant does not hold here: the script works on its processes and rewrites its file. *)
EXTENDS Escape, SupaadProofs

\* What anything but the script does is a step of the daemon or its machine.
LEMMA Beside ==
    ASSUME Meanwhile \/ TakeRequest \/ PowerFails
    PROVE  Next
  BY DEF Meanwhile, TakeRequest, PowerFails, Next, Command

\* Which handler is at which step does not depend on what the script changes.
LEMMA NextJob == TypeOK /\ JobInv /\ [Next]_vars => JobInv'
<1> SUFFICES ASSUME TypeOK, JobInv, [Next]_vars PROVE JobInv'
  OBVIOUS
<1> USE DEF JobInv, NotRunning, Recovering, HandlerSteps, TeardownSteps, Goto, handler, memVars,
            daemonVars
<1>1. CASE Start \/ Restart
  BY <1>1 DEF Start, Restart, Boot
<1>2. CASE Recovery
  BY <1>2 DEF Recovery, ThawRecorded, ThawedRecorded, UnlockRecorded, SaveRecovered, New
<1>3. CASE Command \/ TakeSignal
  BY <1>3 DEF Command, TakeSignal, SetMode, EmergencyRestore, Shutdown, BeginRestore, SetFocus,
              ClearFocus
<1>4. CASE Handler
  <2>1. CASE \E p \in Pids : Thaw(p) \/ PopulateBackground(p) \/ Freeze(p)
    BY <2>1 DEF Thaw, PopulateBackground, Freeze
  <2>2. CASE Relax \/ ResetLimits \/ DrainFocus \/ DrainBackground
    BY <2>2 DEF Relax, ResetLimits, DrainFocus, DrainBackground
  <2>3. CASE RestoreUnlock \/ FinishEmergency \/ FinishQuit \/ FinishSignal
    BY <2>3 DEF RestoreUnlock, FinishEmergency, FinishQuit, FinishSignal, Forget
  <2>4. CASE Apply \/ ScanTree \/ ScanPids \/ Populated
    BY <2>4 DEF Apply, ScanTree, ScanPids, Populated
  <2>5. CASE LockThenFreeze \/ UnlockThenThaw
    BY <2>5 DEF LockThenFreeze, UnlockThenThaw, ShouldFreeze
  <2>6. CASE ScanAll \/ ScanFocus \/ FrozeAll \/ Persist
    BY <2>6 DEF ScanAll, ScanFocus, FrozeAll, Persist
  <2> QED BY <1>4, <2>1, <2>2, <2>3, <2>4, <2>5, <2>6 DEF Handler
<1>5. CASE ExitNow \/ KilledAtStartup \/ Crash \/ PowerLoss
  BY <1>5 DEF ExitNow, KilledAtStartup, Crash, PowerLoss, Forget
<1>6. CASE Signal \/ Machine \/ UNCHANGED vars
  BY <1>6 DEF Signal, Machine, vars
<1> QED BY <1>1, <1>2, <1>3, <1>4, <1>5, <1>6 DEF Next

\* A daemon that runs no SetMode handler stops, limits and locks nothing.
LEMMA OnlyModesTakeHold ==
    ASSUME TypeOK, JobInv, [Next]_vars, job # "mode"
    PROVE  /\ stopped' \subseteq stopped
           /\ limits' \in {limits, "Normal"}
           /\ CompositorObeys /\ locked' => locked
<1> USE DEF kernelVars, table, cgroups
<1>1. CASE Start \/ Restart
  BY <1>1 DEF Start, Restart, Boot
<1>u. locked \in BOOLEAN /\ UnlockWorkspace => (CompositorObeys /\ locked' => locked)
  BY DEF UnlockWorkspace
<1>2. CASE Recovery
  <2>1. CASE UnlockRecorded
    BY <1>u, <2>1 DEF UnlockRecorded, UnlockIfRecorded, TypeOK
  <2>2. CASE \E p \in Pids : ThawRecorded(p)
    BY <2>2 DEF ThawRecorded
  <2>3. CASE ThawedRecorded \/ SaveRecovered \/ New
    BY <2>3 DEF ThawedRecorded, SaveRecovered, New
  <2> QED BY <1>2, <2>1, <2>2, <2>3 DEF Recovery
<1>3. CASE Command \/ TakeSignal
  BY <1>3 DEF Command, TakeSignal, SetMode, EmergencyRestore, Shutdown, BeginRestore, SetFocus,
              ClearFocus
<1>4. CASE Handler
  <2>1. CASE \E p \in Pids : Thaw(p) \/ PopulateBackground(p) \/ Freeze(p)
    BY <2>1 DEF Thaw, PopulateBackground, Freeze, JobInv
  <2>2. CASE Relax \/ ResetLimits \/ DrainFocus \/ DrainBackground
    BY <1>u, <2>2 DEF Relax, ResetLimits, SetLimits, DrainFocus, DrainBackground, TypeOK
  <2>3. CASE RestoreUnlock
    BY <1>u, <2>3 DEF RestoreUnlock, TypeOK
  <2>7. CASE FinishEmergency \/ FinishQuit \/ FinishSignal
    BY <2>7 DEF FinishEmergency, FinishQuit, FinishSignal
  <2>4. CASE Apply \/ ScanTree \/ ScanPids \/ Populated
    BY <2>4 DEF Apply, ScanTree, ScanPids, Populated, JobInv
  <2>5. CASE LockThenFreeze \/ UnlockThenThaw
    BY <2>5 DEF LockThenFreeze, UnlockThenThaw, JobInv
  <2>6. CASE ScanAll \/ ScanFocus \/ FrozeAll \/ Persist
    BY <2>6 DEF ScanAll, ScanFocus, FrozeAll, Persist
  <2> QED BY <1>4, <2>1, <2>2, <2>3, <2>4, <2>5, <2>6, <2>7 DEF Handler
<1>5. CASE ExitNow \/ KilledAtStartup \/ Crash
  BY <1>5 DEF ExitNow, KilledAtStartup, Crash
<1>6. CASE PowerLoss
  BY <1>6 DEF PowerLoss, KernelReset
<1>7. CASE Signal \/ UNCHANGED vars
  BY <1>7 DEF Signal, vars
<1>8. CASE Machine
  BY <1>8 DEF Machine, Launch, Fork, Exit
<1> QED BY <1>1, <1>2, <1>3, <1>4, <1>5, <1>6, <1>7, <1>8 DEF Next

\* What the daemon remembers depends on nothing the script changes.
LEMMA NextMemory == TypeOK /\ JobInv /\ MemoryInv /\ [Next]_vars => MemoryInv'
<1> SUFFICES ASSUME TypeOK, JobInv, MemoryInv, [Next]_vars PROVE MemoryInv'
  OBVIOUS
<1>t. st \in State
  BY DEF TypeOK
<1> USE DEF MemoryInv, ThawedSteps, NotRunning, Recovering, FreezeWindow, Goto, handler, memVars,
            daemonVars
<1>1. CASE Start \/ Restart
  BY <1>1 DEF Start, Restart, Boot
<1>2. CASE Recovery
  BY <1>2 DEF Recovery, ThawRecorded, ThawedRecorded, UnlockRecorded, SaveRecovered, New, JobInv
<1>3. CASE Command \/ TakeSignal
  <2>1. MarkedDirty.clean = FALSE /\ MarkedDirty.frozen = st.frozen
    BY <1>t, StateFacts DEF MarkedDirty
  <2>2. ASSUME NEW m \in Mode, SetMode(m) PROVE MemoryInv'
    BY <2>1, <2>2 DEF SetMode, Save, Mode
  <2>3. ASSUME NEW j \in {"emergency", "quit", "sigterm"}, BeginRestore(j) PROVE MemoryInv'
    BY <2>1, <2>3 DEF BeginRestore, Save
  <2>4. CASE ClearFocus \/ \E p \in Pids : SetFocus(p)
    BY <2>4 DEF ClearFocus, SetFocus
  <2> QED BY <1>3, <2>2, <2>3, <2>4 DEF Command, EmergencyRestore, Shutdown, TakeSignal
<1>4. CASE Handler
  <2>1. CASE \E p \in Pids : Thaw(p) \/ PopulateBackground(p) \/ Freeze(p)
    BY <2>1 DEF Thaw, PopulateBackground, Freeze, Rest
  <2>2. CASE Relax \/ ResetLimits \/ DrainFocus \/ DrainBackground
    BY <2>2 DEF Relax, ResetLimits, DrainFocus, DrainBackground
  <2>3. CASE RestoreUnlock \/ FinishEmergency \/ FinishQuit \/ FinishSignal
    BY <2>3 DEF RestoreUnlock, FinishEmergency, FinishQuit, FinishSignal, Save, Forget, Fresh
  <2>4. CASE Apply
    <3>1. st'.frozen = st.frozen /\ st'.clean = st.clean
      BY <1>t, <2>4 DEF Apply, State
    <3> QED BY <2>4, <3>1 DEF Apply
  <2>5. CASE ScanTree \/ ScanPids \/ Populated \/ LockThenFreeze \/ UnlockThenThaw
    BY <2>5 DEF ScanTree, ScanPids, Populated, LockThenFreeze, UnlockThenThaw
  <2>6. CASE ScanAll \/ ScanFocus \/ FrozeAll
    BY <2>6 DEF ScanAll, ScanFocus, FrozeAll, JobInv
  <2>7. CASE Persist
    BY <2>7 DEF Persist, Save, Outcome
  <2> QED BY <1>4, <2>1, <2>2, <2>3, <2>4, <2>5, <2>6, <2>7 DEF Handler
<1>5. CASE ExitNow \/ KilledAtStartup \/ Crash \/ PowerLoss
  BY <1>5 DEF ExitNow, KilledAtStartup, Crash, PowerLoss, Forget
<1>6. CASE Signal \/ Machine \/ UNCHANGED vars
  BY <1>6 DEF Signal, Machine, vars
<1> QED BY <1>1, <1>2, <1>3, <1>4, <1>5, <1>6 DEF Next

\* What the daemon and its file record of the stopped processes, the daemon holds.
LEMMA NextRecord == TypeOK /\ JobInv /\ MemoryInv /\ RecordInv /\ [Next]_vars => RecordInv'
<1> SUFFICES ASSUME TypeOK, JobInv, MemoryInv, RecordInv, [Next]_vars PROVE RecordInv'
  OBVIOUS
<1>t. st \in State
  BY DEF TypeOK
<1> USE DEF MemoryInv, RecordInv, Known, Recoverable, ThawedSteps, NotRunning, Recovering,
            FreezeWindow, Goto, handler, table, cgroups, memVars, daemonVars, kernelVars
<1>1. CASE Start \/ Restart
  BY <1>1 DEF Start, Restart, Boot, RecordedPids
<1>2. CASE Recovery
  <2>1. CASE \E p \in Pids : ThawRecorded(p)
    BY <2>1 DEF ThawRecorded, Rest
  <2>2. CASE ThawedRecorded \/ UnlockRecorded \/ SaveRecovered \/ New
    BY <2>2 DEF ThawedRecorded, UnlockRecorded, SaveRecovered, New, Fresh
  <2> QED BY <1>2, <2>1, <2>2 DEF Recovery
<1>3. CASE Command \/ TakeSignal
  <2>1. MarkedDirty.clean = FALSE /\ MarkedDirty.frozen = st.frozen
    BY <1>t, StateFacts DEF MarkedDirty
  <2>2. ASSUME NEW m \in Mode, SetMode(m) PROVE RecordInv'
    BY <2>1, <2>2 DEF SetMode, Save
  <2>3. ASSUME NEW j \in {"emergency", "quit", "sigterm"}, BeginRestore(j) PROVE RecordInv'
    BY <2>1, <2>3 DEF BeginRestore, Save
  <2>4. CASE ClearFocus \/ \E p \in Pids : SetFocus(p)
    BY <2>4 DEF ClearFocus, SetFocus
  <2> QED BY <1>3, <2>2, <2>3, <2>4 DEF Command, EmergencyRestore, Shutdown, TakeSignal
<1>4. CASE Handler
  <2>1. CASE \E p \in Pids : Thaw(p) \/ PopulateBackground(p) \/ Freeze(p)
    BY <2>1 DEF Thaw, PopulateBackground, Freeze
  <2>2. CASE Relax \/ ResetLimits \/ DrainFocus \/ DrainBackground
    BY <2>2 DEF Relax, ResetLimits, DrainFocus, DrainBackground
  <2>3. CASE RestoreUnlock \/ FinishEmergency \/ FinishQuit \/ FinishSignal
    BY <2>3 DEF RestoreUnlock, FinishEmergency, FinishQuit, FinishSignal, Save, Forget, Fresh
  <2>4. CASE Apply
    <3>1. st'.frozen = st.frozen
      BY <1>t, <2>4 DEF Apply, State
    <3> QED BY <2>4, <3>1 DEF Apply
  <2>5. CASE ScanTree \/ ScanPids \/ Populated \/ LockThenFreeze \/ UnlockThenThaw
    BY <2>5 DEF ScanTree, ScanPids, Populated, LockThenFreeze, UnlockThenThaw
  <2>6. CASE ScanAll \/ ScanFocus \/ FrozeAll
    BY <2>6 DEF ScanAll, ScanFocus, FrozeAll
  <2>7. CASE Persist
    BY <2>7 DEF Persist, Save, Outcome
  <2> QED BY <1>4, <2>1, <2>2, <2>3, <2>4, <2>5, <2>6, <2>7 DEF Handler
<1>5. CASE ExitNow \/ KilledAtStartup \/ Crash \/ PowerLoss
  BY <1>5 DEF ExitNow, KilledAtStartup, Crash, PowerLoss, KernelReset, Forget, Fresh
<1>6. CASE Signal \/ Machine \/ UNCHANGED vars
  BY <1>6 DEF Signal, Machine, Launch, Fork, Exit, vars
<1> QED BY <1>1, <1>2, <1>3, <1>4, <1>5, <1>6 DEF Next

\* Only a SetMode handler adds to the stopped processes the daemon or its file knows.
LEMMA OnlyModesLearn ==
    ASSUME TypeOK, JobInv, MemoryInv, RecordInv, [Next]_vars, job # "mode", job' # "mode"
    PROVE  stopped' \cap Known' \subseteq stopped \cap Known
<1>s. stopped' \subseteq stopped
  BY OnlyModesTakeHold
<1> USE DEF MemoryInv, RecordInv, Known, Recoverable, ThawedSteps, NotRunning, Recovering,
            Goto, handler, table, cgroups, memVars, daemonVars, kernelVars
<1>1. CASE Start \/ Restart
  BY <1>1 DEF Start, Restart, Boot, RecordedPids
<1>2. CASE Recovery
  <2>1. CASE \E p \in Pids : ThawRecorded(p)
    BY <2>1 DEF ThawRecorded, Rest
  <2>2. CASE ThawedRecorded \/ UnlockRecorded \/ SaveRecovered \/ New
    BY <2>2 DEF ThawedRecorded, UnlockRecorded, SaveRecovered, New
  <2> QED BY <1>2, <2>1, <2>2 DEF Recovery
<1>3. CASE Command \/ TakeSignal
  BY <1>3 DEF Command, TakeSignal, SetMode, EmergencyRestore, Shutdown, BeginRestore,
              SetFocus, ClearFocus
<1>4. CASE Handler
  <2>1. CASE \E p \in Pids : Thaw(p)
    BY <2>1 DEF Thaw
  <2>2. CASE Relax \/ ResetLimits \/ DrainFocus \/ DrainBackground
    BY <2>2 DEF Relax, ResetLimits, DrainFocus, DrainBackground
  <2>3. CASE RestoreUnlock \/ FinishEmergency \/ FinishSignal
    BY <2>3 DEF RestoreUnlock, FinishEmergency, FinishSignal
  <2>4. CASE FinishQuit
    BY <2>4 DEF FinishQuit, Fresh
  <2>5. CASE \/ Apply \/ ScanTree \/ ScanPids \/ Populated \/ LockThenFreeze \/ UnlockThenThaw
             \/ ScanAll \/ ScanFocus \/ FrozeAll \/ Persist
             \/ \E p \in Pids : PopulateBackground(p) \/ Freeze(p)
    BY <2>5 DEF Apply, ScanTree, ScanPids, Populated, LockThenFreeze, UnlockThenThaw, ScanAll,
                ScanFocus, FrozeAll, Persist, PopulateBackground, Freeze, JobInv, HandlerSteps
  <2> QED BY <1>4, <2>1, <2>2, <2>3, <2>4, <2>5 DEF Handler
<1>5. CASE ExitNow \/ KilledAtStartup \/ Crash
  BY <1>5, <1>s DEF ExitNow, KilledAtStartup, Crash
<1>6. CASE PowerLoss
  BY <1>6 DEF PowerLoss, KernelReset
<1>7. CASE Signal \/ Machine \/ UNCHANGED vars
  BY <1>7, <1>s DEF Signal, Machine, vars
<1> QED BY <1>1, <1>2, <1>3, <1>4, <1>5, <1>6, <1>7 DEF Next

\* The daemon keeps what it holds stopped in the file, as far as it was there.
LEMMA NextKnows ==
    ASSUME NEW L, TypeOK, JobInv, MemoryInv, FileKnowsAllBut(L), [Next]_vars
    PROVE  FileKnowsAllBut(L)'
<1>m. MemoryInv'
  BY NextMemory
<1>t. st \in State
  BY DEF TypeOK
<1> USE DEF FileKnowsAllBut, MemoryInv, ThawedSteps, NotRunning, Recovering, FreezeWindow, Recoverable,
            Goto, table, cgroups, handler, memVars, daemonVars, kernelVars
<1>1. CASE Start \/ Restart
  BY <1>1 DEF Start, Restart, Boot, RecordedPids
<1>2. CASE Recovery
  <2>1. CASE \E p \in Pids : ThawRecorded(p)
    BY <2>1 DEF ThawRecorded, Rest
  <2>2. CASE ThawedRecorded \/ UnlockRecorded \/ SaveRecovered \/ New
    BY <2>2 DEF ThawedRecorded, UnlockRecorded, SaveRecovered, New
  <2> QED BY <1>2, <2>1, <2>2 DEF Recovery
<1>3. CASE Command \/ TakeSignal
  <2>1. MarkedDirty.clean = FALSE /\ MarkedDirty.frozen = st.frozen
    BY <1>t, StateFacts DEF MarkedDirty
  <2>2. ASSUME NEW m \in Mode, SetMode(m) PROVE FileKnowsAllBut(L)'
    BY <2>1, <2>2 DEF SetMode, Save
  <2>3. ASSUME NEW j \in {"emergency", "quit", "sigterm"}, BeginRestore(j) PROVE FileKnowsAllBut(L)'
    BY <2>1, <2>3 DEF BeginRestore, Save
  <2>4. CASE ClearFocus \/ \E p \in Pids : SetFocus(p)
    BY <2>4 DEF ClearFocus, SetFocus
  <2> QED BY <1>3, <2>2, <2>3, <2>4 DEF Command, EmergencyRestore, Shutdown, TakeSignal
<1>4. CASE Handler
  <2>1. CASE \E p \in Pids : Thaw(p) \/ PopulateBackground(p) \/ Freeze(p)
    BY <2>1 DEF Thaw, PopulateBackground, Freeze
  <2>2. CASE Relax \/ ResetLimits \/ DrainFocus \/ DrainBackground
    BY <2>2 DEF Relax, ResetLimits, DrainFocus, DrainBackground
  <2>3. CASE RestoreUnlock \/ FinishEmergency \/ FinishQuit \/ FinishSignal
    BY <2>3, <1>m DEF RestoreUnlock, FinishEmergency, FinishQuit, FinishSignal, Forget
  <2>4. CASE Apply \/ ScanTree \/ ScanPids \/ Populated \/ LockThenFreeze \/ UnlockThenThaw
    BY <2>4 DEF Apply, ScanTree, ScanPids, Populated, LockThenFreeze, UnlockThenThaw
  <2>5. CASE ScanAll \/ ScanFocus \/ FrozeAll
    BY <2>5 DEF ScanAll, ScanFocus, FrozeAll
  <2>6. CASE Persist
    BY <2>6 DEF Persist, Save, Outcome, JobInv, HandlerSteps
  <2> QED BY <1>4, <2>1, <2>2, <2>3, <2>4, <2>5, <2>6 DEF Handler
<1>5. CASE ExitNow \/ KilledAtStartup \/ Crash \/ PowerLoss
  BY <1>5 DEF ExitNow, KilledAtStartup, Crash, PowerLoss, Forget
<1>6. CASE Signal \/ Machine \/ UNCHANGED vars
  BY <1>6 DEF Signal, Machine, Launch, Fork, Exit, vars
<1> QED BY <1>1, <1>2, <1>3, <1>4, <1>5, <1>6 DEF Next

\* The script's own steps are well typed.
LEMMA ScriptType ==
    ASSUME TypeOK, ScriptTypeOK, Script
    PROVE  TypeOK' /\ ScriptTypeOK'
<1> USE DEF TypeOK, ScriptTypeOK, lapses, ScriptGoto, ByHand, memVars, daemonVars, handler, Mode
<1>1. CASE Succeeded \/ GaveUp
  BY <1>1, KernelKept DEF Succeeded, GaveUp, vars
<1>2. CASE ReadRecorded \/ ScanStopped
  BY <1>2, KernelKept DEF ReadRecorded, ScanStopped, vars, KernelTypeOK, kernelVars, State
<1>3. ASSUME NEW p \in Pids, Continue(p) \/ PassOver(p) PROVE TypeOK' /\ ScriptTypeOK'
  BY <1>3, KernelKept DEF Continue, PassOver, KernelTypeOK, table, cgroups, vars
<1>4. CASE ScriptReset
  BY <1>4 DEF ScriptReset, KernelTypeOK, Members, table
<1>5. CASE ScriptDrainFocus
  <2>1. member' \in [Pids -> Cgroup]
    BY <1>5, MovedType DEF ScriptDrainFocus, Release, KernelTypeOK, Cgroup
  <2>2. KernelTypeOK'
    BY <1>5, <2>1 DEF ScriptDrainFocus, KernelTypeOK, cgroups
  <2> QED BY <1>5, <2>2 DEF ScriptDrainFocus, KernelTypeOK, Members
<1>6. CASE ScriptDrainBackground
  <2>1. member' \in [Pids -> Cgroup]
    BY <1>6, MovedType DEF ScriptDrainBackground, Release, KernelTypeOK, Cgroup
  <2>2. KernelTypeOK'
    BY <1>6, <2>1 DEF ScriptDrainBackground, RemoveEmptyDirs, KernelTypeOK
  <2> QED BY <1>6, <2>2 DEF ScriptDrainBackground
<1>7. CASE ScriptUnlock
  BY <1>7, KernelKept, UnlockType DEF ScriptUnlock
<1>8. CASE MarkClean
  BY <1>8, KernelKept, FreshFacts DEF MarkClean
<1> QED BY <1>1, <1>2, <1>3, <1>4, <1>5, <1>6, <1>7, <1>8 DEF Script

\* The script stops nothing, and clears the record only when what it names that is
\* still stopped is among what the script could not read.
LEMMA ScriptReleases ==
    ASSUME ByHandInv, ~beside, Script
    PROVE  /\ stopped' \subseteq stopped
           /\ \/ file' = file
              \/ MarkClean /\ file' = Fresh /\ stopped \cap Known \subseteq unread
<1> USE DEF kernelVars, table, cgroups
<1>1. CASE Succeeded \/ GaveUp \/ ReadRecorded \/ ScanStopped
  BY <1>1 DEF Succeeded, GaveUp, ReadRecorded, ScanStopped, vars
<1>2. CASE \E p \in Pids : Continue(p) \/ PassOver(p)
  BY <1>2 DEF Continue, PassOver, vars
<1>3. CASE ScriptReset \/ ScriptDrainFocus \/ ScriptDrainBackground \/ ScriptUnlock
  BY <1>3 DEF ScriptReset, ScriptDrainFocus, ScriptDrainBackground, ScriptUnlock
<1>4. CASE MarkClean
  BY <1>4 DEF MarkClean, ByHandInv, ByHand
<1> QED BY <1>1, <1>2, <1>3, <1>4 DEF Script

\* Before the restore by hand reads the file, that names what the daemon knows.
LEMMA FileNamesKnown ==
    ASSUME JobInv, MemoryInv, FileKnowsAllBut({}), job # "mode"
    PROVE  stopped \cap Known \subseteq file.frozen
  BY DEF JobInv, MemoryInv, FileKnowsAllBut, Known, Recoverable, ThawedSteps, NotRunning,
         Recovering, FreezeWindow

\* The rest of the world keeps the script's variables well typed.
LEMMA MeanwhileType ==
    ASSUME ScriptTypeOK, Meanwhile \/ TakeRequest \/ PowerFails
    PROVE  ScriptTypeOK'
  BY DEF ScriptTypeOK, lapses, ScriptGoto, ByHand, Meanwhile, TakeRequest, PowerFails

\* The script's steps keep what it achieved,
LEMMA ScriptByHand ==
    ASSUME EscapeInv, Script, UNCHANGED daemonVars
    PROVE  ByHandInv'
<1> USE DEF EscapeInv, ByHandInv, ScriptGoto, ByHand, kernelVars, table, cgroups, lapses
<1>1. UNCHANGED job /\ (file' = file => UNCHANGED Known)
  BY DEF daemonVars, handler, memVars, Known, Recoverable
<1>2. CASE Succeeded \/ GaveUp \/ MarkClean
  BY <1>1, <1>2 DEF Succeeded, GaveUp, MarkClean
<1>3. CASE ReadRecorded
  <2> SUFFICES ASSUME ~beside PROVE ByHandInv'
    BY <1>3 DEF ReadRecorded
  <2>1. stopped \cap Known \subseteq file.frozen
    BY <1>3, FileNamesKnown DEF ReadRecorded, KnownInv
  <2> QED BY <1>1, <1>3, <2>1 DEF ReadRecorded, vars
<1>4. CASE ScanStopped
  BY <1>1, <1>4 DEF ScanStopped, vars, TypeOK, KernelTypeOK
<1>5. ASSUME NEW p \in Pids, Continue(p) PROVE ByHandInv'
  BY <1>1, <1>5 DEF Continue
<1>6. ASSUME NEW p \in Pids, PassOver(p) PROVE ByHandInv'
  BY <1>1, <1>6 DEF PassOver, vars
<1>7. CASE ScriptReset
  BY <1>1, <1>7 DEF ScriptReset
<1>8. CASE ScriptDrainFocus \/ ScriptDrainBackground
  BY <1>1, <1>8 DEF ScriptDrainFocus, ScriptDrainBackground
<1>9. CASE ScriptUnlock
  BY <1>1, <1>9 DEF ScriptUnlock, UnlockWorkspace
<1> QED BY <1>2, <1>3, <1>4, <1>5, <1>6, <1>7, <1>8, <1>9 DEF Script

\* and what the file says.
LEMMA ScriptKnows ==
    ASSUME EscapeInv, Script, UNCHANGED daemonVars
    PROVE  KnownInv'
<1> USE DEF EscapeInv, lapses
<1>1. script' \notin {"none", "asked"} /\ (~beside' => ~beside)
  BY DEF Script, ScriptGoto, KnownInv, Succeeded, GaveUp, ReadRecorded, ScanStopped, Continue,
         PassOver, ScriptReset, ScriptDrainFocus, ScriptDrainBackground, ScriptUnlock, MarkClean
<1> SUFFICES ASSUME ~beside
             PROVE  FileKnowsAllBut(IF script = "done" THEN unread ELSE {})'
  BY <1>1 DEF KnownInv
<1>2. script # "done" /\ FileKnowsAllBut({})
  BY DEF KnownInv, Script, Succeeded, GaveUp, ReadRecorded, ScanStopped, Continue, PassOver,
         ScriptReset, ScriptDrainFocus, ScriptDrainBackground, ScriptUnlock, MarkClean
<1>3. /\ stopped' \subseteq stopped
      /\ \/ file' = file
         \/ MarkClean /\ file' = Fresh /\ stopped \cap Known \subseteq unread
  BY ScriptReleases
<1> USE DEF daemonVars, memVars, FileKnowsAllBut, Recoverable
<1>4. CASE file' = file
  BY <1>2, <1>3, <1>4
<1>5. CASE MarkClean /\ file' = Fresh /\ stopped \cap Known \subseteq unread
  BY <1>3, <1>5 DEF MarkClean, ScriptGoto, MemoryInv, ThawedSteps, NotRunning, Recovering,
                    Known, Fresh
<1> QED BY <1>3, <1>4, <1>5

\* Every step of the script and of the daemon keeps what the script achieved.
LEMMA NextEscape == EscapeInv /\ [EscapeNext]_escapeVars => EscapeInv'
<1> SUFFICES ASSUME EscapeInv, [EscapeNext]_escapeVars PROVE EscapeInv'
  OBVIOUS
<1> USE DEF EscapeInv, ScriptGoto, ByHand, kernelVars, table, cgroups, lapses
<1>r. PICK L : L = IF script = "done" THEN unread ELSE {}
  OBVIOUS
<1>k. ~beside => FileKnowsAllBut(L)
  BY <1>r DEF KnownInv
<1>1. CASE Run
  <2>1. TypeOK' /\ JobInv'
    BY <1>1, NextType, NextJob DEF Run
  <2>2. MemoryInv' /\ RecordInv'
    BY <1>1, NextMemory, NextRecord DEF Run
  <2>3. KnownInv'
    <3> SUFFICES ASSUME ~beside PROVE FileKnowsAllBut({})'
      BY <1>1 DEF Run, KnownInv
    <3>1. L = {}
      BY <1>1, <1>r DEF Run
    <3> QED BY <1>1, <1>k, <3>1, NextKnows DEF Run
  <2> QED BY <1>1, <2>1, <2>2, <2>3 DEF Run, ScriptTypeOK, ByHandInv
<1>2. CASE Script
  <2>1. TypeOK' /\ ScriptTypeOK'
    BY <1>2, ScriptType
  <2>2. UNCHANGED daemonVars
    BY <1>2 DEF Script, Succeeded, GaveUp, ReadRecorded, ScanStopped, Continue, PassOver,
                ScriptReset, ScriptDrainFocus, ScriptDrainBackground, ScriptUnlock, MarkClean, vars
  <2>3. JobInv'
    BY <2>2 DEF JobInv, daemonVars, handler, memVars
  <2>4. ByHandInv' /\ KnownInv'
    BY <1>2, <2>2, ScriptByHand, ScriptKnows
  <2>5. MemoryInv'
    BY <2>2 DEF MemoryInv, daemonVars, handler, memVars
  <2>6. RecordInv'
    <3>1. stopped' \subseteq stopped /\ file' \in {file, Fresh}
      BY <1>2 DEF Script, Succeeded, GaveUp, ReadRecorded, ScanStopped, Continue, PassOver,
                  ScriptReset, ScriptDrainFocus, ScriptDrainBackground, ScriptUnlock, MarkClean, vars
    <3> QED BY <2>2, <3>1 DEF RecordInv, Known, Recoverable, Fresh, daemonVars, memVars
  <2> QED BY <2>1, <2>3, <2>4, <2>5, <2>6
<1>3. CASE Meanwhile \/ TakeRequest \/ PowerFails
  <2>1. TypeOK' /\ JobInv' /\ ScriptTypeOK'
    BY <1>3, Beside, NextType, NextJob, MeanwhileType
  <2>2. ByHandInv'
    <3> USE DEF ByHandInv
    <3>1. CASE PowerFails
      BY <3>1 DEF PowerFails
    <3>2. CASE Meanwhile \/ TakeRequest
      <4> SUFFICES ASSUME script' \in ByHand, ~beside' PROVE ByHandInv'
        OBVIOUS
      <4>1. UNCHANGED <<script, left, unread, passed, told>> /\ ~beside /\ job' # "mode"
        BY <3>2 DEF Meanwhile, TakeRequest, EmergencyRestore, BeginRestore, ScriptTypeOK
      <4>2. job # "mode"
        BY <4>1
      <4>3. /\ stopped' \subseteq stopped /\ limits' \in {limits, "Normal"}
            /\ CompositorObeys /\ locked' => locked
        BY <3>2, <4>2, Beside, OnlyModesTakeHold
      <4>4. stopped' \cap Known' \subseteq stopped \cap Known
        BY <3>2, <4>1, <4>2, Beside, OnlyModesLearn
      <4> QED BY <4>1, <4>3, <4>4
    <3> QED BY <1>3, <3>1, <3>2
  <2>3. MemoryInv' /\ RecordInv'
    BY <1>3, Beside, NextMemory, NextRecord
  <2>4. KnownInv'
    <3>1. CASE PowerFails
      BY <3>1 DEF PowerFails, PowerLoss, KernelReset, KnownInv, FileKnowsAllBut, ScriptTypeOK
    <3>2. CASE Meanwhile \/ TakeRequest
      <4>1. UNCHANGED <<script, unread>> /\ (~beside' => ~beside)
        BY <3>2 DEF Meanwhile, TakeRequest, ScriptTypeOK
      <4>2. script' \in {"none", "asked"} => beside' = beside
        BY <3>2 DEF Meanwhile, TakeRequest, ScriptTypeOK
      <4>3. ~beside => FileKnowsAllBut(L)'
        BY <1>k, <3>2, Beside, NextKnows
      <4> QED BY <1>r, <4>1, <4>2, <4>3 DEF KnownInv
    <3> QED BY <1>3, <3>1, <3>2
  <2> QED BY <2>1, <2>2, <2>3, <2>4
<1>4. CASE UNCHANGED escapeVars
  <2>1. TypeOK' /\ JobInv'
    BY <1>4, NextType, NextJob DEF escapeVars
  <2>2. MemoryInv' /\ RecordInv'
    BY <1>4, NextMemory, NextRecord DEF escapeVars
  <2>3. KnownInv'
    BY <1>4 DEF escapeVars, scriptVars, vars, daemonVars, memVars, KnownInv, FileKnowsAllBut,
                Recoverable
  <2>4. UNCHANGED Known
    BY <1>4 DEF escapeVars, vars, daemonVars, memVars, Known, Recoverable
  <2> QED BY <1>4, <2>1, <2>2, <2>3, <2>4 DEF escapeVars, scriptVars, vars, daemonVars, handler,
                                             ScriptTypeOK, ByHandInv
<1> QED BY <1>1, <1>2, <1>3, <1>4 DEF EscapeNext

\* Before the script is run nothing is claimed of it.
LEMMA InitEscape == EscapeInit => EscapeInv
<1> SUFFICES ASSUME EscapeInit PROVE EscapeInv
  OBVIOUS
<1>1. TypeOK /\ ScriptTypeOK /\ JobInv /\ ByHandInv
  BY InitType, InitCore DEF EscapeInit, ScriptTypeOK, CoreInv, ByHandInv, ByHand
<1>2. MemoryInv /\ RecordInv /\ KnownInv
  BY DEF EscapeInit, Init, KernelInit, MemoryInv, RecordInv, KnownInv, FileKnowsAllBut
<1> QED BY <1>1, <1>2 DEF EscapeInv

------------------------------------------------------------------------
(* The theorems *)

(* The restore by hand of emergency-restore.sh makes progress that no step
   of a daemon, dead, recovering or alive, takes back, unless it is a step of a
   SetMode handler. *)
THEOREM Progress == EscapeSpec => []EscapeInv
  BY InitEscape, NextEscape, PTL DEF EscapeSpec

(* What mark_clean (emergency-restore.sh) writes, held against the machine: no
   limit is in force, switching is locked only if unlock_workspaces sent nothing the
   compositor heard, and a process is stopped only if thaw_all_stopped passed over
   its name and it was in no record, or in one the script had no jq to read. Unless a
   SetMode handler ran beside the script. *)
THEOREM CleanByHand == EscapeSpec => RestoredByHand
<1>1. ASSUME EscapeInv, MarkClean, ~beside
      PROVE  /\ limits' = "Normal"
             /\ CompositorObeys /\ told => ~locked'
             /\ stopped' \subseteq passed \cap (Stranded \cup unread)
  BY <1>1 DEF EscapeInv, ByHandInv, ByHand, MarkClean, kernelVars, Stranded
<1>2. EscapeInv /\ [EscapeNext]_escapeVars
        => [MarkClean /\ ~beside =>
              /\ limits' = "Normal"
              /\ CompositorObeys /\ told => ~locked'
              /\ stopped' \subseteq passed \cap (Stranded \cup unread)]_escapeVars
  BY <1>1
<1> QED BY <1>2, Progress, PTL DEF EscapeSpec, RestoredByHand

\* Whatever the daemon does from a file that knows what it holds but for L, it
\* strands nothing but that.
LEMMA DaemonStrands ==
    ASSUME NEW L, TypeOK, JobInv, MemoryInv, FileKnowsAllBut(L), [Next]_vars
    PROVE  Stranded' \subseteq Stranded \cup L \/ (pc \in FreezeWindow /\ pc' \in NotRunning)
<1> USE DEF MemoryInv, FileKnowsAllBut, Stranded, Known, Recoverable, ThawedSteps, NotRunning, Recovering,
            FreezeWindow, Goto, handler, table, cgroups, memVars, daemonVars, kernelVars
<1>1. CASE Start \/ Restart
  BY <1>1 DEF Start, Restart, Boot, RecordedPids
<1>2. CASE Recovery
  <2>1. CASE \E p \in Pids : ThawRecorded(p)
    BY <2>1 DEF ThawRecorded, Rest
  <2>2. CASE ThawedRecorded \/ UnlockRecorded \/ SaveRecovered \/ New
    BY <2>2 DEF ThawedRecorded, UnlockRecorded, SaveRecovered, New
  <2> QED BY <1>2, <2>1, <2>2 DEF Recovery
<1>3. CASE Command \/ TakeSignal
  BY <1>3 DEF Command, TakeSignal, SetMode, EmergencyRestore, Shutdown, BeginRestore,
              SetFocus, ClearFocus
<1>4. CASE Handler
  <2>1. CASE \E p \in Pids : Thaw(p) \/ PopulateBackground(p) \/ Freeze(p)
    BY <2>1 DEF Thaw, PopulateBackground, Freeze, Rest
  <2>2. CASE Relax \/ ResetLimits \/ DrainFocus \/ DrainBackground
    BY <2>2 DEF Relax, ResetLimits, DrainFocus, DrainBackground
  <2>3. CASE RestoreUnlock \/ FinishEmergency \/ FinishQuit \/ FinishSignal
    BY <2>3 DEF RestoreUnlock, FinishEmergency, FinishQuit, FinishSignal, Forget, Fresh
  <2>4. CASE Apply \/ ScanTree \/ ScanPids \/ Populated \/ LockThenFreeze \/ UnlockThenThaw
    BY <2>4 DEF Apply, ScanTree, ScanPids, Populated, LockThenFreeze, UnlockThenThaw
  <2>5. CASE ScanAll \/ ScanFocus \/ FrozeAll \/ Persist
    BY <2>5 DEF ScanAll, ScanFocus, FrozeAll, Persist
  <2> QED BY <1>4, <2>1, <2>2, <2>3, <2>4, <2>5 DEF Handler
<1>5. CASE ExitNow \/ Crash \/ KilledAtStartup
  BY <1>5 DEF ExitNow, Crash, KilledAtStartup
<1>6. CASE PowerLoss
  BY <1>6 DEF PowerLoss, KernelReset
<1>7. CASE Signal \/ Machine \/ UNCHANGED vars
  BY <1>7 DEF Signal, Machine, Launch, Fork, Exit, vars
<1> QED BY <1>1, <1>2, <1>3, <1>4, <1>5, <1>6, <1>7 DEF Next

(* emergency-restore.sh, which writes the state file the daemon recovers from,
   makes daemon and file forget no stopped process, but one that it had no jq to read
   of and has not continued since; unless a SetMode handler ran beside it. *)
THEOREM ScriptIsSafe == EscapeSpec => ScriptStrandsNothing
<1>1. ASSUME EscapeInv, [EscapeNext]_escapeVars, ~beside'
      PROVE  Stranded' \subseteq Stranded \cup unread \/ (pc \in FreezeWindow /\ pc' \in NotRunning)
  <2>1. CASE Script
    <3>1. ~beside /\ UNCHANGED daemonVars
      BY <1>1, <2>1 DEF EscapeInv, KnownInv, Script, Succeeded, GaveUp, ReadRecorded, ScanStopped,
           Continue, PassOver, ScriptReset, ScriptDrainFocus, ScriptDrainBackground, ScriptUnlock,
           MarkClean, vars
    <3>2. /\ stopped' \subseteq stopped
          /\ file' = file \/ stopped \cap Known \subseteq unread
      BY <1>1, <2>1, <3>1, ScriptReleases DEF EscapeInv
    <3> QED BY <3>1, <3>2 DEF Stranded, Known, Recoverable, daemonVars, memVars
  <2>2. CASE Run \/ UNCHANGED escapeVars
    BY <2>2 DEF Run, escapeVars, vars, kernelVars, daemonVars, memVars, Stranded, Known, Recoverable
  <2>3. CASE Meanwhile \/ TakeRequest \/ PowerFails
    <3>1. ~beside
      BY <1>1, <2>3 DEF Meanwhile, TakeRequest, PowerFails, EscapeInv, ScriptTypeOK
    <3>2. PICK L : L = IF script = "done" THEN unread ELSE {}
      OBVIOUS
    <3>3. FileKnowsAllBut(L)
      BY <1>1, <3>1, <3>2 DEF EscapeInv, KnownInv
    <3>4. Stranded' \subseteq Stranded \cup L \/ (pc \in FreezeWindow /\ pc' \in NotRunning)
      BY <1>1, <2>3, <3>3, Beside, DaemonStrands DEF EscapeInv
    <3> QED BY <3>2, <3>4
  <2> QED BY <1>1, <2>1, <2>2, <2>3 DEF EscapeNext
<1>2. EscapeInv /\ [EscapeNext]_escapeVars
        => [~beside' => \/ Stranded' \subseteq Stranded \cup unread
                        \/ pc \in FreezeWindow /\ pc' \in NotRunning]_escapeVars
  BY <1>1
<1> QED BY <1>2, Progress, PTL DEF EscapeSpec, ScriptStrandsNothing

(* The ranking argument for the end of emergency-restore.sh: each of its steps
   goes forward or visits one pid less, and no step of the daemon, the machine or
   another process takes it back. *)
THEOREM ScriptGoesOn == EscapeSpec => ScriptAdvances
<1>1. ASSUME EscapeInv, Script PROVE ScriptForward
  <2> USE DEF ScriptForward, ScriptRank, ScriptGoto
  <2>1. CASE Succeeded \/ GaveUp \/ ReadRecorded \/ ScanStopped
    BY <2>1 DEF Succeeded, GaveUp, ReadRecorded, ScanStopped
  <2>2. ASSUME NEW p \in Pids, Continue(p) \/ PassOver(p) PROVE ScriptForward
    BY <2>2 DEF Continue, PassOver
  <2>3. CASE ScriptReset \/ ScriptDrainFocus \/ ScriptDrainBackground \/ ScriptUnlock \/ MarkClean
    BY <2>3 DEF ScriptReset, ScriptDrainFocus, ScriptDrainBackground, ScriptUnlock, MarkClean
  <2> QED BY <1>1, <2>1, <2>2, <2>3 DEF Script
<1>2. ASSUME EscapeInv, [EscapeNext]_escapeVars, script \notin {"none", "done"}
      PROVE  ScriptForward \/ UNCHANGED <<script, left>>
  <2>1. CASE PowerFails
    BY <1>2, <2>1 DEF PowerFails, ScriptGoto, ScriptForward, ScriptRank, EscapeInv, ScriptTypeOK,
                      ByHand
  <2>2. CASE Run \/ TakeRequest \/ Meanwhile \/ UNCHANGED escapeVars
    BY <1>2, <2>2 DEF Run, TakeRequest, Meanwhile, escapeVars, scriptVars
  <2> QED BY <1>1, <1>2, <2>1, <2>2 DEF EscapeNext
<1>3. EscapeInv /\ [EscapeNext]_escapeVars
        => [/\ Script => ScriptForward
            /\ script \notin {"none", "done"} => ScriptForward \/ UNCHANGED <<script, left>>]_escapeVars
  BY <1>1, <1>2
<1> QED BY <1>3, Progress, PTL DEF EscapeSpec, ScriptAdvances
=======================================================================
