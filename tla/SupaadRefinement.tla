----------------------- MODULE SupaadRefinement -----------------------
(* The proof that the daemon implements WriteAhead, for every set of pids,
   every whitelist and both kinds of compositor. *)
EXTENDS SupaadProofs

\* A session not yet begun maps to one.
LEMMA InitJournal == Init => Journal!Init
<1> SUFFICES ASSUME Init PROVE Journal!Init
  OBVIOUS
<1>1. pc \in NotRunning /\ limits = "Normal" /\ file.clean = TRUE
  BY DEF Init, KernelInit, Fresh, NotRunning
<1>2. (~file.clean) = FALSE
  BY <1>1
<1> QED BY <1>1, <1>2 DEF Journal!Init, Phase, Known, Recoverable

\* A daemon dies, by exit, signal or fault: what is known is what is on disk.
LEMMA DeathFails ==
    ASSUME pc' \in NotRunning, file' = file, limits' \in {limits, "Normal"}
    PROVE  Journal!Fail
  BY DEF Journal!Fail, Phase, Known, Recoverable

\* Startup undoes what the file names.
LEMMA StartupRefines ==
    ASSUME CoreInv, [Next]_vars, Start \/ Restart \/ Recovery
    PROVE  [Journal!Next]_<<Phase, limits, Known, ~file.clean, Recoverable>>
<1> USE DEF NotRunning, Recovering, Goto, table, cgroups, handler, memVars, daemonVars, kernelVars
<1>1. CASE Start \/ Restart
  BY <1>1 DEF Start, Restart, Boot, RecordedPids, CoreInv, FrozenInv, ThawedSteps, JobInv,
              Journal!Next, Journal!Start, Phase, Known, Recoverable
<1>2. ASSUME NEW p \in Pids, ThawRecorded(p)
      PROVE  Journal!Undo
  BY <1>2 DEF ThawRecorded, Rest, CoreInv, FileInv, Journal!Undo, Phase, Known, Recoverable
<1>3. CASE ThawedRecorded \/ UnlockRecorded
  BY <1>3 DEF ThawedRecorded, UnlockRecorded, CoreInv, FrozenInv, ThawedSteps, JobInv,
              Phase, Known, Recoverable
<1>4. CASE SaveRecovered
  BY <1>4 DEF SaveRecovered, Fresh, CoreInv, FrozenInv, LimitsInv, ThawedSteps,
              Journal!Recovered, Journal!Undone, Phase, Known, Recoverable, Journal!Next
<1>5. CASE New
  BY <1>5 DEF New, Fresh, CoreInv, FrozenInv, FileInv, LimitsInv, ColdInv, JobInv, ThawedSteps,
              Journal!Recovered, Journal!Undone, Phase, Known, Recoverable, Journal!Next
<1> QED BY <1>1, <1>2, <1>3, <1>4, <1>5 DEF Recovery, Journal!Next

\* While a handler is at work the file asks for the undoing.
LEMMA WorkRefines ==
    ASSUME CoreInv, CoreInv', job \notin {"none", "recover"}, job' = job, file' = file,
           pc \notin Recovering, pc' \notin Recovering
    PROVE  Journal!Work
<1>1. /\ pc \notin NotRunning \cup {"idle"} /\ pc' \notin NotRunning \cup {"idle"}
      /\ ~file.clean
  BY DEF CoreInv, JobInv, FileInv
<1>2. Known' \in SUBSET Pids /\ limits' \in Mode
  BY DEF CoreInv, TypeOK, KernelTypeOK, State, Known, Recoverable
<1> QED BY <1>1, <1>2 DEF Journal!Work, Phase, Recoverable

\* The steps of handle_set_mode and restore_all between the two saves.
LEMMA EffectRefines ==
    ASSUME CoreInv, CoreInv',
           \/ \E p \in Pids : Thaw(p) \/ PopulateBackground(p) \/ Freeze(p)
           \/ Relax \/ RestoreUnlock \/ Apply \/ ScanTree \/ ScanPids \/ Populated
           \/ LockThenFreeze \/ UnlockThenThaw \/ ScanAll \/ ScanFocus \/ FrozeAll
    PROVE  Journal!Work
<1> USE DEF Goto, handler, memVars, daemonVars
<1>1. pc \in HandlerSteps /\ job' = job /\ file' = file
  <2>1. CASE \E p \in Pids : Thaw(p) \/ PopulateBackground(p) \/ Freeze(p)
    BY <2>1 DEF Thaw, PopulateBackground, Freeze, HandlerSteps
  <2>2. CASE Relax \/ RestoreUnlock \/ Apply \/ ScanTree \/ ScanPids \/ Populated
    BY <2>2 DEF Relax, RestoreUnlock, Apply, ScanTree, ScanPids, Populated, HandlerSteps
  <2>3. CASE LockThenFreeze \/ UnlockThenThaw \/ ScanAll \/ ScanFocus \/ FrozeAll
    BY <2>3 DEF LockThenFreeze, UnlockThenThaw, ScanAll, ScanFocus, FrozeAll, HandlerSteps
  <2> QED BY <2>1, <2>2, <2>3
<1>2. job \notin {"none", "recover"}
  BY <1>1 DEF CoreInv, JobInv
<1>3. pc \notin Recovering /\ pc' \notin Recovering
  BY <1>1, <1>2 DEF CoreInv, JobInv, HandlerSteps, Recovering
<1> QED BY <1>1, <1>2, <1>3, WorkRefines

\* teardown_cgroups, called by a handler or by run_recovery.
LEMMA TeardownRefines ==
    ASSUME CoreInv, CoreInv', ResetLimits \/ DrainFocus \/ DrainBackground
    PROVE  Journal!Work \/ Journal!Undo
<1> USE DEF Goto, table, handler, memVars, daemonVars
<1>1. /\ pc \in TeardownSteps \cup {"thaw"} /\ job' = job /\ file' = file /\ frozen' = frozen
      /\ limits' \in {limits, "Normal"} /\ job # "none"
      /\ pc' \in {"drain", "remove", "save_recovered", "apply", "unlock"}
      /\ pc' = "save_recovered" => job = "recover"
  BY DEF ResetLimits, DrainFocus, DrainBackground, SetLimits, TeardownSteps, cgroups, CoreInv, JobInv,
         HandlerSteps
<1>2. CASE job = "recover"
  <2>1. ~file.clean
    BY <1>1 DEF CoreInv, FileInv
  <2>2. Known' = Known
    BY <1>1 DEF Known, NotRunning, TeardownSteps
  <2>3. Phase = "starting" /\ Phase' = "starting"
    BY <1>1, <1>2 DEF Phase, NotRunning, TeardownSteps
  <2> QED BY <1>1, <2>1, <2>2, <2>3 DEF Journal!Undo, Recoverable
<1>3. CASE job # "recover"
  BY <1>1, <1>3, WorkRefines DEF TeardownSteps, Recovering
<1> QED BY <1>2, <1>3

\* mark_dirty, before the first effect of a handler.
LEMMA MarkRefines ==
    ASSUME CoreInv, Save(MarkedDirty), UNCHANGED <<frozen, limits>>,
           pc = "idle", pc' \notin NotRunning \cup Recovering \cup {"idle"},
           job' \notin {"none", "recover"}
    PROVE  Journal!Mark
<1>1. st \in State /\ file = st /\ file' = MarkedDirty
  BY DEF CoreInv, TypeOK, FileInv, Save
<1>2. MarkedDirty.clean = FALSE /\ MarkedDirty.frozen = st.frozen
  BY <1>1, StateFacts DEF MarkedDirty
<1>3. Recoverable' = Recoverable
  BY <1>1, <1>2 DEF CoreInv, FileInv, Recoverable, Fresh
<1>4. Known' = Known
  BY DEF Known, NotRunning, Recovering
<1>5. Phase \in {"ready", "working"} /\ Phase' = "working"
  BY DEF CoreInv, JobInv, Phase, NotRunning, Recovering
<1>6. (~file.clean)' = TRUE
  BY <1>1, <1>2
<1> QED BY <1>3, <1>4, <1>5, <1>6 DEF Journal!Mark

\* The commands that change something start with mark_dirty; the others are
\* not seen.
LEMMA CommandRefines ==
    ASSUME CoreInv, CoreInv', Command \/ TakeSignal
    PROVE  Journal!Mark \/ UNCHANGED <<Phase, limits, Known, ~file.clean, Recoverable>>
<1> USE DEF Goto, cgroups, handler, memVars, daemonVars, kernelVars
<1>1. ASSUME NEW m \in Mode, SetMode(m) PROVE Journal!Mark
  BY <1>1, MarkRefines DEF SetMode, NotRunning, Recovering
<1>2. ASSUME NEW j \in {"emergency", "quit", "sigterm"}, BeginRestore(j) PROVE Journal!Mark
  BY <1>2, MarkRefines DEF BeginRestore, NotRunning, Recovering
<1>3. CASE ClearFocus \/ \E p \in Pids : SetFocus(p)
  BY <1>3 DEF ClearFocus, SetFocus, Phase, Known, Recoverable
<1> QED BY <1>1, <1>2, <1>3 DEF Command, EmergencyRestore, Shutdown, TakeSignal

\* The last save of a handler.
LEMMA OutcomeRefines ==
    ASSUME CoreInv, CoreInv', FinishEmergency \/ FinishQuit \/ FinishSignal \/ Persist
    PROVE  Journal!Record
<1> USE DEF Goto, cgroups, handler, memVars, daemonVars, kernelVars
<1>1. CASE FinishEmergency \/ FinishQuit \/ FinishSignal
  <2>1. limits' = "Normal" /\ limits = "Normal" /\ file' = Fresh /\ frozen = {}
    BY <1>1 DEF FinishEmergency, FinishQuit, FinishSignal, Save, CoreInv, LimitsInv, FrozenInv,
                ThawedSteps
  <2>2. Known = {} /\ Known' = {} /\ Recoverable' = {}
    BY <1>1, <2>1 DEF FinishEmergency, FinishQuit, FinishSignal, Known, Recoverable, Fresh,
                      NotRunning, Forget
  <2>3. Phase = "working" /\ Phase' \in {"ready", "working", "off"}
    BY <1>1 DEF FinishEmergency, FinishQuit, FinishSignal, Phase, NotRunning, Recovering
  <2>4. (~file.clean)' = FALSE
    BY <2>1 DEF Fresh
  <2> QED BY <2>1, <2>2, <2>3, <2>4 DEF Journal!Record, Journal!Undone
<1>2. CASE Persist
  <2>1. /\ pc = "persist" /\ pc' = "idle" /\ job = "mode" /\ job' = "none" /\ file' = Outcome
        /\ UNCHANGED <<limits, frozen>> /\ st.clean = FALSE
        /\ mode = "Normal" => limits = "Normal" /\ frozen = {}
        /\ mode # "Normal" => limits # "Normal"
    BY <1>2 DEF Persist, Save, CoreInv, TypeOK, State, JobInv, FileInv, LimitsInv, FrozenInv
  <2>2. Known = frozen /\ Known' = frozen
    BY <2>1 DEF Known, NotRunning
  <2>3. file'.clean = (mode = "Normal") /\ file'.frozen = frozen
    BY <2>1 DEF Outcome
  <2>4. Recoverable' = frozen /\ (~file.clean)' = (limits # "Normal")
    BY <2>1, <2>3 DEF Recoverable
  <2>5. Phase = "working" /\ Phase' \in {"ready", "working"}
    BY <2>1 DEF Phase, NotRunning, Recovering
  <2> QED BY <2>1, <2>2, <2>4, <2>5 DEF Journal!Record, Journal!Undone
<1> QED BY <1>1, <1>2

\* Whatever the step, it is one of the journal or leaves it alone.
LEMMA NextRefines ==
    ASSUME CoreInv, [Next]_vars
    PROVE  [Journal!Next]_<<Phase, limits, Known, ~file.clean, Recoverable>>
<1>0. CoreInv'
  BY NextCore
<1>1. CASE Start \/ Restart \/ Recovery
  BY <1>1, StartupRefines
<1>2. CASE Command \/ TakeSignal
  BY <1>0, <1>2, CommandRefines DEF Journal!Next
<1>3. CASE Handler
  BY <1>0, <1>3, EffectRefines, TeardownRefines, OutcomeRefines DEF Handler, Journal!Next
<1>4. CASE ExitNow \/ KilledAtStartup \/ Crash
  BY <1>4, DeathFails DEF ExitNow, KilledAtStartup, Crash, Goto, kernelVars, NotRunning,
                          Journal!Next
<1>5. CASE PowerLoss
  BY <1>5, DeathFails DEF PowerLoss, KernelReset, Goto, NotRunning, Journal!Next
<1>6. CASE Signal \/ Machine \/ UNCHANGED vars
  BY <1>6 DEF Signal, Machine, Launch, Fork, Exit, vars, handler, memVars, daemonVars,
              kernelVars, Phase, Known, Recoverable
<1> QED BY <1>1, <1>2, <1>3, <1>4, <1>5, <1>6 DEF Next

(* supaad implements the write-ahead record: mark_dirty before the first
   effect of every handler, the outcome saved when it rests, recovery from
   the file alone, whatever step a crash, a signal or a power loss comes at. *)
THEOREM RefinesWriteAhead == Spec => ImplementsWriteAhead
<1>1. CoreInv /\ [Next]_vars => [Journal!Next]_<<Phase, limits, Known, ~file.clean, Recoverable>>
  BY NextRefines
<1> QED BY <1>1, InitJournal, CoreInvariance, PTL DEF Spec, ImplementsWriteAhead, Journal!Spec,
           Journal!vars
=======================================================================
