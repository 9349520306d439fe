--------------------------- MODULE StateFile ---------------------------
(* The state file, one file operation at a time: save_state writes the
   record to a temporary file, flushes it and renames it over the target.
   Any of these may fail, the daemon may be killed and the power may go
   between any two of them. Around the saves are the handlers that call
   them and the recovery that reads the file, with their effects on the
   machine reduced to what a record may have to undo.

   A record is one of three: "clean", "dirty", and "frozen", the dirty one
   that also names frozen pids and the workspace lock. *)
EXTENDS Modes

CONSTANTS
    MayFail,    \* a file operation may return an error, e.g. the disk is full
    MayCrash    \* the daemon or the machine may fail

ASSUME StateFileAssumption == {MayFail, MayCrash} \subseteq BOOLEAN

VARIABLES
    target, tmp,  \* contents of STATE_FILE and of STATE_FILE.tmp
    flushed,      \* the data of tmp is on the disk
    durable,      \* what a power loss may leave in STATE_FILE
    inForce,      \* what the daemons have done to the machine and not undone
    pc, next,     \* the daemon's next step; what it does when save_state returns
    mode, goal,   \* self.mode, and what the running handler goes to
    st,           \* self.state
    lost          \* history: the last save failed

disk   == <<target, tmp, flushed, durable>>
daemon == <<pc, next, mode, goal, st>>
vars   == <<disk, inForce, daemon, lost>>

Record  == {"clean", "dirty", "frozen"}
Content == Record \cup {"absent", "torn"}
Effect  == {"limits", "stopped"}
Goal    == Mode \cup {"Exit"}    \* a full restore, then the process ends
Saving  == {"create", "write", "sync", "rename"}

TypeOK ==
    /\ {target, tmp} \subseteq Content /\ durable \in SUBSET Content
    /\ {flushed, lost} \subseteq BOOLEAN
    /\ inForce \in SUBSET Effect
    /\ pc \in Saving \cup {"down", "recover", "idle", "undo", "apply"}
    /\ next \in {"down", "idle", "undo"}
    /\ mode \in Mode /\ goal \in Goal /\ st \in Record

------------------------------------------------------------------------
(* Building blocks. As in Supaad, a name that says what is wrong with a
   definition marks a faulty variant of the one that follows. *)

\* What a mode does to the machine, and the record of it.
Off == {"Normal", "Exit"}
Caused(m) == {e \in Effect : IF e = "limits" THEN m \notin Off ELSE ShouldFreeze(m)}
Outcome(m) == CASE m \in Off -> "clean"
                [] ShouldFreeze(m) -> "frozen"
                [] OTHER -> "dirty"

MarkedDirtyNot(r) == r
MarkedDirty(r) == IF r = "clean" THEN "dirty" ELSE r

\* A file that is missing or does not parse is no state: a fresh start.
NeedsRecovery(c) == c \in {"dirty", "frozen"}

\* run_recovery resets every limit, and thaws the pids the record names.
UndoneBy(c) == IF c = "frozen" THEN Effect ELSE {"limits"}

\* save_state(st), and then `then`, whether it succeeded or not.
Save(then) == pc' = "create" /\ next' = then

\* A process that ended, in canonical form.
Ended == pc' = "down" /\ next' = "idle" /\ mode' = "Normal" /\ goal' = "Normal" /\ st' = "clean"

Return == IF next = "down" THEN Ended ELSE pc' = next /\ UNCHANGED <<next, mode, goal, st>>

------------------------------------------------------------------------
(* save_state *)

\* File::create makes an empty file, or empties the one that is there.
CreateTmp ==
    /\ pc = "create"
    /\ tmp' = "torn" /\ flushed' = FALSE
    /\ pc' = "write"
    /\ UNCHANGED <<target, durable, inForce, next, mode, goal, st, lost>>

WriteTmp ==
    /\ pc = "write"
    /\ tmp' = st
    /\ pc' = "sync"
    /\ UNCHANGED <<target, flushed, durable, inForce, next, mode, goal, st, lost>>

SyncTmpNot == pc = "sync" /\ pc' = "rename" /\ UNCHANGED <<disk, inForce, next, mode, goal, st, lost>>
SyncTmp ==
    /\ pc = "sync"
    /\ flushed' = TRUE
    /\ pc' = "rename"
    /\ UNCHANGED <<target, tmp, durable, inForce, next, mode, goal, st, lost>>

\* The directory is not flushed: the rename may be undone by a power loss,
\* and file data that was not flushed may be missing after it.
RenameTmp ==
    /\ pc = "rename"
    /\ target' = tmp /\ tmp' = "absent"
    /\ durable' = durable \cup {tmp} \cup (IF flushed THEN {} ELSE {"torn"})
    /\ lost' = FALSE
    /\ Return
    /\ UNCHANGED <<flushed, inForce>>

\* An operation fails and `?` returns the error, which every caller drops;
\* the temporary file stays behind. As a variant, a failed write is missed.
SaveFailedUnnoticed ==
    /\ MayFail /\ pc = "write"
    /\ pc' = "sync"
    /\ UNCHANGED <<disk, inForce, next, mode, goal, st, lost>>
SaveFailed ==
    /\ MayFail /\ pc \in Saving
    /\ lost' = TRUE
    /\ Return
    /\ UNCHANGED <<disk, inForce>>

------------------------------------------------------------------------
(* The callers *)

\* load_state and the two early returns of run_recovery.
Start ==
    /\ pc = "down"
    /\ pc' = IF NeedsRecovery(target) THEN "recover" ELSE "idle"
    /\ UNCHANGED <<disk, inForce, next, mode, goal, st, lost>>

\* The rest of run_recovery; without a clean file it goes on all the same.
Recover ==
    /\ pc = "recover"
    /\ inForce' = inForce \ UndoneBy(target)
    /\ Save("idle")
    /\ UNCHANGED <<disk, mode, goal, st, lost>>

\* Every handler starts with mark_dirty.
Begin(g) ==
    /\ pc = "idle"
    /\ goal' = g
    /\ st' = MarkedDirty(st)
    /\ Save("undo")
    /\ UNCHANGED <<disk, inForce, mode, lost>>

SetMode(m) == m # mode /\ Begin(m)

\* EmergencyRestore, with or without quit_after; Shutdown and the signal task.
RestoreAll(g) == Begin(g)

\* restore_on_transition or restore_all; on the way to Normal every limit is
\* reset, whoever set it.
UndoOwnOnly ==
    /\ pc = "undo"
    /\ inForce' = inForce \ Caused(mode)
    /\ pc' = "apply"
    /\ UNCHANGED <<disk, next, mode, goal, st, lost>>
Undo ==
    /\ pc = "undo"
    /\ inForce' = inForce \ (Caused(mode) \cup (IF goal \in Off THEN {"limits"} ELSE {}))
    /\ pc' = "apply"
    /\ UNCHANGED <<disk, next, mode, goal, st, lost>>

\* apply_mode, then the outcome saved; shutdown() leaves self.mode alone.
Apply ==
    /\ pc = "apply"
    /\ inForce' = inForce \cup Caused(goal)
    /\ mode' = (IF goal = "Exit" THEN mode ELSE goal)
    /\ st' = Outcome(goal)
    /\ Save(IF goal = "Exit" THEN "down" ELSE "idle")
    /\ UNCHANGED <<disk, goal, lost>>

------------------------------------------------------------------------
(* The machine *)

\* The file system's journal catches up.
Commit ==
    /\ durable # {target}
    /\ durable' = {target}
    /\ UNCHANGED <<target, tmp, flushed, inForce, daemon, lost>>

\* The process ends; the files and what was done to the machine stay.
Crash ==
    /\ MayCrash /\ pc # "down"
    /\ Ended
    /\ UNCHANGED <<disk, inForce, lost>>

\* Processes and cgroups are gone; of the files, what is on the disk stays.
PowerLoss ==
    /\ MayCrash
    /\ target' \in durable /\ durable' = {target'}
    /\ tmp' = "absent" /\ flushed' = TRUE
    /\ inForce' = {}
    /\ Ended
    /\ UNCHANGED lost

Init ==
    /\ target = "absent" /\ tmp = "absent" /\ flushed = TRUE /\ durable = {"absent"}
    /\ inForce = {} /\ lost = FALSE
    /\ pc = "down" /\ next = "idle" /\ mode = "Normal" /\ goal = "Normal" /\ st = "clean"

SaveState == CreateTmp \/ WriteTmp \/ SyncTmp \/ RenameTmp \/ SaveFailed
Caller    == Start \/ Recover \/ (\E m \in Mode : SetMode(m))
                \/ (\E g \in Off : RestoreAll(g)) \/ Undo \/ Apply
Next      == SaveState \/ Caller \/ Commit \/ Crash \/ PowerLoss

Spec == Init /\ [][Next]_vars

------------------------------------------------------------------------
(* Properties *)

(* recovery.rs:3: "a crash mid-write cannot corrupt it". Neither a kill, nor
   a failed write, nor a power loss leaves half a record where load_state
   finds it, which would count as a fresh start and skip recovery. *)
NeverTorn == "torn" \notin durable \cup {target}

(* Limits are in force behind a file that does not ask for recovery only if
   the last save failed: no order of handlers, crashes, recoveries, failed
   saves and power losses, the rollback of a rename included, gets there
   otherwise, and the next save that succeeds makes it good. *)
ExposedOnlyByFailure ==
    "limits" \in inForce /\ ~NeedsRecovery(target) => lost

(* save_state makes of two files, a flush and a rename one atomic record:
   the abstraction the module Supaad uses for its variable file. *)
Reg == INSTANCE Register
         WITH Value <- Record \cup {"absent"}, value <- target, survivors <- durable
ImplementsRegister == Reg!Spec

------------------------------------------------------------------------
(* The inductive invariant *)

\* The temporary file holds the whole record once it is written, and is on
\* the disk once it is flushed.
TmpInv ==
    /\ pc \in {"sync", "rename"} => tmp = st
    /\ pc = "rename" => flushed

\* What a power loss may leave is whole, and includes what is there now.
DiskInv == NeverTorn /\ target \in durable

\* From mark_dirty to the save of the outcome the file asks for recovery or
\* the last save failed; a clean record is written only with limits reset.
MarkInv ==
    /\ pc \in {"undo", "apply"} => NeedsRecovery(target) \/ lost
    /\ pc \in Saving =>
         IF next = "undo" THEN NeedsRecovery(st)
         ELSE "limits" \in inForce => NeedsRecovery(st)
    /\ pc = "apply" /\ goal \in Off => "limits" \notin inForce
    /\ pc = "recover" => NeedsRecovery(target)
    /\ pc \in {"down", "recover"} => st = "clean" /\ next = "idle"

IInv == TypeOK /\ TmpInv /\ DiskInv /\ MarkInv /\ ExposedOnlyByFailure
=======================================================================
