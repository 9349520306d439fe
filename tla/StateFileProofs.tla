------------------------ MODULE StateFileProofs ------------------------
(* Proofs about the state file: no torn record, no exposure but by a failed
   save, and the refinement of the atomic register. They hold whether or
   not operations may fail and the machine may crash. *)
EXTENDS StateFile, TLAPS

\* The records mark_dirty and a finished handler write.
LEMMA RecordFacts ==
    /\ \A r \in Record : MarkedDirty(r) \in Record /\ NeedsRecovery(MarkedDirty(r))
    /\ \A g \in Goal : /\ Outcome(g) \in Record
                       /\ Caused(g) \in SUBSET Effect
                       /\ g \in Off \/ NeedsRecovery(Outcome(g))
                       /\ g \in Off => "limits" \notin Caused(g)
  BY DEF Record, MarkedDirty, NeedsRecovery, Goal, Mode, Outcome, Off, Caused, ShouldFreeze, Effect

\* The first daemon, with nothing on the disk.
LEMMA InitIInv == Init => IInv
  BY DEF Init, IInv, TypeOK, TmpInv, DiskInv, MarkInv, ExposedOnlyByFailure, NeverTorn,
         NeedsRecovery, Content, Record, Saving, Goal, Mode, Off, Effect

\* Each step keeps the invariant: one case per action of Next.
LEMMA NextIInv == IInv /\ [Next]_vars => IInv'
<1> SUFFICES ASSUME IInv, [Next]_vars PROVE IInv'
  OBVIOUS
<1> USE DEF IInv, TypeOK, TmpInv, DiskInv, MarkInv, ExposedOnlyByFailure, NeverTorn, Saving,
            Ended, Save, Return, disk, daemon
<1>1. CASE CreateTmp
  BY <1>1 DEF CreateTmp, Content
<1>2. CASE WriteTmp
  BY <1>2 DEF WriteTmp, Content
<1>3. CASE SyncTmp
  BY <1>3 DEF SyncTmp
<1>4. CASE RenameTmp
  BY <1>4 DEF RenameTmp, NeedsRecovery, Content, Record, Goal, Mode, Off
<1>5. CASE SaveFailed
  BY <1>5 DEF SaveFailed, Record, Goal, Mode, Off
<1>6. CASE Start
  BY <1>6 DEF Start
<1>7. CASE Recover
  BY <1>7 DEF Recover, UndoneBy, Effect
<1>8. ASSUME NEW g \in Goal, Begin(g) PROVE IInv'
  BY <1>8, RecordFacts DEF Begin
<1>9. CASE Undo
  BY <1>9 DEF Undo
<1>10. CASE Apply
  <2>1. st' \in Record /\ mode' \in Mode /\ inForce' \in SUBSET Effect
    BY <1>10, RecordFacts DEF Apply, Goal
  <2>2. "limits" \in inForce' => NeedsRecovery(st')
    BY <1>10, RecordFacts DEF Apply
  <2> QED BY <1>10, <2>1, <2>2 DEF Apply
<1>11. CASE Commit
  BY <1>11 DEF Commit
<1>12. CASE Crash
  BY <1>12 DEF Crash, Record, Goal, Mode, Off
<1>13. CASE PowerLoss
  BY <1>13 DEF PowerLoss, Record, Content, Goal, Mode, Off
<1>14. CASE UNCHANGED vars
  BY <1>14 DEF vars
<1>15. CASE \E g \in Goal : Begin(g)
  BY <1>8, <1>15
<1>16. Next => \/ SaveState \/ Start \/ Recover \/ Undo \/ Apply \/ Commit \/ Crash \/ PowerLoss
               \/ \E g \in Goal : Begin(g)
  BY DEF Next, Caller, SetMode, RestoreAll, Goal, Off, Mode
<1> HIDE DEF IInv
<1> QED
  BY <1>1, <1>2, <1>3, <1>4, <1>5, <1>6, <1>7, <1>9, <1>10, <1>11, <1>12, <1>13, <1>14, <1>15, <1>16
     DEF SaveState

(* The inductive invariant of recovery.rs's saves: what the two files, the
   flushed copies and the caller's record hold at each operation of
   save_state, whatever fails and whatever crashes. *)
THEOREM Invariance == Spec => []IInv
  BY InitIInv, NextIInv, PTL DEF Spec

(* Whatever fails and whatever crashes, load_state finds a whole record or
   none. *)
THEOREM NoTornRecord == Spec => []NeverTorn
<1>1. IInv => NeverTorn
  BY DEF IInv, DiskInv
<1> QED BY <1>1, Invariance, PTL

(* Limits in force behind a file that asks for no recovery are the work of a
   failed save and of nothing else. *)
THEOREM ExposureIsFailure == Spec => []ExposedOnlyByFailure
<1>1. IInv => ExposedOnlyByFailure
  BY DEF IInv
<1> QED BY <1>1, Invariance, PTL

(* save_state implements an atomic register: of its steps the rename alone
   is a write, of a record and of nothing else; a kill is not seen and a
   power loss goes back to a record that was once written. *)
THEOREM RefinesRegister == Spec => ImplementsRegister
<1>1. Init => Reg!Init
  BY DEF Init, Reg!Init
<1>2. IInv /\ [Next]_vars => [Reg!Next]_<<target, durable>>
  <2> SUFFICES ASSUME IInv, [Next]_vars PROVE [Reg!Next]_<<target, durable>>
    OBVIOUS
  <2>1. CASE RenameTmp
    <3>1. target' = st /\ durable' = durable \cup {st}
      BY <2>1 DEF RenameTmp, IInv, TmpInv
    <3>2. Reg!Write(st) /\ st \in Record
      BY <3>1 DEF Reg!Write, IInv, TypeOK
    <3> QED BY <3>2 DEF Reg!Next
  <2>2. CASE Commit
    BY <2>2 DEF Commit, Reg!Next, Reg!Commit
  <2>3. CASE PowerLoss
    BY <2>3 DEF PowerLoss, Reg!Next, Reg!PowerLoss
  <2>4. CASE CreateTmp \/ WriteTmp \/ SyncTmp \/ SaveFailed
    BY <2>4 DEF CreateTmp, WriteTmp, SyncTmp, SaveFailed, disk
  <2>5. CASE Caller
    BY <2>5 DEF Caller, Start, Recover, SetMode, RestoreAll, Begin, Undo, Apply, disk
  <2>6. CASE Crash \/ UNCHANGED vars
    BY <2>6 DEF Crash, vars, disk
  <2> QED BY <2>1, <2>2, <2>3, <2>4, <2>5, <2>6 DEF Next, SaveState
<1> QED BY <1>1, <1>2, Invariance, PTL DEF Spec, ImplementsRegister, Reg!Spec
=======================================================================
