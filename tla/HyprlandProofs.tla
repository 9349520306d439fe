------------------------ MODULE HyprlandProofs ------------------------
(* Proofs about the calls to the compositor, for every set of keys. *)
EXTENDS Hyprland, TLAPS

------------------------------------------------------------------------
(* The inductive invariant *)

\* A session that has just started is not locked.
LEMMA InitIInv == Init => IInv
  BY DEF Init, IInv, TypeOK, SteadyInv, Locked, Outcome

\* Every dispatch, and every end of a loop, keeps the invariant.
LEMMA NextIInv == IInv /\ [Next]_vars => IInv'
<1> SUFFICES ASSUME IInv, [Next]_vars PROVE IInv'
  OBVIOUS
<1> USE DEF IInv, TypeOK, SteadyInv, Locked, Outcome
<1>1. CASE UNCHANGED vars
  BY <1>1 DEF vars
<1>2. CASE Next
  <2>0. UNCHANGED <<weather, defined>>
    BY <1>2 DEF Next
  <2>1. CASE CallLock \/ CallUnlock
    BY <2>0, <2>1 DEF CallLock, CallUnlock
  <2>2. ASSUME NEW o \in weather, EnterSubmap(o) PROVE IInv'
    BY <2>0, <2>2 DEF EnterSubmap, Dispatch, Fallback, LockSubmap
  <2>3. ASSUME NEW o \in weather, LeaveSubmap(o) PROVE IInv'
    BY <2>0, <2>3 DEF LeaveSubmap, Dispatch, Fallback
  <2>4. ASSUME NEW o \in weather, NEW k \in Keys, BindKey(k, o) PROVE IInv'
    BY <2>0, <2>4 DEF BindKey, Dispatch
  <2>5. ASSUME NEW o \in weather, NEW k \in Keys, UnbindKey(k, o) PROVE IInv'
    BY <2>0, <2>5 DEF UnbindKey, Dispatch
  <2>6. CASE Visited
    BY <2>0, <2>6 DEF Visited
  <2>7. CASE SessionRestart
    BY <2>0, <2>7 DEF SessionRestart
  <2> QED
    BY <1>2, <2>1, <2>2, <2>3, <2>4, <2>5, <2>6, <2>7 DEF Next, Working
<1> QED BY <1>1, <1>2

(* With a compositor that always answers, never does, or is always late,
   lock_ and unlock_workspace_switching (hyprland.rs) never have to undo what the other
   method did. *)
THEOREM Invariance == Spec => []IInv
  BY InitIInv, NextIInv, PTL DEF Spec

------------------------------------------------------------------------
(* The properties *)

(* unlock_workspace_switching undoes lock_workspace_switching, whichever of
   the two methods each of them came to use, as long as the compositor
   does not change the way it answers. *)
THEOREM UnlockUndoes == Spec => UnlockUndoesLock
<1>1. ASSUME IInv, IInv', [Next]_vars,
             \A o, p \in weather : o = p, call \in {"unlock", "unbind"}, call' = "none"
      PROVE  ~Locked'
  <2> USE DEF IInv, TypeOK, SteadyInv, Locked, Outcome
  <2>1. weather = {"answered"} \/ weather = {"refused"} \/ weather = {"late"}
    <3>1. PICK o \in Outcome : o \in weather
      BY <1>1
    <3>2. weather = {o}
      BY <1>1, <3>1
    <3> QED BY <3>1, <3>2
  <2>2. UNCHANGED <<weather, defined>>
    BY <1>1 DEF Next, vars
  <2>3. (\E o \in weather : LeaveSubmap(o)) \/ Visited
    BY <1>1 DEF Next, vars, Working, CallLock, CallUnlock, EnterSubmap, BindKey, UnbindKey, SessionRestart
  <2>4. CASE Visited
    BY <1>1, <2>1, <2>2, <2>4 DEF Visited
  <2>5. ASSUME NEW o \in weather, LeaveSubmap(o) PROVE ~Locked'
    BY <1>1, <2>1, <2>2, <2>5 DEF LeaveSubmap, Dispatch, Fallback
  <2> QED BY <2>3, <2>4, <2>5
<1>2. IInv /\ IInv' /\ [Next]_vars
        => [(\A o, p \in weather : o = p) /\ call \in {"unlock", "unbind"} /\ call' = "none"
              => ~Locked']_vars
  BY <1>1
<1> QED BY <1>2, Invariance, PTL DEF Spec, UnlockUndoesLock

(* The ranking argument for the end of both functions of hyprland.rs: each
   step goes forward or visits one key less, however the compositor answers or
   restarts. *)
THEOREM CallsGoOn == Spec => CallsAdvance
<1>1. ASSUME Working PROVE CallForward
  <2> USE DEF CallForward, CallRank
  <2>1. ASSUME NEW o \in weather, EnterSubmap(o) \/ LeaveSubmap(o) PROVE CallForward
    BY <2>1 DEF EnterSubmap, LeaveSubmap, Fallback
  <2>2. ASSUME NEW o \in weather, NEW k \in Keys, BindKey(k, o) \/ UnbindKey(k, o) PROVE CallForward
    BY <2>2 DEF BindKey, UnbindKey
  <2>3. CASE Visited
    BY <2>3 DEF Visited
  <2> QED BY <1>1, <2>1, <2>2, <2>3 DEF Working
<1>2. ASSUME [Next]_vars, call # "none" PROVE CallForward \/ UNCHANGED <<call, left>>
  BY <1>1, <1>2 DEF Next, vars, CallLock, CallUnlock, SessionRestart
<1>3. [Next]_vars
        => [/\ Working => CallForward
            /\ call # "none" => CallForward \/ UNCHANGED <<call, left>>]_vars
  BY <1>1, <1>2
<1> QED BY <1>3, PTL DEF Spec, CallsAdvance

(* hyprland.rs implements the lock its callers in policy.rs and recovery.rs count on: every
   dispatch is a step of the abstract lock's call, or none. *)
THEOREM RefinesLock == Spec => ImplementsLock
<1> DEFINE obeys == weather = {"answered"} /\ defined
<1>1. Init => Lock!Init
  BY DEF Init, Lock!Init, Locked, Busy
<1>2. IInv /\ [Next]_vars => [Lock!Next]_<<Locked, Busy, obeys>>
  <2> SUFFICES ASSUME IInv, [Next]_vars PROVE [Lock!Next]_<<Locked, Busy, obeys>>
    OBVIOUS
  <2> USE DEF IInv, TypeOK, SteadyInv, Outcome
  <2>0. UNCHANGED <<weather, defined>>
    BY DEF Next, vars
  <2>1. CASE UNCHANGED vars
    BY <2>1 DEF vars, Locked, Busy
  <2>2. CASE CallLock \/ CallUnlock
    <3>1. Lock!Begin
      BY <2>2 DEF CallLock, CallUnlock, Lock!Begin, Busy, Locked
    <3> QED BY <2>0, <3>1 DEF Lock!Next
  <2>3. ASSUME NEW o \in weather, EnterSubmap(o)
        PROVE [Lock!Next]_<<Locked, Busy, obeys>>
    <3>1. CASE o = "refused"
      BY <2>0, <2>3, <3>1 DEF EnterSubmap, Dispatch, Fallback, Locked, Busy
    <3>2. CASE o = "answered"
      <4>1. Busy = "lock" /\ Busy' = "none"
        BY <2>3, <3>2 DEF EnterSubmap, Fallback, Busy
      <4>2. IF defined THEN Locked' = TRUE ELSE Locked' = Locked
        BY <2>3, <3>2 DEF EnterSubmap, Dispatch, LockSubmap, Locked
      <4>3. Lock!End
        BY <4>1, <4>2 DEF Lock!End, Lock!Asked
      <4> QED BY <2>0, <4>3 DEF Lock!Next
    <3>3. CASE o = "late"
      <4>1. Busy = "lock" /\ Busy' = "lock"
        BY <2>3, <3>3 DEF EnterSubmap, Fallback, Busy
      <4>2. IF defined THEN Locked' = TRUE ELSE Locked' = Locked
        BY <2>3, <3>3 DEF EnterSubmap, Dispatch, LockSubmap, Locked
      <4>3. Lock!Work \/ UNCHANGED <<Locked, Busy>>
        BY <4>1, <4>2 DEF Lock!Work, Lock!Asked
      <4> QED BY <2>0, <4>3 DEF Lock!Next
    <3> QED BY <3>1, <3>2, <3>3
  <2>4. ASSUME NEW o \in weather, NEW k \in Keys, BindKey(k, o)
        PROVE [Lock!Next]_<<Locked, Busy, obeys>>
    <3>1. Busy = "lock" /\ Busy' = "lock"
      BY <2>4 DEF BindKey, Busy
    <3>2. Locked' = TRUE \/ Locked' = Locked
      BY <2>4 DEF BindKey, Dispatch, Locked
    <3>3. Lock!Work \/ UNCHANGED <<Locked, Busy>>
      BY <3>1, <3>2 DEF Lock!Work, Lock!Asked
    <3> QED BY <2>0, <3>3 DEF Lock!Next
  <2>5. ASSUME NEW o \in weather, LeaveSubmap(o)
        PROVE [Lock!Next]_<<Locked, Busy, obeys>>
    <3>1. CASE o = "refused"
      BY <2>0, <2>5, <3>1 DEF LeaveSubmap, Dispatch, Fallback, Locked, Busy
    <3>2. CASE o = "answered"
      <4>1. Busy = "unlock" /\ Busy' = "none"
        BY <2>5, <3>2 DEF LeaveSubmap, Fallback, Busy
      <4>2. Locked' = FALSE \/ (Locked' = Locked /\ weather # {"answered"})
        BY <2>5, <3>2 DEF LeaveSubmap, Dispatch, Locked
      <4>3. Lock!End
        BY <4>1, <4>2 DEF Lock!End, Lock!Asked
      <4> QED BY <2>0, <4>3 DEF Lock!Next
    <3>3. CASE o = "late"
      <4>1. Busy = "unlock" /\ Busy' = "unlock"
        BY <2>5, <3>3 DEF LeaveSubmap, Fallback, Busy
      <4>2. Locked' = FALSE \/ Locked' = Locked
        BY <2>5, <3>3 DEF LeaveSubmap, Dispatch, Locked
      <4>3. Lock!Work \/ UNCHANGED <<Locked, Busy>>
        BY <4>1, <4>2 DEF Lock!Work, Lock!Asked
      <4> QED BY <2>0, <4>3 DEF Lock!Next
    <3> QED BY <3>1, <3>2, <3>3
  <2>6. ASSUME NEW o \in weather, NEW k \in Keys, UnbindKey(k, o)
        PROVE [Lock!Next]_<<Locked, Busy, obeys>>
    <3>1. Busy = "unlock" /\ Busy' = "unlock"
      BY <2>6 DEF UnbindKey, Busy
    <3>2. Locked' = FALSE \/ Locked' = Locked
      BY <2>6 DEF UnbindKey, Dispatch, Locked
    <3>3. Lock!Work \/ UNCHANGED <<Locked, Busy>>
      BY <3>1, <3>2 DEF Lock!Work, Lock!Asked
    <3> QED BY <2>0, <3>3 DEF Lock!Next
  <2>7. CASE Visited
    <3>1. Busy # "none" /\ Busy' = "none" /\ Locked' = Locked /\ ~obeys
      BY <2>7 DEF Visited, Busy, Locked
    <3>2. Lock!End
      BY <3>1 DEF Lock!End
    <3> QED BY <2>0, <3>2 DEF Lock!Next
  <2>8. CASE SessionRestart
    <3>1. Lock!Restart
      BY <2>8 DEF SessionRestart, Lock!Restart, Locked, Busy
    <3> QED BY <2>0, <3>1 DEF Lock!Next
  <2> QED
    BY <2>1, <2>2, <2>3, <2>4, <2>5, <2>6, <2>7, <2>8 DEF Next, Working
<1> QED BY <1>1, <1>2, Invariance, PTL DEF Spec, ImplementsLock, Lock!Spec
=======================================================================
