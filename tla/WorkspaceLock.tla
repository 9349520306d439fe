------------------------ MODULE WorkspaceLock ------------------------
(* What the daemon takes the compositor to be: a lock. A call to lock or to
   unlock ends with the lock as asked if the compositor obeys, and
   otherwise as asked or as it was: LockWorkspace and UnlockWorkspace of the module
   Supaad are the ends of such calls. Nothing else moves the lock but a
   new session of the compositor. *)

VARIABLES
    locked,
    busy,    \* the call that is running: "none", "lock" or "unlock"
    obeys    \* calls reach the compositor and take effect

Asked == busy = "lock"

Begin == busy = "none" /\ busy' \in {"lock", "unlock"} /\ UNCHANGED locked
Work  == busy # "none" /\ locked' = Asked /\ UNCHANGED busy
End   == /\ busy # "none" /\ busy' = "none"
         /\ locked' = Asked \/ (~obeys /\ locked' = locked)
Restart == locked' = FALSE /\ UNCHANGED busy

Init == locked = FALSE /\ busy = "none" /\ obeys \in BOOLEAN
Next == (Begin \/ Work \/ End \/ Restart) /\ UNCHANGED obeys
Spec == Init /\ [][Next]_<<locked, busy, obeys>>
======================================================================
