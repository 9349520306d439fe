------------------------- MODULE SupaadClaims -------------------------
(* What comments of the source say of the daemon and the code does not
   do: each is the property of a run that exhibits the disagreement. *)
EXTENDS SupaadProperties

(* freezer.rs:13: "We track frozen PIDs so we can always thaw on recovery".
   A daemon that has recovered from a crash has left nothing stopped. *)
RecoveryThawsAll == pc = "new" => stopped = {}

(* policy.rs:128: restore_all is the "full restore for daemon shutdown or
   emergency". A daemon that exited by itself left nothing throttled. *)
ExitRestoresAll == pc = "down" => stopped = {} /\ limits = "Normal"

(* cgroup.rs:135: populate_background takes "all user processes that are
   neither in the focus tree nor whitelisted". Started in the user slice,
   that is what every process it visits is. *)
BackgroundTakesAll ==
    [][\A p \in (todo \ todo') \cap alive :
            pc = "populate" /\ p \notin tree /\ ~IsWhitelisted(p)
                => member'[p] = "background"]_vars

(* The other half of the same sentence: a process that is in the focus
   tree is not moved to the background. *)
FocusNotInBackground ==
    [][\A p \in FocusTree(focus) :
            member'[p] = "background" => member[p] = "background"]_vars

(* daemon.rs:13: on ClearFocusApp the focus cgroup "is properly drained so
   stale PIDs don't linger". *)
NoStaleFocus ==
    [][pc = "idle" /\ focus # NoPid /\ focus' = NoPid
        => \A p \in alive : member'[p] # "focus"]_vars
=======================================================================
