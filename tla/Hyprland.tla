--------------------------- MODULE Hyprland ---------------------------
(* supaad/src/hyprland.rs: workspace switching is locked by entering an
   empty submap or, should that dispatch fail, by binding each workspace key to
   nothing; unlocked by leaving the submap or, should that fail, by unbinding the keys. A
   dispatch fails or succeeds as a transport: the text of the
   answer is not looked at. The daemon makes one call at a time and drops
   what it returns. *)
EXTENDS Naturals

CONSTANT Keys    \* workspace_binds()

VARIABLES
    submap,   \* the compositor's active submap
    noop,     \* workspace keys bound to nothing
    call,     \* where the running call is
    left,     \* keys its loop has still to visit
    weather,  \* how this compositor answers: a set of Outcomes
    defined   \* the user's configuration has the submap

vars == <<submap, noop, call, left, weather, defined>>

(* A dispatch is answered; or it does not reach the compositor (no socket,
   connection refused); or it does and the answer is not there in three
   seconds. The compositor takes its connections in their order, so the effect of
   a late one is counted when it is sent. *)
Outcome == {"answered", "refused", "late"}

TypeOK ==
    /\ submap \in {"default", "supaa_lock"}
    /\ noop \in SUBSET Keys /\ left \in SUBSET Keys
    /\ call \in {"none", "lock", "bind", "unlock", "unbind"}
    /\ weather \in (SUBSET Outcome) \ {{}} /\ defined \in BOOLEAN

Locked == submap = "supaa_lock" \/ noop # {}

------------------------------------------------------------------------
(* dispatch, with the effect it asks for *)

Dispatch(outcome, newSubmap, newNoop) ==
    IF outcome = "refused"
    THEN UNCHANGED <<submap, noop>>
    ELSE submap' = newSubmap /\ noop' = newNoop

\* A call that is answered returns; otherwise its loop over the keys.
Fallback(outcome, loop) ==
    IF outcome = "answered"
    THEN call' = "none" /\ left' = {}
    ELSE call' = loop /\ left' = Keys

------------------------------------------------------------------------
(* lock_workspace_switching *)

CallLock == call = "none" /\ call' = "lock" /\ UNCHANGED <<submap, noop, left>>

\* An unknown submap is answered too, and not entered.
LockSubmapReset == "default"
LockSubmap == IF defined THEN "supaa_lock" ELSE submap

EnterSubmap(outcome) ==
    /\ call = "lock"
    /\ Dispatch(outcome, LockSubmap, noop)
    /\ Fallback(outcome, "bind")

BindKeyRetried(k, outcome) ==
    /\ call = "bind" /\ k \in left
    /\ Dispatch(outcome, submap, noop \cup {k})
    /\ left' = IF outcome = "answered" THEN left \ {k} ELSE left
    /\ UNCHANGED call
BindKey(k, outcome) ==
    /\ call = "bind" /\ k \in left
    /\ Dispatch(outcome, submap, noop \cup {k})
    /\ left' = left \ {k}
    /\ UNCHANGED call

------------------------------------------------------------------------
(* unlock_workspace_switching *)

CallUnlock == call = "none" /\ call' = "unlock" /\ UNCHANGED <<submap, noop, left>>

LeaveSubmap(outcome) ==
    /\ call = "unlock"
    /\ Dispatch(outcome, "default", noop)
    /\ Fallback(outcome, "unbind")

UnbindKeyOnce(k, outcome) ==
    /\ call = "unbind" /\ k \in left
    /\ Dispatch(outcome, submap, noop \ {k})
    /\ left' = {}
    /\ UNCHANGED call
UnbindKey(k, outcome) ==
    /\ call = "unbind" /\ k \in left
    /\ Dispatch(outcome, submap, noop \ {k})
    /\ left' = left \ {k}
    /\ UNCHANGED call

\* Every key visited: the loop of either call ends.
Visited ==
    /\ call \in {"bind", "unbind"} /\ left = {}
    /\ call' = "none"
    /\ UNCHANGED <<submap, noop, left>>

------------------------------------------------------------------------

\* The session ends, or the configuration is loaded again.
SessionRestart == submap' = "default" /\ noop' = {} /\ UNCHANGED <<call, left>>

Init ==
    /\ submap = "default" /\ noop = {}
    /\ call = "none" /\ left = {}
    /\ weather \in (SUBSET Outcome) \ {{}} /\ defined \in BOOLEAN

Working ==
    \/ \E o \in weather : EnterSubmap(o) \/ LeaveSubmap(o)
    \/ \E o \in weather, k \in Keys : BindKey(k, o) \/ UnbindKey(k, o)
    \/ Visited

Next == (CallLock \/ CallUnlock \/ Working \/ SessionRestart) /\ UNCHANGED <<weather, defined>>

Spec == Init /\ [][Next]_vars

\* Each dispatch has a timeout, so a call always goes on.
FairSpec == Spec /\ WF_vars(Working /\ UNCHANGED <<weather, defined>>)

------------------------------------------------------------------------
(* Properties *)

\* How a compositor that always answers the same way is left by each step.
SteadyInv ==
    /\ weather = {"answered"} =>
        /\ noop = {} /\ call \in {"none", "lock", "unlock"}
        /\ submap = "supaa_lock" => defined
    /\ weather = {"refused"} => ~Locked
    /\ weather = {"late"} /\ call = "unbind" => submap = "default" /\ noop \subseteq left

(* With a compositor that always answers, never does, or is always late,
   neither method ever has to undo what the other did. *)
IInv == TypeOK /\ SteadyInv

(* unlock "mirrors" lock: when it returns, switching is not locked, by
   whatever calls, by submap or by binds, it was before; only a compositor whose answers
   change in between can keep the lock. *)
UnlockUndoesLock ==
    [][(\A o, p \in weather : o = p) /\ call \in {"unlock", "unbind"} /\ call' = "none"
        => ~Locked']_vars

(* A call under the daemon's mutex comes to its end, though each of its
   dispatches may fail. *)
CallsEnd == call # "none" ~> call = "none"

(* The ranking behind that: each step of a call goes from the submap to the loop over the
   keys or to the end, or visits one key less, whatever it is answered; a session that
   restarts meanwhile changes nothing in that. *)
CallRank(step) ==
    CASE step \in {"lock", "unlock"} -> 1 [] step \in {"bind", "unbind"} -> 2 [] OTHER -> 3
CallForward ==
    \/ CallRank(call') > CallRank(call)
    \/ call' = call /\ left' \subseteq left /\ left' # left
CallsAdvance ==
    [][/\ Working => CallForward
       /\ call # "none" => CallForward \/ UNCHANGED <<call, left>>]_vars

\* The abstract lock: the call without its method.
Busy == CASE call \in {"lock", "bind"}     -> "lock"
          [] call \in {"unlock", "unbind"} -> "unlock"
          [] OTHER                         -> "none"
Lock == INSTANCE WorkspaceLock
            WITH locked <- Locked, busy <- Busy,
                 obeys <- weather = {"answered"} /\ defined

(* Both methods, the fallback between them and the unread answer implement the lock
   that the daemon's model takes the compositor to be. *)
ImplementsLock == Lock!Spec
=======================================================================
