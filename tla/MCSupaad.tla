--------------------------- MODULE MCSupaad ---------------------------
(* Small instances of the daemon for TLC: a focus application g, a
   background process b and, where a run wants one, a process w whose name
   is whitelisted. Who is whose child is for the machine to choose. *)
EXTENDS SupaadClaims, TLC

CONSTANTS g, b, w, init

\* No pid outside these sets is singled out by a constant.
Symmetry == Permutations(Pids \ (Named \cup Untouchable \cup Reapers))
=======================================================================
