-------------------------- MODULE MCTreeScan --------------------------
(* Small instances of the daemon with its scans taken apart. *)
EXTENDS TreeScan, TLC

\* No pid outside these sets is singled out by a constant.
Symmetry == Permutations(Pids \ (Named \cup Untouchable \cup Reapers))
=======================================================================
