----------------------- MODULE WriteAheadProofs -----------------------
(* What any daemon that implements WriteAhead promises. *)
EXTENDS WriteAhead, TLAPS

(* The state file of an implementation (mark_dirty, mark_clean, run_recovery of
   recovery.rs) may be believed: if it is clean there is nothing to undo, and between
   commands it names what the daemon holds. *)
THEOREM RecordIsTruthful == Spec => []Truthful
<1>1. Init => Truthful
  BY DEF Init, Truthful, Undone
<1>2. Truthful /\ [Next]_vars => Truthful'
  <2> SUFFICES ASSUME Truthful, [Next]_vars PROVE Truthful'
    OBVIOUS
  <2> USE DEF Truthful, Undone
  <2>1. CASE Start \/ Undo \/ Recovered
    BY <2>1 DEF Start, Undo, Recovered
  <2>2. CASE Mark \/ Work
    BY <2>2 DEF Mark, Work
  <2>3. CASE Record
    BY <2>3 DEF Record
  <2>4. CASE Fail
    BY <2>4 DEF Fail
  <2>5. CASE UNCHANGED vars
    BY <2>5 DEF vars
  <2> QED BY <2>1, <2>2, <2>3, <2>4, <2>5 DEF Next
<1> QED BY <1>1, <1>2, PTL DEF Spec
=======================================================================
