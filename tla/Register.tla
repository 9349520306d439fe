--------------------------- MODULE Register ---------------------------
(* What the daemon takes its state file to be: one record that is replaced
   as a whole. The end of a process does not touch it; a power loss may take
   back replacements that have not reached the disk, but never leaves
   anything that was not, at some time, the whole record. *)

CONSTANT Value

VARIABLES
    value,      \* what a reader finds
    survivors   \* what a reader may find after a power loss

Init == value \in Value /\ survivors = {value}

Write(v)  == value' = v /\ survivors' = survivors \cup {v}
Commit    == survivors' = {value} /\ UNCHANGED value
PowerLoss == value' \in survivors /\ survivors' = {value'}

Next == (\E v \in Value : Write(v)) \/ Commit \/ PowerLoss

Spec == Init /\ [][Next]_<<value, survivors>>
=======================================================================
