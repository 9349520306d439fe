---------------------------- MODULE Modes ----------------------------
(* The three focus modes and what each one asks of the machine
   (supaa-core/src/modes.rs). A weight or a limit is set for the pair of
   cgroups as a whole, so the mode a set of limits belongs to stands for
   the five values written; Limits gives them. *)
EXTENDS Integers

Mode == {"Normal", "Supaa", "SupaaPlus"}

\* None of bg_memory_high_percent: memory.high is "max".
NoLimit == 100

\* The values apply_mode writes for a mode; those of Normal are the
\* kernel's defaults, which are also what a restore writes back.
Limits == [Normal    |-> [focus |-> 100,   background |-> 100, memory |-> NoLimit],
           Supaa     |-> [focus |-> 800,   background |-> 20,  memory |-> 75],
           SupaaPlus |-> [focus |-> 10000, background |-> 1,   memory |-> 50]]

ShouldFreeze(m) == m = "SupaaPlus"
ShouldLock(m)   == m = "SupaaPlus"
======================================================================
