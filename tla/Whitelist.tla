--------------------------- MODULE Whitelist ---------------------------
(* The protection rules and the /proc scans of supaad/src/whitelist.rs, as
   functions of the process table at the instant they are evaluated. *)
EXTENDS Kernel

CONSTANTS
    Named,        \* pids whose comm matches WHITELISTED_NAMES
    Untouchable,  \* pids whose /proc/<pid>/exe the daemon cannot follow: kernel threads
    NoPid         \* None, for the focus application

ASSUME WhitelistAssumption ==
    /\ Named \subseteq Pids
    /\ Untouchable \subseteq Pids
    /\ NoPid \notin Pids \cup {Systemd}

AllPids == alive

\* The ancestors has_whitelisted_ancestor walks: it stops at pid 1.
AncestorDepth == 8
Ancestor(p) ==
    LET up[i \in 0..AncestorDepth] ==
            IF i = 0 THEN p
            ELSE LET child == up[i-1]
                 IN  IF child \in alive THEN parent[child] ELSE Systemd
    IN  up

HasWhitelistedAncestor(p) ==
    \E i \in 1..AncestorDepth : Ancestor(p)[i] \in Named

\* A pid that is gone has no /proc/<pid>/exe either: it is left alone.
IsWhitelisted(p) ==
    \/ p \in Untouchable
    \/ p \notin alive
    \/ p \in Named
    \/ member[p] \in {"system", "session"}
    \/ HasWhitelistedAncestor(p)

\* get_process_tree: the smallest set that holds the root, dead or not,
\* and the children of each of its members.
IsClosed(S) == \A q \in alive : parent[q] \in S => q \in S
ProcessTree(root) ==
    {q \in Pids : \A S \in SUBSET Pids : root \in S /\ IsClosed(S) => q \in S}

\* The exclusion set of populate_background and freeze_all_background;
\* before the tree was read it was the registered pid alone.
FocusRoot(focus) == {focus}
FocusTree(focus) == IF focus = NoPid THEN {} ELSE ProcessTree(focus)
========================================================================
