---------------------------- MODULE Kernel ----------------------------
(* The process table and the cgroup tree the daemon reads through /proc
   and changes with signals and cgroup writes, as the code in src/ uses
   them. Nothing here is written by the daemon's authors: the actions are
   what the rest of the machine may do between any two system calls of
   the daemon.

   Abstractions: a process is its pid; its comm is a constant of the pid
   (Named); a zombie is gone; user-requested stops (job control,
   debuggers) are left out, so "stopped" is what supaad stopped. *)
EXTENDS Integers, FiniteSets, Modes

CONSTANTS
    Pids,        \* the pids a process may have
    Systemd,     \* pid 1, which adopts orphans
    Reapers,     \* pids that adopt those of their descendants, as launchers
                 \* and session managers do (PR_SET_CHILD_SUBREAPER)
    LaunchIn     \* the cgroups systemd starts processes in

ASSUME KernelAssumption ==
    /\ Systemd \notin Pids
    /\ Reapers \subseteq Pids
    /\ LaunchIn \subseteq {"user", "session", "system"}

VARIABLES
    alive,       \* pids listed in /proc
    parent,      \* ppid of each pid
    member,      \* cgroup of each pid
    stopped,     \* processes in state T
    dirs,        \* which of supaa/focus and supaa/background exist
    limits       \* the mode whose Limits those directories carry

kernelVars == <<alive, parent, member, stopped, dirs, limits>>

Managed == {"focus", "background"}
Cgroup  == {"user", "session", "system", "root"} \cup Managed

KernelTypeOK ==
    /\ alive \in SUBSET Pids
    /\ parent \in [Pids -> Pids \cup {Systemd}]
    /\ member \in [Pids -> Cgroup]
    /\ stopped \in SUBSET alive
    /\ dirs \in SUBSET Managed
    /\ limits \in Mode

KernelInit ==
    /\ alive = {}
    /\ parent = [p \in Pids |-> Systemd]
    /\ member = [p \in Pids |-> "root"]
    /\ stopped = {}
    /\ dirs = {}
    /\ limits = "Normal"

\* A service, a session or a desktop launcher starts a process.
Launch(p, c) ==
    /\ p \notin alive
    /\ alive' = alive \cup {p}
    /\ member' = [member EXCEPT ![p] = c]
    /\ UNCHANGED <<parent, stopped, dirs, limits>>

\* A running process forks: the child inherits the parent's cgroup.
Fork(p, c) ==
    /\ p \in alive \ stopped
    /\ c \notin alive
    /\ alive' = alive \cup {c}
    /\ parent' = [parent EXCEPT ![c] = p]
    /\ member' = [member EXCEPT ![c] = member[p]]
    /\ UNCHANGED <<stopped, dirs, limits>>

\* The children of a process, their children, and so on.
Descendants(r) ==
    {q \in Pids : \A S \in SUBSET Pids :
        (\A z \in alive : parent[z] \in S \cup {r} => z \in S) => q \in S}

\* Who adopts the children of a process that ends: the nearest of the
\* reapers it descends from, or pid 1.
Adopters(p) ==
    LET above == {r \in Reapers \cap alive : r # p /\ p \in Descendants(r)}
    IN  IF above = {} THEN {Systemd}
        ELSE {r \in above : \A s \in above \ {r} : r \in Descendants(s)}

\* A process ends, or is killed while stopped; its children become
\* orphans. A pid that is free has the canonical parent and cgroup.
Exit(p) ==
    /\ p \in alive
    /\ alive' = alive \ {p}
    /\ stopped' = stopped \ {p}
    /\ \E a \in Adopters(p) :
        parent' = [q \in Pids |-> IF q = p THEN Systemd
                                  ELSE IF parent[q] = p THEN a ELSE parent[q]]
    /\ member' = [member EXCEPT ![p] = "root"]
    /\ UNCHANGED <<dirs, limits>>

\* Power is lost: nothing of the process table or the cgroup tree is left.
KernelReset ==
    /\ alive' = {}
    /\ parent' = [p \in Pids |-> Systemd]
    /\ member' = [p \in Pids |-> "root"]
    /\ stopped' = {}
    /\ dirs' = {}
    /\ limits' = "Normal"
======================================================================
