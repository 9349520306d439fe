---------------------------- MODULE Cgroup ----------------------------
(* What the functions of supaad/src/cgroup.rs do to the cgroup tree. Each
   operator constrains only the variables it names; the daemon's steps in
   Supaad compose them. A write into a directory that does not exist fails
   and is logged: it changes nothing.

   Abstraction: cgroup v2 is mounted and its controllers can be enabled. *)
EXTENDS Whitelist

\* The pids cgroup.procs of directory d lists.
Members(d) == {p \in alive : member[p] = d}

\* ensure_cgroups, and init_cgroups at startup.
EnsureCgroupsOnce == dirs' = dirs   \* faulty: relies on the directories
EnsureCgroups == dirs' = Managed

\* The five weight and memory.high writes, for the limits of mode m, into
\* the directories present: without them every write fails.
SetLimits(m, present) == limits' = IF present = Managed THEN m ELSE limits

\* Live pids of S written to cgroup.procs of d, in any order.
Moved(S, d) == [p \in Pids |-> IF p \in S \cap alive THEN d ELSE member[p]]

\* move_tree_to_focus writes nothing when the directory is missing.
MoveTreeToFocus(root, present) ==
    member' = IF "focus" \in present THEN Moved(ProcessTree(root), "focus") ELSE member

\* populate_background's test: a process of the user slice, or one
\* already in a directory of ours.
IsUserProcess(p) == member[p] \in {"user"} \cup Managed

\* populate_background on one pid of its scan.
Populate(p, tree) ==
    member' = IF p \notin tree /\ ~IsWhitelisted(p) /\ IsUserProcess(p)
              THEN Moved({p}, "background") ELSE member

\* release_pid on each pid of S, as drain_cgroup does too.
Release(S) == member' = Moved(S, "root")

\* rmdir succeeds on a directory no process is left in.
RemoveEmptyDirs ==
    dirs' = {d \in dirs : \E p \in alive : member'[p] = d}
======================================================================
