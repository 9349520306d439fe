--------------------------- MODULE TreeScan ---------------------------
(* get_process_tree as it runs: the pids are listed, the parent of each is
   read from its own file, and processes start, fork and end in between. Supaad
   takes the whole scan for one step; here the two scans that decide which
   processes a loop leaves alone, the one of populate_background and the one of
   freeze_all_background, are taken apart. *)
EXTENDS SupaadProperties

VARIABLES
    reading,  \* a scan is under way
    unread,   \* pids whose parent it has still to read
    ppid,     \* the parents it has read, NoPid where there is none
    fostered  \* history: who was adopted by a reaper since the freeze loop's list

scanVars == <<reading, unread, ppid>>
treeVars == <<vars, scanVars, fostered>>

Scanning == {"scan_tree", "scan_focus"}

ScanTypeOK ==
    /\ reading \in BOOLEAN /\ unread \in SUBSET Pids
    /\ ppid \in [Pids -> Pids \cup {Systemd, NoPid}]
    /\ fostered \in SUBSET alive

Blank == [p \in Pids |-> NoPid]

\* all_pids, the first call of get_process_tree.
ListPids ==
    /\ pc \in Scanning /\ focus # NoPid /\ ~reading
    /\ reading' = TRUE /\ unread' = AllPids
    /\ UNCHANGED <<vars, ppid, fostered>>

\* get_ppid on one of them; a process that has ended has none. As a
\* variant, the first that has ended is the end of the scan.
ReadPpidOrStop(p) ==
    /\ reading /\ p \in unread
    /\ IF p \in alive
       THEN unread' = unread \ {p} /\ ppid' = [ppid EXCEPT ![p] = parent[p]]
       ELSE unread' = {} /\ UNCHANGED ppid
    /\ UNCHANGED <<vars, reading, fostered>>
ReadPpid(p) ==
    /\ reading /\ p \in unread
    /\ unread' = unread \ {p}
    /\ ppid' = [ppid EXCEPT ![p] = IF p \in alive THEN parent[p] ELSE NoPid]
    /\ UNCHANGED <<vars, reading, fostered>>

\* The walk over what was read, which reads nothing more: the least set
\* with the focus pid and the children of each member. As a variant, without
\* the children of children.
ReachedOnce == {focus} \cup {q \in Pids : ppid[q] = focus}
Reached ==
    {q \in Pids : \A S \in SUBSET Pids :
        focus \in S /\ (\A z \in Pids : ppid[z] \in S => z \in S) => q \in S}

ScanEnds == reading' = FALSE /\ unread' = {} /\ ppid' = Blank

TreeRead ==
    /\ reading /\ unread = {}
    /\ tree' = Reached
    /\ Goto(IF pc = "scan_tree" THEN "scan_pids" ELSE "freeze")
    /\ ScanEnds
    /\ UNCHANGED <<kernelVars, locked, handler, todo, memVars, sig, file, fostered>>

\* Everything else goes on as in Supaad; a scan dies with its daemon.
Elsewhere ==
    /\ Next
    /\ focus # NoPid => ~ScanTree /\ ~ScanFocus
    /\ IF pc' \in Scanning THEN UNCHANGED scanVars ELSE ScanEnds
    /\ fostered' = IF pc' \in {"scan_focus", "freeze"}
                   THEN alive' \cap (fostered \cup {q \in alive : parent'[q] \notin {parent[q], Systemd}})
                   ELSE {}

ScanInit == Init /\ reading = FALSE /\ unread = {} /\ ppid = Blank /\ fostered = {}
ScanNext == ListPids \/ (\E p \in Pids : ReadPpid(p)) \/ TreeRead \/ Elsewhere
ScanSpec == ScanInit /\ [][ScanNext]_treeVars

------------------------------------------------------------------------
(* Properties *)

\* The focus tree, but for those adopted since the loop listed its pids and what
\* descends from them.
Kin(root) ==
    {q \in Pids : \A S \in SUBSET Pids :
        root \in S /\ (\A z \in alive \ fostered : parent[z] \in S => z \in S) => q \in S}

(* Processes of the focus tree are spared by freeze_all_background as
   long as no subreaper has adopted them, or who they descend from, meanwhile: its
   scan may have read the child before the parent ended and the parent after. *)
KinSpared ==
    [][\A p \in stopped' \ stopped : focus # NoPid => p \notin Kin(focus)]_vars

\* All of it, where no member is a subreaper.
NoReaperInFocus == focus # NoPid => ProcessTree(focus) \cap Reapers = {}

\* Of the pids the freeze loop is to visit, those still alive are orphans or
\* children of one another, and the scan has read whose or will.
ListedInv ==
    pc = "scan_focus" =>
        \A q \in (alive \cap todo) \ fostered : parent[q] # Systemd =>
            /\ parent[q] \in todo
            /\ reading => q \in unread \/ ppid[q] = parent[q]

\* What ScanInv is to a scan in one step.
KinInv == pc = "freeze" /\ focus # NoPid => Kin(focus) \cap todo \subseteq tree

(* The parents read one after the other add up to the tree of the end, for
   what the loop visits: a process orphaned in between is not in that tree,
   one forked in between is not visited. *)
ReadInv ==
    /\ ScanTypeOK
    /\ reading => pc \in Scanning /\ focus # NoPid
    /\ \A q \in fostered : parent[q] \in Reapers \cup {Systemd}
    /\ ListedInv
    /\ KinInv
=======================================================================
