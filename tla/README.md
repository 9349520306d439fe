# A verification of supaa in TLA+

supaa is a focus mode for the Hyprland desktop: a root daemon, `supaad`, that gives one
application CPU, I/O and memory priority through cgroup v2 weights, throttles everything
else and, in its strongest mode, stops it with SIGSTOP and locks workspace switching.
What can go wrong is mostly what a test does not reach: a crash between two system calls,
a process that forks between two scans of `/proc`, a signal that races a command, and a
state file that must tell the next daemon the truth about all of it; and around the
daemon clients that give up while their commands go on, a compositor that may answer or
not, and a script that repairs by hand what the daemon may be working on. This directory
models that, checks it with TLC and proves the safety part with TLAPS.

## 1. Inventory

| Component | Source | State it keeps | Operations | Made correct by |
|---|---|---|---|---|
| daemon | `supaad/src/daemon.rs` | `mode`, `focus_pid`, `frozen`, `state`, `workspace_locked` | seven commands, `shutdown`, the signal task | what it reports is in force and on disk; a signal stops it; every handler ends |
| policy | `supaad/src/policy.rs` | none | `apply_mode`, `restore_on_transition`, `restore_all` | order of effects: directories, limits, moves, lock, freeze |
| freezer | `supaad/src/freezer.rs` | the frozen set (shared with the daemon) | freeze, thaw, their loops | what is stopped is recorded; the focus tree is spared |
| recovery | `supaad/src/recovery.rs` | the state file | load, save, mark dirty/clean, `run_recovery` | a dirty file names everything there is to undo; a clean one means there is nothing |
| cgroup | `supaad/src/cgroup.rs` | the kernel's cgroup tree | ensure, set limits, move, populate, release, tear down | limits reach directories that exist; background holds what it should |
| whitelist | `supaad/src/whitelist.rs` | none (reads `/proc`) | `is_whitelisted`, `all_pids`, `get_process_tree` | a tree read file by file protects what is in it when the signals are sent |
| hyprland | `supaad/src/hyprland.rs` | the compositor's submap and binds | lock, unlock: a submap, or one bind per workspace key | what was locked is unlocked, by whichever method; a call ends |
| startup, unit | `supaad/src/main.rs`, `assets/supaa.service` | none | recovery, then the daemon; restart on failure | a failed daemon comes back and recovers |
| modes, state, protocol | `supaa-core/src` | none | constants and message types | |
| IPC server | `daemon.rs` `handle_connection` | one task per connection, the queue of the mutex | accept, read (5 s), parse, dispatch under the mutex, reply | one command at a time, in order; a command is carried out once it waits; every task ends |
| CLI | `supaa-cli/src/main.rs` | none | one request with a 10 s timeout | its request is answered |
| UI | `supaa-ui/src/main.rs` | badge, cached mode, dialog | buttons, key handler, dialog, 2 s poll, each blocking the GTK thread for at most 500 ms per request | what it shows is eventually the daemon's mode; the thread comes back |
| emergency script | `scripts/emergency-restore.sh` | none | ask the daemon, else thaw, reset, unlock and mark clean by hand | whatever the daemon is doing: what it leaves stopped or locked is only what it passed over by name, could not read or could not tell the compositor |

How they interact: clients send one command per connection; the connection task takes the
daemon's `tokio` mutex and runs the whole handler under it, so handlers never interleave
with each other. They do interleave with the machine (processes start, fork, end and are
adopted between any two system calls), with a SIGTERM task that needs the same mutex and
calls `exit` after releasing it, and with crashes. Memory, the kernel and the file are
three stores that one handler updates one after the other; recovery sees only the last two.
A client that gives up does not cancel anything: its command still waits for the mutex and is
carried out. The script shares processes, cgroups, compositor and state file with the daemon and no lock.

The hard behaviours, each at its line, are the `hazards` of `PROJECT.json`.

## 2. The modules

| Module | What it is |
|---|---|
| `Modes` | the three modes and what each asks for (`supaa-core/src/modes.rs`) |
| `Kernel` | the process table and the cgroup tree, and what the rest of the machine does to them (external to the repository: modelled from how the code uses `/proc`, signals and cgroup writes) |
| `Whitelist` | protection rules and `/proc` scans as functions of the process table |
| `Cgroup` | what each function of `cgroup.rs` does to the cgroup tree |
| `Supaad` | the daemon: startup, recovery, command handlers, signal task, crashes, restarts |
| `SupaadProperties` | the properties, and the inductive invariant `IInv` |
| `SupaadClaims` | statements of the sources' own comments that the code does not fulfil |
| `MCSupaad` | the model values and symmetry of the instances TLC checks |
| `SupaadProofs` | theorems and proofs about the daemon |
| `TreeScan`, `MCTreeScan` | the daemon with `get_process_tree` read one `/proc` file at a time; its instances |
| `TreeScanProofs` | theorems and proofs about it; extends `SupaadRefinement` |
| `WriteAhead` | the abstract daemon: it acts only while a record on disk asks for the undoing |
| `WriteAheadProofs`, `SupaadRefinement` | what `WriteAhead` promises; that `Supaad` implements it |
| `Register` | the abstract state file: one record, replaced as a whole, that a power loss may roll back but not tear |
| `StateFile` | `save_state` one file operation at a time, with its callers; implements `Register` |
| `StateFileProofs` | theorems and proofs about the state file |
| `Hyprland` | the two calls of `hyprland.rs`, dispatch by dispatch |
| `WorkspaceLock` | the abstract lock `Supaad` takes the compositor to be; implemented by `Hyprland` |
| `HyprlandProofs` | theorems and proofs about the calls |
| `Ipc` | the socket server: connections, their tasks, the mutex, the daemon's life |
| `Ui` | composes `Ipc` with the window and the command line client |
| `UiProofs` | theorems and proofs about server and window |
| `Escape` | composes `Supaad` with the emergency script |
| `EscapeProofs` | theorems and proofs about both; extends `SupaadProofs` |

### How `Supaad` corresponds to the code

`pc` names the next system call of the daemon; `job` is the handler it belongs to. One
action is one system call (or one run of calls) whose place among the machine's steps and
crashes can matter:

| Code | Actions |
|---|---|
| `main`, `run_recovery`, `Daemon::new` | `Start`/`Restart`, `ThawRecorded`*, `ThawedRecorded`, `UnlockRecorded`, `ResetLimits`, `DrainFocus`, `DrainBackground`, `SaveRecovered`, `New` |
| `handle_set_mode` | `SetMode`; `Thaw`*, `Relax` (leaving a mode); `ResetLimits` .. `DrainBackground` (going to Normal); `Apply`, `ScanTree`, `ScanPids`, `PopulateBackground`*, `Populated`, then `LockThenFreeze`, `ScanAll`, `ScanFocus`, `Freeze`*, `FrozeAll` or `UnlockThenThaw`; `Persist` |
| `handle_emergency_restore` | `EmergencyRestore`, `Thaw`*, `ResetLimits` .. `DrainBackground`, `RestoreUnlock`, `FinishEmergency` or `FinishQuit` |
| `Command::Shutdown` | `Shutdown`, the same calls, `FinishQuit` |
| the signal task | `Signal`, `TakeSignal`, the same calls, `FinishSignal`, `ExitNow` |
| `handle_set_focus`, `handle_clear_focus` | `SetFocus`, `ClearFocus` |
| the process dies | `Crash` (restarted), `KilledAtStartup` (not restarted), `PowerLoss` (only the file survives) |

(* once per pid of the snapshot the loop visits, in any order.)

`table`, `cgroups`, `handler`, `memVars` group variables for `UNCHANGED`. `file` is the state
file as the next daemon would load it; `st` is the copy in memory; a missing file is
treated by `run_recovery` exactly as a clean one and is modelled as that.
`sig = "exiting"` is the time between the end of `shutdown()`, which drops the mutex guard,
and `exit(0)` on the next line: other handlers may run, which the run `exit_race` shows.

Definitions whose name ends in what is wrong with them (`MarkedDirtyLate`,
`EnsureCgroupsOnce`, `RestRescanned`, ...) are plausible bugs. They are used nowhere; replacing
the definition that follows by one of them makes a property fail.

### How `TreeScan` corresponds to the code

`Supaad` takes a scan of the process table for one step. `get_process_tree` lists `/proc`, then opens the
`status` file of each pid, and processes start, fork, end and are adopted in between. In `TreeScan`
`ListPids` is the call of `all_pids`, `ReadPpid` one `get_ppid` (of a pid that has ended there is none), in
any order, and `TreeRead` the worklist, which reads nothing, so that it is one step; `Elsewhere` is every step of
`Supaad` but the two it replaces. These are `ScanTree` (`populate_background`) and `ScanFocus`
(`freeze_all_background`), whose result decides which processes a loop leaves alone. The tree of
`move_tree_to_focus` and of ClearFocusApp is used at once and by nobody else, and stays one
step. Listing the directory is one step too. Without a focus pid there is no scan. `fostered` is a history
variable for the properties: who was adopted by a subreaper since `freeze_all_background` listed its pids.

### How `StateFile` corresponds to the code

`Supaad` writes its record in one step that never fails. `StateFile` takes that step apart:
`CreateTmp`, `WriteTmp`, `SyncTmp`, `RenameTmp` are the four calls of `save_state`, `SaveFailed` is
the error of any of them, which all callers drop (`let _ =`; `main` logs the one of
`run_recovery` and goes on), and `Return` is what the caller does next. `target` and `tmp` are
what the two names hold, `durable` what a power loss may leave under the first (a rename is not
on the disk until the journal is, `Commit`; the directory is not flushed), `flushed` whether the
data of `tmp` is there. Around the saves stand the callers: `Start`, `Recover`; `Begin`
(`mark_dirty`), `Undo`, `Apply` and the save of the outcome for `SetMode` and `RestoreAll`
(emergency restore, shutdown, SIGTERM). Their effects are two facts, `limits` in force and
processes `stopped` (with the lock), and a record is one of `clean`, `dirty`, `frozen`: what
`Supaad` does system call by system call is one step here. A file that is absent or torn
does not load and counts as a fresh start.

`RenameTmp` maps to `Register`'s write, `Commit` and `PowerLoss` to theirs, and every other step to
a stutter. `Supaad`'s `file` is that register with one thing left out: its `PowerLoss`
keeps the last record. A rollback of the last record finds nothing to undo either way, because a
power loss has already undone everything; `StateFile` allows it and its properties hold with it.

### `WriteAhead` and the daemon

`WriteAhead` knows five things: a phase, the limits in force, what is held, whether the
record asks for undoing, and what it names. `Supaad` maps to it with `limits`, `file.clean`
and `file.frozen`; "held" is what the daemon knows to be stopped (its frozen set, the rest of the
list it is recovering, or what the file names while it is down). `SetMode` and `BeginRestore`
map to `Mark`, everything between the two saves of a handler to `Work` or a stutter, the
last save to `Record`, recovery to `Start`, `Undo`, `Recovered`, and every way to die to `Fail`.
That `held` may differ from what is really stopped after a crash is the claim of the run `crash`.

### How `Ipc` and `Ui` correspond to the code

A connection is `free`, `reading`, `waiting` for the mutex or `answering`; `queue` is tokio's
mutex with its holder in front. `Connect` is `send_command` and the first half of `ipc_send`;
`Read` and `ReadTimeout` are the read loop, `Handle` is `dispatch` and ends at its end, `Reply` is
the write. `Serialises` says which answers serde can write: a `ProcessList` it cannot (section
5). `Exit` is `Shutdown` or `EmergencyRestore{quit_after}`, which end the process without a reply.
What a handler does is `Supaad`'s; here a command is its effect on the mode.

The window's GTK thread runs one callback at a time. `ui` is the request it blocks on, `on` its
connection, and each callback is two or more actions, before and after `ipc_send`: `Click`/`Clicked`,
`Restore`/`Restored`, `Poll`/`Status` or `NoStatus`/`PollList`/`Listed`, `KeyQ`, `Cancel`,
`Quit`/`QuitRestored`/`QuitMode`/`QuitDone`. `GiveUp` is the read timeout of 500 ms; the
connection stays with the server. `OtherClient` is `supaa-cli`, or anybody else.

### How `Hyprland` corresponds to the code

`EnterSubmap` and `LeaveSubmap` are the first dispatch of the two functions, `BindKey` and
`UnbindKey` one round of their loops, `Visited` the end. A dispatch is `answered`, `refused` (no socket, no
connection; no effect) or `late` (the read timeout of 3 s: the call goes on as if it had failed, the
effect happens). `weather` is the set of outcomes this compositor gives; `defined` says whether
the user sourced `hypr-supaa.conf`, without which entering the submap is answered and does nothing.

### How `Escape` corresponds to the code

The script is a second actor on the variables of `Supaad`. `Run`, `Succeeded` and `GaveUp` are
`try_daemon`; `request` follows its EmergencyRestore on the daemon's side, where it is carried out whether
or not the client still waits. `ReadRecorded`, `Continue`*, `ScanStopped`, `Continue` or `PassOver`*, `ScriptReset`,
`ScriptDrainFocus`, `ScriptDrainBackground`, `ScriptUnlock` and `MarkClean` are the five functions
of the restore by hand. `Meanwhile` is any step of `Supaad`; `beside` remembers whether a SetMode
handler ran during the restore by hand. `--reboot` is a power loss after the end.

What the script finds on the machine is chosen where it looks, and each lapse is remembered (`lapses`):

* `jq` may be missing (`ReadRecorded`). The pattern of the fallback (`emergency-restore.sh:59`) does not span lines and finds no pid in
  the file `save_state` writes: all that was recorded and is stopped is `unread`, until a process is continued.
* `thaw_all_stopped` passes over a process for its name (`PassOver`, lines 85-87). The names are not those of `whitelist.rs:14`:
  `dbus*` covers `dbus-monitor`, `dbus-launch` and `dbus-run-session`, which the daemon freezes. So any process it stopped may have
  one, and is then `passed`. The loop over the recorded pids looks at no name.
* `unlock_workspaces` sends nothing without `socat` (lines 163 and 172), or sends to the first socket it
  finds, which may be that of a Hyprland that has ended (`ScriptUnlock`); else the compositor is `told`.

### Abstractions

* A process is its pid; its `comm` is a constant (`Named`, `Untouchable`). Zombies count as gone.
  The daemon's own pid and pids 1 and 2 are outside `Pids`.
* An orphan is adopted by the nearest of its ancestors that is in `Reapers`, processes that asked for it as
  session managers and game launchers do (PR_SET_CHILD_SUBREAPER), or by pid 1. Which pids are reapers is a constant.
* Stops by the user (job control, debuggers) are left out: `stopped` is what supaad stopped.
* A pid is not reused during one scan (`Machine`); it may be reused at any other time, in
  particular while it is still in the frozen set or in the file.
* The five weight and memory writes of one mode are one step, written as `limits`, the mode
  they belong to. The moves of a focus tree, and of one drained directory, are one step;
  the moves of `populate_background`, every SIGSTOP and every SIGCONT are separate steps.
* cgroup v2 is mounted and its controllers can be enabled. In `Supaad` the state file is an atomic
  record whose saves succeed; `StateFile` shows the first and drops the second.
* In `Supaad` a call to Hyprland takes effect (`CompositorObeys`) or may not, in one step. `Hyprland`
  takes the call apart and implements the lock whose ends those steps are.
* In `Ipc` a request is one message, parsed or `garbage`, a handler ends in one step, and time is the
  order of events: a client may give up whenever a handler that changes something holds the mutex,
  its own or one before it.
* In `Ui` the window's other labels, the process rows and the style are left out; the warning panel is
  shown exactly when the badge says Supaa++, so it is not a variable.
* In `Escape` the script is run once, its weights and both directories are reset in one step, and
  truncating the file is the whole of `mark_clean`: an empty or torn file is a fresh start to `load_state`.

## 3. Properties

| Property | Kind | What it says |
|---|---|---|
| `TypeOK` | invariant | types; only live processes are stopped |
| `CleanFileMeansOff` | invariant | while the file says clean, no limit is in force and nothing is frozen: skipping recovery is safe |
| `DiskMirrorsMemory` | invariant | between commands memory, its record and the file agree |
| `ModeInForce` | invariant | between commands the limits are those of the reported mode, in directories that exist, whatever the history |
| `NoNewStranded` | action | no step makes a stopped process unknown to daemon and file, but the daemon's death between freezing and saving |
| `NoNewStrandedLock` | action | the same of the workspace lock, with a compositor that obeys |
| `FocusSpared` | action | no SIGSTOP reaches a process that is in the focus tree at that moment; of a scan in one step it says so where no process is a subreaper (`daemon`) |
| `KinSpared` | action | the same of a scan that takes time, for every process that no subreaper has adopted since the pids were listed, nor one it descends from |
| `IInv`, `CoreInv` | invariant | the inductive invariant the proofs rest on, and the part of it that does not depend on what a scan returns |
| `ReadInv` | invariant | at every moment of a scan before a freeze, what was read agrees with the process table on all the loop is to visit and no subreaper has adopted |
| `RecordedAreThawed` | liveness | after a failure, recorded processes are continued |
| `SignalStops` | liveness | a signalled daemon stops |
| `HandlersEnd` | liveness | handlers and recoveries come to their end |
| `HandlersAdvance` | action | no step of a handler or a recovery goes back in the order of its calls, a step of a loop visits one pid less, and nothing beside them moves them: why they end |
| `NeverTorn` | invariant | no failure, crash or power loss leaves half a record where `load_state` finds it |
| `ExposedOnlyByFailure` | invariant | limits are in force behind a file that asks for no recovery only if the last save failed; the next save that succeeds makes it good |
| `ImplementsRegister` | refinement | `save_state` implements the atomic record of `Register` |
| `ImplementsWriteAhead` | refinement | marks before the first effect, records the outcome at rest, recovers from the file alone |
| `Ui!IInv` | invariant | one handler at a time, waiting tasks in the queue once; the window waits on the request of the callback that runs, whoever gave up before |
| `Served` | liveness | every connection ends: silent clients, clients that gave up, a daemon that dies |
| `RequestsKept` | action | while the daemon lives, a command that waits goes on waiting, no further from the mutex than before, or takes effect |
| `StaysSettled` | action | once badge, cached mode and daemon agree and nothing is under way, no poll, late answer or lost answer makes them disagree |
| `Obeyed` | liveness | a mode or a restore that reached the server is carried out though its client gave up, unless the daemon ends first |
| `UiReturns` | liveness | the GTK thread comes back from every callback |
| `Converges` | liveness | once nobody asks for anything but the poll, badge and cached mode become the daemon's mode and stay it, late effects included |
| `EscapeInv` | invariant | what the restore by hand has achieved up to its lapses, what the daemon remembers and what the file still knows of it, with the daemon at any step of its own |
| `RestoredByHand` | action | when it marks the file clean no limit is in force, switching is locked only if the compositor was not told, and a process is stopped only if its name was passed over and it was in no record, or in one that could not be read; unless a SetMode handler ran beside it |
| `ScriptStrandsNothing` | action | the script makes daemon and file forget no stopped process but what it could not read and has not continued |
| `ScriptAdvances` | action | no step of the script goes back, and one of its loops visits one process less; the daemon beside it does not move it: why it ends |
| `HatchOpens` | liveness | once the script runs unanswered, a recorded stopped process is continued, unless the record cannot be read and its name is passed over too |
| `Hyprland!IInv` | invariant | how a compositor that answers alike is left by each step of either method |
| `UnlockUndoesLock` | action | an unlock that returns has undone what any lock before it did |
| `CallsAdvance` | action | every dispatch brings the call nearer to its end, whatever the compositor answers |
| `CallsEnd` | liveness | a call ends, though each of its dispatches may fail |
| `ImplementsLock` | refinement | two methods, a fallback and an unread reply implement `WorkspaceLock` |

Between `shutdown()` of the signal task and `exit(0)` the daemon's fields are stale (`shutdown`
resets the record but not `mode`, `focus_pid`, `workspace_locked`), so `DiskMirrorsMemory` and
`ModeInForce` exclude that window; `NoNewStranded` does not.

## 4. Runs and bounds

| Run | Instance | Result |
|---|---|---|
| `daemon` | `FairSpec`, 2 processes started in the user slice; signals, crashes, power losses | holds, 0.18 million states |
| `processes` | `TreeScan`, 3 processes, one a subreaper, started in the user slice; no crashes, no signals | holds, 1.52 million states |
| `state_file` | `StateFile`, operations fail, crashes, power losses | holds, 18 thousand states |
| `clients` | `Ui` with 2 connections of the window (one given up), one other client that sets Supaa++, shuts down or stays silent; a daemon that fails | holds, 0.14 million states |
| `escape` | `Escape` with 1 process, started in the user slice or a session scope, crashes, power losses, a compositor that obeys; `jq`, `socat` and the process's name chosen where the script looks | holds, 0.62 million states |
| `compositor` | `Hyprland` with 3 keys, every set of outcomes, with and without the submap | holds, 1.8 thousand states |
| `crash` | 2 processes, crashes | `RecoveryThawsAll` fails |
| `exit_race`, `repopulate`, `fork_race`, `clear_focus` | 2 processes, no crash at all | one claim each fails |
| `process_list` | `Ui`, a client that asks for the list, no crash | `CommandsAnswered` fails |

Two processes are a focus application and a background one, and they may be related either way:
every property of `daemon` but two speaks of one process at a time and of the daemon. `FocusSpared` and
`IInv` depend on the shape of the process table. `processes` has three processes for them (the focus application, a child,
a grandchild that loses its parent) and takes the scans apart. `daemon` has no subreaper, since the one step of its `ScanFocus` would hide
there what the reads of one file after the other make possible (section 5). Crashes and whitelisting by name are left out of
`processes` for its size: a crash ends the scan, as `daemon` shows for one in one step, and the theorems hold with both. No counter is bounded: the
only bounds are the number of pids and the depth 8 of the ancestor walk, which is the code's.
`StateFile` has no bound at all. The state spaces are finite and explored completely; pids are interchangeable unless a
constant singles one out, which is what `Symmetry` says (not used in `daemon`, which checks liveness).
The theorems hold for any set of pids and any values of the other constants.

`clients` bounds connections: two of the window's are a request it waits on and one it gave up on,
still in the queue; with both taken the window waits. Its commands are one that changes the mode, the
one that ends the daemon and none at all. An instance whose client also sends what does not parse
(0.17 million states) holds too and is not kept for its time. `escape` has one process because no two
processes interact in it (the script visits them in any order and no property relates two), and no SIGTERM, whose handler is to the script one more
restore and one more end of the daemon: with signals the same properties hold (1.61 million states), which takes
longer than a run should. The theorems about it hold for any number of processes, and with signals. `compositor` has three keys instead of fourteen: a loop that is before, at and after a key.

### Fairness

`FairSpec` asks for weak fairness of the task that holds the mutex (a thread runs it to its
end; it blocks on nothing but files and a socket with a timeout), of the restart by systemd (`Restart=on-failure`, three seconds)
and of `exit(0)`; and for strong fairness of `TakeSignal`: tokio's mutex is a FIFO queue, so
commands can overtake the signal task only until it is queued. Commands, signals and processes are not
obliged to happen. Crashes and power losses are finitely many: a daemon that is killed for ever recovers
nothing. `RecordedAreThawed` starts from `failed`; a unit stopped by hand while it recovers is excused.

`Ui`: each connection's task goes on (tokio runs every task that can, its mutex is FIFO, and a silent
client is timed out after 5 s); the GTK thread runs a callback that has begun; the poll gets strong
fairness, since glib's main loop comes back to a timer that is due however often the user clicks.
A request that waits on nothing but read-only handlers is taken to be answered within its 500 ms (`Delayed`), else no poll need ever
succeed and `Converges` would be hopeless. `Escape`: a shell script runs on, its client has a timeout; the daemon as above, without its restart.
`Hyprland`: each dispatch has timeouts of 3 s.

## 5. What the code does not do

| Run | Claim | What happens |
|---|---|---|
| `crash` | `freezer.rs:13`: frozen pids are tracked "so we can always thaw on recovery" | the frozen set reaches the file only after the whole loop; a daemon that dies before leaves processes stopped for ever |
| `exit_race` | `policy.rs:128`: a full restore on shutdown | a command queued behind the signal task runs after `shutdown()` and before `exit(0)`: the daemon leaves limits or stopped processes behind and is not restarted. The file is dirty, so the next start repairs it |
| `repopulate` | `cgroup.rs:135-136`: all user processes are taken | processes once released to the root cgroup are no user processes any more for `is_user_process`; the second activation throttles none of them |
| `fork_race` | the same: not those of the focus tree | tree first, pids second: a child forked in between goes to the background |
| `clear_focus` | `daemon.rs:13-14`: no stale pids in the focus cgroup | orphans of the tree, and the tree of an earlier focus, stay |
| `process_list` | `supaa-cli/src/main.rs:88`: `supaa ps` lists all processes | `Response` is internally tagged and `ProcessList` holds a sequence, which serde refuses to serialise at run time (`daemon.rs:360`): the connection closes without a reply, `supaa ps` ends with "parse response" and the window's list is always empty |

Seen but without a run:

* Failed saves (`recovery.rs:115`, `daemon.rs:129`): the error of `save_state` is dropped, so on a full disk a mode is
  applied behind a file that still says clean, against `state.rs:25-26`. `ExposedOnlyByFailure` says that
  this is the only way, and that the next save that succeeds makes it good.
* `freezer.rs:79-80` excludes the focus application's "entire process tree (children, grandchildren…)", which "covers launchers
  that spawn the real game process". If a launcher is a subreaper, a grandchild may be frozen: `get_process_tree` (`whitelist.rs:170`)
  reads the grandchild while its parent lives and the parent after it has ended, when the launcher has
  adopted the grandchild; what was read links it to nobody. It takes a parent with the higher pid, as `/proc` is listed in the
  order of pids. TLC finds it as a violation of `FocusSpared` by `ScanSpec` with `Reapers = {w}`; `KinSpared` excludes the adopted ones.
* `SetFocusApp` for a process that is already frozen does not continue it (`daemon.rs:146`); it stays recorded.
* After a transition to Normal a process forked between the reading of `cgroup.procs` and the `rmdir` stays in the
  supaa cgroup with the directory (`daemon.rs:95-97` says none does; its limits are the defaults, which
  `ModeInForce` covers).
* Whitelisted names longer than 15 characters cannot match `comm` (`whitelist.rs:86`).
* The script is "safe to execute at any time" (`emergency-restore.sh:5`). Beside a live daemon in Supaa++ that does not answer
  in time it restores everything, and the daemon goes on reporting Supaa++: a second request for that mode is a no-op
  (`daemon.rs:78`). Beside a SetMode handler it may restore half and mark the file clean, which is why `RestoredByHand`
  and `ScriptStrandsNothing` exclude it.
* The restore by hand marks the file clean whatever it achieved. The comment at `emergency-restore.sh:52-54` has a fallback for
  pretty-printed JSON in place of `jq`; its pattern (`:59`) matches within one line, so it finds none of the pids `save_state` writes one to a line.
  The scan of all stopped processes makes up for that, but for the names of line 86: a frozen `dbus-monitor`, `dbus-launch` or
  `dbus-run-session`, which `whitelist.rs:14` does not protect, stays stopped, and no later daemon knows of it. With `jq` the same
  happens to one that a daemon froze and died before it recorded it. `install.sh` asks for neither `jq` nor `socat`; without `socat` (`:163`, `:172`), or where
  the first socket found is that of a Hyprland that has ended, the lock stays while the file says `workspace_locked: false`.
  `RestoredByHand`, `ScriptStrandsNothing` and `HatchOpens` say that these are the only ways.
* A lock by binds while the compositor did not answer in time, and an unlock by a submap reset that it did answer, leave the
  no-op binds (`hyprland.rs:148`): `UnlockUndoesLock` asks for a compositor that answers alike. An undefined
  submap counts as locked (`hyprland.rs:121-124`). Neither function ever returns `Err`, so the warnings of `policy.rs:88`, `:91`, `:125` and `:141`
  are dead code, and `Ok(false)` is dropped.
* An unlock that fails (a compositor that does not obey) is logged and never retried: the mode becomes Normal, and a second request
  for Normal is a no-op (`policy.rs:124`, `daemon.rs:78`). The properties of the lock ask for a compositor that obeys.
* The check of `/proc/<pid>/exe` (`whitelist.rs:79`) follows a link that the kernel shows only to the process's own user or with
  CAP_SYS_PTRACE, which the shipped unit does not leave the daemon (`supaa.service:24-25`): a process of another user then counts as a kernel
  thread and is left alone. In the model such processes are `Untouchable`; the instances have none, the theorems hold for any set of them.
* `supaa shutdown` and `supaa emergency-restore --quit` always end with an error, since the daemon exits without a reply.
* The warning panel says "Press Super+Shift+Q to exit" from the moment of the click (`supaa-ui/src/main.rs:224`); the key looks at the mode of
  the last poll (`:339`). A poll makes two requests, so it may block the GTK thread for a second, not 500 ms (`:43`).

## 6. Proofs

`SupaadProofs` proves, from `KernelAssumption`, `WhitelistAssumption` and `SupaadAssumption`
(well-formedness of the constants, nothing about sizes):

* `TypeCorrect`: `Spec => []TypeOK`, by one case per action.
* `Invariance`: `Spec => []IInv`. None of the properties is inductive: that a clean file means
  nothing is limited needs to know that every handler has marked the file dirty first (`FileInv`), at
  which steps the frozen set is empty (`FrozenInv`), which handler is at which step (`JobInv`),
  what a starting daemon holds (`ColdInv`), at which steps the limits are the defaults (`LimitsInv`).
  `CoreInv` is the conjunction of those parts, with `LockInv` and `TableInv`, and inductive by itself; `IInv` adds `ScanInv`.
* `CleanFile`, `DiskMirrors`, `ModeHolds`: the three safety invariants, which follow from `IInv`.
* `NothingStranded`, `NoLockStranded`: by cases over the actions, from `IInv` (`StepStrands`, `StepStrandsLock`).
* `NothingForgotten`: the two added up over a whole behaviour. As long as the daemon does not die between
  lock and save, every stopped process and a locked compositor are known to the daemon or to its file.
  The hypothesis is what the run `crash` shows cannot be dropped.
* `NormalGivesBack`: from that and `IInv`, a daemon that never dies in that window gives the machine back whenever it is in
  Normal mode or has ended behind a clean file: nothing is stopped, limited or, by a compositor that obeys, locked (`GivenBack`).
* `NeverBack`: `HandlersAdvance`, the ranking argument for `HandlersEnd`. `Rank` numbers the calls of a handler in the order
  of the code; each step has a higher number after it or leaves one pid of the loop's snapshot less, and what is not a step
  of the handler leaves both alone or ends the process (`OthersHold`). As the snapshots are finite and the numbers end,
  a handler is a finite sequence of steps, whatever the machine does meanwhile; that the steps are
  taken is the fairness TLC checks.
* `FocusIsSpared`, where `Reapers = {}`, so that pid 1 adopts every orphan and a scan in one step stands for the code's: the freeze loop
  reads pids first and tree second. `ScanInv` says that a pid still to visit that is in the tree now was in it when it was read: a process
  enters the tree only by being forked by a member (a dead process is nobody's parent, `TableInv`; an orphan leaves it), and a forked
  pid is not one the loop still has to visit. The proof takes `ProcessTree`, the least closed set, and shows the old tree
  plus the fork's child closed under the new table. With subreapers only `ScanSparesKin` and `ScanSparesFocus` speak of the code.

`TreeScanProofs` proves the same of scans that take time, with processes forking, ending and adopted between any two reads:

* `ScanIsCurrent`: `ReadInv`. The tree that is read may never have existed. But the freeze loop only visits pids listed before the
  scan, and of those a process changes its parent only by being orphaned. Then it leaves the focus tree, or a subreaper has
  adopted it (`fostered`). So for any other listed pid still in the tree what was read is its parent now (`ListedInv`, `MachineListed`).
* `ScanInvariance`: `CoreInv` holds.
* `ScanSparesKin`: `KinSpared`, from `KinInv`, which takes the place of `ScanInv`. `KinOfTheEnd` is the step that matters: the set reached
  through the parents that were read, together with all that is alive and will not be visited, is closed
  under the parents of that moment that are not by adoption, so it contains all kin. Afterwards kin is only gained by forks
  (`ElsewhereKin`). What the proof uses is that a pid is not reused during the scan (section 2).
* `ScanSparesFocus`: where the focus tree never holds a subreaper, all of it is kin, and `FocusSpared` holds of the scan
  that takes time. The hypothesis cannot be dropped (section 5).
* `ScanStrandsNothing`, `ScanRefinesWriteAhead`: the two results about failures carry over, since a read changes
  nothing of the daemon and the end of a scan nothing that is stopped or recorded (`ScanStep`, `ScanIsSilent`).

None of this holds of `populate_background`, which reads the tree first: the run `fork_race`.

`StateFileProofs` proves, whether or not operations may fail and the machine may crash:

* `NoTornRecord`, `ExposureIsFailure`: from `IInv` of `StateFile`, which adds that the temporary
  file is whole once written and flushed before the rename (`TmpInv`), that the present content is
  among those a power loss may leave (`DiskInv`), and that from `mark_dirty` to the save of the
  outcome the file asks for recovery or the last save failed, while a clean record is only ever written with the
  limits reset (`MarkInv`).
* `RefinesRegister`: the initial states map to `Register`'s, and every step to one of its
  steps or a stutter; `TmpInv` is what makes the rename a write of a whole record.

`WriteAheadProofs` and `SupaadRefinement`:

* `RecordIsTruthful`: of any implementation of `WriteAhead`, a record that asks for nothing means that nothing
  is to be undone, and between commands it names exactly what is held.
* `RefinesWriteAhead`: `Supaad` is one. Every step maps to one of its steps or a stutter; `FileInv`, `LimitsInv` and `FrozenInv`
  are what makes the last save of a handler a `Record`, `JobInv` what tells handlers from recovery.

`UiProofs` proves `Invariance`: `IInv` of `Ui` for any connections, clients and commands. It rests on facts about the
queue (`Enqueue` and `Dequeue` keep it free of duplicates and its members the waiting tasks), which is
what a connection that is dropped while it waits, or served out of turn, would break.
`NothingDropped` proves `RequestsKept`, the safety half of `Obeyed`: whoever gives up, a waiting command keeps its place, and those ahead of
it get fewer. `AgreementStays` proves `StaysSettled`, the safety half of `Converges`, from `IInv`, which says whose answer the window waits for.

`EscapeProofs`, with the daemon at any step:

* `Progress`: `EscapeInv`. The daemon's own invariant does not hold beside the script, which works on its processes
  and rewrites its file; what survives is `JobInv`, what the daemon has in memory at each step (`MemoryInv`, which no step of the script
  touches), that neither its record nor the file names a stopped process it does not hold (`RecordInv`), and that no step but a SetMode
  handler's stops, limits or locks anything (`OnlyModesTakeHold`) or learns of a stopped process (`OnlyModesLearn`): so what the script has
  achieved stays (`ByHandInv`). That the file names what is still stopped (`KnownInv`) takes the place of `FrozenInv`, which the script
  breaks: it clears the record of processes it has continued, and of those it could not read (`FileKnowsAllBut`).
* `CleanByHand`: `RestoredByHand` follows from `ByHandInv`.
* `ScriptIsSafe`: `ScriptStrandsNothing` follows. The script clears the record only when what it names and is still stopped is `unread`
  (`ScriptReleases`), and from a file that satisfies `KnownInv` no step of the daemon, dying outside its window included, strands
  anything else (`DaemonStrands`).
* `ScriptGoesOn`: `ScriptAdvances`, the ranking argument for the end of the script, beside a daemon at any step.

`HyprlandProofs`: `Invariance` (`SteadyInv`: how a compositor that answers alike is left by each step), `UnlockUndoes` from it,
`RefinesLock`, which needs that an obeying compositor never leaves the submap method, and `CallsGoOn` (`CallsAdvance`, the ranking argument for `CallsEnd`).

Not provable here, and left to TLC: the liveness properties `RecordedAreThawed`, `SignalStops`, `HandlersEnd`, `Served`, `Obeyed`, `UiReturns`,
`Converges`, `HatchOpens` and `CallsEnd`, which need fairness and `ENABLED`; the ranking theorems above are the part of them that
does not. What `ProcessTree` and `Reached` compute is taken as a least closed set; that the worklist of
`get_process_tree` computes it would need induction over data.

## 7. Not modelled, and what could follow

* `Escape` with the socket server of `Ipc` in place of `request`.
* The worklist of `get_process_tree` against the least closed set used in `Whitelist`.
* What protection a process of a session scope is owed once SetFocusApp has moved it (`whitelist.rs:102`): modelled, without a
  property, since nothing in the repository says.
* Processes launched after a mode was applied are not throttled (`cgroup.rs:148`): by design of one snapshot.

Left out for good: installation scripts and Hyprland snippets (straight-line file copying),
widget construction, logging, `active_window` and `delete_state` (unused).
