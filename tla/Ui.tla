------------------------------- MODULE Ui -------------------------------
(* The window supaa-ui beside other clients of the same daemon. Its GTK
   thread blocks in every request until the answer, the end of the
   connection or the timeout; its callbacks are a click on a mode, the
   restore button, the poll, the key Super+Shift+Q and the two buttons of
   the dialog that the key opens. *)
EXTENDS Ipc

CONSTANTS
    NoConn,    \* the window has no connection
    Buttons,   \* the modes somebody clicks on
    MayCrash   \* the daemon may fail

ASSUME UiAssumption == NoConn \notin Conns /\ Buttons \subseteq Mode /\ MayCrash \in BOOLEAN

VARIABLES
    ui,      \* the callback that is running, at the request it has made
    asked,   \* the mode the running callback asks for
    on,      \* the connection the thread blocks on
    badge,   \* the mode the window shows
    cached,  \* state_mode: the mode of the last answer to a poll
    dialog   \* the confirmation dialog is open

uiVars == <<ui, asked, on, badge, cached, dialog>>
vars   == <<serverVars, uiVars>>

Callback == {"click", "restore", "status", "list", "quit_restore", "quit_mode"}

TypeOK ==
    /\ ServerTypeOK
    /\ ui \in Callback \cup {"idle", "polled", "restored"}
    /\ on \in UiConns \cup {NoConn}
    /\ {asked, badge, cached} \subseteq Mode /\ dialog \in BOOLEAN

------------------------------------------------------------------------
(* ipc_send: a request, and its three ways to end *)

\* The bound UiConns: with every connection still held by the server the
\* window waits. A daemon that is not there refuses the connection.
Send(callback, cmd) ==
    /\ ui' = callback
    /\ \/ \E i \in UiConns : Connect(i, cmd) /\ on' = i
       \/ daemon # "up" /\ on' = NoConn /\ UNCHANGED conn
    /\ UNCHANGED <<daemon, mode, queue>>

\* The read timeout of 500 ms: short for a handler that changes something,
\* ample for those that only read.
Slow(i)  == conn[i].cmd \notin {"GetStatus", "GetProcessList"}
Delayed == Slow(on) \/ \E i \in Range(queue) : Slow(i)
GiveUp ==
    /\ on # NoConn /\ ~IsFree(on) /\ Delayed
    /\ on' = NoConn
    /\ UNCHANGED <<serverVars, ui, asked, badge, cached, dialog>>

\* Some(answer), and None: given up, refused, or closed without a reply.
Answered(answer) == on # NoConn /\ Is(on, "answering") /\ answer = conn[on].answer /\ Reply(on)
Unanswered == (on # NoConn => IsFree(on)) /\ UNCHANGED serverVars

\* What each callback sends.
Request(callback, m) ==
    CASE callback \in {"click", "quit_mode"}      -> m
      [] callback \in {"restore", "quit_restore"} -> "EmergencyRestore"
      [] callback = "status"                      -> "GetStatus"
      [] callback = "list"                        -> "GetProcessList"

\* Most callbacks take no notice of the answer.
Returned == Unanswered \/ \E a \in Answer : Answered(a)

------------------------------------------------------------------------
(* The callbacks of build_ui *)

\* The dialog is modal: the buttons under it do not react.
Click(m) ==
    /\ ui = "idle" /\ ~dialog
    /\ asked' = m
    /\ Send("click", m)
    /\ UNCHANGED <<badge, cached, dialog>>

\* "Update badge immediately", whatever the answer was.
Clicked ==
    /\ ui = "click" /\ Returned
    /\ ui' = "idle" /\ on' = NoConn
    /\ badge' = asked /\ asked' = "Normal"
    /\ UNCHANGED <<cached, dialog>>

Restore ==
    /\ ui = "idle" /\ ~dialog
    /\ Send("restore", "EmergencyRestore")
    /\ UNCHANGED <<asked, badge, cached, dialog>>

Restored ==
    /\ ui = "restore" /\ Returned
    /\ ui' = "idle" /\ on' = NoConn
    /\ badge' = "Normal"
    /\ UNCHANGED <<asked, cached, dialog>>

\* Every two seconds: the status, then the process list.
Poll ==
    /\ ui = "idle"
    /\ Send("status", "GetStatus")
    /\ UNCHANGED <<asked, badge, cached, dialog>>

\* As a variant, only a mode that differs from the last one is shown.
StatusIfChanged(m) ==
    /\ ui = "status" /\ Answered(m)
    /\ ui' = "polled" /\ on' = NoConn
    /\ cached' = m /\ badge' = (IF m = cached THEN badge ELSE m)
    /\ UNCHANGED <<asked, dialog>>
Status(m) ==
    /\ ui = "status" /\ Answered(m)
    /\ ui' = "polled" /\ on' = NoConn
    /\ cached' = m /\ badge' = m
    /\ UNCHANGED <<asked, dialog>>

\* As variants, the poll asks again until it is answered, or shows Normal.
NoStatusRetried ==
    /\ ui = "status" /\ (on # NoConn => IsFree(on))
    /\ Send("status", "GetStatus")
    /\ UNCHANGED <<asked, badge, cached, dialog>>
NoStatusDefault ==
    /\ ui = "status" /\ Unanswered
    /\ ui' = "polled" /\ on' = NoConn
    /\ badge' = "Normal"
    /\ UNCHANGED <<asked, cached, dialog>>
NoStatus ==
    /\ ui = "status" /\ Unanswered
    /\ ui' = "polled" /\ on' = NoConn
    /\ UNCHANGED <<asked, badge, cached, dialog>>

PollList ==
    /\ ui = "polled"
    /\ Send("list", "GetProcessList")
    /\ UNCHANGED <<asked, badge, cached, dialog>>

\* No list comes (Serialises): the window shows an empty one.
Listed ==
    /\ ui = "list" /\ Unanswered
    /\ ui' = "idle" /\ on' = NoConn
    /\ UNCHANGED <<asked, badge, cached, dialog>>

\* Super+Shift+Q in the window acts on the mode of the last poll.
KeyQ ==
    /\ ui = "idle" /\ ~dialog
    /\ cached = "SupaaPlus"
    /\ dialog' = TRUE
    /\ UNCHANGED <<serverVars, ui, asked, on, badge, cached>>

Cancel ==
    /\ ui = "idle" /\ dialog
    /\ dialog' = FALSE
    /\ UNCHANGED <<serverVars, ui, asked, on, badge, cached>>

\* "Quit Supaa++": two commands, on two connections.
Quit ==
    /\ ui = "idle" /\ dialog
    /\ dialog' = FALSE
    /\ Send("quit_restore", "EmergencyRestore")
    /\ UNCHANGED <<asked, badge, cached>>

QuitRestored ==
    /\ ui = "quit_restore" /\ Returned
    /\ ui' = "restored" /\ on' = NoConn
    /\ UNCHANGED <<asked, badge, cached, dialog>>

QuitMode ==
    /\ ui = "restored"
    /\ Send("quit_mode", "Normal")
    /\ UNCHANGED <<asked, badge, cached, dialog>>

QuitDone ==
    /\ ui = "quit_mode" /\ Returned
    /\ ui' = "idle" /\ on' = NoConn
    /\ UNCHANGED <<asked, badge, cached, dialog>>

------------------------------------------------------------------------

Init ==
    /\ ServerInit
    /\ ui = "idle" /\ asked = "Normal" /\ on = NoConn
    /\ badge = "Normal" /\ cached = "Normal" /\ dialog = FALSE

User ==
    \/ \E m \in Buttons : Click(m)
    \/ Restore \/ KeyQ \/ Cancel \/ Quit

\* What the GTK thread does by itself once a callback has begun.
Thread ==
    \/ Clicked \/ Restored \/ NoStatus \/ PollList \/ Listed
    \/ QuitRestored \/ QuitMode \/ QuitDone \/ GiveUp
    \/ \E m \in Mode : Status(m)

OtherClient == \E i \in CliConns, cmd \in CliCommands : Connect(i, cmd) /\ UNCHANGED <<daemon, mode, queue, uiVars>>

\* The reply to the window is taken by the callback that waits for it.
Serve(i) ==
    /\ \/ Read(i) \/ ReadTimeout(i) \/ Handle(i) \/ Exit(i)
       \/ i # on /\ Reply(i)
    /\ UNCHANGED uiVars

Lifecycle == ((MayCrash /\ Crash) \/ Start) /\ UNCHANGED uiVars

Next ==
    \/ User \/ Poll \/ Thread \/ OtherClient
    \/ \E i \in Conns : Serve(i)
    \/ Lifecycle

Spec == Init /\ [][Next]_vars

(* Fairness. The runtime runs every task that can go on, tokio's mutex is
   FIFO, GTK runs a callback that has begun, and its main loop comes back to
   a timer that is due however many clicks there are. systemd restarts
   a failed daemon. Nobody is obliged to click, to send or to start a daemon that
   has exited; the daemon fails finitely often. *)
FairSpec ==
    /\ Spec
    /\ \A i \in Conns : WF_vars(Serve(i))
    /\ WF_vars(Thread)
    /\ SF_vars(Poll)
    /\ WF_vars(daemon = "failed" /\ Lifecycle)
    /\ <>[][~Crash]_vars

------------------------------------------------------------------------
(* Properties *)

\* The mutex: one holder, and everyone who waits is in the queue, once.
QueueInv ==
    /\ \A k, l \in DOMAIN queue : queue[k] = queue[l] => k = l
    /\ \A i \in Conns :
        /\ i \in Range(queue) <=> Is(i, "waiting")
        /\ Is(i, "waiting") => conn[i].cmd \in Command

\* The thread blocks in a request of the callback that is running.
ThreadInv ==
    /\ ui # "click" => asked = "Normal"
    /\ on # NoConn => ui \in Callback
    /\ on # NoConn /\ ~IsFree(on) => conn[on].cmd = Request(ui, asked)

(* One handler runs at a time and waiting tasks are served in their order,
   whichever clients have given up in between; a request the window still waits on
   is the one of the callback that is running. *)
IInv == TypeOK /\ QueueInv /\ ThreadInv

(* Every connection is closed in the end: a client that stays silent or
   gives up holds neither a task nor the mutex for ever. *)
Served == \A i \in CliConns : ~IsFree(i) ~> IsFree(i)

(* A mode or a restore that has reached the server is carried out though
   its client has given up since, unless the daemon ends first. *)
Requested(m) ==
    \E i \in Conns : conn[i].state \in {"reading", "waiting"} /\ conn[i].cmd \in Requesting(m)
Obeyed == \A m \in Mode : Requested(m) ~> mode = m \/ daemon # "up"

(* The safety behind that: while the daemon is up, a request for a mode or a restore
   stays with the server until it is carried out, and no later one gets
   ahead of it in the queue of the mutex. *)
AheadOf(i, q) == {q[k] : k \in {k \in DOMAIN q : \E l \in DOMAIN q : k < l /\ q[l] = i}}
Keeps(i, m) ==
    conn[i].state \in {"reading", "waiting"} /\ conn[i].cmd \in Requesting(m)
        => \/ mode' = m
           \/ /\ conn'[i].state \in {"reading", "waiting"} /\ conn'[i].cmd = conn[i].cmd
              /\ Is(i, "waiting") => Is(i, "waiting")' /\ AheadOf(i, queue') \subseteq AheadOf(i, queue)
RequestsKept == [][daemon' = "up" => \A i \in Conns, m \in Mode : Keeps(i, m)]_vars

(* The GTK thread comes back from every callback, whatever becomes of the
   daemon in the meantime. *)
UiReturns == ui # "idle" ~> ui = "idle"

(* Badge and cached mode agree with the daemon in the end, once nobody asks for
   anything but the poll: late effects of requests the window gave
   up on included. *)
Quiet ==
    /\ daemon = "up" /\ ui \in {"idle", "status", "polled", "list"}
    /\ \A i \in CliConns : conn[i].cmd \in {"garbage", "nothing"}
Converges == <>[]Quiet => <>[](badge = mode /\ cached = mode)

(* Once reached, that agreement stays: no late answer, lost connection or
   restart of a poll undoes it while nobody asks for a mode. *)
Settled ==
    /\ Quiet
    /\ badge = mode /\ cached = mode
    /\ \A i \in Conns, m \in Mode :
            conn[i].cmd \in Requesting(m) => conn[i].state \notin {"reading", "waiting"}
    /\ ui = "status" /\ on # NoConn /\ Is(on, "answering") => conn[on].answer = mode
StaysSettled == [][Settled /\ Quiet' => Settled']_vars

(* supaa-cli/src/main.rs:88: "supaa ps   List all processes". A command the
   daemon has carried out is answered, unless it was the daemon's last. *)
CommandsAnswered ==
    [][\A i \in Conns :
            Is(i, "waiting") /\ ~Is(i, "waiting")' => Is(i, "answering")' \/ daemon' # "up"]_vars
=======================================================================
