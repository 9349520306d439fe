------------------------------ MODULE Ipc ------------------------------
(* The socket server of supaad and the requests it serves: accept, read,
   parse, wait for the daemon's mutex, run the handler, answer. What a
   handler does is the subject of the module Supaad; here it takes its time.

   A client that gives up leaves its connection behind: the server does not
   notice before it writes the reply. A connection belongs to one client
   for good: the window's are UiConns; a run of the command line client,
   or of any other program, is one of CliConns. *)
EXTENDS Modes, Sequences, Functions

CONSTANTS
    UiConns,      \* connections the window may have open, the given-up ones too
    CliConns,     \* clients of other kinds that run at the same time
    CliCommands   \* what those send; "nothing" is a client that stays silent

Conns    == UiConns \cup CliConns

\* SetMode{m} is m, Focus is SetFocusApp or ClearFocusApp, and Shutdown is
\* also EmergencyRestore{quit_after: true}.
Command  == Mode \cup {"GetStatus", "GetProcessList", "Focus", "EmergencyRestore", "Shutdown"}
Sendable == Command \cup {"garbage", "nothing"}

ASSUME IpcAssumption == UiConns \cap CliConns = {} /\ CliCommands \subseteq Sendable

VARIABLES
    daemon,  \* "up", "failed" (systemd restarts it) or "down" (it exited)
    mode,    \* self.mode
    conn,    \* the connections, each with its task
    queue    \* tokio's mutex: who holds it first, then who waits

serverVars == <<daemon, mode, conn, queue>>

Answer == Mode \cup {"Ok", "Error"}    \* a mode is the answer to GetStatus
State  == {"free", "reading", "waiting", "answering"}
Free   == [state |-> "free", cmd |-> "nothing", answer |-> "Ok"]

ServerTypeOK ==
    /\ daemon \in {"up", "failed", "down"}
    /\ mode \in Mode
    /\ conn \in [Conns -> [state : State, cmd : Sendable, answer : Answer]]
    /\ queue \in Seq(Conns)

IsFree(i) == conn[i] = Free
Is(i, s)  == conn[i].state = s

------------------------------------------------------------------------
(* What a command does to the mode, and what it answers *)

ModeAfter(cmd) ==
    IF cmd \in Mode THEN cmd
    ELSE IF cmd = "EmergencyRestore" THEN "Normal" ELSE mode

Requesting(m) == {m} \cup (IF m = "Normal" THEN {"EmergencyRestore"} ELSE {})

AnswerTo(cmd) == IF cmd = "GetStatus" THEN mode ELSE "Ok"

\* A newtype variant with a sequence in a tagged enum is not serialised:
\* the task ends with serde's error and the connection closes unanswered.
Serialises(cmd) == cmd # "GetProcessList"

Handled(c) ==
    IF Serialises(c.cmd)
    THEN [c EXCEPT !.state = "answering", !.answer = AnswerTo(c.cmd)]
    ELSE Free

------------------------------------------------------------------------
(* handle_connection. As in Supaad, a definition named for a fault is a
   variant of the one it precedes. *)

\* A client connects and writes its request in one piece.
Connect(i, cmd) ==
    /\ daemon = "up" /\ IsFree(i)
    /\ conn' = [conn EXCEPT ![i] = [Free EXCEPT !.state = "reading", !.cmd = cmd]]

\* The request is read whole. What does not parse is answered at once; a
\* command waits for the mutex, behind those that came before it.
ReadTryLock(i) ==
    /\ Is(i, "reading") /\ conn[i].cmd # "nothing"
    /\ IF conn[i].cmd = "garbage" \/ queue # <<>>
       THEN /\ conn' = [conn EXCEPT ![i].state = "answering", ![i].answer = "Error"]
            /\ UNCHANGED queue
       ELSE /\ conn' = [conn EXCEPT ![i].state = "waiting"]
            /\ queue' = Append(queue, i)
    /\ UNCHANGED <<daemon, mode>>
Read(i) ==
    /\ Is(i, "reading") /\ conn[i].cmd # "nothing"
    /\ IF conn[i].cmd = "garbage"
       THEN /\ conn' = [conn EXCEPT ![i].state = "answering", ![i].answer = "Error"]
            /\ UNCHANGED queue
       ELSE /\ conn' = [conn EXCEPT ![i].state = "waiting"]
            /\ queue' = Append(queue, i)
    /\ UNCHANGED <<daemon, mode>>

\* Five seconds without a byte: the task ends and the socket is closed.
ReadTimeoutNever(i) == FALSE /\ UNCHANGED serverVars
ReadTimeout(i) ==
    /\ Is(i, "reading") /\ conn[i].cmd = "nothing"
    /\ conn' = [conn EXCEPT ![i] = Free]
    /\ UNCHANGED <<daemon, mode, queue>>

\* daemon.lock().await.dispatch(cmd): the head of the queue has the mutex
\* and its handler runs, for as long as it takes; this is where it ends.
\* The answer is yet to be written, and by then it may be out of date.
HandleInAnyOrder(i) ==
    /\ Is(i, "waiting") /\ conn[i].cmd # "Shutdown"
    /\ mode' = ModeAfter(conn[i].cmd)
    /\ conn' = [conn EXCEPT ![i] = Handled(@)]
    /\ queue' = Tail(queue)
    /\ UNCHANGED daemon
Handle(i) ==
    /\ Is(i, "waiting") /\ i = Head(queue) /\ conn[i].cmd # "Shutdown"
    /\ mode' = ModeAfter(conn[i].cmd)
    /\ conn' = [conn EXCEPT ![i] = Handled(@)]
    /\ queue' = Tail(queue)
    /\ UNCHANGED daemon

\* The reply reaches the client, or fails to if the client has gone.
Reply(i) ==
    /\ Is(i, "answering")
    /\ conn' = [conn EXCEPT ![i] = Free]
    /\ UNCHANGED <<daemon, mode, queue>>

------------------------------------------------------------------------
(* The life of the daemon. With its process every connection ends. *)

DropAll == conn' = [i \in Conns |-> Free] /\ queue' = <<>> /\ mode' = "Normal"

\* Command::Shutdown, or EmergencyRestore{quit_after}: exit(0), no reply.
Exit(i) == Is(i, "waiting") /\ i = Head(queue) /\ conn[i].cmd = "Shutdown" /\ daemon' = "down" /\ DropAll

Crash == daemon = "up" /\ daemon' = "failed" /\ DropAll

\* systemd or the operator starts it; it comes up in Normal mode.
Start == daemon # "up" /\ daemon' = "up" /\ UNCHANGED <<mode, conn, queue>>

ServerInit ==
    /\ daemon = "up" /\ mode = "Normal"
    /\ conn = [i \in Conns |-> Free]
    /\ queue = <<>>
=======================================================================
