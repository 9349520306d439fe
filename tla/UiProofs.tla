--------------------------- MODULE UiProofs ---------------------------
(* Proofs about the server and its clients, for every number of connections and
   whatever the clients send. *)
EXTENDS Ui, TLAPS

------------------------------------------------------------------------
(* Queues without repetition *)

Distinct(q) == \A k, l \in DOMAIN q : q[k] = q[l] => k = l

\* Nobody waits.
LEMMA EmptyQueue == <<>> \in Seq(Conns) /\ Distinct(<<>>) /\ Range(<<>>) = {}
  BY DEF Distinct, Range

\* One more at the end.
LEMMA Enqueue ==
    ASSUME NEW S, NEW q \in Seq(S), NEW i \in S, Distinct(q), i \notin Range(q)
    PROVE  /\ Append(q, i) \in Seq(S)
           /\ Distinct(Append(q, i))
           /\ Range(Append(q, i)) = Range(q) \cup {i}
<1>1. DOMAIN q = 1..Len(q) /\ Len(q) \in Nat
  OBVIOUS
<1>2. /\ Append(q, i) \in Seq(S)
      /\ DOMAIN Append(q, i) = 1..(Len(q) + 1)
      /\ \A k \in 1..Len(q) : Append(q, i)[k] = q[k]
      /\ Append(q, i)[Len(q) + 1] = i
  OBVIOUS
<1>3. Distinct(Append(q, i))
  BY <1>1, <1>2 DEF Distinct, Range
<1>4. Range(Append(q, i)) = Range(q) \cup {i}
  <2>1. ASSUME NEW x \in Range(Append(q, i)) PROVE x \in Range(q) \cup {i}
    <3>1. PICK k \in 1..(Len(q) + 1) : x = Append(q, i)[k]
      BY <1>2 DEF Range
    <3>2. CASE k = Len(q) + 1
      BY <1>2, <3>1, <3>2
    <3>3. CASE k \in 1..Len(q)
      BY <1>1, <1>2, <3>1, <3>3 DEF Range
    <3> QED BY <1>1, <3>1, <3>2, <3>3
  <2>2. ASSUME NEW x \in Range(q) PROVE x \in Range(Append(q, i))
    BY <1>1, <1>2 DEF Range
  <2>3. i \in Range(Append(q, i))
    BY <1>1, <1>2 DEF Range
  <2> QED BY <2>1, <2>2, <2>3
<1> QED BY <1>2, <1>3, <1>4

\* The first leaves.
LEMMA Dequeue ==
    ASSUME NEW S, NEW q \in Seq(S), q # <<>>, Distinct(q)
    PROVE  /\ Tail(q) \in Seq(S)
           /\ Distinct(Tail(q))
           /\ Range(Tail(q)) = Range(q) \ {Head(q)}
<1>1. DOMAIN q = 1..Len(q) /\ Len(q) \in Nat /\ Len(q) >= 1 /\ Head(q) = q[1]
  OBVIOUS
<1>2. /\ Tail(q) \in Seq(S)
      /\ DOMAIN Tail(q) = 1..(Len(q) - 1)
      /\ \A k \in 1..(Len(q) - 1) : Tail(q)[k] = q[k + 1]
  BY <1>1
<1>3. Distinct(Tail(q))
  BY <1>1, <1>2 DEF Distinct
<1>4. Range(Tail(q)) = Range(q) \ {Head(q)}
  <2>1. ASSUME NEW x \in Range(Tail(q)) PROVE x \in Range(q) /\ x # Head(q)
    <3>1. PICK k \in 1..(Len(q) - 1) : x = q[k + 1]
      BY <1>2 DEF Range
    <3>2. k + 1 \in DOMAIN q /\ 1 \in DOMAIN q /\ k + 1 # 1
      BY <1>1, <3>1
    <3> QED BY <1>1, <3>1, <3>2 DEF Range, Distinct
  <2>2. ASSUME NEW x \in Range(q), x # Head(q) PROVE x \in Range(Tail(q))
    <3>1. PICK k \in 1..Len(q) : x = q[k]
      BY <1>1 DEF Range
    <3>2. k - 1 \in 1..(Len(q) - 1) /\ (k - 1) + 1 = k
      BY <1>1, <2>2, <3>1
    <3>3. Tail(q)[k - 1] = x
      BY <1>2, <3>1, <3>2
    <3> QED BY <1>2, <3>2, <3>3 DEF Range
  <2> QED BY <2>1, <2>2
<1> QED BY <1>2, <1>3, <1>4

------------------------------------------------------------------------
(* The server's steps *)

\* A blank connection is well typed.
LEMMA FreeType == Free \in [state : State, cmd : Sendable, answer : Answer]
  BY DEF Free, State, Sendable, Answer

\* An operation on one connection gives a well-typed table.
LEMMA ConnType ==
    ASSUME NEW i \in Conns, ServerTypeOK,
           NEW r \in [state : State, cmd : Sendable, answer : Answer],
           conn' = [conn EXCEPT ![i] = r]
    PROVE  /\ conn' \in [Conns -> [state : State, cmd : Sendable, answer : Answer]]
           /\ conn'[i] = r
           /\ \A j \in Conns \ {i} : conn'[j] = conn[j]
  BY DEF ServerTypeOK

\* What a connection becomes when its request is read, handled or answered.
LEMMA ConnSteps ==
    ASSUME NEW i \in Conns, ServerTypeOK
    PROVE  /\ \A s \in State :
                 [conn EXCEPT ![i].state = s] = [conn EXCEPT ![i] = [conn[i] EXCEPT !.state = s]]
           /\ \A s \in State, a \in Answer :
                 [conn EXCEPT ![i].state = s, ![i].answer = a]
                   = [conn EXCEPT ![i] = [conn[i] EXCEPT !.state = s, !.answer = a]]
           /\ conn[i] \in [state : State, cmd : Sendable, answer : Answer]
           /\ conn[i] # Free => conn[i].cmd \in Sendable
  BY DEF ServerTypeOK

\* A connection that becomes r without passing through the queue.
LEMMA QueueUntouched ==
    ASSUME ServerTypeOK, QueueInv, NEW i \in Conns,
           NEW r \in [state : State, cmd : Sendable, answer : Answer],
           conn' = [conn EXCEPT ![i] = r], r.state # "waiting", ~Is(i, "waiting"), UNCHANGED queue
    PROVE  QueueInv'
<1>1. /\ conn'[i] = r
      /\ \A j \in Conns \ {i} : conn'[j] = conn[j]
  BY ConnType
<1> QED BY <1>1 DEF QueueInv, Is

\* What a window that waits on a connection can see of the others' steps.
Kept(j) == conn'[j] = Free \/ (conn'[j].cmd = conn[j].cmd /\ conn[j] # Free)

\* A task of the server takes a step.
LEMMA TaskStep ==
    ASSUME ServerTypeOK, QueueInv, NEW i \in Conns,
           Read(i) \/ ReadTimeout(i) \/ Handle(i) \/ Exit(i) \/ Reply(i)
    PROVE  ServerTypeOK' /\ QueueInv' /\ \A j \in Conns : Kept(j)
<1> USE DEF Kept
<1>c. conn[i] \in [state : State, cmd : Sendable, answer : Answer]
  BY DEF ServerTypeOK
<1>1. CASE ReadTimeout(i) \/ Reply(i)
  <2>1. ~Is(i, "waiting") /\ Free.state # "waiting"
    BY <1>1 DEF ReadTimeout, Reply, Is, Free
  <2>2. conn' = [conn EXCEPT ![i] = Free] /\ UNCHANGED <<daemon, mode, queue>>
    BY <1>1 DEF ReadTimeout, Reply
  <2>3. QueueInv'
    BY <2>1, <2>2, FreeType, QueueUntouched
  <2>4. /\ conn' \in [Conns -> [state : State, cmd : Sendable, answer : Answer]]
        /\ \A j \in Conns : conn'[j] = Free \/ conn'[j] = conn[j]
    BY <2>2, FreeType, ConnType
  <2> QED BY <2>2, <2>3, <2>4 DEF ServerTypeOK
<1>2. CASE Read(i) /\ conn[i].cmd = "garbage"
  <2> DEFINE r == [conn[i] EXCEPT !.state = "answering", !.answer = "Error"]
  <2>1. conn' = [conn EXCEPT ![i] = r] /\ UNCHANGED <<daemon, mode, queue>>
    BY <1>2, ConnSteps DEF Read, State, Answer
  <2>2. /\ r \in [state : State, cmd : Sendable, answer : Answer]
        /\ r.state = "answering" /\ r.cmd = conn[i].cmd
    BY <1>c DEF State, Answer
  <2>3. ~Is(i, "waiting") /\ conn[i] # Free
    BY <1>2 DEF Read, Is, Free
  <2> HIDE DEF r
  <2>4. QueueInv'
    BY <2>1, <2>2, <2>3, QueueUntouched
  <2>5. /\ conn' \in [Conns -> [state : State, cmd : Sendable, answer : Answer]]
        /\ conn'[i] = r
        /\ \A j \in Conns \ {i} : conn'[j] = conn[j]
    BY <2>1, <2>2, ConnType
  <2> QED BY <2>1, <2>2, <2>3, <2>4, <2>5 DEF ServerTypeOK
<1>3. CASE Read(i) /\ conn[i].cmd # "garbage"
  <2> DEFINE r == [conn[i] EXCEPT !.state = "waiting"]
  <2>1. /\ conn' = [conn EXCEPT ![i] = r] /\ queue' = Append(queue, i)
        /\ UNCHANGED <<daemon, mode>>
    BY <1>3, ConnSteps DEF Read, State
  <2>2. /\ r \in [state : State, cmd : Sendable, answer : Answer]
        /\ r.state = "waiting" /\ r.cmd = conn[i].cmd /\ r.cmd \in Command
    BY <1>3, <1>c DEF State, Read, Sendable
  <2>3. ~Is(i, "waiting") /\ conn[i] # Free
    BY <1>3 DEF Read, Is, Free
  <2> HIDE DEF r
  <2>4. /\ conn' \in [Conns -> [state : State, cmd : Sendable, answer : Answer]]
        /\ conn'[i] = r
        /\ \A j \in Conns \ {i} : conn'[j] = conn[j]
    BY <2>1, <2>2, ConnType
  <2>5. queue' \in Seq(Conns) /\ Distinct(queue') /\ Range(queue') = Range(queue) \cup {i}
    BY <2>1, <2>3, Enqueue DEF ServerTypeOK, QueueInv, Distinct
  <2>6. QueueInv'
    BY <2>2, <2>4, <2>5 DEF QueueInv, Is, Distinct
  <2> QED BY <2>1, <2>2, <2>3, <2>4, <2>5, <2>6 DEF ServerTypeOK
<1>4. CASE Handle(i)
  <2> DEFINE r == Handled(conn[i])
  <2>0. AnswerTo(conn[i].cmd) \in Answer /\ ModeAfter(conn[i].cmd) \in Mode
    BY DEF AnswerTo, Answer, ModeAfter, Mode, ServerTypeOK
  <2>1. /\ conn' = [conn EXCEPT ![i] = r] /\ queue' = Tail(queue)
        /\ UNCHANGED daemon /\ mode' = ModeAfter(conn[i].cmd)
    BY <1>4 DEF Handle
  <2>2. /\ r \in [state : State, cmd : Sendable, answer : Answer]
        /\ r.state # "waiting" /\ (r = Free \/ r.cmd = conn[i].cmd)
    BY <1>c, <2>0, FreeType DEF State, Handled, Free
  <2>3. Is(i, "waiting") /\ i = Head(queue) /\ conn[i] # Free
    BY <1>4 DEF Handle, Is, Free
  <2> HIDE DEF r
  <2>4. /\ conn' \in [Conns -> [state : State, cmd : Sendable, answer : Answer]]
        /\ conn'[i] = r
        /\ \A j \in Conns \ {i} : conn'[j] = conn[j]
    BY <2>1, <2>2, ConnType
  <2>5. queue # <<>>
    BY <2>3 DEF QueueInv, Range
  <2>6. queue' \in Seq(Conns) /\ Distinct(queue') /\ Range(queue') = Range(queue) \ {i}
    BY <2>1, <2>3, <2>5, Dequeue DEF ServerTypeOK, QueueInv, Distinct
  <2>7. QueueInv'
    BY <2>2, <2>4, <2>6 DEF QueueInv, Is, Distinct
  <2> QED BY <2>0, <2>1, <2>2, <2>3, <2>4, <2>6, <2>7 DEF ServerTypeOK
<1>5. CASE Exit(i)
  BY <1>5, FreeType DEF Exit, DropAll, ServerTypeOK, QueueInv, Is, Free, Range, Mode
<1> QED BY <1>1, <1>2, <1>3, <1>4, <1>5

\* A client connects.
LEMMA ConnectStep ==
    ASSUME ServerTypeOK, QueueInv, NEW i \in Conns, NEW cmd \in Sendable,
           Connect(i, cmd), UNCHANGED <<daemon, mode, queue>>
    PROVE  /\ ServerTypeOK' /\ QueueInv'
           /\ IsFree(i) /\ conn'[i].cmd = cmd
           /\ \A j \in Conns \ {i} : conn'[j] = conn[j]
<1> DEFINE r == [Free EXCEPT !.state = "reading", !.cmd = cmd]
<1>1. /\ r \in [state : State, cmd : Sendable, answer : Answer]
      /\ r.state = "reading" /\ r.cmd = cmd
  BY DEF Free, State, Answer
<1>2. conn' = [conn EXCEPT ![i] = r] /\ IsFree(i) /\ ~Is(i, "waiting")
  BY DEF Connect, IsFree, Is, Free
<1> HIDE DEF r
<1>3. /\ conn' \in [Conns -> [state : State, cmd : Sendable, answer : Answer]]
      /\ conn'[i] = r
      /\ \A j \in Conns \ {i} : conn'[j] = conn[j]
  BY <1>1, <1>2, ConnType
<1>4. QueueInv'
  BY <1>1, <1>2, QueueUntouched
<1> QED BY <1>1, <1>2, <1>3, <1>4 DEF ServerTypeOK

------------------------------------------------------------------------
(* The window's steps *)

\* Every callback sends a command.
LEMMA RequestType ==
    ASSUME NEW callback \in Callback, NEW m \in Mode
    PROVE  Request(callback, m) \in Sendable
  BY DEF Request, Callback, Sendable, Command

\* A callback sends its request: the daemon sees a new connection, or nothing.
LEMMA SendStep ==
    ASSUME TypeOK, QueueInv, NEW callback \in Callback, NEW cmd \in Sendable, Send(callback, cmd)
    PROVE  /\ ServerTypeOK' /\ QueueInv'
           /\ ui' = callback /\ on' \in UiConns \cup {NoConn}
           /\ on' # NoConn => conn'[on'].cmd = cmd
<1>1. UNCHANGED <<daemon, mode, queue>> /\ ui' = callback
  BY DEF Send
<1>2. ASSUME NEW i \in UiConns, Connect(i, cmd), on' = i
      PROVE  ServerTypeOK' /\ QueueInv' /\ conn'[on'].cmd = cmd
  <2>1. i \in Conns
    BY DEF Conns
  <2> QED BY <1>1, <1>2, <2>1, ConnectStep DEF TypeOK
<1>3. CASE on' = NoConn /\ UNCHANGED conn
  BY <1>1, <1>3 DEF TypeOK, ServerTypeOK, QueueInv, Is
<1> QED BY <1>1, <1>2, <1>3 DEF Send

\* A request ends, with an answer or without.
LEMMA ReturnStep ==
    ASSUME TypeOK, QueueInv, Returned \/ (\E m \in Mode : Answered(m)) \/ Unanswered
    PROVE  ServerTypeOK' /\ QueueInv'
<1>1. CASE Unanswered
  BY <1>1 DEF Unanswered, serverVars, TypeOK, ServerTypeOK, QueueInv, Is
<1>2. CASE on # NoConn /\ Reply(on)
  <2>1. on \in Conns
    BY <1>2 DEF TypeOK, Conns
  <2> QED BY <1>2, <2>1, TaskStep DEF TypeOK
<1> QED BY <1>1, <1>2 DEF Returned, Answered

------------------------------------------------------------------------
(* The inductive invariant *)

\* Nobody has connected yet.
LEMMA InitIInv == Init => IInv
<1> SUFFICES ASSUME Init PROVE IInv
  OBVIOUS
<1>1. ServerTypeOK /\ QueueInv
  BY FreeType, EmptyQueue DEF Init, ServerInit, ServerTypeOK, QueueInv, Is, Free, Mode
<1> QED BY <1>1 DEF Init, IInv, TypeOK, ThreadInv, Mode

\* The tasks of the server and the window's own steps keep it.
LEMMA NextIInv == IInv /\ [Next]_vars => IInv'
<1> SUFFICES ASSUME IInv, [Next]_vars PROVE IInv'
  OBVIOUS
<1> USE DEF IInv
<1>0. /\ TypeOK /\ QueueInv /\ ThreadInv
      /\ ServerTypeOK /\ asked \in Mode /\ badge \in Mode /\ cached \in Mode
      /\ on \in UiConns \cup {NoConn} /\ dialog \in BOOLEAN
  BY DEF TypeOK
<1>m. {"Normal", "Supaa", "SupaaPlus"} = Mode
  BY DEF Mode
<1>1. CASE UNCHANGED vars
  BY <1>1 DEF vars, serverVars, uiVars, TypeOK, ServerTypeOK, QueueInv, ThreadInv, Is, IsFree,
              Request
<1>2. ASSUME NEW i \in Conns, Serve(i) PROVE IInv'
  <2>1. UNCHANGED uiVars /\ ServerTypeOK' /\ QueueInv' /\ \A j \in Conns : Kept(j)
    BY <1>2, <1>0, TaskStep DEF Serve
  <2>2. ThreadInv'
    BY <1>0, <2>1 DEF ThreadInv, uiVars, Kept, IsFree, Conns, Request
  <2> QED BY <1>0, <2>1, <2>2 DEF TypeOK, uiVars
<1>3. CASE OtherClient
  <2>1. PICK i \in CliConns, cmd \in CliCommands :
          Connect(i, cmd) /\ UNCHANGED <<daemon, mode, queue, uiVars>>
    BY <1>3 DEF OtherClient
  <2>2. i \in Conns /\ i \notin UiConns /\ cmd \in Sendable
    BY IpcAssumption DEF Conns
  <2>3. /\ ServerTypeOK' /\ QueueInv'
        /\ \A j \in Conns \ {i} : conn'[j] = conn[j]
    BY <1>0, <2>1, <2>2, ConnectStep
  <2>4. ThreadInv'
    BY <1>0, <2>1, <2>2, <2>3 DEF ThreadInv, uiVars, IsFree, Conns, Request
  <2> QED BY <1>0, <2>1, <2>3, <2>4 DEF TypeOK, uiVars
<1>4. CASE Lifecycle
  <2>0. CASE Start /\ UNCHANGED uiVars
    BY <1>0, <2>0 DEF Start, uiVars, TypeOK, ServerTypeOK, QueueInv, ThreadInv, Is, IsFree, Request
  <2>1. CASE Crash /\ UNCHANGED uiVars
    <3>1. conn' = [i \in Conns |-> Free] /\ queue' = <<>> /\ mode' = "Normal" /\ daemon' = "failed"
      BY <2>1 DEF Crash, DropAll
    <3>2. ServerTypeOK' /\ QueueInv'
      BY <3>1, FreeType, EmptyQueue DEF ServerTypeOK, QueueInv, Is, Free, Mode
    <3>3. ThreadInv'
      BY <1>0, <2>1, <3>1 DEF ThreadInv, uiVars, IsFree, Conns
    <3> QED BY <1>0, <2>1, <3>2, <3>3 DEF TypeOK, uiVars
  <2> QED BY <1>4, <2>0, <2>1 DEF Lifecycle
<1>5. ASSUME NEW callback \in Callback, NEW m \in Mode,
             Send(callback, Request(callback, m)), asked' \in Mode,
             callback \in {"click", "quit_mode"} => asked' = m,
             callback # "click" => asked' = "Normal",
             badge' \in Mode, cached' \in Mode, dialog' \in BOOLEAN
      PROVE  IInv'
  <2>1. /\ ServerTypeOK' /\ QueueInv'
        /\ ui' = callback /\ on' \in UiConns \cup {NoConn}
        /\ on' # NoConn => conn'[on'].cmd = Request(callback, m)
    BY <1>0, <1>5, RequestType, SendStep
  <2>2. Request(callback, m) = Request(ui', asked')
    BY <1>5, <2>1 DEF Request, Callback
  <2>3. ThreadInv'
    BY <1>5, <2>1, <2>2 DEF ThreadInv
  <2> QED BY <1>5, <2>1, <2>3 DEF TypeOK
<1>6. CASE User \/ Poll \/ PollList \/ QuitMode
  <2>1. ASSUME NEW m \in Mode, Click(m) PROVE IInv'
    BY <1>0, <1>5, <2>1 DEF Click, Request, Callback
  <2>2. CASE Restore \/ Quit
    BY <1>0, <1>5, <1>m, <2>2 DEF Restore, Quit, Request, Callback, ThreadInv
  <2>3. CASE Poll \/ PollList
    BY <1>0, <1>5, <1>m, <2>3 DEF Poll, PollList, Request, Callback, ThreadInv
  <2>4. CASE KeyQ \/ Cancel
    BY <1>0, <2>4 DEF KeyQ, Cancel, serverVars, TypeOK, ServerTypeOK, QueueInv, ThreadInv, Is,
                      IsFree, Request
  <2>5. CASE QuitMode
    BY <1>0, <1>5, <1>m, <2>5 DEF QuitMode, Request, Callback, ThreadInv
  <2> QED BY <1>6, <2>1, <2>2, <2>3, <2>4, <2>5, UiAssumption DEF User
<1>7. CASE GiveUp
  BY <1>0, <1>7 DEF GiveUp, serverVars, TypeOK, ServerTypeOK, QueueInv, ThreadInv, Is
<1>8. CASE Clicked \/ Restored \/ Listed \/ QuitRestored \/ QuitDone \/ NoStatus \/ \E m \in Mode : Status(m)
  <2>1. ServerTypeOK' /\ QueueInv'
    BY <1>0, <1>8, ReturnStep DEF Clicked, Restored, Listed, QuitRestored, QuitDone, NoStatus,
                                  Status
  <2>2. /\ on' = NoConn /\ asked' = "Normal" /\ ui' \in {"idle", "polled", "restored"}
        /\ {asked', badge', cached'} \subseteq Mode /\ dialog' \in BOOLEAN
    BY <1>0, <1>m, <1>8 DEF Clicked, Restored, Listed, QuitRestored, QuitDone, NoStatus, Status, ThreadInv
  <2> QED BY <2>1, <2>2 DEF TypeOK, ThreadInv
<1> QED
  BY <1>1, <1>2, <1>3, <1>4, <1>6, <1>7, <1>8 DEF Next, Thread

(* The daemon's mutex (handle_connection) has one holder and a queue in the order of
   arrival, in which every waiting task stands once, whichever clients have
   given up; and the window's thread blocks only in the request of
   the callback that is running (ipc_send). *)
THEOREM Invariance == Spec => []IInv
  BY InitIInv, NextIInv, PTL DEF Spec
------------------------------------------------------------------------
(* Requests are kept *)

\* A later arrival is behind everyone who waits.
LEMMA AheadAppend ==
    ASSUME NEW S, NEW q \in Seq(S), NEW j \in S, NEW i, i # j
    PROVE  AheadOf(i, Append(q, j)) \subseteq AheadOf(i, q)
<1>1. /\ DOMAIN q = 1..Len(q) /\ Len(q) \in Nat
      /\ DOMAIN Append(q, j) = 1..(Len(q) + 1)
      /\ \A k \in 1..Len(q) : Append(q, j)[k] = q[k]
      /\ Append(q, j)[Len(q) + 1] = j
  OBVIOUS
<1>2. ASSUME NEW x \in AheadOf(i, Append(q, j)) PROVE x \in AheadOf(i, q)
  <2>1. PICK k \in DOMAIN Append(q, j), l \in DOMAIN Append(q, j) :
          k < l /\ Append(q, j)[l] = i /\ x = Append(q, j)[k]
    BY <1>2 DEF AheadOf
  <2>2. k \in 1..Len(q) /\ l \in 1..Len(q)
    BY <1>1, <2>1
  <2>3. x = q[k] /\ q[l] = i
    BY <1>1, <2>1, <2>2
  <2> QED BY <1>1, <2>1, <2>2, <2>3 DEF AheadOf
<1> QED BY <1>2

\* When the first leaves, the others stay in their order.
LEMMA AheadTail ==
    ASSUME NEW S, NEW q \in Seq(S), q # <<>>, NEW i
    PROVE  AheadOf(i, Tail(q)) \subseteq AheadOf(i, q)
<1>1. DOMAIN q = 1..Len(q) /\ Len(q) \in Nat /\ Len(q) >= 1
  OBVIOUS
<1>2. /\ DOMAIN Tail(q) = 1..(Len(q) - 1)
      /\ \A k \in 1..(Len(q) - 1) : Tail(q)[k] = q[k + 1]
  BY <1>1
<1>3. ASSUME NEW x \in AheadOf(i, Tail(q)) PROVE x \in AheadOf(i, q)
  <2>1. PICK k \in DOMAIN Tail(q), l \in DOMAIN Tail(q) : k < l /\ Tail(q)[l] = i /\ x = Tail(q)[k]
    BY <1>3 DEF AheadOf
  <2>2. k + 1 \in DOMAIN q /\ l + 1 \in DOMAIN q /\ k + 1 < l + 1
    BY <1>1, <1>2, <2>1
  <2>3. x = q[k + 1] /\ q[l + 1] = i
    BY <1>2, <2>1
  <2> QED BY <2>2, <2>3 DEF AheadOf
<1> QED BY <1>3

\* A request no step touches.
LEMMA Untouched ==
    ASSUME NEW i, NEW m, conn'[i] = conn[i], AheadOf(i, queue') \subseteq AheadOf(i, queue)
    PROVE  Keeps(i, m)
  BY DEF Keeps, Is

\* A task of the server keeps every request, its own until it has carried it out.
LEMMA TaskKeeps ==
    ASSUME ServerTypeOK, QueueInv, NEW j \in Conns, daemon' = "up",
           Read(j) \/ ReadTimeout(j) \/ Handle(j) \/ Exit(j) \/ Reply(j),
           NEW i \in Conns, NEW m \in Mode
    PROVE  Keeps(i, m)
<1>1. CASE ReadTimeout(j) \/ Reply(j)
  <2>1. UNCHANGED queue /\ (i # j => conn'[i] = conn[i])
    BY <1>1 DEF ReadTimeout, Reply, ServerTypeOK
  <2>2. CASE i = j
    BY <1>1, <2>2 DEF ReadTimeout, Reply, Keeps, Is, Requesting, Mode
  <2> QED BY <2>1, <2>2, Untouched
<1>2. CASE Read(j)
  <2>1. CASE i = j
    <3> SUFFICES ASSUME conn[i].cmd \in Requesting(m) PROVE Keeps(i, m)
      BY DEF Keeps
    <3>1. conn' = [conn EXCEPT ![j].state = "waiting"] /\ Is(i, "reading")
      BY <1>2, <2>1 DEF Read, Requesting, Mode
    <3>2. conn'[i].state = "waiting" /\ conn'[i].cmd = conn[i].cmd /\ ~Is(i, "waiting")
      BY <2>1, <3>1 DEF ServerTypeOK, Is
    <3> QED BY <3>2 DEF Keeps
  <2>2. CASE i # j
    <3>1. conn'[i] = conn[i] /\ queue' \in {queue, Append(queue, j)}
      BY <1>2, <2>2 DEF Read, ServerTypeOK
    <3>2. AheadOf(i, queue') \subseteq AheadOf(i, queue)
      BY <2>2, <3>1, AheadAppend DEF ServerTypeOK
    <3> QED BY <3>1, <3>2, Untouched
  <2> QED BY <2>1, <2>2
<1>3. CASE Handle(j)
  <2>1. CASE i = j
    BY <1>3, <2>1 DEF Handle, Keeps, Requesting, ModeAfter, Mode
  <2>2. CASE i # j
    <3>1. conn'[i] = conn[i] /\ queue' = Tail(queue) /\ queue # <<>>
      BY <1>3, <2>2 DEF Handle, ServerTypeOK, QueueInv, Range
    <3>2. AheadOf(i, queue') \subseteq AheadOf(i, queue)
      BY <3>1, AheadTail DEF ServerTypeOK
    <3> QED BY <3>1, <3>2, Untouched
  <2> QED BY <2>1, <2>2
<1>4. CASE Exit(j)
  BY <1>4 DEF Exit
<1> QED BY <1>1, <1>2, <1>3, <1>4

\* A connection that is opened is nobody's who waits.
LEMMA ConnectKeeps ==
    ASSUME ServerTypeOK, NEW j \in Conns, NEW cmd, Connect(j, cmd), UNCHANGED queue,
           NEW i \in Conns, NEW m \in Mode
    PROVE  Keeps(i, m)
<1>1. CASE i = j
  BY <1>1 DEF Connect, IsFree, Free, Keeps
<1>2. CASE i # j
  BY <1>2, Untouched DEF Connect, ServerTypeOK
<1> QED BY <1>1, <1>2

(* What has reached the server (handle_connection, daemon.rs) is not lost: a request
   for a mode or a restore waits until its turn in the order of the mutex and is then carried out, though its
   client has given up, unless the daemon ends. *)
THEOREM NothingDropped == Spec => RequestsKept
<1>1. ASSUME IInv, [Next]_vars, daemon' = "up", NEW i \in Conns, NEW m \in Mode
      PROVE  Keeps(i, m)
  <2>0. ServerTypeOK /\ QueueInv /\ on \in UiConns \cup {NoConn} /\ UiConns \subseteq Conns
        /\ CliConns \subseteq Conns
    BY <1>1 DEF IInv, TypeOK, Conns
  <2>1. CASE UNCHANGED serverVars
    BY <2>1, Untouched DEF serverVars
  <2>2. ASSUME NEW j \in Conns, Serve(j) PROVE Keeps(i, m)
    BY <1>1, <2>0, <2>2, TaskKeeps DEF Serve
  <2>3. CASE OtherClient
    <3>1. PICK j \in CliConns, cmd \in CliCommands : Connect(j, cmd) /\ UNCHANGED queue
      BY <2>3 DEF OtherClient
    <3> QED BY <2>0, <3>1, ConnectKeeps
  <2>4. CASE Lifecycle
    BY <1>1, <2>4, Untouched DEF Lifecycle, Crash, Start
  <2>5. ASSUME NEW callback, NEW cmd, Send(callback, cmd) PROVE Keeps(i, m)
    <3>1. UNCHANGED queue /\ (UNCHANGED conn \/ \E j \in UiConns : Connect(j, cmd))
      BY <2>5 DEF Send
    <3> QED BY <2>0, <3>1, ConnectKeeps, Untouched
  <2>6. CASE Returned \/ Unanswered \/ \E a \in Answer : Answered(a)
    BY <1>1, <2>0, <2>1, <2>6, TaskKeeps DEF Returned, Unanswered, Answered
  <2>7. CASE User \/ Poll
    BY <2>1, <2>5, <2>7 DEF User, Click, Restore, KeyQ, Cancel, Quit, Poll
  <2>8. CASE Thread
    BY <2>1, <2>5, <2>6, <2>8 DEF Thread, Clicked, Restored, NoStatus, PollList, Listed,
       QuitRestored, QuitMode, QuitDone, GiveUp, Status, Answer
  <2>9. UNCHANGED vars => UNCHANGED serverVars
    BY DEF vars
  <2> QED BY <1>1, <2>1, <2>2, <2>3, <2>4, <2>7, <2>8, <2>9 DEF Next
<1>2. IInv /\ [Next]_vars => [daemon' = "up" => \A i \in Conns, m \in Mode : Keeps(i, m)]_vars
  BY <1>1
<1> QED BY <1>2, Invariance, PTL DEF Spec, RequestsKept
------------------------------------------------------------------------
(* Agreement is stable *)

\* Nothing that would change the mode is on its way.
NoRequest == \A i \in Conns, m \in Mode :
    conn[i].cmd \in Requesting(m) => conn[i].state \notin {"reading", "waiting"}

\* What carries no request for a mode is carried out without changing it.
LEMMA TaskSettled ==
    ASSUME ServerTypeOK, QueueInv, NoRequest, daemon' = "up", NEW j \in Conns,
           Read(j) \/ ReadTimeout(j) \/ Handle(j) \/ Exit(j) \/ Reply(j)
    PROVE  /\ mode' = mode /\ NoRequest'
           /\ \A i \in Conns :
                /\ i # j => conn'[i] = conn[i]
                /\ conn[i].cmd = "GetStatus" /\ Is(i, "answering")' /\ ~Is(i, "answering")
                      => conn'[i].answer = mode
<1>c. conn[j] \in [state : State, cmd : Sendable, answer : Answer]
  BY DEF ServerTypeOK
<1>1. CASE ReadTimeout(j) \/ Reply(j)
  <2>1. /\ conn'[j] = Free /\ mode' = mode
        /\ \A i \in Conns \ {j} : conn'[i] = conn[i]
    BY <1>1 DEF ReadTimeout, Reply, ServerTypeOK
  <2> QED BY <2>1 DEF NoRequest, Free, Is
<1>2. CASE Read(j)
  <2>1. conn[j].cmd # "GetStatus" \/ conn' = [conn EXCEPT ![j].state = "waiting"]
    BY <1>2 DEF Read
  <2>2. /\ conn'[j].cmd = conn[j].cmd /\ mode' = mode /\ Is(j, "reading")
        /\ conn'[j].state = "waiting" \/ conn[j].cmd # "GetStatus"
        /\ \A i \in Conns \ {j} : conn'[i] = conn[i]
    BY <1>2, <1>c DEF Read, ServerTypeOK, State, Answer
  <2> QED BY <2>2 DEF NoRequest, Is
<1>3. CASE Handle(j)
  <2>1. conn[j].cmd \notin Mode \cup {"EmergencyRestore"}
    BY <1>3 DEF Handle, NoRequest, Requesting, Is, Mode
  <2>2. /\ mode' = mode /\ conn'[j] = Handled(conn[j])
        /\ \A i \in Conns \ {j} : conn'[i] = conn[i]
    BY <1>3, <2>1 DEF Handle, ModeAfter, ServerTypeOK
  <2>3. /\ Handled(conn[j]).state \in {"free", "answering"}
        /\ conn[j].cmd = "GetStatus" => Handled(conn[j]).answer = mode
    BY <1>c DEF Handled, Serialises, AnswerTo, Free
  <2> QED BY <2>2, <2>3 DEF NoRequest, Is
<1>4. CASE Exit(j)
  BY <1>4 DEF Exit
<1> QED BY <1>1, <1>2, <1>3, <1>4

\* A client that asks for no mode connects.
LEMMA ConnectSettled ==
    ASSUME ServerTypeOK, NoRequest, NEW j \in Conns, NEW cmd, Connect(j, cmd),
           \A m \in Mode : cmd \notin Requesting(m)
    PROVE  /\ NoRequest' /\ ~Is(j, "answering")'
           /\ \A i \in Conns \ {j} : conn'[i] = conn[i]
<1>1. /\ conn'[j].cmd = cmd /\ conn'[j].state = "reading"
      /\ \A i \in Conns \ {j} : conn'[i] = conn[i]
  BY DEF Connect, ServerTypeOK, Free
<1> QED BY <1>1 DEF NoRequest, Is

(* Once badge, cached mode (supaa-ui) and the daemon's mode agree and no request for
   another is on its way, no answer that comes late, is lost or never given makes
   the window disagree again: the answer that a poll still
   waits for was computed after the last change. *)
THEOREM AgreementStays == Spec => StaysSettled
<1>1. ASSUME IInv, [Next]_vars, Settled, Quiet' PROVE Settled'
  <2>0. /\ ServerTypeOK /\ QueueInv /\ ThreadInv /\ on \in UiConns \cup {NoConn}
        /\ UiConns \subseteq Conns /\ CliConns \subseteq Conns /\ CliConns \cap UiConns = {}
        /\ NoRequest /\ badge = mode /\ cached = mode /\ daemon = "up" /\ daemon' = "up"
        /\ ui \in {"idle", "status", "polled", "list"} /\ ui' \in {"idle", "status", "polled", "list"}
    BY <1>1, IpcAssumption DEF IInv, TypeOK, Conns, Settled, Quiet, NoRequest
  <2>a. ui = "status" /\ on # NoConn => conn[on].cmd = "GetStatus" \/ IsFree(on)
    BY <2>0 DEF ThreadInv, Request
  <2>b. ui = "status" /\ on # NoConn /\ Is(on, "answering") => conn[on].answer = mode
    BY <1>1 DEF Settled
  <2>s. ASSUME NoRequest', mode' = mode, badge' = mode, cached' = mode,
               ui' = "status" /\ on' # NoConn /\ conn'[on'].state = "answering"
                  => ui = "status" /\ on' = on /\ conn'[on].answer = mode
        PROVE  Settled'
    BY <1>1, <2>s DEF Settled, NoRequest, Is
  <2>1. CASE UNCHANGED vars
    BY <2>0, <2>1, <2>b, <2>s DEF vars, serverVars, uiVars, NoRequest, Is
  <2>2. ASSUME NEW j \in Conns, Serve(j) PROVE Settled'
    <3>1. /\ mode' = mode /\ NoRequest' /\ UNCHANGED uiVars
          /\ \A i \in Conns :
               /\ i # j => conn'[i] = conn[i]
               /\ conn[i].cmd = "GetStatus" /\ Is(i, "answering")' /\ ~Is(i, "answering")
                     => conn'[i].answer = mode
      BY <2>0, <2>2, TaskSettled DEF Serve
    <3>2. ASSUME on \in Conns, ui = "status", conn'[on].state = "answering"
          PROVE  conn'[on].answer = mode
      <4>0. on # NoConn
        BY <3>2, UiAssumption
      <4>1. CASE IsFree(on)
        <5>1. conn'[on] = Free \/ conn'[on] = conn[on]
          <6>1. CASE on = j
            BY <2>2, <4>1, <6>1 DEF Serve, Read, ReadTimeout, Handle, Exit, DropAll, Reply, Is, IsFree, Free
          <6> QED BY <3>1, <3>2, <6>1
        <5> QED BY <3>2, <4>1, <5>1 DEF IsFree, Free
      <4>2. CASE Is(on, "answering")
        <5>1. j # on
          BY <2>2, <4>2 DEF Serve, Read, ReadTimeout, Handle, Exit, Is
        <5> QED BY <2>b, <3>1, <3>2, <4>0, <4>2, <5>1
      <4>3. CASE ~IsFree(on) /\ ~Is(on, "answering")
        BY <2>a, <3>1, <3>2, <4>0, <4>3 DEF Is
      <4> QED BY <4>1, <4>2, <4>3
    <3>3. on' = on /\ ui' = ui /\ badge' = badge /\ cached' = cached
      BY <3>1 DEF uiVars
    <3>4. ui' = "status" /\ on' # NoConn /\ conn'[on'].state = "answering"
             => ui = "status" /\ on' = on /\ conn'[on].answer = mode
      BY <2>0, <3>2, <3>3
    <3> QED BY <2>0, <2>s, <3>1, <3>3, <3>4
  <2>3. CASE OtherClient
    <3>1. PICK j \in CliConns, cmd \in CliCommands :
            Connect(j, cmd) /\ UNCHANGED <<daemon, mode, queue, uiVars>>
      BY <2>3 DEF OtherClient
    <3>2. cmd \in {"garbage", "nothing"}
      <4>1. conn'[j].cmd = cmd
        BY <2>0, <3>1 DEF Connect, ServerTypeOK, Free
      <4> QED BY <1>1, <4>1 DEF Quiet
    <3>3. \A m \in Mode : cmd \notin Requesting(m)
      BY <3>2 DEF Mode, Requesting
    <3>4. NoRequest' /\ \A i \in Conns \ {j} : conn'[i] = conn[i]
      BY <2>0, <3>1, <3>3, ConnectSettled
    <3>5. on # NoConn => conn'[on] = conn[on]
      BY <2>0, <3>4
    <3> QED BY <2>0, <2>b, <2>s, <3>1, <3>4, <3>5 DEF uiVars, Is
  <2>4. CASE Lifecycle
    BY <2>0, <2>4 DEF Lifecycle, Crash, Start
  <2>5. ASSUME NEW callback \in {"status", "list"}, Send(callback, Request(callback, "Normal")),
               badge' = badge, cached' = cached
        PROVE  Settled'
    <3>1. PICK j \in UiConns : Connect(j, Request(callback, "Normal")) /\ on' = j
      BY <2>0, <2>5 DEF Send
    <3>2. \A m \in Mode : Request(callback, "Normal") \notin Requesting(m)
      BY DEF Request, Requesting, Mode
    <3>3. NoRequest' /\ ~Is(j, "answering")'
      BY <2>0, <3>1, <3>2, ConnectSettled
    <3>4. conn'[on'].state # "answering"
      BY <3>1, <3>3 DEF Is
    <3> QED BY <2>0, <2>5, <2>s, <3>3, <3>4 DEF Send
  <2>6. CASE User
    BY <2>0, <2>1, <2>6, <2>b, <2>s DEF User, Click, Restore, KeyQ, Cancel, Quit, Send, serverVars,
       NoRequest, Is
  <2>7. CASE Poll \/ PollList
    BY <2>5, <2>7 DEF Poll, PollList, Request
  <2>8. ASSUME Unanswered \/ Answered(mode) \/ (\E a \in Answer : Answered(a)), on' = NoConn,
               badge' = mode, cached' = mode
        PROVE  Settled'
    <3>1. CASE Unanswered
      BY <2>0, <2>8, <2>s, <3>1 DEF Unanswered, serverVars, NoRequest
    <3>2. CASE on # NoConn /\ Reply(on)
      BY <2>0, <2>8, <2>s, <3>2, TaskSettled
    <3> QED BY <2>8, <3>1, <3>2 DEF Answered
  <2>9. CASE GiveUp
    BY <2>0, <2>9, <2>s DEF GiveUp, serverVars, NoRequest
  <2>10. CASE NoStatus \/ Listed
    BY <2>0, <2>8, <2>10 DEF NoStatus, Listed
  <2>11. ASSUME NEW m \in Mode, Status(m) PROVE Settled'
    <3>1. m = mode
      BY <2>b, <2>11 DEF Status, Answered
    <3> QED BY <2>8, <2>11, <3>1 DEF Status
  <2>12. CASE Clicked \/ Restored \/ QuitRestored \/ QuitMode \/ QuitDone
    BY <2>0, <2>12 DEF Clicked, Restored, QuitRestored, QuitMode, QuitDone
  <2> QED
    BY <1>1, <2>1, <2>2, <2>3, <2>4, <2>6, <2>7, <2>9, <2>10, <2>11, <2>12 DEF Next, Thread
<1>2. IInv /\ [Next]_vars => [Settled /\ Quiet' => Settled']_vars
  BY <1>1
<1> QED BY <1>2, Invariance, PTL DEF Spec, StaysSettled
=======================================================================
