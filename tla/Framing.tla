------------------------------ MODULE Framing ------------------------------
(***************************************************************************)
(* The bytes in the three pipes of one worker: how ipc_send cuts a message *)
(* into writes and how its readers put header and payload together again   *)
(* (src/ipc/ipc_protocol.c, the receivers of ipc_message_handler.c and     *)
(* worker_proc.c).  The modules of the bus take a pipe to be a sequence of *)
(* whole messages; this module says when it is one.                        *)
(*                                                                         *)
(*   cmd   written by the slot's IPC thread (SCAN) and by the main thread  *)
(*         of the master (STOP); read by the main thread of the worker,    *)
(*         and by the main thread of the master when it drains the pipe    *)
(*   data  written by the scanner, read by the IPC thread                  *)
(*   ctrl  written by both threads of the worker, without a lock; read by  *)
(*         the IPC thread                                                  *)
(*                                                                         *)
(* A cell <<m, k>> stands for some bytes of message m, the first           *)
(* HeaderSize cells for its header.                                        *)
(***************************************************************************)
EXTENDS Naturals, Sequences, FiniteSets, SequencesExt

CONSTANTS
  Messages,
  PipeOf,      \* the pipe a message is for
  Size,        \* its cells, header included
  Insists,     \* messages whose sender tries again after EAGAIN
  Script,      \* the messages each thread has to send, in order
  HeaderSize,  \* sizeof(IpcMessageHeader)
  PipeBuf,     \* PIPE_BUF: a write of so much goes in as a whole or not at all
  Room,        \* what a pipe holds
  Garbage      \* what a reader makes of cells that are no message

Pipes == {"cmd", "data", "ctrl"}
Threads == {"ipc", "master", "main", "scanner"}
Readers == {"ipc", "main"}

\* The pipes a thread writes to.
WritesTo(t) == CASE t \in {"ipc", "master"} -> {"cmd"}
                 [] t = "main" -> {"ctrl"}
                 [] t = "scanner" -> {"data", "ctrl"}

ASSUME SizeAssumption ==
  /\ HeaderSize \in Nat /\ HeaderSize >= 2
  /\ PipeBuf \in Nat /\ Room \in Nat /\ PipeBuf <= Room
  /\ Garbage \notin Messages  /\ Insists \subseteq Messages
  /\ \A m \in Messages : PipeOf[m] \in Pipes /\ Size[m] \in Nat /\ Size[m] >= HeaderSize

ASSUME ScriptAssumption ==
  /\ Script \in [Threads -> Seq(Messages)]
  /\ \A t \in Threads : \A i \in DOMAIN Script[t] : PipeOf[Script[t][i]] \in WritesTo(t)

VARIABLES
  pipe,     \* per pipe, the cells in it
  todo,     \* per thread, the messages it has still to send
  written,  \* per thread, `written` of the ipc_send it is in
  recv,     \* per reader, the message it is putting together
  drain,    \* ipc_drain_and_count_tasks on cmd
  up,       \* the worker process runs
  serving,  \* its main thread is in its loop
  sent,     \* history: per pipe, the messages that went in completely
  got,      \* history: per pipe, what its reader received
  torn      \* history: per pipe, a reader stopped within a message, or shared one

vars == <<pipe, todo, written, recv, drain, up, serving, sent, got, torn>>

Idle == [from |-> "none", part |-> "header", need |-> HeaderSize, cells |-> <<>>]
NoDrain == [state |-> "off", count |-> 0, skip |-> 0]

Cells(m, a, b) == [i \in 1 .. b - a + 1 |-> <<m, a + i - 1>>]
Least(a, b) == IF a < b THEN a ELSE b

Alive(t) == CASE t = "scanner" -> up [] t = "main" -> up /\ serving [] OTHER -> TRUE

-----------------------------------------------------------------------------
(* ipc_send *)

IsScan(m) == m \in Messages /\ PipeOf[m] = "cmd" /\ m \in Insists

\* The scanner gets its task through cmd.
HasTask(t) == t = "scanner" => \E i \in DOMAIN got["cmd"] : IsScan(got["cmd"][i])

\* The thread is in no receive and in no drain, which closes its end of cmd.
Sending(t) ==
  /\ Alive(t) /\ todo[t] # <<>> /\ HasTask(t)
  /\ t \in Readers => recv[t] = Idle
  /\ t = "master" => drain.state = "off"
  /\ t = "ipc" => drain.state # "done"

\* One write(2) of what is left of the message: all of it or nothing up to
\* PIPE_BUF, otherwise any part there is room for.
WriteSizes(left, free) ==
  IF left <= PipeBuf THEN {left} \cap 0 .. free ELSE 1 .. Least(left, free)

\* MUTANT: after a partial write the message is sent again from the start.
RestartAfter(done, size) == 0

\* Where the thread is in its message after a write.
WrittenAfter(done, size) == IF done = size THEN 0 ELSE done

\* A write; after a partial one the thread stays in ipc_send.
Send(t) ==
  LET m == Head(todo[t])
      p == PipeOf[m] IN
  /\ Sending(t)
  /\ \E n \in WriteSizes(Size[m] - written[t], Room - Len(pipe[p])) :
       LET done == written[t] + n IN
       /\ pipe' = [pipe EXCEPT ![p] = @ \o Cells(m, written[t] + 1, done)]
       /\ written' = [written EXCEPT ![t] = WrittenAfter(done, Size[m])]
       /\ todo' = IF done = Size[m] THEN [todo EXCEPT ![t] = Tail(@)] ELSE todo
       /\ sent' = IF done = Size[m] THEN [sent EXCEPT ![p] = Append(@, m)] ELSE sent
  /\ UNCHANGED <<recv, drain, up, serving, got, torn>>

\* MUTANT: nobody sends again.
NeverAgain(m) == FALSE

\* The callers that repeat ipc_send after EAGAIN.
SendsAgain(m) == m \in Insists

\* EAGAIN before the first cell, -2, and the caller drops the message.
GiveUpSend(t) ==
  LET m == Head(todo[t]) IN
  /\ Sending(t) /\ ~SendsAgain(m)
  /\ written[t] = 0 /\ WriteSizes(Size[m], Room - Len(pipe[PipeOf[m]])) = {}
  /\ todo' = [todo EXCEPT ![t] = Tail(@)]
  /\ UNCHANGED <<pipe, written, recv, drain, up, serving, sent, got, torn>>

-----------------------------------------------------------------------------
(* ipc_recv_header, ipc_recv_payload and their callers.  All read ends are *)
(* non-blocking.                                                           *)

ReadsFrom(t) == IF t = "ipc" THEN {"data", "ctrl"} ELSE {"cmd"}

\* The cells are the header of a message.
IsHeader(cells) == \E m \in Messages : cells = Cells(m, 1, HeaderSize)
MessageOf(cells) == Head(cells)[1]

\* The thread is between two messages it sends.
Receiving(t) == Alive(t) /\ written[t] = 0

\* One read(2): what there is, up to what is missing.
Read(t, p, r) ==
  LET n == Least(r.need - Len(r.cells), Len(pipe[p])) IN
  /\ n > 0
  /\ pipe' = [pipe EXCEPT ![p] = SubSeq(@, n + 1, Len(@))]
  /\ recv' = [recv EXCEPT ![t] = [r EXCEPT !.cells = @ \o SubSeq(pipe[p], 1, n)]]
  /\ torn' = [torn EXCEPT !["cmd"] = @ \/ (p = "cmd" /\ drain.state = "payload")]
  /\ UNCHANGED <<todo, written, drain, up, serving, sent, got>>

\* The pipe is readable.  With no writer left it shows HUP, see HangUp.
StartReceive(t) ==
  /\ Receiving(t) /\ recv[t] = Idle /\ up
  /\ \E p \in ReadsFrom(t) : Read(t, p, [Idle EXCEPT !.from = p])

ReceiveMore(t) ==
  /\ Receiving(t) /\ recv[t] # Idle
  /\ recv[t].part = "payload" => up
  /\ Read(t, recv[t].from, recv[t])

\* The next read finds nothing: EAGAIN in a header, no data for 100 ms in a
\* payload.  What was read is gone.  The worker leaves its loop if that happens
\* in the payload of a SCAN or STOP.
GiveUpReceive(t) ==
  LET r == recv[t] IN
  /\ Receiving(t) /\ r # Idle /\ up
  /\ Len(r.cells) < r.need /\ pipe[r.from] = <<>>
  /\ recv' = [recv EXCEPT ![t] = Idle]
  /\ torn' = [torn EXCEPT ![r.from] = TRUE]
  /\ serving' \in CASE t = "ipc" \/ r.part = "header" -> {serving}
                    [] IsHeader(SubSeq(r.cells, 1, HeaderSize)) -> {FALSE}
                    [] OTHER -> {serving, FALSE}
  /\ UNCHANGED <<pipe, todo, written, drain, up, sent, got>>

\* MUTANT: the payload of a message is left in the pipe.
PayloadIgnored(m) == 0

\* What the header of m says about the length of the payload.
PayloadSize(m) == Size[m] - HeaderSize

\* The header is there.  Other cells in its place say anything.
ParseHeader(t) ==
  LET r == recv[t] IN
  /\ Receiving(t) /\ r.part = "header" /\ Len(r.cells) = HeaderSize
  /\ \E len \in IF IsHeader(r.cells)
                THEN {PayloadSize(MessageOf(r.cells))} ELSE 0 .. Room :
       recv' = [recv EXCEPT ![t] = [r EXCEPT !.part = "payload", !.need = HeaderSize + len]]
  /\ UNCHANGED <<pipe, todo, written, drain, up, serving, sent, got, torn>>

\* The payload is there: the message is handed on, or dropped if its type means
\* nothing to this reader.  A STOP ends the loop of the worker.
Deliver(t) ==
  LET r == recv[t]
      whole == /\ IsHeader(SubSeq(r.cells, 1, HeaderSize))
               /\ r.cells = Cells(MessageOf(r.cells), 1, Len(r.cells))
      handed == IF whole THEN {<<MessageOf(r.cells)>>} ELSE {<<Garbage>>, <<>>} IN
  /\ Receiving(t) /\ r.part = "payload" /\ Len(r.cells) = r.need
  /\ \E h \in handed : got' = [got EXCEPT ![r.from] = @ \o h]
  /\ recv' = [recv EXCEPT ![t] = Idle]
  /\ serving' \in CASE t = "ipc" -> {serving}
                    [] whole -> {serving /\ IsScan(MessageOf(r.cells))}
                    [] OTHER -> {serving, FALSE}
  /\ UNCHANGED <<pipe, todo, written, drain, up, sent, torn>>

-----------------------------------------------------------------------------
(* ipc_drain_and_count_tasks: the master's main thread takes the SCANs left *)
(* in cmd, also while the worker still reads (RET_DEV_TIMEOUT).             *)

\* A SCAN or STOP the worker, or its sender, is in the middle of.
CmdShared == recv["main"] # Idle \/ written["ipc"] > 0

StartDrain ==
  /\ drain.state = "off" /\ written["master"] = 0
  /\ drain' = [NoDrain EXCEPT !.state = "header"]
  /\ torn' = [torn EXCEPT !["cmd"] = @ \/ CmdShared]
  /\ UNCHANGED <<pipe, todo, written, recv, up, serving, sent, got>>

\* MUTANT: the payload of a SCAN is not skipped.
NothingSkipped(m) == 0

\* The cells of the payload behind a header.
Skipped(m) == Size[m] - HeaderSize

\* A header, and what it says; less than a header ends the loop.  Other cells in
\* its place are path bytes: no known type and a length beyond everything.
DrainHeader ==
  LET n == Least(HeaderSize, Len(pipe["cmd"]))
      cells == SubSeq(pipe["cmd"], 1, n)
      m == MessageOf(cells) IN
  /\ drain.state = "header"
  /\ pipe' = [pipe EXCEPT !["cmd"] = SubSeq(@, n + 1, Len(@))]
  /\ drain' = IF n < HeaderSize THEN [drain EXCEPT !.state = "done"]
              ELSE IF IsHeader(cells)
              THEN [drain EXCEPT !.state = "payload", !.skip = Skipped(m),
                                 !.count = IF IsScan(m) THEN @ + 1 ELSE @]
              ELSE [drain EXCEPT !.state = "payload", !.skip = Room + 1]
  /\ torn' = [torn EXCEPT !["cmd"] = @ \/ CmdShared]
  /\ UNCHANGED <<todo, written, recv, up, serving, sent, got>>

\* One read; an empty pipe ends the inner loop only.
DrainPayload ==
  LET n == Least(drain.skip, Len(pipe["cmd"])) IN
  /\ drain.state = "payload"
  /\ pipe' = [pipe EXCEPT !["cmd"] = SubSeq(@, n + 1, Len(@))]
  /\ drain' = IF n = drain.skip \/ n = 0
              THEN [drain EXCEPT !.state = "header", !.skip = 0]
              ELSE [drain EXCEPT !.skip = @ - n]
  /\ torn' = [torn EXCEPT !["cmd"] = @ \/ CmdShared]
  /\ UNCHANGED <<todo, written, recv, up, serving, sent, got>>

-----------------------------------------------------------------------------
\* The worker is killed, or ends, at any point.
Die ==
  /\ up
  /\ up' = FALSE
  /\ torn' = [torn EXCEPT !["cmd"] = @ \/ recv["main"] # Idle]
  /\ recv' = [recv EXCEPT !["main"] = Idle]
  /\ UNCHANGED <<pipe, todo, written, drain, serving, sent, got>>

\* poll shows HUP before anything that is left in the pipe.
HangUp ==
  /\ ~up /\ recv["ipc"] # Idle
  /\ recv' = [recv EXCEPT !["ipc"] = Idle]
  /\ UNCHANGED <<pipe, todo, written, drain, up, serving, sent, got, torn>>

Init ==
  /\ pipe = [p \in Pipes |-> <<>>]
  /\ todo = Script /\ written = [t \in Threads |-> 0]
  /\ recv = [t \in Readers |-> Idle] /\ drain = NoDrain
  /\ up = TRUE /\ serving = TRUE
  /\ sent = [p \in Pipes |-> <<>>] /\ got = [p \in Pipes |-> <<>>]
  /\ torn = [p \in Pipes |-> FALSE]

Receive(t) == StartReceive(t) \/ ReceiveMore(t) \/ ParseHeader(t) \/ Deliver(t)

Drain == StartDrain \/ DrainHeader \/ DrainPayload

Next ==
  \/ \E t \in Threads : Send(t) \/ GiveUpSend(t)
  \/ \E t \in Readers : Receive(t) \/ GiveUpReceive(t)
  \/ Drain \/ Die \/ HangUp

\* The threads run.  Nothing makes a drain, a death or a slow writer happen.
Fairness ==
  /\ \A t \in Threads : WF_vars(Send(t) \/ GiveUpSend(t))
  /\ \A t \in Readers : WF_vars(Receive(t) \/ GiveUpReceive(t))

Spec == Init /\ [][Next]_vars /\ Fairness
-----------------------------------------------------------------------------
(* Properties *)

\* ctrl is the channel the bus takes it for, although two threads write to it
\* without a lock: as long as no message is larger than PIPE_BUF.
Ctrl == INSTANCE Channel WITH Capacity <- Room, sent <- sent["ctrl"], rcvd <- got["ctrl"]
CtrlIsChannel == Ctrl!Spec

\* Batches are larger.  What the master takes for a batch is one, and they come
\* in order without a gap, unless the IPC thread gave up within a message.
BatchesWhole == ~torn["data"] => IsPrefix(got["data"], sent["data"])

\* The SCANs among the messages of q.
Scans(q) == Cardinality({i \in DOMAIN q : IsScan(q[i])})

\* cleanup_dead_worker_slot takes from pending_tasks every SCAN the worker never
\* got, and no other, unless it was read by two at a time or in the middle of one.
DrainExact ==
  drain.state = "done" /\ ~torn["cmd"] =>
    drain.count + Scans(got["cmd"]) = Scans(sent["cmd"])

\* The report that a task is finished arrives, whatever became of its batches,
\* once the worker has the task and unless the worker is gone.
FinishArrives ==
  \A m \in Messages :
    PipeOf[m] = "ctrl" /\ m \in Insists =>
      (HasTask("scanner") ~> m \in ToSet(got["ctrl"]) \/ ~up)
=============================================================================
