----------------------------- MODULE WorkerProc -----------------------------
(***************************************************************************)
(* A worker process: its main thread, which reads fd_cmd and writes        *)
(* fd_ctrl (src/ipc/worker_proc.c), and its scanner thread, which takes    *)
(* the one task mailbox and writes fd_data and fd_ctrl                     *)
(* (src/scan/worker_scanner.c).  Heartbeats only say that no fault         *)
(* happened and are left out.                                              *)
(***************************************************************************)
EXTENDS Bus

others == <<masterVars, poolVars, cmdQ, retQ, ipcVars>>

\* The main thread is in its loop.
Serving(w) == worker[w].up /\ worker[w].ready /\ ~worker[w].stop

\* A write by the process goes through: there is a reader, and room.
CanWrite(w, pipe) == w \notin shut /\ Len(pipe[w]) < PipeCap

\* A write to fd_ctrl that is given up when the pipe is full.
TryCtrl(w, t) ==
  ctrlPipe' = IF CanWrite(w, ctrlPipe)
              THEN [ctrlPipe EXCEPT ![w] = Append(@, Msg(t, None))]
              ELSE ctrlPipe

SendReady(w) ==
  /\ worker[w].up /\ ~worker[w].ready /\ ~worker[w].stop
  /\ w \notin shut
  /\ worker' = [worker EXCEPT ![w].ready = TRUE]
  /\ TryCtrl(w, "READY")
  /\ UNCHANGED <<others, cmdPipe, dataPipe, faults>>

\* The mailbox holds one path: a SCAN that comes before the scanner took the
\* last one overwrites it.
ReadScan(w) ==
  /\ Serving(w)
  /\ HeadIs(cmdPipe[w], "SCAN")
  /\ worker' = [worker EXCEPT ![w].mail = Head(cmdPipe[w]).arg]
  /\ cmdPipe' = [cmdPipe EXCEPT ![w] = Tail(@)]
  /\ UNCHANGED <<others, dataPipe, ctrlPipe, faults>>

ReadStop(w) ==
  /\ Serving(w)
  /\ HeadIs(cmdPipe[w], "STOP")
  /\ worker' = [worker EXCEPT ![w].stop = TRUE]
  /\ cmdPipe' = [cmdPipe EXCEPT ![w] = Tail(@)]
  /\ UNCHANGED <<others, dataPipe, ctrlPipe, faults>>

\* The main thread leaves its loop after a failed system call, or never enters
\* it because the scanner thread could not be created.
Quit(w) ==
  /\ Fault("quit")
  /\ worker[w].up /\ ~worker[w].stop
  /\ worker' = [worker EXCEPT ![w].stop = TRUE]
  /\ UNCHANGED <<others, cmdPipe, dataPipe, ctrlPipe>>

\* The scanner is joined, then EXIT goes out; the process ends later.
SendExit(w) ==
  /\ worker[w].up /\ worker[w].stop /\ ~worker[w].exited
  /\ worker[w].task = None
  /\ w \notin shut
  /\ worker' = [worker EXCEPT ![w].exited = TRUE]
  /\ TryCtrl(w, "EXIT")
  /\ UNCHANGED <<others, cmdPipe, dataPipe, faults>>

ExitProcess(w) ==
  /\ worker[w].exited
  /\ Die(w)
  /\ UNCHANGED <<others, cmdPipe, faults>>

\* The scanner made no progress for the timeout: the main thread says so, and
\* will say so again at every turn of its loop.
DevTimeout(w) ==
  /\ Fault("stuck")
  /\ Serving(w) /\ worker[w].task # None
  /\ w \notin shut
  /\ TryCtrl(w, "DEV_TIMEOUT")
  /\ UNCHANGED <<others, worker, cmdPipe, dataPipe>>

Crash(w) ==
  /\ Fault("crash")
  /\ worker[w].up
  /\ Die(w)
  /\ UNCHANGED <<others, cmdPipe>>

\* The master closed its pipe ends: HUP on fd_cmd ends the main loop, and a
\* write raises SIGPIPE.
Orphaned(w) ==
  /\ worker[w].up
  /\ w \in shut
  /\ Die(w)
  /\ UNCHANGED <<others, cmdPipe, faults>>

-----------------------------------------------------------------------------
(* The scanner thread. *)

TakeTask(w) ==
  /\ worker[w].up /\ ~worker[w].stop
  /\ worker[w].mail # None /\ worker[w].task = None
  /\ worker' = [worker EXCEPT ![w].task = worker[w].mail,
                              ![w].mail = None, ![w].sent = 0]
  /\ UNCHANGED <<others, cmdPipe, dataPipe, ctrlPipe, faults>>

\* send_batch, which retries until there is room.
SendBatch(w) ==
  LET batches == Listing[worker[w].task] IN
  /\ worker[w].task # None
  /\ worker[w].sent < Len(batches)
  /\ CanWrite(w, dataPipe)
  /\ worker' = [worker EXCEPT ![w].sent = @ + 1]
  /\ dataPipe' = [dataPipe EXCEPT ![w] =
                    Append(@, Msg("BATCH", batches[worker[w].sent + 1]))]
  /\ UNCHANGED <<others, cmdPipe, ctrlPipe, faults>>

\* FINISH goes to the other pipe, and is retried until there is room.
SendFinish(w) ==
  /\ worker[w].task # None
  /\ worker[w].sent = Len(Listing[worker[w].task])
  /\ CanWrite(w, ctrlPipe)
  /\ worker' = [worker EXCEPT ![w].task = None, ![w].sent = 0]
  /\ ctrlPipe' = [ctrlPipe EXCEPT ![w] = Append(@, Msg("FINISH", None))]
  /\ UNCHANGED <<others, cmdPipe, dataPipe, faults>>

-----------------------------------------------------------------------------
WorkerMain(w) ==
  \/ SendReady(w) \/ ReadScan(w) \/ ReadStop(w)
  \/ SendExit(w) \/ ExitProcess(w) \/ Orphaned(w)

Scanner(w) == TakeTask(w) \/ SendBatch(w) \/ SendFinish(w)

WorkerFault(w) == Quit(w) \/ DevTimeout(w) \/ Crash(w)
=============================================================================
