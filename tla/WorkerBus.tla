----------------------------- MODULE WorkerBus ------------------------------
(***************************************************************************)
(* The message bus as a whole: the master's main thread and thread pool,   *)
(* one IPC thread and one worker process per slot, from the seeding of the *)
(* root directory (src/core/main.c) to the end of the scan.                *)
(***************************************************************************)
EXTENDS WorkerProc, IpcThread, MainLoop, FiniteSetsExt

\* app_context_init
ContextInit ==
  /\ mpc = "recv" /\ cur = 0 /\ batch = None
  /\ pendingBatches = 0 /\ nextDispatch = 0 /\ LostInit
  /\ emitted = [p \in Paths |-> 0]
  /\ poolQ = <<>> /\ working = <<>> /\ completed = <<>> /\ visited = {}

\* Every slot gets a worker.
SpawnWorkers ==
  /\ slot = [s \in Slots |-> [NewSlot(1) EXCEPT !.path = IF s = 0 THEN Root ELSE None]]
  /\ spawned = [s \in Slots |-> 1] /\ activeCount = NumWorkers
  /\ worker = [w \in Workers |-> IF w[2] = 1 THEN NewProcess ELSE NoProcess]
  /\ cmdPipe = [w \in Workers |-> <<>>]
  /\ dataPipe = [w \in Workers |-> <<>>]
  /\ ctrlPipe = [w \in Workers |-> <<>>]

\* init_ipc_threads: a thread and two queues for every slot.
InitIpcThreads ==
  /\ retQ = [s \in Slots |-> <<>>]
  /\ ipc = [s \in Slots |-> NewIpc] /\ shut = {}

\* The thread of every slot is told its worker, and slot 0's queue holds the
\* root.  The slot of the root stays in the state INITIALIZING.
SeedRoot ==
  /\ cmdQ = [s \in Slots |->
       SendReplace(<<>>, 1) \o IF s = 0 THEN <<Msg("SCAN", Root)>> ELSE <<>>]
  /\ pendingTasks = 1

\* main, until it calls main_loop_run.
Init ==
  /\ ContextInit /\ SpawnWorkers /\ InitIpcThreads /\ SeedRoot
  /\ faults \in FaultSets

\* The scan is over and no process is left.
Finished == mpc \in {"done", "killed"} /\ \A w \in Workers : ~worker[w].up
Terminated == Finished /\ UNCHANGED vars

Next ==
  \/ MainStep
  \/ SpawnFails
  \/ PoolStep
  \/ \E s \in Slots : IpcStep(s) \/ TimeoutKill(s)
  \/ \E w \in Workers : WorkerMain(w) \/ Scanner(w) \/ WorkerFault(w)
  \/ Terminated

\* Every thread keeps running: the master's, and both of every worker.  Faults
\* are never forced.
Fairness ==
  /\ WF_vars(MainStep)
  /\ WF_vars(PoolStep)
  /\ \A s \in Slots : WF_vars(IpcStep(s))
  /\ \A w \in Workers : WF_vars(WorkerMain(w)) /\ WF_vars(Scanner(w))

SafeSpec == Init /\ [][Next]_vars

Spec == SafeSpec /\ Fairness

-----------------------------------------------------------------------------
(* What holds of every behaviour. *)

\* However often a directory is scanned again after a failure, no path is
\* output twice (batch_dedup_worker, process_completed_batch).
EmittedOnce == \A p \in Paths : emitted[p] <= 1

-----------------------------------------------------------------------------
(* What holds while no fault happens. *)

\* The scans slot s was given and has not reported yet.
InFlight(s) ==
  LET at(n) ==
        LET w == <<s, n>> IN
        IF ~worker[w].up THEN 0
        ELSE Count("SCAN", cmdPipe[w]) + Count("FINISH", ctrlPipe[w])
               + (IF worker[w].mail = None THEN 0 ELSE 1)
               + (IF worker[w].task = None THEN 0 ELSE 1)
  IN Count("SCAN", cmdQ[s]) + (IF ipc[s].hand = None THEN 0 ELSE 1)
       + Count("DROP", retQ[s]) + Count("FINISH", retQ[s])
       + MapThenSumSet(at, 1 .. MaxInc)

Outstanding == MapThenSumSet(InFlight, Slots)

\* pending_tasks never falls below the number of scans under way, so the loop
\* cannot end while one is (every place that changes pending_tasks).
PendingCovers == pendingTasks >= Outstanding

\* The batches that the master accepted and did not finish: queued, being worked
\* on, completed, or under the main thread's hands.
BatchesInHand ==
  Len(poolQ) + Len(working) + Len(completed) + (IF batch = None THEN 0 ELSE 1)

\* When the loop stops no directory is left waiting, none is being scanned and
\* no batch is left in the thread pool (step 8 of main_loop_run).
NothingLeft ==
  mpc \in {"stopping", "joined", "done"} => lost = <<>> /\ Outstanding = 0 /\ BatchesInHand = 0

InMailbox(p) == \E w \in Workers : worker[w].mail = p
AtScanner(p) == \E w \in Workers : worker[w].task = p

\* A directory's task was in a mailbox, and neither stays there nor comes to a
\* scanner: the next one was written over it.
Overwritten(p) == ~(InMailbox(p) ~> (AtScanner(p) \/ []InMailbox(p)))

\* The scan ends, and every worker process with it, unless a task is overwritten
\* in a mailbox - also when a directory had to wait for an idle worker
\* (main_loop_run, worker_main).
Terminates ==
  \/ <>(mpc = "done" /\ \A w \in Workers : ~worker[w].up)
  \/ \E p \in DOMAIN Listing \ {Root} : Overwritten(p)

-----------------------------------------------------------------------------
(* What holds with faults too, under fairness. *)

\* No failure of a worker, a queue or a pipe blocks the main loop: it turns for
\* ever, or ends.
LoopTurns == []<>(mpc \in {"check", "done", "killed"})

\* A slot that was cleaned up gets a new worker.
SlotRefilled ==
  \A s \in Slots : ~slot[s].alive ~> (slot[s].alive \/ mpc \in {"done", "killed"})

-----------------------------------------------------------------------------
(* What the documents and comments promise and the code does not do. *)

\* README.md:154: a worker that dies is reported DEAD and replaced.
CrashedIsReplaced ==
  \A w \in Workers :
    (slot[w[1]].pid = w[2] /\ ~worker[w].up)
      ~> (slot[w[1]].pid # w[2] \/ mpc \in {"done", "killed"})

\* main_loop.c:72, CHANGELOG.md:872: FINISH says that the task is completed and
\* the loop ends with nothing left to do, so no batch is left unread.
AllBatchesRead ==
  mpc = "stopping" =>
    /\ \A w \in Workers : dataPipe[w] = <<>>
    /\ \A s \in Slots : Count("BATCH", retQ[s]) = 0
=============================================================================
