----------------------------- MODULE DeviceFuse ----------------------------
(***************************************************************************)
(* The device fuse (src/scan/device_manager.c, probe_scheduler.c,          *)
(* src/output/monitor.c, the spbin part of progress.c and                  *)
(* progress_archive.c): a resume reads the directories that an earlier run *)
(* skipped and marks their devices DEAD; the monitor thread sends one      *)
(* probe process after the other and gives the directories of a device     *)
(* that answers back to the workers, while the main thread restores,       *)
(* scans, reaps children and ends the program.                             *)
(*                                                                         *)
(* Nothing in this version writes skipped directories: record_skip has no  *)
(* caller, and the error reports of the workers are discarded              *)
(* (ipc_message_handler.c:221).  The module begins with an archive of an   *)
(* earlier version, which a resume reads like any other.                   *)
(***************************************************************************)
EXTENDS ProbeHeap, FiniteSets

CONSTANTS
  Devs, Slots,
  Archives,     \* the possible sequences of skipped directories
  QueueCap,     \* the command queue of a slot
  MaxTracked,   \* MAX_TRACKED_DEVICES
  Initial,      \* PROBE_INTERVAL_INITIAL
  Late,         \* bound: how late a task is told apart
  MaxAtWork,    \* bound: SCANs the workers have at a time
  None

Skipped == [dev : Devs, interval : Nat, status : {"probing", "condemned"}]

ASSUME FuseAssumption ==
  /\ Archives \subseteq Seq(Skipped) /\ IsFiniteSet(Devs) /\ None \notin Devs
  /\ QueueCap \in Nat \ {0} /\ MaxTracked \in Nat /\ Initial \in Nat /\ Late \in Nat
  /\ MaxAtWork \in Nat \ {0}
  /\ IsFiniteSet(Slots) /\ Slots # {} /\ Slots = 0 .. Cardinality(Slots) - 1

VARIABLES
  mpc,       \* main thread: restore, loop, stopped, freed, over or crashed
  archive,   \* the skipped directories in the archive
  count,     \* spbin_count: the first of them are in memory
  step,      \* of the restore of the last one
  state,     \* DeviceManager: per tracked device
  heap,      \* ProbeScheduler
  probe,     \* the device of the active probe, and its process
  mon,       \* monitor thread: where it is
  at,        \* its index in spbin_requeue_recovered
  turn,      \* next_requeue_worker
  cmdQ,      \* per slot, the SCANs queued
  atWork,    \* SCANs the workers have
  pending,   \* pending_tasks
  lost,      \* length of lost_tasks
  requeued,  \* history: the directories put into a command queue or lost_tasks
  unwatched  \* history: devices whose probe was reaped by the main loop or not forked

restoreVars == <<archive, count, step>>
taskVars == <<cmdQ, atWork, pending, lost>>
monVars == <<probe, mon, at, turn>>
fuseVars == <<state, heap>>
history == <<requeued, unwatched>>
vars == <<mpc, restoreVars, fuseVars, monVars, taskVars, history>>

NoProbe == [dev |-> None, child |-> "none"]

Tracked(d) == d \in DOMAIN state
StateOf(d) == IF Tracked(d) THEN state[d] ELSE "normal"

NewManager == <<>>

\* dev_mgr_destroy
ManagerDestroyed == state' = <<>>

\* app_context_destroy, the part about the fuse.
DestroyFuse == heap' = Destroyed /\ ManagerDestroyed

\* update_state_locked: a device that finds the table full is not tracked.
Marked(d, new) ==
  IF Tracked(d) \/ Cardinality(DOMAIN state) < MaxTracked
  THEN [x \in DOMAIN state \cup {d} |-> IF x = d THEN new ELSE state[x]]
  ELSE state

MarkDead(d) == state' = Marked(d, "dead")
MarkCondemned(d) == state' = Marked(d, "condemned")
MarkAlive(d) == state' = Marked(d, "normal")

Task(d, interval, status) == [dev |-> d, due |-> interval, status |-> status]

-----------------------------------------------------------------------------
(* Main thread: parse_spbin_buffer *)

\* The directory is in memory before its device is marked.
RestoreAppend ==
  /\ mpc = "restore" /\ step = "append" /\ count < Len(archive)
  /\ count' = count + 1 /\ step' = "mark"
  /\ UNCHANGED <<mpc, archive, fuseVars, monVars, taskVars, history>>

RestoreMark ==
  LET e == archive[count] IN
  /\ mpc = "restore" /\ step = "mark"
  /\ IF e.status = "condemned"
     THEN MarkCondemned(e.dev) /\ step' = "append"
     ELSE MarkDead(e.dev) /\ step' = "push"
  /\ UNCHANGED <<mpc, archive, count, heap, monVars, taskVars, history>>

\* MUTANT: only the first directory of a device registers a probe.
PushFirst(e) ==
  IF \E i \in 1 .. count - 1 : archive[i].dev = e.dev THEN heap
  ELSE Push(heap, Task(e.dev, e.interval, e.status))

\* The probe task of a restored directory.
PushRestored(e) == Push(heap, Task(e.dev, e.interval, e.status))

RestorePush ==
  /\ mpc = "restore" /\ step = "push"
  /\ heap' = PushRestored(archive[count])
  /\ step' = "append"
  /\ UNCHANGED <<mpc, archive, count, state, monVars, taskVars, history>>

\* The root goes to the first slot.  With its queue full the program gives up
\* and frees what the monitor thread is still using: that may crash.
Seed ==
  /\ mpc = "restore" /\ step = "append" /\ count = Len(archive)
  /\ IF cmdQ[0] < QueueCap
     THEN /\ mpc' = "loop"
          /\ cmdQ' = [cmdQ EXCEPT ![0] = @ + 1] /\ pending' = pending + 1
          /\ UNCHANGED fuseVars
     ELSE /\ mpc' \in {"over", "crashed"} /\ DestroyFuse
          /\ UNCHANGED <<cmdQ, pending>>
  /\ UNCHANGED <<restoreVars, monVars, atWork, lost, history>>

-----------------------------------------------------------------------------
(* Main thread: the loop *)

Finish ==
  /\ mpc = "loop" /\ atWork > 0
  /\ atWork' = atWork - 1 /\ pending' = pending - 1
  /\ UNCHANGED <<mpc, restoreVars, fuseVars, monVars, cmdQ, lost, history>>

\* dispatch_lost_tasks
DispatchLost(s) ==
  /\ mpc = "loop" /\ lost > 0 /\ cmdQ[s] < QueueCap
  /\ lost' = lost - 1 /\ pending' = pending + 1
  /\ cmdQ' = [cmdQ EXCEPT ![s] = @ + 1]
  /\ UNCHANGED <<mpc, restoreVars, fuseVars, monVars, atWork, history>>

\* waitpid(-1, WNOHANG) is for zombies of workers, but takes any child.
ReapAny ==
  /\ mpc = "loop" /\ probe.child \in {"exited", "killed"}
  /\ probe' = [probe EXCEPT !.child = "reaped"]
  /\ unwatched' = unwatched \cup {probe.dev}
  /\ UNCHANGED <<mpc, restoreVars, fuseVars, mon, at, turn, taskVars, requeued>>

\* The termination check; then the IPC threads stop.
StopLoop ==
  /\ mpc = "loop" /\ pending = 0
  /\ mpc' = "stopped"
  /\ UNCHANGED <<restoreVars, fuseVars, monVars, taskVars, history>>

\* destroy_ipc_threads frees the queues; the monitor thread still runs.
FreeQueues ==
  /\ mpc = "stopped"
  /\ mpc' = "freed"
  /\ UNCHANGED <<restoreVars, fuseVars, monVars, taskVars, history>>

JoinMonitor ==
  /\ mpc = "freed" /\ mon = "idle"
  /\ mpc' = "over" /\ DestroyFuse
  /\ UNCHANGED <<restoreVars, monVars, taskVars, history>>

-----------------------------------------------------------------------------
\* A worker gets a SCAN from the queue of its slot.
Take(s) ==
  /\ mpc \in {"restore", "loop"} /\ cmdQ[s] > 0 /\ atWork < MaxAtWork
  /\ cmdQ' = [cmdQ EXCEPT ![s] = @ - 1] /\ atWork' = atWork + 1
  /\ UNCHANGED <<mpc, restoreVars, fuseVars, monVars, pending, lost, history>>

\* The probe process: lstat returns, or the alarm kills it.  On a device that
\* hangs it may do neither.
ChildEnds(how) ==
  /\ probe.child = "running"
  /\ probe' = [probe EXCEPT !.child = how]
  /\ UNCHANGED <<mpc, restoreVars, fuseVars, mon, at, turn, taskVars, history>>

Tick ==
  /\ mpc \notin {"over", "crashed"}
  /\ \E i \in DOMAIN heap : heap[i].due > -Late
  /\ heap' = [i \in DOMAIN heap |->
                [heap[i] EXCEPT !.due = IF @ > -Late THEN @ - 1 ELSE @]]
  /\ UNCHANGED <<mpc, restoreVars, state, monVars, taskVars, history>>

-----------------------------------------------------------------------------
(* Monitor thread: dispatch_probes, reap_probes *)

MonitorRuns == mpc \notin {"over", "crashed"}

\* Peeking and removing are two critical sections.
Peek ==
  /\ MonitorRuns /\ mon = "idle" /\ probe = NoProbe /\ Due(heap)
  /\ mon' = "peeked" /\ at' = heap[1].dev
  /\ UNCHANGED <<mpc, restoreVars, fuseVars, probe, turn, taskVars, history>>

\* fork fails or not.
Probe ==
  /\ MonitorRuns /\ mon = "peeked"
  /\ heap' = RemoveDev(heap, at)
  /\ \/ probe' = [dev |-> at, child |-> "running"] /\ UNCHANGED unwatched
     \/ probe' = NoProbe /\ unwatched' = unwatched \cup {at}
  /\ mon' = "idle" /\ at' = None
  /\ UNCHANGED <<mpc, restoreVars, state, turn, taskVars, requeued>>

\* MUTANT: a probe that the alarm killed is not repeated.
NotRepeated(d) == heap

\* The task after a failed probe: the interval starts anew.
Repeated(d) == Push(heap, Task(d, Initial, "probing"))

ReapKilled ==
  /\ MonitorRuns /\ mon = "idle" /\ probe.child = "killed"
  /\ heap' = Repeated(probe.dev)
  /\ probe' = NoProbe
  /\ UNCHANGED <<mpc, restoreVars, state, mon, at, turn, taskVars, history>>

\* ECHILD
ReapNothing ==
  /\ MonitorRuns /\ mon = "idle" /\ probe.child = "reaped"
  /\ probe' = NoProbe
  /\ UNCHANGED <<mpc, restoreVars, fuseVars, mon, at, turn, taskVars, history>>

\* The device answered.
ReapExited ==
  /\ MonitorRuns /\ mon = "idle" /\ probe.child = "exited"
  /\ MarkAlive(probe.dev)
  /\ probe' = [probe EXCEPT !.child = "none"]
  /\ mon' = "requeue" /\ at' = 1
  /\ UNCHANGED <<mpc, restoreVars, heap, turn, taskVars, history>>

-----------------------------------------------------------------------------
(* Monitor thread: spbin_requeue_recovered *)

\* MUTANT: the first directory of the device only.
BackFirst(i) ==
  /\ archive[i].dev = probe.dev /\ archive[i].status # "condemned"
  /\ \A j \in 1 .. i - 1 : archive[j].dev # probe.dev

\* Directory i is for the device that answered.
GoesBack(i) == archive[i].dev = probe.dev /\ archive[i].status # "condemned"

Pass ==
  /\ MonitorRuns /\ mon = "requeue" /\ at <= count /\ ~GoesBack(at)
  /\ at' = at + 1
  /\ UNCHANGED <<mpc, restoreVars, fuseVars, probe, mon, turn, taskVars, history>>

CountTask ==
  /\ MonitorRuns /\ mon = "requeue" /\ at <= count /\ GoesBack(at)
  /\ mon' = "send" /\ pending' = pending + 1
  /\ UNCHANGED <<mpc, restoreVars, fuseVars, probe, at, turn, cmdQ, atWork, lost, history>>

NextTurn == turn' = (turn + 1) % Cardinality(Slots)

Requeue ==
  /\ mon = "send" /\ mpc \in {"restore", "loop", "stopped"} /\ cmdQ[turn] < QueueCap
  /\ cmdQ' = [cmdQ EXCEPT ![turn] = @ + 1]
  /\ NextTurn
  /\ requeued' = requeued \cup {at}
  /\ mon' = "requeue" /\ at' = at + 1
  /\ UNCHANGED <<mpc, restoreVars, fuseVars, probe, atWork, pending, lost, unwatched>>

\* MUTANT: the counter keeps the directory that went to lost_tasks.
StillCounted(n) == n

\* The queue did not take the directory: it is no task until the main loop
\* sends it.
Uncounted(n) == n - 1

RequeueFull ==
  /\ mon = "send" /\ mpc \in {"restore", "loop", "stopped"} /\ cmdQ[turn] >= QueueCap
  /\ NextTurn
  /\ mon' = "uncount"
  /\ UNCHANGED <<mpc, restoreVars, fuseVars, probe, at, taskVars, history>>

UncountTask ==
  /\ MonitorRuns /\ mon = "uncount"
  /\ pending' = Uncounted(pending)
  /\ mon' = "lose"
  /\ UNCHANGED <<mpc, restoreVars, fuseVars, probe, at, turn, cmdQ, atWork, lost, history>>

LoseTask ==
  /\ MonitorRuns /\ mon = "lose"
  /\ lost' = lost + 1
  /\ requeued' = requeued \cup {at}
  /\ mon' = "requeue" /\ at' = at + 1
  /\ UNCHANGED <<mpc, restoreVars, fuseVars, probe, turn, cmdQ, atWork, pending, unwatched>>

\* The queue was freed: anything may happen.
RequeueFreed ==
  /\ mon = "send" /\ mpc = "freed"
  /\ \/ mpc' = "crashed" /\ UNCHANGED <<mon, at>>
     \/ mon' = "requeue" /\ at' = at + 1 /\ UNCHANGED mpc
  /\ UNCHANGED <<restoreVars, fuseVars, probe, turn, taskVars, history>>

RequeueEnd ==
  /\ MonitorRuns /\ mon = "requeue" /\ at > count
  /\ mon' = "idle" /\ at' = None /\ probe' = NoProbe
  /\ UNCHANGED <<mpc, restoreVars, state, heap, turn, taskVars, history>>

-----------------------------------------------------------------------------
Init ==
  /\ mpc = "restore" /\ archive \in Archives /\ count = 0 /\ step = "append"
  /\ state = NewManager /\ heap = NewHeap
  /\ probe = NoProbe /\ mon = "idle" /\ at = None /\ turn = 0
  /\ cmdQ = [s \in Slots |-> 0] /\ atWork = 0 /\ pending = 0 /\ lost = 0
  /\ requeued = {} /\ unwatched = {}

Restore == RestoreAppend \/ RestoreMark \/ RestorePush \/ Seed

Loop ==
  \/ Finish \/ \E s \in Slots : DispatchLost(s)
  \/ ReapAny \/ StopLoop \/ FreeQueues \/ JoinMonitor

RequeueStep ==
  \/ Pass \/ CountTask \/ Requeue \/ RequeueFull \/ UncountTask \/ LoseTask
  \/ RequeueFreed \/ RequeueEnd

MonitorStep == Peek \/ Probe \/ ReapKilled \/ ReapNothing \/ ReapExited \/ RequeueStep

Next ==
  \/ Restore \/ Loop \/ MonitorStep \/ Tick
  \/ \E s \in Slots : Take(s)
  \/ \E how \in {"exited", "killed"} : ChildEnds(how)

\* The restore and the monitor thread run, time passes, a probe process ends, and
\* a device that is probed again and again answers at last.  The scan may take as
\* long as it likes.
Fairness ==
  /\ WF_vars(Restore) /\ WF_vars(MonitorStep) /\ WF_vars(Tick)
  /\ WF_vars(\E how \in {"exited", "killed"} : ChildEnds(how))
  /\ \A d \in Devs : SF_vars(probe.dev = d /\ ChildEnds("exited"))

Spec == Init /\ [][Next]_vars /\ Fairness
-----------------------------------------------------------------------------
(* Properties *)

\* The device waits for a probe, is being probed, or is about to be registered.
Watched(d) ==
  \/ \E i \in DOMAIN heap : heap[i].dev = d
  \/ probe.dev = d
  \/ mon = "peeked" /\ at = d
  \/ step = "push" /\ archive[count].dev = d

\* A device that is DEAD is probed again, for all that two threads do to it,
\* unless the main loop reaped its probe or the probe was not forked; and the
\* one task that peek looks at, the first of the array, is the earliest.
DeadIsWatched ==
  /\ \A d \in Devs \ unwatched : StateOf(d) = "dead" => Watched(d)
  /\ \A i \in DOMAIN heap : heap[1].due <= heap[i].due

\* A directory that was skipped is not forgotten: until the monitor thread has
\* put it into a command queue or into lost_tasks, something that will do so is
\* on its way.  (The thread goes on when the loop has stopped: what it puts there
\* then counts as given back, though nobody reads it any more.)
NothingForgotten ==
  \A i \in 1 .. count :
    \/ archive[i].status = "condemned" \/ archive[i].dev \in unwatched \/ i \in requeued
    \/ mpc \in {"freed", "over", "crashed"}
    \/ Watched(archive[i].dev)
    \/ i = count /\ step \in {"mark", "push"}
    \/ mon = "requeue" /\ probe.dev = archive[i].dev /\ at <= i

\* With a second thread that gives out tasks pending_tasks is still exact, and
\* never 0 with a SCAN on its way: the loop does not end over one.
TasksCounted ==
  LET queued == FoldFunctionOnSet(+, 0, cmdQ, Slots)
      sending == IF mon \in {"send", "uncount"} THEN 1 ELSE 0 IN
  mpc \notin {"freed", "over", "crashed"} => pending = queued + atWork + sending

\* A dead device recovers if the scan goes on for long enough.
DeadRecovers ==
  \A d \in Devs :
    StateOf(d) = "dead" ~>
      StateOf(d) # "dead" \/ d \in unwatched \/ mpc \notin {"restore", "loop"}
=============================================================================
