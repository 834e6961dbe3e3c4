# listfiles in TLA+

listfiles lists a directory tree with a *master* process and a pool of *worker*
processes that do the blocking `readdir`/`lstat` calls, so that a dead device
blocks a worker and not the program. The master is a message bus: one IPC thread
per worker owns the worker's pipes, and the main thread talks to the IPC threads
through queues only. This directory models the bus and the bytes in its pipes,
what the master makes of what comes back - the thread pool that decides what is
new, the output, the record that a killed run leaves for the next one -, and the
monitor thread beside it. TLC checks the models; TLAPS proves the queue, the
tables, the writer thread and the thread pool correct for every size, that a dead
device is watched and gives back all its directories, and that the bus lists no
path twice, whatever fails.

Paths below are relative to the repository, `src/...` being its sources, and the
file names of the code are unique.

## 1. Inventory

| component | source | state | operations | hard part |
|---|---|---|---|---|
| message queue | `src/ipc/msg_queue.c` | ring `buffer`, `head`, `tail`, eventfd | send, recv, drain_eventfd | eventfd written outside the mutex; several senders; full ring |
| IPC thread (one per slot) | `src/ipc/ipc_thread.c`, `ipc_message_handler.c`, `ipc_worker_mgmt.c` | `fd_cmd/fd_data/fd_ctrl`, `pid`, `eagain_retry_count`, `running` | SCAN, REPLACE, STOP; reads BATCH, READY, FINISH, DEV_TIMEOUT, EXIT; HUP; heartbeat timeout | races with the death and the replacement of its worker |
| pipes and protocol | `src/ipc/ipc_protocol.c` | bytes in three pipes | ipc_send, ipc_recv, drain and count | partial writes and reads, EAGAIN, SIGPIPE, two writers, two readers |
| worker process | `src/ipc/worker_proc.c`, `src/scan/worker_scanner.c` | mailbox `task_path/task_ready`, `stop_flag`, `scanner_active` | main thread: READY, SCAN, STOP, DEV_TIMEOUT, EXIT; scanner: batches, FINISH | two threads, two output pipes, one mailbox |
| main loop | `src/scan/main_loop.c` | slots, `pending_tasks`, `pending_batches`, `running` | drain return queues, drain batches, replace, dispatch lost, terminate, free | termination by counters that many places change |
| dispatch, cleanup | `src/scan/dispatch.c` | `next_dispatch_worker`, slot states | find idle, send SCAN/REPLACE/STOP, cleanup, dispatch lost tasks | counters across failure and redispatch |
| lost tasks | `src/scan/lost_tasks.c` | list of paths | push, pop, compact | paths that are nowhere else |
| batch processing | `src/scan/batch_processor.c` | a batch, `visited_set` | parse, submit, dedup, process | two threads and main on one set; inline processing; no idle worker |
| thread pool | `src/scan/thread_pool.c` | bounded queue, completed list, eventfd | create, submit, worker, poll, destroy | sleep against submit and stop; failed creation |
| start | `src/core/main.c` | everything, initially | history, prompt, spawn, connect, seed, free | what an earlier run with other options left; the root bypasses the slot states |
| fingerprint set, reference map | `src/scan/fingerprint_set.c`, `reference_map.c` | open-addressing tables | create, insert, lookup, grow | growth rule that a full table cannot reach |
| device manager, probe scheduler, monitor | `src/scan/device_manager.c`, `probe_scheduler.c`, `src/output/monitor.c` | device states, heap of probes, probe process, ring of samples | mark, probe, reap, requeue; rates | a second thread that gives out work; children that another thread reaps |
| async writer | `src/output/async_worker.c` | linked list, output slice | submit, write, rotate, shutdown | shutdown with rows queued; position read without a lock |
| progress store | `src/output/progress*.c` | slices, index, archive, fpbin files, configuration; pump and write positions | record, rotate, archive, finalize, restore, pump, promote, clean | kills between file operations, resume |
| formatting | `src/output/output*.c` | compiled format, owner and device caches | compile, print, cache | characters with a meaning; stale caches |
| command line | `src/core/cmdline.c` | `Config` | parse, refuse | which options exclude each other |
| signals, utilities, log | `src/core/signals.c`, `utils.c`, `src/util/log.c` | none shared | | sequential |
| vendored | xxhash, zlib | | | not ours |

How they interact. The main thread sends `CMD_SCAN`, `CMD_REPLACE` and
`CMD_STOP` to the command queue of a slot; the slot's IPC thread writes SCANs to
the worker's `fd_cmd`. The worker's scanner thread writes BATCH to `fd_data`
and FINISH to `fd_ctrl`; its main thread writes READY, DEV_TIMEOUT and EXIT to
`fd_ctrl`. The IPC thread turns what it reads into messages of the slot's
return queue, adds DEAD and DROP of its own, and the main thread handles them:
batches go through the thread pool, which looks every entry up in `visited_set`,
back to the main thread, which counts what is new, gives it to the async writer,
records it, and dispatches every new directory. The master decides that the scan
is over by two counters, `pending_tasks` and `pending_batches`; then it frees
pool, queues and threads, joins the monitor, and finishes the record.

With `-c` the main thread records what it lists in the progress slices, and a
later run reads them back: into `visited_set`, so that nothing is listed twice,
and through the *pump*, which hands directories of old slices to the workers
again. With a skip interval, a run after a successful one loads the recorded rows
into the reference set and map before it forks the workers, which then trust an
old row instead of calling `lstat`. The configuration file says what the run that
wrote the files was asked for.

The monitor thread samples the counters for the panel, sends one probe process
after the other to devices that are marked DEAD, and when one answers gives its
skipped directories to the workers itself.

What makes each part correct: the queue is a FIFO that loses no wakeup; the bytes
in a pipe stay messages; no path is output twice, and everything that came is;
the counters cover the work that is under way; the main loop is never blocked; a
slot that was cleaned up gets a worker again; the loop ends, and with nothing
left; a table finds what it holds and has the room it promises; a trusted row is
the last one recorded; the writer prints what it was given, in order and once,
and ends; the pool leaves no batch and no thread behind; a row can be read back;
the progress files hold what was listed without a gap; a resumed run hides only
what an earlier run printed, and misses nothing; the progress of two targets stays
apart; a dead device that answers comes back with all its directories.
`PROJECT.json` lists the hazards at their lines.

## 2. Modules

| module | what it is |
|---|---|
| `Channel` | what a message queue promises: a bounded FIFO |
| `MsgQueue` | the ring buffer, its eventfd, its senders and the loop of the IPC thread |
| `Framing` | the bytes in the three pipes of a worker |
| `MCChannels` | the queue and the pipes in one run |
| `Bus` | constants, variables and helpers the actors of the bus share |
| `WorkerProc` | the worker process: main thread, scanner thread, faults |
| `IpcThread` | the IPC thread of a slot |
| `MainLoop` | the main thread of the master and its thread pool |
| `WorkerBus`, `MCBus` | the composition of the three, fairness and properties; the trees TLC uses |
| `BoundedSet` | what a fingerprint set promises: a set with bounded room |
| `FpTable` | the open-addressing table as pure operators: its capacity, where a probe ends, when it grows, what it is after growing |
| `FingerprintShard` | one shard of the fingerprint set |
| `ReferenceMap` | the reference map |
| `FileTypes` | types of files, as a mode and as a `d_type` |
| `ReferenceIndex`, `MCReferenceIndex` | both tables filled from recorded rows and used by `try_blind_trust` |
| `ProgressStore` | recording: slices, footer, archive, index |
| `ProgressResume` | `restore_progress`, and the fpbin files |
| `ProgressPump` | the pump, and the promotion of fpbin files |
| `ProgressRun` | a run on these files, and its kill |
| `Session`, `MCSession` | runs one after the other with any options: command line, configuration file, `--clean`, `--runone` |
| `RowStream` | what the async writer promises: a FIFO of rows that closes empty |
| `AsyncWriter` | the writer thread and the output slices |
| `OutputRun`, `MCOutput` | the writer beside the record and the index, over several runs |
| `WorkPool` | what the thread pool promises to the bus |
| `ThreadPool` | the pool: ring, condition variable, completion list, creation, destruction |
| `Records` | the cells of a batch and of a slice, and who reads them |
| `RowFormat` | the compiled format, CSV and quotes |
| `Metadata` | modes, attributes, owners, and their caches |
| `Statistics` | the ring of samples and the rates |
| `Pipeline`, `MCPipeline` | a batch from the return queue to the printed row and the recorded one, composed of the five above; its runs |
| `ProbeHeap` | the heap of probes |
| `DeviceFuse`, `MCDeviceFuse` | restore, main loop, monitor thread and probe process around a dead device |
| `ChannelProofs`, `TableProofs`, `OutputProofs`, `PipelineProofs`, `FuseProofs`, `BusProofs`, `SessionProofs` | the theorems |
| `SumProofs` | lemmas of several proofs: sums over a finite set, for the counters of `FuseProofs` and `BusProofs`; concatenated pieces and sequences that grow, for `OutputProofs`, `PipelineProofs` and `ChannelProofs` |

### The queue

`MsgQueue` makes each critical section of `q->mutex` one action
(`SendCommand`, `Recv`), and the eventfd write after the unlock of `msg_queue_send` an action of
its own (`Notify`), so that every interleaving of several senders and the
consumer between the two is there. `ipcPc` follows `ipc_thread_loop`: drain
("top"), `epoll_wait` ("poll"), drain the eventfd ("clear"), drain again
("recv"). `PushBack` is the consumer sending to its own queue after EAGAIN. The
histories `accepted` and `delivered` are what `Channel` talks about.

The bus modules use queues as bounded sequences (`Bus!Send`, `Tail`): that is
the abstraction `QueueImplementsChannel` proves.

### The pipes

`Framing` has cells: a cell `<<m, k>>` stands for some bytes of message m, the
first `HeaderSize` for its header. A `write` of up to `PipeBuf` cells is atomic,
a longer one puts in what fits, and `ipc_send` goes on from there, or gives up on
EAGAIN before the first byte. A reader takes any number of the cells that are
there; EAGAIN within a header, or 100 ms without data in a payload, makes it drop
what it has, and what follows is read as a header (`Garbage`). `fd_cmd` has two
writers in the master and two readers (the worker, and `ipc_drain_and_count_tasks`
in the master); `fd_ctrl` two writers in the worker. `torn` marks a pipe on which
one of this happened.

### The bus

| model | code |
|---|---|
| `mpc`, `cur`, `batch` | where `main_loop_run` is: phase, slot, rest of the batch in `process_completed_batch` |
| `slot[s]` | `WorkerSlot`: `is_alive`, `pid`, `state`, `current_path`, `cleanup_done` |
| `spawned[s]` | incarnations of the slot's worker; a pid of the model is such a number |
| `activeCount`, `pendingTasks`, `pendingBatches`, `lost`, `nextDispatch` | the fields of those names |
| `poolQ`, `working`, `completed`, `visited` | thread pool queue, batches under work, completed list, `visited_set` |
| `cmdQ[s]`, `retQ[s]` | the queues of IPC thread s |
| `ipc[s]` | its `running`, `eagain_retry_count`, the worker its fds and pid belong to, and the SCAN it holds between EAGAIN and push-back |
| `shut` | workers whose pipe ends the IPC thread closed |
| `worker[w]` | process w = <<slot, incarnation>>: up, READY sent, `stop_flag`, EXIT sent, mailbox, task of the scanner, batches sent |
| `cmdPipe`, `dataPipe`, `ctrlPipe` | the three pipes of w |

An action is one critical step of one thread: the handling of one message, one
entry of a batch, one slot or one lost task; between two of them every other
thread may move. Action names follow the code: `RecvFinish` is
`case RET_FINISH`, `Cleanup` is `cleanup_dead_worker_slot`, and so on; the map
in `PROJECT.json` gives the lines. The end is there too: the pool is destroyed,
the IPC threads are stopped and joined with their queues (`Join`), and the
workers that are still alive are killed and reaped (`DestroyWorkers`).

Abstractions, and why they keep what matters:

* Directories are functions from a name to the batches the scanner sends for
  it. Entries of a batch are names; `stat` data and formats are in `Pipeline`.
* Time is left out. A heartbeat only says that nothing went wrong; a missing one
  is the fault `silence`, a scanner past its time limit the fault `stuck`. Both
  can strike at any moment.
* Faults: `quit` (the worker's loop ends after a failed system call), `stuck`,
  `crash`, `silence`, `nospawn` (no pipe or process for a replacement). A run
  says which of them can happen together, each at most once (`FaultSets`).
* A pipe holds whole messages, which is what `Framing` is about.
* HUP is seen before the data left in a pipe, as in `ipc_thread_loop` and in
  the `poll` before every read.
* A batch is deduplicated in one step, also against itself; `Pipeline` has the
  interleavings.
* Left out because nothing in the code leads there: `RET_ERROR` (workers report
  errors on `fd_data`, where they are discarded), the slot backlog, and
  `waiting_replace`, which is only read together with the pid.
* Commands that an IPC thread still holds after `CMD_STOP` are not handled; the
  main loop has ended by then.
* Left out: blacklisted devices (in `Pipeline` and `DeviceFuse`), failing
  allocations, reuse of file descriptor numbers, and the pump (in
  `ProgressPump`).

### The tables

Every operation of the set and of the map holds the mutex of its shard from
beginning to end, and shards share nothing: an operation is one action and one
shard stands for all. `table`, `count` and `capacity` are the fields of the
shard; `Found` is the slot where the linear probe ends, whether it holds the
fingerprint or is free, and none if the probe limit or the whole table is used
up. An insert is `InsertKnown`, `InsertNew` or `InsertFails`. The capacity is the
power of two that `NewCapacity` and `NewMapCapacity` give, which is why the mask
of the code is a remainder here. The growth code is kept (`Grown`, `MapGrown`)
although it turns out to be dead; tombstones are never set by the code and left
out, and so are failing allocations and the guards against a corrupted capacity.

`ReferenceIndex` is reference mode: `LoadRow` is what `parse_pbin_buffer` does
with a row, in both tables; `Fork` is the fork of the workers, after which each
has a copy that no longer changes; `TryBlindTrust` is the worker's decision, with
the mode it makes up from the type (`DtToMode`). The histories `recorded` and
`verdict` hold the last row of each entry and what the worker decided.

### The progress files and the session

| model | code |
|---|---|
| `disk` | the files: slices and fpbin slices (rows, footer or not), blocks of the archive, the two indexes |
| `w` | `write_slice_index`, `line_count`, `write_slice_file`, and the rows stdio holds back |
| `recBatch` | `record_batch` |
| `pump` | `hist_pump_state`, `hist_pump_slice_idx`, position, the file that is open |
| `fpb`, `promo` | `fpbin_*`; the progress of a promotion |
| `scan` | the scans under way, the batches that came back, the rest of the batch in hand, what the pump sent in this turn |
| `mpc` | where the main thread is: before the scan, "drain", "batch", "pump" and "check" of the loop; "flush" to "index" in `record_path` and `finalize_archive`; "promote" to "adopt" in `promote_fpbin_to_pbin`; the steps of `cleanup_progress`; "off" between runs |
| `cfg`, `conf` | the `Config` of this run; the lines of the configuration file |
| `out`, `handed` | histories: what this run, and the runs before it, put into `out_batch` |
| `resumed`, `loose` | histories: this run resumed; the configuration need not name the target of the rows (`--runone` left rows of another, or a kill left it empty, or deleted with fpbin files still there, or `--clean` left slices it does not reach) |

A step is one file operation or one entry of a batch. `Crash` may come before any
step; it takes everything that is not in `disk`, also what stdio had not written
(`WriteBack`, at any time and without fairness). A kill in the middle of an
append leaves a torn block in the archive.

Abstractions: the bus is reduced to what the files see of it. A scan yields all
entries of its directory, batches come back in any order, at any moment all
workers may be busy (`DirWaits`), and no message is lost; the `bus_*` runs are
about the rest. To list a path is here to put it into `out_batch`: whether it gets
from there to the file is the subject of `OutputRun`. Directories
are in the list. A row is larger than a stdio buffer, so the pump never reads
ahead, and a pump whose file is emptied may get rows or an error from then on. The
draft index of a slice is left out: where a resume reads it, it holds the 0 it was
created with. A footer's row count is never below the rows of its slice and is
left out too. Nobody reads the directory of the files: slices are searched for by
number, until more than `SearchGap` in a row are missing (`Met`), fpbin files are
tried below `FpReach`, and `--clean` deletes slices up to `WipeReach`. With a skip interval
a run takes no row for known; what the reference does with them is in
`ReferenceIndex`. Not in `Session`: `-y` (the prompt may always be answered with
no), `has_error`, skipped directories (in `DeviceFuse`), and a second process on
the same files: nothing takes the lock.

### The output

`AsyncWriter` makes each critical section of the writer's mutex a step, and each
row and each step of a rotation another, because the main thread reads slice
number and line count without a lock. `wpc` is where the thread is, with the place
between its test and its wait; `Submit`, `Shutdown` and a spurious wakeup come
from outside. `fp.buf` is what stdio holds back; it reaches `files` at any moment,
and for sure at `fflush` and `fclose`.

`OutputRun` puts the main thread beside it: entry by entry into the record and
into `out_batch`, the rotation of the record, and `atomic_update_index` in two
reads (`snap`), at every rotation and at the end. Runs follow each other with `-c
-Z`; the record is reduced to three counters, of which `ProgressStore` has the
detail.

### The pipeline

A run of `Pipeline` is one record of `Inputs`: batches, options, devices given up,
renamed users, whether threads can be created. `tp` is the batches with a result
for every entry; `Dedup` looks up one entry, by a pool thread or by main;
`Process` is `process_completed_batch`. Batches and slices are cells
(`Records`), so that a file can be cut within a length or a row; rows are
characters (`RowFormat`), of which those that have a meaning are told apart;
`Metadata` has the text of a mode, the attributes and the owners, with the two
caches and the chain of a bucket. The shared state of the slots is left to the
bus: a new directory is sent, dropped at a full queue, or kept as lost, in any
way. `PrintProgress` is the sampling of the panel by a monitor that may be late.

Left out: the limit of a record batch in bytes (that in rows is there), the
rotation of slices (in `ProgressStore`), failing allocations, the layout of a
date, of the panel and of an error. The monitor is in the scenario `Watched` only,
as nothing else reads what it writes.

### The device fuse

`ProbeHeap` has the array of `probe_scheduler.c` as a sequence; the loops of
`heap_up` and `heap_down` are functions of the place they are at.

`DeviceFuse` begins with an archive of skipped directories. `Restore` reads one
after the other: into memory (`count`), mark DEAD, push a probe. The monitor
peeks, removes the tasks of the device and forks (`Peek`, `Probe`), reaps, and
after an answer goes through the directories (`Pass`, `Requeue...`): next slot,
count the task, send, or uncount and keep as lost. The main loop dispatches lost
tasks, gets FINISH, reaps any child, and stops. `Tick` is a second; the time of a
task counts down to `-Late`. `RequeueFreed` is the send into a queue that
`destroy_ipc_threads` freed; what follows is undefined, so it ends the run.

Left out: MSG_ERROR, which nothing delivers, so no device dies during the scan;
PROBING, since `mark_probing` has no caller; the array of skipped directories is
extended while the monitor goes through it, which the model does without the
memory being moved.

## 3. Runs

`tlc -config <cfg> <module>`; every run takes less than two minutes with two
workers.

| run | module, cfg | question | answer |
|---|---|---|---|
| channels | MCChannels | Is the ring with its eventfd a FIFO that loses no wakeup and delivers without the timeout; do the pipes carry messages, with two writers or two readers, and does FINISH arrive? | yes, where no receive is given up within a message |
| bus_healthy | MCBus, MCBusHealthy | Without faults, do the counters cover the work, does the loop stop with nothing left, and does it stop? | yes, unless a task is overwritten in a mailbox |
| bus_faults | MCBus, MCBusFaults | Tight queues and two faults: is nothing output twice, is the main loop never blocked, is a cleaned slot refilled? | yes |
| reference_index | MCReferenceIndex | Are the tables sets and maps with bounded room, also when they are full, and is only the last recorded row trusted? | yes |
| session | MCSession | Over three runs with any options, killed anywhere: do the files hold the listing, is nothing listed twice, nothing taken for known that no batch handed on to the output, no target mixed with another, nothing left by `--clean` but what it does not reach; does every run end? | yes; that what was handed on also got to the output file is not so (section 4) |
| output | MCOutput | Does the writer print what it was given, in order and once, leave the listing in its files, keep the slices of earlier runs, and end? | yes, for the slices before the one in the index |
| pipeline | MCPipeline | Is every entry listed once, can rows and slices be read back, are the caches right, and the rates once the ring has come round twice, does the pool end and keep its promise? | yes |
| device_fuse | MCDeviceFuse | Is a dead device watched, none of its directories forgotten, the counter exact; does it recover? | yes, unless its probe was reaped elsewhere |
| bus_crash | MCBus, MCBusCrash | Is a crashed worker replaced? | **no** |
| bus_overtake | MCBus, MCBusOvertake | Is every batch read before the end? | **no** |
| progress_resume | MCSession, MCSessionResume | Do the runs together list everything, once one of them ends? | **no** |
| reference_full | MCReferenceIndex, MCReferenceIndexFull | Is what was inserted into a shard in it? | **no** |

### Bounds

* Slots: 1 or 2. One is enough for the protocol between a slot, its IPC thread
  and its worker; two bring in the choice of a slot, and a worker that is busy
  while another is idle. Two workers with faults are too many states.
* Trees of the bus: `Fork` (two directories in one batch, a file in each),
  `ShortChain` (a directory under another), `Flat` (the root's listing in two
  batches). The hazards of the bus need two tasks or two batches of one task, not
  more.
* `QueueCap` 8 never fills in these trees, `QueueCap` 2 does; `PipeCap` 3
  likewise, and `PipeCap` 1 makes every second write meet a full pipe;
  `EagainMax` 1 stands for 10; `PoolCap` 1 or 0 for 256, so that batches are also
  processed inline.
* `MaxInc` bounds incarnations of a worker. It is larger than what the faults of
  the run can use up, so the bound never stops the main loop; deadlock is checked
  in every run of the bus.
* `FaultSets` of `bus_faults`: every two of the five kinds, at any moment and in
  any order, but for `stuck` with `quit` (half a million states more) and `crash`
  with `nospawn` (a crashed worker is never cleaned up, see `bus_crash`).
  `PendingCovers` is for runs without faults: `cleanup_dead_worker_slot` changes
  the counter for tasks that the worker may never have had.
* Pipes: a header of two cells, so that it can be cut; `PIPE_BUF` three cells;
  room for four; messages of two or three cells and a batch of five, which never
  fits at once. Two SCANs, STOP, a batch, FINISH and a heartbeat give each pipe
  two messages, and `fd_cmd` two writers.
* Tables: five clashing fingerprints, four slots and a probe limit of three, so
  that a probe wraps around, hits its limit, and meets a full table; three rows,
  so that two of them are about one entry or one is dropped, and one of a type
  that is not known.
* Session: three runs, since an interrupted promotion needs a run to leave old
  slices, one to be killed while it promotes, and one that finds what it left.
  The root holds a and b, a holds f; the other target holds h. Eight command
  lines: the root with nothing, `-c`, `-c -Z`, `--runone -Z`, `--clean`, `-c
  --skip-interval`; the other with `-c` and `--runone`. Slices of two rows,
  batches of one row, a watermark of one and a pump of one directory a turn
  (100,000, 4096, 10,000 and `batch_size` in the code) make every rotation,
  spill and promotion happen. A search gives up after two missing slices
  (`SearchGap` 1 for 50), `--clean` reaches slices 0 and 1 (`WipeReach` 1 for 200)
  and fpbin file 0 (`FpReach` 1 for 1000), so that files beyond each of them exist;
  the gap is not larger than the reach, as in the code. In `progress_resume`
  all three are larger than any number of files, so that what it shows does not
  depend on a search. About a million states. Leftovers of fpbin files
  after a killed `--clean` would take a fourth run to matter.
* `reference_full`: the shard of `reference_index` with a probe limit of four, so
  that only a full table is in the way.
* Output: three rows in the first run and two more in the second, slices of two
  rows, an `out_batch` of two, one kill, with slices or one file: two rotations,
  and an index that is behind, ahead of the files, or of two moments.
* Pipeline: two threads and a queue of one batch, so that a third batch is
  processed inline; an iteration limit of three entries (100,000), record batches
  of two rows (4096), one device and two buckets in the caches (64 and 4096), so
  that each is exceeded. Lengths and metadata of two cells and a footer of three
  can be cut. A window of three samples (60) over seven seconds comes round twice,
  with a monitor that is up to one second late. Ten scenarios, each about
  something hard: entries in several batches; a device that recovers, and no
  threads; directories beyond the limit, in a new run and with the rows of an old
  one; odd characters, renamed owners; a custom format; switches; the panel; a
  target that is a file; a directory named twice.
* Device fuse: four directories of two or three devices, so that the heap has
  three levels, one device has two tasks, one has directories of different status,
  and one more device than the table holds (`MaxTracked` 2 for 256); two slots
  with queues of one, one task at work.

Deadlock is not checked where a run may stop: at the end of its runs, messages or
batches, or with the process.

### Fairness

Weak fairness of the main thread, of the thread pool, of every IPC thread and
of both threads of every worker: they are threads of the operating system that
block only in calls whose condition the action's guard states, or that time out
(`pthread_cond_timedwait` 100 ms, `epoll_wait` 500 ms, `poll` 5 s). Faults, kills,
new runs and write-backs of stdio get no fairness. In `MsgQueue` the timeout of
`epoll_wait` gets none either: `EventuallyDelivered` shows that the notifications
are enough.

* `Framing`: every thread and reader goes on while it can; a kill or a pause of
  any length is possible anywhere.
* `MCChannels`: that of `MsgQueue` and that of `Framing`. The two share no state, so
  a behaviour of the run uses one and leaves the other as it was created, and what
  holds of each holds of both at once.
* `Session`: a run that was started goes on, and every scan comes back (weak
  fairness of `ScanDone(d)`), which is what the bus is for. Nobody has to start a
  run.
* `OutputRun`: main and writer are scheduled, and the end of the process comes.
* `Pipeline`: strong fairness of main and of every pool thread, since two mutexes
  are contended: a thread gets a mutex that is free again and again. Spurious
  wakeups and failures get none.
* `DeviceFuse`: restore, monitor and time go on; a probe process ends by its
  alarm; strong fairness of the answer says that a device that is probed again and
  again answers once. The scan gets none, because it may end before.

### What the failing runs show

Each states what a document or a comment of the repository promises; the
findings in `PROJECT.json` quote it.

* `CrashedIsReplaced`. `main_loop.c:77` drops a DEAD report while the slot is
  alive. Only the cleanup that this report should start clears `is_alive`, so
  every first report is dropped: a crashed worker keeps its slot, its task is
  never repeated, and `pending_tasks` never gets to 0.
* `AllBatchesRead`. FINISH overtakes the last BATCH on the other pipe.
* `ResumeComplete`. A run is killed before the first rotation, with a directory
  in slice 0 whose scan had not come back. The next run finds no index and one
  slice, loads it into `visited_set` and pumps nothing. The root is scanned
  again, the directory is known, and what is below it is never listed.
* `InsertedIsStored`. The table never grows (`fingerprint_set.c:119` asks for a load
  of 1.5, the comments promise growth at 0.75), and an insert that finds no slot
  answers as for a new fingerprint (`:247`): the same path is new again each time.

## 4. Seen while modelling, not stated as runs

The bus:

* The root is queued for slot 0 without making the slot BUSY (`main.c:367`): its
  READY makes it IDLE, and a later SCAN can replace one in the mailbox
  (`worker_proc.c:151`), whose FINISH never comes. In `Fork` this happens.
  `Terminates` excuses a behaviour in which a task was in a mailbox, left it and never
  came to a scanner (`Overwritten`), and no other: those in which a directory had to
  wait for a worker all end.
* Redispatch of a stuck task raises `pending_tasks` twice (`dispatch.c:200` and
  `:145`), where `Design.md:39` says that it is balanced: the loop then never ends.
  Cleanup takes a task off that a worker which ended early never had; a full return
  queue drops what it is given; and a write to `fd_cmd` after its readers are gone
  raises SIGPIPE, which ends the master (`BrokenPipe`).
* A directory that has to wait for a worker (`batch_processor.c:178`) is neither
  counted nor listed nor recorded, though it is in `visited_set`; one whose command
  queue is full (`:184`) is all of these, but never scanned. `waited` in
  `ProgressRun` sets such directories apart.
* Workers report errors on `fd_data`, where everything but a batch is discarded
  (`ipc_message_handler.c:221`): `main_loop_handle_error` is never reached.
* When `worker_pool_spawn` fails at the start (`main.c:339`), the slot keeps pid 0
  and descriptors 0 of the `calloc`; the test for a replacement wants pid -1, so the
  slot stays empty, and a root that was sent there keeps the loop from ending.
* A batch larger than `PIPE_BUF` is not atomic: a writer that pauses for 100 ms
  within it is taken to have ended it (`ipc_protocol.c:85`; the header of the file,
  lines 6 and 54, says otherwise), and what follows is read as a header. A FINISH
  with a path of more than 4080 bytes is larger than `PIPE_BUF` too.
* The pipes' descriptors are closed by `destroy_ipc_threads` and again by
  `worker_pool_destroy`. A probe process that is forked while workers are spawned
  inherits write ends of pipes, so that a HUP waits for it.
* `README.md:183-185` calls the queue lock-free with CAS on head and tail, but
  `msg_queue.c` uses a mutex; `README.md:156` describes a backlog per slot that
  the code frees and migrates but never fills.

The tables and the thread pool:

* That no shard ever grows (run `reference_full`) is proved for every size as
  `CapacityFixed`. A full shard logs the insert and answers as for a new
  fingerprint, so the path is output, again each time.
* A trusted entry is listed with size 0, the times 0 but for mtime, owner root and
  no permissions: `try_blind_trust` clears the rest.
* An entry that is looked up while its device is given up joins `visited_set`; a
  copy that comes after the device recovered is a duplicate, and never listed.
* Entries from the iteration limit on (100,000) are marked duplicates unseen.
* When a pool thread cannot be created the ones before it are woken without the
  mutex (`thread_pool.c:144`), so that the join may wait for ever; if it does not,
  `main_loop_run` returns, and main writes `status=Success` with the workers alive.

The output:

* `atomic_update_index` reads slice number and line count while the writer drains
  (`main.c:420`). A resumed run appends to the slice the index names and creates
  every later one anew (`output_format.c:206`, `:296`): rows that an earlier run
  had in later slices are lost, though they are recorded and so not listed again.
  The line count may be of the slice before (`progress_io.c:376`), so that a slice
  holds one row more for each resumed run.
* A row is recorded when its entry is counted (`batch_processor.c:213`), and record
  and index go to the disk on their own schedule, while the output waits in
  `out_batch`, in the writer's list and in a buffer of 8 MB. A kill can keep the
  record and lose the output: the next run then hides the row, ends, and its files
  lack it for good, although `README.md:54` promises that the same command goes on
  from where the last one was. `VERSION_12.2.0_DESIGN.md:616` concedes the lost
  buffer, not that its rows are hidden afterwards. `HiddenWasHandedOn` therefore
  speaks of what was put into `out_batch`, and `OutputIsListing` of a run that ended.
* `scan_dirs.log` and `.dir` are opened to append in a fresh run as well
  (`output_format.c:242`, `:251`), and the names of old runs stay.
* `-Q` does not escape quotes; `%%` is printed as it is, and a lone `%` at the end
  is dropped; the octal column drops the special bits; ENOTTY of one file hides
  the attributes of the whole device. `default_fmt` is used after its block. The
  example of the attribute column has `e` where the code prints `i`, and that of
  `path_log_mask` masks components that the code keeps.
* Place 0 of the ring gets its first sample when the ring comes round. Until then
  the rates are taken against it, the clock at 0: they are the count by the Unix
  time (`monitor.c:76`). The sample that ends this round has itself for the oldest,
  and there the rate of dequeued entries keeps its old value (`:89-92`); and in the
  second round the rates are taken against the sample that began it. The comment at
  `:54` promises the average over the window, which is what the panel shows from the
  end of the second round on (`RatesAreGrowth`). `start_time` is set again by
  `init_output_files`, when the monitor already runs.
* `cleanup_cache`, `cleanup_compiled_format` and `monitor_destroy` have no caller.

The progress files and the session:

* Directories of archived slices are known to a resumed run but never pumped; the
  termination check does not look at the pump, so a run may end right after a
  promotion; the first record of a resumed run opens slice `write_slice_index` with
  "wb", which may be the one that is being pumped; in the state NEW the pump also
  reads the slice that is being written. A promotion that was interrupted after the
  first rename fails its verification in every later run. The model has all of
  these steps.
* `line_count` goes on from the index after a resume although the slice starts
  empty, so its footer counts rows that are not there.
* `cleanup_progress` deletes the configuration before the fpbin files
  (`progress.c:244-261`). A kill of `--clean` between the two leaves directories of
  one target without its name; the next run with `-c`, on another target, writes its
  own name above them, and the run that resumes from that promotes them and lists the
  directories of the first. It takes five runs, and came out of the proof of
  `TargetsApart`, not out of the bounded run. `loose` sets these runs apart too.
* `cleanup_progress` deletes the slices from 0 to `write_slice_index + 200` of a state
  that main has just cleared (`progress.c:221`, `main.c:261`): of a record with more
  slices the rest stays, while index and configuration are gone, where
  `README-BDD.md:745` and `CHANGELOG.md:1023` want all of it deleted (the note at
  `progress.c:212` does not). What stays is without the name of its target, and a
  later run takes it for its own; `loose` sets those runs apart. `--runone` and
  `-C` remove the progress before the prompt asks (`main.c:260`, `:270`).
* `--runone` without `-C` leaves archive and slices of the run before, records
  nothing, and writes the configuration anew: the next `-c` goes on from the old
  rows, also those of another target (`README.md:90` calls it a full scan that
  ignores history). `loose` sets those runs apart.
* The configuration is truncated and then written (`save_config_to_disk`), so a
  kill leaves it empty, and an empty one agrees with every target. Any file sets
  `continue_mode`, and in that mode it is not written again, so `status=Success` of
  an earlier run stays while a later one runs.
* Without an archive the reference map takes old slices with a higher number after
  the rows of the last run, and a map keeps the last row.
* Nothing takes the lock (`acquire_lock` has no caller): two processes on the same
  files are not kept apart.
* `-R` lacks the colon in the option string, so that `strdup(NULL)` follows;
  `--max-slice` takes a negative number.

The device fuse:

* `waitpid(-1)` of the main loop (`main_loop.c:338`) reaps the probe process of the
  monitor: its result is lost, and the device is DEAD for ever; so it is when
  `fork` fails (`monitor.c:267`). `README.md:319` says that a device that comes back
  is detected.
* There is no exponential backoff, and CONDEMNED is never reached by failed probes
  (`README.md:318-320`, `device_manager.c:191`):
  `probe_scheduler_reschedule_after_failure` and `mark_condemned` have no caller. A
  probe that hangs holds up all others.
* The monitor can give directories back when the command queues are already freed
  (`main.c:408-414`), and on three failure paths (`main.c:375`, `:391`, `:401`)
  everything is freed with the monitor running.
* In reference mode an archive with skipped directories is read before the
  scheduler exists (`main.c:308`, `:325`).
* A directory that the monitor puts into a command queue, or into `lost_tasks`, after
  the loop has stopped is read by nobody. `NothingForgotten` counts it as given back:
  it is about the lists of the fuse, not about the scan.
* A device with several tasks gives its directories back once for each. A
  directory that goes back is sent to a slot whatever its state, and takes the place
  of its `current_path`. The array of skipped directories may be moved by `realloc`
  while the monitor goes through it.
* Nothing in this version writes skipped directories (`record_skip` has no
  caller), so the fuse acts on archives of earlier versions only.

## 5. Proofs

Every theorem is for all values of the constants, from the named assumptions in
the modules that declare them.

**Pipes** (`ChannelProofs`, first part; `SizeAssumption`, `ScriptAssumption`: a
header has at least two cells, a message at least a header, and each thread writes
to its own pipes only). Any number of messages of any sizes, cut into writes and
reads of any size, with a kill, a drain or a pause anywhere:

* `BatchesAreWhole` (`Spec => []BatchesWhole`) has no other hypothesis: a batch may
  be larger than `PIPE_BUF` and than the pipe.
* `CtrlImplementsChannel` (`Spec => CtrlIsChannel`) and `DrainCountsAll` (`Spec =>
  []DrainExact`) assume `Fits("ctrl")` and `Fits("cmd")`: no message for that pipe is
  larger than `PIPE_BUF`. Two threads write to each of them, so the hypothesis cannot
  be dropped: a second message may get between the parts of the first. The code
  keeps to it but for paths of more than 4080 bytes (section 4).

`BatchesWhole` speaks of whole messages, the actions of cells, so the invariant has
to say which messages the cells are. It has three parts. `Base`: the types; a thread
is within a message only if that is larger than `PIPE_BUF`, and a reader never has
more cells than it needs. `Line(p)`, unless the pipe was torn: what
was sent is what was received and then `rest`, and the cells the reader has, followed
by those in the pipe, are the cells of `rest` (`Stream`) followed by the beginning of
the message its writer is in the middle of (`Begun`). `Known`: a reader that has a
header needs as many cells as the message has. The equation alone is not inductive:
without `Known` a reader might stop too early, and the next header would be payload.
Once a header is complete, it is that of the first message of `rest` (`FrontMessage`):
if `rest` were empty the beginning would have fewer cells than the message, but it
may have the header, and then `Known` already holds of it. With `Fits` nothing is
ever begun on ctrl, hence no receive finds a part of a message and `torn` stays
false (`NothingTorn`), and the steps that change `sent` and `got` are those of
`Channel`. That a write which fits is one the channel accepts (`AcceptsOne`) needs
that a message has two cells (`StreamLength`): the pipe holds `Room` of them, and the
reader may have as many in hand.

For the drain, `CmdLine` splits what was sent into the messages `taken`, by the worker
or by the drain, and the rest; `Counted` says that the SCANs of `taken` are those the
worker got and those that were counted, and `Left` what the pipe has at each state of
the drain: within a payload, the end of one message and then the rest.

**Queue** (`ChannelProofs`, second part; `CapacityAssumption`, `NamesAssumption`):
`QueueIsTyped`, `RingCorrect`, `WakeupNotLost`, and `QueueImplementsChannel`
(`QueueSafeSpec => ChannelSpec`). All rest on one inductive invariant,
`QueueInv == TypeOK /\ RingOK /\ NoLostWakeup`. `RingOK` alone is not inductive: that an unread slot
is not overwritten needs that the slot of `tail` differs from the slots of `head
.. tail - 1`, which follows from `tail - head < Capacity` and arithmetic modulo
`Capacity` (lemmas `DivMod`, `SlotsDistinct`). `NoLostWakeup` needs the states in
which the IPC thread is about to look at the queue again, and that the thread
itself owes no notification while it sleeps.

**Fingerprint shard** (`TableProofs`; `HashAssumption`, `FreeAssumption`,
`CapacityAssumption`, `ProbeLimitAssumption`): `ShardTypeCorrect`, `ProbeCorrect`
(a probe ends where its fingerprint is stored), `CapacityFixed` (no shard ever
grows), `ShardImplementsBoundedSet`. The inductive invariant is `ShardTypeOK`,
`capacity = Capacity`, `ProbeOK` and `CountOK`. That `count` is the number of
occupied slots bounds it by the capacity, so the growth rule is never met; a
failed insert has visited as many different occupied slots as the capacity or the
limit allows, which bounds the refusals of the abstract set.

**Reference mode** (`TableProofs`; `HashAssumption`, `FreeAssumption`,
`CapacityAssumption`, `ProbeLimitAssumption`, `MapCapacityAssumption`,
`NoRowAssumption`, `RowsAssumption`): `TrustCorrect`, by
the invariant `IndexInv`: types and count of the map, every row of the map is the
last one recorded, no verdict before the fork, and `TrustIsRecorded`. `ModeRoundTrip`
says that the mode made up for a type is recorded as that type again. The other
direction is `OldRowsAreTrusted`, by `KnownInv`: while the fingerprints seen fit
into both tables, each of them is in both, with the last row recorded, and the copy
a worker has from the fork is of such tables. It rests on the shard's lemmas about
where a probe ends, which is why the two tables share `FpTable`.

**Writer** (`OutputProofs`; `SliceAssumption`, `OutputAssumption`):
`OutputTypeCorrect`, `WriterNeverOversleeps`, `WriterImplementsStream` (`Spec =>
StreamSpec`), `SlicesKept`, `FilesAreListing`. The inductive invariant has

* `TypeOK` and `WriterAwake`, which are inductive together;
* `Threads`, where main and writer are beside each other: what is printed or
  submitted after the join would be no step of the stream;
* `InOrder`, submitted = printed, then the writer's list, then the queue: so the
  next row printed is the next one submitted, and the end of the thread finds both
  lists empty;
* `SliceOpen`: the slice under the writer's hands exists;
* `SnapBehind` and `IndexBehind`: no position that was read, or is in the index, is
  ahead of the writer. So whatever the next run starts from, it opens no slice
  before it, and rotation only goes forward.

`FilesAreListing` is `OutputIsListing`, by a second invariant `LInv` beside it. `Given`:
what the first run's scan found is what the writer got, then the batch in the main
thread's hand, then the rest. `OnDisk`: the slices one after the other, then the
buffer, are what was printed. `Cut`: the counter is the length of the slice and the
buffer, outside of a rotation, and every slice before the current one is full.
`OnDisk` does not care when stdio writes back (`SliceGrows`), nor about the moment
in a rotation at which the number names a slice that is not there yet (`SliceAdded`).
The concatenation of the slices is `FlattenSeq` of the community modules, a
recursive function; that one more row, or slice, at the end is one more at the end
of the result (`FlattenGrow`, `FlattenAppend`) is proved in `SumProofs`.

**Thread pool** (`PipelineProofs`, first part; `CapacityAssumption` and the others of
`ThreadPool`): `PoolTypeCorrect`, `PoolNeverOversleeps`, `PoolHearsStop`,
`PoolImplementsWorkPool`. The invariant has the types; `Births` (threads are
created in order); `Hands` (a batch is in a hand exactly while its thread works, so
that no batch is in two); `OneHolder` (one thread at a time is about to wait with
the mutex, and nothing is submitted meanwhile); `Stopping` (what `stop` says of
the owner, and an ended thread of the queue); `PoolAwake` and `StopIsHeard`.

**Pipeline** (`PipelineProofs`; `LimitAssumption`, `InputAssumption`,
`BucketAssumption`, `WindowAssumption`, those of the pool, `WidthAssumption` of
`Records`). `InputAssumption` says of the inputs what a worker and the system
guarantee: a format is text, entries have the types of a `struct stat`, one path does not stand for two
different entries in a run, a target that is a file leaves nothing to scan, and no
path is longer than the scanner's buffer, which has `MAX_PATH_LENGTH` bytes
(`src/src/scan/worker_scanner.c:256`; longer ones are passed over). `WidthAssumption`
says that the footer, 24 bytes, is shorter than that. The
proofs are in layers, each with the invariant of the one before.

* `ParsedIsGiven`: for any entries, `parse_batch` of the cells that `send_batch`
  writes gives back those entries. `BatchPayload` is a concatenation; the lemma goes
  over its rows one by one (`PiecesExist`, `RowIsThere`), as the parser does.
* `SpecRunInv`, by `RunInv`: the pool's invariant; `RunTypes`; `PhaseInv`, what each
  phase of `main_loop_run` says of the pool and of the batch in the main thread's
  hand; `ComingInv`, the batches of the input are, in order, those parsed, those in
  the return queues and those to come; `PlaceInv`, a live batch is in one place;
  `CountInv`, `pending_batches` is their number, and the late phases have none;
  `DataInv`, a live batch has the entries that were sent and a completed one a result
  for each.
* `MasterUsesPool` is the safety half of `PoolKeepsPromise`: under `RunInv` every step
  of the run is one of the pool or none (`StepIsPool`), so that the pool's theorems
  hold in every run, `PoolImplementsWorkPool` among them.
* `EachEntryOnce` is `EachOnce`, by `ListInv`: `OnceInv`, an entry is among the rows or
  waits in a batch once, and `visited` knows it; `NamedInv`, the same for the lines of
  `--print-dir`; `CoverInv`, what `visited` knows is listed, waits, or is accounted
  for. `visited` alone does not say it: between the look-up by a thread and the
  processing by the main thread the entry is nowhere else than in the results of the
  batch, and two batches with the same entry may be looked up by two threads at
  once. Every step is one of four to the list (`Turns`): it changes nothing of it, it
  lists the single target, it looks up one spot, or it ends a batch.
* `RatesAreKept` is `RatesAreGrowth`, which begins with the end of the ring's second
  round (before that the rates are not the window's, see section 4), by
  `RingInv`: the samples are in order of time,
  the ring holds the last of them, each at its number modulo the window, `filled` is
  set with the second round, and the rates are those of the last sample.
* `RowsShowAnswers` is `ShownIsAnswered`, by `ShownInv`: the texts in the cache are
  answers about the id they are stored with, the rows show the first text of their
  owner in the cache, a user is called by his first or his new name, and a device
  that is remembered without attributes is that of a row whose file had none. The
  property alone is not inductive: a row knows nothing of what the next one will find.
* `SliceIsRead` is `CutSliceIsPrefix`, by `SliceInv`: what waits in `record_batch` and
  what is written was sent by a worker, and the slice is the rows of some sequence of
  entries, at the end with a footer. The rest is about any such slice and any cut of
  it (`TornIs`): the rows that were written whole are found where they are
  (`RowInTorn`), a row that the cut goes through ends behind it (`StopsInRow`), and the
  magic of a footer, taken for a length, goes beyond the end (`StopsAtEnd`), which is
  why `WidthAssumption` bounds the footer. Both readers are one recursion over
  positions (`Reads`), which has a solution because every row ends further on
  (`ReadsExist`), and it gives the rows of such a chain (`ChainIsRead`).
* `RowsAreRead` is `RowsReadBack`, for any format and any characters in the paths, by
  `ReadInv`: the format is the one that was compiled, the cache of groups holds texts
  (that of users is in `ShownInv`), every row is what its format means, and a reader
  who has gone through all the output so far, when it is the default CSV, is between
  two records and has the columns of the rows printed. Compiler and reader are folds
  over characters, `FoldLeft`, of which the lemmas say that nothing to read changes
  nothing, and one character or one text more is read on from where the reader was
  (`ReadNothing`, `ReadOne`, `ReadOn`). From there on it is induction on the length
  of a text: the compiler, in the middle of any format, has segments that are shown as
  what the format so far means, but for a `%` that waits (`Halfway`, `LineIsMeant`);
  between two quotes a reader gets back the value, quotes doubled or not
  (`EscapedIsRead`, `FieldIsRead`), behind a list of columns he has those columns
  (`ListIsRead`), behind a row that row (`RowIsRead`). `ModeIsRead` is about the ten
  letters of a mode. A text is a sequence over `Glyph`, a set that has what any format,
  path, name or number can contain.

**Device fuse** (`FuseProofs`; `FuseAssumption`, in which the slots are numbered
from 0, as the array is). The lemmas about the heap are about the operators of
`ProbeHeap`, for heaps of any length: `HeapUpWorks` and `HeapDownWorks` take an
array that is a heap but for one place and show that the loop ends with a heap of
the same probes; `PushWorks`, `WithoutWorks`, `RemoveDevWorks` and `FirstIsEarliest`
follow. That a recursive function is what its equation says is itself a lemma
(`LoopExists`; for folds `FoldExists` of `SumProofs`), from the least number for
which it would fail.

* `TasksAreCounted`, by `CountInv`: the types of counter, queues and tasks at work,
  that the monitor has counted one task it has not sent yet exactly in the state
  between the two, and that the counter is the sum, over the slots (`SumProofs`:
  `TotalIsSum`, and `TotalUpdate`, what one slot gets more the sum gets more).
* `DeadDevicesAreWatched` and `NoDirectoryIsForgotten`, by one invariant
  `WatchInv`, of `WatchTypes`; `MonitorPlace` (what the state of the monitor says of
  its probe and of the place in the directories); `DeadWatched`; `DeadAgain` (after
  `reset`, a device that is dead again has been restored since); `PassedWentBack`
  (what the present pass has left behind went back) and `AllKept` (every restored
  directory is in memory). The two properties are not inductive because a directory
  may be restored while the monitor is in the middle of its pass.

**Bus** (`BusProofs`; `Bus`'s assumptions): `BusIsTyped`, by `BusTypes` (queues,
pipes, slots, processes, batches; an argument of a message has the type the kind of
message says), and `NoPathTwice`. `EmittedOnce` alone says nothing about where a
second copy could be; `OnceInv` adds that a path which is in a completed batch or in
the rest of the one in hand is in `visited`, was not emitted, and is in no other of
them, nor twice in one. `Dedup` preserves it because look-up and insertion are one
step for each path; a path output is never returned to a batch because `visited`
only grows until everything is freed. No fault, lost message or redispatch occurs
in this argument: the theorem is about all of them.

`CountersCover` and `NothingIsLeft` are about the behaviours in which no fault
happens, `Spec /\ [][UNCHANGED faults]_vars`: `cleanup_dead_worker_slot` takes tasks
from the counter that the worker may never have had, so after a fault
`PendingCovers` can fail. The invariant `QuietInv`, with `BusTypes`, has

* `Quiet` and `QuietPipes`: every slot keeps its first worker and is never DEAD, and
  until the loop ends no EXIT, DEV_TIMEOUT or STOP is anywhere (a worker that gives a
  SCAN up after `EagainMax` retries reports DEAD, which is dropped as the slot is
  alive);
* `TasksOwed`: each slot owes a number of tasks to `pending_tasks`, which is their
  sum. A slot owes at least its load, that is its tasks as SCAN, in a hand, in the
  mailbox, at the scanner, as FINISH or DROP; and at least one while it is BUSY, or
  is slot 0 before its first READY. The second half is needed where the loop ends:
  the load can be 0 because a task was overwritten in a mailbox or a report found
  the queue full. No step of a thread or worker makes a load larger; `Dispatch` and
  `RecvFinish` change load and debt alike;
* `BatchesCounted`: `pending_batches` is the number of batches in hand;
* `LostWaits` and `NothingPending`: where the loop decides whether to go on, a lost
  task means that no slot is idle. With both counters 0 nobody is BUSY, so slot 0 is
  idle, and no task is lost.

**Progress files** (`SessionProofs`; the assumptions of `ProgressStore` and
`ProgressResume`, of the tree that a directory has every name once and that none is
below itself (`TreeAssumption`); of `Session`, that targets are directories and that
no configuration file is the absence of one): `ListedOnce`, `OnlyHandedOnIsHidden`,
`CleanedUp`, `TargetsKeptApart`, `AfreshListsAll` and `RecordIsKept`, for every tree,
every number of runs with any command lines, and a kill between any two steps.

* `ListedOnce` is by `OnceInv`: what a run lists is in `visited`, so is the rest of
  the batch in hand, the two have nothing in common and no path twice, and there is
  such a rest only where a batch can be half done. Nothing need be said of the files:
  whatever they bring into `visited`, or hand out to be scanned again, its entries are
  let through once (`FreshWorks`).
* `OnlyHandedOnIsHidden` is by `KnownInv`: every row anywhere - slices, archive, fpbin
  files, the buffers of stdio, the batch to be recorded, the pump's open slice, the
  directories kept in memory - was put into `out_batch` by this run or one before.
  That it also reached the file is not so (section 4). `HiddenWasHandedOn`
  alone is not inductive, because a resume takes into `visited` what it finds on the
  disk. `StoredOf(S)` is that statement for a set S, so that one lemma per part
  (`StoreKeepsFiles`, `PumpKeepsFiles`, `BatchKeepsFiles`, `OpeningKeepsFiles`,
  `RestoreKeepsFiles`, `StdioKeepsFiles`, `EndKeepsFiles`) says that a step brings no
  row but of S; a step of the session is then one for S = what has been seen after it.
  `WriterPlace` and `FpPlace` say that the slice under the writer's hands is there.
* `CleanedUp` is `CleanLeavesOnlyFar`, by `CleanInv`: which kinds of file are gone,
  up to the reach of the deletion, at each step of `cleanup_progress`, and that a run with `--clean` has from then on no writer, no
  row in hand and no pump, so that nothing it does touches a file (`NothingIsWritten`).
* `TargetsKeptApart` is by `TargetInv`: everything stored is of `Allowed`, the rows
  below the one target the configuration names (or the one about to be written into
  it); a run that has passed `load_session_config` has that target; and what it scans
  and knows is below it. It needs `Below`, a function that recurses down the tree,
  as a set: `TreeAssumption` makes the definition one (`BelowIs`), the least set that
  has the entries of a directory and of every directory in it (`TargetClosed`,
  `TargetLeast`). The proof failed where the property was wrong: see the kill of
  `--clean` in section 4.
* `AfreshListsAll` is by `FreshInv`: every known directory is to be scanned, being
  scanned, about to be handed out, or has all its entries known (`Spread`), and in
  the middle of a batch a rotation has a row in hand (`RotationInv`), without which a
  rotation might go on to the end of the run with a batch half done.
* `RecordIsKept` is by `RecordInv`, which holds from the first run's empty disk on:
  besides the equation, the only slice there is the writer's own, and it is there
  while it is open or about to be archived; and the end of the run is reached with
  nothing in hand. `NamesInv` gives the rows their type.

Only model-checked: liveness (`EventuallyDelivered`, `FinishArrives`, `Terminates`,
`LoopTurns`, `SlotRefilled`, `RunEnds`, `ShutdownEnds`, `PoolEnds`, `DeadRecovers`),
and the fairness in `PoolKeepsPromise`, which needs fairness and ENABLED, out of the
prover's reach. Every safety property of the runs has a theorem. The type invariants of the queue, the shard, the writer, the
pool and the bus, and `ProbeOK`, are proved and not run.

## 6. Not modelled, and why

* Signals (`signals.c`): a crash report, written with what async-signal-safe code
  allows; no state others share. Utilities and log: string helpers and lines of
  text.
* The texts: help, verbose messages, the layout of the panel, of dates and of
  errors.
* Failing allocations, `epoll_ctl` and `eventfd`; errors of the set-up, apart from
  the pool's threads.
* Heartbeats as messages: a missing one is the fault `silence`.
* Functions without a caller: `acquire_lock`, `release_lock`, `record_skip`,
  `register_locked_file`, `dev_mgr_mark_probing`, `probe_scheduler_mark_condemned`,
  `probe_scheduler_reschedule_after_failure`, `msg_queue_recv_wait`, `cleanup_cache`,
  `cleanup_compiled_format`, `monitor_destroy`, `lost_tasks_count`.
* The spbin file beside the slices, which nothing writes; the block of it in an
  archive is what `DeviceFuse` begins with.
* xxhash and zlib: a fingerprint is an arbitrary value with an arbitrary hash, a
  compressed block is its rows.

## 7. Plan

1. Done: the queue, the tables, the writer, the thread pool and the pipeline from
   batch to row with their proofs; the bus, the pipes, the device fuse, the output
   and the progress files under sessions of any options with theirs.
2. A second process on the same files, since nothing takes the lock; and the pump
   in front of the workers' mailboxes, with the root that leaves its slot IDLE.
