----------------------------- MODULE BusProofs -----------------------------
(***************************************************************************)
(* Theorems about the message bus, for every tree, every number of workers *)
(* and threads, every capacity and every sequence of faults: the messages  *)
(* in the queues and pipes are what their readers take them for, and no    *)
(* path is output twice.  While no fault happens the counters of the main  *)
(* loop cover the work under way, and nothing is left when it ends.        *)
(***************************************************************************)
EXTENDS WorkerBus, SumProofs, SequenceTheorems

-----------------------------------------------------------------------------
(* Queues and pipes. *)

\* What comes out of a sequence.
LEMMA Received ==
  ASSUME NEW S, NEW q \in Seq(S), q # <<>>
  PROVE  Head(q) \in S /\ Tail(q) \in Seq(S)
BY HeadTailProperties

\* What msg_queue_send leaves.
LEMMA Sent ==
  ASSUME NEW S, NEW q \in Seq(S), NEW m \in S
  PROVE  Append(q, m) \in Seq(S) /\ Send(q, m) \in Seq(S)
BY AppendProperties DEF Send

\* A sequence without one of its members.
LEMMA Removed ==
  ASSUME NEW S, NEW q \in Seq(S), NEW i \in DOMAIN q
  PROVE  /\ RemoveAt(q, i) \in Seq(S) /\ q[i] \in S
         /\ ToSet(q) \subseteq S
<1>1. Len(q) \in Nat /\ DOMAIN q = 1 .. Len(q) /\ \A k \in 1 .. Len(q) : q[k] \in S
  BY LenProperties, ElementOfSeq
<1>2. SubSeq(q, 1, i - 1) \in Seq(S)
  BY <1>1, SubSeqProperties
<1>3. SubSeq(q, i + 1, Len(q)) \in Seq(S)
  BY <1>1, SubSeqProperties
<1>4. RemoveAt(q, i) \in Seq(S)
  BY <1>2, <1>3, ConcatProperties DEF RemoveAt
<1>5. QED
  BY <1>1, <1>4 DEF ToSet

-----------------------------------------------------------------------------
(* Types. *)

DirOrNone == Dirs \cup {None}
Pids == 0 .. MaxInc
Batches == Seq(Paths)
Blanked == Seq(Paths \cup {None})

PipeCommands == [type : {"SCAN"}, arg : Dirs] \cup [type : {"STOP"}, arg : {None}]
Commands == PipeCommands \cup [type : {"REPLACE"}, arg : Pids]

DataMsgs == [type : {"BATCH"}, arg : Batches]
CtrlMsgs == [type : {"READY", "FINISH", "DEV_TIMEOUT", "EXIT"}, arg : {None}]
Reports ==
  DataMsgs \cup CtrlMsgs
    \cup [type : {"DEAD"}, arg : {None}] \cup [type : {"DROP"}, arg : Dirs]

SlotRecords == [alive : BOOLEAN, pid : Pids, path : DirOrNone, cleanupDone : BOOLEAN,
                state : {"INITIALIZING", "IDLE", "BUSY", "DEAD"}]
Processes == [up : BOOLEAN, ready : BOOLEAN, stop : BOOLEAN, exited : BOOLEAN,
              mail : DirOrNone, task : DirOrNone, sent : Nat]
Threads == [conn : Pids, running : BOOLEAN, eagain : Nat, hand : DirOrNone]

QueueTypes == cmdQ \in [Slots -> Seq(Commands)] /\ retQ \in [Slots -> Seq(Reports)]

ProcessTypes ==
  /\ worker \in [Workers -> Processes]
  /\ cmdPipe \in [Workers -> Seq(PipeCommands)]
  /\ dataPipe \in [Workers -> Seq(DataMsgs)]
  /\ ctrlPipe \in [Workers -> Seq(CtrlMsgs)]

ThreadTypes == ipc \in [Slots -> Threads]

MasterTypes ==
  /\ slot \in [Slots -> SlotRecords] /\ spawned \in [Slots -> 1 .. MaxInc]
  /\ lost \in Seq(Dirs) /\ cur \in Slots /\ nextDispatch \in Slots

BatchTypes ==
  /\ poolQ \in Seq(Batches) /\ working \in Seq(Batches)
  /\ completed \in Seq(Blanked) /\ batch \in Blanked \cup {None}
  /\ visited \subseteq Paths /\ emitted \in [Paths -> Nat]

BusTypes == QueueTypes /\ ProcessTypes /\ ThreadTypes /\ MasterTypes /\ BatchTypes

\* The sizes that the types need.
LEMMA Sizes ==
  /\ NumWorkers \in Nat /\ NumWorkers > 0 /\ MaxInc \in Nat /\ MaxInc > 0
  /\ 0 \in Slots /\ Slots \subseteq Nat /\ Slots = 0 .. NumWorkers - 1
  /\ \A n \in Nat : n % NumWorkers \in Slots
  /\ Dirs \subseteq Paths /\ Root \in Dirs /\ None \notin Paths
  /\ \A d \in Dirs : Listing[d] \in Seq(Batches)
<1>1. NumWorkers \in Nat /\ NumWorkers > 0 /\ MaxInc \in Nat /\ MaxInc > 0
  BY SizeAssumption
<1>2. \A n \in Nat : n % NumWorkers \in 0 .. NumWorkers - 1
  BY <1>1
<1>3. QED
  BY <1>1, <1>2, TreeAssumption DEF Slots, Batches

-----------------------------------------------------------------------------
\* A worker process takes commands out of fd_cmd, keeps directories, and writes
\* batches to fd_data and its other messages to fd_ctrl.
LEMMA WorkerTypes ==
  ASSUME BusTypes, NEW w \in Workers, WorkerMain(w) \/ Scanner(w) \/ WorkerFault(w)
  PROVE  BusTypes'
<1>1. /\ worker \in [Workers -> Processes] /\ worker[w] \in Processes
      /\ cmdPipe \in [Workers -> Seq(PipeCommands)] /\ cmdPipe[w] \in Seq(PipeCommands)
      /\ dataPipe \in [Workers -> Seq(DataMsgs)] /\ dataPipe[w] \in Seq(DataMsgs)
      /\ ctrlPipe \in [Workers -> Seq(CtrlMsgs)] /\ ctrlPipe[w] \in Seq(CtrlMsgs)
  BY DEF BusTypes, ProcessTypes
<1>2. \A t \in {"READY", "DEV_TIMEOUT", "EXIT", "FINISH"} :
        /\ TryCtrl(w, t) => ctrlPipe' \in [Workers -> Seq(CtrlMsgs)]
        /\ Append(ctrlPipe[w], Msg(t, None)) \in Seq(CtrlMsgs)
  <2>1. SUFFICES ASSUME NEW t \in {"READY", "DEV_TIMEOUT", "EXIT", "FINISH"}
                 PROVE  /\ TryCtrl(w, t) => ctrlPipe' \in [Workers -> Seq(CtrlMsgs)]
                        /\ Append(ctrlPipe[w], Msg(t, None)) \in Seq(CtrlMsgs)
    OBVIOUS
  <2>2. Append(ctrlPipe[w], Msg(t, None)) \in Seq(CtrlMsgs)
    <3>1. Msg(t, None) \in CtrlMsgs
      BY DEF Msg, CtrlMsgs
    <3>2. QED
      BY <1>1, <3>1, Sent
  <2>3. QED
    BY <1>1, <2>2 DEF TryCtrl
<1>3. Die(w) => /\ worker' \in [Workers -> Processes]
                /\ dataPipe' \in [Workers -> Seq(DataMsgs)]
                /\ ctrlPipe' \in [Workers -> Seq(CtrlMsgs)]
  <2>1. NoProcess \in Processes
    BY DEF NoProcess, Processes, DirOrNone
  <2>2. <<>> \in Seq(DataMsgs) /\ <<>> \in Seq(CtrlMsgs)
    BY EmptySeq
  <2>3. QED
    BY <1>1, <2>1, <2>2 DEF Die, DieAll
<1>4. /\ worker' \in [Workers -> Processes]
      /\ cmdPipe' \in [Workers -> Seq(PipeCommands)]
      /\ dataPipe' \in [Workers -> Seq(DataMsgs)]
      /\ ctrlPipe' \in [Workers -> Seq(CtrlMsgs)]
  <2>1. CASE SendReady(w)
    BY <1>1, <1>2, <2>1 DEF SendReady, Processes
  <2>2. CASE ReadScan(w)
    <3>1. Head(cmdPipe[w]) \in PipeCommands /\ Tail(cmdPipe[w]) \in Seq(PipeCommands)
          /\ Head(cmdPipe[w]).type = "SCAN"
      BY <1>1, <2>2, Received DEF ReadScan, HeadIs
    <3>2. Head(cmdPipe[w]).arg \in DirOrNone
      BY <3>1 DEF PipeCommands, DirOrNone
    <3>3. QED
      BY <1>1, <2>2, <3>1, <3>2 DEF ReadScan, Processes
  <2>3. CASE ReadStop(w)
    <3>1. Tail(cmdPipe[w]) \in Seq(PipeCommands)
      BY <1>1, <2>3, Received DEF ReadStop, HeadIs
    <3>2. QED
      BY <1>1, <2>3, <3>1 DEF ReadStop, Processes
  <2>4. CASE SendExit(w)
    BY <1>1, <1>2, <2>4 DEF SendExit, Processes
  <2>5. CASE ExitProcess(w) \/ Orphaned(w) \/ Crash(w)
    BY <1>1, <1>3, <2>5 DEF ExitProcess, Orphaned, Crash
  <2>6. CASE TakeTask(w)
    BY <1>1, <2>6 DEF TakeTask, Processes, DirOrNone
  <2>7. CASE SendBatch(w)
    <3>1. PICK n : n = worker[w].sent + 1
      OBVIOUS
    <3>2. worker[w].task \in Dirs /\ worker[w].sent \in Nat
      BY <1>1, <2>7 DEF SendBatch, Processes, DirOrNone
    <3>3. PICK batches \in Seq(Batches) : batches = Listing[worker[w].task]
      BY <3>2, Sizes
    <3>4. n \in 1 .. Len(batches)
      BY <2>7, <3>1, <3>2, <3>3, LenProperties DEF SendBatch
    <3>5. PICK m \in DataMsgs : m = Msg("BATCH", batches[n])
      BY <3>4, ElementOfSeq DEF DataMsgs, Msg
    <3>6. Append(dataPipe[w], m) \in Seq(DataMsgs)
      BY <1>1, Sent
    <3>7. dataPipe' = [dataPipe EXCEPT ![w] = Append(@, m)]
      BY <2>7, <3>1, <3>3, <3>5 DEF SendBatch
    <3>8. worker' \in [Workers -> Processes]
      <4>1. n \in Nat
        BY <3>1, <3>2
      <4>2. [worker[w] EXCEPT !.sent = n] \in Processes
        BY <1>1, <4>1 DEF Processes
      <4>3. worker' = [worker EXCEPT ![w] = [worker[w] EXCEPT !.sent = n]]
        BY <1>1, <2>7, <3>1 DEF SendBatch
      <4>4. QED
        BY <1>1, <4>2, <4>3
    <3>9. QED
      BY <1>1, <2>7, <3>6, <3>7, <3>8 DEF SendBatch
  <2>8. CASE SendFinish(w)
    BY <1>1, <1>2, <2>8 DEF SendFinish, Processes, DirOrNone
  <2>9. CASE Quit(w)
    BY <1>1, <2>9 DEF Quit, Processes
  <2>10. CASE DevTimeout(w)
    BY <1>1, <1>2, <2>10 DEF DevTimeout
  <2>11. QED
    BY <2>1, <2>2, <2>3, <2>4, <2>5, <2>6, <2>7, <2>8, <2>9, <2>10
       DEF WorkerMain, Scanner, WorkerFault
<1>5. UNCHANGED others
  BY DEF WorkerMain, Scanner, WorkerFault, SendReady, ReadScan, ReadStop, SendExit,
         ExitProcess, Orphaned, TakeTask, SendBatch, SendFinish, Quit, DevTimeout, Crash
<1>6. QED
  BY <1>4, <1>5
     DEF BusTypes, QueueTypes, ProcessTypes, ThreadTypes, MasterTypes, BatchTypes,
         others, masterVars, poolVars, ipcVars

\* The IPC thread of a slot passes on what it reads, and keeps a directory in its
\* hand only.
LEMMA ThreadKeepsTypes ==
  ASSUME BusTypes, NEW s \in Slots, IpcStep(s) \/ TimeoutKill(s)
  PROVE  BusTypes'
<1>1. /\ cmdQ \in [Slots -> Seq(Commands)] /\ cmdQ[s] \in Seq(Commands)
      /\ retQ \in [Slots -> Seq(Reports)] /\ retQ[s] \in Seq(Reports)
      /\ ipc \in [Slots -> Threads] /\ ipc[s] \in Threads
      /\ worker \in [Workers -> Processes]
      /\ cmdPipe \in [Workers -> Seq(PipeCommands)]
      /\ dataPipe \in [Workers -> Seq(DataMsgs)]
      /\ ctrlPipe \in [Workers -> Seq(CtrlMsgs)]
  BY DEF BusTypes, ProcessTypes, QueueTypes, ThreadTypes
<1>2. ASSUME NEW t, Command(s, t)
      PROVE  /\ Head(cmdQ[s]) \in Commands /\ Tail(cmdQ[s]) \in Seq(Commands)
             /\ Head(cmdQ[s]).type = t
  BY <1>1, <1>2, Received DEF Command, HeadIs
<1>3. ASSUME NEW m \in Reports, Return(s, m) PROVE retQ' \in [Slots -> Seq(Reports)]
  <2>1. Send(retQ[s], m) \in Seq(Reports)
    BY <1>1, Sent
  <2>2. QED
    BY <1>1, <1>3, <2>1 DEF Return
<1>4. NoPid \in Pids
  BY Sizes DEF NoPid, Pids
<1>5. Msg("DEAD", None) \in Reports
  BY DEF Msg, Reports
<1>6. Taken(s) /\ cmdQ[s] # <<>> => cmdQ' \in [Slots -> Seq(Commands)]
  <2>1. SUFFICES ASSUME Taken(s), cmdQ[s] # <<>> PROVE cmdQ' \in [Slots -> Seq(Commands)]
    OBVIOUS
  <2>2. Tail(cmdQ[s]) \in Seq(Commands)
    BY <1>1, <2>1, Received
  <2>3. QED
    BY <1>1, <2>1, <2>2 DEF Taken
<1>7. \A t : Command(s, t) => cmdQ[s] # <<>>
  BY DEF Command, HeadIs
<1>8. QueueTypes' /\ ThreadTypes'
  <2>1. CASE Replace(s)
    <3>1. Head(cmdQ[s]).arg \in Pids
      BY <1>2, <2>1 DEF Replace, Commands, PipeCommands
    <3>2. ipc' \in [Slots -> Threads]
      BY <1>1, <2>1, <3>1 DEF Replace, Threads
    <3>3. QED
      BY <1>1, <1>6, <1>7, <2>1, <3>2 DEF Replace, QueueTypes, ThreadTypes
  <2>2. CASE DropScan(s)
    <3>1. Msg("DROP", Head(cmdQ[s]).arg) \in Reports
      BY <1>2, <2>2 DEF DropScan, Commands, PipeCommands, Msg, Reports
    <3>2. QED
      BY <1>1, <1>3, <1>6, <1>7, <2>2, <3>1 DEF DropScan, QueueTypes, ThreadTypes, ipcVars
  <2>3. CASE ForwardScan(s)
    <3>1. ipc' \in [Slots -> Threads]
      BY <1>1, <2>3 DEF ForwardScan, Threads
    <3>2. QED
      BY <1>1, <1>6, <1>7, <2>3, <3>1 DEF ForwardScan, QueueTypes, ThreadTypes
  <2>4. CASE RetryScan(s)
    <3>1. Head(cmdQ[s]).arg \in DirOrNone
      BY <1>2, <2>4 DEF RetryScan, Commands, PipeCommands, DirOrNone
    <3>2. PICK e \in Nat : e = ipc[s].eagain + 1
      BY <1>1 DEF Threads
    <3>3. PICK a \in DirOrNone : a = Head(cmdQ[s]).arg
      BY <3>1
    <3>4. [ipc[s] EXCEPT !.eagain = e, !.hand = a] \in Threads
      BY <1>1 DEF Threads
    <3>5. ipc' = [ipc EXCEPT ![s] = [ipc[s] EXCEPT !.eagain = e, !.hand = a]]
      BY <1>1, <2>4, <3>2, <3>3 DEF RetryScan
    <3>6. ipc' \in [Slots -> Threads]
      BY <1>1, <3>4, <3>5
    <3>7. QED
      BY <1>1, <1>6, <1>7, <2>4, <3>6 DEF RetryScan, QueueTypes, ThreadTypes
  <2>5. CASE PushBack(s)
    <3>1. ipc[s].hand \in Dirs
      BY <1>1, <2>5 DEF PushBack, Threads, DirOrNone
    <3>2. Msg("SCAN", ipc[s].hand) \in Commands
      BY <3>1 DEF Msg, Commands, PipeCommands
    <3>3. Send(cmdQ[s], Msg("SCAN", ipc[s].hand)) \in Seq(Commands)
      BY <1>1, <3>2, Sent
    <3>4. cmdQ' \in [Slots -> Seq(Commands)]
      BY <1>1, <2>5, <3>3 DEF PushBack
    <3>5. ipc' \in [Slots -> Threads]
      BY <1>1, <2>5 DEF PushBack, Threads, DirOrNone
    <3>6. QED
      BY <1>1, <2>5, <3>4, <3>5 DEF PushBack, QueueTypes, ThreadTypes
  <2>6. CASE GiveUpScan(s)
    <3>1. ipc' \in [Slots -> Threads]
      BY <1>1, <1>4, <2>6 DEF GiveUpScan, Threads
    <3>2. QED
      BY <1>1, <1>3, <1>5, <1>6, <1>7, <2>6, <3>1 DEF GiveUpScan, QueueTypes, ThreadTypes
  <2>7. CASE BrokenPipe(s)
    <3>1. ipc' \in [Slots -> Threads]
      BY <1>1, <1>4, <2>7 DEF BrokenPipe, Threads
    <3>2. QED
      BY <1>1, <2>7, <3>1 DEF BrokenPipe, QueueTypes, ThreadTypes
  <2>8. CASE Stop(s)
    <3>1. ipc' \in [Slots -> Threads]
      BY <1>1, <2>8 DEF Stop, Threads
    <3>2. QED
      BY <1>1, <1>6, <1>7, <2>8, <3>1 DEF Stop, QueueTypes, ThreadTypes
  <2>9. ASSUME Readable(s), Connected(s) PROVE Peer(s) \in Workers
    <3>1. PICK n : n = ipc[s].conn
      OBVIOUS
    <3>2. n \in Pids /\ n # 0
      BY <1>1, <2>9, <3>1 DEF Connected, Threads, NoPid
    <3>3. n \in 1 .. MaxInc
      BY <3>2, Sizes DEF Pids
    <3>4. QED
      BY <3>1, <3>3 DEF Peer, Workers
  <2>10. CASE ReadData(s)
    <3>1. Peer(s) \in Workers
      BY <2>9, <2>10 DEF ReadData, Readable
    <3>2. Head(dataPipe[Peer(s)]) \in Reports
      BY <1>1, <2>10, <3>1, Received DEF ReadData, Reports
    <3>3. QED
      BY <1>1, <1>3, <2>10, <3>2 DEF ReadData, QueueTypes, ThreadTypes, ipcVars
  <2>11. CASE ReadCtrl(s)
    <3>1. Peer(s) \in Workers
      BY <2>9, <2>11 DEF ReadCtrl, Readable
    <3>2. Head(ctrlPipe[Peer(s)]) \in Reports
      BY <1>1, <2>11, <3>1, Received DEF ReadCtrl, Reports
    <3>3. QED
      BY <1>1, <1>3, <2>11, <3>2 DEF ReadCtrl, QueueTypes, ThreadTypes, ipcVars
  <2>12. Disconnect(s) => ipc' \in [Slots -> Threads]
    BY <1>1, <1>4 DEF Disconnect, Threads
  <2>13. CASE ReadExit(s)
    <3>1. Peer(s) \in Workers
      BY <2>9, <2>13 DEF ReadExit, Readable
    <3>2. Head(ctrlPipe[Peer(s)]) \in Reports
      BY <1>1, <2>13, <3>1, Received DEF ReadExit, HeadIs, Reports
    <3>3. QED
      BY <1>1, <1>3, <2>12, <2>13, <3>2 DEF ReadExit, QueueTypes, ThreadTypes
  <2>14. CASE HangUp(s)
    BY <1>1, <1>3, <1>5, <2>12, <2>14 DEF HangUp, MarkDead, QueueTypes, ThreadTypes
  <2>15. CASE TimeoutKill(s)
    BY <1>1, <1>3, <1>5, <2>12, <2>15
       DEF TimeoutKill, KillPeer, MarkDead, QueueTypes, ThreadTypes
  <2>16. QED
    BY <2>1, <2>2, <2>3, <2>4, <2>5, <2>6, <2>7, <2>8, <2>10, <2>11, <2>13, <2>14, <2>15
       DEF IpcStep, HandleCmd
<1>9. ProcessTypes'
  <2>1. CASE ForwardScan(s)
    <3>1. PICK m : m = Head(cmdQ[s])
      OBVIOUS
    <3>2. m \in PipeCommands
      BY <1>2, <2>1, <3>1 DEF ForwardScan, Commands
    <3>3. cmdPipe' = [cmdPipe EXCEPT ![Peer(s)] = Append(@, m)]
      BY <2>1, <3>1 DEF ForwardScan
    <3>4. \A w \in Workers : Append(cmdPipe[w], m) \in Seq(PipeCommands)
      BY <1>1, <3>2, Sent
    <3>5. cmdPipe' \in [Workers -> Seq(PipeCommands)]
      BY <1>1, <3>3, <3>4
    <3>6. QED
      BY <1>1, <2>1, <3>5 DEF ForwardScan, ProcessTypes
  <2>2. CASE ReadData(s)
    <3>1. dataPipe[Peer(s)] # <<>> /\ dataPipe' = [dataPipe EXCEPT ![Peer(s)] = Tail(@)]
      BY <2>2 DEF ReadData
    <3>2. \A w \in Workers : dataPipe[w] # <<>> => Tail(dataPipe[w]) \in Seq(DataMsgs)
      BY <1>1, Received
    <3>3. dataPipe' \in [Workers -> Seq(DataMsgs)]
      BY <1>1, <3>1, <3>2
    <3>4. QED
      BY <1>1, <2>2, <3>3 DEF ReadData, ProcessTypes
  <2>3. CASE ReadCtrl(s) \/ ReadExit(s)
    <3>1. ctrlPipe[Peer(s)] # <<>> /\ ctrlPipe' = [ctrlPipe EXCEPT ![Peer(s)] = Tail(@)]
      BY <2>3 DEF ReadCtrl, ReadExit, HeadIs
    <3>2. \A w \in Workers : ctrlPipe[w] # <<>> => Tail(ctrlPipe[w]) \in Seq(CtrlMsgs)
      BY <1>1, Received
    <3>3. ctrlPipe' \in [Workers -> Seq(CtrlMsgs)]
      BY <1>1, <3>1, <3>2
    <3>4. QED
      BY <1>1, <2>3, <3>3 DEF ReadCtrl, ReadExit, ProcessTypes
  <2>4. CASE TimeoutKill(s)
    <3>1. NoProcess \in Processes
      BY DEF NoProcess, Processes, DirOrNone
    <3>2. <<>> \in Seq(DataMsgs) /\ <<>> \in Seq(CtrlMsgs)
      BY EmptySeq
    <3>3. QED
      BY <1>1, <2>4, <3>1, <3>2 DEF TimeoutKill, KillPeer, Die, DieAll, ProcessTypes
  <2>5. CASE UNCHANGED workerVars
    BY <1>1, <2>5 DEF workerVars, ProcessTypes
  <2>6. QED
    BY <2>1, <2>2, <2>3, <2>4, <2>5
       DEF IpcStep, HandleCmd, Replace, DropScan, RetryScan, PushBack, GiveUpScan,
           BrokenPipe, Stop, HangUp
<1>10. /\ UNCHANGED <<cur, batch, slot, spawned, lost, nextDispatch, emitted>>
       /\ UNCHANGED poolVars
  BY DEF IpcStep, HandleCmd, Replace, DropScan, ForwardScan, RetryScan, PushBack,
         GiveUpScan, BrokenPipe, Stop, ReadData, ReadCtrl, ReadExit, HangUp, TimeoutKill,
         masterVars
<1>11. MasterTypes' /\ BatchTypes'
  BY <1>10 DEF BusTypes, MasterTypes, BatchTypes, poolVars
<1>12. QED
  BY <1>8, <1>9, <1>11 DEF BusTypes

-----------------------------------------------------------------------------
\* What batch_dedup_worker leaves of a batch: the paths not seen before, once each.
LEMMA DedupWorks ==
  ASSUME visited \subseteq Paths, NEW e \in Batches
  PROVE  /\ Dedup(e) \in Blanked /\ DOMAIN Dedup(e) = DOMAIN e
         /\ \A i \in DOMAIN e, p \in Paths :
              Dedup(e)[i] = p => /\ p = e[i] /\ p \notin visited
                                 /\ \A j \in 1 .. i - 1 : e[j] # p
<1> DEFINE seen(i) == visited \cup {e[j] : j \in 1 .. i - 1}
           out(i) == IF e[i] \in seen(i) THEN None ELSE e[i]
<1>1. Len(e) \in Nat /\ DOMAIN e = 1 .. Len(e) /\ \A i \in 1 .. Len(e) : e[i] \in Paths
  BY LenProperties, ElementOfSeq DEF Batches
<1>2. Dedup(e) = [i \in 1 .. Len(e) |-> out(i)]
  BY <1>1 DEF Dedup
<1>3. \A i \in 1 .. Len(e) : out(i) \in Paths \cup {None}
  BY <1>1
<1>4. Dedup(e) \in Blanked
  <2>1. Dedup(e) \in [1 .. Len(e) -> Paths \cup {None}]
    BY <1>2, <1>3
  <2>2. QED
    BY <1>1, <2>1, SeqDef DEF Blanked
<1>5. ASSUME NEW i \in 1 .. Len(e), NEW p \in Paths, Dedup(e)[i] = p
      PROVE  p = e[i] /\ p \notin visited /\ \A j \in 1 .. i - 1 : e[j] # p
  <2>1. out(i) = p /\ p # None
    BY <1>2, <1>5, Sizes
  <2>2. e[i] \notin seen(i) /\ p = e[i]
    BY <2>1
  <2>3. QED
    BY <2>2
<1>6. QED
  BY <1>1, <1>2, <1>4, <1>5

LEMMA CleanupKeepsTypes ==
  ASSUME BusTypes, NEW s \in Slots, NEW again \in BOOLEAN, Cleanup(s, again)
  PROVE  /\ slot' \in [Slots -> SlotRecords] /\ lost' \in Seq(Dirs)
         /\ cmdPipe' \in [Workers -> Seq(PipeCommands)]
<1>1. /\ slot \in [Slots -> SlotRecords] /\ slot[s] \in SlotRecords /\ lost \in Seq(Dirs)
      /\ cmdPipe \in [Workers -> Seq(PipeCommands)]
  BY DEF BusTypes, MasterTypes, ProcessTypes
<1>2. CASE slot[s].pid = NoPid \/ slot[s].cleanupDone
  BY <1>1, <1>2 DEF Cleanup
<1>3. CASE ~(slot[s].pid = NoPid \/ slot[s].cleanupDone)
  <2>1. cmdPipe' \in [Workers -> Seq(PipeCommands)]
    <3>1. <<>> \in Seq(PipeCommands)
      BY EmptySeq
    <3>2. cmdPipe' = [cmdPipe EXCEPT ![<<s, slot[s].pid>>] = <<>>]
      BY <1>3 DEF Cleanup
    <3>3. QED
      BY <1>1, <3>1, <3>2
  <2>2. slot' \in [Slots -> SlotRecords]
    <3>1. NoPid \in Pids
      BY Sizes DEF NoPid, Pids
    <3>2. slot' = [slot EXCEPT ![s].alive = FALSE, ![s].pid = NoPid,
                               ![s].state = "DEAD", ![s].cleanupDone = TRUE]
      BY <1>3 DEF Cleanup
    <3>3. QED
      BY <1>1, <3>1, <3>2 DEF SlotRecords
  <2>3. lost' \in Seq(Dirs)
    <3>1. slot[s].path # None => slot[s].path \in Dirs
      BY <1>1 DEF SlotRecords, DirOrNone
    <3>2. slot[s].path \in Dirs => Append(lost, slot[s].path) \in Seq(Dirs)
      BY <1>1, Sent
    <3>3. lost' = lost \/ (slot[s].path # None /\ lost' = Append(lost, slot[s].path))
      BY <1>3 DEF Cleanup, Requeue
    <3>4. QED
      BY <1>1, <3>1, <3>2, <3>3
  <2>4. QED
    BY <2>1, <2>2, <2>3
<1>4. QED
  BY <1>2, <1>3

\* The phases go through the slots.
LEMMA NextSlotIsSlot ==
  ASSUME cur \in Slots, NEW phase, NextSlot(phase)
  PROVE  cur' \in Slots
<1>1. cur' = 0 \/ (cur' = cur + 1 /\ cur + 1 < NumWorkers)
  BY DEF NextSlot
<1>2. cur \in Nat /\ NumWorkers \in Nat /\ 0 \in Slots
  BY Sizes
<1>3. cur + 1 < NumWorkers => cur + 1 \in 0 .. NumWorkers - 1
  BY <1>2
<1>4. QED
  BY <1>1, <1>2, <1>3, Sizes

\* The main thread takes messages out of the return queues.
LEMMA RecvKeepsTypes ==
  ASSUME BusTypes, Recv
  PROVE  BusTypes'
<1>1. /\ retQ \in [Slots -> Seq(Reports)] /\ retQ[cur] \in Seq(Reports) /\ cur \in Slots
      /\ slot \in [Slots -> SlotRecords] /\ lost \in Seq(Dirs)
      /\ cmdPipe \in [Workers -> Seq(PipeCommands)]
      /\ poolQ \in Seq(Batches) /\ batch \in Blanked \cup {None} /\ visited \subseteq Paths
  BY DEF BusTypes, MasterTypes, ProcessTypes, QueueTypes, BatchTypes
<1>2. /\ UNCHANGED <<spawned, nextDispatch, emitted, working, completed, cmdQ>>
      /\ UNCHANGED ipcAndWorkers
  BY DEF Recv, RecvBatch, RecvReady, RecvFinish, RecvDead, RecvDevTimeout, RecvExit,
         RecvDrop, RecvEnd, Receive, poolVars
<1>3. ASSUME NEW t, Receive(t)
      PROVE  /\ cur' = cur /\ retQ' \in [Slots -> Seq(Reports)]
             /\ Head(retQ[cur]) \in Reports /\ Head(retQ[cur]).type = t
  <2>1. Head(retQ[cur]) \in Reports /\ Tail(retQ[cur]) \in Seq(Reports)
    BY <1>1, <1>3, Received DEF Receive, HeadIs
  <2>2. QED
    BY <1>1, <1>3, <2>1 DEF Receive, HeadIs
<1>4. /\ cur' \in Slots /\ retQ' \in [Slots -> Seq(Reports)]
      /\ slot' \in [Slots -> SlotRecords] /\ lost' \in Seq(Dirs)
      /\ cmdPipe' \in [Workers -> Seq(PipeCommands)]
      /\ poolQ' \in Seq(Batches) /\ batch' \in Blanked \cup {None} /\ visited' \subseteq Paths
  <2>1. CASE RecvBatch
    <3>1. PICK e : e = Head(retQ[cur]).arg
      OBVIOUS
    <3>2. e \in Batches
      BY <1>3, <2>1, <3>1 DEF RecvBatch, Reports, DataMsgs, CtrlMsgs
    <3>3. Append(poolQ, e) \in Seq(Batches)
      BY <1>1, <3>2, Sent
    <3>4. Dedup(e) \in Blanked
      BY <1>1, <3>2, DedupWorks
    <3>5. ToSet(e) \subseteq Paths
      <4>1. DOMAIN e = 1 .. Len(e) /\ \A i \in 1 .. Len(e) : e[i] \in Paths
        BY <3>2, LenProperties, ElementOfSeq DEF Batches
      <4>2. QED
        BY <4>1 DEF ToSet
    <3>6. /\ \/ poolQ' = Append(poolQ, e) /\ batch' = batch /\ visited' = visited
             \/ poolQ' = poolQ /\ batch' = Dedup(e) /\ visited' = visited \cup ToSet(e)
          /\ slot' = slot /\ lost' = lost /\ cmdPipe' = cmdPipe
      BY <2>1, <3>1 DEF RecvBatch
    <3>7. cur' = cur /\ retQ' \in [Slots -> Seq(Reports)]
      BY <1>3, <2>1 DEF RecvBatch
    <3>8. QED
      BY <1>1, <3>3, <3>4, <3>5, <3>6, <3>7
  <2>2. CASE RecvReady
    BY <1>1, <1>3, <2>2 DEF RecvReady, SlotRecords
  <2>3. CASE RecvFinish
    BY <1>1, <1>3, <2>3 DEF RecvFinish, SlotRecords
  <2>4. CASE RecvDead
    <3>1. UNCHANGED <<slot, cmdPipe, lost>> \/ Cleanup(cur, TRUE)
      BY <2>4 DEF RecvDead
    <3>2. QED
      BY <1>1, <1>3, <2>4, <3>1, CleanupKeepsTypes DEF RecvDead
  <2>5. CASE RecvDevTimeout
    BY <1>1, <1>3, <2>5, CleanupKeepsTypes DEF RecvDevTimeout
  <2>6. CASE RecvExit
    BY <1>1, <1>3, <2>6, CleanupKeepsTypes DEF RecvExit, HandleExit
  <2>7. CASE RecvDrop
    <3>1. Head(retQ[cur]).arg \in Dirs
      BY <1>3, <2>7 DEF RecvDrop, Reports, DataMsgs, CtrlMsgs
    <3>2. Append(lost, Head(retQ[cur]).arg) \in Seq(Dirs)
      BY <1>1, <3>1, Sent
    <3>3. QED
      BY <1>1, <1>3, <2>7, <3>2 DEF RecvDrop, Requeue
  <2>8. CASE RecvEnd
    <3>1. cur' \in Slots
      BY <1>1, <2>8, NextSlotIsSlot DEF RecvEnd
    <3>2. QED
      BY <1>1, <2>8, <3>1 DEF RecvEnd, poolVars
  <2>9. QED
    BY <2>1, <2>2, <2>3, <2>4, <2>5, <2>6, <2>7, <2>8 DEF Recv
<1>5. QED
  BY <1>2, <1>4
     DEF BusTypes, QueueTypes, ProcessTypes, ThreadTypes, MasterTypes, BatchTypes,
         ipcAndWorkers, ipcVars

\* A command queue takes a SCAN of a directory.
LEMMA DispatchKeepsTypes ==
  ASSUME BusTypes, NEW k \in 0 .. NumWorkers - 1, NEW p \in Dirs,
         Dispatch(k, p) \/ DispatchFails(k)
  PROVE  /\ cmdQ' \in [Slots -> Seq(Commands)] /\ nextDispatch' \in Slots
         /\ Dispatch(k, p) => slot' \in [Slots -> SlotRecords]
<1>1. /\ cmdQ \in [Slots -> Seq(Commands)] /\ nextDispatch \in Nat
      /\ slot \in [Slots -> SlotRecords] /\ NumWorkers \in Nat
  BY Sizes DEF BusTypes, MasterTypes, QueueTypes
<1>2. Candidate(k) \in Slots /\ Candidate(k + 1) \in Slots
  <2>1. nextDispatch + k \in Nat /\ nextDispatch + (k + 1) \in Nat
    BY <1>1
  <2>2. QED
    BY <2>1, Sizes DEF Candidate
<1>3. nextDispatch' \in Slots
  BY <1>2 DEF Dispatch, DispatchFails
<1>4. cmdQ' \in [Slots -> Seq(Commands)]
  <2>1. PICK s \in Slots : s = Candidate(k)
    BY <1>2
  <2>2. Msg("SCAN", p) \in Commands
    BY DEF Msg, Commands, PipeCommands
  <2>3. Append(cmdQ[s], Msg("SCAN", p)) \in Seq(Commands)
    BY <1>1, <2>2, Sent
  <2>4. cmdQ' = cmdQ \/ cmdQ' = [cmdQ EXCEPT ![s] = Append(@, Msg("SCAN", p))]
    BY <2>1 DEF Dispatch, DispatchFails
  <2>5. QED
    BY <1>1, <2>3, <2>4
<1>5. Dispatch(k, p) => slot' \in [Slots -> SlotRecords]
  <2>1. SUFFICES ASSUME Dispatch(k, p) PROVE slot' \in [Slots -> SlotRecords]
    OBVIOUS
  <2>2. PICK s \in Slots : s = Candidate(k)
    BY <1>2
  <2>3. slot' = [slot EXCEPT ![s].state = "BUSY", ![s].path = p]
    BY <2>1, <2>2 DEF Dispatch
  <2>4. p \in DirOrNone
    BY DEF DirOrNone
  <2>5. QED
    BY <1>1, <2>3, <2>4 DEF SlotRecords
<1>6. QED
  BY <1>3, <1>4, <1>5

\* The main thread works through a batch.
LEMMA ProcessKeepsTypes ==
  ASSUME BusTypes, Process
  PROVE  BusTypes'
<1>1. /\ slot \in [Slots -> SlotRecords] /\ lost \in Seq(Dirs) /\ nextDispatch \in Slots
      /\ cmdQ \in [Slots -> Seq(Commands)]
      /\ completed \in Seq(Blanked) /\ batch \in Blanked \cup {None}
      /\ emitted \in [Paths -> Nat]
  BY DEF BusTypes, MasterTypes, QueueTypes, BatchTypes
<1>2. /\ UNCHANGED <<cur, spawned, poolQ, working, visited, retQ, cmdPipe>>
      /\ UNCHANGED ipcAndWorkers
  BY DEF Process, PollBatch, PollEnd, BatchEnd, SkipEntry, FileEntry, DirEntry,
         DirEntryWaits, Entry, poolVars
<1>3. ASSUME NEW p, Entry(p)
      PROVE  batch' \in Blanked \cup {None} /\ completed' \in Seq(Blanked)
  <2>1. batch # None /\ batch # <<>> /\ batch' = Tail(batch) /\ completed' = completed
    BY <1>3 DEF Entry, poolVars
  <2>2. Tail(batch) \in Blanked
    BY <1>1, <2>1, Received DEF Blanked
  <2>3. QED
    BY <1>1, <2>1, <2>2
<1>4. ASSUME NEW p \in Paths, Emit(p) PROVE emitted' \in [Paths -> Nat]
  <2>1. PICK n \in Nat : n = emitted[p] + 1
    BY <1>1
  <2>2. emitted' = [emitted EXCEPT ![p] = n]
    BY <1>4, <2>1 DEF Emit
  <2>3. QED
    BY <1>1, <2>2
<1>5. /\ slot' \in [Slots -> SlotRecords] /\ lost' \in Seq(Dirs) /\ nextDispatch' \in Slots
      /\ cmdQ' \in [Slots -> Seq(Commands)]
      /\ completed' \in Seq(Blanked) /\ batch' \in Blanked \cup {None}
      /\ emitted' \in [Paths -> Nat]
  <2>1. CASE PollBatch
    <3>1. Head(completed) \in Blanked /\ Tail(completed) \in Seq(Blanked)
      BY <1>1, <2>1, Received DEF PollBatch
    <3>2. QED
      BY <1>1, <2>1, <3>1 DEF PollBatch
  <2>2. CASE PollEnd
    BY <1>1, <2>2 DEF PollEnd, poolVars
  <2>3. CASE BatchEnd
    BY <1>1, <2>3 DEF BatchEnd, poolVars
  <2>4. CASE SkipEntry
    BY <1>1, <1>3, <2>4 DEF SkipEntry
  <2>5. ASSUME NEW p \in Paths, FileEntry(p)
        PROVE  /\ slot' \in [Slots -> SlotRecords] /\ lost' \in Seq(Dirs)
               /\ nextDispatch' \in Slots /\ cmdQ' \in [Slots -> Seq(Commands)]
               /\ completed' \in Seq(Blanked) /\ batch' \in Blanked \cup {None}
               /\ emitted' \in [Paths -> Nat]
    BY <1>1, <1>3, <1>4, <2>5 DEF FileEntry
  <2>6. ASSUME NEW p \in Paths, DirEntry(p)
        PROVE  /\ slot' \in [Slots -> SlotRecords] /\ lost' \in Seq(Dirs)
               /\ nextDispatch' \in Slots /\ cmdQ' \in [Slots -> Seq(Commands)]
               /\ completed' \in Seq(Blanked) /\ batch' \in Blanked \cup {None}
               /\ emitted' \in [Paths -> Nat]
    <3>1. Entry(p) /\ p \in Dirs /\ Emit(p) /\ lost' = lost
      BY <2>6 DEF DirEntry
    <3>2. PICK k \in 0 .. NumWorkers - 1 :
            \/ Dispatch(k, p)
            \/ DispatchFails(k) /\ slot' = [slot EXCEPT ![Candidate(k)].path = p]
      BY <2>6 DEF DirEntry
    <3>3. cmdQ' \in [Slots -> Seq(Commands)] /\ nextDispatch' \in Slots
      BY <3>1, <3>2, DispatchKeepsTypes
    <3>4. slot' \in [Slots -> SlotRecords]
      <4>1. CASE Dispatch(k, p)
        BY <3>1, <4>1, DispatchKeepsTypes
      <4>2. CASE slot' = [slot EXCEPT ![Candidate(k)].path = p]
        <5>1. p \in DirOrNone
          BY <3>1 DEF DirOrNone
        <5>2. PICK s : s = Candidate(k)
          OBVIOUS
        <5>3. slot' = [slot EXCEPT ![s].path = p]
          BY <4>2, <5>2
        <5>4. QED
          BY <1>1, <5>1, <5>3 DEF SlotRecords
      <4>3. QED
        BY <3>2, <4>1, <4>2
    <3>5. QED
      BY <1>1, <1>3, <1>4, <3>1, <3>3, <3>4
  <2>7. ASSUME NEW p \in Paths, DirEntryWaits(p)
        PROVE  /\ slot' \in [Slots -> SlotRecords] /\ lost' \in Seq(Dirs)
               /\ nextDispatch' \in Slots /\ cmdQ' \in [Slots -> Seq(Commands)]
               /\ completed' \in Seq(Blanked) /\ batch' \in Blanked \cup {None}
               /\ emitted' \in [Paths -> Nat]
    <3>1. Entry(p) /\ p \in Dirs /\ lost' = Append(lost, p)
      BY <2>7 DEF DirEntryWaits, Requeue
    <3>2. lost' \in Seq(Dirs)
      BY <1>1, <3>1, Sent
    <3>3. QED
      BY <1>1, <1>3, <2>7, <3>1, <3>2 DEF DirEntryWaits
  <2>8. QED
    BY <2>1, <2>2, <2>3, <2>4, <2>5, <2>6, <2>7 DEF Process
<1>6. QED
  BY <1>2, <1>5
     DEF BusTypes, QueueTypes, ProcessTypes, ThreadTypes, MasterTypes, BatchTypes,
         ipcAndWorkers, ipcVars

\* A slot gets a process, or the IPC thread a REPLACE without one.
LEMMA RespawnKeepsTypes ==
  ASSUME BusTypes, Respawn \/ SpawnFails
  PROVE  BusTypes'
<1>1. /\ cmdQ \in [Slots -> Seq(Commands)] /\ cur \in Slots
      /\ slot \in [Slots -> SlotRecords] /\ spawned \in [Slots -> 1 .. MaxInc]
      /\ worker \in [Workers -> Processes]
  BY DEF BusTypes, MasterTypes, QueueTypes, ProcessTypes
<1>2. ASSUME NEW n \in Pids, cmdQ' = [cmdQ EXCEPT ![cur] = SendReplace(@, n)]
      PROVE  cmdQ' \in [Slots -> Seq(Commands)]
  <2>1. Msg("REPLACE", n) \in Commands
    BY DEF Msg, Commands
  <2>2. Send(cmdQ[cur], Msg("REPLACE", n)) \in Seq(Commands)
    BY <1>1, <2>1, Sent
  <2>3. QED
    BY <1>1, <1>2, <2>2 DEF SendReplace
<1>3. cur' \in Slots
  BY <1>1, NextSlotIsSlot DEF Respawn, SpawnFails
<1>4. CASE SpawnFails
  <2>1. NoPid \in Pids
    BY Sizes DEF NoPid, Pids
  <2>2. cmdQ' \in [Slots -> Seq(Commands)]
    BY <1>2, <1>4, <2>1 DEF SpawnFails
  <2>3. QED
    BY <1>3, <1>4, <2>2
       DEF SpawnFails, BusTypes, QueueTypes, ProcessTypes, ThreadTypes, MasterTypes,
           BatchTypes, poolVars, ipcVars, workerVars
<1>5. CASE Respawn
  <2>1. PICK n : n = spawned[cur] + 1
    OBVIOUS
  <2>2. n \in 1 .. MaxInc
    <3>1. spawned[cur] \in 1 .. MaxInc /\ spawned[cur] < MaxInc
      BY <1>1, <1>5 DEF Respawn
    <3>2. QED
      BY <2>1, <3>1, Sizes
  <2>3. n \in Pids
    BY <2>2, Sizes DEF Pids
  <2>4. /\ spawned' = [spawned EXCEPT ![cur] = n]
        /\ slot' = [slot EXCEPT ![cur] = NewSlot(n)]
        /\ worker' = [worker EXCEPT ![<<cur, n>>] = NewProcess]
        /\ cmdQ' = [cmdQ EXCEPT ![cur] = SendReplace(@, n)]
    BY <1>5, <2>1 DEF Respawn
  <2>5. NewSlot(n) \in SlotRecords /\ NewProcess \in Processes
    BY <2>3 DEF NewSlot, SlotRecords, NewProcess, NoProcess, Processes, DirOrNone
  <2>6. cmdQ' \in [Slots -> Seq(Commands)]
    BY <1>2, <2>3, <2>4
  <2>7. /\ spawned' \in [Slots -> 1 .. MaxInc] /\ slot' \in [Slots -> SlotRecords]
        /\ worker' \in [Workers -> Processes]
    BY <1>1, <2>2, <2>4, <2>5
  <2>8. QED
    BY <1>3, <1>5, <2>6, <2>7
       DEF Respawn, BusTypes, QueueTypes, ProcessTypes, ThreadTypes, MasterTypes,
           BatchTypes, poolVars, ipcVars
<1>6. QED
  BY <1>4, <1>5

\* The lost tasks are given out from the front of the list.
LEMMA LostKeepsTypes ==
  ASSUME BusTypes, DispatchLost \/ LostEnd
  PROVE  BusTypes'
<1>1. lost \in Seq(Dirs) /\ cmdQ \in [Slots -> Seq(Commands)] /\ nextDispatch \in Slots
      /\ slot \in [Slots -> SlotRecords]
  BY DEF BusTypes, MasterTypes, QueueTypes
<1>2. lost # <<>> => /\ Tail(lost) \in Seq(Dirs) /\ Oldest(lost) \in Dirs
                     /\ Requeue(Tail(lost), Oldest(lost)) \in Seq(Dirs)
  BY <1>1, Received, Sent DEF Oldest, Requeue
<1>3. /\ cmdQ' \in [Slots -> Seq(Commands)] /\ nextDispatch' \in Slots
      /\ slot' \in [Slots -> SlotRecords] /\ lost' \in Seq(Dirs)
  <2>1. CASE DispatchLost
    <3>1. lost # <<>>
      BY <2>1 DEF DispatchLost
    <3>2. PICK k \in 0 .. NumWorkers - 1 :
            \/ Dispatch(k, Oldest(lost)) /\ lost' = Tail(lost)
            \/ /\ DispatchFails(k) /\ lost' = Requeue(Tail(lost), Oldest(lost))
               /\ UNCHANGED slot
      BY <2>1 DEF DispatchLost
    <3>3. Oldest(lost) \in Dirs
      BY <1>2, <3>1
    <3>4. cmdQ' \in [Slots -> Seq(Commands)] /\ nextDispatch' \in Slots
      BY <3>2, <3>3, DispatchKeepsTypes
    <3>5. slot' \in [Slots -> SlotRecords]
      BY <1>1, <3>2, <3>3, DispatchKeepsTypes
    <3>6. QED
      BY <1>2, <3>1, <3>2, <3>4, <3>5
  <2>2. CASE LostEnd
    BY <1>1, <1>2, <2>2 DEF LostEnd
  <2>3. QED
    BY <2>1, <2>2
<1>4. /\ UNCHANGED <<cur, batch, spawned, emitted, retQ, cmdPipe>>
      /\ UNCHANGED poolVars /\ UNCHANGED ipcAndWorkers
  BY DEF DispatchLost, LostEnd
<1>5. QED
  BY <1>3, <1>4
     DEF BusTypes, QueueTypes, ProcessTypes, ThreadTypes, MasterTypes, BatchTypes,
         poolVars, ipcAndWorkers, ipcVars

\* The end of the scan.
LEMMA StopKeepsTypes ==
  ASSUME BusTypes, StopAll \/ Join \/ DestroyWorkers
  PROVE  BusTypes'
<1>1. /\ cmdQ \in [Slots -> Seq(Commands)] /\ retQ \in [Slots -> Seq(Reports)]
      /\ ipc \in [Slots -> Threads]
      /\ worker \in [Workers -> Processes]
      /\ cmdPipe \in [Workers -> Seq(PipeCommands)]
      /\ dataPipe \in [Workers -> Seq(DataMsgs)]
      /\ ctrlPipe \in [Workers -> Seq(CtrlMsgs)]
  BY DEF BusTypes, QueueTypes, ProcessTypes, ThreadTypes
<1>2. /\ Msg("STOP", None) \in Commands /\ Msg("STOP", None) \in PipeCommands
      /\ \A S : <<>> \in Seq(S)
  BY EmptySeq DEF Msg, Commands, PipeCommands
<1>3. CASE StopAll
  <2>1. \A s \in Slots : SendStop(cmdQ[s]) \in Seq(Commands)
    BY <1>1, <1>2, Sent DEF SendStop
  <2>2. \A w \in Workers : Append(cmdPipe[w], Msg("STOP", None)) \in Seq(PipeCommands)
    BY <1>1, <1>2, Sent
  <2>3. cmdQ' \in [Slots -> Seq(Commands)]
    BY <1>3, <2>1 DEF StopAll
  <2>4. cmdPipe' \in [Workers -> Seq(PipeCommands)]
    BY <1>1, <1>3, <2>2 DEF StopAll
  <2>5. QED
    BY <1>3, <2>3, <2>4
       DEF StopAll, BusTypes, QueueTypes, ProcessTypes, ThreadTypes, MasterTypes,
           BatchTypes, poolVars, ipcAndWorkers, ipcVars
<1>4. CASE Join
  <2>1. cmdQ' \in [Slots -> Seq(Commands)] /\ retQ' \in [Slots -> Seq(Reports)]
    BY <1>2, <1>4 DEF Join, QueuesDestroyed
  <2>2. NoPid \in Pids
    BY Sizes DEF NoPid, Pids
  <2>3. \A s \in Slots : Destroyed(ipc[s]) \in Threads
    BY <1>1, <2>2 DEF Destroyed, Stopped, Threads
  <2>4. ipc' \in [Slots -> Threads]
    BY <1>4, <2>3 DEF Join
  <2>5. QED
    BY <1>4, <2>1, <2>4
       DEF Join, BusTypes, QueueTypes, ProcessTypes, ThreadTypes, MasterTypes,
           BatchTypes, poolVars, workerVars
<1>5. CASE DestroyWorkers
  <2>1. NoProcess \in Processes
    BY DEF NoProcess, Processes, DirOrNone
  <2>2. PICK gone : DieAll(gone)
    BY <1>5 DEF DestroyWorkers
  <2>3. /\ worker' \in [Workers -> Processes]
        /\ dataPipe' \in [Workers -> Seq(DataMsgs)]
        /\ ctrlPipe' \in [Workers -> Seq(CtrlMsgs)]
    BY <1>1, <1>2, <2>1, <2>2 DEF DieAll
  <2>4. lost' \in Seq(Dirs) /\ visited' \subseteq Paths
    BY <1>2, <1>5 DEF DestroyWorkers, SetDestroyed, LostDestroyed
  <2>5. QED
    BY <1>5, <2>3, <2>4
       DEF DestroyWorkers, BusTypes, QueueTypes, ProcessTypes, ThreadTypes, MasterTypes,
           BatchTypes, ipcVars
<1>6. QED
  BY <1>3, <1>4, <1>5

\* The threads of the pool.
LEMMA PoolKeepsTypes ==
  ASSUME BusTypes, PoolStep
  PROVE  BusTypes'
<1>1. /\ poolQ \in Seq(Batches) /\ working \in Seq(Batches) /\ completed \in Seq(Blanked)
      /\ visited \subseteq Paths
  BY DEF BusTypes, BatchTypes
<1>2. CASE PoolTake
  <2>1. Head(poolQ) \in Batches /\ Tail(poolQ) \in Seq(Batches)
    BY <1>1, <1>2, Received DEF PoolTake
  <2>2. Append(working, Head(poolQ)) \in Seq(Batches)
    BY <1>1, <2>1, Sent
  <2>3. QED
    BY <1>2, <2>1, <2>2
       DEF PoolTake, BusTypes, QueueTypes, ProcessTypes, ThreadTypes, MasterTypes,
           BatchTypes, masterVars, ipcAndWorkers, ipcVars
<1>3. ASSUME NEW i, PoolComplete(i) PROVE BusTypes'
  <2>1. i \in DOMAIN working
    BY <1>3 DEF PoolComplete
  <2>2. RemoveAt(working, i) \in Seq(Batches) /\ working[i] \in Batches
    BY <1>1, <2>1, Removed
  <2>3. Dedup(working[i]) \in Blanked
    BY <1>1, <2>2, DedupWorks
  <2>4. Append(completed, Dedup(working[i])) \in Seq(Blanked)
    BY <1>1, <2>3, Sent
  <2>5. ToSet(working[i]) \subseteq Paths
    BY <2>2, LenProperties, ElementOfSeq DEF ToSet, Batches
  <2>6. QED
    BY <1>1, <1>3, <2>2, <2>4, <2>5
       DEF PoolComplete, BusTypes, QueueTypes, ProcessTypes, ThreadTypes, MasterTypes,
           BatchTypes, masterVars, ipcAndWorkers, ipcVars
<1>4. QED
  BY <1>2, <1>3 DEF PoolStep

\* Every slot has a worker that has done nothing, and slot 0 the root to scan.
LEMMA InitTypes == Init => BusTypes
<1> SUFFICES ASSUME Init PROVE BusTypes
  OBVIOUS
<1>1. \A S : <<>> \in Seq(S)
  BY EmptySeq
<1>2. 1 \in Pids /\ NoPid \in Pids /\ 1 \in 1 .. MaxInc
  BY Sizes DEF Pids, NoPid
<1>3. QueueTypes
  <2>1. Msg("REPLACE", 1) \in Commands /\ Msg("SCAN", Root) \in Commands
    BY <1>2, Sizes DEF Msg, Commands, PipeCommands
  <2>2. SendReplace(<<>>, 1) \in Seq(Commands)
    BY <1>1, <2>1, Sent DEF SendReplace
  <2>3. <<Msg("SCAN", Root)>> \in Seq(Commands)
    BY <2>1
  <2>4. \A s \in Slots :
          SendReplace(<<>>, 1) \o (IF s = 0 THEN <<Msg("SCAN", Root)>> ELSE <<>>)
            \in Seq(Commands)
    BY <1>1, <2>2, <2>3, ConcatProperties
  <2>5. cmdQ \in [Slots -> Seq(Commands)]
    BY <2>4 DEF Init, SeedRoot
  <2>6. QED
    BY <1>1, <2>5 DEF Init, InitIpcThreads, QueueTypes
<1>4. ProcessTypes
  <2>1. NoProcess \in Processes /\ NewProcess \in Processes
    BY DEF NewProcess, NoProcess, Processes, DirOrNone
  <2>2. QED
    BY <1>1, <2>1 DEF Init, SpawnWorkers, ProcessTypes
<1>5. ThreadTypes
  <2>1. NewIpc \in Threads
    BY <1>2 DEF NewIpc, Threads, DirOrNone
  <2>2. QED
    BY <2>1 DEF Init, InitIpcThreads, ThreadTypes
<1>6. MasterTypes
  <2>1. \A s \in Slots : [NewSlot(1) EXCEPT !.path = IF s = 0 THEN Root ELSE None]
                           \in SlotRecords
    BY <1>2, Sizes DEF NewSlot, SlotRecords, DirOrNone
  <2>2. slot \in [Slots -> SlotRecords]
    BY <2>1 DEF Init, SpawnWorkers
  <2>3. spawned \in [Slots -> 1 .. MaxInc]
    BY <1>2 DEF Init, SpawnWorkers
  <2>4. QED
    BY <1>1, <2>2, <2>3, Sizes DEF Init, ContextInit, LostInit, MasterTypes
<1>7. BatchTypes
  BY <1>1 DEF Init, ContextInit, BatchTypes
<1>8. QED
  BY <1>3, <1>4, <1>5, <1>6, <1>7 DEF BusTypes

\* Every step keeps the types.
LEMMA StepKeepsTypes == BusTypes /\ [Next]_vars => BusTypes'
<1> SUFFICES ASSUME BusTypes, [Next]_vars PROVE BusTypes'
  OBVIOUS
<1>1. CASE UNCHANGED vars
  BY <1>1
     DEF vars, masterVars, poolVars, ipcVars, workerVars, BusTypes, QueueTypes,
         ProcessTypes, ThreadTypes, MasterTypes, BatchTypes
<1>2. CASE ReplaceNone \/ NextTurn
  <2>1. cur' \in Slots
    BY <1>2, NextSlotIsSlot DEF ReplaceNone, NextTurn, BusTypes, MasterTypes
  <2>2. QED
    BY <1>2, <2>1
       DEF ReplaceNone, NextTurn, BusTypes, QueueTypes, ProcessTypes, ThreadTypes,
           MasterTypes, BatchTypes, poolVars, ipcAndWorkers, ipcVars
<1>3. CASE MainStep
  BY <1>2, <1>3, RecvKeepsTypes, ProcessKeepsTypes, RespawnKeepsTypes, LostKeepsTypes,
     StopKeepsTypes DEF MainStep
<1>4. CASE SpawnFails
  BY <1>4, RespawnKeepsTypes
<1>5. CASE PoolStep
  BY <1>5, PoolKeepsTypes
<1>6. CASE \E s \in Slots : IpcStep(s) \/ TimeoutKill(s)
  BY <1>6, ThreadKeepsTypes
<1>7. CASE \E w \in Workers : WorkerMain(w) \/ Scanner(w) \/ WorkerFault(w)
  BY <1>7, WorkerTypes
<1>8. CASE Terminated
  BY <1>1, <1>8 DEF Terminated
<1>9. QED
  BY <1>1, <1>3, <1>4, <1>5, <1>6, <1>7, <1>8 DEF Next

\* Whatever fails, every queue and pipe holds messages that its reader knows, a SCAN
\* names a directory, and what the threads hold are slots, processes and batches.
THEOREM BusIsTyped == Spec => []BusTypes
BY InitTypes, StepKeepsTypes, PTL DEF Spec, SafeSpec

-----------------------------------------------------------------------------
(* No path is output twice. *)

PathsOf(b) == {p \in Paths : \E i \in DOMAIN b : b[i] = p}
Distinct(b) == \A p \in Paths : \A i, j \in DOMAIN b : b[i] = p /\ b[j] = p => i = j

\* The paths that were output, and those of the batch the main thread works on.
Out == {p \in Paths : emitted[p] > 0}
InHand == IF batch = None THEN {} ELSE PathsOf(batch)

\* A path is in one place of one batch, or it was output once; and the fingerprint
\* set knows it.
OnceInv ==
  /\ \A p \in Paths : emitted[p] <= 1
  /\ batch # None => Distinct(batch)
  /\ \A k \in DOMAIN completed : Distinct(completed[k])
  /\ \A k, l \in DOMAIN completed :
       k # l => PathsOf(completed[k]) \cap PathsOf(completed[l]) = {}
  /\ \A k \in DOMAIN completed : PathsOf(completed[k]) \cap (Out \cup InHand) = {}
  /\ Out \cap InHand = {}
  /\ MasterUp => /\ Out \cup InHand \subseteq visited
                 /\ \A k \in DOMAIN completed : PathsOf(completed[k]) \subseteq visited

\* A batch that was just deduplicated has new paths only.
LEMMA FreshBatch ==
  ASSUME visited \subseteq Paths, NEW e \in Batches, NEW d, d = Dedup(e)
  PROVE  /\ Distinct(d) /\ PathsOf(d) \cap visited = {} /\ PathsOf(d) \subseteq ToSet(e)
<1>1. /\ DOMAIN d = DOMAIN e /\ DOMAIN e = 1 .. Len(e) /\ Len(e) \in Nat
      /\ \A i \in DOMAIN e, p \in Paths :
           d[i] = p => p = e[i] /\ p \notin visited /\ \A j \in 1 .. i - 1 : e[j] # p
  BY DedupWorks, LenProperties DEF Batches
<1>2. Distinct(d)
  <2>1. SUFFICES ASSUME NEW p \in Paths, NEW i \in 1 .. Len(e), NEW j \in 1 .. Len(e),
                        d[i] = p, d[j] = p, i < j
                 PROVE  FALSE
    BY <1>1 DEF Distinct
  <2>2. i \in 1 .. j - 1
    BY <1>1, <2>1
  <2>3. QED
    BY <1>1, <2>1, <2>2
<1>3. QED
  BY <1>1, <1>2 DEF PathsOf, ToSet

\* The entries of a batch leave it one by one.
LEMMA RestOfBatch ==
  ASSUME NEW b \in Blanked, b # <<>>, Distinct(b)
  PROVE  /\ Distinct(Tail(b)) /\ PathsOf(Tail(b)) \subseteq PathsOf(b)
         /\ \A p \in Paths : p = Head(b) => p \in PathsOf(b) /\ p \notin PathsOf(Tail(b))
<1>1. /\ Len(b) \in Nat /\ DOMAIN b = 1 .. Len(b) /\ Len(b) > 0
  BY LenProperties, EmptySeq DEF Blanked
<1>2. /\ DOMAIN Tail(b) = 1 .. Len(b) - 1
      /\ \A i \in 1 .. Len(b) - 1 : Tail(b)[i] = b[i + 1]
  BY <1>1, HeadTailProperties, LenProperties DEF Blanked
<1>3. Head(b) = b[1] /\ 1 \in DOMAIN b
  BY <1>1 DEF Blanked
<1>4. \A i \in DOMAIN Tail(b) : i \in Nat /\ i >= 1 /\ i + 1 \in DOMAIN b
  BY <1>1, <1>2
<1>5. Distinct(Tail(b))
  <2>1. SUFFICES ASSUME NEW p \in Paths, NEW i \in DOMAIN Tail(b), NEW j \in DOMAIN Tail(b),
                        Tail(b)[i] = p, Tail(b)[j] = p
                 PROVE  i = j
    BY DEF Distinct
  <2>2. b[i + 1] = p /\ b[j + 1] = p
    BY <1>2, <2>1
  <2>3. i + 1 = j + 1
    BY <1>4, <2>2 DEF Distinct
  <2>4. QED
    BY <1>4, <2>3
<1>6. PathsOf(Tail(b)) \subseteq PathsOf(b)
  BY <1>2, <1>4 DEF PathsOf
<1>7. ASSUME NEW p \in Paths, p = Head(b) PROVE p \in PathsOf(b) /\ p \notin PathsOf(Tail(b))
  <2>1. p \in PathsOf(b)
    BY <1>3, <1>7 DEF PathsOf
  <2>2. ASSUME NEW i \in DOMAIN Tail(b), Tail(b)[i] = p PROVE FALSE
    <3>1. b[i + 1] = p /\ b[1] = p
      BY <1>2, <1>3, <1>7, <2>2
    <3>2. i + 1 = 1
      BY <1>3, <1>4, <3>1 DEF Distinct
    <3>3. QED
      BY <1>4, <3>2
  <2>3. QED
    BY <2>1, <2>2 DEF PathsOf
<1>8. QED
  BY <1>5, <1>6, <1>7

\* Steps that touch no batch after deduplication.
LEMMA OnceFrame ==
  ASSUME OnceInv, UNCHANGED <<batch, completed, emitted>>, visited \subseteq visited',
         MasterUp' => MasterUp
  PROVE  OnceInv'
<1>1. Out' = Out /\ InHand' = InHand
  BY DEF Out, InHand
<1>2. QED
  BY <1>1 DEF OnceInv

\* A thread of the pool deduplicates a batch.
LEMMA CompleteKeepsOnce ==
  ASSUME BusTypes, OnceInv, NEW i, PoolComplete(i)
  PROVE  OnceInv'
<1>1. /\ working \in Seq(Batches) /\ completed \in Seq(Blanked) /\ visited \subseteq Paths
      /\ i \in DOMAIN working /\ MasterUp
  BY DEF BusTypes, BatchTypes, PoolComplete
<1>2. PICK e \in Batches : e = working[i]
  BY <1>1, Removed
<1>3. PICK d : d = Dedup(e)
  OBVIOUS
<1>4. /\ completed' = Append(completed, d) /\ visited' = visited \cup ToSet(e)
      /\ batch' = batch /\ emitted' = emitted
  BY <1>2, <1>3 DEF PoolComplete, masterVars
<1>5. /\ Distinct(d) /\ PathsOf(d) \cap visited = {} /\ PathsOf(d) \subseteq ToSet(e)
  BY <1>1, <1>3, FreshBatch
<1>6. PICK n \in Nat : n = Len(completed)
  BY <1>1
<1>7. /\ DOMAIN completed = 1 .. n /\ DOMAIN completed' = 1 .. n + 1
      /\ \A k \in 1 .. n : completed'[k] = completed[k]
      /\ completed'[n + 1] = d
  <2>1. d \in Blanked
    BY <1>1, <1>3, DedupWorks
  <2>2. QED
    BY <1>1, <1>4, <1>6, <2>1, AppendProperties, LenProperties
<1>8. Out' = Out /\ InHand' = InHand
  BY <1>4 DEF Out, InHand
<1>9. \A k \in 1 .. n : PathsOf(completed[k]) \subseteq visited
  BY <1>1, <1>7 DEF OnceInv
<1>10. \A k \in 1 .. n + 1 : k \in 1 .. n \/ k = n + 1
  OBVIOUS
<1>11. \A k \in DOMAIN completed' :
         /\ Distinct(completed'[k])
         /\ PathsOf(completed'[k]) \cap (Out \cup InHand) = {}
         /\ PathsOf(completed'[k]) \subseteq visited'
  <2>1. Out \cup InHand \subseteq visited
    BY <1>1 DEF OnceInv
  <2>2. SUFFICES ASSUME NEW k \in 1 .. n + 1
                 PROVE  /\ Distinct(completed'[k])
                        /\ PathsOf(completed'[k]) \cap (Out \cup InHand) = {}
                        /\ PathsOf(completed'[k]) \subseteq visited'
    BY <1>7
  <2>3. CASE k \in 1 .. n
    BY <1>4, <1>7, <1>9, <2>3 DEF OnceInv
  <2>4. CASE k = n + 1
    BY <1>4, <1>5, <1>7, <2>1, <2>4
  <2>5. QED
    BY <1>10, <2>3, <2>4
<1>12. \A k, l \in DOMAIN completed' :
         k # l => PathsOf(completed'[k]) \cap PathsOf(completed'[l]) = {}
  <2>1. SUFFICES ASSUME NEW k \in 1 .. n + 1, NEW l \in 1 .. n + 1, k # l
                 PROVE  PathsOf(completed'[k]) \cap PathsOf(completed'[l]) = {}
    BY <1>7
  <2>2. CASE k \in 1 .. n /\ l \in 1 .. n
    BY <1>7, <2>1, <2>2 DEF OnceInv
  <2>3. CASE k \in 1 .. n /\ l = n + 1
    BY <1>5, <1>7, <1>9, <2>3
  <2>4. CASE k = n + 1 /\ l \in 1 .. n
    BY <1>5, <1>7, <1>9, <2>4
  <2>5. QED
    BY <1>10, <2>1, <2>2, <2>3, <2>4
<1>13. QED
  BY <1>1, <1>4, <1>8, <1>11, <1>12 DEF OnceInv, MasterUp

\* The main thread deduplicates the batch itself, or takes a completed one.
LEMMA BatchKeepsOnce ==
  ASSUME BusTypes, OnceInv, RecvBatch \/ PollBatch
  PROVE  OnceInv'
<1>1. /\ visited \subseteq Paths /\ batch = None /\ MasterUp /\ MasterUp'
      /\ completed \in Seq(Blanked) /\ emitted' = emitted
  BY DEF BusTypes, BatchTypes, RecvBatch, Receive, PollBatch, Phase, MasterUp
<1>2. InHand = {} /\ Out' = Out
  BY <1>1 DEF InHand, Out
<1>3. CASE RecvBatch
  <2>1. PICK e : e = Head(retQ[cur]).arg
    OBVIOUS
  <2>2. CASE Len(poolQ) < PoolCap
    BY <1>1, <1>3, <2>2, OnceFrame DEF RecvBatch, Receive
  <2>3. CASE ~(Len(poolQ) < PoolCap)
    <3>1. /\ batch' = Dedup(e) /\ visited' = visited \cup ToSet(e) /\ completed' = completed
      BY <1>3, <2>1, <2>3 DEF RecvBatch, Receive
    <3>2. e \in Batches
      <4>1. retQ[cur] \in Seq(Reports) /\ retQ[cur] # <<>> /\ Head(retQ[cur]).type = "BATCH"
        BY <1>3 DEF RecvBatch, Receive, HeadIs, BusTypes, QueueTypes, MasterTypes
      <4>2. Head(retQ[cur]) \in Reports
        BY <4>1, Received
      <4>3. QED
        BY <2>1, <4>1, <4>2 DEF Reports, DataMsgs, CtrlMsgs
    <3>3. PICK d : d = Dedup(e)
      OBVIOUS
    <3>4. /\ Distinct(d) /\ PathsOf(d) \cap visited = {} /\ PathsOf(d) \subseteq ToSet(e)
      BY <1>1, <3>2, <3>3, FreshBatch
    <3>5. batch' = d /\ InHand' \subseteq PathsOf(d)
      BY <3>1, <3>3 DEF InHand
    <3>6. QED
      BY <1>1, <1>2, <3>1, <3>4, <3>5 DEF OnceInv
  <2>4. QED
    BY <2>2, <2>3
<1>4. CASE PollBatch
  <2>1. /\ completed # <<>> /\ batch' = Head(completed) /\ completed' = Tail(completed)
        /\ visited' = visited
    BY <1>4 DEF PollBatch
  <2>2. PICK n \in Nat : n = Len(completed)
    BY <1>1
  <2>3. /\ DOMAIN completed = 1 .. n /\ n >= 1 /\ batch' = completed[1]
        /\ DOMAIN completed' = 1 .. n - 1
        /\ \A k \in 1 .. n - 1 : completed'[k] = completed[k + 1]
    BY <1>1, <2>1, <2>2, EmptySeq, LenProperties, HeadTailProperties
  <2>4. InHand' \subseteq PathsOf(completed[1])
    BY <2>3 DEF InHand
  <2>5. \A k \in 1 .. n - 1 : k + 1 \in 1 .. n /\ k + 1 # 1
    BY <2>2
  <2>6. \A k, l \in 1 .. n - 1 : k # l => k + 1 # l + 1
    OBVIOUS
  <2>7. 1 \in 1 .. n
    BY <2>3
  <2>8. \A k \in DOMAIN completed' :
          /\ Distinct(completed'[k])
          /\ PathsOf(completed'[k]) \cap (Out \cup InHand') = {}
          /\ PathsOf(completed'[k]) \subseteq visited
    <3>1. SUFFICES ASSUME NEW k \in 1 .. n - 1
                   PROVE  /\ Distinct(completed[k + 1])
                          /\ PathsOf(completed[k + 1]) \cap (Out \cup InHand') = {}
                          /\ PathsOf(completed[k + 1]) \subseteq visited
      BY <2>3
    <3>2. /\ Distinct(completed[k + 1]) /\ PathsOf(completed[k + 1]) \cap Out = {}
          /\ PathsOf(completed[k + 1]) \subseteq visited
      BY <1>1, <2>3, <2>5 DEF OnceInv
    <3>3. PathsOf(completed[k + 1]) \cap PathsOf(completed[1]) = {}
      BY <2>3, <2>5, <2>7 DEF OnceInv
    <3>4. QED
      BY <2>4, <3>2, <3>3
  <2>9. \A k, l \in DOMAIN completed' :
          k # l => PathsOf(completed'[k]) \cap PathsOf(completed'[l]) = {}
    <3>1. SUFFICES ASSUME NEW k \in 1 .. n - 1, NEW l \in 1 .. n - 1, k # l
                   PROVE  PathsOf(completed[k + 1]) \cap PathsOf(completed[l + 1]) = {}
      BY <2>3
    <3>2. k + 1 \in DOMAIN completed /\ l + 1 \in DOMAIN completed /\ k + 1 # l + 1
      BY <2>3, <2>5, <2>6, <3>1
    <3>3. QED
      BY <3>2 DEF OnceInv
  <2>10. Distinct(batch') /\ Out \cap InHand' = {} /\ InHand' \subseteq visited
    BY <1>1, <2>3, <2>4, <2>7 DEF OnceInv
  <2>11. QED
    BY <1>1, <1>2, <2>1, <2>8, <2>9, <2>10 DEF OnceInv
<1>5. QED
  BY <1>3, <1>4

\* The entries of a batch are output, skipped or put among the lost tasks.
LEMMA EntryKeepsOnce ==
  ASSUME BusTypes, OnceInv,
         SkipEntry \/ \E p \in Paths : FileEntry(p) \/ DirEntry(p) \/ DirEntryWaits(p)
  PROVE  OnceInv'
<1>1. /\ batch # None /\ batch # <<>> /\ batch \in Blanked /\ emitted \in [Paths -> Nat]
      /\ batch' = Tail(batch) /\ completed' = completed /\ visited' = visited
      /\ MasterUp /\ mpc' = mpc
  BY DEF BusTypes, BatchTypes, SkipEntry, FileEntry, DirEntry, DirEntryWaits, Entry, poolVars
<1>2. /\ Distinct(Tail(batch)) /\ PathsOf(Tail(batch)) \subseteq PathsOf(batch)
      /\ \A p \in Paths : p = Head(batch) =>
           p \in PathsOf(batch) /\ p \notin PathsOf(Tail(batch))
  BY <1>1, RestOfBatch DEF OnceInv
<1>3. InHand = PathsOf(batch) /\ InHand' \subseteq PathsOf(Tail(batch))
  BY <1>1 DEF InHand
<1>4. CASE emitted' = emitted
  <2>1. Out' = Out
    BY <1>4 DEF Out
  <2>2. QED
    BY <1>1, <1>2, <1>3, <1>4, <2>1 DEF OnceInv, MasterUp
<1>5. ASSUME NEW p \in Paths, p = Head(batch), Emit(p) PROVE OnceInv'
  <2>1. p \in InHand /\ p \notin InHand' /\ InHand' \subseteq InHand
    BY <1>2, <1>3, <1>5
  <2>2. emitted[p] = 0
    <3>1. p \notin Out
      BY <2>1 DEF OnceInv
    <3>2. QED
      BY <1>1, <3>1 DEF Out
  <2>3. emitted' = [emitted EXCEPT ![p] = 1]
    BY <1>5, <2>2 DEF Emit
  <2>4. Out' = Out \cup {p} /\ \A q \in Paths : emitted'[q] <= 1
    BY <1>1, <2>3 DEF Out, OnceInv
  <2>5. QED
    BY <1>1, <1>2, <2>1, <2>4 DEF OnceInv, MasterUp
<1>6. QED
  BY <1>4, <1>5 DEF SkipEntry, FileEntry, DirEntry, DirEntryWaits, Entry

LEMMA OnceInit == Init => OnceInv
BY DEF Init, ContextInit, OnceInv, Out, InHand

\* Every other step leaves the batches alone.
LEMMA StepKeepsOnce == BusTypes /\ OnceInv /\ [Next]_vars => OnceInv'
<1> SUFFICES ASSUME BusTypes, OnceInv, [Next]_vars PROVE OnceInv'
  OBVIOUS
<1>1. CASE \E i \in 1 .. PoolThreads : PoolComplete(i)
  BY <1>1, CompleteKeepsOnce
<1>2. CASE RecvBatch \/ PollBatch
  BY <1>2, BatchKeepsOnce
<1>3. CASE SkipEntry \/ \E p \in Paths : FileEntry(p) \/ DirEntry(p) \/ DirEntryWaits(p)
  BY <1>3, EntryKeepsOnce
<1>4. CASE BatchEnd
  <2>1. /\ batch' = None /\ UNCHANGED <<completed, emitted, visited, mpc>>
    BY <1>4 DEF BatchEnd, poolVars
  <2>2. InHand' = {} /\ Out' = Out
    BY <2>1 DEF InHand, Out
  <2>3. QED
    BY <2>1, <2>2 DEF OnceInv, MasterUp
<1>5. CASE DestroyWorkers
  <2>1. ~MasterUp' /\ UNCHANGED <<batch, completed, emitted>>
    BY <1>5 DEF DestroyWorkers, MasterUp
  <2>2. InHand' = InHand /\ Out' = Out
    BY <2>1 DEF InHand, Out
  <2>3. QED
    BY <2>1, <2>2 DEF OnceInv
<1>6. CASE UNCHANGED vars \/ Terminated
  BY <1>6, OnceFrame DEF Terminated, vars, masterVars, poolVars, MasterUp
<1>7. CASE \/ RecvReady \/ RecvFinish \/ RecvDead \/ RecvDevTimeout \/ RecvExit \/ RecvDrop
           \/ RecvEnd
  <2>1. UNCHANGED <<batch, completed, emitted, visited>> /\ MasterUp
    BY <1>7 DEF RecvReady, RecvFinish, RecvDead, RecvDevTimeout, RecvExit, RecvDrop,
                RecvEnd, Receive, Phase, poolVars, MasterUp
  <2>2. QED
    BY <2>1, OnceFrame
<1>8. CASE PollEnd \/ Respawn \/ SpawnFails \/ ReplaceNone \/ DispatchLost \/ LostEnd
           \/ NextTurn \/ StopAll \/ Join
  <2>1. UNCHANGED <<batch, completed, emitted, visited>> /\ MasterUp
    BY <1>8 DEF PollEnd, Respawn, SpawnFails, ReplaceNone, DispatchLost, LostEnd, NextTurn,
                StopAll, Join, Phase, poolVars, MasterUp
  <2>2. QED
    BY <2>1, OnceFrame
<1>9. CASE PoolTake
  BY <1>9, OnceFrame DEF PoolTake, masterVars, MasterUp
<1>10. CASE \E s \in Slots : IpcStep(s) \/ TimeoutKill(s)
  <2>1. /\ UNCHANGED <<batch, emitted>> /\ UNCHANGED poolVars
        /\ mpc' = mpc \/ mpc' = "killed"
    BY <1>10 DEF IpcStep, HandleCmd, Replace, DropScan, ForwardScan, RetryScan, PushBack,
                 GiveUpScan, BrokenPipe, Stop, ReadData, ReadCtrl, ReadExit, HangUp,
                 TimeoutKill, masterVars
  <2>2. QED
    BY <2>1, OnceFrame DEF poolVars, MasterUp
<1>11. CASE \E w \in Workers : WorkerMain(w) \/ Scanner(w) \/ WorkerFault(w)
  <2>1. UNCHANGED <<masterVars, poolVars>>
    BY <1>11 DEF WorkerMain, Scanner, WorkerFault, SendReady, ReadScan, ReadStop, SendExit,
                 ExitProcess, Orphaned, TakeTask, SendBatch, SendFinish, Quit, DevTimeout,
                 Crash, others
  <2>2. QED
    BY <2>1, OnceFrame DEF masterVars, poolVars, MasterUp
<1>12. QED
  BY <1>1, <1>2, <1>3, <1>4, <1>5, <1>6, <1>7, <1>8, <1>9, <1>10, <1>11
     DEF Next, MainStep, Recv, Process, PoolStep

\* However often a directory is scanned again after a failure, and however many
\* threads deduplicate its batches, no path is output twice.
THEOREM NoPathTwice == Spec => []EmittedOnce
<1>1. Init => BusTypes /\ OnceInv
  BY InitTypes, OnceInit
<1>2. (BusTypes /\ OnceInv) /\ [Next]_vars => (BusTypes /\ OnceInv)'
  BY StepKeepsTypes, StepKeepsOnce
<1>3. OnceInv => EmittedOnce
  BY DEF OnceInv, EmittedOnce
<1>4. QED
  BY <1>1, <1>2, <1>3, PTL DEF Spec, SafeSpec

-----------------------------------------------------------------------------
(* While no fault happens, the counters cover the work.  A task is counted *)
(* where it is: as a SCAN, in a hand, in the mailbox, at the scanner, as a *)
(* FINISH or a DROP.                                                       *)

\* The messages of a type, when one is sent or received.
LEMMA Counts ==
  ASSUME NEW S, NEW q \in Seq(S), NEW t
  PROVE  /\ Count(t, q) \in Nat
         /\ \A m \in S :
              Count(t, Append(q, m)) = IF m.type = t THEN Count(t, q) + 1 ELSE Count(t, q)
         /\ q # <<>> =>
              Count(t, q) = IF Head(q).type = t THEN Count(t, Tail(q)) + 1
                                                ELSE Count(t, Tail(q))
<1> DEFINE At(x) == {i \in DOMAIN x : x[i].type = t}
<1>1. Len(q) \in Nat /\ DOMAIN q = 1 .. Len(q)
  BY LenProperties
<1>2. IsFiniteSet(1 .. Len(q)) /\ IsFiniteSet(At(q)) /\ Cardinality(At(q)) \in Nat
  <2>1. IsFiniteSet(1 .. Len(q))
    BY <1>1, FS_Interval
  <2>2. At(q) \subseteq 1 .. Len(q)
    BY <1>1
  <2>3. IsFiniteSet(At(q))
    BY <2>1, <2>2, FS_Subset
  <2>4. QED
    BY <2>1, <2>3, FS_CardinalityType
<1>3. ASSUME NEW m \in S
      PROVE  Cardinality(At(Append(q, m)))
               = IF m.type = t THEN Cardinality(At(q)) + 1 ELSE Cardinality(At(q))
  <2>1. PICK r : r = Append(q, m)
    OBVIOUS
  <2>2. PICK n \in Nat : n = Len(q)
    BY <1>1
  <2>3. /\ DOMAIN r = 1 .. n + 1 /\ r[n + 1] = m
        /\ \A i \in 1 .. n : r[i] = q[i]
    <3>1. r \in Seq(S) /\ Len(r) = Len(q) + 1 /\ r[Len(q) + 1] = m
          /\ \A i \in 1 .. Len(q) : r[i] = q[i]
      BY <2>1, AppendProperties
    <3>2. DOMAIN r = 1 .. Len(r)
      BY <3>1, LenProperties
    <3>3. QED
      BY <2>2, <3>1, <3>2
  <2>4. \A i \in 1 .. n + 1 : i \in 1 .. n \/ i = n + 1
    BY <2>2
  <2>5. n + 1 \notin 1 .. n
    BY <2>2
  <2>6. DOMAIN q = 1 .. n /\ \A i \in 1 .. n : i \in 1 .. n + 1
    BY <1>1, <2>2
  <2>7. CASE m.type = t
    <3>1. \A i : i \in At(r) <=> i \in At(q) \/ i = n + 1
      BY <2>3, <2>4, <2>6, <2>7
    <3>2. n + 1 \notin At(q)
      BY <2>5, <2>6
    <3>3. At(r) = At(q) \cup {n + 1}
      BY <3>1
    <3>4. Cardinality(At(r)) = Cardinality(At(q)) + 1
      BY <1>2, <3>2, <3>3, FS_AddElement
    <3>5. QED
      BY <2>1, <2>7, <3>4
  <2>8. CASE m.type # t
    <3>1. \A i : i \in At(r) <=> i \in At(q)
      BY <2>3, <2>4, <2>6, <2>8
    <3>2. At(r) = At(q)
      BY <3>1
    <3>3. QED
      BY <2>1, <2>8, <3>2
  <2>9. QED
    BY <2>7, <2>8
<1>4. ASSUME q # <<>>
      PROVE  Cardinality(At(q)) = IF Head(q).type = t THEN Cardinality(At(Tail(q))) + 1
                                                      ELSE Cardinality(At(Tail(q)))
  <2>1. PICK r : r = Tail(q)
    OBVIOUS
  <2>2. PICK n \in Nat : n = Len(q) /\ n >= 1
    <3>1. Len(q) # 0
      BY <1>4, EmptySeq
    <3>2. PICK m \in Nat : m = Len(q)
      BY <1>1
    <3>3. m >= 1
      BY <3>1, <3>2
    <3>4. QED
      BY <3>2, <3>3
  <2>3. /\ DOMAIN r = 1 .. n - 1 /\ Head(q) = q[1]
        /\ \A i \in 1 .. n - 1 : r[i] = q[i + 1]
    <3>1. r \in Seq(S) /\ Len(r) = Len(q) - 1 /\ \A i \in 1 .. Len(r) : r[i] = q[i + 1]
      BY <1>4, <2>1, HeadTailProperties
    <3>2. DOMAIN r = 1 .. Len(r)
      BY <3>1, LenProperties
    <3>3. QED
      BY <2>2, <3>1, <3>2
  <2> DEFINE f == [i \in At(r) |-> i + 1]
  <2>4. IsFiniteSet(At(r))
    <3>1. IsFiniteSet(1 .. n - 1) /\ At(r) \subseteq 1 .. n - 1
      BY <2>3, FS_Interval
    <3>2. QED
      BY <3>1, FS_Subset
  <2>5. f \in Bijection(At(r), At(q) \ {1})
    <3>1. \A i \in 1 .. n - 1 : i \in Nat /\ i + 1 \in 1 .. n /\ i + 1 # 1
      BY <2>2
    <3>2. \A i \in At(r) : i + 1 \in At(q) \ {1}
      BY <1>1, <2>2, <2>3, <3>1
    <3>3. \A j \in At(q) \ {1} : \E i \in At(r) : j = i + 1
      <4>1. SUFFICES ASSUME NEW j \in At(q) \ {1} PROVE j - 1 \in At(r) /\ j = (j - 1) + 1
        OBVIOUS
      <4>2. j \in 1 .. n /\ j # 1
        BY <1>1, <2>2
      <4>3. j - 1 \in 1 .. n - 1 /\ j = (j - 1) + 1
        BY <2>2, <4>2
      <4>4. r[j - 1] = q[j]
        BY <2>3, <4>3
      <4>5. QED
        BY <2>3, <4>3, <4>4
    <3>4. \A i, j \in At(r) : i + 1 = j + 1 => i = j
      BY <2>3, <3>1
    <3>5. QED
      BY <3>2, <3>3, <3>4 DEF Bijection, Injection, Surjection, IsInjective
  <2>6. Cardinality(At(r)) = Cardinality(At(q) \ {1})
    <3>1. ExistsBijection(At(r), At(q) \ {1})
      BY <2>5 DEF ExistsBijection
    <3>2. QED
      BY <2>4, <3>1, FS_Bijection
  <2>7. 1 \in At(q) <=> Head(q).type = t
    BY <1>1, <2>2, <2>3
  <2>8. CASE Head(q).type = t
    <3>1. Cardinality(At(q) \ {1}) = Cardinality(At(q)) - 1
      BY <1>2, <2>7, <2>8, FS_RemoveElement
    <3>2. Cardinality(At(q)) = Cardinality(At(r)) + 1
      BY <1>2, <2>6, <3>1
    <3>3. QED
      BY <2>1, <2>8, <3>2
  <2>9. CASE Head(q).type # t
    <3>1. At(q) \ {1} = At(q)
      BY <2>7, <2>9
    <3>2. Cardinality(At(r)) = Cardinality(At(q))
      BY <2>6, <3>1
    <3>3. QED
      BY <2>1, <2>9, <3>2
  <2>10. QED
    BY <2>8, <2>9
<1>5. QED
  BY <1>2, <1>3, <1>4 DEF Count

LEMMA NoCount == \A t : Count(t, <<>>) = 0
BY FS_EmptySet DEF Count

\* What Send adds at most.
LEMMA CountSend ==
  ASSUME NEW S, NEW q \in Seq(S), NEW m \in S, NEW t
  PROVE  /\ Count(t, Send(q, m)) \in Nat
         /\ Count(t, Send(q, m)) <= IF m.type = t THEN Count(t, q) + 1 ELSE Count(t, q)
<1>1. Count(t, q) \in Nat
  BY Counts
<1>2. Count(t, Append(q, m)) = IF m.type = t THEN Count(t, q) + 1 ELSE Count(t, q)
  BY Counts
<1>3. CASE Len(q) < QueueCap
  BY <1>1, <1>2, <1>3 DEF Send
<1>4. CASE ~(Len(q) < QueueCap)
  BY <1>1, <1>4 DEF Send
<1>5. QED
  BY <1>3, <1>4

Has(p) == IF p = None THEN 0 ELSE 1

\* The tasks a worker process has, and those of a slot.
AtWorker(w) ==
  IF ~worker[w].up THEN 0
  ELSE Count("SCAN", cmdPipe[w]) + Count("FINISH", ctrlPipe[w])
         + Has(worker[w].mail) + Has(worker[w].task)

Load(s) ==
  Count("SCAN", cmdQ[s]) + Has(ipc[s].hand) + Count("DROP", retQ[s])
    + Count("FINISH", retQ[s]) + AtWorker(<<s, 1>>)

\* The loop goes on.
Scanning == mpc \in {"recv", "batch", "replace", "lost", "check"}

\* While no fault happens no slot loses its worker, and until the end no worker is
\* told to stop or gives up.
Replies == [type : {"READY", "FINISH"}, arg : {None}]
QuietReports ==
  DataMsgs \cup Replies \cup [type : {"DEAD"}, arg : {None}] \cup [type : {"DROP"}, arg : Dirs]

Quiet ==
  /\ \A s \in Slots : slot[s].alive /\ slot[s].pid = 1 /\ slot[s].state # "DEAD"
  /\ \A w \in Workers : worker[w].up => w[2] = 1

QuietPipes ==
  Scanning =>
    /\ \A s \in Slots : retQ[s] \in Seq(QuietReports)
    /\ \A w \in Workers :
         /\ ctrlPipe[w] \in Seq(Replies)
         /\ cmdPipe[w] \in Seq([type : {"SCAN"}, arg : Dirs])
         /\ ~worker[w].stop /\ ~worker[w].exited

\* What a slot owes to pending_tasks: no less than its load, and a task while it is
\* BUSY, or before slot 0 has its first READY.
Bound(s) == slot[s].state = "BUSY" \/ (s = 0 /\ slot[s].state = "INITIALIZING")

Owed(owed) ==
  /\ owed \in [Slots -> Nat] /\ pendingTasks = Total(owed, Slots)
  /\ \A s \in Slots : Load(s) <= owed[s] /\ (Bound(s) => owed[s] > 0)

TasksOwed == \E owed : Owed(owed)

BatchesCounted == pendingBatches = BatchesInHand

\* Where the loop decides, a lost task means that nobody is idle.
LostWaits == mpc = "check" => batch = None /\ (lost # <<>> => NoneIdle)

Over == mpc \in {"stopping", "joined", "done"}

NothingPending == Over => pendingTasks = 0 /\ pendingBatches = 0 /\ lost = <<>>

\* An inductive invariant of the steps that are no faults.
QuietInv ==
  Quiet /\ QuietPipes /\ TasksOwed /\ BatchesCounted /\ LostWaits /\ NothingPending

LEMMA LoadNat ==
  ASSUME BusTypes
  PROVE  /\ \A s \in Slots :
              /\ Load(s) \in Nat /\ Has(ipc[s].hand) \in Nat
              /\ \A t : Count(t, cmdQ[s]) \in Nat /\ Count(t, retQ[s]) \in Nat
         /\ \A w \in Workers :
              /\ AtWorker(w) \in Nat
              /\ Has(worker[w].mail) \in Nat /\ Has(worker[w].task) \in Nat
              /\ \A t : Count(t, cmdPipe[w]) \in Nat /\ Count(t, ctrlPipe[w]) \in Nat
                                      /\ Count(t, ctrlPipe[w]) \in Nat
<1>1. \A p : Has(p) \in Nat
  BY DEF Has
<1>2. \A t : \A s \in Slots : Count(t, cmdQ[s]) \in Nat /\ Count(t, retQ[s]) \in Nat
  BY Counts DEF BusTypes, QueueTypes
<1>3. \A t : \A w \in Workers : Count(t, cmdPipe[w]) \in Nat /\ Count(t, ctrlPipe[w]) \in Nat
  BY Counts DEF BusTypes, ProcessTypes
<1>4. \A w \in Workers : AtWorker(w) \in Nat
  <2>1. SUFFICES ASSUME NEW w \in Workers PROVE AtWorker(w) \in Nat
    OBVIOUS
  <2>2. Count("SCAN", cmdPipe[w]) \in Nat /\ Count("FINISH", ctrlPipe[w]) \in Nat
    BY <1>3
  <2>3. Has(worker[w].mail) \in Nat /\ Has(worker[w].task) \in Nat
    BY <1>1
  <2>4. QED
    BY <2>2, <2>3 DEF AtWorker
<1>5. \A s \in Slots : <<s, 1>> \in Workers
  BY Sizes DEF Workers
<1>6. \A s \in Slots : Load(s) \in Nat
  <2>1. SUFFICES ASSUME NEW s \in Slots PROVE Load(s) \in Nat
    OBVIOUS
  <2>2. AtWorker(<<s, 1>>) \in Nat
    BY <1>4, <1>5
  <2>3. Count("SCAN", cmdQ[s]) \in Nat /\ Has(ipc[s].hand) \in Nat
    BY <1>1, <1>2
  <2>4. Count("DROP", retQ[s]) \in Nat /\ Count("FINISH", retQ[s]) \in Nat
    BY <1>2
  <2>5. QED
    BY <2>2, <2>3, <2>4 DEF Load
<1>7. QED
  BY <1>1, <1>2, <1>3, <1>4, <1>6

\* The work in flight for a slot is its load: only its first worker was started.
LEMMA InFlightIsLoad ==
  ASSUME BusTypes, Quiet, NEW s \in Slots
  PROVE  InFlight(s) = Load(s)
<1> DEFINE at(n) == AtWorker(<<s, n>>)
           S == 1 .. MaxInc
<1>1. PICK f : f = [n \in S |-> at(n)]
  OBVIOUS
<1>2. f \in [S -> Nat] /\ 1 \in S /\ IsFiniteSet(S) /\ f[1] = at(1)
      /\ \A n \in S : n # 1 => f[n] = 0
  <2>1. 1 \in S /\ IsFiniteSet(S)
    BY Sizes, FS_Interval
  <2>2. \A n \in S : <<s, n>> \in Workers
    BY DEF Workers
  <2>3. \A n \in S : n # 1 => at(n) = 0
    <3>1. \A n \in S : n # 1 => ~worker[<<s, n>>].up
      BY <2>2 DEF Quiet
    <3>2. QED
      BY <3>1 DEF AtWorker
  <2>4. \A n \in S : at(n) \in Nat
    BY <2>2, LoadNat
  <2>5. QED
    BY <1>1, <2>1, <2>3, <2>4
<1> DEFINE eq(h) == h = [B \in SUBSET S |->
                            IF B = {} THEN 0
                            ELSE at(CHOOSE x \in B : TRUE) + h[B \ {CHOOSE x \in B : TRUE}]]
<1>3. \A h : Sums(h, f, SUBSET S) <=> eq(h)
  BY <1>1 DEF Sums
<1>4. \E h : eq(h)
  BY <1>2, <1>3, FoldExists
<1> DEFINE h == CHOOSE g : eq(g)
<1>5. MapThenSumSet(at, S) = h[S]
  BY DEF MapThenSumSet, MapThenFoldSet
<1>6. eq(h)
  BY <1>4
<1>7. Sums(h, f, SUBSET S)
  BY <1>3, <1>6
<1>8. h[S] = at(1)
  <2> HIDE DEF h, at, S
  <2>1. QED
    BY <1>2, <1>7, SumsOnly
<1>9. InFlight(s) = Count("SCAN", cmdQ[s]) + Has(ipc[s].hand) + Count("DROP", retQ[s])
                      + Count("FINISH", retQ[s]) + MapThenSumSet(at, S)
  BY DEF InFlight, AtWorker, Has
<1>10. QED
  BY <1>5, <1>8, <1>9 DEF Load

\* Outstanding as a sum, and what bounds it.
LEMMA OutstandingCovered ==
  ASSUME BusTypes, Quiet, TasksOwed
  PROVE  /\ Outstanding \in Nat /\ pendingTasks \in Nat /\ Outstanding <= pendingTasks
         /\ \A s \in Slots : Bound(s) => pendingTasks > 0
<1>1. PICK owed \in [Slots -> Nat] :
        pendingTasks = Total(owed, Slots)
        /\ \A s \in Slots : Load(s) <= owed[s] /\ (Bound(s) => owed[s] > 0)
  BY DEF TasksOwed, Owed
<1>2. IsFiniteSet(Slots)
  BY Sizes, FS_Interval
<1>3. PICK g : Sums(g, owed, SUBSET Slots) /\ pendingTasks = g[Slots]
  BY <1>1, <1>2, TotalIsSum
<1>4. PICK f : f = [s \in Slots |-> InFlight(s)]
  OBVIOUS
<1>5. f \in [Slots -> Nat] /\ \A s \in Slots : f[s] <= owed[s]
  <2>1. \A s \in Slots : InFlight(s) = Load(s)
    BY InFlightIsLoad
  <2>2. \A s \in Slots : Load(s) \in Nat
    BY LoadNat
  <2>3. QED
    BY <1>1, <1>4, <2>1, <2>2
<1> DEFINE eq(h) == h = [B \in SUBSET Slots |->
                      IF B = {} THEN 0
                      ELSE InFlight(CHOOSE x \in B : TRUE) + h[B \ {CHOOSE x \in B : TRUE}]]
<1>6. \A h : Sums(h, f, SUBSET Slots) <=> eq(h)
  BY <1>4 DEF Sums
<1>7. \E h : eq(h)
  <2>1. PICK k : Sums(k, f, SUBSET Slots)
    BY <1>2, FoldExists
  <2> HIDE DEF eq
  <2>2. QED
    BY <1>6, <2>1
<1> DEFINE h == CHOOSE g1 : eq(g1)
<1>8. Outstanding = h[Slots]
  BY DEF Outstanding, MapThenSumSet, MapThenFoldSet
<1>9. Sums(h, f, SUBSET Slots)
  BY <1>6, <1>7
<1>10. h[Slots] \in Nat /\ g[Slots] \in Nat /\ h[Slots] <= g[Slots]
  <2> HIDE DEF h
  <2>1. QED
    BY <1>1, <1>2, <1>3, <1>5, <1>9, SumsGrow
<1>11. ASSUME NEW s \in Slots, Bound(s) PROVE pendingTasks > 0
  <2>1. PICK e : e = [x \in Slots |-> IF x = s THEN owed[s] ELSE 0]
    OBVIOUS
  <2>2. /\ e \in [Slots -> Nat] /\ e[s] = owed[s] /\ \A x \in Slots : x # s => e[x] = 0
        /\ \A x \in Slots : e[x] <= owed[x]
    BY <2>1
  <2>3. PICK k : Sums(k, e, SUBSET Slots)
    BY <1>2, FoldExists
  <2>4. k[Slots] = owed[s]
    BY <1>2, <2>2, <2>3, SumsOnly
  <2>5. k[Slots] <= g[Slots]
    BY <1>1, <1>2, <1>3, <2>2, <2>3, SumsGrow
  <2>6. owed[s] \in Nat /\ owed[s] > 0
    BY <1>1, <1>11
  <2>7. QED
    BY <1>3, <1>10, <2>4, <2>5, <2>6
<1>12. QED
  BY <1>3, <1>8, <1>10, <1>11

\* Who changes no more than a worker's load and its pipes keeps the counter.
LEMMA TasksFrame ==
  ASSUME TasksOwed, UNCHANGED pendingTasks,
         \A s \in Slots :
           /\ Load(s) \in Nat /\ Load(s)' \in Nat /\ Load(s)' <= Load(s)
           /\ Bound(s)' => Bound(s)
  PROVE  TasksOwed'
<1>1. PICK owed \in [Slots -> Nat] :
        pendingTasks = Total(owed, Slots)
        /\ \A s \in Slots : Load(s) <= owed[s] /\ (Bound(s) => owed[s] > 0)
  BY DEF TasksOwed, Owed
<1>2. \A s \in Slots : Load(s)' <= owed[s] /\ (Bound(s)' => owed[s] > 0)
  <2>1. SUFFICES ASSUME NEW s \in Slots
                 PROVE  Load(s)' <= owed[s] /\ (Bound(s)' => owed[s] > 0)
    OBVIOUS
  <2>2. PICK a \in Nat : a = Load(s)
    OBVIOUS
  <2>3. PICK b \in Nat : b = Load(s)'
    OBVIOUS
  <2>4. PICK o \in Nat : o = owed[s]
    OBVIOUS
  <2>5. b <= a /\ a <= o
    BY <1>1, <2>2, <2>3, <2>4
  <2>6. b <= o
    BY <2>5
  <2>7. QED
    BY <1>1, <2>3, <2>4, <2>6
<1>3. pendingTasks' = Total(owed, Slots)
  BY <1>1
<1>4. QED
  BY <1>2, <1>3 DEF TasksOwed, Owed

\* A worker moves its tasks on: none appears.
LEMMA WorkerLoad ==
  ASSUME BusTypes, NEW w \in Workers, WorkerMain(w) \/ Scanner(w)
  PROVE  \A v \in Workers : AtWorker(v)' <= AtWorker(v)
<1>1. /\ worker \in [Workers -> Processes] /\ worker[w] \in Processes
      /\ cmdPipe \in [Workers -> Seq(PipeCommands)] /\ cmdPipe[w] \in Seq(PipeCommands)
      /\ ctrlPipe \in [Workers -> Seq(CtrlMsgs)] /\ ctrlPipe[w] \in Seq(CtrlMsgs)
  BY DEF BusTypes, ProcessTypes
<1>2. \A v \in Workers : v # w =>
        /\ worker'[v] = worker[v] /\ cmdPipe'[v] = cmdPipe[v] /\ ctrlPipe'[v] = ctrlPipe[v]
  BY <1>1 DEF WorkerMain, Scanner, SendReady, ReadScan, ReadStop, SendExit, ExitProcess,
              Orphaned, TakeTask, SendBatch, SendFinish, TryCtrl, Die, DieAll
<1>3. PICK c \in Nat : c = Count("SCAN", cmdPipe[w])
  BY <1>1, Counts
<1>4. PICK x \in Nat : x = Count("FINISH", ctrlPipe[w])
  BY <1>1, Counts
<1>5. AtWorker(w) = IF ~worker[w].up THEN 0
                    ELSE c + x + Has(worker[w].mail) + Has(worker[w].task)
  BY <1>3, <1>4 DEF AtWorker
<1>6. \A t \in {"READY", "EXIT"} : TryCtrl(w, t) => Count("FINISH", ctrlPipe'[w]) = x
  <2>1. SUFFICES ASSUME NEW t \in {"READY", "EXIT"}, TryCtrl(w, t)
                 PROVE  Count("FINISH", ctrlPipe'[w]) = x
    OBVIOUS
  <2>2. Msg(t, None) \in CtrlMsgs /\ Msg(t, None).type # "FINISH"
    BY <2>1 DEF Msg, CtrlMsgs
  <2>3. Count("FINISH", Append(ctrlPipe[w], Msg(t, None))) = x
    BY <1>1, <1>4, <2>2, Counts
  <2>4. QED
    BY <1>1, <1>4, <2>1, <2>3 DEF TryCtrl
<1>7. AtWorker(w)' <= AtWorker(w)
  <2>1. CASE SendReady(w) \/ SendExit(w)
    <3>1. /\ worker'[w].up = worker[w].up /\ worker'[w].mail = worker[w].mail
          /\ worker'[w].task = worker[w].task /\ cmdPipe' = cmdPipe
      BY <1>1, <2>1 DEF SendReady, SendExit, Processes
    <3>2. Count("FINISH", ctrlPipe'[w]) = x
      BY <1>6, <2>1 DEF SendReady, SendExit
    <3>3. AtWorker(w)' = AtWorker(w)
      BY <1>3, <1>5, <3>1, <3>2 DEF AtWorker
    <3>4. QED
      BY <3>3, LoadNat
  <2>2. CASE ReadScan(w)
    <3>1. /\ Head(cmdPipe[w]) \in PipeCommands /\ Head(cmdPipe[w]).type = "SCAN"
          /\ cmdPipe[w] # <<>>
      BY <1>1, <2>2, Received DEF ReadScan, HeadIs
    <3>2. Count("SCAN", Tail(cmdPipe[w])) \in Nat /\ c = Count("SCAN", Tail(cmdPipe[w])) + 1
      <4>1. Tail(cmdPipe[w]) \in Seq(PipeCommands)
        BY <1>1, <3>1, Received
      <4>2. QED
        BY <1>1, <1>3, <3>1, <4>1, Counts
    <3>3. /\ worker'[w].up = worker[w].up /\ worker'[w].task = worker[w].task
          /\ cmdPipe'[w] = Tail(cmdPipe[w]) /\ ctrlPipe' = ctrlPipe
      BY <1>1, <2>2 DEF ReadScan, Processes
    <3>4. PICK d \in Nat : d = Count("SCAN", cmdPipe'[w])
      BY <3>2, <3>3
    <3>5. c = d + 1
      BY <3>2, <3>3, <3>4
    <3>6. AtWorker(w)' = IF ~worker[w].up THEN 0
                         ELSE d + x + Has(worker'[w].mail) + Has(worker[w].task)
      BY <1>4, <3>3, <3>4 DEF AtWorker
    <3>7. Has(worker'[w].mail) \in {0, 1} /\ Has(worker[w].mail) \in {0, 1}
          /\ Has(worker[w].task) \in {0, 1}
      BY DEF Has
    <3>8. QED
      BY <1>5, <3>5, <3>6, <3>7
  <2>3. CASE ReadStop(w)
    <3>1. /\ Head(cmdPipe[w]) \in PipeCommands /\ Head(cmdPipe[w]).type = "STOP"
          /\ cmdPipe[w] # <<>>
      BY <1>1, <2>3, Received DEF ReadStop, HeadIs
    <3>2. c = Count("SCAN", Tail(cmdPipe[w]))
      BY <1>1, <1>3, <3>1, Counts
    <3>3. /\ worker'[w].up = worker[w].up /\ worker'[w].task = worker[w].task
          /\ worker'[w].mail = worker[w].mail
          /\ cmdPipe'[w] = Tail(cmdPipe[w]) /\ ctrlPipe' = ctrlPipe
      BY <1>1, <2>3 DEF ReadStop, Processes
    <3>4. AtWorker(w)' = AtWorker(w)
      BY <1>4, <1>5, <3>2, <3>3 DEF AtWorker
    <3>5. QED
      BY <3>4, LoadNat
  <2>4. CASE ExitProcess(w) \/ Orphaned(w)
    <3>1. ~worker'[w].up
      BY <1>1, <2>4 DEF ExitProcess, Orphaned, Die, DieAll, NoProcess
    <3>2. AtWorker(w)' = 0
      BY <3>1 DEF AtWorker
    <3>3. QED
      BY <3>2, LoadNat
  <2>5. CASE TakeTask(w)
    <3>1. /\ worker'[w].up = worker[w].up /\ worker'[w].task = worker[w].mail
          /\ worker'[w].mail = None /\ worker[w].task = None
          /\ cmdPipe' = cmdPipe /\ ctrlPipe' = ctrlPipe
      BY <1>1, <2>5 DEF TakeTask, Processes
    <3>2. Has(worker[w].task) = 0 /\ Has(worker'[w].mail) = 0
          /\ Has(worker'[w].task) = Has(worker[w].mail) /\ Has(worker[w].mail) \in Nat
      BY <3>1 DEF Has
    <3>3. AtWorker(w)' = AtWorker(w)
      BY <1>3, <1>4, <1>5, <3>1, <3>2 DEF AtWorker
    <3>4. QED
      BY <3>3, LoadNat
  <2>6. CASE SendBatch(w)
    <3>1. /\ worker'[w].up = worker[w].up /\ worker'[w].task = worker[w].task
          /\ worker'[w].mail = worker[w].mail /\ cmdPipe' = cmdPipe /\ ctrlPipe' = ctrlPipe
      BY <1>1, <2>6 DEF SendBatch, Processes
    <3>2. AtWorker(w)' = AtWorker(w)
      BY <3>1 DEF AtWorker
    <3>3. QED
      BY <3>2, LoadNat
  <2>7. CASE SendFinish(w)
    <3>1. /\ worker'[w].up = worker[w].up /\ worker'[w].task = None
          /\ worker'[w].mail = worker[w].mail /\ worker[w].task # None
          /\ cmdPipe' = cmdPipe /\ ctrlPipe'[w] = Append(ctrlPipe[w], Msg("FINISH", None))
      BY <1>1, <2>7 DEF SendFinish, Processes
    <3>2. Msg("FINISH", None) \in CtrlMsgs /\ Msg("FINISH", None).type = "FINISH"
      BY DEF Msg, CtrlMsgs
    <3>3. Count("FINISH", ctrlPipe'[w]) = x + 1
      BY <1>1, <1>4, <3>1, <3>2, Counts
    <3>4. Has(worker[w].task) = 1 /\ Has(worker'[w].task) = 0 /\ Has(worker[w].mail) \in Nat
      BY <3>1 DEF Has
    <3>5. AtWorker(w)' = AtWorker(w)
      BY <1>3, <1>5, <3>1, <3>3, <3>4 DEF AtWorker
    <3>6. QED
      BY <3>5, LoadNat
  <2>8. QED
    BY <2>1, <2>2, <2>3, <2>4, <2>5, <2>6, <2>7 DEF WorkerMain, Scanner
<1>8. \A v \in Workers : v # w => AtWorker(v)' = AtWorker(v)
  BY <1>2 DEF AtWorker
<1>9. QED
  BY <1>7, <1>8, LoadNat

\* A worker that was not told to stop does not stop.
LEMMA WorkerKeepsQuiet ==
  ASSUME BusTypes, Quiet, QuietPipes, NEW w \in Workers, WorkerMain(w) \/ Scanner(w)
  PROVE  Quiet' /\ QuietPipes'
<1>1. /\ worker \in [Workers -> Processes]
      /\ cmdPipe \in [Workers -> Seq(PipeCommands)]
      /\ ctrlPipe \in [Workers -> Seq(CtrlMsgs)]
  BY DEF BusTypes, ProcessTypes
<1>2. UNCHANGED <<slot, mpc, retQ>>
  BY DEF WorkerMain, Scanner, SendReady, ReadScan, ReadStop, SendExit, ExitProcess,
         Orphaned, TakeTask, SendBatch, SendFinish, others, masterVars
<1>3. \A v \in Workers : worker'[v].up => worker[v].up
  <2>1. CASE ExitProcess(w) \/ Orphaned(w)
    BY <1>1, <2>1 DEF ExitProcess, Orphaned, Die, DieAll, NoProcess
  <2>2. CASE SendReady(w) \/ ReadScan(w) \/ ReadStop(w) \/ SendExit(w)
    BY <1>1, <2>2, ZenonT(60) DEF SendReady, ReadScan, ReadStop, SendExit, Processes
  <2>3. CASE TakeTask(w)
    BY <1>1, <2>3 DEF TakeTask, Processes
  <2>4. CASE SendBatch(w)
    BY <1>1, <2>4 DEF SendBatch, Processes
  <2>5. CASE SendFinish(w)
    BY <1>1, <2>5 DEF SendFinish, Processes
  <2>6. QED
    BY <2>1, <2>2, <2>3, <2>4, <2>5 DEF WorkerMain, Scanner
<1>4. Quiet'
  BY <1>2, <1>3 DEF Quiet
<1>5. ASSUME Scanning' PROVE /\ \A s \in Slots : retQ'[s] \in Seq(QuietReports)
                             /\ \A v \in Workers :
                                  /\ ctrlPipe'[v] \in Seq(Replies)
                                  /\ cmdPipe'[v] \in Seq([type : {"SCAN"}, arg : Dirs])
                                  /\ ~worker'[v].stop /\ ~worker'[v].exited
  <2> DEFINE Scans == [type : {"SCAN"}, arg : Dirs]
  <2>1. Scanning
    BY <1>2, <1>5 DEF Scanning
  <2>2. /\ \A s \in Slots : retQ[s] \in Seq(QuietReports)
        /\ \A v \in Workers :
             /\ ctrlPipe[v] \in Seq(Replies) /\ cmdPipe[v] \in Seq(Scans)
             /\ ~worker[v].stop /\ ~worker[v].exited
    BY <2>1 DEF QuietPipes
  <2>3. \A t \in {"READY", "FINISH"} : Append(ctrlPipe[w], Msg(t, None)) \in Seq(Replies)
    <3>1. \A t \in {"READY", "FINISH"} : Msg(t, None) \in Replies
      BY DEF Msg, Replies
    <3>2. QED
      BY <2>2, <3>1, Sent
  <2>4. ~SendExit(w) /\ ~ExitProcess(w) /\ ~ReadStop(w)
    <3>1. cmdPipe[w] # <<>> => Head(cmdPipe[w]) \in Scans
      <4> HIDE DEF Scans
      <4>1. QED
        BY <2>2, Received
    <3>2. QED
      BY <2>2, <3>1 DEF SendExit, ExitProcess, ReadStop, HeadIs
  <2>5. CASE SendReady(w)
    <3>1. /\ worker'[w].stop = worker[w].stop /\ worker'[w].exited = worker[w].exited
          /\ ctrlPipe'[w] \in Seq(Replies) /\ cmdPipe' = cmdPipe
          /\ \A v \in Workers : v # w => worker'[v] = worker[v] /\ ctrlPipe'[v] = ctrlPipe[v]
      BY <1>1, <2>2, <2>3, <2>5 DEF SendReady, TryCtrl, Processes
    <3>2. QED
      BY <1>2, <2>2, <3>1
  <2>6. CASE ReadScan(w)
    <3>1. Tail(cmdPipe[w]) \in Seq(Scans)
      BY <2>2, <2>6, Received DEF ReadScan, HeadIs
    <3>2. /\ worker'[w].stop = worker[w].stop /\ worker'[w].exited = worker[w].exited
          /\ cmdPipe'[w] \in Seq(Scans) /\ ctrlPipe' = ctrlPipe
          /\ \A v \in Workers : v # w => worker'[v] = worker[v] /\ cmdPipe'[v] = cmdPipe[v]
      BY <1>1, <2>6, <3>1 DEF ReadScan, Processes
    <3>3. QED
      BY <1>2, <2>2, <3>2
  <2>7. CASE Orphaned(w)
    <3>1. /\ ~worker'[w].stop /\ ~worker'[w].exited /\ ctrlPipe'[w] = <<>>
          /\ cmdPipe' = cmdPipe
          /\ \A v \in Workers : v # w => worker'[v] = worker[v] /\ ctrlPipe'[v] = ctrlPipe[v]
      BY <1>1, <2>7 DEF Orphaned, Die, DieAll, NoProcess
    <3>2. <<>> \in Seq(Replies)
      BY EmptySeq
    <3>3. QED
      BY <1>2, <2>2, <3>1, <3>2
  <2>8. CASE TakeTask(w) \/ SendBatch(w)
    <3>1. /\ worker'[w].stop = worker[w].stop /\ worker'[w].exited = worker[w].exited
          /\ cmdPipe' = cmdPipe /\ ctrlPipe' = ctrlPipe
          /\ \A v \in Workers : v # w => worker'[v] = worker[v]
      BY <1>1, <2>8 DEF TakeTask, SendBatch, Processes
    <3>2. QED
      BY <1>2, <2>2, <3>1
  <2>9. CASE SendFinish(w)
    <3>1. /\ worker'[w].stop = worker[w].stop /\ worker'[w].exited = worker[w].exited
          /\ cmdPipe' = cmdPipe /\ ctrlPipe'[w] \in Seq(Replies)
          /\ \A v \in Workers : v # w => worker'[v] = worker[v] /\ ctrlPipe'[v] = ctrlPipe[v]
      BY <1>1, <2>3, <2>9 DEF SendFinish, Processes
    <3>2. QED
      BY <1>2, <2>2, <3>1
  <2>10. QED
    BY <2>4, <2>5, <2>6, <2>7, <2>8, <2>9 DEF WorkerMain, Scanner
<1>6. QED
  BY <1>4, <1>5 DEF QuietPipes

\* The load after a step is a number too.
LEMMA NextLoadNat ==
  ASSUME BusTypes'
  PROVE  /\ \A s \in Slots : /\ Load(s)' \in Nat
                             /\ \A t : Count(t, cmdQ'[s]) \in Nat /\ Count(t, retQ'[s]) \in Nat
         /\ \A w \in Workers : AtWorker(w)' \in Nat
<1>1. \A p : Has(p) \in Nat
  BY DEF Has
<1>2. \A t : \A s \in Slots : Count(t, cmdQ'[s]) \in Nat /\ Count(t, retQ'[s]) \in Nat
  BY Counts DEF BusTypes, QueueTypes
<1>3. \A t : \A w \in Workers : /\ Count(t, cmdPipe'[w]) \in Nat
                                /\ Count(t, ctrlPipe'[w]) \in Nat
  BY Counts DEF BusTypes, ProcessTypes
<1>4. \A w \in Workers : AtWorker(w)' \in Nat
  <2>1. SUFFICES ASSUME NEW w \in Workers PROVE AtWorker(w)' \in Nat
    OBVIOUS
  <2>2. Count("SCAN", cmdPipe'[w]) \in Nat /\ Count("FINISH", ctrlPipe'[w]) \in Nat
    BY <1>3
  <2>3. Has(worker'[w].mail) \in Nat /\ Has(worker'[w].task) \in Nat
    BY <1>1
  <2>4. QED
    BY <2>2, <2>3 DEF AtWorker
<1>5. \A s \in Slots : <<s, 1>> \in Workers
  BY Sizes DEF Workers
<1>6. \A s \in Slots : Load(s)' \in Nat
  <2>1. SUFFICES ASSUME NEW s \in Slots PROVE Load(s)' \in Nat
    OBVIOUS
  <2>2. AtWorker(<<s, 1>>)' \in Nat
    BY <1>4, <1>5
  <2>3. Count("SCAN", cmdQ'[s]) \in Nat /\ Has(ipc'[s].hand) \in Nat
    BY <1>1, <1>2
  <2>4. Count("DROP", retQ'[s]) \in Nat /\ Count("FINISH", retQ'[s]) \in Nat
    BY <1>2
  <2>5. QED
    BY <2>2, <2>3, <2>4 DEF Load
<1>7. QED
  BY <1>2, <1>4, <1>6

\* An IPC thread moves the tasks of its slot on: none appears.
LEMMA ThreadLoad ==
  ASSUME BusTypes, BusTypes', Quiet, NEW s \in Slots, IpcStep(s)
  PROVE  \A t \in Slots : Load(t)' <= Load(t)
<1>1. /\ cmdQ \in [Slots -> Seq(Commands)] /\ cmdQ[s] \in Seq(Commands)
      /\ retQ \in [Slots -> Seq(Reports)] /\ retQ[s] \in Seq(Reports)
      /\ ipc \in [Slots -> Threads] /\ ipc[s] \in Threads
      /\ cmdPipe \in [Workers -> Seq(PipeCommands)]
      /\ ctrlPipe \in [Workers -> Seq(CtrlMsgs)]
      /\ <<s, 1>> \in Workers
  BY Sizes DEF BusTypes, ProcessTypes, QueueTypes, ThreadTypes, Workers
<1>2. Count("SCAN", cmdQ[s]) \in Nat /\ Count("SCAN", cmdQ'[s]) \in Nat
  BY LoadNat, NextLoadNat
<1>3. /\ Count("DROP", retQ[s]) \in Nat /\ Count("FINISH", retQ[s]) \in Nat
      /\ Count("DROP", retQ'[s]) \in Nat /\ Count("FINISH", retQ'[s]) \in Nat
  BY LoadNat, NextLoadNat
<1>4. AtWorker(<<s, 1>>) \in Nat /\ AtWorker(<<s, 1>>)' \in Nat
  BY <1>1, LoadNat, NextLoadNat
<1>5. PICK c \in Nat, c2 \in Nat : c = Count("SCAN", cmdQ[s]) /\ c2 = Count("SCAN", cmdQ'[s])
  BY <1>2
<1>6. PICK p \in Nat, p2 \in Nat : p = Count("DROP", retQ[s]) /\ p2 = Count("DROP", retQ'[s])
  BY <1>3
<1>7. PICK f \in Nat, f2 \in Nat :
        f = Count("FINISH", retQ[s]) /\ f2 = Count("FINISH", retQ'[s])
  BY <1>3
<1>8. PICK a \in Nat, a2 \in Nat : a = AtWorker(<<s, 1>>) /\ a2 = AtWorker(<<s, 1>>)'
  BY <1>4
<1>9. PICK h \in 0 .. 1, h2 \in 0 .. 1 : h = Has(ipc[s].hand) /\ h2 = Has(ipc'[s].hand)
  BY DEF Has
<1>10. Load(s) = c + h + p + f + a /\ Load(s)' = c2 + h2 + p2 + f2 + a2
  BY <1>5, <1>6, <1>7, <1>8, <1>9 DEF Load
<1>11. ASSUME NEW t, Command(s, t), Taken(s)
       PROVE  IF t = "SCAN" THEN c = c2 + 1 /\ h = 0 ELSE c = c2
  <2>1. /\ cmdQ[s] # <<>> /\ Head(cmdQ[s]).type = t /\ cmdQ'[s] = Tail(cmdQ[s])
        /\ ipc[s].hand = None
    BY <1>1, <1>11 DEF Command, HeadIs, Taken, Running
  <2>2. Count("SCAN", cmdQ[s]) = IF t = "SCAN" THEN Count("SCAN", cmdQ'[s]) + 1
                                              ELSE Count("SCAN", cmdQ'[s])
    BY <1>1, <2>1, Counts
  <2>3. QED
    BY <1>5, <1>9, <2>1, <2>2 DEF Has
<1>12. ASSUME NEW m \in Reports, Return(s, m)
       PROVE  /\ p2 <= IF m.type = "DROP" THEN p + 1 ELSE p
              /\ f2 <= IF m.type = "FINISH" THEN f + 1 ELSE f
  <2>1. retQ'[s] = Send(retQ[s], m)
    BY <1>1, <1>12 DEF Return
  <2>2. p2 <= IF m.type = "DROP" THEN p + 1 ELSE p
    BY <1>1, <1>6, <2>1, CountSend
  <2>3. f2 <= IF m.type = "FINISH" THEN f + 1 ELSE f
    BY <1>1, <1>7, <2>1, CountSend
  <2>4. QED
    BY <2>2, <2>3
<1>13. cmdQ' = cmdQ => c2 = c
  BY <1>5
<1>14. retQ' = retQ => p2 = p /\ f2 = f
  BY <1>6, <1>7
<1>15. ipc'[s].hand = ipc[s].hand => h2 = h
  BY <1>9
<1>16. UNCHANGED <<worker, cmdPipe, ctrlPipe>> => a2 = a
  BY <1>8 DEF AtWorker
<1>17. Msg("DEAD", None) \in Reports /\ Msg("DEAD", None).type = "DEAD"
  BY DEF Msg, Reports
<1>18. Return(s, Msg("DEAD", None)) => p2 <= p /\ f2 <= f
  BY <1>12, <1>17
<1>19. Load(s)' <= Load(s)
  <2>1. CASE Replace(s) \/ Stop(s)
    <3>1. c2 = c /\ p2 = p /\ f2 = f /\ a2 = a
      BY <1>11, <1>14, <1>16, <2>1 DEF Replace, Stop, workerVars
    <3>2. ipc'[s].hand = ipc[s].hand
      BY <1>1, <2>1 DEF Replace, Stop, Threads
    <3>3. QED
      BY <1>10, <1>15, <3>1, <3>2
  <2>2. CASE DropScan(s)
    <3>1. /\ Head(cmdQ[s]) \in Commands /\ Head(cmdQ[s]).type = "SCAN"
      BY <1>1, <2>2, Received DEF DropScan, Command, HeadIs
    <3>2. PICK m \in Reports : m = Msg("DROP", Head(cmdQ[s]).arg) /\ m.type = "DROP"
      <4>1. PICK d : d = Head(cmdQ[s]).arg
        OBVIOUS
      <4>2. d \in Dirs
        BY <3>1, <4>1 DEF Commands, PipeCommands
      <4>3. Msg("DROP", d) \in Reports /\ Msg("DROP", d).type = "DROP"
        BY <4>2 DEF Msg, Reports
      <4>4. QED
        BY <4>1, <4>3
    <3>3. p2 <= p + 1 /\ f2 <= f
      BY <1>12, <2>2, <3>2 DEF DropScan
    <3>4. c = c2 + 1 /\ h2 = h /\ a2 = a
      BY <1>11, <1>15, <1>16, <2>2 DEF DropScan, ipcVars, workerVars
    <3>5. QED
      BY <1>10, <3>3, <3>4
  <2>3. CASE ForwardScan(s)
    <3>1. c = c2 + 1 /\ p2 = p /\ f2 = f
      BY <1>11, <1>14, <2>3 DEF ForwardScan
    <3>2. ipc'[s].hand = ipc[s].hand
      BY <1>1, <2>3 DEF ForwardScan, Threads
    <3>3. a2 <= a + 1
      <4>1. PICK m : m = Head(cmdQ[s])
        OBVIOUS
      <4>2. m \in PipeCommands /\ m.type = "SCAN"
        BY <1>1, <2>3, <4>1, Received DEF ForwardScan, Command, HeadIs, Commands
      <4>3. /\ worker' = worker /\ ctrlPipe' = ctrlPipe
            /\ \/ cmdPipe'[<<s, 1>>] = cmdPipe[<<s, 1>>]
               \/ cmdPipe'[<<s, 1>>] = Append(cmdPipe[<<s, 1>>], m)
        BY <1>1, <2>3, <4>1 DEF ForwardScan
      <4>4. PICK q \in Seq(PipeCommands) : q = cmdPipe[<<s, 1>>]
        BY <1>1
      <4>5. PICK n \in Nat : n = Count("SCAN", q)
        BY Counts
      <4>6. Count("SCAN", Append(q, m)) = n + 1
        BY <4>2, <4>5, Counts
      <4>7. PICK n2 \in Nat : n2 = Count("SCAN", cmdPipe'[<<s, 1>>]) /\ n2 <= n + 1
        <5>1. Count("SCAN", cmdPipe'[<<s, 1>>]) \in {n, n + 1}
          BY <4>3, <4>4, <4>5, <4>6
        <5>2. QED
          BY <5>1
      <4>8. PICK v \in Workers : v = <<s, 1>>
        BY <1>1
      <4>9. PICK o \in Nat : o = Count("FINISH", ctrlPipe[v])
        BY LoadNat
      <4>10. PICK x \in Nat, y \in Nat : x = Has(worker[v].mail) /\ y = Has(worker[v].task)
        BY LoadNat
      <4>11. AtWorker(v) = IF ~worker[v].up THEN 0 ELSE n + o + x + y
        BY <4>4, <4>5, <4>8, <4>9, <4>10 DEF AtWorker
      <4>12. AtWorker(v)' = IF ~worker[v].up THEN 0 ELSE n2 + o + x + y
        BY <4>3, <4>7, <4>8, <4>9, <4>10 DEF AtWorker
      <4>13. QED
        BY <1>8, <4>7, <4>8, <4>11, <4>12, SMTT(60)
    <3>4. QED
      BY <1>10, <1>15, <3>1, <3>2, <3>3
  <2>4. CASE RetryScan(s)
    <3>1. c = c2 + 1 /\ h = 0 /\ p2 = p /\ f2 = f /\ a2 = a
      BY <1>11, <1>14, <1>16, <2>4 DEF RetryScan, workerVars
    <3>2. QED
      BY <1>10, <3>1
  <2>5. CASE PushBack(s)
    <3>1. ipc[s].hand # None /\ ipc'[s].hand = None
      BY <1>1, <2>5 DEF PushBack, Threads
    <3>2. h = 1 /\ h2 = 0
      BY <1>9, <3>1 DEF Has
    <3>3. Msg("SCAN", ipc[s].hand) \in Commands
      BY <1>1, <3>1 DEF Msg, Commands, PipeCommands, Threads, DirOrNone
    <3>4. cmdQ'[s] = Send(cmdQ[s], Msg("SCAN", ipc[s].hand))
      BY <1>1, <2>5 DEF PushBack
    <3>5. Msg("SCAN", ipc[s].hand).type = "SCAN"
      BY DEF Msg
    <3>6. c2 <= c + 1
      BY <1>1, <1>5, <3>3, <3>4, <3>5, CountSend
    <3>7. p2 = p /\ f2 = f /\ a2 = a
      BY <1>14, <1>16, <2>5 DEF PushBack, workerVars
    <3>8. QED
      BY <1>10, <3>2, <3>6, <3>7
  <2>6. CASE GiveUpScan(s)
    <3>1. c = c2 + 1 /\ p2 <= p /\ f2 <= f /\ a2 = a
      BY <1>11, <1>16, <1>18, <2>6 DEF GiveUpScan, workerVars
    <3>2. ipc'[s].hand = ipc[s].hand
      BY <1>1, <2>6 DEF GiveUpScan, Threads
    <3>3. QED
      BY <1>10, <1>15, <3>1, <3>2
  <2>7. CASE BrokenPipe(s)
    <3>1. c2 = c /\ p2 = p /\ f2 = f /\ a2 = a
      BY <1>13, <1>14, <1>16, <2>7 DEF BrokenPipe, workerVars
    <3>2. ipc'[s].hand = ipc[s].hand
      BY <1>1, <2>7 DEF BrokenPipe, Threads
    <3>3. QED
      BY <1>10, <1>15, <3>1, <3>2
  <2>8. ASSUME Readable(s) PROVE Peer(s) = <<s, 1>>
    <3>1. PICK n : n = ipc[s].conn
      OBVIOUS
    <3>2. n \in Pids /\ n # 0
      BY <1>1, <2>8, <3>1 DEF Readable, Connected, Threads, NoPid
    <3>3. n \in 1 .. MaxInc
      BY <3>2, Sizes DEF Pids
    <3>4. Peer(s) \in Workers /\ Peer(s) = <<s, n>>
      BY <3>1, <3>3 DEF Peer, Workers
    <3>5. QED
      BY <2>8, <3>4 DEF Readable, Quiet
  <2>9. CASE ReadData(s)
    <3>1. PICK m : m = Head(dataPipe[Peer(s)])
      OBVIOUS
    <3>2. m \in DataMsgs
      <4>1. Peer(s) \in Workers
        BY <1>1, <2>8, <2>9 DEF ReadData
      <4>2. QED
        BY <2>9, <3>1, <4>1, Received DEF ReadData, BusTypes, ProcessTypes
    <3>3. m \in Reports /\ m.type = "BATCH"
      BY <3>2 DEF DataMsgs, Reports
    <3>4. p2 <= p /\ f2 <= f
      BY <1>12, <2>9, <3>1, <3>3 DEF ReadData
    <3>5. c2 = c /\ h2 = h /\ a2 = a
      BY <1>13, <1>15, <1>16, <2>9 DEF ReadData, ipcVars
    <3>6. QED
      BY <1>10, <3>4, <3>5
  <2>10. ASSUME Readable(s), ctrlPipe[Peer(s)] # <<>>, UNCHANGED <<worker, cmdPipe>>,
                ctrlPipe' = [ctrlPipe EXCEPT ![Peer(s)] = Tail(@)],
                Return(s, Head(ctrlPipe[Peer(s)]))
         PROVE  p2 <= p /\ f2 + a2 <= f + a
    <3>1. PICK v \in Workers : v = <<s, 1>> /\ v = Peer(s)
      BY <1>1, <2>8, <2>10
    <3>2. PICK q \in Seq(CtrlMsgs) : q = ctrlPipe[v] /\ q # <<>> /\ ctrlPipe'[v] = Tail(q)
      BY <1>1, <2>10, <3>1
    <3>3. PICK m \in CtrlMsgs : m = Head(q)
      BY <3>2, Received
    <3>4. Tail(q) \in Seq(CtrlMsgs)
      BY <3>2, Received
    <3>5. PICK o \in Nat, o2 \in Nat : o = Count("FINISH", q) /\ o2 = Count("FINISH", Tail(q))
      BY <3>4, Counts
    <3>6. o = IF m.type = "FINISH" THEN o2 + 1 ELSE o2
      BY <3>2, <3>3, <3>5, Counts
    <3>7. m \in Reports /\ m.type # "DROP"
      BY <3>3 DEF CtrlMsgs, Reports
    <3>8. p2 <= p /\ f2 <= IF m.type = "FINISH" THEN f + 1 ELSE f
      BY <1>12, <2>10, <3>1, <3>2, <3>3, <3>7
    <3>9. PICK k \in Nat : k = Count("SCAN", cmdPipe[v])
      BY LoadNat
    <3>10. PICK x \in Nat, y \in Nat : x = Has(worker[v].mail) /\ y = Has(worker[v].task)
      BY LoadNat
    <3>11. worker[v].up
      BY <2>10, <3>1 DEF Readable
    <3>12. a = k + o + x + y
      BY <1>8, <3>1, <3>2, <3>5, <3>9, <3>10, <3>11 DEF AtWorker
    <3>13. a2 = k + o2 + x + y
      BY <1>8, <2>10, <3>1, <3>2, <3>5, <3>9, <3>10, <3>11 DEF AtWorker
    <3>14. QED
      BY <3>6, <3>8, <3>12, <3>13
  <2>11. CASE ReadCtrl(s)
    <3>1. p2 <= p /\ f2 + a2 <= f + a
      BY <2>10, <2>11 DEF ReadCtrl
    <3>2. c2 = c /\ h2 = h
      BY <1>13, <1>15, <2>11 DEF ReadCtrl, ipcVars
    <3>3. QED
      BY <1>10, <3>1, <3>2
  <2>12. CASE ReadExit(s)
    <3>1. p2 <= p /\ f2 + a2 <= f + a
      BY <2>10, <2>12 DEF ReadExit, HeadIs
    <3>2. ipc'[s].hand = ipc[s].hand
      BY <1>1, <2>12 DEF ReadExit, Disconnect, Threads
    <3>3. c2 = c
      BY <1>13, <2>12 DEF ReadExit
    <3>4. QED
      BY <1>10, <1>15, <3>1, <3>2, <3>3
  <2>13. CASE HangUp(s)
    <3>1. c2 = c /\ p2 <= p /\ f2 <= f /\ a2 = a
      BY <1>13, <1>16, <1>18, <2>13 DEF HangUp, MarkDead, workerVars
    <3>2. ipc'[s].hand = ipc[s].hand
      BY <1>1, <2>13 DEF HangUp, MarkDead, Disconnect, Threads
    <3>3. QED
      BY <1>10, <1>15, <3>1, <3>2
  <2>14. QED
    BY <2>1, <2>2, <2>3, <2>4, <2>5, <2>6, <2>7, <2>9, <2>11, <2>12, <2>13
       DEF IpcStep, HandleCmd
<1>20. ASSUME NEW t \in Slots, t # s PROVE Load(t)' = Load(t)
  <2>1. cmdQ'[t] = cmdQ[t] /\ retQ'[t] = retQ[t]
    BY <1>1, <1>20 DEF IpcStep, HandleCmd, Replace, DropScan, ForwardScan, RetryScan, PushBack,
          GiveUpScan, BrokenPipe, Stop, ReadData, ReadCtrl, ReadExit, HangUp, MarkDead, Taken,
          Return
  <2>2. ipc'[t].hand = ipc[t].hand
    BY <1>1, <1>20 DEF IpcStep, HandleCmd, Replace, DropScan, ForwardScan, RetryScan, PushBack,
          GiveUpScan, BrokenPipe, Stop, ReadData, ReadCtrl, ReadExit, HangUp, MarkDead,
          Disconnect, ipcVars, Threads
  <2>3. PICK v : v = <<t, 1>>
    OBVIOUS
  <2>4. v # Peer(s)
    BY <1>20, <2>3 DEF Peer
  <2>5. worker' = worker /\ cmdPipe'[v] = cmdPipe[v] /\ ctrlPipe'[v] = ctrlPipe[v]
    <3>1. v \in Workers
      BY <2>3, Sizes DEF Workers
    <3>2. QED
      BY <1>1, <2>4, <3>1 DEF IpcStep, HandleCmd, Replace, DropScan, ForwardScan, RetryScan,
            PushBack, GiveUpScan, BrokenPipe, Stop, ReadData, ReadCtrl, ReadExit, HangUp,
            workerVars
  <2>6. AtWorker(v)' = AtWorker(v)
    BY <2>5 DEF AtWorker
  <2>7. QED
    BY <2>1, <2>2, <2>3, <2>6 DEF Load
<1>21. QED
  BY <1>19, <1>20, LoadNat


\* An IPC thread reports no stop, and loses no slot its worker.
LEMMA ThreadKeepsQuiet ==
  ASSUME BusTypes, Quiet, QuietPipes, NEW s \in Slots, IpcStep(s)
  PROVE  Quiet' /\ QuietPipes' /\ UNCHANGED <<slot, pendingTasks>>
<1> DEFINE Scans == [type : {"SCAN"}, arg : Dirs]
<1>1. /\ cmdQ \in [Slots -> Seq(Commands)] /\ cmdQ[s] \in Seq(Commands)
      /\ retQ \in [Slots -> Seq(Reports)]
      /\ ipc \in [Slots -> Threads] /\ ipc[s] \in Threads
      /\ cmdPipe \in [Workers -> Seq(PipeCommands)]
      /\ dataPipe \in [Workers -> Seq(DataMsgs)]
      /\ ctrlPipe \in [Workers -> Seq(CtrlMsgs)]
  BY DEF BusTypes, ProcessTypes, QueueTypes, ThreadTypes
<1>2. UNCHANGED <<slot, pendingTasks, worker>> /\ (mpc' = mpc \/ mpc' = "killed")
  BY DEF IpcStep, HandleCmd, Replace, DropScan, ForwardScan, RetryScan, PushBack, GiveUpScan,
         BrokenPipe, Stop, ReadData, ReadCtrl, ReadExit, HangUp, masterVars, workerVars
<1>3. Quiet'
  BY <1>2 DEF Quiet
<1>4. QuietPipes'
  <2>1. SUFFICES ASSUME Scanning'
                 PROVE  /\ \A t \in Slots : retQ'[t] \in Seq(QuietReports)
                        /\ \A w \in Workers :
                             ctrlPipe'[w] \in Seq(Replies) /\ cmdPipe'[w] \in Seq(Scans)
    <3>1. Scanning' => Scanning
      BY <1>2 DEF Scanning
    <3>2. QED
      BY <1>2, <3>1 DEF QuietPipes
  <2>2. Scanning
    BY <1>2, <2>1 DEF Scanning
  <2>3. /\ \A t \in Slots : retQ[t] \in Seq(QuietReports)
        /\ \A w \in Workers : ctrlPipe[w] \in Seq(Replies) /\ cmdPipe[w] \in Seq(Scans)
    BY <2>2 DEF QuietPipes
  <2>4. ASSUME NEW m \in QuietReports, Return(s, m)
        PROVE  \A t \in Slots : retQ'[t] \in Seq(QuietReports)
    <3>1. Send(retQ[s], m) \in Seq(QuietReports)
      BY <2>3, Sent
    <3>2. QED
      BY <1>1, <2>3, <2>4, <3>1 DEF Return
  <2>5. Msg("DEAD", None) \in QuietReports
    BY DEF Msg, QuietReports
  <2>6. ASSUME Readable(s) PROVE Peer(s) \in Workers
    <3>1. PICK n : n = ipc[s].conn
      OBVIOUS
    <3>2. n \in Pids /\ n # 0
      BY <1>1, <2>6, <3>1 DEF Readable, Connected, Threads, NoPid
    <3>3. n \in 1 .. MaxInc
      BY <3>2, Sizes DEF Pids
    <3>4. QED
      BY <3>1, <3>3 DEF Peer, Workers
  <2>7. CASE Replace(s) \/ RetryScan(s) \/ PushBack(s) \/ BrokenPipe(s) \/ Stop(s)
    <3>1. UNCHANGED <<retQ, ctrlPipe, cmdPipe>>
      BY <2>7 DEF Replace, RetryScan, PushBack, BrokenPipe, Stop, workerVars
    <3>2. QED
      BY <2>3, <3>1
  <2>8. CASE DropScan(s)
    <3>1. Head(cmdQ[s]) \in Commands /\ Head(cmdQ[s]).type = "SCAN"
      BY <1>1, <2>8, Received DEF DropScan, Command, HeadIs
    <3>2. PICK d \in Dirs : d = Head(cmdQ[s]).arg
      BY <3>1 DEF Commands, PipeCommands
    <3>3. Msg("DROP", d) \in QuietReports
      BY DEF Msg, QuietReports
    <3>4. QED
      BY <2>3, <2>4, <2>8, <3>2, <3>3 DEF DropScan, workerVars
  <2>9. CASE ForwardScan(s)
    <3>1. PICK m : m = Head(cmdQ[s])
      OBVIOUS
    <3>2. m \in Scans
      <4>1. m \in Commands /\ m.type = "SCAN"
        BY <1>1, <2>9, <3>1, Received DEF ForwardScan, Command, HeadIs
      <4>2. QED
        BY <4>1 DEF Commands, PipeCommands
    <3>3. \A w \in Workers : Append(cmdPipe[w], m) \in Seq(Scans)
      <4> HIDE DEF Scans
      <4>1. QED
        BY <2>3, <3>2, Sent
    <3>4. cmdPipe' = [cmdPipe EXCEPT ![Peer(s)] = Append(@, m)]
      BY <2>9, <3>1 DEF ForwardScan
    <3>5. \A w \in Workers : cmdPipe'[w] \in Seq(Scans)
      BY <1>1, <2>3, <3>3, <3>4
    <3>6. QED
      BY <2>3, <2>9, <3>5 DEF ForwardScan
  <2>10. CASE GiveUpScan(s) \/ HangUp(s)
    BY <2>3, <2>4, <2>5, <2>10 DEF GiveUpScan, HangUp, MarkDead, workerVars
  <2>11. CASE ReadData(s)
    <3>1. Head(dataPipe[Peer(s)]) \in DataMsgs
      BY <1>1, <2>6, <2>11, Received DEF ReadData
    <3>2. Head(dataPipe[Peer(s)]) \in QuietReports
      BY <3>1 DEF QuietReports
    <3>3. QED
      BY <2>3, <2>4, <2>11, <3>2 DEF ReadData
  <2>12. ~ReadExit(s)
    <3>1. Readable(s) /\ ctrlPipe[Peer(s)] # <<>> => Head(ctrlPipe[Peer(s)]) \in Replies
      BY <2>3, <2>6, Received
    <3>2. QED
      BY <3>1 DEF ReadExit, HeadIs, Replies
  <2>13. CASE ReadCtrl(s)
    <3>1. PICK v \in Workers : v = Peer(s)
      BY <2>6, <2>13 DEF ReadCtrl
    <3>2. Head(ctrlPipe[v]) \in Replies /\ Tail(ctrlPipe[v]) \in Seq(Replies)
      BY <2>3, <2>13, <3>1, Received DEF ReadCtrl
    <3>3. Head(ctrlPipe[v]) \in QuietReports
      BY <3>2 DEF QuietReports
    <3>4. \A w \in Workers : ctrlPipe'[w] \in Seq(Replies)
      BY <1>1, <2>3, <2>13, <3>1, <3>2 DEF ReadCtrl
    <3>5. QED
      BY <2>3, <2>4, <2>13, <3>1, <3>3, <3>4 DEF ReadCtrl
  <2>14. QED
    BY <2>7, <2>8, <2>9, <2>10, <2>11, <2>12, <2>13 DEF IpcStep, HandleCmd
<1>5. QED
  BY <1>2, <1>3, <1>4


\* What the main thread does not meet while no fault happens.
LEMMA QuietMain ==
  ASSUME BusTypes, Quiet, QuietPipes
  PROVE  /\ ~RecvDevTimeout /\ ~RecvExit /\ ~Respawn
         /\ RecvDead => UNCHANGED <<slot, cmdPipe, pendingTasks, lost, activeCount>>
         /\ \A t : Receive(t) =>
              /\ retQ \in [Slots -> Seq(QuietReports)] /\ cur \in Slots
              /\ \A s \in Slots : retQ'[s] \in Seq(QuietReports)
<1>1. cur \in Slots /\ retQ \in [Slots -> Seq(Reports)]
  BY DEF BusTypes, MasterTypes, QueueTypes
<1>2. slot[cur].alive /\ slot[cur].pid # NoPid
  BY <1>1 DEF Quiet, NoPid
<1>3. ASSUME NEW t, Receive(t)
      PROVE  /\ retQ \in [Slots -> Seq(QuietReports)] /\ t \notin {"DEV_TIMEOUT", "EXIT"}
             /\ \A s \in Slots : retQ'[s] \in Seq(QuietReports)
  <2>1. \A s \in Slots : retQ[s] \in Seq(QuietReports)
    BY <1>3 DEF Receive, Phase, QuietPipes, Scanning
  <2>2. /\ Head(retQ[cur]) \in QuietReports /\ Head(retQ[cur]).type = t
        /\ Tail(retQ[cur]) \in Seq(QuietReports)
    BY <1>1, <1>3, <2>1, Received DEF Receive, HeadIs
  <2>3. t \notin {"DEV_TIMEOUT", "EXIT"}
    BY <2>2 DEF QuietReports, Replies, DataMsgs
  <2>4. \A s \in Slots : retQ'[s] \in Seq(QuietReports)
    BY <1>1, <1>3, <2>1, <2>2 DEF Receive
  <2>5. QED
    BY <1>1, <2>1, <2>3, <2>4
<1>4. QED
  BY <1>1, <1>2, <1>3 DEF RecvDevTimeout, RecvExit, RecvDead, Respawn

\* The main thread gives no slot up and, until the end, stops nobody.
LEMMA MainKeepsQuiet ==
  ASSUME BusTypes, Quiet, QuietPipes, MainStep
  PROVE  Quiet' /\ QuietPipes'
<1>1. /\ slot \in [Slots -> SlotRecords] /\ cur \in Slots
      /\ worker \in [Workers -> Processes]
  BY DEF BusTypes, MasterTypes, ProcessTypes
<1>2. \/ Process \/ ReplaceNone \/ DispatchLost \/ LostEnd \/ NextTurn
      \/ StopAll \/ Join \/ DestroyWorkers
      \/ RecvBatch \/ RecvReady \/ RecvFinish \/ RecvDead \/ RecvDrop \/ RecvEnd
  BY QuietMain DEF MainStep, Recv
<1>3. ASSUME NEW k \in 0 .. NumWorkers - 1, NEW p, Dispatch(k, p)
      PROVE  \A s \in Slots : /\ slot'[s].alive = slot[s].alive /\ slot'[s].pid = slot[s].pid
                              /\ slot'[s].state \in {slot[s].state, "BUSY"}
  BY <1>1, <1>3 DEF Dispatch, SlotRecords
<1>4. \A s \in Slots : /\ slot'[s].alive = slot[s].alive /\ slot'[s].pid = slot[s].pid
                       /\ slot'[s].state \in {slot[s].state, "BUSY", "IDLE"}
  <2>1. CASE Process
    <3>1. CASE \E p \in Paths : DirEntry(p)
      <4>1. PICK p \in Paths, k \in 0 .. NumWorkers - 1 :
              \/ Dispatch(k, p)
              \/ slot' = [slot EXCEPT ![Candidate(k)].path = p]
        BY <3>1 DEF DirEntry
      <4>2. CASE slot' = [slot EXCEPT ![Candidate(k)].path = p]
        BY <1>1, <4>2 DEF SlotRecords
      <4>3. QED
        BY <1>3, <4>1, <4>2
    <3>2. CASE ~\E p \in Paths : DirEntry(p)
      <4>1. slot' = slot
        BY <2>1, <3>2 DEF Process, PollBatch, PollEnd, BatchEnd, SkipEntry, FileEntry,
                          DirEntryWaits
      <4>2. QED
        BY <4>1
    <3>3. QED
      BY <3>1, <3>2
  <2>2. CASE DispatchLost
    <3>1. PICK k \in 0 .. NumWorkers - 1 : Dispatch(k, Oldest(lost)) \/ UNCHANGED slot
      BY <2>2 DEF DispatchLost
    <3>2. QED
      BY <1>3, <3>1
  <2>3. CASE RecvReady \/ RecvFinish
    BY <1>1, <2>3 DEF RecvReady, RecvFinish, SlotRecords
  <2>4. CASE \/ ReplaceNone \/ LostEnd \/ NextTurn \/ StopAll \/ Join \/ DestroyWorkers
             \/ RecvBatch \/ RecvDead \/ RecvDrop \/ RecvEnd
    <3>1. slot' = slot
      BY <2>4, QuietMain DEF ReplaceNone, LostEnd, NextTurn, StopAll, Join, DestroyWorkers,
                             RecvBatch, RecvDrop, RecvEnd
    <3>2. QED
      BY <3>1
  <2>5. QED
    BY <1>2, <2>1, <2>2, <2>3, <2>4
<1>5. worker' = worker \/ \A w \in Workers : worker'[w].up => worker[w].up
  <2>1. CASE DestroyWorkers
    BY <1>1, <2>1 DEF DestroyWorkers, DieAll, NoProcess
  <2>2. CASE ~DestroyWorkers
    <3>1. worker' = worker
      BY <1>2, <2>2
         DEF Process, PollBatch, PollEnd, BatchEnd, SkipEntry, FileEntry, DirEntry,
             DirEntryWaits, Entry, ReplaceNone, DispatchLost, LostEnd, NextTurn, StopAll, Join,
             RecvBatch, RecvReady, RecvFinish, RecvDead, RecvDrop, RecvEnd, Receive,
             ipcAndWorkers, workerVars
    <3>2. QED
      BY <3>1
  <2>3. QED
    BY <2>1, <2>2
<1>6. Quiet'
  BY <1>4, <1>5 DEF Quiet
<1>7. CASE StopAll \/ Join \/ DestroyWorkers
  <2>1. ~Scanning'
    BY <1>7 DEF StopAll, Join, DestroyWorkers, Scanning
  <2>2. QED
    BY <1>6, <2>1 DEF QuietPipes
<1>8. CASE RecvBatch \/ RecvReady \/ RecvFinish \/ RecvDead \/ RecvDrop
  <2>1. PICK t : Receive(t)
    BY <1>8 DEF RecvBatch, RecvReady, RecvFinish, RecvDead, RecvDrop
  <2>2. cmdPipe' = cmdPipe
    BY <1>8, QuietMain DEF RecvBatch, RecvReady, RecvFinish, RecvDrop
  <2>3. UNCHANGED <<mpc, worker, ctrlPipe>>
    BY <2>1 DEF Receive, ipcAndWorkers
  <2>4. QED
    BY <1>6, <2>1, <2>2, <2>3, QuietMain DEF QuietPipes, Scanning
<1>9. CASE Process \/ ReplaceNone \/ DispatchLost \/ LostEnd \/ NextTurn \/ RecvEnd
  <2>1. UNCHANGED <<retQ, worker, ctrlPipe, cmdPipe>>
    BY <1>9 DEF Process, PollBatch, PollEnd, BatchEnd, SkipEntry, FileEntry, DirEntry,
             DirEntryWaits, Entry, ReplaceNone, DispatchLost, LostEnd, NextTurn, RecvEnd,
             poolVars, ipcAndWorkers
  <2>2. Scanning' => Scanning
    BY <1>9 DEF Process, PollBatch, PollEnd, BatchEnd, SkipEntry, FileEntry, DirEntry,
             DirEntryWaits, Entry, ReplaceNone, DispatchLost, LostEnd, NextTurn, RecvEnd,
             Scanning, Phase
  <2>3. QED
    BY <1>6, <2>1, <2>2 DEF QuietPipes
<1>10. QED
  BY <1>2, <1>7, <1>8, <1>9


\* A load, part by part.
LEMMA SameLoad ==
  ASSUME NEW s \in Slots,
         Count("SCAN", cmdQ'[s]) = Count("SCAN", cmdQ[s]), ipc'[s].hand = ipc[s].hand,
         Count("DROP", retQ'[s]) = Count("DROP", retQ[s]),
         Count("FINISH", retQ'[s]) = Count("FINISH", retQ[s]),
         AtWorker(<<s, 1>>)' = AtWorker(<<s, 1>>)
  PROVE  Load(s)' = Load(s)
BY DEF Load

\* A received message leaves the load of its slot, and a FINISH is a task less.
LEMMA ReceiveLoad ==
  ASSUME BusTypes, BusTypes', NEW t, Receive(t), UNCHANGED cmdPipe
  PROVE  /\ \A s \in Slots : Load(s)' <= Load(s) /\ (s # cur => Load(s)' = Load(s))
         /\ t = "FINISH" => \A s \in Slots : s = cur => Load(s) = Load(s)' + 1
<1>1. /\ retQ \in [Slots -> Seq(Reports)] /\ retQ[cur] \in Seq(Reports) /\ cur \in Slots
      /\ retQ' = [retQ EXCEPT ![cur] = Tail(@)]
      /\ retQ[cur] # <<>> /\ Head(retQ[cur]).type = t
      /\ UNCHANGED <<cmdQ, ipc, worker, ctrlPipe, cmdPipe>>
  BY DEF BusTypes, MasterTypes, QueueTypes, Receive, HeadIs, ipcAndWorkers, ipcVars
<1>2. \A v : AtWorker(v)' = AtWorker(v)
  BY <1>1 DEF AtWorker
<1>3. \A s \in Slots : s # cur => Load(s)' = Load(s)
  <2>1. SUFFICES ASSUME NEW s \in Slots, s # cur PROVE Load(s)' = Load(s)
    OBVIOUS
  <2>2. retQ'[s] = retQ[s]
    BY <1>1, <2>1
  <2>3. QED
    BY <1>1, <1>2, <2>2, SameLoad
<1>4. PICK s \in Slots : s = cur /\ <<s, 1>> \in Workers
  <2>1. \A x \in Slots : <<x, 1>> \in Workers
    BY Sizes DEF Workers
  <2>2. QED
    BY <1>1, <2>1
<1>5. PICK a \in Nat : a = AtWorker(<<s, 1>>) /\ a = AtWorker(<<s, 1>>)'
  BY <1>2, <1>4, LoadNat
<1>6. PICK c \in Nat : c = Count("SCAN", cmdQ[s]) /\ c = Count("SCAN", cmdQ'[s])
  BY <1>1, LoadNat
<1>7. PICK h \in Nat : h = Has(ipc[s].hand) /\ h = Has(ipc'[s].hand)
  BY <1>1, LoadNat
<1>8. PICK d \in Nat, d2 \in Nat :
        /\ d = Count("DROP", retQ[s]) /\ d2 = Count("DROP", retQ'[s])
        /\ d2 <= d /\ (t = "FINISH" => d2 = d)
  <2>1. PICK d \in Nat, d2 \in Nat :
          d = Count("DROP", retQ[s]) /\ d2 = Count("DROP", retQ'[s])
    BY LoadNat, NextLoadNat
  <2>2. d = IF t = "DROP" THEN d2 + 1 ELSE d2
    BY <1>1, <1>4, <2>1, Counts
  <2>3. d2 <= d /\ (t = "FINISH" => d2 = d)
    BY <2>2
  <2>4. QED
    BY <2>1, <2>3
<1>9. PICK f \in Nat, f2 \in Nat :
        /\ f = Count("FINISH", retQ[s]) /\ f2 = Count("FINISH", retQ'[s])
        /\ f = IF t = "FINISH" THEN f2 + 1 ELSE f2
  <2>1. PICK f \in Nat, f2 \in Nat :
          f = Count("FINISH", retQ[s]) /\ f2 = Count("FINISH", retQ'[s])
    BY LoadNat, NextLoadNat
  <2>2. f = IF t = "FINISH" THEN f2 + 1 ELSE f2
    BY <1>1, <1>4, <2>1, Counts
  <2>3. QED
    BY <2>1, <2>2
<1>10. Load(s) = c + h + d + f + a /\ Load(s)' = c + h + d2 + f2 + a
  BY <1>5, <1>6, <1>7, <1>8, <1>9 DEF Load
<1>11. Load(s)' <= Load(s) /\ (t = "FINISH" => Load(s) = Load(s)' + 1)
  BY <1>8, <1>9, <1>10
<1>12. QED
  BY <1>3, <1>4, <1>11, LoadNat

\* send_scan_to_ipc counts the task it sends.
LEMMA DispatchOwes ==
  ASSUME BusTypes, BusTypes', TasksOwed, NEW k \in 0 .. NumWorkers - 1, NEW p \in Dirs,
         Dispatch(k, p), UNCHANGED <<retQ, cmdPipe, ipc, worker, ctrlPipe>>
  PROVE  TasksOwed'
<1>1. PICK s : s = Candidate(k)
  OBVIOUS
<1>2. s \in Slots
  <2>1. nextDispatch + k \in Nat
    BY Sizes DEF BusTypes, MasterTypes
  <2>2. QED
    BY <1>1, <2>1, Sizes DEF Candidate
<1>3. /\ slot \in [Slots -> SlotRecords] /\ cmdQ \in [Slots -> Seq(Commands)]
      /\ cmdQ[s] \in Seq(Commands)
  BY <1>2 DEF BusTypes, MasterTypes, QueueTypes
<1>4. PICK m \in Commands : m = Msg("SCAN", p) /\ m.type = "SCAN"
  <2>1. Msg("SCAN", p) \in Commands /\ Msg("SCAN", p).type = "SCAN"
    BY DEF Msg, Commands, PipeCommands
  <2>2. QED
    BY <2>1
<1>5. /\ cmdQ' = [cmdQ EXCEPT ![s] = Append(@, m)] /\ pendingTasks' = pendingTasks + 1
      /\ slot' = [slot EXCEPT ![s].state = "BUSY", ![s].path = p]
  BY <1>1, <1>4 DEF Dispatch
<1>6. \A v : AtWorker(v)' = AtWorker(v)
  BY DEF AtWorker
<1>7. \A x \in Slots : x # s => Load(x)' = Load(x) /\ (Bound(x)' <=> Bound(x))
  <2>1. SUFFICES ASSUME NEW x \in Slots, x # s
                 PROVE  Load(x)' = Load(x) /\ (Bound(x)' <=> Bound(x))
    OBVIOUS
  <2>2. cmdQ'[x] = cmdQ[x] /\ slot'[x] = slot[x]
    BY <1>3, <1>5, <2>1
  <2>3. Load(x)' = Load(x)
    BY <1>6, <2>2, SameLoad
  <2>4. QED
    BY <2>2, <2>3 DEF Bound
<1>8. Load(s)' = Load(s) + 1
  <2>1. cmdQ'[s] = Append(cmdQ[s], m)
    BY <1>2, <1>3, <1>5
  <2>2. PICK c \in Nat : c = Count("SCAN", cmdQ[s]) /\ Count("SCAN", cmdQ'[s]) = c + 1
    BY <1>3, <1>4, <2>1, Counts
  <2>3. <<s, 1>> \in Workers
    BY <1>2, Sizes DEF Workers
  <2>4. PICK a \in Nat : a = AtWorker(<<s, 1>>) /\ a = AtWorker(<<s, 1>>)'
    BY <1>6, <2>3, LoadNat
  <2>5. PICK h \in Nat : h = Has(ipc[s].hand)
    BY <1>2, LoadNat
  <2>6. PICK d \in Nat, f \in Nat : d = Count("DROP", retQ[s]) /\ f = Count("FINISH", retQ[s])
    BY <1>2, LoadNat
  <2>7. Load(s) = c + h + d + f + a
    BY <2>2, <2>4, <2>5, <2>6 DEF Load
  <2>8. Load(s)' = (c + 1) + h + d + f + a
    BY <2>2, <2>4, <2>5, <2>6 DEF Load
  <2>9. QED
    BY <2>7, <2>8
<1>9. PICK owed \in [Slots -> Nat] :
        pendingTasks = Total(owed, Slots)
        /\ \A x \in Slots : Load(x) <= owed[x] /\ (Bound(x) => owed[x] > 0)
  BY DEF TasksOwed, Owed
<1>10. PICK n \in Nat : n = owed[s]
  BY <1>2, <1>9
<1>11. PICK new : new = [owed EXCEPT ![s] = n + 1]
  OBVIOUS
<1>12. /\ new \in [Slots -> Nat] /\ new[s] = n + 1
       /\ \A x \in Slots : x # s => new[x] = owed[x]
  BY <1>2, <1>9, <1>10, <1>11
<1>13. pendingTasks' = Total(new, Slots)
  <2>1. IsFiniteSet(Slots)
    BY Sizes, FS_Interval
  <2>2. Total(owed, Slots) \in Nat /\ Total(new, Slots) = Total(owed, Slots) - n + (n + 1)
    BY <1>2, <1>9, <1>10, <1>12, <2>1, TotalUpdate
  <2>3. QED
    BY <1>5, <1>9, <2>2
<1>14. \A x \in Slots : Load(x)' <= new[x] /\ (Bound(x)' => new[x] > 0)
  <2>1. \A x \in Slots : x # s => Load(x)' <= new[x] /\ (Bound(x)' => new[x] > 0)
    BY <1>7, <1>9, <1>12
  <2>2. PICK l \in Nat : l = Load(s)
    BY <1>2, LoadNat
  <2>3. l <= n
    BY <1>2, <1>9, <1>10, <2>2
  <2>4. Load(s)' <= new[s] /\ new[s] > 0
    BY <1>8, <1>12, <2>2, <2>3
  <2>5. QED
    BY <2>1, <2>4
<1>15. QED
  BY <1>12, <1>13, <1>14 DEF TasksOwed, Owed

\* FINISH gives a task back.
LEMMA FinishOwes ==
  ASSUME BusTypes, BusTypes', TasksOwed, RecvFinish
  PROVE  TasksOwed'
<1>1. /\ cur \in Slots /\ slot \in [Slots -> SlotRecords]
      /\ pendingTasks' = pendingTasks - 1 /\ slot' = [slot EXCEPT ![cur].state = "IDLE"]
      /\ Receive("FINISH") /\ UNCHANGED cmdPipe
  BY DEF BusTypes, MasterTypes, RecvFinish
<1>2. PICK s \in Slots : s = cur
  BY <1>1
<1>3. /\ \A x \in Slots : x # s => Load(x)' = Load(x)
      /\ Load(s) = Load(s)' + 1
  BY <1>1, <1>2, ReceiveLoad
<1>4. ~Bound(s)' /\ \A x \in Slots : x # s => (Bound(x)' <=> Bound(x))
  BY <1>1, <1>2 DEF Bound, SlotRecords
<1>5. PICK owed \in [Slots -> Nat] :
        pendingTasks = Total(owed, Slots)
        /\ \A x \in Slots : Load(x) <= owed[x] /\ (Bound(x) => owed[x] > 0)
  BY DEF TasksOwed, Owed
<1>6. PICK l \in Nat : l = Load(s)'
  BY NextLoadNat
<1>7. PICK n \in Nat : owed[s] = n + 1 /\ l <= n
  <2>1. PICK o \in Nat : o = owed[s]
    BY <1>5
  <2>2. l + 1 <= o
    BY <1>3, <1>5, <1>6, <2>1
  <2>3. o - 1 \in Nat /\ o = (o - 1) + 1 /\ l <= o - 1
    BY <2>2
  <2>4. QED
    BY <2>1, <2>3
<1>8. PICK new : new = [owed EXCEPT ![s] = n]
  OBVIOUS
<1>9. /\ new \in [Slots -> Nat] /\ new[s] = n
      /\ \A x \in Slots : x # s => new[x] = owed[x]
  BY <1>5, <1>8
<1>10. pendingTasks' = Total(new, Slots)
  <2>1. IsFiniteSet(Slots)
    BY Sizes, FS_Interval
  <2>2. Total(owed, Slots) \in Nat /\ Total(new, Slots) = Total(owed, Slots) - owed[s] + new[s]
    BY <1>5, <1>9, <2>1, TotalUpdate
  <2>3. QED
    BY <1>1, <1>5, <1>7, <1>9, <2>2
<1>11. \A x \in Slots : Load(x)' <= new[x] /\ (Bound(x)' => new[x] > 0)
  BY <1>3, <1>4, <1>5, <1>6, <1>7, <1>9
<1>12. QED
  BY <1>9, <1>10, <1>11 DEF TasksOwed, Owed


\* The end of the scan leaves the tasks, or frees them.
LEMMA StopLoad ==
  ASSUME BusTypes, BusTypes', StopAll \/ Join \/ DestroyWorkers
  PROVE  \A s \in Slots : Load(s)' <= Load(s)
<1>1. /\ cmdQ \in [Slots -> Seq(Commands)] /\ retQ \in [Slots -> Seq(Reports)]
      /\ ipc \in [Slots -> Threads] /\ worker \in [Workers -> Processes]
      /\ cmdPipe \in [Workers -> Seq(PipeCommands)]
      /\ ctrlPipe \in [Workers -> Seq(CtrlMsgs)]
  BY DEF BusTypes, ProcessTypes, QueueTypes, ThreadTypes
<1> SUFFICES ASSUME NEW s \in Slots PROVE Load(s)' <= Load(s)
  OBVIOUS
<1>2. PICK v \in Workers : v = <<s, 1>>
  <2>1. <<s, 1>> \in Workers
    BY Sizes DEF Workers
  <2>2. QED
    BY <2>1
<1>3. CASE StopAll
  <2>1. PICK m : m = Msg("STOP", None) /\ m \in Commands /\ m \in PipeCommands /\ m.type = "STOP"
    <3>1. /\ Msg("STOP", None) \in PipeCommands /\ Msg("STOP", None) \in Commands
          /\ Msg("STOP", None).type = "STOP"
      BY DEF Msg, PipeCommands, Commands
    <3>2. QED
      BY <3>1
  <2>2. cmdQ'[s] = Send(cmdQ[s], m)
    BY <1>3, <2>1 DEF StopAll, SendStop
  <2>3. Count("SCAN", cmdQ'[s]) <= Count("SCAN", cmdQ[s])
    <3>1. Count("SCAN", Send(cmdQ[s], m)) <= Count("SCAN", cmdQ[s])
      BY <1>1, <2>1, CountSend
    <3>2. QED
      BY <2>2, <3>1
  <2>4. Count("SCAN", cmdPipe'[v]) = Count("SCAN", cmdPipe[v])
    <3>1. cmdPipe'[v] = Append(cmdPipe[v], m) \/ cmdPipe'[v] = cmdPipe[v]
      BY <1>3, <2>1 DEF StopAll
    <3>2. Count("SCAN", Append(cmdPipe[v], m)) = Count("SCAN", cmdPipe[v])
      BY <1>1, <2>1, Counts
    <3>3. QED
      BY <3>1, <3>2
  <2>5. UNCHANGED <<retQ, ipc, worker, ctrlPipe>>
    BY <1>3 DEF StopAll, ipcAndWorkers, ipcVars
  <2>6. AtWorker(v)' = AtWorker(v)
    BY <2>4, <2>5 DEF AtWorker
  <2>7. PICK a \in Nat : a = AtWorker(v) /\ a = AtWorker(v)'
    BY <2>6, LoadNat
  <2>8. PICK c \in Nat, c2 \in Nat :
          c = Count("SCAN", cmdQ[s]) /\ c2 = Count("SCAN", cmdQ'[s]) /\ c2 <= c
    BY <2>3, LoadNat, NextLoadNat
  <2>9. PICK h \in Nat : h = Has(ipc[s].hand)
    BY LoadNat
  <2>10. PICK d \in Nat, f \in Nat : d = Count("DROP", retQ[s]) /\ f = Count("FINISH", retQ[s])
    BY LoadNat
  <2>11. Load(s) = c + h + d + f + a /\ Load(s)' = c2 + h + d + f + a
    BY <1>2, <2>5, <2>7, <2>8, <2>9, <2>10 DEF Load
  <2>12. QED
    BY <2>8, <2>11
<1>4. CASE Join
  <2>1. /\ cmdQ'[s] = <<>> /\ retQ'[s] = <<>> /\ ipc'[s].hand = ipc[s].hand
        /\ UNCHANGED <<worker, cmdPipe, ctrlPipe>>
    BY <1>1, <1>4 DEF Join, QueuesDestroyed, Destroyed, Stopped, Threads, workerVars
  <2>2. PICK a \in Nat : a = AtWorker(v) /\ a = AtWorker(v)'
    BY <2>1, LoadNat DEF AtWorker
  <2>3. PICK h \in Nat : h = Has(ipc[s].hand)
    BY LoadNat
  <2>4. PICK c \in Nat, d \in Nat, f \in Nat :
          /\ c = Count("SCAN", cmdQ[s])
          /\ d = Count("DROP", retQ[s]) /\ f = Count("FINISH", retQ[s])
    BY LoadNat
  <2>5. Load(s) = c + h + d + f + a
    BY <1>2, <2>2, <2>3, <2>4 DEF Load
  <2>6. Load(s)' = 0 + h + 0 + 0 + a
    BY <1>2, <2>1, <2>2, <2>3, NoCount DEF Load
  <2>7. QED
    BY <2>5, <2>6
<1>5. CASE DestroyWorkers
  <2>1. /\ UNCHANGED <<cmdQ, retQ, ipc, cmdPipe>>
        /\ worker'[v] = NoProcess \/ (worker'[v] = worker[v] /\ ctrlPipe'[v] = ctrlPipe[v])
    BY <1>1, <1>5 DEF DestroyWorkers, DieAll, ipcVars
  <2>2. PICK a \in Nat, a2 \in Nat : a = AtWorker(v) /\ a2 = AtWorker(v)' /\ a2 <= a
    <3>1. AtWorker(v)' = 0 \/ AtWorker(v)' = AtWorker(v)
      BY <2>1 DEF AtWorker, NoProcess
    <3>2. PICK a \in Nat, a2 \in Nat : a = AtWorker(v) /\ a2 = AtWorker(v)'
      BY LoadNat, NextLoadNat
    <3>3. QED
      BY <3>1, <3>2
  <2>3. PICK h \in Nat : h = Has(ipc[s].hand)
    BY LoadNat
  <2>4. PICK c \in Nat, d \in Nat, f \in Nat :
          /\ c = Count("SCAN", cmdQ[s])
          /\ d = Count("DROP", retQ[s]) /\ f = Count("FINISH", retQ[s])
    BY LoadNat
  <2>5. Load(s) = c + h + d + f + a /\ Load(s)' = c + h + d + f + a2
    BY <1>2, <2>1, <2>2, <2>3, <2>4 DEF Load
  <2>6. QED
    BY <2>2, <2>5
<1>6. QED
  BY <1>3, <1>4, <1>5

\* Every other place of the main thread leaves pending_tasks to those two.
LEMMA MainOwes ==
  ASSUME BusTypes, BusTypes', Quiet, QuietPipes, TasksOwed, MainStep
  PROVE  TasksOwed'
<1>1. /\ slot \in [Slots -> SlotRecords] /\ cur \in Slots /\ lost \in Seq(Dirs)
      /\ \A s \in Slots : Load(s) \in Nat /\ Load(s)' \in Nat
  BY LoadNat, NextLoadNat DEF BusTypes, MasterTypes
<1>2. ASSUME UNCHANGED <<cmdQ, retQ, ipc, worker, cmdPipe, ctrlPipe>>
      PROVE  \A s \in Slots : Load(s)' = Load(s)
  BY <1>2 DEF Load, AtWorker
<1>3. ASSUME UNCHANGED <<cmdQ, retQ, ipc, worker, cmdPipe, ctrlPipe, slot, pendingTasks>>
      PROVE  TasksOwed'
  <2>1. \A s \in Slots : Load(s)' <= Load(s) /\ (Bound(s)' => Bound(s))
    BY <1>1, <1>2, <1>3 DEF Bound
  <2>2. QED
    BY <1>1, <1>3, <2>1, TasksFrame
<1>4. CASE RecvFinish
  BY <1>4, FinishOwes
<1>5. CASE RecvBatch \/ RecvDead \/ RecvDrop
  <2>1. UNCHANGED <<slot, pendingTasks, cmdPipe>> /\ \E t : Receive(t)
    BY <1>5, QuietMain DEF RecvBatch, RecvDead, RecvDrop
  <2>2. \A s \in Slots : Load(s)' <= Load(s) /\ (Bound(s)' => Bound(s))
    BY <2>1, ReceiveLoad DEF Bound
  <2>3. QED
    BY <1>1, <2>1, <2>2, TasksFrame
<1>6. CASE RecvReady
  <2>1. /\ UNCHANGED <<pendingTasks, cmdPipe>> /\ Receive("READY")
        /\ slot' = [slot EXCEPT ![cur].state = "IDLE"]
    BY <1>6 DEF RecvReady
  <2>2. \A s \in Slots : Bound(s)' => Bound(s)
    BY <1>1, <2>1 DEF Bound, SlotRecords
  <2>3. \A s \in Slots : Load(s)' <= Load(s)
    BY <2>1, ReceiveLoad
  <2>4. QED
    BY <1>1, <2>1, <2>2, <2>3, TasksFrame
<1>7. ASSUME NEW p \in Dirs, NEW k \in 0 .. NumWorkers - 1, UNCHANGED <<retQ, cmdPipe>>,
             UNCHANGED ipcAndWorkers,
             \/ Dispatch(k, p)
             \/ /\ DispatchFails(k)
                /\ UNCHANGED slot \/ slot' = [slot EXCEPT ![Candidate(k)].path = p]
      PROVE  TasksOwed'
  <2>1. UNCHANGED <<ipc, worker, ctrlPipe>>
    BY <1>7 DEF ipcAndWorkers, ipcVars
  <2>2. CASE Dispatch(k, p)
    BY <1>7, <2>1, <2>2, DispatchOwes
  <2>3. CASE /\ DispatchFails(k)
             /\ UNCHANGED slot \/ slot' = [slot EXCEPT ![Candidate(k)].path = p]
    <3>1. UNCHANGED <<cmdQ, pendingTasks>>
      BY <2>3 DEF DispatchFails
    <3>2. \A s \in Slots : Bound(s)' => Bound(s)
      BY <1>1, <2>3 DEF Bound, SlotRecords
    <3>3. \A s \in Slots : Load(s)' <= Load(s)
      BY <1>1, <1>2, <1>7, <2>1, <3>1
    <3>4. QED
      BY <1>1, <3>1, <3>2, <3>3, TasksFrame
  <2>4. QED
    BY <1>7, <2>2, <2>3
<1>8. CASE \E p \in Paths : DirEntry(p)
  <2>1. PICK p \in Paths : DirEntry(p)
    BY <1>8
  <2>2. /\ p \in Dirs /\ UNCHANGED <<retQ, cmdPipe>> /\ UNCHANGED ipcAndWorkers
        /\ \E k \in 0 .. NumWorkers - 1 :
             \/ Dispatch(k, p)
             \/ DispatchFails(k) /\ slot' = [slot EXCEPT ![Candidate(k)].path = p]
    BY <2>1 DEF DirEntry, Entry
  <2>3. QED
    BY <1>7, <2>2
<1>9. CASE DispatchLost
  <2>1. PICK p \in Dirs : p = Oldest(lost)
    BY <1>1, <1>9, Received DEF DispatchLost, Oldest
  <2>2. /\ UNCHANGED <<retQ, cmdPipe>> /\ UNCHANGED ipcAndWorkers
        /\ \E k \in 0 .. NumWorkers - 1 :
             Dispatch(k, p) \/ (DispatchFails(k) /\ UNCHANGED slot)
    BY <1>9, <2>1 DEF DispatchLost
  <2>3. QED
    BY <1>7, <2>2
<1>10. CASE StopAll \/ Join \/ DestroyWorkers
  <2>1. UNCHANGED <<slot, pendingTasks>>
    BY <1>10 DEF StopAll, Join, DestroyWorkers
  <2>2. \A s \in Slots : Bound(s)' => Bound(s)
    BY <2>1 DEF Bound
  <2>3. \A s \in Slots : Load(s)' <= Load(s)
    BY <1>10, StopLoad
  <2>4. QED
    BY <1>1, <2>1, <2>2, <2>3, TasksFrame
<1>11. CASE \/ PollBatch \/ PollEnd \/ BatchEnd \/ SkipEntry
            \/ \E p \in Paths : FileEntry(p) \/ DirEntryWaits(p)
  <2>1. UNCHANGED <<cmdQ, retQ, ipc, worker, cmdPipe, ctrlPipe, slot, pendingTasks>>
    BY <1>11 DEF PollBatch, PollEnd, BatchEnd, SkipEntry, FileEntry, DirEntryWaits, Entry,
                 ipcAndWorkers, ipcVars
  <2>2. QED
    BY <1>3, <2>1
<1>12. CASE ReplaceNone \/ LostEnd \/ NextTurn \/ RecvEnd
  <2>1. UNCHANGED <<cmdQ, retQ, ipc, worker, cmdPipe, ctrlPipe, slot, pendingTasks>>
    BY <1>12 DEF ReplaceNone, LostEnd, NextTurn, RecvEnd, ipcAndWorkers, ipcVars
  <2>2. QED
    BY <1>3, <2>1
<1>13. QED
  BY <1>4, <1>5, <1>6, <1>8, <1>9, <1>10, <1>11, <1>12, QuietMain DEF MainStep, Recv, Process


\* The batches the master has in hand are those that pending_batches counts.
LEMMA PoolCounts ==
  ASSUME BusTypes, BatchesCounted, PoolStep
  PROVE  BatchesCounted'
<1>1. /\ poolQ \in Seq(Batches) /\ working \in Seq(Batches) /\ completed \in Seq(Blanked)
      /\ visited \subseteq Paths /\ UNCHANGED <<pendingBatches, batch>>
  BY DEF BusTypes, BatchTypes, PoolStep, PoolTake, PoolComplete, masterVars
<1>2. PICK a \in Nat, b \in Nat, c \in Nat :
        a = Len(poolQ) /\ b = Len(working) /\ c = Len(completed)
  BY <1>1, LenProperties
<1>3. CASE PoolTake
  <2>1. /\ poolQ # <<>> /\ poolQ' = Tail(poolQ) /\ completed' = completed
        /\ working' = Append(working, Head(poolQ))
    BY <1>3 DEF PoolTake
  <2>2. Head(poolQ) \in Batches /\ Len(Tail(poolQ)) = a - 1
    BY <1>1, <1>2, <2>1, HeadTailProperties
  <2>3. Len(poolQ') = a - 1 /\ Len(working') = b + 1 /\ Len(completed') = c
    BY <1>1, <1>2, <2>1, <2>2, AppendProperties
  <2>4. BatchesInHand' = BatchesInHand
    BY <1>1, <1>2, <2>3 DEF BatchesInHand
  <2>5. QED
    BY <1>1, <2>4 DEF BatchesCounted
<1>4. ASSUME NEW i \in 1 .. PoolThreads, PoolComplete(i) PROVE BatchesCounted'
  <2>1. /\ i \in DOMAIN working /\ working' = RemoveAt(working, i) /\ poolQ' = poolQ
        /\ completed' = Append(completed, Dedup(working[i]))
    BY <1>4 DEF PoolComplete
  <2>2. Len(RemoveAt(working, i)) = b - 1
    <3>1. i \in 1 .. b
      BY <1>1, <1>2, <2>1, LenProperties
    <3>2. SubSeq(working, 1, i - 1) \in Seq(Batches) /\ Len(SubSeq(working, 1, i - 1)) = i - 1
      BY <1>1, <1>2, <3>1, SubSeqProperties
    <3>3. /\ SubSeq(working, i + 1, b) \in Seq(Batches)
          /\ Len(SubSeq(working, i + 1, b)) = b - i
      BY <1>1, <1>2, <3>1, SubSeqProperties
    <3>4. Len(SubSeq(working, 1, i - 1) \o SubSeq(working, i + 1, b)) = (i - 1) + (b - i)
      BY <3>2, <3>3, ConcatProperties
    <3>5. RemoveAt(working, i) = SubSeq(working, 1, i - 1) \o SubSeq(working, i + 1, b)
      BY <1>2 DEF RemoveAt
    <3>6. (i - 1) + (b - i) = b - 1
      BY <1>2, <3>1
    <3>7. QED
      BY <3>4, <3>5, <3>6
  <2>3. Dedup(working[i]) \in Blanked
    <3>1. working[i] \in Batches
      BY <1>1, <2>1, LenProperties, ElementOfSeq
    <3>2. QED
      BY <1>1, <3>1, DedupWorks
  <2>4. Len(poolQ') = a /\ Len(working') = b - 1 /\ Len(completed') = c + 1
    BY <1>1, <1>2, <2>1, <2>2, <2>3, AppendProperties
  <2>5. BatchesInHand' = BatchesInHand
    BY <1>1, <1>2, <2>4 DEF BatchesInHand
  <2>6. QED
    BY <1>1, <2>5 DEF BatchesCounted
<1>5. QED
  BY <1>3, <1>4 DEF PoolStep

LEMMA MainCounts ==
  ASSUME BusTypes, BatchesCounted, MainStep
  PROVE  BatchesCounted'
<1>1. /\ poolQ \in Seq(Batches) /\ working \in Seq(Batches) /\ completed \in Seq(Blanked)
      /\ visited \subseteq Paths /\ batch \in Blanked \cup {None} /\ cur \in Slots
      /\ retQ \in [Slots -> Seq(Reports)]
  BY DEF BusTypes, BatchTypes, MasterTypes, QueueTypes
<1>2. PICK a \in Nat, b \in Nat, c \in Nat :
        a = Len(poolQ) /\ b = Len(working) /\ c = Len(completed)
  BY <1>1, LenProperties
<1>3. None \notin Blanked
  BY TreeAssumption DEF Blanked
<1>4. pendingBatches = a + b + c + IF batch = None THEN 0 ELSE 1
  BY <1>2 DEF BatchesCounted, BatchesInHand
<1>5. CASE RecvBatch
  <2>1. PICK e : e = Head(retQ[cur]).arg
    OBVIOUS
  <2>2. e \in Batches
    <3>1. Head(retQ[cur]) \in Reports /\ Head(retQ[cur]).type = "BATCH"
      BY <1>1, <1>5, Received DEF RecvBatch, Receive, HeadIs
    <3>2. QED
      BY <2>1, <3>1 DEF Reports, DataMsgs, CtrlMsgs
  <2>3. /\ batch = None /\ pendingBatches' = pendingBatches + 1
        /\ UNCHANGED <<working, completed>>
        /\ \/ poolQ' = Append(poolQ, e) /\ batch' = None
           \/ poolQ' = poolQ /\ batch' = Dedup(e)
    BY <1>5, <2>1 DEF RecvBatch, Receive, Phase
  <2>4. Len(Append(poolQ, e)) = a + 1 /\ Dedup(e) # None
    BY <1>1, <1>2, <1>3, <2>2, AppendProperties, DedupWorks
  <2>5. QED
    BY <1>2, <1>4, <2>3, <2>4 DEF BatchesCounted, BatchesInHand
<1>6. CASE PollBatch
  <2>1. /\ batch = None /\ completed # <<>> /\ batch' = Head(completed)
        /\ completed' = Tail(completed) /\ UNCHANGED <<pendingBatches, poolQ, working>>
    BY <1>6 DEF PollBatch, Phase
  <2>2. Head(completed) # None /\ Len(Tail(completed)) = c - 1
    BY <1>1, <1>2, <1>3, <2>1, HeadTailProperties
  <2>3. QED
    BY <1>2, <1>4, <2>1, <2>2 DEF BatchesCounted, BatchesInHand
<1>7. CASE SkipEntry \/ \E p \in Paths : FileEntry(p) \/ DirEntry(p) \/ DirEntryWaits(p)
  <2>1. /\ batch # None /\ batch # <<>> /\ batch' = Tail(batch)
        /\ UNCHANGED <<pendingBatches, poolQ, working, completed>>
    BY <1>7 DEF SkipEntry, FileEntry, DirEntry, DirEntryWaits, Entry, poolVars
  <2>2. Tail(batch) # None
    BY <1>1, <1>3, <2>1, Received DEF Blanked
  <2>3. QED
    BY <1>2, <1>4, <2>1, <2>2 DEF BatchesCounted, BatchesInHand
<1>8. CASE BatchEnd
  <2>1. /\ batch = <<>> /\ batch' = None /\ pendingBatches' = pendingBatches - 1
        /\ UNCHANGED <<poolQ, working, completed>>
    BY <1>8 DEF BatchEnd, poolVars
  <2>2. <<>> # None
    BY <1>3, EmptySeq DEF Blanked
  <2>3. QED
    BY <1>2, <1>4, <2>1, <2>2 DEF BatchesCounted, BatchesInHand
<1>9. CASE \/ RecvReady \/ RecvFinish \/ RecvDead \/ RecvDevTimeout \/ RecvExit \/ RecvDrop
           \/ RecvEnd \/ PollEnd
  <2>1. UNCHANGED <<pendingBatches, poolQ, working, completed, batch>>
    BY <1>9 DEF RecvReady, RecvFinish, RecvDead, RecvDevTimeout, RecvExit, RecvDrop, RecvEnd,
                PollEnd, Receive, poolVars
  <2>2. QED
    BY <2>1 DEF BatchesCounted, BatchesInHand
<1>10. CASE \/ Respawn \/ ReplaceNone \/ DispatchLost \/ LostEnd \/ NextTurn
            \/ StopAll \/ Join \/ DestroyWorkers
  <2>1. UNCHANGED <<pendingBatches, poolQ, working, completed, batch>>
    BY <1>10 DEF Respawn, ReplaceNone, DispatchLost, LostEnd, NextTurn, StopAll, Join,
                 DestroyWorkers, poolVars
  <2>2. QED
    BY <2>1 DEF BatchesCounted, BatchesInHand
<1>11. QED
  BY <1>5, <1>6, <1>7, <1>8, <1>9, <1>10 DEF MainStep, Recv, Process

\* The loop ends with idle workers only, so with no lost task.
LEMMA MainEnds ==
  ASSUME BusTypes, QuietInv, MainStep
  PROVE  LostWaits' /\ NothingPending'
<1>1. /\ Quiet /\ TasksOwed /\ BatchesCounted /\ LostWaits /\ NothingPending
      /\ lost \in Seq(Dirs) /\ poolQ \in Seq(Batches) /\ working \in Seq(Batches)
      /\ completed \in Seq(Blanked)
  BY DEF QuietInv, BusTypes, MasterTypes, BatchTypes
<1>2. Over => batch = None
  <2>1. PICK a \in Nat, b \in Nat, c \in Nat :
          a = Len(poolQ) /\ b = Len(working) /\ c = Len(completed)
    BY <1>1, LenProperties
  <2>2. pendingBatches = a + b + c + IF batch = None THEN 0 ELSE 1
    BY <1>1, <2>1 DEF BatchesCounted, BatchesInHand
  <2>3. Over => pendingBatches = 0
    BY <1>1 DEF NothingPending
  <2>4. QED
    BY <2>1, <2>2, <2>3
<1>3. CASE StopAll
  <2>1. /\ mpc = "check" /\ mpc' = "stopping" /\ pendingTasks = 0 /\ pendingBatches = 0
        /\ UNCHANGED <<pendingTasks, pendingBatches, lost>>
    BY <1>3 DEF StopAll, Phase, AllDone
  <2>2. lost = <<>>
    <3>1. ~Bound(0)
      <4>1. Bound(0) => pendingTasks > 0
        BY <1>1, OutstandingCovered, Sizes
      <4>2. QED
        BY <2>1, <4>1
    <3>2. slot[0].state # "DEAD" /\ slot[0].alive /\ slot[0].state \in {"INITIALIZING", "IDLE",
            "BUSY", "DEAD"}
      BY <1>1, Sizes DEF Quiet, BusTypes, MasterTypes, SlotRecords
    <3>3. Idle(0)
      BY <3>1, <3>2 DEF Bound, Idle
    <3>4. QED
      BY <1>1, <2>1, <3>3, Sizes DEF LostWaits, NoneIdle
  <2>3. QED
    BY <2>1, <2>2 DEF LostWaits, NothingPending, Over
<1>4. CASE LostEnd
  <2>1. /\ mpc' = "check" /\ batch = None /\ batch' = batch /\ slot' = slot
        /\ lost = <<>> \/ NoneIdle
        /\ lost = <<>> => lost' = lost
    BY <1>4 DEF LostEnd, Phase
  <2>2. QED
    BY <2>1 DEF LostWaits, NothingPending, NoneIdle, Idle, Over
<1>5. CASE Join \/ DestroyWorkers
  <2>1. /\ mpc \in {"stopping", "joined"} /\ mpc' \in {"joined", "done"}
        /\ UNCHANGED <<pendingTasks, pendingBatches>> /\ (lost' = lost \/ lost' = <<>>)
    BY <1>5 DEF Join, DestroyWorkers, LostDestroyed
  <2>2. QED
    BY <1>1, <2>1 DEF LostWaits, NothingPending, Over
<1>6. CASE \/ BatchEnd \/ SkipEntry
           \/ \E p \in Paths : FileEntry(p) \/ DirEntry(p) \/ DirEntryWaits(p)
  <2>1. mpc' = mpc /\ batch # None
    BY <1>6, TreeAssumption, EmptySeq
       DEF BatchEnd, SkipEntry, FileEntry, DirEntry, DirEntryWaits, Entry
  <2>2. mpc # "check" /\ ~Over
    BY <1>1, <1>2, <2>1 DEF LostWaits
  <2>3. QED
    BY <2>1, <2>2 DEF LostWaits, NothingPending, Over
<1>7. CASE Recv \/ PollBatch \/ PollEnd \/ Respawn \/ ReplaceNone \/ DispatchLost \/ NextTurn
  <2>1. mpc' \in {"recv", "batch", "replace", "lost"}
    BY <1>7 DEF Recv, RecvBatch, RecvReady, RecvFinish, RecvDead, RecvDevTimeout, RecvExit,
         RecvDrop, RecvEnd, Receive, Phase, NextSlot, PollBatch, PollEnd, Respawn,
         ReplaceNone, DispatchLost, NextTurn, WaitForMessages
  <2>2. QED
    BY <2>1 DEF LostWaits, NothingPending, Over
<1>8. QED
  BY <1>3, <1>4, <1>5, <1>6, <1>7 DEF MainStep, Process


LEMMA QuietInit == Init => QuietInv
<1> SUFFICES ASSUME Init PROVE QuietInv
  OBVIOUS
<1>1. BusTypes
  BY InitTypes
<1>2. /\ \A s \in Slots : /\ slot[s].alive /\ slot[s].pid = 1
                          /\ slot[s].state = "INITIALIZING"
      /\ retQ = [s \in Slots |-> <<>>] /\ \A s \in Slots : ipc[s].hand = None
      /\ mpc = "recv" /\ batch = None /\ pendingTasks = 1 /\ pendingBatches = 0
      /\ poolQ = <<>> /\ working = <<>> /\ completed = <<>>
  BY DEF Init, ContextInit, SpawnWorkers, InitIpcThreads, SeedRoot, NewSlot, NewIpc
<1>3. \A w \in Workers :
        /\ w[2] # 1 => ~worker[w].up
        /\ ~worker[w].stop /\ ~worker[w].exited
        /\ worker[w].mail = None /\ worker[w].task = None
        /\ cmdPipe[w] = <<>> /\ ctrlPipe[w] = <<>>
  BY DEF Init, SpawnWorkers, NewProcess, NoProcess
<1>4. Quiet
  BY <1>2, <1>3 DEF Quiet
<1>5. QuietPipes
  BY <1>2, <1>3, EmptySeq DEF QuietPipes
<1>6. TasksOwed
  <2>1. \A s \in Slots : Count("SCAN", cmdQ[s]) = IF s = 0 THEN 1 ELSE 0
    <3>1. PICK m \in Commands : m = Msg("REPLACE", 1) /\ m.type = "REPLACE"
      <4>1. 1 \in Pids
        BY Sizes DEF Pids
      <4>2. Msg("REPLACE", 1) \in Commands /\ Msg("REPLACE", 1).type = "REPLACE"
        BY <4>1 DEF Msg, Commands
      <4>3. QED
        BY <4>2
    <3>2. PICK x \in Commands : x = Msg("SCAN", Root) /\ x.type = "SCAN"
      <4>1. Msg("SCAN", Root) \in Commands /\ Msg("SCAN", Root).type = "SCAN"
        BY Sizes DEF Msg, Commands, PipeCommands
      <4>2. QED
        BY <4>1
    <3>3. PICK q : q = Append(<<>>, m)
      OBVIOUS
    <3>4. q \in Seq(Commands) /\ SendReplace(<<>>, 1) = q
      <4>1. QueueCap \in Nat /\ 0 < QueueCap
        BY SizeAssumption
      <4>2. <<>> \in Seq(Commands) /\ Len(<<>>) = 0
        BY EmptySeq
      <4>3. QED
        BY <3>1, <3>3, <4>1, <4>2, Sent DEF SendReplace, Send
    <3>5. Count("SCAN", q) = 0
      <4>1. PICK e \in Seq(Commands) : e = <<>> /\ Count("SCAN", e) = 0
        BY EmptySeq, NoCount
      <4>2. Count("SCAN", Append(e, m)) = IF m.type = "SCAN" THEN Count("SCAN", e) + 1
                                                           ELSE Count("SCAN", e)
        BY <3>1, Counts
      <4>3. QED
        BY <3>1, <3>3, <4>1, <4>2
    <3>6. Count("SCAN", Append(q, x)) = 1
      BY <3>2, <3>4, <3>5, Counts
    <3>7. q \o <<x>> = Append(q, x) /\ q \o <<>> = q
      BY <3>2, <3>4, AppendIsConcat, ConcatEmptySeq
    <3>8. \A s \in Slots : cmdQ[s] = IF s = 0 THEN q \o <<x>> ELSE q \o <<>>
      BY <3>2, <3>4 DEF Init, SeedRoot
    <3>9. QED
      BY <3>5, <3>6, <3>7, <3>8
  <2>2. \A s \in Slots : Load(s) = IF s = 0 THEN 1 ELSE 0
    <3>1. SUFFICES ASSUME NEW s \in Slots PROVE Load(s) = IF s = 0 THEN 1 ELSE 0
      OBVIOUS
    <3>2. PICK v \in Workers : v = <<s, 1>>
      <4>1. <<s, 1>> \in Workers
        BY Sizes DEF Workers
      <4>2. QED
        BY <4>1
    <3>3. AtWorker(v) = 0
      BY <1>3, NoCount DEF AtWorker, Has
    <3>4. PICK n \in 0 .. 1 : n = Count("SCAN", cmdQ[s]) /\ n = IF s = 0 THEN 1 ELSE 0
      BY <2>1
    <3>5. Load(s) = n + 0 + 0 + 0 + 0
      BY <1>2, <3>2, <3>3, <3>4, NoCount DEF Load, Has
    <3>6. QED
      BY <3>4, <3>5
  <2>3. PICK owed : owed = [s \in Slots |-> IF s = 0 THEN 1 ELSE 0]
    OBVIOUS
  <2>4. /\ owed \in [Slots -> Nat] /\ 0 \in Slots /\ owed[0] = 1 /\ IsFiniteSet(Slots)
        /\ \A s \in Slots : s # 0 => owed[s] = 0
    BY <2>3, Sizes, FS_Interval
  <2>5. Total(owed, Slots) = 1
    <3>1. PICK g : Sums(g, owed, SUBSET Slots) /\ Total(owed, Slots) = g[Slots]
      BY <2>4, TotalIsSum
    <3>2. g[Slots] = owed[0]
      BY <2>4, <3>1, SumsOnly
    <3>3. QED
      BY <2>4, <3>1, <3>2
  <2>6. \A s \in Slots : Load(s) <= owed[s] /\ (Bound(s) => owed[s] > 0)
    BY <1>2, <2>2, <2>3 DEF Bound
  <2>7. QED
    BY <1>2, <2>4, <2>5, <2>6 DEF TasksOwed, Owed
<1>7. BatchesCounted
  BY <1>2, EmptySeq DEF BatchesCounted, BatchesInHand
<1>8. LostWaits /\ NothingPending
  BY <1>2 DEF LostWaits, NothingPending, Over
<1>9. QED
  BY <1>4, <1>5, <1>6, <1>7, <1>8 DEF QuietInv

\* The steps that are no faults keep the counters.
LEMMA StepKeepsQuiet ==
  BusTypes /\ QuietInv /\ [Next]_vars /\ [UNCHANGED faults]_vars => QuietInv'
<1> SUFFICES ASSUME BusTypes, QuietInv, [Next]_vars, [UNCHANGED faults]_vars PROVE QuietInv'
  OBVIOUS
<1>1. BusTypes' /\ Quiet /\ QuietPipes /\ TasksOwed /\ BatchesCounted /\ LostWaits
      /\ NothingPending
  BY StepKeepsTypes DEF QuietInv
<1>2. \A s \in Slots : Load(s) \in Nat /\ Load(s)' \in Nat
  BY <1>1, LoadNat, NextLoadNat
<1>3. faults' = faults
  BY DEF vars
<1>4. \A kind : ~Fault(kind)
  BY <1>3 DEF Fault
<1>5. ASSUME UNCHANGED masterVars, UNCHANGED poolVars
      PROVE  BatchesCounted' /\ LostWaits' /\ NothingPending'
  BY <1>1, <1>5 DEF masterVars, poolVars, BatchesCounted, BatchesInHand, LostWaits, NothingPending,
                    Over, NoneIdle, Idle
<1>6. ASSUME UNCHANGED <<slot, pendingTasks>>, \A s \in Slots : Load(s)' <= Load(s)
      PROVE  TasksOwed'
  <2>1. \A s \in Slots : Bound(s)' => Bound(s)
    BY <1>6 DEF Bound
  <2>2. QED
    BY <1>1, <1>2, <1>6, <2>1, TasksFrame
<1>7. CASE MainStep
  BY <1>1, <1>7, MainKeepsQuiet, MainOwes, MainCounts, MainEnds DEF QuietInv
<1>8. CASE PoolStep
  <2>1. UNCHANGED <<masterVars, cmdQ, retQ, cmdPipe, ipc, worker, ctrlPipe>>
    BY <1>8 DEF PoolStep, PoolTake, PoolComplete, ipcAndWorkers, ipcVars
  <2>2. \A s \in Slots : Load(s)' = Load(s)
    BY <2>1 DEF Load, AtWorker
  <2>3. TasksOwed'
    BY <1>2, <1>6, <2>1, <2>2 DEF masterVars
  <2>4. Quiet' /\ QuietPipes'
    BY <1>1, <2>1 DEF masterVars, Quiet, QuietPipes, Scanning
  <2>5. LostWaits' /\ NothingPending'
    BY <1>1, <2>1 DEF masterVars, LostWaits, NothingPending, Over, NoneIdle, Idle
  <2>6. QED
    BY <1>1, <1>8, <2>3, <2>4, <2>5, PoolCounts DEF QuietInv
<1>9. ASSUME NEW s \in Slots, IpcStep(s) PROVE QuietInv'
  <2>1. Quiet' /\ QuietPipes' /\ UNCHANGED <<slot, pendingTasks>>
    BY <1>1, <1>9, ThreadKeepsQuiet
  <2>2. TasksOwed'
    BY <1>1, <1>6, <1>9, <2>1, ThreadLoad
  <2>3. /\ UNCHANGED <<pendingBatches, batch, lost>> /\ UNCHANGED poolVars
        /\ mpc' = mpc \/ mpc' = "killed"
    BY <1>9 DEF IpcStep, HandleCmd, Replace, DropScan, ForwardScan, RetryScan, PushBack,
                GiveUpScan, BrokenPipe, Stop, ReadData, ReadCtrl, ReadExit, HangUp, masterVars
  <2>4. BatchesCounted' /\ LostWaits' /\ NothingPending'
    BY <1>1, <2>1, <2>3 DEF poolVars, BatchesCounted, BatchesInHand, LostWaits, NothingPending,
                            Over, NoneIdle, Idle
  <2>5. QED
    BY <2>1, <2>2, <2>4 DEF QuietInv
<1>10. ASSUME NEW w \in Workers, WorkerMain(w) \/ Scanner(w) PROVE QuietInv'
  <2>1. UNCHANGED masterVars /\ UNCHANGED poolVars /\ UNCHANGED <<cmdQ, retQ, ipc>>
    BY <1>10 DEF WorkerMain, Scanner, SendReady, ReadScan, ReadStop, SendExit, ExitProcess,
                 Orphaned, TakeTask, SendBatch, SendFinish, others, ipcVars
  <2>2. \A s \in Slots : Load(s)' <= Load(s)
    <3>1. SUFFICES ASSUME NEW s \in Slots PROVE Load(s)' <= Load(s)
      OBVIOUS
    <3>2. PICK v \in Workers : v = <<s, 1>>
      <4>1. <<s, 1>> \in Workers
        BY Sizes DEF Workers
      <4>2. QED
        BY <4>1
    <3>3. PICK a \in Nat, a2 \in Nat : a = AtWorker(v) /\ a2 = AtWorker(v)' /\ a2 <= a
      <4>1. AtWorker(v) \in Nat /\ AtWorker(v)' \in Nat /\ AtWorker(v)' <= AtWorker(v)
        BY <1>1, <1>10, LoadNat, NextLoadNat, WorkerLoad
      <4>2. QED
        BY <4>1
    <3>4. PICK c \in Nat, h \in Nat, d \in Nat, f \in Nat :
            /\ c = Count("SCAN", cmdQ[s]) /\ h = Has(ipc[s].hand)
            /\ d = Count("DROP", retQ[s]) /\ f = Count("FINISH", retQ[s])
      BY LoadNat
    <3>5. Load(s) = c + h + d + f + a /\ Load(s)' = c + h + d + f + a2
      BY <2>1, <3>2, <3>3, <3>4 DEF Load
    <3>6. QED
      BY <3>3, <3>5
  <2>3. TasksOwed'
    BY <1>6, <2>1, <2>2 DEF masterVars
  <2>4. QED
    BY <1>1, <1>5, <1>10, <2>1, <2>3, WorkerKeepsQuiet DEF QuietInv
<1>11. CASE UNCHANGED vars \/ Terminated
  <2>1. UNCHANGED vars
    BY <1>11 DEF Terminated
  <2>2. /\ UNCHANGED masterVars /\ UNCHANGED poolVars
        /\ UNCHANGED <<cmdQ, retQ, ipc, worker, cmdPipe, ctrlPipe>>
    BY <2>1 DEF vars, ipcVars, workerVars
  <2>3. \A s \in Slots : Load(s)' = Load(s)
    BY <2>2 DEF Load, AtWorker
  <2>4. TasksOwed'
    BY <1>2, <1>6, <2>2, <2>3 DEF masterVars
  <2>5. Quiet' /\ QuietPipes'
    BY <1>1, <2>2 DEF masterVars, Quiet, QuietPipes, Scanning
  <2>6. QED
    BY <1>5, <2>2, <2>4, <2>5 DEF QuietInv
<1>12. /\ ~SpawnFails /\ \A s \in Slots : ~TimeoutKill(s)
       /\ \A w \in Workers : ~WorkerFault(w)
  BY <1>4 DEF SpawnFails, TimeoutKill, WorkerFault, Quit, DevTimeout, Crash
<1>13. QED
  BY <1>7, <1>8, <1>9, <1>10, <1>11, <1>12 DEF Next

\* While no fault happens, pending_tasks never falls below the scans under way: what
\* is still a SCAN, in a thread's hand, in a mailbox, at a scanner, a FINISH or a DROP.
THEOREM CountersCover == Spec /\ [][UNCHANGED faults]_vars => []PendingCovers
<1>1. Init => BusTypes /\ QuietInv
  BY InitTypes, QuietInit
<1>2. (BusTypes /\ QuietInv) /\ [Next]_vars /\ [UNCHANGED faults]_vars => (BusTypes /\ QuietInv)'
  BY StepKeepsTypes, StepKeepsQuiet
<1>3. BusTypes /\ QuietInv => PendingCovers
  BY OutstandingCovered DEF QuietInv, PendingCovers
<1>4. QED
  BY <1>1, <1>2, <1>3, PTL DEF Spec, SafeSpec

\* While no fault happens, the loop ends with no directory left waiting, none being
\* scanned and no batch left in the thread pool (step 8 of main_loop_run).
THEOREM NothingIsLeft == Spec /\ [][UNCHANGED faults]_vars => []NothingLeft
<1>1. Init => BusTypes /\ QuietInv
  BY InitTypes, QuietInit
<1>2. (BusTypes /\ QuietInv) /\ [Next]_vars /\ [UNCHANGED faults]_vars => (BusTypes /\ QuietInv)'
  BY StepKeepsTypes, StepKeepsQuiet
<1>3. BusTypes /\ QuietInv => NothingLeft
  <2>1. SUFFICES ASSUME BusTypes, QuietInv, Over
                 PROVE  lost = <<>> /\ Outstanding = 0 /\ BatchesInHand = 0
    BY DEF NothingLeft, Over
  <2>2. lost = <<>> /\ pendingTasks = 0 /\ BatchesInHand = 0
    BY <2>1 DEF QuietInv, NothingPending, BatchesCounted
  <2>3. Outstanding \in Nat /\ Outstanding <= pendingTasks
    BY <2>1, OutstandingCovered DEF QuietInv
  <2>4. QED
    BY <2>2, <2>3
<1>4. QED
  BY <1>1, <1>2, <1>3, PTL DEF Spec, SafeSpec
=============================================================================
