---------------------------- MODULE ProgressRun ----------------------------
(***************************************************************************)
(* The scan of one run as its progress files see it, with a list that      *)
(* includes directories, and the kill that may end it between any two      *)
(* steps.  Session puts the runs in a row.                                 *)
(*                                                                         *)
(* The bus is reduced to what the files see of it: a scan yields all the   *)
(* entries of its directory in one batch, batches come in any order, and   *)
(* at any moment all workers may be busy.  To list a path is here to put   *)
(* it into out_batch; on the way from there to the file a kill may lose    *)
(* it, which is the subject of OutputRun.                                  *)
(***************************************************************************)
EXTENDS ProgressPump

CONSTANT MaxRuns  \* bound on the number of runs

VARIABLES
  run,      \* the number of this run, 0 before the first
  handed,   \* history: what the runs before put into out_batch
  waited    \* history: directories that had to wait, which are never listed

vars == <<archiving, disk, mpc, scan, ended, out, w, recBatch, pump, visited,
          fpb, promo, run, handed, waited>>

history == <<archiving, run, handed, ended>>

NoScan == [todo |-> {}, ready |-> {}, rest |-> <<>>, sent |-> 0]
NoWriter == [index |-> 0, lines |-> 0, open |-> FALSE, buf |-> <<>>]

Init ==
  /\ archiving = FALSE
  /\ disk = NoDisk
  /\ mpc = "off" /\ scan = NoScan /\ ended = FALSE /\ out = <<>>
  /\ w = NoWriter /\ recBatch = NewBatch /\ pump = NoPump /\ visited = {}
  /\ fpb = NoFp /\ promo = NoPromo
  /\ run = 0 /\ handed = {} /\ waited = {}

ScanDone(d) ==
  /\ d \in scan.todo
  /\ scan' = [scan EXCEPT !.todo = @ \ {d}, !.ready = @ \cup {d}]
  /\ UNCHANGED <<archiving, disk, mpc, ended, out, w, recBatch, pump, visited,
                 fpb, promo, run, handed, waited>>

(***************************************************************************)
(* process_completed_batch                                                 *)
(***************************************************************************)

\* MUTANT: every entry of a batch is taken for new.
KeepAll(d) == Entries[d]

\* What visited_set lets through, one entry after the other.
Fresh(d) ==
  LET kept[i \in 0 .. Len(Entries[d])] ==
        IF i = 0 THEN <<>>
        ELSE IF Entries[d][i] \in visited THEN kept[i - 1]
        ELSE Append(kept[i - 1], Entries[d][i])
  IN kept[Len(Entries[d])]

TakeBatch(d) ==
  /\ mpc = "drain" /\ d \in scan.ready
  /\ scan' = [scan EXCEPT !.ready = @ \ {d}, !.rest = Fresh(d)]
  /\ visited' = visited \cup Range(Entries[d])
  /\ mpc' = "batch"
  /\ UNCHANGED <<disk, out, w, recBatch, pump, fpb, promo, waited>>

NextEntry == Head(scan.rest)
Rest == [scan EXCEPT !.rest = Tail(@)]

InBatch == mpc = "batch" /\ scan.rest # <<>>

\* While old slices are pumped, a directory is kept for later.
DirKept ==
  /\ InBatch /\ NextEntry \in Dirs /\ pump.state = "OLD"
  /\ FpAppend(NextEntry)
  /\ scan' = Rest
  /\ out' = Append(out, NextEntry)
  /\ UNCHANGED <<w, recBatch, pump, visited, promo, waited>>

\* No worker is idle: the path goes to the lost tasks, from where it is
\* sent later, and what would follow is skipped.
DirWaits ==
  /\ InBatch /\ NextEntry \in Dirs /\ pump.state # "OLD"
  /\ scan' = [Rest EXCEPT !.todo = @ \cup {NextEntry}]
  /\ waited' = waited \cup {NextEntry}
  /\ UNCHANGED <<mpc, disk, out, w, recBatch, pump, visited, fpb, promo>>

\* MUTANT: an entry is sent and recorded, but not put into out_batch.
RecordedUnlisted ==
  /\ InBatch /\ (NextEntry \in Dirs => pump.state # "OLD")
  /\ Len(recBatch) < RecordBatchCount
  /\ scan' = [Rest EXCEPT !.todo = @ \cup ({NextEntry} \cap Dirs)]
  /\ recBatch' = Append(recBatch, NextEntry)
  /\ UNCHANGED <<mpc, disk, out, w, pump, visited, fpb, promo, waited>>

\* A directory is sent first; then it goes into out_batch and record_batch like
\* any other entry.
Recorded ==
  /\ InBatch /\ (NextEntry \in Dirs => pump.state # "OLD")
  /\ Len(recBatch) < RecordBatchCount
  /\ scan' = [Rest EXCEPT !.todo = @ \cup ({NextEntry} \cap Dirs)]
  /\ out' = Append(out, NextEntry)
  /\ recBatch' = Append(recBatch, NextEntry)
  /\ UNCHANGED <<mpc, disk, w, pump, visited, fpb, promo, waited>>

\* record_path_batch_append flushes a full batch first.
BatchFull ==
  /\ InBatch /\ (NextEntry \in Dirs => pump.state # "OLD")
  /\ Len(recBatch) >= RecordBatchCount
  /\ mpc' = "flush"
  /\ UNCHANGED <<disk, scan, out, w, recBatch, pump, visited, fpb, promo,
                 waited>>

BatchEnd ==
  /\ mpc = "batch" /\ scan.rest = <<>>
  /\ mpc' = "drain"
  /\ UNCHANGED <<disk, scan, out, w, recBatch, pump, visited, fpb, promo,
                 waited>>

Batch ==
  \/ \E d \in Dirs : TakeBatch(d)
  \/ DirKept \/ DirWaits \/ Recorded \/ BatchFull \/ BatchEnd
  \/ (FpSeal \/ FpIndex) /\ UNCHANGED <<scan, out, w, recBatch, pump, visited,
                                        promo, waited>>

(***************************************************************************)
(* main_loop_run and the end of main                                       *)
(***************************************************************************)
DrainEnd ==
  /\ mpc = "drain" /\ scan.ready = {}
  /\ scan' = [scan EXCEPT !.sent = 0]
  /\ mpc' = "pump"

Check ==
  /\ mpc = "check"
  /\ mpc' = IF scan.todo \cup scan.ready = {} THEN "flush" ELSE "drain"
  /\ UNCHANGED scan

Loop ==
  /\ DrainEnd \/ Check
  /\ UNCHANGED <<disk, out, w, recBatch, pump, visited, fpb, promo, waited>>

\* What a process loses when it is gone.
Gone ==
  /\ mpc' = "off" /\ scan' = NoScan /\ w' = NoWriter /\ recBatch' = NewBatch
  /\ pump' = NoPump /\ visited' = {} /\ fpb' = NoFp /\ promo' = NoPromo
  /\ UNCHANGED <<out, run, handed, waited>>

\* A kill in the middle of an append cuts a block of the archive short.
Crash ==
  /\ mpc # "off"
  /\ \/ UNCHANGED disk
     \/ /\ mpc = "retire" /\ archiving
        /\ disk' = [disk EXCEPT !.archive = Append(@, Torn)]
  /\ archiving' = FALSE
  /\ Gone /\ UNCHANGED ended

Stdio ==
  /\ \/ WriteBack /\ UNCHANGED fpb
     \/ FpWriteBack /\ UNCHANGED <<w, recBatch, pump>>
  /\ UNCHANGED <<history, scan, out, visited, promo, waited>>

(***************************************************************************)
(* Properties                                                              *)
(***************************************************************************)

\* No run lists a path twice, whatever it resumed from: a directory may be
\* handed out by the seed, by the pump and from a promoted slice.
ListedOncePerRun == IsInjective(out)

\* What visited_set hides was put into out_batch by this run or one before, is
\* about to be, or had to wait: no file a crash leaves, and no slice promoted from
\* fpbin, holds a path that no batch has handed on to the output.  (It may still
\* be lost on the way to the file, and is then hidden although nobody saw it.)
HiddenWasHandedOn ==
  visited \subseteq handed \cup Range(out) \cup Range(scan.rest) \cup waited

\* Every run comes to an end: the pump hands out no directory for ever.
RunEnds == mpc # "off" ~> mpc = "off"
=============================================================================
