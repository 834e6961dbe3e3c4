----------------------------- MODULE OutputRun -----------------------------
(***************************************************************************)
(* The output of a run beside its record: the main thread records a row    *)
(* and hands it to the async writer, and the index of the progress files   *)
(* says where the output stood (src/scan/batch_processor.c, core/main.c,   *)
(* output/progress_io.c).  Runs follow each other with -c -Z on the same   *)
(* files; each may be killed at any moment.                                *)
(*                                                                         *)
(* ProgressStore has the record in detail.  Here it is the number of rows  *)
(* in sealed slices and the number that is on the disk at all.             *)
(***************************************************************************)
EXTENDS AsyncWriter

CONSTANTS
  Found,             \* Found[r]: what the scan of run r finds, in order
  AsyncBatchSize,    \* ASYNC_BATCH_SIZE
  RecordBatchCount,  \* RECORD_BATCH_COUNT
  ProgressLines,     \* progress_slice_lines
  MaxKills,          \* bound on the number of kills
  NoIndex            \* there is no index file

ASSUME OutputAssumption ==
  /\ Found \in Seq(Seq(Row))
  /\ AsyncBatchSize \in Nat \ {0}
  /\ RecordBatchCount \in Nat \ {0}
  /\ ProgressLines \in Nat \ {0}

VARIABLES
  mpc,       \* where the main thread is
  run,       \* the number of this run, 0 before the first
  todo,      \* what the scan will still report
  outBatch,  \* out_batch
  rec,       \* rows recorded by this run; how many are sealed; on the disk
  hidden,    \* rows of earlier runs that visited_set holds
  idx,       \* output_slice_num and output_line_count in the index file
  snap,      \* what atomic_update_index has read of them so far
  kills,     \* how many runs were killed
  ended      \* history: the last run got to its end

vars == <<writerVars, mpc, run, todo, outBatch, rec, hidden, idx, snap, kills,
          ended>>

NoRec == [rows |-> <<>>, sealed |-> 0, kept |-> 0]

Init ==
  /\ WriterInit
  /\ mpc = "off" /\ run = 0 /\ todo = <<>> /\ outBatch = <<>> /\ rec = NoRec
  /\ hidden = {} /\ idx = NoIndex /\ snap = <<>> /\ kills = 0 /\ ended = FALSE

\* Rows that record_path_batch_flush has written to the slice: a full batch
\* is flushed by the append after it.
Flushed ==
  IF rec.rows = <<>> THEN 0
  ELSE RecordBatchCount * ((Len(rec.rows) - 1) \div RecordBatchCount)

RotationDue == rec.sealed + ProgressLines <= Flushed

(***************************************************************************)
(* A run                                                                   *)
(***************************************************************************)

\* MUTANT: the output is opened before the index is read.
StartUnrestored ==
  /\ mpc = "off" /\ run < Len(Found)
  /\ Open(0, 0)
  /\ run' = run + 1
  /\ todo' = Found[run + 1]
  /\ mpc' = "batch" /\ ended' = FALSE
  /\ UNCHANGED <<outBatch, rec, hidden, idx, snap, kills>>

\* restore_progress, then init_output_files and async_worker_init.
Start ==
  /\ mpc = "off" /\ run < Len(Found)
  /\ IF idx = NoIndex THEN Open(0, 0) ELSE Open(idx.slice, idx.lines)
  /\ run' = run + 1
  /\ todo' = Found[run + 1]
  /\ mpc' = "batch" /\ ended' = FALSE
  /\ UNCHANGED <<outBatch, rec, hidden, idx, snap, kills>>

\* An entry of a batch that visited_set holds already.
KnownEntry ==
  /\ mpc = "batch" /\ todo # <<>> /\ ~RotationDue
  /\ Head(todo) \in hidden
  /\ todo' = Tail(todo)
  /\ UNCHANGED <<writerVars, mpc, run, outBatch, rec, hidden, idx, snap, kills,
                 ended>>

\* A new one: it is recorded, and joins the rows to submit.
Entry ==
  /\ mpc = "batch" /\ todo # <<>> /\ ~RotationDue
  /\ Head(todo) \notin hidden
  /\ Len(outBatch) < AsyncBatchSize
  /\ rec' = [rec EXCEPT !.rows = Append(@, Head(todo))]
  /\ outBatch' = Append(outBatch, Head(todo))
  /\ todo' = Tail(todo)
  /\ UNCHANGED <<writerVars, mpc, run, hidden, idx, snap, kills, ended>>

\* A full out_batch, or the end of a batch of the scan, which may come
\* after any entry.
SubmitBatch ==
  /\ mpc = "batch" /\ outBatch # <<>> /\ ~RotationDue
  /\ Submit(outBatch)
  /\ outBatch' = <<>>
  /\ UNCHANGED <<mpc, run, todo, rec, hidden, idx, snap, kills, ended>>

\* A slice is full: it goes to the archive, and then the index is written.
Rotate ==
  /\ mpc = "batch" /\ RotationDue
  /\ LET sealed == rec.sealed + ProgressLines IN
       rec' = [rec EXCEPT !.sealed = sealed,
                          !.kept = IF @ < sealed THEN sealed ELSE @]
  /\ mpc' = "index"
  /\ UNCHANGED <<writerVars, run, todo, outBatch, hidden, idx, snap, kills, ended>>

\* The end of the loop, and finalize_archive: everything is sealed.
Finalize ==
  /\ mpc = "batch" /\ todo = <<>> /\ outBatch = <<>> /\ ~RotationDue
  /\ rec' = [rec EXCEPT !.sealed = Len(rec.rows), !.kept = Len(rec.rows)]
  /\ mpc' = "index"
  /\ UNCHANGED <<writerVars, run, todo, outBatch, hidden, idx, snap, kills, ended>>

\* atomic_update_index reads the two counters, in any order ...
ReadCounter(field) ==
  /\ mpc = "index" /\ field \notin DOMAIN snap
  /\ snap' = [c \in DOMAIN snap \cup {field} |->
               IF c = field THEN fp[field] ELSE snap[c]]
  /\ UNCHANGED <<writerVars, mpc, run, todo, outBatch, rec, hidden, idx, kills,
                 ended>>

\* ... and renames the new index over the old one.
UpdateIndex ==
  /\ mpc = "index" /\ DOMAIN snap = {"slice", "lines"}
  /\ idx' = snap /\ snap' = <<>>
  /\ mpc' = IF rec.sealed = Len(rec.rows) /\ todo = <<>> /\ outBatch = <<>>
            THEN "shutdown" ELSE "batch"
  /\ UNCHANGED <<writerVars, run, todo, outBatch, rec, hidden, kills, ended>>

\* finalize_progress comes before app_context_destroy.
StopWriter ==
  /\ mpc = "shutdown"
  /\ Shutdown
  /\ mpc' = "join"
  /\ UNCHANGED <<run, todo, outBatch, rec, hidden, idx, snap, kills, ended>>

Main ==
  \/ KnownEntry \/ Entry \/ SubmitBatch \/ Rotate \/ Finalize \/ UpdateIndex \/ StopWriter
  \/ \E field \in {"slice", "lines"} : ReadCounter(field)

(***************************************************************************)
(* Its end                                                                 *)
(***************************************************************************)

\* Of the record, at least what is sealed is hidden from the next run, and
\* more of it when the pump is early enough.
Gone ==
  /\ WriterGone
  /\ \E n \in rec.sealed .. rec.kept :
       hidden' = hidden \cup Range(SubSeq(rec.rows, 1, n))
  /\ mpc' = "off" /\ todo' = <<>> /\ outBatch' = <<>> /\ rec' = NoRec
  /\ snap' = <<>>
  /\ UNCHANGED <<run, idx>>

\* pthread_join, and the return of main.
End ==
  /\ mpc = "join" /\ wpc = "done"
  /\ Gone
  /\ ended' = TRUE
  /\ UNCHANGED <<files, kills>>

\* A signal, or exit() after a slice could not be created.
Kill ==
  /\ mpc # "off" /\ kills < MaxKills
  /\ Gone
  /\ kills' = kills + 1
  /\ UNCHANGED <<files, ended>>

RecordWriteBack ==
  /\ rec.kept < Flushed
  /\ rec' = [rec EXCEPT !.kept = @ + 1]
  /\ UNCHANGED <<writerVars, mpc, run, todo, outBatch, hidden, idx, snap, kills,
                 ended>>

WriterStep ==
  /\ Writer
  /\ UNCHANGED <<mpc, run, todo, outBatch, rec, hidden, idx, snap, kills, ended>>

Chance ==
  /\ WakeUp \/ OutputWriteBack
  /\ UNCHANGED <<mpc, run, todo, outBatch, rec, hidden, idx, snap, kills, ended>>

Next == Start \/ Main \/ WriterStep \/ End \/ Chance \/ RecordWriteBack \/ Kill

Spec ==
  /\ Init /\ [][Next]_vars
  /\ WF_vars(Main) /\ WF_vars(WriterStep) /\ WF_vars(End)

(***************************************************************************)
(* Properties                                                              *)
(***************************************************************************)

\* Every variable has its type, the record never counts more rows as sealed or
\* on the disk than it has (record_path), and a slice never holds more than
\* its limit, or one row more per resumed run: the index may have read the
\* count of a slice that was full (progress_io.c:376).
TypeOK ==
  /\ queue \in Seq(Row) /\ local \in Seq(Row)
  /\ submitted \in Seq(Row) /\ printed \in Seq(Row)
  /\ todo \in Seq(Row) /\ outBatch \in Seq(Row)
  /\ \A i \in DOMAIN files : files[i] \in Seq(Row)
  /\ stop \in BOOLEAN /\ split \in BOOLEAN
  /\ wpc \in {"none", "top", "asleep", "work", "close", "number", "create",
              "reset", "flush", "done"}
  /\ mpc \in {"off", "batch", "index", "shutdown", "join"}
  /\ fp \in [slice : Nat, lines : Nat, open : BOOLEAN, buf : Seq(Row)]
  /\ split => fp.lines < SliceLines + run
  /\ run \in Nat /\ kills \in Nat /\ ended \in BOOLEAN
  /\ Len(outBatch) <= AsyncBatchSize
  /\ rec \in [rows : Seq(Row), sealed : Nat, kept : Nat]
  /\ rec.sealed <= rec.kept /\ rec.kept <= Len(rec.rows)

\* The writer never sleeps over a row or a stop that nobody will tell it of
\* (async_writer_submit, async_worker_shutdown).
WriterAwake == wpc = "asleep" => queue = <<>> /\ ~stop

\* The files of a first run that ended hold exactly its listing in order,
\* cut into full slices (print_to_stream, rotate_output_slice, and the
\* fflush of the writer as it ends).
OutputIsListing ==
  run = 1 /\ ended =>
    /\ FlattenSeq(files) = Found[1]
    /\ split => \A i \in 1 .. Len(files) - 1 : Len(files[i]) = SliceLines

\* The slices before the one that the index names never change again, also
\* when the run is killed and another one goes on (init_output_files opens
\* the slice of the index, and every rotation goes forward).
OldSlicesKept ==
  [][idx # NoIndex =>
       \A i \in DOMAIN files : i < idx.slice => files'[i] = files[i]]_vars

\* The writer implements a stream of rows.
Stream == INSTANCE RowStream WITH closed <- wpc = "done"
StreamSpec == Stream!StreamSpec

\* A shutdown ends, with all threads gone.
ShutdownEnds == mpc = "shutdown" ~> mpc = "off"
=============================================================================
