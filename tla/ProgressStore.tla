--------------------------- MODULE ProgressStore ---------------------------
(***************************************************************************)
(* The progress files of a run (src/output/progress_io.c, progress.c and   *)
(* the writing half of progress_archive.c): the main thread records every  *)
(* path it lists in slices, rotates full slices into the archive and       *)
(* renames the index over the old one.  Every file operation is a step, so *)
(* that a run may be killed between any two; what stdio has not written    *)
(* back by then is lost.                                                   *)
(*                                                                         *)
(* The draft index of a slice is left out: where a resume reads it, it     *)
(* holds the 0 it was created with, which means "no limit".  So is the row *)
(* count of a footer, which is never below the rows of its slice.          *)
(***************************************************************************)
EXTENDS Naturals, SequencesExt

CONSTANTS
  SliceLines,        \* progress_slice_lines
  RecordBatchCount,  \* RECORD_BATCH_COUNT
  NoIndex,           \* there is no index file
  Torn               \* a block of the archive that was cut short

ASSUME SliceAssumption == SliceLines \in Nat \ {0}
ASSUME RecordBatchAssumption == RecordBatchCount \in Nat \ {0}

VARIABLES
  archiving,  \* cfg.archive of this run
  disk,       \* the files: slices, fp, archive, idx, fpidx
  mpc,        \* where the main thread is
  scan,       \* the scans: todo, ready, rest of a batch, sent by the pump
  ended,      \* history: the last run got to its end
  out,        \* history: what this run put into out_batch, in order
  w,          \* write_slice_index, line_count, write_slice_file, its buffer
  recBatch,   \* record_batch
  pump        \* hist_pump_*: state, slice, pos, open, rows of the open file

storeVars == <<disk, w, recBatch>>

File(rows, sealed) == [rows |-> rows, sealed |-> sealed]

\* The files, with this one, which may be there already.
Put(files, i, file) ==
  [j \in {i} \cup DOMAIN files |-> IF j = i THEN file ELSE files[j]]

WithSlice(d, i, file) == [d EXCEPT !.slices = Put(@, i, file)]

WithoutSlice(d, i) == [d EXCEPT !.slices = Restrict(@, DOMAIN @ \ {i})]

\* The pump has the same file open, so it sees what happens to it.
PumpSees(i, rows, cut) ==
  pump' = IF pump.open /\ pump.slice = i
          THEN [pump EXCEPT !.rows = rows, !.cut = @ \/ cut] ELSE pump

\* fopen(p, "wb") empties the slice if it is there; a pump in the middle of
\* it no longer meets the start of a row.
OpenForWriting(i) ==
  /\ disk' = WithSlice(disk, i, File(<<>>, FALSE))
  /\ PumpSees(i, <<>>, pump.pos > 0)

\* record_path_batch_init
NewBatch == <<>>

\* recBatch is flushed before a batch goes on, or to finish the run.
Finishing == recBatch = NewBatch

\* finalize_archive: an open slice is sealed, and goes on only into an archive
\* (there is no spbin file to go with it).
FinalStep == IF w.open THEN "seal" ELSE "index"
AfterSeal == IF Finishing /\ ~archiving THEN "index" ELSE "retire"

(***************************************************************************)
(* record_path, for the head of the batch that is flushed                  *)
(***************************************************************************)
OpenSlice ==
  /\ mpc = "flush" /\ recBatch # <<>> /\ ~w.open
  /\ OpenForWriting(w.index)
  /\ w' = [w EXCEPT !.open = TRUE]
  /\ UNCHANGED <<mpc, recBatch>>

RecordRow ==
  /\ mpc = "flush" /\ recBatch # <<>> /\ w.open
  /\ w' = [w EXCEPT !.lines = @ + 1, !.buf = Append(@, Head(recBatch))]
  /\ IF w.lines + 1 >= SliceLines
     THEN mpc' = "seal" /\ UNCHANGED recBatch
     ELSE recBatch' = Tail(recBatch) /\ UNCHANGED mpc
  /\ UNCHANGED <<disk, pump>>

FlushEnd ==
  /\ mpc = "flush" /\ recBatch = NewBatch
  /\ mpc' = IF scan.rest # <<>> THEN "batch" ELSE FinalStep
  /\ UNCHANGED <<storeVars, pump>>

\* MUTANT: the footer goes to the file descriptor without a flush of stdio.
SealUnflushed ==
  /\ mpc = "seal"
  /\ disk' = WithSlice(disk, w.index, File(disk.slices[w.index].rows, TRUE))
  /\ PumpSees(w.index, disk.slices[w.index].rows, FALSE)
  /\ w' = [w EXCEPT !.open = FALSE, !.buf = <<>>]
  /\ mpc' = AfterSeal
  /\ UNCHANGED recBatch

\* write_pbin_footer flushes, appends and syncs; then the slice is closed.
Seal ==
  /\ mpc = "seal"
  /\ LET rows == disk.slices[w.index].rows \o w.buf IN
       /\ disk' = WithSlice(disk, w.index, File(rows, TRUE))
       /\ PumpSees(w.index, rows, FALSE)
  /\ w' = [w EXCEPT !.open = FALSE, !.buf = <<>>]
  /\ mpc' = AfterSeal
  /\ UNCHANGED recBatch

\* process_old_slice: the block is appended first, the slice deleted after.
Retire ==
  /\ mpc = "retire"
  /\ disk' = IF archiving
             THEN [disk EXCEPT !.archive = Append(@, disk.slices[w.index].rows)]
             ELSE disk
  /\ mpc' = "unlink"
  /\ UNCHANGED <<w, recBatch, pump>>

Unlink ==
  /\ mpc = "unlink"
  /\ disk' = WithoutSlice(disk, w.index)
  /\ mpc' = IF Finishing THEN "index" ELSE "reopen"
  /\ UNCHANGED <<w, recBatch, pump>>

Reopen ==
  /\ mpc = "reopen"
  /\ OpenForWriting(w.index + 1)
  /\ w' = [index |-> w.index + 1, lines |-> 0, open |-> TRUE, buf |-> <<>>]
  /\ mpc' = "index"
  /\ UNCHANGED recBatch

\* atomic_update_index, at the end of a rotation or of the run.
UpdateIndex ==
  /\ mpc = "index"
  /\ disk' = [disk EXCEPT !.idx = [index |-> w.index, lines |-> w.lines]]
  /\ recBatch' = IF Finishing THEN NewBatch ELSE Tail(recBatch)
  /\ mpc' = IF Finishing THEN "end" ELSE "flush"
  /\ UNCHANGED <<w, pump>>

\* stdio writes a row back, whenever it likes.
WriteBack ==
  /\ w.open /\ w.buf # <<>>
  /\ LET rows == Append(disk.slices[w.index].rows, Head(w.buf)) IN
       /\ disk' = WithSlice(disk, w.index, File(rows, FALSE))
       /\ PumpSees(w.index, rows, FALSE)
  /\ w' = [w EXCEPT !.buf = Tail(@)]
  /\ UNCHANGED <<mpc, recBatch>>

\* One step of record_path_batch_flush or finalize_progress.
Store ==
  /\ \/ OpenSlice \/ RecordRow \/ FlushEnd \/ Seal \/ Retire \/ Unlink
     \/ Reopen \/ UpdateIndex
  /\ UNCHANGED <<archiving, scan, ended, out>>
=============================================================================
