---------------------------- MODULE AsyncWriter ----------------------------
(***************************************************************************)
(* The writer thread (src/output/async_worker.c) and the output slices it  *)
(* fills (src/output/output_format.c).                                     *)
(*                                                                         *)
(* A critical section of the mutex is one step.  Between the end of one    *)
(* and the next the writer works on a list of its own; every row, and      *)
(* every step of a rotation, is a step, because the main thread reads the  *)
(* slice number and the line count without a lock (progress_io.c:376).     *)
(***************************************************************************)
EXTENDS Naturals, SequencesExt

CONSTANTS
  Row,         \* the rows
  SliceLines   \* output_slice_lines

ASSUME SliceAssumption == SliceLines \in Nat \ {0}

VARIABLES
  queue,      \* head .. tail
  stop,
  wpc,        \* where the writer thread is; "none" if there is none
  local,      \* local_head: what is left of the list it has taken
  split,      \* is_output_split_dir
  fp,         \* output_slice_num, output_line_count, the buffer of output_fp
  files,      \* the output slices on the disk
  submitted,  \* history: what this writer was given, in order
  printed     \* history: what it has printed, in order

queueVars == <<queue, stop>>
threadVars == <<wpc, local>>
outVars == <<fp, files>>
writerVars == <<queue, stop, wpc, local, split, fp, files, submitted, printed>>

NoFp == [slice |-> 0, lines |-> 0, open |-> FALSE, buf |-> <<>>]

WithRows(i, rows) ==
  [j \in DOMAIN files \cup {i} |-> IF j = i THEN rows ELSE files[j]]

(***************************************************************************)
(* The main thread's side                                                  *)
(***************************************************************************)

\* pthread_cond_signal, for the one thread that may wait.
Woken == IF wpc = "asleep" THEN "top" ELSE wpc

\* MUTANT: the list is changed, but nobody is told.
SubmitQuietly(rows) ==
  /\ queue' = queue \o rows
  /\ submitted' = submitted \o rows
  /\ UNCHANGED <<stop, threadVars, split, outVars, printed>>

\* async_writer_submit and async_writer_submit_batch.
Submit(rows) ==
  /\ queue' = queue \o rows
  /\ submitted' = submitted \o rows
  /\ wpc' = Woken
  /\ UNCHANGED <<stop, local, split, outVars, printed>>

\* MUTANT: the flag is set, but nobody is told.
ShutdownQuietly ==
  /\ stop' = TRUE
  /\ UNCHANGED <<queue, threadVars, split, outVars, submitted, printed>>

\* async_worker_shutdown up to pthread_join.
Shutdown ==
  /\ stop' = TRUE
  /\ wpc' = Woken
  /\ UNCHANGED <<queue, local, split, outVars, submitted, printed>>

(***************************************************************************)
(* The writer thread                                                       *)
(***************************************************************************)
Sleep ==
  /\ wpc = "top" /\ ~stop /\ queue = <<>>
  /\ wpc' = "asleep"
  /\ UNCHANGED <<queueVars, local, split, outVars, submitted, printed>>

\* pthread_cond_wait may return without a signal.
WakeUp ==
  /\ wpc = "asleep"
  /\ wpc' = "top"
  /\ UNCHANGED <<queueVars, local, split, outVars, submitted, printed>>

\* MUTANT: a stop is obeyed at once.
TakeAllOrStop ==
  /\ wpc = "top" /\ queue # <<>>
  /\ local' = IF stop THEN <<>> ELSE queue
  /\ queue' = <<>>
  /\ wpc' = IF stop THEN "flush" ELSE "work"
  /\ UNCHANGED <<stop, split, outVars, submitted, printed>>

TakeAll ==
  /\ wpc = "top" /\ queue # <<>>
  /\ local' = queue /\ queue' = <<>>
  /\ wpc' = "work"
  /\ UNCHANGED <<stop, split, outVars, submitted, printed>>

SliceFull == split /\ fp.lines + 1 >= SliceLines

PrintRow ==
  /\ wpc = "work" /\ local # <<>>
  /\ fp' = [fp EXCEPT !.buf = Append(@, Head(local)), !.lines = @ + 1]
  /\ local' = Tail(local)
  /\ printed' = Append(printed, Head(local))
  /\ wpc' = IF SliceFull THEN "close" ELSE "work"
  /\ UNCHANGED <<queueVars, split, files, submitted>>

WorkEnd ==
  /\ wpc = "work" /\ local = <<>>
  /\ wpc' = "top"
  /\ UNCHANGED <<queueVars, local, split, outVars, submitted, printed>>

\* rotate_output_slice: fclose, the next number, fopen "w", the counter.
CloseSlice ==
  /\ wpc = "close"
  /\ files' = WithRows(fp.slice, files[fp.slice] \o fp.buf)
  /\ fp' = [fp EXCEPT !.open = FALSE, !.buf = <<>>]
  /\ wpc' = "number"
  /\ UNCHANGED <<queueVars, local, split, submitted, printed>>

NextSlice ==
  /\ wpc = "number"
  /\ fp' = [fp EXCEPT !.slice = @ + 1]
  /\ wpc' = "create"
  /\ UNCHANGED <<queueVars, local, split, files, submitted, printed>>

CreateSlice ==
  /\ wpc = "create"
  /\ files' = WithRows(fp.slice, <<>>)
  /\ fp' = [fp EXCEPT !.open = TRUE]
  /\ wpc' = "reset"
  /\ UNCHANGED <<queueVars, local, split, submitted, printed>>

ResetLines ==
  /\ wpc = "reset"
  /\ fp' = [fp EXCEPT !.lines = 0]
  /\ wpc' = "work"
  /\ UNCHANGED <<queueVars, local, split, files, submitted, printed>>

StopSeen ==
  /\ wpc = "top" /\ stop /\ queue = <<>>
  /\ wpc' = "flush"
  /\ UNCHANGED <<queueVars, local, split, outVars, submitted, printed>>

\* MUTANT: the thread ends with rows in its buffer.
EndUnflushed ==
  /\ wpc = "flush"
  /\ wpc' = "done"
  /\ fp' = [fp EXCEPT !.buf = <<>>]
  /\ UNCHANGED <<queueVars, local, split, files, submitted, printed>>

FlushAndEnd ==
  /\ wpc = "flush"
  /\ files' = WithRows(fp.slice, files[fp.slice] \o fp.buf)
  /\ fp' = [fp EXCEPT !.buf = <<>>]
  /\ wpc' = "done"
  /\ UNCHANGED <<queueVars, local, split, submitted, printed>>

Writer ==
  \/ Sleep \/ TakeAll \/ PrintRow \/ WorkEnd \/ CloseSlice \/ NextSlice
  \/ CreateSlice \/ ResetLines \/ StopSeen \/ FlushAndEnd

\* stdio writes a row back, whenever it likes.
OutputWriteBack ==
  /\ fp.open /\ fp.buf # <<>>
  /\ files' = WithRows(fp.slice, Append(files[fp.slice], Head(fp.buf)))
  /\ fp' = [fp EXCEPT !.buf = Tail(@)]
  /\ UNCHANGED <<queueVars, threadVars, split, submitted, printed>>

(***************************************************************************)
(* Start and end                                                           *)
(***************************************************************************)

\* init_output_files with -c, after the position (0 if there is none) came
\* from the index, and async_worker_init.
Open(slice, lines) ==
  LET number == IF slice = 0 THEN 1 ELSE slice IN
  /\ files' = IF number \in DOMAIN files THEN files ELSE WithRows(number, <<>>)
  /\ fp' = [slice |-> number, lines |-> lines, open |-> TRUE, buf |-> <<>>]
  /\ queue' = <<>> /\ stop' = FALSE /\ local' = <<>> /\ wpc' = "top"
  /\ submitted' = <<>> /\ printed' = <<>>
  /\ UNCHANGED split

\* What a process loses when it is gone.
WriterGone ==
  /\ wpc' = "none" /\ fp' = NoFp
  /\ queue' = <<>> /\ stop' = FALSE /\ local' = <<>>
  /\ submitted' = <<>> /\ printed' = <<>>
  /\ UNCHANGED split

WriterInit ==
  /\ split \in BOOLEAN
  /\ queue = <<>> /\ stop = FALSE /\ wpc = "none" /\ local = <<>>
  /\ fp = NoFp /\ files = [i \in {} |-> <<>>]
  /\ submitted = <<>> /\ printed = <<>>
=============================================================================
