---------------------------- MODULE OutputProofs ----------------------------
(***************************************************************************)
(* Theorems about the output of a run, for all rows, every listing, any    *)
(* number of runs and kills and every size of a batch or a slice: the      *)
(* async writer never sleeps over work, it is a FIFO stream of rows that   *)
(* closes only when all of them are printed, no run touches an output      *)
(* slice before the one that the index names, and what a first run leaves  *)
(* in the slices when it ends is its listing.                              *)
(***************************************************************************)
EXTENDS OutputRun, SumProofs

FpType == [slice : Nat, lines : Nat, open : BOOLEAN, buf : Seq(Row)]

Rotating == {"close", "number", "create", "reset"}

\* Where the two threads are, one beside the other.
Threads ==
  /\ mpc = "off" <=> wpc = "none"
  /\ mpc # "off" => run >= 1
  /\ stop => mpc = "join"
  /\ wpc \in {"flush", "done"} => stop /\ queue = <<>>
  /\ wpc \notin Rotating \cup {"work"} => local = <<>>

\* The slice under the writer's hands exists, and outside of a rotation it has
\* room for a row.
SliceOpen ==
  /\ fp.open <=> wpc \notin {"none", "number", "create"}
  /\ fp.open => fp.slice \in DOMAIN files
  /\ split /\ wpc \notin Rotating \cup {"none"} => fp.lines + 1 < SliceLines + run

\* What was submitted is printed, or in the writer's list, or in the queue.
InOrder == wpc # "none" => submitted = (printed \o local) \o queue

\* A position that was read, or that is in the index, is not ahead of the
\* writer.
IsPosition(slice, lines) ==
  /\ slice \in Nat /\ lines \in Nat
  /\ mpc # "off" => slice <= fp.slice
  /\ split => lines < SliceLines + run

SnapBehind ==
  /\ mpc # "index" => DOMAIN snap = {}
  /\ DOMAIN snap \subseteq {"slice", "lines"}
  /\ "slice" \in DOMAIN snap => snap["slice"] \in Nat /\ snap["slice"] <= fp.slice
  /\ "lines" \in DOMAIN snap =>
       snap["lines"] \in Nat /\ (split => snap["lines"] < SliceLines + run)

IndexBehind ==
  idx # NoIndex =>
    /\ idx["slice"] \in Nat /\ idx["lines"] \in Nat
    /\ mpc # "off" => idx["slice"] <= fp.slice
    /\ split => idx["lines"] < SliceLines + run

\* The inductive invariant.  WriterAwake is inductive with TypeOK alone; the
\* stream needs Threads and InOrder, the slices need SliceOpen and the two
\* parts about positions.
IInv ==
  /\ TypeOK /\ WriterAwake /\ Threads /\ SliceOpen /\ InOrder
  /\ SnapBehind /\ IndexBehind

-----------------------------------------------------------------------------
(* Sequences, quotients and the record fp *)

\* The empty sequence is one of rows.
LEMMA NoRows == <<>> \in Seq(Row) /\ Len(<<>>) = 0
BY EmptySeq

\* A list is its first row before the rest.
LEMMA FirstRow ==
  ASSUME NEW s \in Seq(Row), s # <<>>
  PROVE  Head(s) \in Row /\ Tail(s) \in Seq(Row) /\ s = <<Head(s)>> \o Tail(s)
BY HeadTailProperties

\* Full batches are no more than what they were made of.
LEMMA Multiple ==
  ASSUME NEW n \in Nat, NEW k \in Nat \ {0}
  PROVE  k * (n \div k) \in Nat /\ k * (n \div k) <= n
<1>1. /\ n \div k \in Nat /\ n % k \in 0 .. k - 1
      /\ n = k * (n \div k) + (n % k)
  OBVIOUS
<1>2. k * (n \div k) \in Nat
  BY <1>1
<1>3. QED
  BY <1>1, <1>2

\* A batch that was flushed holds no more rows than were recorded.
LEMMA FlushedBounded ==
  ASSUME rec.rows \in Seq(Row)
  PROVE  Flushed \in Nat /\ Flushed <= Len(rec.rows)
<1>1. CASE rec.rows = <<>>
  BY <1>1, NoRows DEF Flushed
<1>2. CASE rec.rows # <<>>
  <2> DEFINE n == Len(rec.rows) - 1
  <2>1. n \in Nat
    BY <1>2, EmptySeq, LenProperties
  <2>2. Flushed = RecordBatchCount * (n \div RecordBatchCount)
    BY <1>2 DEF Flushed
  <2>3. n <= Len(rec.rows)
    BY LenProperties
  <2> HIDE DEF n
  <2>4. RecordBatchCount * (n \div RecordBatchCount) \in Nat
        /\ RecordBatchCount * (n \div RecordBatchCount) <= n
    BY <2>1, Multiple, OutputAssumption
  <2>5. Len(rec.rows) \in Nat
    BY LenProperties
  <2>6. QED
    BY <2>1, <2>2, <2>3, <2>4, <2>5
<1>3. QED
  BY <1>1, <1>2

\* What the writer does to its stream and its counters.
LEMMA FpSteps ==
  ASSUME TypeOK
  PROVE  /\ fp \in FpType
         /\ PrintRow =>
              /\ fp' \in FpType /\ fp'.slice = fp.slice /\ fp'.open = fp.open
              /\ fp'.lines = fp.lines + 1
         /\ CloseSlice =>
              /\ fp' \in FpType /\ fp'.slice = fp.slice /\ ~fp'.open
              /\ fp'.lines = fp.lines
         /\ NextSlice =>
              /\ fp' \in FpType /\ fp'.slice = fp.slice + 1
              /\ fp'.open = fp.open /\ fp'.lines = fp.lines
         /\ CreateSlice =>
              /\ fp' \in FpType /\ fp'.slice = fp.slice /\ fp'.open
              /\ fp'.lines = fp.lines
         /\ ResetLines =>
              /\ fp' \in FpType /\ fp'.slice = fp.slice /\ fp'.open = fp.open
              /\ fp'.lines = 0
         /\ FlushAndEnd \/ OutputWriteBack =>
              /\ fp' \in FpType /\ fp'.slice = fp.slice /\ fp'.open = fp.open
              /\ fp'.lines = fp.lines
<1>1. fp \in FpType
  BY DEF TypeOK, FpType
<1>2. ASSUME PrintRow
      PROVE  /\ fp' \in FpType /\ fp'.slice = fp.slice /\ fp'.open = fp.open
             /\ fp'.lines = fp.lines + 1
  <2> DEFINE r == Head(local)
  <2>1. r \in Row
    BY <1>2, FirstRow DEF PrintRow, TypeOK
  <2>2. fp' = [fp EXCEPT !.buf = Append(@, r), !.lines = @ + 1]
    BY <1>2 DEF PrintRow
  <2> HIDE DEF r
  <2>3. /\ fp.slice \in Nat /\ fp.lines \in Nat /\ fp.open \in BOOLEAN
        /\ Append(fp.buf, r) \in Seq(Row)
    BY <1>1, <2>1, AppendProperties DEF FpType
  <2>4. fp' = [slice |-> fp.slice, lines |-> fp.lines + 1, open |-> fp.open,
               buf |-> Append(fp.buf, r)]
    BY <1>1, <2>2 DEF FpType
  <2>5. QED
    BY <2>3, <2>4 DEF FpType
<1>3. ASSUME CloseSlice
      PROVE  /\ fp' \in FpType /\ fp'.slice = fp.slice /\ ~fp'.open
             /\ fp'.lines = fp.lines
  BY <1>1, <1>3, NoRows DEF CloseSlice, FpType
<1>4. ASSUME NextSlice
      PROVE  /\ fp' \in FpType /\ fp'.slice = fp.slice + 1
             /\ fp'.open = fp.open /\ fp'.lines = fp.lines
  BY <1>1, <1>4 DEF NextSlice, FpType
<1>5. ASSUME CreateSlice
      PROVE  /\ fp' \in FpType /\ fp'.slice = fp.slice /\ fp'.open
             /\ fp'.lines = fp.lines
  BY <1>1, <1>5 DEF CreateSlice, FpType
<1>6. ASSUME ResetLines
      PROVE  /\ fp' \in FpType /\ fp'.slice = fp.slice /\ fp'.open = fp.open
             /\ fp'.lines = 0
  BY <1>1, <1>6 DEF ResetLines, FpType
<1>7. ASSUME FlushAndEnd \/ OutputWriteBack
      PROVE  /\ fp' \in FpType /\ fp'.slice = fp.slice /\ fp'.open = fp.open
             /\ fp'.lines = fp.lines
  BY <1>1, <1>7, NoRows, FirstRow DEF FlushAndEnd, OutputWriteBack, FpType
<1>8. QED
  BY <1>1, <1>2, <1>3, <1>4, <1>5, <1>6, <1>7

-----------------------------------------------------------------------------
LEMMA InitInv == Init => IInv
<1> SUFFICES ASSUME Init PROVE IInv
  OBVIOUS
<1>1. TypeOK
  <2>1. fp \in FpType /\ fp.lines = 0
    BY NoRows DEF Init, WriterInit, NoFp, FpType
  <2>2. rec \in [rows : Seq(Row), sealed : Nat, kept : Nat]
        /\ rec.sealed <= rec.kept /\ rec.kept <= Len(rec.rows)
    BY NoRows DEF Init, NoRec
  <2>3. DOMAIN files = {} /\ Len(outBatch) = 0
    BY NoRows DEF Init, WriterInit
  <2>4. \A i \in DOMAIN files : files[i] \in Seq(Row)
    BY <2>3
  <2>5. /\ queue = <<>> /\ local = <<>> /\ submitted = <<>> /\ printed = <<>>
        /\ todo = <<>> /\ outBatch = <<>> /\ stop = FALSE /\ split \in BOOLEAN
        /\ wpc = "none" /\ mpc = "off" /\ run = 0 /\ kills = 0 /\ ended = FALSE
    BY DEF Init, WriterInit
  <2>6. fp.lines < SliceLines + run /\ Len(outBatch) <= AsyncBatchSize
    BY <2>1, <2>3, <2>5, SliceAssumption, OutputAssumption
  <2>7. QED
    BY <2>1, <2>2, <2>4, <2>5, <2>6, NoRows DEF TypeOK, FpType
<1>2. WriterAwake /\ Threads /\ SliceOpen /\ InOrder
  BY NoRows DEF Init, WriterInit, NoFp, WriterAwake, Threads, Rotating, SliceOpen,
                InOrder
<1>3. SnapBehind /\ IndexBehind
  BY NoRows DEF Init, SnapBehind, IndexBehind
<1>4. QED
  BY <1>1, <1>2, <1>3 DEF IInv

-----------------------------------------------------------------------------
(* The writer thread *)

\* What the thread never touches.
LEMMA WriterFrame ==
  ASSUME WriterStep \/ Chance
  PROVE  UNCHANGED <<stop, split, submitted, mpc, run, todo, outBatch, rec, idx, snap,
                     kills, ended>>
BY DEF WriterStep, Chance, Writer, Sleep, WakeUp, TakeAll, PrintRow, WorkEnd,
       CloseSlice, NextSlice, CreateSlice, ResetLines, StopSeen, FlushAndEnd,
       OutputWriteBack, queueVars, threadVars, outVars

\* Positions stay behind a writer that only goes forward.
LEMMA PositionsKept ==
  ASSUME SnapBehind, IndexBehind, UNCHANGED <<mpc, split, run, idx, snap>>,
         fp.slice \in Nat, fp'.slice \in Nat, fp.slice <= fp'.slice
  PROVE  SnapBehind' /\ IndexBehind'
<1>1. SnapBehind'
  BY DEF SnapBehind
<1>2. IndexBehind'
  BY DEF IndexBehind
<1>3. QED
  BY <1>1, <1>2

\* The writer thread keeps the invariant.
LEMMA WriterKeeps ==
  ASSUME IInv, WriterStep \/ Chance
  PROVE  IInv'
<1> USE DEF queueVars, threadVars, outVars
<1>1. /\ TypeOK /\ WriterAwake /\ Threads /\ SliceOpen /\ InOrder
      /\ SnapBehind /\ IndexBehind
  BY DEF IInv
<1>2. UNCHANGED <<stop, split, submitted, mpc, run, todo, outBatch, rec, idx, snap,
                  kills, ended>>
  BY WriterFrame
<1>3. CASE Sleep
  <2>1. TypeOK' /\ WriterAwake'
    BY <1>1, <1>2, <1>3, SliceAssumption, NoRows, FirstRow
       DEF Sleep, TypeOK, WriterAwake, Threads, SliceOpen, WithRows, FpType, Rotating
  <2>2. Threads' /\ SliceOpen'
    BY <1>1, <1>2, <1>3, SliceAssumption
       DEF Sleep, TypeOK, Threads, SliceOpen, WithRows, Rotating
  <2>3. InOrder'
    BY <1>1, <1>2, <1>3 DEF Sleep, InOrder
  <2>4. SnapBehind' /\ IndexBehind'
    BY <1>1, <1>2, <1>3, PositionsKept DEF Sleep, TypeOK
  <2>5. QED
    BY <2>1, <2>2, <2>3, <2>4 DEF IInv
<1>4. CASE WakeUp
  <2>1. TypeOK' /\ WriterAwake'
    BY <1>1, <1>2, <1>4, SliceAssumption, NoRows, FirstRow
       DEF WakeUp, TypeOK, WriterAwake, Threads, SliceOpen, WithRows, FpType, Rotating
  <2>2. Threads' /\ SliceOpen'
    BY <1>1, <1>2, <1>4, SliceAssumption
       DEF WakeUp, TypeOK, Threads, SliceOpen, WithRows, Rotating
  <2>3. InOrder'
    BY <1>1, <1>2, <1>4 DEF WakeUp, InOrder
  <2>4. SnapBehind' /\ IndexBehind'
    BY <1>1, <1>2, <1>4, PositionsKept DEF WakeUp, TypeOK
  <2>5. QED
    BY <2>1, <2>2, <2>3, <2>4 DEF IInv
<1>5. CASE TakeAll
  <2>1. TypeOK' /\ WriterAwake'
    BY <1>1, <1>2, <1>5, SliceAssumption, NoRows, FirstRow
       DEF TakeAll, TypeOK, WriterAwake, Threads, SliceOpen, WithRows, FpType, Rotating
  <2>2. Threads' /\ SliceOpen'
    BY <1>1, <1>2, <1>5, SliceAssumption
       DEF TakeAll, TypeOK, Threads, SliceOpen, WithRows, Rotating
  <2>3. InOrder'
    BY <1>1, <1>2, <1>5, FirstRow, NoRows, ConcatAssociative
       DEF TakeAll, TypeOK, Threads, InOrder, Rotating
  <2>4. SnapBehind' /\ IndexBehind'
    BY <1>1, <1>2, <1>5, PositionsKept DEF TakeAll, TypeOK
  <2>5. QED
    BY <2>1, <2>2, <2>3, <2>4 DEF IInv
<1>6. CASE PrintRow
  <2>6. /\ wpc = "work" /\ local # <<>> /\ wpc' = (IF SliceFull THEN "close" ELSE "work")
        /\ local' = Tail(local) /\ printed' = Append(printed, Head(local))
        /\ UNCHANGED <<queue, files>>
    BY <1>6 DEF PrintRow
  <2>7. local' \in Seq(Row) /\ printed' \in Seq(Row)
    BY <1>1, <2>6, FirstRow, AppendProperties DEF TypeOK
  <2>8. /\ fp \in FpType /\ fp' \in FpType /\ fp'.slice = fp.slice
        /\ fp'.open = fp.open /\ fp'.lines = fp.lines + 1
    BY <1>1, <1>6, FpSteps
  <2>9. /\ fp.lines \in Nat /\ run \in Nat /\ run >= 1
        /\ split => fp.lines + 1 < SliceLines + run
    BY <1>1, <2>6, <2>8 DEF TypeOK, FpType, Threads, SliceOpen, Rotating
  <2>1. TypeOK' /\ WriterAwake'
    <3>1. split => fp'.lines < SliceLines + run
      BY <2>8, <2>9
    <3>2. QED
      BY <1>1, <1>2, <2>6, <2>7, <2>8, <3>1 DEF TypeOK, WriterAwake, FpType
  <2>2. Threads' /\ SliceOpen'
    <3>1. Threads'
      BY <1>1, <1>2, <2>6 DEF Threads, Rotating
    <3>2. wpc' = "work" /\ split => fp'.lines + 1 < SliceLines + run
      BY <2>6, <2>8, <2>9, SliceAssumption DEF SliceFull
    <3>3. QED
      BY <1>1, <1>2, <2>6, <2>8, <3>1, <3>2 DEF SliceOpen, Rotating
  <2>3. InOrder'
    <3> DEFINE h == Head(local)
               t == Tail(local)
    <3>1. /\ h \in Row /\ t \in Seq(Row) /\ local = <<h>> \o t
          /\ <<h>> \in Seq(Row) /\ printed \in Seq(Row)
      BY <1>1, <1>6, FirstRow DEF PrintRow, TypeOK
    <3>2. Append(printed, h) = printed \o <<h>>
      BY <3>1, AppendIsConcat
    <3>3. (printed \o <<h>>) \o t = printed \o (<<h>> \o t)
      BY <3>1, ConcatAssociative
    <3>4. /\ printed' = Append(printed, h) /\ local' = t
          /\ submitted' = submitted /\ queue' = queue /\ wpc # "none"
      BY <1>6 DEF PrintRow
    <3> HIDE DEF h, t
    <3>5. printed' \o local' = printed \o local
      BY <3>1, <3>2, <3>3, <3>4
    <3>6. QED
      BY <1>1, <3>4, <3>5 DEF InOrder
  <2>4. SnapBehind' /\ IndexBehind'
    BY <1>1, <1>2, <1>6, FpSteps, PositionsKept DEF FpType
  <2>5. QED
    BY <2>1, <2>2, <2>3, <2>4 DEF IInv
<1>7. CASE WorkEnd
  <2>1. TypeOK' /\ WriterAwake'
    BY <1>1, <1>2, <1>7, SliceAssumption, NoRows, FirstRow
       DEF WorkEnd, TypeOK, WriterAwake, Threads, SliceOpen, WithRows, FpType, Rotating
  <2>2. Threads' /\ SliceOpen'
    BY <1>1, <1>2, <1>7, SliceAssumption
       DEF WorkEnd, TypeOK, Threads, SliceOpen, WithRows, Rotating
  <2>3. InOrder'
    BY <1>1, <1>2, <1>7 DEF WorkEnd, InOrder
  <2>4. SnapBehind' /\ IndexBehind'
    BY <1>1, <1>2, <1>7, PositionsKept DEF WorkEnd, TypeOK
  <2>5. QED
    BY <2>1, <2>2, <2>3, <2>4 DEF IInv
<1>8. CASE CloseSlice
  <2>0. files[fp.slice] \o fp.buf \in Seq(Row)
    BY <1>1, <1>8, FirstRow, AppendProperties
       DEF CloseSlice, TypeOK, SliceOpen
  <2>6. \A i \in DOMAIN files' : files'[i] \in Seq(Row)
    BY <1>1, <1>8, <2>0 DEF CloseSlice, TypeOK, WithRows
  <2>7. fp' \in FpType /\ (split => fp'.lines < SliceLines + run')
    BY <1>1, <1>2, <1>8, FpSteps, SliceAssumption DEF TypeOK
  <2>8. UNCHANGED <<queue, local, printed>> /\ wpc' = "number"
    BY <1>8 DEF CloseSlice
  <2>1. TypeOK' /\ WriterAwake'
    BY <1>1, <1>2, <2>6, <2>7, <2>8 DEF TypeOK, WriterAwake, FpType
  <2>2. Threads' /\ SliceOpen'
    BY <1>1, <1>2, <1>8, SliceAssumption, FpSteps
       DEF CloseSlice, TypeOK, Threads, SliceOpen, WithRows, Rotating
  <2>3. InOrder'
    BY <1>1, <1>2, <1>8 DEF CloseSlice, InOrder
  <2>4. SnapBehind' /\ IndexBehind'
    BY <1>1, <1>2, <1>8, FpSteps, PositionsKept DEF FpType
  <2>5. QED
    BY <2>1, <2>2, <2>3, <2>4 DEF IInv
<1>9. CASE NextSlice
  <2>6. \A i \in DOMAIN files' : files'[i] \in Seq(Row)
    BY <1>1, <1>9, NoRows DEF NextSlice, TypeOK, WithRows
  <2>7. fp' \in FpType /\ (split => fp'.lines < SliceLines + run')
    BY <1>1, <1>2, <1>9, FpSteps, SliceAssumption DEF TypeOK
  <2>8. UNCHANGED <<queue, local, printed>> /\ wpc' = "create"
    BY <1>9 DEF NextSlice
  <2>1. TypeOK' /\ WriterAwake'
    BY <1>1, <1>2, <2>6, <2>7, <2>8 DEF TypeOK, WriterAwake, FpType
  <2>2. Threads' /\ SliceOpen'
    BY <1>1, <1>2, <1>9, SliceAssumption, FpSteps
       DEF NextSlice, TypeOK, Threads, SliceOpen, WithRows, Rotating
  <2>3. InOrder'
    BY <1>1, <1>2, <1>9 DEF NextSlice, InOrder
  <2>4. SnapBehind' /\ IndexBehind'
    BY <1>1, <1>2, <1>9, FpSteps, PositionsKept DEF FpType
  <2>5. QED
    BY <2>1, <2>2, <2>3, <2>4 DEF IInv
<1>10. CASE CreateSlice
  <2>6. \A i \in DOMAIN files' : files'[i] \in Seq(Row)
    BY <1>1, <1>10, NoRows DEF CreateSlice, TypeOK, WithRows
  <2>7. fp' \in FpType /\ (split => fp'.lines < SliceLines + run')
    BY <1>1, <1>2, <1>10, FpSteps, SliceAssumption DEF TypeOK
  <2>8. UNCHANGED <<queue, local, printed>> /\ wpc' = "reset"
    BY <1>10 DEF CreateSlice
  <2>1. TypeOK' /\ WriterAwake'
    BY <1>1, <1>2, <2>6, <2>7, <2>8 DEF TypeOK, WriterAwake, FpType
  <2>2. Threads' /\ SliceOpen'
    BY <1>1, <1>2, <1>10, SliceAssumption, FpSteps
       DEF CreateSlice, TypeOK, Threads, SliceOpen, WithRows, Rotating
  <2>3. InOrder'
    BY <1>1, <1>2, <1>10 DEF CreateSlice, InOrder
  <2>4. SnapBehind' /\ IndexBehind'
    BY <1>1, <1>2, <1>10, FpSteps, PositionsKept DEF FpType
  <2>5. QED
    BY <2>1, <2>2, <2>3, <2>4 DEF IInv
<1>11. CASE ResetLines
  <2>6. \A i \in DOMAIN files' : files'[i] \in Seq(Row)
    BY <1>1, <1>11, NoRows DEF ResetLines, TypeOK, WithRows
  <2>7. fp' \in FpType /\ (split => fp'.lines < SliceLines + run')
    BY <1>1, <1>2, <1>11, FpSteps, SliceAssumption DEF TypeOK
  <2>8. UNCHANGED <<queue, local, printed>> /\ wpc' = "work"
    BY <1>11 DEF ResetLines
  <2>1. TypeOK' /\ WriterAwake'
    BY <1>1, <1>2, <2>6, <2>7, <2>8 DEF TypeOK, WriterAwake, FpType
  <2>2. Threads' /\ SliceOpen'
    BY <1>1, <1>2, <1>11, SliceAssumption, FpSteps
       DEF ResetLines, TypeOK, Threads, SliceOpen, WithRows, Rotating
  <2>3. InOrder'
    BY <1>1, <1>2, <1>11 DEF ResetLines, InOrder
  <2>4. SnapBehind' /\ IndexBehind'
    BY <1>1, <1>2, <1>11, FpSteps, PositionsKept DEF FpType
  <2>5. QED
    BY <2>1, <2>2, <2>3, <2>4 DEF IInv
<1>12. CASE StopSeen
  <2>1. TypeOK' /\ WriterAwake'
    BY <1>1, <1>2, <1>12, SliceAssumption, NoRows, FirstRow
       DEF StopSeen, TypeOK, WriterAwake, Threads, SliceOpen, WithRows, FpType, Rotating
  <2>2. Threads' /\ SliceOpen'
    BY <1>1, <1>2, <1>12, SliceAssumption
       DEF StopSeen, TypeOK, Threads, SliceOpen, WithRows, Rotating
  <2>3. InOrder'
    BY <1>1, <1>2, <1>12 DEF StopSeen, InOrder
  <2>4. SnapBehind' /\ IndexBehind'
    BY <1>1, <1>2, <1>12, PositionsKept DEF StopSeen, TypeOK
  <2>5. QED
    BY <2>1, <2>2, <2>3, <2>4 DEF IInv
<1>13. CASE FlushAndEnd
  <2>0. files[fp.slice] \o fp.buf \in Seq(Row)
    BY <1>1, <1>13, FirstRow, AppendProperties
       DEF FlushAndEnd, TypeOK, SliceOpen
  <2>6. \A i \in DOMAIN files' : files'[i] \in Seq(Row)
    BY <1>1, <1>13, <2>0 DEF FlushAndEnd, TypeOK, WithRows
  <2>7. fp' \in FpType /\ (split => fp'.lines < SliceLines + run')
    BY <1>1, <1>2, <1>13, FpSteps, SliceAssumption DEF TypeOK
  <2>8. UNCHANGED <<queue, local, printed>> /\ wpc' = "done"
    BY <1>13 DEF FlushAndEnd
  <2>1. TypeOK' /\ WriterAwake'
    BY <1>1, <1>2, <2>6, <2>7, <2>8 DEF TypeOK, WriterAwake, FpType
  <2>2. Threads' /\ SliceOpen'
    BY <1>1, <1>2, <1>13, SliceAssumption, FpSteps
       DEF FlushAndEnd, TypeOK, Threads, SliceOpen, WithRows, Rotating
  <2>3. InOrder'
    BY <1>1, <1>2, <1>13 DEF FlushAndEnd, InOrder
  <2>4. SnapBehind' /\ IndexBehind'
    BY <1>1, <1>2, <1>13, FpSteps, PositionsKept DEF FpType
  <2>5. QED
    BY <2>1, <2>2, <2>3, <2>4 DEF IInv
<1>14. CASE OutputWriteBack
  <2>0. Append(files[fp.slice], Head(fp.buf)) \in Seq(Row)
    BY <1>1, <1>14, FirstRow, AppendProperties
       DEF OutputWriteBack, TypeOK, SliceOpen
  <2>6. \A i \in DOMAIN files' : files'[i] \in Seq(Row)
    BY <1>1, <1>14, <2>0 DEF OutputWriteBack, TypeOK, WithRows
  <2>7. fp' \in FpType /\ (split' => fp'.lines < SliceLines + run')
    BY <1>1, <1>2, <1>14, FpSteps DEF TypeOK
  <2>8. UNCHANGED <<queue, local, wpc, printed>>
    BY <1>14 DEF OutputWriteBack
  <2>1. TypeOK' /\ WriterAwake'
    BY <1>1, <1>2, <2>6, <2>7, <2>8 DEF TypeOK, WriterAwake, FpType
  <2>2. Threads' /\ SliceOpen'
    BY <1>1, <1>2, <1>14, SliceAssumption, FpSteps
       DEF OutputWriteBack, TypeOK, Threads, SliceOpen, WithRows, Rotating
  <2>3. InOrder'
    BY <1>1, <1>2, <1>14 DEF OutputWriteBack, InOrder
  <2>4. SnapBehind' /\ IndexBehind'
    BY <1>1, <1>2, <1>14, FpSteps, PositionsKept DEF FpType
  <2>5. QED
    BY <2>1, <2>2, <2>3, <2>4 DEF IInv
<1>15. QED
  BY <1>3, <1>4, <1>5, <1>6, <1>7, <1>8, <1>9, <1>10, <1>11, <1>12, <1>13, <1>14
     DEF WriterStep, Chance, Writer

-----------------------------------------------------------------------------
(* The main thread *)

\* Only the steps of the main thread that are named leave the writer alone.
LEMMA RecordKeeps ==
  ASSUME IInv, KnownEntry \/ Entry \/ Rotate \/ Finalize \/ RecordWriteBack
  PROVE  IInv'
<1>1. /\ TypeOK /\ WriterAwake /\ Threads /\ SliceOpen /\ InOrder
      /\ SnapBehind /\ IndexBehind
  BY DEF IInv
<1>2. UNCHANGED <<queue, stop, wpc, local, split, fp, files, submitted, printed, run,
                  hidden, idx, snap, kills, ended>>
  BY DEF KnownEntry, Entry, Rotate, Finalize, RecordWriteBack, writerVars
<1>3. mpc' = mpc \/ (mpc = "batch" /\ mpc' = "index")
  BY DEF KnownEntry, Entry, Rotate, Finalize, RecordWriteBack
<1>4. /\ todo' \in Seq(Row) /\ outBatch' \in Seq(Row)
      /\ Len(outBatch') <= AsyncBatchSize
  <2>1. CASE KnownEntry
    BY <1>1, <2>1, FirstRow DEF KnownEntry, TypeOK
  <2>2. CASE Entry
    <3>1. /\ Head(todo) \in Row /\ Tail(todo) \in Seq(Row)
          /\ outBatch \in Seq(Row) /\ Len(outBatch) < AsyncBatchSize
          /\ outBatch' = Append(outBatch, Head(todo)) /\ todo' = Tail(todo)
      BY <1>1, <2>2, FirstRow DEF Entry, TypeOK
    <3>2. /\ outBatch' \in Seq(Row) /\ Len(outBatch') = Len(outBatch) + 1
          /\ Len(outBatch) \in Nat
      BY <3>1, AppendProperties, LenProperties
    <3>3. QED
      BY <3>1, <3>2, OutputAssumption
  <2>3. CASE Rotate \/ Finalize \/ RecordWriteBack
    BY <1>1, <2>3 DEF Rotate, Finalize, RecordWriteBack, TypeOK
  <2>4. QED
    BY <2>1, <2>2, <2>3
<1>5. /\ rec' \in [rows : Seq(Row), sealed : Nat, kept : Nat]
      /\ rec'.sealed <= rec'.kept /\ rec'.kept <= Len(rec'.rows)
  <2> DEFINE Rec == [rows : Seq(Row), sealed : Nat, kept : Nat]
  <2>1. /\ rec \in Rec /\ rec.sealed <= rec.kept /\ rec.kept <= Len(rec.rows)
        /\ Flushed \in Nat /\ Flushed <= Len(rec.rows)
        /\ Len(rec.rows) \in Nat
    BY <1>1, FlushedBounded, LenProperties DEF TypeOK
  <2>2. CASE KnownEntry
    BY <2>1, <2>2 DEF KnownEntry
  <2>3. CASE Entry
    <3> DEFINE r == Head(todo)
    <3>1. r \in Row
      BY <1>1, <2>3, FirstRow DEF Entry, TypeOK
    <3>2. rec' = [rec EXCEPT !.rows = Append(@, r)]
      BY <2>3 DEF Entry
    <3> HIDE DEF r
    <3>3. /\ Append(rec.rows, r) \in Seq(Row)
          /\ Len(Append(rec.rows, r)) = Len(rec.rows) + 1
      BY <2>1, <3>1, AppendProperties
    <3>4. QED
      BY <2>1, <3>2, <3>3
  <2>4. CASE Rotate
    <3> DEFINE s == rec.sealed + ProgressLines
    <3>1. s \in Nat /\ s <= Flushed
      BY <2>1, <2>4, OutputAssumption DEF Rotate, RotationDue
    <3> DEFINE k == IF rec.kept < s THEN s ELSE rec.kept
    <3>2. rec' = [rec EXCEPT !.sealed = s, !.kept = k]
      BY <2>4 DEF Rotate
    <3>3. k \in Nat /\ s <= k /\ k <= Len(rec.rows)
      BY <2>1, <3>1
    <3> HIDE DEF s, k
    <3>4. rec' = [rows |-> rec.rows, sealed |-> s, kept |-> k]
      BY <2>1, <3>2
    <3>5. QED
      BY <2>1, <3>1, <3>3, <3>4
  <2>5. CASE Finalize
    <3> DEFINE n == Len(rec.rows)
    <3>1. n \in Nat
      BY <2>1
    <3>2. rec' = [rec EXCEPT !.sealed = n, !.kept = n]
      BY <2>5 DEF Finalize
    <3> HIDE DEF n
    <3>3. rec' = [rows |-> rec.rows, sealed |-> n, kept |-> n]
      BY <2>1, <3>2
    <3>4. QED
      BY <2>1, <3>1, <3>3 DEF n
  <2>6. CASE RecordWriteBack
    BY <2>1, <2>6 DEF RecordWriteBack
  <2>7. QED
    BY <2>2, <2>3, <2>4, <2>5, <2>6
<1>6. TypeOK' /\ WriterAwake'
  BY <1>1, <1>2, <1>3, <1>4, <1>5 DEF TypeOK, WriterAwake
<1>7. Threads' /\ SliceOpen' /\ InOrder'
  BY <1>1, <1>2, <1>3 DEF Threads, SliceOpen, InOrder
<1>8. SnapBehind' /\ IndexBehind'
  BY <1>1, <1>2, <1>3 DEF SnapBehind, IndexBehind
<1>9. QED
  BY <1>6, <1>7, <1>8 DEF IInv

\* The rows of a batch join the queue, and the writer is woken.
LEMMA SubmitKeeps ==
  ASSUME IInv, SubmitBatch \/ StopWriter
  PROVE  IInv'
<1>1. /\ TypeOK /\ WriterAwake /\ Threads /\ SliceOpen /\ InOrder
      /\ SnapBehind /\ IndexBehind
  BY DEF IInv
<1>2. UNCHANGED <<local, split, fp, files, printed, run, todo, rec, idx, snap, kills,
                  ended>>
  BY DEF SubmitBatch, StopWriter, Submit, Shutdown, outVars
<1>3. wpc' = Woken /\ wpc' # "asleep"
  BY DEF SubmitBatch, StopWriter, Submit, Shutdown, Woken
<1>4. CASE SubmitBatch
  <2>1. /\ queue' = queue \o outBatch /\ submitted' = submitted \o outBatch
        /\ outBatch' = <<>> /\ mpc = "batch" /\ UNCHANGED <<stop, mpc>>
    BY <1>4 DEF SubmitBatch, Submit
  <2>2. queue' \in Seq(Row) /\ submitted' \in Seq(Row)
    BY <1>1, <2>1, ConcatProperties DEF TypeOK
  <2>3. TypeOK' /\ WriterAwake'
    BY <1>1, <1>2, <1>3, <2>1, <2>2, NoRows, OutputAssumption
       DEF TypeOK, WriterAwake, Woken
  <2>4. ~stop /\ wpc \notin {"none", "flush", "done"}
    BY <1>1, <2>1 DEF Threads
  <2>5. Threads' /\ SliceOpen'
    BY <1>1, <1>2, <1>3, <2>1, <2>4 DEF Threads, SliceOpen, Woken, Rotating
  <2>6. InOrder'
    <3> DEFINE before == printed \o local
    <3>1. before \in Seq(Row) /\ queue \in Seq(Row) /\ outBatch \in Seq(Row)
      BY <1>1, ConcatProperties DEF TypeOK
    <3>2. submitted = before \o queue /\ before' = before
      BY <1>1, <1>2, <2>4 DEF InOrder
    <3> HIDE DEF before
    <3>3. (before \o queue) \o outBatch = before \o (queue \o outBatch)
      BY <3>1, ConcatAssociative
    <3>4. submitted' = before' \o queue'
      BY <2>1, <3>2, <3>3
    <3>5. QED
      BY <3>4 DEF InOrder, before
  <2>7. SnapBehind' /\ IndexBehind'
    BY <1>1, <1>2, <2>1 DEF SnapBehind, IndexBehind
  <2>8. QED
    BY <2>3, <2>5, <2>6, <2>7 DEF IInv
<1>5. CASE StopWriter
  <2>1. /\ UNCHANGED <<queue, submitted, outBatch>> /\ stop' = TRUE
        /\ mpc = "shutdown" /\ mpc' = "join"
    BY <1>5 DEF StopWriter, Shutdown
  <2>2. ~stop /\ wpc \notin {"none", "flush", "done"}
    BY <1>1, <2>1 DEF Threads
  <2>3. TypeOK' /\ WriterAwake'
    BY <1>1, <1>2, <1>3, <2>1 DEF TypeOK, WriterAwake, Woken
  <2>4. Threads' /\ SliceOpen' /\ InOrder'
    BY <1>1, <1>2, <1>3, <2>1, <2>2
       DEF Threads, SliceOpen, InOrder, Woken, Rotating
  <2>5. SnapBehind' /\ IndexBehind'
    BY <1>1, <1>2, <2>1 DEF SnapBehind, IndexBehind
  <2>6. QED
    BY <2>3, <2>4, <2>5 DEF IInv
<1>6. QED
  BY <1>4, <1>5

\* The index gets what was read of the writer's position.
LEMMA IndexKeeps ==
  ASSUME IInv, UpdateIndex \/ \E field \in {"slice", "lines"} : ReadCounter(field)
  PROVE  IInv'
<1>1. /\ TypeOK /\ WriterAwake /\ Threads /\ SliceOpen /\ InOrder
      /\ SnapBehind /\ IndexBehind
  BY DEF IInv
<1>2. UNCHANGED <<queue, stop, wpc, local, split, fp, files, submitted, printed, run,
                  todo, outBatch, rec, hidden, kills, ended>>
  BY DEF UpdateIndex, ReadCounter, writerVars
<1>3. mpc = "index" /\ mpc' \in {"index", "batch", "shutdown"}
  BY DEF UpdateIndex, ReadCounter
<1>4. TypeOK' /\ WriterAwake'
  BY <1>1, <1>2, <1>3 DEF TypeOK, WriterAwake
<1>5. Threads' /\ SliceOpen' /\ InOrder'
  BY <1>1, <1>2, <1>3 DEF Threads, SliceOpen, InOrder
<1>6. SnapBehind' /\ IndexBehind'
  <2>1. CASE UpdateIndex
    <3>1. /\ idx' = snap /\ DOMAIN snap = {"slice", "lines"} /\ DOMAIN snap' = {}
      BY <2>1, NoRows DEF UpdateIndex
    <3>2. QED
      BY <1>1, <1>2, <1>3, <3>1 DEF SnapBehind, IndexBehind
  <2>2. ASSUME NEW field \in {"slice", "lines"}, ReadCounter(field)
        PROVE  SnapBehind' /\ IndexBehind'
    <3>1. UNCHANGED <<idx, mpc>>
      BY <2>2 DEF ReadCounter
    <3>2. fp["slice"] \in Nat /\ fp["lines"] \in Nat
      BY <1>1 DEF TypeOK
    <3>3. SnapBehind'
      BY <1>1, <1>2, <1>3, <2>2, <3>1, <3>2 DEF ReadCounter, SnapBehind, TypeOK
    <3>4. IndexBehind'
      BY <1>1, <1>2, <3>1 DEF IndexBehind
    <3>5. QED
      BY <3>3, <3>4
  <2>3. QED
    BY <2>1, <2>2
<1>7. QED
  BY <1>4, <1>5, <1>6 DEF IInv

-----------------------------------------------------------------------------
(* The start and the end of a run *)

\* A run begins at the position of the index, with nothing submitted.
LEMMA StartKeeps ==
  ASSUME IInv, Start
  PROVE  IInv'
<1>1. /\ TypeOK /\ WriterAwake /\ Threads /\ SliceOpen /\ InOrder
      /\ SnapBehind /\ IndexBehind
  BY DEF IInv
<1>2. PICK slice \in Nat, lines \in Nat :
        /\ Open(slice, lines)
        /\ split => lines < SliceLines + run
        /\ idx # NoIndex => slice = idx["slice"]
  <2>1. CASE idx = NoIndex
    BY <1>1, <2>1, SliceAssumption DEF Start, TypeOK
  <2>2. CASE idx # NoIndex
    BY <1>1, <2>2 DEF Start, IndexBehind
  <2>3. QED
    BY <2>1, <2>2
<1> DEFINE number == IF slice = 0 THEN 1 ELSE slice
<1>3. number \in Nat /\ slice <= number
  OBVIOUS
<1>4. /\ fp' = [slice |-> number, lines |-> lines, open |-> TRUE, buf |-> <<>>]
      /\ files' = IF number \in DOMAIN files THEN files ELSE WithRows(number, <<>>)
      /\ queue' = <<>> /\ stop' = FALSE /\ local' = <<>> /\ wpc' = "top"
      /\ submitted' = <<>> /\ printed' = <<>> /\ split' = split
  BY <1>2 DEF Open
<1>5. /\ run' = run + 1 /\ run \in Nat /\ mpc = "off" /\ mpc' = "batch"
      /\ todo' = Found[run + 1] /\ run < Len(Found) /\ ended' = FALSE
      /\ UNCHANGED <<outBatch, rec, idx, snap, kills>>
  BY <1>1 DEF Start, TypeOK
<1>6. todo' \in Seq(Row)
  BY <1>5, OutputAssumption, ElementOfSeq
<1> HIDE DEF number
<1>7. fp' \in FpType /\ fp'.slice = number /\ fp'.lines = lines /\ fp'.open
  BY <1>3, <1>4, NoRows DEF FpType
<1>8. /\ \A i \in DOMAIN files' : files'[i] \in Seq(Row)
      /\ number \in DOMAIN files'
  BY <1>1, <1>4, NoRows DEF TypeOK, WithRows
<1>9. split' => fp'.lines + 1 < SliceLines + run'
  BY <1>2, <1>4, <1>5, <1>7, SliceAssumption
<1>10. split' => fp'.lines < SliceLines + run'
  BY <1>2, <1>4, <1>5, <1>7, SliceAssumption
<1>11. TypeOK' /\ WriterAwake'
  <2>1. /\ queue' \in Seq(Row) /\ local' \in Seq(Row)
        /\ submitted' \in Seq(Row) /\ printed' \in Seq(Row)
        /\ stop' \in BOOLEAN /\ split' \in BOOLEAN /\ wpc' = "top"
    BY <1>1, <1>4, NoRows DEF TypeOK
  <2>0. ended' \in BOOLEAN
    BY <1>5
  <2>2. /\ run' \in Nat /\ kills' \in Nat /\ mpc' = "batch"
        /\ outBatch' \in Seq(Row) /\ Len(outBatch') <= AsyncBatchSize
        /\ rec' \in [rows : Seq(Row), sealed : Nat, kept : Nat]
        /\ rec'.sealed <= rec'.kept /\ rec'.kept <= Len(rec'.rows)
    BY <1>1, <1>5 DEF TypeOK
  <2>3. QED
    BY <1>6, <1>7, <1>8, <1>10, <2>0, <2>1, <2>2 DEF TypeOK, WriterAwake, FpType
<1>12. Threads' /\ SliceOpen'
  BY <1>4, <1>5, <1>7, <1>8, <1>9 DEF Threads, SliceOpen, Rotating
<1>13. InOrder'
  BY <1>4, NoRows, ConcatEmptySeq DEF InOrder
<1>14. SnapBehind' /\ IndexBehind'
  BY <1>1, <1>2, <1>3, <1>4, <1>5, <1>7, SliceAssumption DEF SnapBehind, IndexBehind
<1>15. QED
  BY <1>11, <1>12, <1>13, <1>14 DEF IInv

\* What is gone with the process.
LEMMA GoneKeeps ==
  ASSUME IInv, End \/ Kill
  PROVE  IInv'
<1>1. /\ TypeOK /\ WriterAwake /\ Threads /\ SliceOpen /\ InOrder
      /\ SnapBehind /\ IndexBehind
  BY DEF IInv
<1>2. /\ wpc' = "none" /\ fp' = NoFp /\ queue' = <<>> /\ stop' = FALSE
      /\ local' = <<>> /\ submitted' = <<>> /\ printed' = <<>> /\ split' = split
      /\ mpc' = "off" /\ todo' = <<>> /\ outBatch' = <<>> /\ rec' = NoRec
      /\ DOMAIN snap' = {} /\ UNCHANGED <<run, idx, files>>
      /\ kills' \in {kills, kills + 1} /\ ended' \in {ended, TRUE}
  <2>1. Gone /\ UNCHANGED files
    BY DEF End, Kill
  <2>2. kills' \in {kills, kills + 1} /\ ended' \in {ended, TRUE}
    BY DEF End, Kill
  <2>3. WriterGone /\ snap' = <<>>
    BY <2>1 DEF Gone
  <2>4. /\ mpc' = "off" /\ todo' = <<>> /\ outBatch' = <<>> /\ rec' = NoRec
        /\ UNCHANGED <<run, idx>>
    BY <2>1 DEF Gone
  <2>5. DOMAIN snap' = {}
    BY <2>3
  <2>6. QED
    BY <2>1, <2>2, <2>3, <2>4, <2>5 DEF WriterGone
<1>3. /\ fp' \in FpType /\ fp'.lines = 0 /\ fp'.slice = 0 /\ ~fp'.open
      /\ rec' \in [rows : Seq(Row), sealed : Nat, kept : Nat]
      /\ rec'.sealed <= rec'.kept /\ rec'.kept <= Len(rec'.rows)
  BY <1>2, NoRows DEF NoFp, NoRec, FpType
<1>4. TypeOK' /\ WriterAwake'
  <2>1. /\ queue' \in Seq(Row) /\ local' \in Seq(Row)
        /\ submitted' \in Seq(Row) /\ printed' \in Seq(Row)
        /\ todo' \in Seq(Row) /\ outBatch' \in Seq(Row)
        /\ Len(outBatch') <= AsyncBatchSize
    BY <1>2, NoRows, OutputAssumption
  <2>0. stop' \in BOOLEAN /\ split' \in BOOLEAN /\ ended' \in BOOLEAN
    <3>1. ended \in BOOLEAN /\ split \in BOOLEAN
      BY <1>1 DEF TypeOK
    <3>2. QED
      BY <1>2, <3>1
  <2>2. /\ run' \in Nat /\ kills' \in Nat
        /\ \A i \in DOMAIN files' : files'[i] \in Seq(Row)
        /\ fp'.lines < SliceLines + run'
    BY <1>1, <1>2, <1>3, SliceAssumption DEF TypeOK
  <2>3. wpc' = "none" /\ mpc' = "off"
    BY <1>2
  <2>4. QED
    BY <1>3, <2>0, <2>1, <2>2, <2>3 DEF TypeOK, WriterAwake, FpType
<1>5. Threads' /\ SliceOpen' /\ InOrder'
  BY <1>2, <1>3 DEF Threads, SliceOpen, InOrder, Rotating
<1>6. SnapBehind' /\ IndexBehind'
  BY <1>1, <1>2 DEF SnapBehind, IndexBehind
<1>7. QED
  BY <1>4, <1>5, <1>6 DEF IInv

\* Every step keeps the invariant.
LEMMA StepInv == IInv /\ [Next]_vars => IInv'
<1> SUFFICES ASSUME IInv, [Next]_vars PROVE IInv'
  OBVIOUS
<1>1. CASE Next
  <2>1. CASE Start
    BY <2>1, StartKeeps
  <2>2. CASE KnownEntry \/ Entry \/ Rotate \/ Finalize \/ RecordWriteBack
    BY <2>2, RecordKeeps
  <2>3. CASE SubmitBatch \/ StopWriter
    BY <2>3, SubmitKeeps
  <2>4. CASE UpdateIndex \/ \E field \in {"slice", "lines"} : ReadCounter(field)
    BY <2>4, IndexKeeps
  <2>5. CASE WriterStep \/ Chance
    BY <2>5, WriterKeeps
  <2>6. CASE End \/ Kill
    BY <2>6, GoneKeeps
  <2>7. QED
    BY <1>1, <2>1, <2>2, <2>3, <2>4, <2>5, <2>6 DEF Next, Main
<1>2. CASE UNCHANGED vars
  BY <1>2, ZenonT(60) DEF vars, writerVars, IInv, TypeOK, WriterAwake, Threads, SliceOpen,
              InOrder, SnapBehind, IndexBehind
<1>3. QED
  BY <1>1, <1>2

\* The invariant holds of every behaviour of the program.
THEOREM OutputInv == Spec => []IInv
<1>1. Init => IInv
  BY InitInv
<1>2. IInv /\ [Next]_vars => IInv'
  BY StepInv
<1>3. QED
  BY <1>1, <1>2, PTL DEF Spec

\* Every variable keeps its type, the record is never said to have more rows
\* sealed than written, and a slice never holds more than its limit and one row
\* for every earlier run (record_path, print_to_stream).
THEOREM OutputTypeCorrect == Spec => []TypeOK
<1>1. IInv => TypeOK
  BY DEF IInv
<1>2. QED
  BY <1>1, OutputInv, PTL

\* The writer never sleeps over a row or a stop (async_worker.c).
THEOREM WriterNeverOversleeps == Spec => []WriterAwake
<1>1. IInv => WriterAwake
  BY DEF IInv
<1>2. QED
  BY <1>1, OutputInv, PTL

-----------------------------------------------------------------------------
(* The writer is a stream of rows *)

\* A row that is printed is the first one submitted and not printed yet.
LEMMA PrintEmits ==
  ASSUME IInv, PrintRow
  PROVE  Stream!Emit
<1> DEFINE h == Head(local)
           rest == Tail(local) \o queue
<1>1. /\ h \in Row /\ Tail(local) \in Seq(Row) /\ local = <<h>> \o Tail(local)
      /\ queue \in Seq(Row) /\ printed \in Seq(Row) /\ <<h>> \in Seq(Row)
      /\ local \in Seq(Row)
  BY FirstRow DEF IInv, TypeOK, PrintRow
<1>2. /\ submitted = (printed \o local) \o queue
      /\ printed' = Append(printed, h) /\ wpc = "work"
      /\ wpc' \in {"close", "work"} /\ submitted' = submitted
  BY DEF IInv, InOrder, PrintRow
<1>3. rest \in Seq(Row)
  BY <1>1, ConcatProperties
<1>4. (printed \o local) \o queue = printed \o (local \o queue)
  BY <1>1, ConcatAssociative
<1>5. local \o queue = <<h>> \o rest
  BY <1>1, ConcatAssociative
<1> HIDE DEF h, rest
<1>6. submitted = printed \o (<<h>> \o rest)
  BY <1>2, <1>4, <1>5
<1>7. /\ Len(<<h>> \o rest) = 1 + Len(rest) /\ (<<h>> \o rest)[1] = h
      /\ <<h>> \o rest \in Seq(Row) /\ Len(rest) \in Nat
  BY <1>1, <1>3
<1>8. Len(printed) < Len(submitted) /\ submitted[Len(printed) + 1] = h
  BY <1>1, <1>6, <1>7
<1>9. QED
  BY <1>2, <1>8 DEF Stream!Emit

\* A batch that is submitted joins what was submitted.
LEMMA BatchJoins ==
  ASSUME IInv, SubmitBatch
  PROVE  Stream!Submit
<1>1. /\ submitted' = submitted \o outBatch /\ printed' = printed
      /\ mpc = "batch" /\ wpc' = Woken
  BY DEF SubmitBatch, Submit
<1>2. submitted \in Seq(Row) /\ outBatch \in Seq(Row)
  BY DEF IInv, TypeOK
<1>3. wpc # "done" /\ wpc' # "done"
  BY <1>1 DEF IInv, Threads, Woken
<1>4. /\ submitted' \in Seq(Row) /\ Len(submitted) <= Len(submitted')
      /\ SubSeq(submitted', 1, Len(submitted)) = submitted
  <2>1. submitted' \in Seq(Row) /\ Len(submitted') = Len(submitted) + Len(outBatch)
    BY <1>1, <1>2, ConcatProperties
  <2>2. Len(submitted) \in Nat /\ Len(outBatch) \in Nat
    BY <1>2, LenProperties
  <2>3. SubSeq(submitted \o outBatch, 1, Len(submitted)) = submitted
    BY <1>2, SubSeqOfConcat1, SubSeqFull, <2>2
  <2>4. QED
    BY <1>1, <2>1, <2>2, <2>3
<1>5. QED
  BY <1>1, <1>3, <1>4 DEF Stream!Submit

\* The writer ends with everything printed.
LEMMA EndCloses ==
  ASSUME IInv, FlushAndEnd
  PROVE  Stream!Close
<1>1. local = <<>> /\ queue = <<>> /\ wpc = "flush" /\ wpc' = "done"
  BY DEF IInv, Threads, Rotating, FlushAndEnd
<1>2. printed = submitted
  BY <1>1, ConcatEmptySeq DEF IInv, TypeOK, InOrder
<1>3. QED
  BY <1>1, <1>2 DEF FlushAndEnd, Stream!Close

\* Every step of the program is one of the stream, or leaves it alone.
LEMMA StepStreams ==
  ASSUME IInv, [Next]_vars
  PROVE  [Stream!StreamNext]_(Stream!streamVars)
<1>1. CASE Start \/ End \/ Kill
  <2>1. submitted' = <<>> /\ printed' = <<>> /\ wpc' \in {"top", "none"}
    BY <1>1 DEF Start, Open, End, Kill, Gone, WriterGone
  <2>2. QED
    BY <2>1 DEF Stream!StreamNext, Stream!Renew
<1>2. CASE SubmitBatch
  BY <1>2, BatchJoins DEF Stream!StreamNext
<1>3. CASE PrintRow
  BY <1>3, PrintEmits DEF Stream!StreamNext
<1>4. CASE FlushAndEnd
  BY <1>4, EndCloses DEF Stream!StreamNext
<1>5. CASE StopWriter
  <2>1. wpc # "done"
    BY <1>5 DEF IInv, Threads, StopWriter
  <2>2. UNCHANGED <<submitted, printed>> /\ wpc' \in {wpc, "top"}
    BY <1>5 DEF StopWriter, Shutdown, Woken
  <2>3. QED
    BY <2>1, <2>2 DEF Stream!streamVars
<1>6. CASE \/ KnownEntry \/ Entry \/ Rotate \/ Finalize \/ UpdateIndex
           \/ RecordWriteBack \/ UNCHANGED vars
           \/ \E field \in {"slice", "lines"} : ReadCounter(field)
  BY <1>6 DEF KnownEntry, Entry, Rotate, Finalize, UpdateIndex, RecordWriteBack,
              ReadCounter, vars, writerVars, Stream!streamVars
<1>7. CASE \/ Sleep \/ WakeUp \/ TakeAll \/ WorkEnd \/ CloseSlice \/ NextSlice
           \/ CreateSlice \/ ResetLines \/ StopSeen \/ OutputWriteBack
  <2>1. UNCHANGED <<submitted, printed>>
    BY <1>7 DEF Sleep, WakeUp, TakeAll, WorkEnd, CloseSlice, NextSlice,
                CreateSlice, ResetLines, StopSeen, OutputWriteBack, outVars
  <2>2. wpc' = wpc \/ (wpc # "done" /\ wpc' # "done")
    BY <1>7 DEF Sleep, WakeUp, TakeAll, WorkEnd, CloseSlice, NextSlice,
                CreateSlice, ResetLines, StopSeen, OutputWriteBack, threadVars
  <2>3. QED
    BY <2>1, <2>2 DEF Stream!streamVars
<1>8. QED
  BY <1>1, <1>2, <1>3, <1>4, <1>5, <1>6, <1>7
     DEF Next, Main, WriterStep, Chance, Writer

\* The writer thread with its list, its condition variable and its shutdown is
\* a FIFO stream of rows that closes only when it is empty.
THEOREM WriterImplementsStream == Spec => StreamSpec
<1>1. Init => Stream!StreamInit
  BY DEF Init, WriterInit, Stream!StreamInit
<1>2. IInv /\ [Next]_vars => [Stream!StreamNext]_(Stream!streamVars)
  BY StepStreams
<1>3. QED
  BY <1>1, <1>2, OutputInv, PTL DEF Spec, StreamSpec, Stream!StreamSpec

-----------------------------------------------------------------------------
\* A slice below the one in the index is neither written nor created again.
LEMMA StepKeepsSlices ==
  ASSUME IInv, [Next]_vars, idx # NoIndex, NEW i \in DOMAIN files, i < idx.slice
  PROVE  files'[i] = files[i]
<1>1. CASE UNCHANGED files
  BY <1>1
<1>2. CASE Start
  BY <1>2 DEF Start, Open, WithRows
<1>3. CASE CloseSlice \/ CreateSlice \/ FlushAndEnd \/ OutputWriteBack
  <2>1. PICK rows : files' = WithRows(fp.slice, rows)
    BY <1>3 DEF CloseSlice, CreateSlice, FlushAndEnd, OutputWriteBack
  <2>2. wpc # "none"
    BY <1>3 DEF CloseSlice, CreateSlice, FlushAndEnd, OutputWriteBack, IInv, SliceOpen
  <2>3. idx["slice"] \in Nat /\ idx["slice"] <= fp.slice /\ fp.slice \in Nat
    BY <2>2 DEF IInv, TypeOK, Threads, IndexBehind
  <2>4. i # fp.slice
    BY <2>3
  <2>5. QED
    BY <2>1, <2>4 DEF WithRows
<1>4. QED
  BY <1>1, <1>2, <1>3
     DEF Next, vars, writerVars, Main, KnownEntry, Entry, SubmitBatch, Submit, Rotate,
         Finalize, UpdateIndex, StopWriter, Shutdown, ReadCounter, WriterStep, Chance,
         Writer, Sleep, WakeUp, TakeAll, PrintRow, WorkEnd, NextSlice, ResetLines,
         StopSeen, RecordWriteBack, End, Kill, outVars

\* No run changes an output slice before the one the index names, however the
\* earlier runs ended (init_output_files, rotate_output_slice).
THEOREM SlicesKept == Spec => OldSlicesKept
<1>1. IInv /\ [Next]_vars =>
        [idx # NoIndex =>
           \A i \in DOMAIN files : i < idx.slice => files'[i] = files[i]]_vars
  BY StepKeepsSlices
<1>2. QED
  BY <1>1, OutputInv, PTL DEF Spec, OldSlicesKept

-----------------------------------------------------------------------------
(***************************************************************************)
(* The files of the first run                                              *)
(***************************************************************************)

FirstRun == run = 1 /\ mpc # "off"

\* Before it there is nothing.
Fresh ==
  run = 0 =>
    /\ mpc = "off" /\ outBatch = <<>> /\ hidden = {} /\ idx = NoIndex
    /\ files \in [1 .. 0 -> Seq(Row)]

\* What the scan found was given to the writer, or waits for it, or is still
\* to come; at the end there is nothing but the first.
Given ==
  FirstRun =>
    /\ (submitted \o outBatch) \o todo = Found[1]
    /\ hidden = {} /\ ~ended
    /\ mpc \in {"shutdown", "join"} => todo = <<>> /\ outBatch = <<>>

\* How many slices there are: the number is taken before the file is created.
Slices == IF wpc = "create" THEN fp.slice - 1 ELSE fp.slice

\* The slices and the buffer hold what was printed, in order.
OnDisk ==
  FirstRun =>
    /\ fp.slice \in Nat \ {0} /\ fp.buf \in Seq(Row)
    /\ files \in [1 .. Slices -> Seq(Row)]
    /\ FlattenSeq(files) \o fp.buf = printed
    /\ wpc \in {"number", "create", "reset", "done"} => fp.buf = <<>>

\* Slices are cut where the counter says.
Cut ==
  FirstRun /\ split =>
    /\ \A i \in 1 .. Slices : i < fp.slice => Len(files[i]) = SliceLines
    /\ wpc \notin {"create", "reset"} => fp.lines = Len(files[fp.slice]) + Len(fp.buf)
    /\ wpc \in {"close", "number"} => fp.lines = SliceLines
    /\ wpc = "reset" => Len(files[fp.slice]) = 0

\* A single file is never rotated.
NotCut == FirstRun /\ wpc \in Rotating => split

\* Only the end of the run sets the flag.
Over == run = 1 /\ ended => mpc = "off"

\* With IInv this is inductive.  Given leads from the scan to the writer,
\* InOrder of IInv through it, OnDisk to the files.
LInv == Fresh /\ Given /\ OnDisk /\ Cut /\ NotCut /\ OutputIsListing /\ Over

-----------------------------------------------------------------------------
\* The slices together are rows again.
LEMMA SlicesFlat ==
  ASSUME NEW n \in Nat, files \in [1 .. n -> Seq(Row)]
  PROVE  FlattenSeq(files) \in Seq(Row)
<1>1. PICK P : P = Seq(Row)
  OBVIOUS
<1>2. files \in Seq(P)
  BY <1>1
<1>3. QED
  BY ONLY <1>1, <1>2, FlattenType

\* More rows at the end of the last slice.
LEMMA SliceGrows ==
  ASSUME NEW n \in Nat \ {0}, files \in [1 .. n -> Seq(Row)], NEW t \in Seq(Row),
         files' = WithRows(n, files[n] \o t)
  PROVE  /\ files' \in [1 .. n -> Seq(Row)]
         /\ FlattenSeq(files') = FlattenSeq(files) \o t
         /\ Len(files'[n]) = Len(files[n]) + Len(t)
         /\ \A i \in 1 .. n : i # n => files'[i] = files[i]
<1>1. PICK P : P = Seq(Row)
  OBVIOUS
<1>2. files \in Seq(P) /\ Len(files) = n
  BY <1>1
<1>3. files[n] \in Seq(Row) /\ n \in 1 .. n
  OBVIOUS
<1>4. files[n] \o t \in Seq(Row) /\ Len(files[n] \o t) = Len(files[n]) + Len(t)
  BY <1>3, ConcatProperties
<1>5. files' = [files EXCEPT ![n] = files[n] \o t]
  <2>1. DOMAIN files \cup {n} = 1 .. n
    OBVIOUS
  <2>2. files' = [j \in 1 .. n |-> IF j = n THEN files[n] \o t ELSE files[j]]
    BY <2>1 DEF WithRows
  <2>3. QED
    BY <2>2
<1>6. FlattenSeq([files EXCEPT ![Len(files)] = files[Len(files)] \o t])
      = FlattenSeq(files) \o t
  <2>1. t \in P /\ Len(files) # 0
    BY <1>1, <1>2
  <2>2. QED
    BY ONLY <1>1, <1>2, <2>1, FlattenGrow
<1>7. files' \in [1 .. n -> Seq(Row)] /\ \A i \in 1 .. n : i # n => files'[i] = files[i]
  BY <1>4, <1>5
<1>8. files'[n] = files[n] \o t
  BY <1>3, <1>5
<1>9. QED
  BY <1>2, <1>4, <1>5, <1>6, <1>7, <1>8

\* A new slice.
LEMMA SliceAdded ==
  ASSUME NEW n \in Nat, files \in [1 .. n -> Seq(Row)], files' = WithRows(n + 1, <<>>)
  PROVE  /\ files' \in [1 .. n + 1 -> Seq(Row)]
         /\ FlattenSeq(files') = FlattenSeq(files)
         /\ Len(files'[n + 1]) = 0
         /\ \A i \in 1 .. n : files'[i] = files[i]
<1>1. PICK P : P = Seq(Row)
  OBVIOUS
<1>2. files \in Seq(P) /\ Len(files) = n
  BY <1>1
<1>3. PICK e : e = <<>>
  OBVIOUS
<1>4. e \in Seq(Row) /\ Len(e) = 0
  BY <1>3, NoRows
<1>5. PICK a : a = Append(files, e)
  OBVIOUS
<1>6. /\ a \in Seq(P) /\ Len(a) = n + 1
      /\ \A i \in 1 .. n : a[i] = files[i]
      /\ a[n + 1] = e
  <2>1. e \in P
    BY <1>1, <1>4
  <2>2. QED
    BY ONLY <1>2, <1>5, <2>1, AppendProperties
<1>7. PICK D : D = DOMAIN files \cup {n + 1}
  OBVIOUS
<1>8. files' = [j \in D |-> IF j = n + 1 THEN e ELSE files[j]]
  BY <1>3, <1>7 DEF WithRows
<1>9. /\ files' \in [1 .. n + 1 -> Seq(Row)]
      /\ files'[n + 1] = e /\ \A i \in 1 .. n : files'[i] = files[i]
  <2>1. D = 1 .. n + 1
    BY <1>7
  <2>2. files' \in [D -> Seq(Row)]
    BY <1>4, <1>7, <1>8
  <2>3. n + 1 \in D /\ \A i \in 1 .. n : i \in D /\ i # n + 1
    BY <2>1
  <2>4. QED
    BY <1>8, <2>1, <2>2, <2>3
<1>10. a = files'
  <2>1. files' \in Seq(P) /\ Len(files') = n + 1
    BY <1>1, <1>9
  <2>2. \A i \in 1 .. n + 1 : a[i] = files'[i]
    <3>1. \A i \in 1 .. n + 1 : i = n + 1 \/ i \in 1 .. n
      OBVIOUS
    <3>2. QED
      BY <1>6, <1>9, <3>1
  <2>3. QED
    BY ONLY <1>6, <2>1, <2>2, SeqEqual
<1>11. FlattenSeq(a) = FlattenSeq(files) \o e
  <2>1. e \in P
    BY <1>1, <1>4
  <2>2. QED
    BY ONLY <1>1, <1>2, <1>5, <2>1, FlattenAppend
<1>12. FlattenSeq(files) \in Seq(Row)
  BY SlicesFlat
<1>13. FlattenSeq(files) \o e = FlattenSeq(files)
  <2>1. PICK w \in Seq(Row) : w = FlattenSeq(files)
    BY <1>12
  <2>2. QED
    BY ONLY <1>3, <2>1, ConcatEmptySeq
<1>14. QED
  BY <1>4, <1>9, <1>10, <1>11, <1>12, <1>13

-----------------------------------------------------------------------------
(* The writer *)

\* What the files depend on.
LEMMA FilesFrame ==
  ASSUME OnDisk, Cut, NotCut, UNCHANGED <<run, split, fp, files, printed>>,
         mpc' # "off" => mpc # "off",
         \/ wpc' = wpc
         \/ {wpc, wpc'} \subseteq {"top", "asleep", "work", "flush"}
  PROVE  OnDisk' /\ Cut' /\ NotCut'
<1>1. FirstRun' => FirstRun
  BY DEF FirstRun
<1>2. Slices' = Slices
  BY DEF Slices
<1>3. OnDisk'
  BY <1>1, <1>2 DEF OnDisk
<1>4. Cut'
  BY <1>1, <1>2 DEF Cut
<1>5. NotCut'
  BY <1>1 DEF NotCut, Rotating
<1>6. QED
  BY <1>3, <1>4, <1>5

\* What a step of the writer has before it in the first run.
LEMMA WriterFacts ==
  ASSUME IInv, LInv, WriterStep \/ Chance
  PROVE  /\ FirstRun' <=> FirstRun
         /\ UNCHANGED <<run, mpc, split>>
         /\ fp \in FpType /\ fp.slice \in Nat /\ fp.lines \in Nat /\ fp.buf \in Seq(Row)
         /\ FirstRun => OnDisk /\ Cut /\ NotCut /\ ~ended
BY WriterFrame DEF FirstRun, IInv, TypeOK, FpType, LInv, Given

\* A row that is printed joins the buffer, and the counter.
LEMMA PrintListed ==
  ASSUME IInv, LInv, WriterStep, PrintRow
  PROVE  OnDisk' /\ Cut' /\ NotCut'
<1>1. /\ FirstRun' <=> FirstRun
      /\ UNCHANGED <<run, mpc, split>>
      /\ fp \in FpType /\ fp.slice \in Nat /\ fp.lines \in Nat /\ fp.buf \in Seq(Row)
      /\ FirstRun => OnDisk /\ Cut /\ NotCut /\ ~ended
  BY WriterFacts
<1>2. PICK h \in Row : h = Head(local)
  BY FirstRow DEF PrintRow, IInv, TypeOK
<1>3. /\ wpc = "work" /\ printed' = Append(printed, h) /\ files' = files
      /\ wpc' = (IF SliceFull THEN "close" ELSE "work")
      /\ fp' = [fp EXCEPT !.buf = Append(@, h), !.lines = @ + 1]
  BY <1>2 DEF PrintRow
<1>4. PICK b \in Seq(Row) : b = fp.buf
  BY <1>1
<1>5. PICK c \in Seq(Row) : c = Append(b, h)
  BY <1>4, AppendProperties
<1>6. fp'.slice = fp.slice /\ fp'.lines = fp.lines + 1 /\ fp'.buf = c
  BY <1>1, <1>3, <1>4, <1>5 DEF FpType
<1>7. Len(c) = Len(b) + 1 /\ c = b \o <<h>> /\ <<h>> \in Seq(Row) /\ Len(b) \in Nat
  BY <1>5, AppendProperties, AppendIsConcat, LenProperties
<1>8. SUFFICES ASSUME FirstRun PROVE OnDisk' /\ Cut' /\ NotCut'
  BY <1>1 DEF OnDisk, Cut, NotCut
<1>9. /\ fp.slice \in Nat \ {0} /\ files \in [1 .. fp.slice -> Seq(Row)]
      /\ FlattenSeq(files) \o b = printed
  BY <1>1, <1>3, <1>4, <1>8 DEF OnDisk, Slices
<1>10. Slices = fp.slice /\ Slices' = fp.slice
  BY <1>3, <1>6 DEF Slices
<1>11. FlattenSeq(files) \o c = printed'
  <2>1. PICK w \in Seq(Row) : w = FlattenSeq(files)
    BY <1>9, SlicesFlat
  <2>2. w \o (b \o <<h>>) = (w \o b) \o <<h>>
    BY <1>7, ConcatAssociative
  <2>3. printed' = printed \o <<h>>
    <3>1. printed \in Seq(Row)
      BY DEF IInv, TypeOK
    <3>2. QED
      BY <1>3, <3>1, AppendIsConcat
  <2>4. QED
    BY <1>7, <1>9, <2>1, <2>2, <2>3
<1>12. OnDisk'
  BY <1>1, <1>3, <1>6, <1>9, <1>10, <1>11 DEF OnDisk
<1>13. CASE split
  <2>1. fp.lines < SliceLines
    <3>1. run = 1 /\ fp.lines + 1 < SliceLines + run
      BY <1>3, <1>8, <1>13 DEF IInv, SliceOpen, FirstRun, Rotating
    <3>2. QED
      BY <1>1, <3>1, SliceAssumption
  <2>2. wpc' = "close" => fp.lines + 1 = SliceLines
    BY <1>1, <1>3, <2>1, SliceAssumption DEF SliceFull
  <2>3. /\ \A i \in 1 .. fp.slice : i < fp.slice => Len(files[i]) = SliceLines
        /\ fp.lines = Len(files[fp.slice]) + Len(b)
    BY <1>1, <1>3, <1>4, <1>8, <1>10, <1>13 DEF Cut
  <2>4. fp.lines + 1 = Len(files[fp.slice]) + Len(c)
    <3>1. PICK x \in Nat : x = Len(files[fp.slice])
      <4>1. fp.slice \in 1 .. fp.slice
        BY <1>9
      <4>2. files[fp.slice] \in Seq(Row)
        BY <1>9, <4>1, Zenon
      <4>3. QED
        BY <4>2, LenProperties, Zenon
    <3>2. PICK y \in Nat : y = Len(b)
      BY <1>7
    <3>3. fp.lines = x + y /\ Len(c) = y + 1
      BY <1>7, <2>3, <3>1, <3>2
    <3>4. fp.lines + 1 = x + (y + 1)
      BY <3>3
    <3>5. QED
      BY <3>1, <3>3, <3>4
  <2>5. wpc' \in {"close", "work"}
    BY <1>3
  <2>6. fp'.slice = fp.slice /\ fp'.lines = fp.lines + 1 /\ files' = files /\ fp'.buf = c
    BY <1>3, <1>6
  <2>7. Cut'
    <3>1. \A i \in 1 .. Slices' : i < fp'.slice => Len(files'[i]) = SliceLines
      BY <1>10, <2>3, <2>6
    <3>2. fp'.lines = Len(files'[fp'.slice]) + Len(fp'.buf)
      BY <2>4, <2>6
    <3>3. wpc' \in {"close", "number"} => fp'.lines = SliceLines
      BY <2>2, <2>5, <2>6
    <3>4. QED
      BY <2>5, <3>1, <3>2, <3>3 DEF Cut
  <2>8. NotCut'
    BY <1>1, <1>13 DEF NotCut
  <2>9. QED
    BY <1>12, <2>7, <2>8
<1>14. CASE ~split
  <2>1. wpc' = "work"
    BY <1>3, <1>14 DEF SliceFull
  <2>2. Cut' /\ NotCut'
    BY <1>1, <1>14, <2>1 DEF Cut, NotCut, Rotating
  <2>3. QED
    BY <1>12, <2>2
<1>15. QED
  BY <1>13, <1>14

\* The buffer goes to the slice when it is closed, and at the end.
LEMMA FlushListed ==
  ASSUME IInv, LInv, WriterStep, CloseSlice \/ FlushAndEnd
  PROVE  OnDisk' /\ Cut' /\ NotCut'
<1>1. /\ FirstRun' <=> FirstRun
      /\ UNCHANGED <<run, mpc, split>>
      /\ fp \in FpType /\ fp.slice \in Nat /\ fp.lines \in Nat /\ fp.buf \in Seq(Row)
      /\ FirstRun => OnDisk /\ Cut /\ NotCut /\ ~ended
  BY WriterFacts
<1>2. PICK b \in Seq(Row) : b = fp.buf
  BY <1>1
<1>3. /\ wpc \in {"close", "flush"} /\ printed' = printed
      /\ wpc' = (IF wpc = "close" THEN "number" ELSE "done")
      /\ files' = WithRows(fp.slice, files[fp.slice] \o b)
      /\ fp'.slice = fp.slice /\ fp'.lines = fp.lines /\ fp'.buf = <<>>
  BY <1>1, <1>2 DEF CloseSlice, FlushAndEnd, FpType
<1>4. SUFFICES ASSUME FirstRun PROVE OnDisk' /\ Cut' /\ NotCut'
  BY <1>1 DEF OnDisk, Cut, NotCut
<1>5. Slices = fp.slice /\ Slices' = fp.slice
  BY <1>3 DEF Slices
<1>6. PICK n \in Nat \ {0} : n = fp.slice
  BY <1>1, <1>4 DEF OnDisk
<1>7. files \in [1 .. n -> Seq(Row)] /\ FlattenSeq(files) \o b = printed
  BY <1>1, <1>2, <1>4, <1>5, <1>6 DEF OnDisk
<1>8. /\ files' \in [1 .. n -> Seq(Row)]
      /\ FlattenSeq(files') = printed
      /\ Len(files'[n]) = Len(files[n]) + Len(b)
      /\ \A i \in 1 .. n : i # n => files'[i] = files[i]
  BY <1>3, <1>6, <1>7, SliceGrows
<1>9. OnDisk'
  <2>1. PICK e \in Seq(Row) : e = <<>>
    BY NoRows
  <2>2. FlattenSeq(files') \o e = printed
    <3>1. printed \in Seq(Row)
      BY DEF IInv, TypeOK
    <3>2. QED
      BY <1>8, <2>1, <3>1, ConcatEmptySeq
  <2>3. QED
    BY <1>3, <1>5, <1>6, <1>8, <2>1, <2>2 DEF OnDisk
<1>10. Cut'
  <2>1. SUFFICES ASSUME split PROVE Cut'
    BY <1>1 DEF Cut
  <2>2. /\ \A i \in 1 .. n : i < n => Len(files[i]) = SliceLines
        /\ fp.lines = Len(files[n]) + Len(b)
        /\ wpc = "close" => fp.lines = SliceLines
    BY <1>1, <1>2, <1>3, <1>4, <1>5, <1>6, <2>1 DEF Cut
  <2>3. \A i \in 1 .. n : i < n => Len(files'[i]) = SliceLines
    BY <1>8, <2>2
  <2>4. fp.lines = Len(files'[n]) + 0
    BY <1>1, <1>8, <2>2
  <2>5. Len(fp'.buf) = 0
    BY <1>3, NoRows
  <2>6. QED
    BY <1>3, <1>5, <1>6, <2>2, <2>3, <2>4, <2>5 DEF Cut
<1>11. NotCut'
  BY <1>1, <1>3, <1>4 DEF NotCut, Rotating
<1>12. QED
  BY <1>9, <1>10, <1>11

\* The number of the next slice, before there is one.
LEMMA NumberListed ==
  ASSUME IInv, LInv, WriterStep, NextSlice
  PROVE  OnDisk' /\ Cut' /\ NotCut'
<1>1. /\ FirstRun' <=> FirstRun
      /\ UNCHANGED <<run, mpc, split>>
      /\ fp \in FpType /\ fp.slice \in Nat /\ fp.lines \in Nat /\ fp.buf \in Seq(Row)
      /\ FirstRun => OnDisk /\ Cut /\ NotCut /\ ~ended
  BY WriterFacts
<1>2. PICK n \in Nat : n = fp.slice
  BY <1>1
<1>3. /\ wpc = "number" /\ wpc' = "create" /\ printed' = printed /\ files' = files
      /\ fp'.slice = n + 1 /\ fp'.lines = fp.lines /\ fp'.buf = fp.buf
  BY <1>1, <1>2 DEF NextSlice, FpType
<1>4. SUFFICES ASSUME FirstRun PROVE OnDisk' /\ Cut' /\ NotCut'
  BY <1>1 DEF OnDisk, Cut, NotCut
<1>5. Slices = n /\ Slices' = n
  BY <1>2, <1>3 DEF Slices
<1>6. OnDisk'
  <2>1. /\ n \in Nat \ {0} /\ fp.buf \in Seq(Row) /\ fp.buf = <<>>
        /\ files \in [1 .. n -> Seq(Row)]
        /\ FlattenSeq(files) \o fp.buf = printed
    BY <1>1, <1>2, <1>3, <1>4, <1>5 DEF OnDisk
  <2>2. n + 1 \in Nat \ {0}
    OBVIOUS
  <2>3. QED
    BY <1>3, <1>5, <2>1, <2>2 DEF OnDisk
<1>7. Cut'
  <2>1. SUFFICES ASSUME split PROVE Cut'
    BY <1>1 DEF Cut
  <2>2. /\ \A i \in 1 .. n : i < n => Len(files[i]) = SliceLines
        /\ fp.lines = Len(files[n]) + Len(fp.buf)
        /\ fp.lines = SliceLines /\ fp.buf = <<>>
        /\ files[n] \in Seq(Row)
    <3>1. /\ \A i \in 1 .. n : i < n => Len(files[i]) = SliceLines
          /\ fp.lines = Len(files[n]) + Len(fp.buf)
          /\ fp.lines = SliceLines
      BY <1>1, <1>2, <1>3, <1>4, <1>5, <2>1 DEF Cut
    <3>2. /\ n \in Nat \ {0} /\ fp.buf = <<>>
          /\ files \in [1 .. n -> Seq(Row)]
      BY <1>1, <1>2, <1>3, <1>4, <1>5 DEF OnDisk
    <3>3. n \in 1 .. n
      BY <3>2
    <3>4. QED
      BY <3>1, <3>2, <3>3
  <2>3. Len(files[n]) = SliceLines
    BY <2>2, NoRows, LenProperties
  <2>4. \A i \in 1 .. n : Len(files[i]) = SliceLines
    <3>1. \A i \in 1 .. n : i < n \/ i = n
      OBVIOUS
    <3>2. QED
      BY <2>2, <2>3, <3>1
  <2>5. QED
    BY <1>3, <1>5, <2>4 DEF Cut
<1>8. NotCut'
  BY <1>1, <1>3, <1>4 DEF NotCut, Rotating
<1>9. QED
  BY <1>6, <1>7, <1>8

\* The next slice, empty.
LEMMA CreateListed ==
  ASSUME IInv, LInv, WriterStep, CreateSlice
  PROVE  OnDisk' /\ Cut' /\ NotCut'
<1>1. /\ FirstRun' <=> FirstRun
      /\ UNCHANGED <<run, mpc, split>>
      /\ fp \in FpType /\ fp.slice \in Nat /\ fp.lines \in Nat /\ fp.buf \in Seq(Row)
      /\ FirstRun => OnDisk /\ Cut /\ NotCut /\ ~ended
  BY WriterFacts
<1>2. /\ wpc = "create" /\ wpc' = "reset" /\ printed' = printed
      /\ files' = WithRows(fp.slice, <<>>)
      /\ fp'.slice = fp.slice /\ fp'.buf = fp.buf
  BY <1>1 DEF CreateSlice, FpType
<1>3. SUFFICES ASSUME FirstRun PROVE OnDisk' /\ Cut' /\ NotCut'
  BY <1>1 DEF OnDisk, Cut, NotCut
<1>4. PICK n \in Nat : fp.slice = n + 1
  <2>1. fp.slice \in Nat \ {0}
    BY <1>1, <1>3 DEF OnDisk
  <2>2. fp.slice - 1 \in Nat /\ fp.slice = (fp.slice - 1) + 1
    BY <2>1
  <2>3. QED
    BY <2>2
<1>5. Slices = n /\ Slices' = n + 1
  BY <1>2, <1>4 DEF Slices
<1>6. /\ files \in [1 .. n -> Seq(Row)] /\ fp.buf = <<>>
      /\ FlattenSeq(files) \o fp.buf = printed
  BY <1>1, <1>2, <1>3, <1>5 DEF OnDisk
<1>7. /\ files' \in [1 .. n + 1 -> Seq(Row)]
      /\ FlattenSeq(files') = FlattenSeq(files)
      /\ Len(files'[n + 1]) = 0
      /\ \A i \in 1 .. n : files'[i] = files[i]
  BY <1>2, <1>4, <1>6, SliceAdded
<1>8. OnDisk'
  <2>1. n + 1 \in Nat \ {0}
    OBVIOUS
  <2>2. FlattenSeq(files') \o fp.buf = printed
    BY <1>6, <1>7
  <2>3. QED
    BY <1>1, <1>2, <1>4, <1>5, <1>6, <1>7, <2>1, <2>2 DEF OnDisk
<1>9. Cut'
  <2>1. SUFFICES ASSUME split PROVE Cut'
    BY <1>1 DEF Cut
  <2>2. \A i \in 1 .. n : Len(files[i]) = SliceLines
    <3>1. \A i \in 1 .. n : i < n + 1
      OBVIOUS
    <3>2. QED
      BY <1>1, <1>3, <1>4, <1>5, <2>1, <3>1 DEF Cut
  <2>3. \A i \in 1 .. n + 1 : i < n + 1 => i \in 1 .. n
    OBVIOUS
  <2>4. \A i \in 1 .. n + 1 : i < n + 1 => Len(files'[i]) = SliceLines
    BY <1>7, <2>2, <2>3
  <2>5. QED
    BY <1>2, <1>4, <1>5, <1>7, <2>4 DEF Cut
<1>10. NotCut'
  BY <1>1, <1>2, <1>3 DEF NotCut, Rotating
<1>11. QED
  BY <1>8, <1>9, <1>10

\* The counter of the new slice.
LEMMA ResetListed ==
  ASSUME IInv, LInv, WriterStep, ResetLines
  PROVE  OnDisk' /\ Cut' /\ NotCut'
<1>1. /\ FirstRun' <=> FirstRun
      /\ UNCHANGED <<run, mpc, split>>
      /\ fp \in FpType /\ fp.slice \in Nat /\ fp.lines \in Nat /\ fp.buf \in Seq(Row)
      /\ FirstRun => OnDisk /\ Cut /\ NotCut /\ ~ended
  BY WriterFacts
<1>2. /\ wpc = "reset" /\ wpc' = "work" /\ printed' = printed /\ files' = files
      /\ fp'.slice = fp.slice /\ fp'.lines = 0 /\ fp'.buf = fp.buf
  BY <1>1 DEF ResetLines, FpType
<1>3. SUFFICES ASSUME FirstRun PROVE OnDisk' /\ Cut' /\ NotCut'
  BY <1>1 DEF OnDisk, Cut, NotCut
<1>4. Slices' = Slices
  BY <1>2 DEF Slices
<1>5. OnDisk'
  BY <1>1, <1>2, <1>3, <1>4 DEF OnDisk
<1>6. Cut'
  <2>1. SUFFICES ASSUME split PROVE Cut'
    BY <1>1 DEF Cut
  <2>2. /\ \A i \in 1 .. Slices : i < fp.slice => Len(files[i]) = SliceLines
        /\ Len(files[fp.slice]) = 0
    BY <1>1, <1>2, <1>3, <2>1 DEF Cut
  <2>3. Len(fp.buf) = 0
    BY <1>1, <1>2, <1>3, NoRows DEF OnDisk
  <2>4. QED
    BY <1>2, <1>4, <2>2, <2>3 DEF Cut
<1>7. NotCut'
  BY <1>1, <1>2, <1>3 DEF NotCut, Rotating
<1>8. QED
  BY <1>5, <1>6, <1>7

\* stdio moves a row from the buffer to the slice.
LEMMA WriteBackListed ==
  ASSUME IInv, LInv, Chance, OutputWriteBack
  PROVE  OnDisk' /\ Cut' /\ NotCut'
<1>1. /\ FirstRun' <=> FirstRun
      /\ UNCHANGED <<run, mpc, split>>
      /\ fp \in FpType /\ fp.slice \in Nat /\ fp.lines \in Nat /\ fp.buf \in Seq(Row)
      /\ FirstRun => OnDisk /\ Cut /\ NotCut /\ ~ended
  BY WriterFacts
<1>2. PICK h \in Row : h = Head(fp.buf)
  BY <1>1, FirstRow DEF OutputWriteBack
<1>3. PICK r \in Seq(Row) : r = Tail(fp.buf)
  BY <1>1, FirstRow DEF OutputWriteBack
<1>4. PICK b \in Seq(Row) : b = fp.buf /\ b = <<h>> \o r
  BY <1>1, <1>2, <1>3, FirstRow DEF OutputWriteBack
<1>5. <<h>> \in Seq(Row) /\ Len(b) = 1 + Len(r) /\ Len(<<h>>) = 1 /\ Len(r) \in Nat
  BY <1>4, ConcatProperties, LenProperties
<1>6. /\ fp.open /\ wpc' = wpc /\ printed' = printed
      /\ files' = WithRows(fp.slice, Append(files[fp.slice], h))
      /\ fp'.slice = fp.slice /\ fp'.lines = fp.lines /\ fp'.buf = r /\ b # <<>>
  BY <1>1, <1>2, <1>3, <1>4 DEF OutputWriteBack, FpType, threadVars
<1>7. SUFFICES ASSUME FirstRun PROVE OnDisk' /\ Cut' /\ NotCut'
  BY <1>1 DEF OnDisk, Cut, NotCut
<1>8. wpc \notin {"none", "number", "create", "reset", "done"}
  BY <1>1, <1>4, <1>6, <1>7 DEF IInv, SliceOpen, OnDisk
<1>9. Slices = fp.slice /\ Slices' = fp.slice
  BY <1>6, <1>8 DEF Slices
<1>10. PICK n \in Nat \ {0} : n = fp.slice
  BY <1>1, <1>7 DEF OnDisk
<1>11. files \in [1 .. n -> Seq(Row)] /\ FlattenSeq(files) \o b = printed
  BY <1>1, <1>4, <1>7, <1>9, <1>10 DEF OnDisk
<1>12. files' = WithRows(n, files[n] \o <<h>>)
  <2>1. Append(files[n], h) = files[n] \o <<h>>
    BY <1>11, AppendIsConcat
  <2>2. QED
    BY <1>6, <1>10, <2>1
<1>13. PICK t \in Seq(Row) : t = <<h>>
  BY <1>5
<1>14. /\ files' \in [1 .. n -> Seq(Row)]
       /\ FlattenSeq(files') = FlattenSeq(files) \o t
       /\ Len(files'[n]) = Len(files[n]) + Len(t)
       /\ \A i \in 1 .. n : i # n => files'[i] = files[i]
  BY <1>11, <1>12, <1>13, SliceGrows
<1>15. OnDisk'
  <2>1. PICK w \in Seq(Row) : w = FlattenSeq(files)
    BY <1>11, SlicesFlat
  <2>2. (w \o t) \o r = w \o (t \o r)
    <3>1. w \in Seq(Row) /\ t \in Seq(Row) /\ r \in Seq(Row)
      OBVIOUS
    <3>2. QED
      BY ONLY <3>1, ConcatAssociative
  <2>3. FlattenSeq(files') \o r = printed
    BY <1>4, <1>11, <1>13, <1>14, <2>1, <2>2
  <2>4. QED
    BY <1>6, <1>8, <1>9, <1>10, <1>14, <2>3 DEF OnDisk
<1>16. Cut'
  <2>1. SUFFICES ASSUME split PROVE Cut'
    BY <1>1 DEF Cut
  <2>2. /\ \A i \in 1 .. n : i < n => Len(files[i]) = SliceLines
        /\ fp.lines = Len(files[n]) + Len(b)
        /\ wpc \in {"close", "number"} => fp.lines = SliceLines
    BY <1>1, <1>4, <1>7, <1>8, <1>9, <1>10, <2>1 DEF Cut
  <2>3. \A i \in 1 .. n : i < n => Len(files'[i]) = SliceLines
    <3>1. \A i \in 1 .. n : i < n => i # n
      OBVIOUS
    <3>2. \A i \in 1 .. n : i < n => files'[i] = files[i]
      BY <1>14, <3>1
    <3>3. QED
      BY <2>2, <3>2
  <2>4. fp.lines = Len(files'[n]) + Len(r)
    <3>1. PICK x \in Nat : x = Len(files[n])
      BY <1>11, LenProperties
    <3>2. PICK y \in Nat : y = Len(r)
      BY <1>5
    <3>3. fp.lines = x + (1 + y) /\ Len(files'[n]) = x + 1
      BY <1>5, <1>13, <1>14, <2>2, <3>1, <3>2
    <3>4. QED
      BY <3>2, <3>3
  <2>5. QED
    BY <1>6, <1>8, <1>9, <1>10, <2>2, <2>3, <2>4 DEF Cut
<1>17. NotCut'
  BY <1>1, <1>6, <1>7 DEF NotCut
<1>18. QED
  BY <1>15, <1>16, <1>17

\* There is no step of a writer that is not there.
LEMMA WriterRuns ==
  ASSUME IInv, WriterStep \/ Chance
  PROVE  mpc # "off"
<1>1. wpc # "none" \/ fp.open
  BY DEF WriterStep, Chance, Writer, Sleep, WakeUp, TakeAll, PrintRow, WorkEnd,
         CloseSlice, NextSlice, CreateSlice, ResetLines, StopSeen, FlushAndEnd,
         OutputWriteBack
<1>2. QED
  BY <1>1 DEF IInv, Threads, SliceOpen

\* Every step of the writer keeps the listing.
LEMMA WriterLists ==
  ASSUME IInv, LInv, WriterStep \/ Chance
  PROVE  LInv'
<1>1. /\ UNCHANGED <<stop, split, submitted, mpc, run, todo, outBatch, rec, idx, snap,
                    kills, ended>>
      /\ mpc # "off"
  BY WriterFrame, WriterRuns
<1>2. hidden' = hidden
  BY DEF WriterStep, Chance
<1>3. Fresh' /\ Given' /\ Over'
  BY <1>1, <1>2 DEF LInv, Fresh, Given, Over, FirstRun
<1>4. OutputIsListing'
  BY <1>1 DEF LInv, Over, OutputIsListing
<1>5. OnDisk' /\ Cut' /\ NotCut'
  <2>1. CASE Sleep \/ TakeAll \/ WorkEnd \/ StopSeen \/ WakeUp
    <3>1. /\ UNCHANGED <<run, split, fp, files, printed>>
          /\ {wpc, wpc'} \subseteq {"top", "asleep", "work", "flush"}
      BY <1>1, <2>1 DEF Sleep, TakeAll, WorkEnd, StopSeen, WakeUp, outVars
    <3>2. QED
      BY <1>1, <3>1, FilesFrame DEF LInv
  <2>2. CASE WriterStep /\ PrintRow
    BY <2>2, PrintListed
  <2>3. CASE WriterStep /\ (CloseSlice \/ FlushAndEnd)
    BY <2>3, FlushListed
  <2>4. CASE WriterStep /\ NextSlice
    BY <2>4, NumberListed
  <2>5. CASE WriterStep /\ CreateSlice
    BY <2>5, CreateListed
  <2>6. CASE WriterStep /\ ResetLines
    BY <2>6, ResetListed
  <2>7. CASE Chance /\ OutputWriteBack
    BY <2>7, WriteBackListed
  <2>8. QED
    BY <2>1, <2>2, <2>3, <2>4, <2>5, <2>6, <2>7 DEF WriterStep, Writer, Chance
<1>6. QED
  BY <1>3, <1>4, <1>5 DEF LInv

-----------------------------------------------------------------------------
(* The main thread *)

\* What the scan finds is in one of three places, and moves from one to the next.
LEMMA MainGives ==
  ASSUME IInv, LInv, Main \/ RecordWriteBack
  PROVE  Given'
<1>1. SUFFICES ASSUME FirstRun' PROVE Given'
  BY DEF Given
<1>2. /\ run' = run /\ hidden' = hidden /\ ended' = ended
      /\ Main => mpc # "off"
      /\ RecordWriteBack => UNCHANGED <<mpc, todo, outBatch, submitted>>
  BY DEF Main, KnownEntry, Entry, SubmitBatch, Rotate, Finalize, ReadCounter,
         UpdateIndex, StopWriter, RecordWriteBack, writerVars
<1>3. FirstRun
  BY <1>1, <1>2 DEF FirstRun
<1>4. /\ (submitted \o outBatch) \o todo = Found[1]
      /\ hidden = {} /\ ~ended
      /\ mpc \in {"shutdown", "join"} => todo = <<>> /\ outBatch = <<>>
  BY <1>3 DEF LInv, Given
<1>5. submitted \in Seq(Row) /\ outBatch \in Seq(Row) /\ todo \in Seq(Row)
  BY DEF IInv, TypeOK
<1>6. CASE Entry
  <2>1. PICK h \in Row, r \in Seq(Row), b \in Seq(Row) :
          /\ h = Head(todo) /\ r = Tail(todo) /\ todo = <<h>> \o r /\ b = Append(outBatch, h)
    BY <1>5, <1>6, FirstRow, AppendProperties DEF Entry
  <2>2. /\ outBatch' = b /\ todo' = r /\ submitted' = submitted /\ mpc' = "batch"
    BY <1>6, <2>1 DEF Entry, writerVars
  <2>3. b = outBatch \o <<h>> /\ <<h>> \in Seq(Row)
    BY <1>5, <2>1, AppendIsConcat
  <2>4. PICK e \in Seq(Row) : e = <<h>>
    BY <2>3
  <2>5. PICK u \in Seq(Row) : u = submitted \o outBatch
    BY <1>5, ConcatProperties
  <2>6. submitted \o b = u \o e
    BY <1>5, <2>3, <2>4, <2>5, ConcatAssociative
  <2>7. (u \o e) \o r = u \o (e \o r)
    <3>1. u \in Seq(Row) /\ e \in Seq(Row) /\ r \in Seq(Row)
      OBVIOUS
    <3>2. QED
      BY ONLY <3>1, ConcatAssociative
  <2>8. QED
    BY <1>2, <1>4, <2>1, <2>2, <2>4, <2>5, <2>6, <2>7 DEF Given
<1>7. CASE SubmitBatch
  <2>1. /\ submitted' = submitted \o outBatch /\ outBatch' = <<>> /\ todo' = todo
        /\ mpc' = "batch"
    BY <1>7 DEF SubmitBatch, Submit
  <2>2. PICK e \in Seq(Row) : e = outBatch'
    BY <2>1, NoRows
  <2>3. PICK u \in Seq(Row) : u = submitted \o outBatch
    BY <1>5, ConcatProperties
  <2>4. u \o e = u
    BY <2>1, <2>2, <2>3, ConcatEmptySeq
  <2>5. QED
    BY <1>2, <1>4, <2>1, <2>2, <2>3, <2>4 DEF Given
<1>8. CASE KnownEntry
  BY <1>4, <1>8 DEF KnownEntry
<1>9. CASE UpdateIndex
  <2>1. /\ UNCHANGED <<todo, outBatch, submitted>>
        /\ mpc' \in {"shutdown", "join"} => todo = <<>> /\ outBatch = <<>>
    BY <1>9 DEF UpdateIndex, writerVars
  <2>2. QED
    BY <1>2, <1>4, <2>1 DEF Given
<1>10. CASE Rotate \/ Finalize \/ StopWriter \/ RecordWriteBack
            \/ \E field \in {"slice", "lines"} : ReadCounter(field)
  <2>1. /\ UNCHANGED <<todo, outBatch, submitted>>
        /\ mpc' \in {"shutdown", "join"} => mpc \in {"shutdown", "join"}
    BY <1>10 DEF Rotate, Finalize, StopWriter, Shutdown, RecordWriteBack, ReadCounter,
                 writerVars
  <2>2. QED
    BY <1>2, <1>4, <2>1 DEF Given
<1>11. QED
  BY <1>6, <1>7, <1>8, <1>9, <1>10 DEF Main

\* The main thread leaves the files to the writer.
LEMMA MainLists ==
  ASSUME IInv, LInv, Main \/ RecordWriteBack
  PROVE  LInv'
<1>1. /\ UNCHANGED <<run, hidden, ended, split, fp, files, printed>>
      /\ Main => mpc # "off"
      /\ RecordWriteBack => UNCHANGED <<mpc, outBatch, idx, wpc>>
  BY DEF Main, KnownEntry, Entry, SubmitBatch, Submit, Rotate, Finalize, ReadCounter,
         UpdateIndex, StopWriter, Shutdown, RecordWriteBack, writerVars, outVars
<1>2. wpc' = wpc \/ (wpc = "asleep" /\ wpc' = "top")
  BY DEF Main, KnownEntry, Entry, SubmitBatch, Submit, Rotate, Finalize, ReadCounter,
         UpdateIndex, StopWriter, Shutdown, RecordWriteBack, writerVars, Woken
<1>3. Fresh' /\ Over'
  BY <1>1 DEF LInv, Fresh, Over
<1>4. OutputIsListing'
  BY <1>1 DEF LInv, OutputIsListing
<1>5. OnDisk' /\ Cut' /\ NotCut'
  BY <1>1, <1>2, FilesFrame DEF LInv
<1>6. QED
  BY <1>3, <1>4, <1>5, MainGives DEF LInv

-----------------------------------------------------------------------------
(* Start and end *)

\* The first run starts with one empty slice.
LEMMA StartLists ==
  ASSUME IInv, LInv, Start
  PROVE  LInv'
<1>1. /\ run \in Nat /\ run' = run + 1 /\ ended' = FALSE /\ mpc' = "batch"
      /\ UNCHANGED <<outBatch, hidden>> /\ todo' = Found[run + 1] /\ wpc' = "top"
      /\ submitted' = <<>> /\ printed' = <<>>
  BY DEF IInv, TypeOK, Start, Open
<1>2. Fresh' /\ Over' /\ OutputIsListing'
  BY <1>1 DEF Fresh, Over, OutputIsListing
<1>3. CASE run # 0
  <2>1. ~FirstRun'
    BY <1>1, <1>3 DEF FirstRun
  <2>2. QED
    BY <1>2, <2>1 DEF LInv, Given, OnDisk, Cut, NotCut
<1>4. CASE run = 0
  <2>1. /\ outBatch = <<>> /\ hidden = {} /\ idx = NoIndex
        /\ files \in [1 .. 0 -> Seq(Row)]
    BY <1>4 DEF LInv, Fresh
  <2>2. files' = WithRows(0 + 1, <<>>)
    <3>1. Open(0, 0)
      BY <2>1 DEF Start
    <3>2. 1 \notin DOMAIN files
      BY <2>1
    <3>3. QED
      BY <3>1, <3>2 DEF Open
  <2>3. fp'.slice = 1 /\ fp'.lines = 0 /\ fp'.buf = <<>>
    BY <2>1 DEF Start, Open
  <2>4. /\ files' \in [1 .. 1 -> Seq(Row)]
        /\ FlattenSeq(files') = FlattenSeq(files)
        /\ Len(files'[1]) = 0
    <3>1. PICK n \in Nat : n = 0
      OBVIOUS
    <3>2. files \in [1 .. n -> Seq(Row)] /\ files' = WithRows(n + 1, <<>>)
      BY <2>1, <2>2, <3>1
    <3>3. /\ files' \in [1 .. n + 1 -> Seq(Row)]
          /\ FlattenSeq(files') = FlattenSeq(files)
          /\ Len(files'[n + 1]) = 0
      BY <3>2, SliceAdded
    <3>4. QED
      BY <3>1, <3>3
  <2>5. FlattenSeq(files) = <<>>
    <3>1. files = <<>> /\ Len(files) = 0
      BY <2>1
    <3>2. QED
      BY <3>1 DEF FlattenSeq
  <2>6. <<>> \o <<>> = <<>> /\ <<>> \in Seq(Row) /\ Len(<<>>) = 0
    BY NoRows, ConcatEmptySeq
  <2>7. Given'
    <3>1. Found[1] \in Seq(Row)
      BY <1>4, OutputAssumption, ElementOfSeq DEF Start
    <3>2. (<<>> \o <<>>) \o Found[1] = Found[1]
      BY <2>6, <3>1, ConcatEmptySeq
    <3>3. QED
      BY <1>1, <1>4, <2>1, <3>2 DEF Given
  <2>8. Slices' = 1
    BY <1>1, <2>3 DEF Slices
  <2>9. OnDisk'
    BY <1>1, <2>3, <2>4, <2>5, <2>6, <2>8 DEF OnDisk
  <2>10. Cut' /\ NotCut'
    <3>1. \A i \in 1 .. 1 : ~(i < 1)
      OBVIOUS
    <3>2. fp'.lines = Len(files'[fp'.slice]) + Len(fp'.buf)
      BY <2>3, <2>4, <2>6
    <3>3. QED
      BY <1>1, <2>3, <2>8, <3>1, <3>2 DEF Cut, NotCut, Rotating
  <2>11. QED
    BY <1>2, <2>7, <2>9, <2>10 DEF LInv
<1>5. QED
  BY <1>3, <1>4

\* A run that ends has printed everything, and the buffer is empty.
LEMMA EndLists ==
  ASSUME IInv, LInv, End, run = 1
  PROVE  OutputIsListing'
<1>1. /\ mpc = "join" /\ wpc = "done" /\ UNCHANGED <<files, split>>
  BY DEF End, Gone, WriterGone
<1>2. FirstRun
  BY <1>1 DEF FirstRun
<1>3. /\ (submitted \o outBatch) \o todo = Found[1] /\ todo = <<>> /\ outBatch = <<>>
  BY <1>1, <1>2 DEF LInv, Given
<1>4. submitted \in Seq(Row) /\ printed \in Seq(Row)
  BY DEF IInv, TypeOK
<1>5. submitted = Found[1]
  BY <1>3, <1>4, ConcatEmptySeq
<1>6. printed = submitted
  <2>1. queue = <<>> /\ local = <<>> /\ submitted = (printed \o local) \o queue
    BY <1>1 DEF IInv, Threads, InOrder, Rotating
  <2>2. QED
    BY <1>4, <2>1, ConcatEmptySeq
<1>7. PICK n \in Nat \ {0} : n = fp.slice
  BY <1>2 DEF LInv, OnDisk
<1>8. Slices = n
  BY <1>1, <1>7 DEF Slices
<1>9. /\ files \in [1 .. n -> Seq(Row)] /\ fp.buf = <<>>
      /\ FlattenSeq(files) \o fp.buf = printed
  BY <1>1, <1>2, <1>8 DEF LInv, OnDisk
<1>10. FlattenSeq(files) = Found[1]
  <2>1. PICK w \in Seq(Row) : w = FlattenSeq(files)
    BY <1>9, SlicesFlat
  <2>2. w \o <<>> = w
    BY <2>1, ConcatEmptySeq
  <2>3. QED
    BY <1>5, <1>6, <1>9, <2>1, <2>2
<1>11. split => \A i \in 1 .. Len(files) - 1 : Len(files[i]) = SliceLines
  <2>1. Len(files) = n
    BY <1>9
  <2>2. split => \A i \in 1 .. n : i < n => Len(files[i]) = SliceLines
    BY <1>2, <1>7, <1>8 DEF LInv, Cut
  <2>3. \A i \in 1 .. n - 1 : i \in 1 .. n /\ i < n
    OBVIOUS
  <2>4. QED
    BY <2>1, <2>2, <2>3
<1>12. QED
  BY <1>1, <1>10, <1>11 DEF OutputIsListing

\* The end of a run, or a kill, leaves the files as they are.
LEMMA GoneLists ==
  ASSUME IInv, LInv, End \/ Kill
  PROVE  LInv'
<1>1. mpc # "off" /\ mpc' = "off" /\ UNCHANGED <<run, files, split>>
  BY DEF End, Kill, Gone, WriterGone
<1>2. Kill => ended' = ended
  BY DEF Kill
<1>3. Fresh' /\ Given' /\ OnDisk' /\ Cut' /\ NotCut' /\ Over'
  BY <1>1 DEF LInv, Fresh, Given, OnDisk, Cut, NotCut, Over, FirstRun
<1>4. OutputIsListing'
  <2>1. CASE End /\ run = 1
    BY <2>1, EndLists
  <2>2. CASE End /\ run # 1
    BY <1>1, <2>2 DEF OutputIsListing
  <2>3. CASE Kill
    BY <1>1, <1>2, <2>3 DEF LInv, Over, OutputIsListing
  <2>4. QED
    BY <2>1, <2>2, <2>3
<1>5. QED
  BY <1>3, <1>4 DEF LInv

\* The files of a first run that ended are its listing, in order and cut into
\* full slices (print_to_stream, rotate_output_slice, async_worker_shutdown).
THEOREM FilesAreListing == Spec => []OutputIsListing
<1>1. Init => LInv
  <2>1. Init => Fresh
    BY DEF Init, WriterInit, Fresh
  <2>2. Init => run = 0
    BY DEF Init
  <2>3. QED
    BY <2>1, <2>2 DEF LInv, Given, OnDisk, Cut, NotCut, Over, OutputIsListing, FirstRun
<1>2. IInv /\ LInv /\ [Next]_vars => LInv'
  <2>1. SUFFICES ASSUME IInv, LInv, [Next]_vars PROVE LInv'
    OBVIOUS
  <2>2. CASE Start
    BY <2>1, <2>2, StartLists
  <2>3. CASE Main \/ RecordWriteBack
    BY <2>1, <2>3, MainLists
  <2>4. CASE WriterStep \/ Chance
    BY <2>1, <2>4, WriterLists
  <2>5. CASE End \/ Kill
    BY <2>1, <2>5, GoneLists
  <2>6. CASE UNCHANGED vars
    BY <2>1, <2>6 DEF vars, writerVars, LInv, Fresh, Given, OnDisk, Cut, NotCut, Over,
                      OutputIsListing, FirstRun, Slices
  <2>7. QED
    BY <2>1, <2>2, <2>3, <2>4, <2>5, <2>6 DEF Next
<1>3. LInv => OutputIsListing
  BY DEF LInv
<1>4. QED
  BY <1>1, <1>2, <1>3, OutputInv, PTL DEF Spec
=============================================================================
