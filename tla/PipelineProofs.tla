-------------------------- MODULE PipelineProofs --------------------------
(***************************************************************************)
(* Theorems about the thread pool, for any number of threads and any       *)
(* capacity: the types, that nobody sleeps over a batch or over the stop,  *)
(* and that the pool implements WorkPool.                                  *)
(*                                                                         *)
(* Theorems about the pipeline, for every input, every number of threads,  *)
(* every capacity and limit and every window: whatever the order in which  *)
(* the threads look the batches up, each entry is listed once; all rows    *)
(* show an owner under one name, which was that owner's; the rates of the  *)
(* panel are the growth of the counters; wherever a slice is cut, its      *)
(* readers find the first of the rows that were recorded; and every row is *)
(* what its format means, and is read back from the default CSV.           *)
(***************************************************************************)
EXTENDS Pipeline, SumProofs

-----------------------------------------------------------------------------
(* The pool. *)

\* The threads are created one after the other, and none is left out.
Births ==
  /\ \A t \in Threads : pc[t] = "unborn" <=> t > born
  /\ owner = "creating" => born < NumThreads
  /\ owner \in {"open", "closing"} => born = NumThreads

\* A thread has a batch in its hand exactly while it works.
Hands == \A t \in Threads : pc[t] = "working" <=> hand[t] # NoBatch

\* Only one thread at a time can be inside pthread_cond_wait and still have the
\* mutex, and while it has, nothing is submitted.
OneHolder ==
  \A t \in Threads : pc[t] = "testing" =>
    /\ queue = <<>>
    /\ \A u \in Threads \ {t} : pc[u] # "testing"

\* What stop says of the owner, and the end of a thread of the queue.
Stopping ==
  /\ stop <=> owner \in {"failing", "closing", "gone"}
  /\ owner \in {"creating", "failing"} => queue = <<>>
  /\ \A t \in Threads : pc[t] = "ended" => stop /\ queue = <<>>

\* The inductive invariant.
IInv ==
  TpTypeOK /\ Births /\ Hands /\ OneHolder /\ Stopping /\ PoolAwake /\ StopIsHeard

\* The invariant holds before a thread is created,
LEMMA InitIInv == NewPool => IInv
<1> SUFFICES ASSUME NewPool PROVE IInv
  OBVIOUS
<1>1. <<>> \in Seq(Batch)
  OBVIOUS
<1>2. pc \in [Threads -> Places] /\ hand \in [Threads -> Batch \cup {NoBatch}]
  BY DEF NewPool, Places
<1>3. born \in 0 .. NumThreads
  BY ThreadAssumption DEF NewPool
<1>4. TpTypeOK
  BY <1>1, <1>2, <1>3 DEF NewPool, TpTypeOK
<1>5. Births /\ Hands
  BY ThreadAssumption DEF NewPool, Births, Hands, Threads
<1>6. OneHolder /\ Stopping /\ PoolAwake /\ StopIsHeard
  BY DEF NewPool, OneHolder, Stopping, PoolAwake, StopIsHeard
<1> QED
  BY <1>4, <1>5, <1>6 DEF IInv

\* A signal or a broadcast only takes threads from asleep to looking.
LEMMA Woken ==
  ASSUME pc \in [Threads -> Places], Signal \/ Broadcast
  PROVE  /\ pc' \in [Threads -> Places]
         /\ \A t \in Threads : pc'[t] = pc[t] \/ (pc[t] = "asleep" /\ pc'[t] = "looking")
BY DEF Signal, Broadcast, Asleep, Goes, Places

\* a step of a thread keeps it,
LEMMA ThreadStepKeepsIInv ==
  ASSUME IInv, NEW t \in Threads, ThreadStep(t)
  PROVE  IInv'
<1> USE DEF IInv, TpTypeOK, Places
<1>1. CASE Take(t)
  <2>1. Head(queue) \in Batch /\ Tail(queue) \in Seq(Batch)
    BY <1>1 DEF Take
  <2>2. TpTypeOK'
    BY <1>1, <2>1 DEF Take, Goes
  <2>3. Births' /\ Hands'
    BY <1>1, <2>1, BatchAssumption DEF Take, Goes, Births, Hands
  <2>4. OneHolder' /\ Stopping' /\ StopIsHeard'
    BY <1>1 DEF Take, Goes, MutexFree, OneHolder, Stopping, StopIsHeard
  <2>5. PoolAwake'
    BY <1>1 DEF Take, Goes, PoolAwake
  <2> QED BY <2>2, <2>3, <2>4, <2>5
<1>2. CASE Test(t)
  BY <1>2 DEF Test, Goes, MutexFree, Births, Hands, OneHolder, Stopping, PoolAwake, StopIsHeard
<1>3. CASE FallAsleep(t)
  BY <1>3 DEF FallAsleep, Goes, Births, Hands, OneHolder, Stopping, PoolAwake, StopIsHeard
<1>4. CASE Wake(t)
  BY <1>4 DEF Wake, Goes, Births, Hands, OneHolder, Stopping, PoolAwake, StopIsHeard
<1>5. CASE Complete(t)
  <2>1. hand[t] \in Batch
    BY <1>5 DEF Complete, Hands
  <2>2. TpTypeOK'
    BY <1>5, <2>1 DEF Complete, Goes
  <2>3. Births' /\ Hands' /\ OneHolder' /\ Stopping' /\ StopIsHeard'
    BY <1>5 DEF Complete, Goes, Births, Hands, OneHolder, Stopping, StopIsHeard
  <2>4. PoolAwake'
    BY <1>5 DEF Complete, Goes, PoolAwake
  <2> QED BY <2>2, <2>3, <2>4
<1>6. CASE Notify(t)
  BY <1>6 DEF Notify, Goes, Births, Hands, OneHolder, Stopping, PoolAwake, StopIsHeard
<1> QED
  BY <1>1, <1>2, <1>3, <1>4, <1>5, <1>6 DEF ThreadStep

\* and so does a step of the main loop.
LEMMA OwnerStepKeepsIInv ==
  ASSUME IInv, OwnerStep
  PROVE  IInv'
<1> USE DEF IInv, TpTypeOK, Places
<1>1. CASE CreateThread
  <2>1. born + 1 \in Threads /\ born' = born + 1 /\ born' <= NumThreads
    BY <1>1, ThreadAssumption DEF CreateThread, Births, Threads
  <2>2. TpTypeOK'
    BY <1>1, <2>1, ThreadAssumption DEF CreateThread, Goes
  <2>3. Births'
    BY <1>1, <2>1, ThreadAssumption DEF CreateThread, Goes, Births, Threads
  <2>4. Hands' /\ OneHolder'
    BY <1>1, <2>1 DEF CreateThread, Goes, Births, Hands, OneHolder, Threads
  <2>5. Stopping' /\ PoolAwake' /\ StopIsHeard'
    BY <1>1, <2>1 DEF CreateThread, Goes, Stopping, PoolAwake, StopIsHeard
  <2> QED BY <2>2, <2>3, <2>4, <2>5
<1>2. CASE CreateFails
  BY <1>2, Woken
     DEF CreateFails, Births, Hands, OneHolder, Stopping, PoolAwake, StopIsHeard
<1>3. ASSUME NEW b \in Batch, Submit(b) PROVE IInv'
  <2>1. /\ pc' \in [Threads -> Places]
        /\ \A t \in Threads : pc'[t] = pc[t] \/ (pc[t] = "asleep" /\ pc'[t] = "looking")
    BY <1>3, Woken DEF Submit
  <2>2. TpTypeOK'
    BY <1>3, <2>1 DEF Submit
  <2>3. Births' /\ Hands'
    BY <1>3, <2>1 DEF Submit, Births, Hands
  <2>4. OneHolder' /\ Stopping' /\ StopIsHeard'
    BY <1>3, <2>1 DEF Submit, MutexFree, OneHolder, Stopping, StopIsHeard
  <2>5. PoolAwake'
    <3>1. CASE Asleep = {}
      <4>0. 1 \in Threads
        BY ThreadAssumption DEF Threads
      <4>1. 1 \in Threads /\ pc[1] # "asleep" /\ pc' = pc
        BY <1>3, <3>1, <4>0 DEF Submit, Signal, Asleep
      <4>2. pc[1] \in {"looking", "working", "notifying"}
        BY <1>3, <4>1, ThreadAssumption DEF Submit, MutexFree, Births, Stopping, Threads
      <4> QED BY <4>1, <4>2 DEF PoolAwake
    <3>2. CASE Asleep # {}
      <4>1. PICK t \in Asleep : Goes(t, "looking")
        BY <1>3, <3>2 DEF Submit, Signal
      <4> QED BY <4>1 DEF Goes, Asleep, PoolAwake
    <3> QED BY <3>1, <3>2
  <2> QED BY <2>2, <2>3, <2>4, <2>5
<1>4. CASE Refuse
  BY <1>4 DEF Refuse, tpVars, threadVars, Births, Hands, OneHolder, Stopping, PoolAwake, StopIsHeard
<1>5. CASE Poll
  BY <1>5 DEF Poll, threadVars, Births, Hands, OneHolder, Stopping, PoolAwake, StopIsHeard
<1>6. CASE ReadEvent
  BY <1>6 DEF ReadEvent, threadVars, Births, Hands, OneHolder, Stopping, PoolAwake, StopIsHeard
<1>7. CASE Destroy
  <2>1. /\ pc' \in [Threads -> Places]
        /\ \A t \in Threads : pc'[t] = pc[t] \/ (pc[t] = "asleep" /\ pc'[t] = "looking")
    BY <1>7, Woken DEF Destroy
  <2>2. TpTypeOK' /\ Births' /\ Hands' /\ PoolAwake'
    BY <1>7, <2>1 DEF Destroy, Births, Hands, PoolAwake
  <2>3. OneHolder' /\ Stopping'
    BY <1>7, <2>1 DEF Destroy, MutexFree, OneHolder, Stopping
  <2>4. StopIsHeard'
    BY <1>7 DEF Destroy, MutexFree, Broadcast, Asleep, StopIsHeard
  <2> QED BY <2>2, <2>3, <2>4
<1>8. CASE Joined
  BY <1>8 DEF Joined, threadVars, Births, Hands, OneHolder, Stopping, PoolAwake, StopIsHeard
<1> QED
  BY <1>1, <1>2, <1>3, <1>4, <1>5, <1>6, <1>7, <1>8 DEF OwnerStep

\* Every step keeps the invariant.
LEMMA NextIInv == IInv /\ [TpNext]_tpVars => IInv'
<1> SUFFICES ASSUME IInv, [TpNext]_tpVars PROVE IInv'
  OBVIOUS
<1>1. CASE UNCHANGED tpVars
  BY <1>1 DEF tpVars, threadVars, IInv, TpTypeOK, Births, Hands, OneHolder, Stopping,
              PoolAwake, StopIsHeard
<1> QED
  BY <1>1, ThreadStepKeepsIInv, OwnerStepKeepsIInv DEF TpNext

\* In every run of the pool the invariant holds: births, hands and the stop are in
\* step, and nobody sleeps over them.
THEOREM PoolInvariant == TpSpec => []IInv
BY InitIInv, NextIInv, PTL DEF TpSpec

-----------------------------------------------------------------------------
\* Every variable of the pool keeps its type.
THEOREM PoolTypeCorrect == TpSpec => []TpTypeOK
<1>1. IInv => TpTypeOK
  BY DEF IInv
<1> QED
  BY <1>1, PoolInvariant, PTL

\* No batch waits in the queue while every thread sleeps, whatever the order
\* in which threads are born, take, test, sleep and wake up for no reason
\* (worker_thread, thread_pool_submit).
THEOREM PoolNeverOversleeps == TpSpec => []PoolAwake
<1>1. IInv => PoolAwake
  BY DEF IInv
<1> QED
  BY <1>1, PoolInvariant, PTL

\* After thread_pool_destroy took the mutex nobody goes to sleep again.
THEOREM PoolHearsStop == TpSpec => []StopIsHeard
<1>1. IInv => StopIsHeard
  BY DEF IInv
<1> QED
  BY <1>1, PoolInvariant, PTL

-----------------------------------------------------------------------------
\* Every step of the pool is a step of the abstract pool, or none.
LEMMA StepIsAbstract ==
  ASSUME IInv, [TpNext]_tpVars
  PROVE  [Pool!PoolNext]_(Pool!poolVars)
<1> USE DEF Pool!poolVars
<1>1. ASSUME NEW t \in Threads, ThreadStep(t)
      PROVE  [Pool!PoolNext]_(Pool!poolVars)
  <2>1. CASE Take(t)
    <3>1. Pool!PoolTake(t)
      BY <2>1 DEF Take, Pool!PoolTake, IInv, Hands
    <3> QED BY <3>1 DEF Pool!PoolNext
  <2>2. CASE Complete(t)
    <3>1. Pool!PoolComplete(t)
      BY <2>2 DEF Complete, Pool!PoolComplete, IInv, Hands
    <3> QED BY <3>1 DEF Pool!PoolNext
  <2>3. CASE Test(t) \/ FallAsleep(t) \/ Wake(t) \/ Notify(t)
    BY <2>3 DEF Test, FallAsleep, Wake, Notify
  <2> QED
    BY <1>1, <2>1, <2>2, <2>3 DEF ThreadStep
<1>2. ASSUME NEW b \in Batch, Submit(b)
      PROVE  [Pool!PoolNext]_(Pool!poolVars)
  BY <1>2 DEF Submit, HasRoom, Pool!PoolNext, Pool!PoolSubmit
<1>3. CASE Poll
  BY <1>3 DEF Poll, threadVars, Pool!PoolNext, Pool!PoolPoll
<1>4. CASE Joined
  <2>1. queue = <<>>
    <3>1. 1 \in Threads
      BY ThreadAssumption DEF Threads
    <3> QED
      BY <1>4, <3>1, ThreadAssumption DEF Joined, IInv, Births, Stopping, Threads
  <2>2. \A t \in Threads : hand[t] = NoBatch
    BY <1>4 DEF Joined, IInv, Hands
  <2> QED
    BY <1>4, <2>1, <2>2 DEF Joined, threadVars, Pool!PoolNext, Pool!PoolFree
<1>5. CASE CreateThread \/ CreateFails \/ Refuse \/ ReadEvent \/ Destroy
  BY <1>5 DEF CreateThread, CreateFails, Refuse, ReadEvent, Destroy, tpVars, threadVars
<1>6. CASE UNCHANGED tpVars
  BY <1>6 DEF tpVars, threadVars
<1> QED
  BY <1>1, <1>2, <1>3, <1>4, <1>5, <1>6 DEF TpNext, OwnerStep

\* The pool implements the bounded FIFO of batches that several threads serve
\* (module WorkPool): nothing is lost, taken twice or invented, and the pool
\* is freed with nothing queued or in hand.
THEOREM PoolImplementsWorkPool == TpSpec => Pool!PoolSafeSpec
<1>1. NewPool => Pool!PoolInit
  BY DEF NewPool, Pool!PoolInit
<1> QED
  BY <1>1, PoolInvariant, StepIsAbstract, PTL DEF TpSpec, Pool!PoolSafeSpec

-----------------------------------------------------------------------------
(* The rows of Records. *)

Fields == {"count", "length", "path", "meta", "footer"}

\* The cells whose values are in V.
CellsOf(V) == [field : Fields, value : V, at : Nat]

\* A number of fixed width is that many cells of its field.
LEMMA FixedIs ==
  ASSUME NEW V, NEW P, P = Seq(CellsOf(V)),
         NEW field \in Fields, NEW value \in V, NEW width \in Nat,
         NEW a, a = Fixed(field, value, width)
  PROVE  /\ a \in P /\ Len(a) = width
         /\ \A k \in 1 .. width : a[k] = [field |-> field, value |-> value, at |-> k]
BY DEF Fixed, CellsOf, Fields

\* A path is one cell for each of its characters.
LEMMA PathCellsAre ==
  ASSUME NEW V, NEW P, P = Seq(CellsOf(V)), NEW path \in Seq(V), NEW a, a = PathCells(path)
  PROVE  /\ a \in P /\ Len(a) = Len(path)
         /\ \A k \in 1 .. Len(path) : a[k] = [field |-> "path", value |-> path[k], at |-> 1]
<1>1. PICK n \in Nat : n = Len(path) /\ DOMAIN path = 1 .. n /\ path \in [1 .. n -> V]
  BY LenProperties
<1>2. a = [k \in 1 .. n |-> [field |-> "path", value |-> path[k], at |-> 1]]
  BY <1>1 DEF PathCells
<1>3. PICK C : C = CellsOf(V)
  OBVIOUS
<1>4. \A k \in 1 .. n : [field |-> "path", value |-> path[k], at |-> 1] \in C
  BY <1>1, <1>3 DEF CellsOf, Fields
<1>5. a \in Seq(C) /\ Len(a) = n
  BY <1>2, <1>4
<1>6. \A k \in 1 .. n : a[k] = [field |-> "path", value |-> path[k], at |-> 1]
  BY <1>2
<1>7. QED
  BY <1>1, <1>3, <1>5, <1>6

\* The lengths of two runs of cells add up.
LEMMA JoinedLen ==
  ASSUME NEW V, NEW P, P = Seq(CellsOf(V))
  PROVE  \A a, b \in P : Len(a \o b) = Len(a) + Len(b)
BY ConcatProperties

\* The cells of one row.
LEMMA RowCellsAre ==
  ASSUME NEW V, NEW P, P = Seq(CellsOf(V)), NEW path \in Seq(V), NEW meta \in V,
         NEW n \in Nat, n \in V, n = Len(path), NEW row, row = RowCells(path, meta)
  PROVE  /\ row \in P
         /\ Len(row) = LengthWidth + n + MetaWidth
         /\ row[1].field = "length" /\ row[1].value = n
         /\ \A k \in 1 .. n : row[LengthWidth + k].value = path[k]
         /\ row[LengthWidth + n + 1].value = meta
<1>1. PICK lw \in Nat, mw \in Nat : lw = LengthWidth /\ mw = MetaWidth /\ lw # 0 /\ mw # 0
  BY WidthAssumption
<1>2. PICK a : a = Fixed("length", n, lw)
  OBVIOUS
<1>3. PICK b : b = PathCells(path)
  OBVIOUS
<1>4. PICK c : c = Fixed("meta", meta, mw)
  OBVIOUS
<1>5. a \in P /\ Len(a) = lw
  <2>1. "length" \in Fields
    BY DEF Fields
  <2>2. QED
    BY ONLY <1>2, <2>1, FixedIs, P = Seq(CellsOf(V)), n \in V
<1>6. b \in P /\ Len(b) = n
  BY <1>3, PathCellsAre
<1>7. c \in P /\ Len(c) = mw
  <2>1. "meta" \in Fields
    BY DEF Fields
  <2>2. QED
    BY <1>4, <2>1, FixedIs
<1>8. PICK d : d = a \o b
  OBVIOUS
<1>9. d \in P /\ Len(d) = lw + n
  <2>1. d \in P
    BY <1>5, <1>6, <1>8, JoinedType
  <2>2. Len(a \o b) = Len(a) + Len(b)
    BY <1>5, <1>6, JoinedLen
  <2>3. Len(d) = lw + n
    BY <1>5, <1>6, <1>8, <2>2
  <2>4. QED
    BY <2>1, <2>3
<1>10. PICK l \in Nat : l = lw + n
  OBVIOUS
<1>11. Len(d) = l
  BY <1>9, <1>10
<1>12. row = d \o c
  BY <1>1, <1>2, <1>3, <1>4, <1>8 DEF RowCells
<1>13. row \in P /\ Len(row) = l + mw
  <2>1. row \in P
    BY <1>7, <1>9, <1>11, <1>12, JoinedType
  <2>2. Len(d \o c) = Len(d) + Len(c)
    BY <1>7, <1>9, <1>11, JoinedLen
  <2>3. Len(row) = l + mw
    BY <1>7, <1>9, <1>11, <1>12, <2>2
  <2>4. QED
    BY <2>1, <2>3
<1>14. \A k \in 1 .. l : row[k] = d[k]
  BY <1>7, <1>9, <1>11, <1>12, JoinedFirst
<1>15. \A k \in 1 .. mw : row[l + k] = c[k]
  BY <1>7, <1>9, <1>11, <1>12, JoinedSecond
<1>16. \A k \in 1 .. lw : d[k] = a[k]
  BY <1>5, <1>6, <1>8, JoinedFirst
<1>17. \A k \in 1 .. n : d[lw + k] = b[k]
  BY <1>5, <1>6, <1>8, JoinedSecond
<1>18. \A k \in 1 .. n : row[lw + k].value = path[k]
  <2>1. \A k \in 1 .. n : lw + k \in 1 .. l
    BY <1>10
  <2>2. \A k \in 1 .. n : b[k].value = path[k]
    BY <1>3, LenProperties DEF PathCells
  <2>3. QED
    BY <1>14, <1>17, <2>1, <2>2
<1>19. row[1].field = "length" /\ row[1].value = n
  <2>1. 1 \in 1 .. l /\ 1 \in 1 .. lw
    BY <1>1, <1>10
  <2>2. a[1].field = "length" /\ a[1].value = n
    BY <1>2, <2>1 DEF Fixed
  <2>3. QED
    BY <1>14, <1>16, <2>1, <2>2
<1>20. row[l + 1].value = meta
  <2>1. 1 \in 1 .. mw
    BY <1>1
  <2>2. c[1].value = meta
    BY <1>4, <2>1 DEF Fixed
  <2>3. QED
    BY <1>15, <2>1, <2>2
<1>21. QED
  BY <1>1, <1>10, <1>13, <1>18, <1>19, <1>20

\* A row is found again where it was written, whatever is before and behind it.
RowFound(cells, pos, path, meta, end) ==
  /\ WholeRow(cells, pos) /\ LengthAt(cells, pos) = Len(path)
  /\ RowAt(cells, pos) = [path |-> path, meta |-> meta]
  /\ After(cells, pos) = end

\* A row that was written between any other cells is found where it was written,
\* with its path and its metadata (parse_batch_payload).
LEMMA RowIsThere ==
  ASSUME NEW V, NEW P, P = Seq(CellsOf(V)), NEW path \in Seq(V), NEW meta \in V, Len(path) \in V
  PROVE  \A u, w \in P : \A cells : cells = (u \o RowCells(path, meta)) \o w =>
           RowFound(cells, Len(u), path, meta, Len(u \o RowCells(path, meta)))
<1> SUFFICES ASSUME NEW u \in P, NEW w \in P, NEW cells,
                    cells = (u \o RowCells(path, meta)) \o w
             PROVE  RowFound(cells, Len(u), path, meta, Len(u \o RowCells(path, meta)))
  OBVIOUS
<1>1. PICK pos \in Nat : pos = Len(u)
  BY LenProperties
<1>2. PICK n \in Nat : n = Len(path) /\ n \in V
  BY LenProperties
<1>3. PICK row : row = RowCells(path, meta)
  OBVIOUS
<1>4. PICK lw \in Nat, mw \in Nat : lw = LengthWidth /\ mw = MetaWidth /\ lw # 0 /\ mw # 0
  BY WidthAssumption
<1>5. /\ row \in P /\ Len(row) = LengthWidth + n + MetaWidth
      /\ row[1].field = "length" /\ row[1].value = n
      /\ \A k \in 1 .. n : row[LengthWidth + k].value = path[k]
      /\ row[LengthWidth + n + 1].value = meta
  BY ONLY RowCellsAre, P = Seq(CellsOf(V)), path \in Seq(V), meta \in V, n \in Nat, <1>2, <1>3
<1>6. \A k \in 1 .. n : row[lw + k].value = path[k]
  BY <1>4, <1>5
<1>7. row[lw + n + 1].value = meta
  BY <1>4, <1>5
<1>8. PICK l \in Nat : l = lw + n + mw
  OBVIOUS
<1>9. row \in P /\ Len(row) = l
  BY <1>4, <1>5, <1>8
<1>10. PICK h : h = u \o row
  OBVIOUS
<1>11. h \in P /\ Len(h) = pos + l
  <2>1. h \in P
    BY <1>9, <1>10, JoinedType
  <2>2. Len(u \o row) = Len(u) + Len(row)
    BY ONLY <1>9, JoinedLen, P = Seq(CellsOf(V)), u \in P, SMTT(30)
  <2>3. Len(h) = pos + l
    BY <1>1, <1>9, <1>10, <2>2
  <2>4. QED
    BY <2>1, <2>3
<1>12. \A k \in 1 .. l : h[pos + k] = row[k]
  BY <1>1, <1>9, <1>10, JoinedSecond
<1>13. PICK r \in Nat : r = Len(w)
  BY LenProperties
<1>14. PICK m \in Nat : m = pos + l
  OBVIOUS
<1>15. Len(h) = m
  BY <1>11, <1>14
<1>16. cells = h \o w
  BY <1>10, <1>3
<1>17. Len(cells) = m + r
  <2>1. Len(h \o w) = Len(h) + Len(w)
    BY ONLY <1>11, JoinedLen, P = Seq(CellsOf(V)), w \in P, SMTT(30)
  <2>2. QED
    BY <1>16, <1>13, <1>15, <2>1
<1>18. \A k \in 1 .. m : cells[k] = h[k]
  BY <1>16, <1>11, <1>15, JoinedFirst
<1>19. \A k \in 1 .. l : cells[pos + k] = row[k]
  <2>1. \A k \in 1 .. l : pos + k \in 1 .. m
    BY <1>14
  <2>2. QED
    BY <1>12, <1>18, <2>1
<1>20. LengthAt(cells, pos) = n
  <2>1. 1 \in 1 .. l
    BY <1>4, <1>8
  <2>2. cells[pos + 1] = row[1]
    BY <1>19, <2>1
  <2>3. QED
    BY <1>5, <2>2 DEF LengthAt
<1>21. After(cells, pos) = pos + l
  BY <1>4, <1>8, <1>20 DEF After
<1>22. WholeRow(cells, pos)
  BY <1>4, <1>8, <1>13, <1>14, <1>17, <1>21 DEF WholeRow, Fits
<1>23. \A k \in 1 .. n : cells[(pos + lw) + k].value = path[k]
  <2>1. \A k \in 1 .. n : lw + k \in 1 .. l /\ pos + (lw + k) = (pos + lw) + k
    BY <1>8
  <2>2. QED
    BY <1>6, <1>19, <2>1
<1>24. cells[((pos + lw) + n) + 1].value = meta
  <2>1. lw + n + 1 \in 1 .. l /\ pos + (lw + n + 1) = ((pos + lw) + n) + 1
    BY <1>4, <1>8
  <2>2. QED
    BY <1>7, <1>19, <2>1
<1>25. path = [k \in 1 .. n |-> cells[(pos + lw) + k].value]
  <2>1. path = [k \in 1 .. n |-> path[k]]
    BY <1>2, LenProperties
  <2>2. QED
    BY <1>23, <2>1
<1>26. RowAt(cells, pos) = [path |-> path, meta |-> meta]
  BY <1>4, <1>20, <1>24, <1>25 DEF RowAt
<1>27. QED
  BY <1>1, <1>2, <1>3, <1>10, <1>11, <1>20, <1>21, <1>22, <1>26 DEF RowFound

-----------------------------------------------------------------------------
(* A payload. *)

\* Whatever a cell of a BATCH holds: a length, a character or an lstat.
Held == Nat \cup STRING \cup Entry

\* The payload up to each of its rows.
Pieces(s, P, pre) ==
  /\ pre \in [0 .. Len(s) -> P]
  /\ pre[0] = Fixed("count", Len(s), LengthWidth)
  /\ \A k \in 1 .. Len(s) : pre[k] = pre[k - 1] \o RowCells(s[k].path, s[k])
  /\ pre[Len(s)] = BatchPayload(s)

\* An entry, its path and the length of its path are values that cells can hold.
LEMMA EntryIs ==
  ASSUME NEW e \in Entry
  PROVE  /\ e.path \in Seq(Held) /\ e \in Held /\ Len(e.path) \in Nat /\ Len(e.path) \in Held
         /\ [e EXCEPT !.path = e.path] = e
<1>1. e.path \in Seq(STRING)
  BY DEF Entry
<1>2. PICK T : T = STRING
  OBVIOUS
<1>3. e.path \in Seq(T) /\ T \subseteq Held
  BY <1>1, <1>2 DEF Held
<1>4. e.path \in Seq(Held)
  BY <1>3, SeqMonotonic
<1>5. Len(e.path) \in Nat
  BY <1>3, LenProperties
<1>6. [e EXCEPT !.path = e.path] = e
  BY DEF Entry
<1>7. QED
  BY <1>4, <1>5, <1>6 DEF Held

\* The cells of an entry's row.
LEMMA RowIsCells ==
  ASSUME NEW s \in Seq(Entry), NEW P, P = Seq(CellsOf(Held)), NEW k \in 1 .. Len(s)
  PROVE  RowCells(s[k].path, s[k]) \in P
<1>1. PICK e \in Entry : e = s[k]
  BY ElementOfSeq
<1>2. /\ e.path \in Seq(Held) /\ e \in Held /\ Len(e.path) \in Nat /\ Len(e.path) \in Held
  BY EntryIs
<1>3. PICK path : path = e.path
  OBVIOUS
<1>4. PICK m \in Nat : m = Len(e.path)
  BY <1>2
<1>5. path = e.path /\ m = Len(path) /\ path \in Seq(Held) /\ e \in Held /\ m \in Held
  BY <1>2, <1>3, <1>4
<1>6. PICK row : row = RowCells(path, e)
  OBVIOUS
<1>7. row \in P
  BY <1>5, <1>6, RowCellsAre
<1>8. QED
  BY <1>1, <1>5, <1>6, <1>7

\* The payload of any entries is built row by row.
LEMMA PiecesExist ==
  ASSUME NEW s \in Seq(Entry), NEW P, P = Seq(CellsOf(Held))
  PROVE  \E pre : Pieces(s, P, pre)
<1>1. PICK n \in Nat : n = Len(s) /\ DOMAIN s = 1 .. n /\ s \in [1 .. n -> Entry]
  BY LenProperties
<1>2. PICK lw \in Nat : lw = LengthWidth
  BY WidthAssumption
<1>3. PICK head : head = Fixed("count", n, lw)
  OBVIOUS
<1>4. head \in P
  <2>1. "count" \in Fields /\ n \in Held
    BY DEF Fields, Held
  <2>2. QED
    BY <1>3, <2>1, FixedIs
<1>5. PICK rows : rows = [k \in 1 .. n |-> RowCells(s[k].path, s[k])]
  OBVIOUS
<1>6. \A k \in 1 .. n : RowCells(s[k].path, s[k]) \in P
  BY <1>1, RowIsCells
<1>7. rows \in Seq(P) /\ Len(rows) = n
  BY <1>5, <1>6
<1>8. BatchPayload(s) = head \o FlattenSeq(rows)
  BY <1>1, <1>2, <1>3, <1>5 DEF BatchPayload
<1>9. CASE n = 0
  <2>1. FlattenSeq(rows) = <<>>
    BY <1>7, <1>9 DEF FlattenSeq
  <2>2. head \o <<>> = head
    BY <1>4, ConcatEmptySeq
  <2>3. PICK pre : pre = [k \in 0 .. n |-> head]
    OBVIOUS
  <2>4. Pieces(s, P, pre)
    BY <1>1, <1>2, <1>3, <1>4, <1>8, <1>9, <2>1, <2>2, <2>3 DEF Pieces
  <2>5. QED
    BY <2>4
<1>10. CASE n # 0
  <2>1. PICK f : Flattens(f, rows, n) /\ FlattenSeq(rows) = f[n]
    BY <1>7, <1>10, FlattenIs
  <2>2. \A i \in 1 .. n : f[i] = IF i = 1 THEN rows[i] ELSE f[i - 1] \o rows[i]
    BY <2>1, FlattensAt
  <2> DEFINE T == {i \in Nat : i \in 1 .. n => f[i] \in P}
  <2>3. ASSUME NEW k \in Nat, \A j \in Nat : j < k => j \in T PROVE k \in T
    <3>1. SUFFICES ASSUME k \in 1 .. n PROVE f[k] \in P
      OBVIOUS
    <3>2. k # 1 => k - 1 \in Nat /\ k - 1 < k /\ k - 1 \in 1 .. n
      BY <3>1
    <3>3. k # 1 => f[k - 1] \in P
      BY <2>3, <3>2
    <3>4. rows[k] \in P
      BY <1>5, <1>6, <3>1
    <3>5. k # 1 => f[k - 1] \o rows[k] \in P
      BY <3>3, <3>4, JoinedType
    <3>6. QED
      BY <2>2, <3>1, <3>4, <3>5
  <2>4. \A i \in 1 .. n : f[i] \in P
    <3>1. \A i \in Nat : i \in T
      <4> HIDE DEF T
      <4>1. QED
        BY <2>3, NumbersUpTo
    <3>2. QED
      BY <3>1
  <2>5. PICK pre : pre = [k \in 0 .. n |-> IF k = 0 THEN head ELSE head \o f[k]]
    OBVIOUS
  <2>6. pre \in [0 .. n -> P]
    <3>1. \A k \in 1 .. n : head \o f[k] \in P
      BY <1>4, <2>4, JoinedType
    <3>2. \A k \in 0 .. n : k # 0 => k \in 1 .. n
      OBVIOUS
    <3>3. QED
      BY <1>4, <2>5, <3>1, <3>2
  <2>7. \A k \in 1 .. n : pre[k] = pre[k - 1] \o rows[k]
    <3>1. SUFFICES ASSUME NEW k \in 1 .. n PROVE pre[k] = pre[k - 1] \o rows[k]
      OBVIOUS
    <3>2. k \in 0 .. n /\ k - 1 \in 0 .. n /\ k # 0
      OBVIOUS
    <3>3. CASE k = 1
      <4>1. f[1] = rows[1]
        BY <2>2, <3>3
      <4>2. pre[1] = head \o f[1] /\ pre[0] = head
        BY <2>5, <3>2, <3>3
      <4>3. pre[1] = pre[0] \o rows[1]
        BY <4>1, <4>2
      <4>4. k - 1 = 0
        BY <3>3
      <4>5. QED
        BY ONLY <3>3, <4>3, <4>4
    <3>4. CASE k # 1
      <4>1. k - 1 \in 1 .. n /\ k - 1 # 0
        BY <3>4
      <4>2. PICK a \in P : a = f[k - 1]
        BY <2>4, <4>1
      <4>3. PICK b \in P : b = rows[k]
        BY <1>5, <1>6
      <4>4. f[k] = a \o b
        BY <2>2, <3>4, <4>2, <4>3
      <4>5. (head \o a) \o b = head \o (a \o b)
        BY <1>4, Regroup
      <4>6. pre[k] = head \o (a \o b) /\ pre[k - 1] = head \o a
        BY <2>5, <3>2, <4>1, <4>2, <4>4
      <4>7. QED
        BY <4>3, <4>5, <4>6
    <3>5. QED
      BY <3>3, <3>4
  <2>8. pre[0] = head /\ pre[n] = head \o f[n]
    BY <1>10, <2>5
  <2>9. Pieces(s, P, pre)
    BY <1>1, <1>2, <1>3, <1>5, <1>8, <2>1, <2>6, <2>7, <2>8 DEF Pieces
  <2>10. QED
    BY <2>9
<1>11. QED
  BY <1>9, <1>10

\* What is behind a piece of the payload.
LEMMA PiecesRest ==
  ASSUME NEW s \in Seq(Entry), NEW P, P = Seq(CellsOf(Held)), NEW pre, Pieces(s, P, pre),
         NEW n \in Nat, n = Len(s), NEW payload, payload = BatchPayload(s)
  PROVE  \A k \in 0 .. n : \E w \in P : payload = pre[k] \o w
<1> DEFINE T == {i \in Nat : i \in 0 .. n => \E w \in P : payload = pre[n - i] \o w}
<1>1. ASSUME NEW i \in Nat, \A j \in Nat : j < i => j \in T PROVE i \in T
  <2>1. SUFFICES ASSUME i \in 0 .. n PROVE \E w \in P : payload = pre[n - i] \o w
    OBVIOUS
  <2>2. CASE i = 0
    <3>1. pre[n] \in P /\ pre[n] = payload
      BY DEF Pieces
    <3>2. pre[n] \o <<>> = pre[n] /\ <<>> \in P
      BY <3>1, ConcatEmptySeq
    <3>3. n - i = n
      BY <2>2
    <3>4. QED
      BY <3>1, <3>2, <3>3
  <2>3. CASE i # 0
    <3>1. i - 1 \in Nat /\ i - 1 < i /\ i - 1 \in 0 .. n
      BY <2>1, <2>3
    <3>2. PICK w \in P : payload = pre[n - (i - 1)] \o w
      BY <1>1, <3>1
    <3>3. PICK k \in 1 .. n : k = n - (i - 1) /\ k - 1 = n - i
      <4>1. n - (i - 1) \in 1 .. n /\ (n - (i - 1)) - 1 = n - i
        BY <2>1, <2>3
      <4>2. QED
        BY <4>1, Zenon
    <3>4. PICK a \in P : a = pre[k - 1]
      BY DEF Pieces
    <3>5. PICK b : b = RowCells(s[k].path, s[k])
      OBVIOUS
    <3>6. pre[k] = a \o b
      BY <3>4, <3>5 DEF Pieces
    <3>7. b \in P
      BY <3>5, RowIsCells
    <3>8. (a \o b) \o w = a \o (b \o w)
      BY <3>7, Regroup, SMTT(30)
    <3>9. b \o w \in P
      BY <3>7, JoinedType
    <3>10. QED
      BY <3>2, <3>3, <3>4, <3>6, <3>8, <3>9
  <2>4. QED
    BY <2>2, <2>3
<1>2. \A i \in Nat : i \in T
  <2> HIDE DEF T
  <2>1. QED
    BY <1>1, NumbersUpTo
<1>3. SUFFICES ASSUME NEW k \in 0 .. n PROVE \E w \in P : payload = pre[k] \o w
  OBVIOUS
<1>4. n - k \in Nat /\ n - k \in 0 .. n /\ n - (n - k) = k
  OBVIOUS
<1>5. QED
  BY <1>2, <1>4

-----------------------------------------------------------------------------
(* A payload parses to the entries it was made of. *)

\* The equation of ParseBatch.
Parses(f, payload) ==
  f = [k \in 0 .. payload[1].value |->
        IF k = 0 THEN [ok |-> TRUE, pos |-> LengthWidth, seq |-> <<>>]
        ELSE IF f[k - 1].ok /\ WholeRow(payload, f[k - 1].pos)
             THEN [ok |-> TRUE, pos |-> After(payload, f[k - 1].pos),
                   seq |-> Append(f[k - 1].seq,
                                  [RowAt(payload, f[k - 1].pos).meta
                                     EXCEPT !.path = RowAt(payload, f[k - 1].pos).path])]
             ELSE [f[k - 1] EXCEPT !.ok = FALSE]]

\* What there is to read first, and after the first k rows.
LEMMA PieceIs ==
  ASSUME NEW s \in Seq(Entry), NEW P, P = Seq(CellsOf(Held)), NEW pre, Pieces(s, P, pre),
         NEW n \in Nat, n = Len(s), NEW payload, payload = BatchPayload(s), NEW k \in 1 .. n
  PROVE  /\ WholeRow(payload, Len(pre[k - 1]))
         /\ RowAt(payload, Len(pre[k - 1])) = [path |-> s[k].path, meta |-> s[k]]
         /\ After(payload, Len(pre[k - 1])) = Len(pre[k])
         /\ Len(pre[k - 1]) \in Nat
<1>1. PICK w \in P : payload = pre[k] \o w
  BY PiecesRest, SMTT(30)
<1>2. PICK u \in P : u = pre[k - 1]
  BY DEF Pieces
<1>3. PICK e \in Entry : e = s[k]
  BY ElementOfSeq
<1>4. PICK path \in Seq(Held) : path = e.path
  BY EntryIs
<1>5. PICK m \in Nat : m = Len(path) /\ m \in Held /\ e \in Held
  BY <1>4, EntryIs
<1>6. PICK row : row = RowCells(path, e)
  OBVIOUS
<1>7. pre[k] = u \o row
  BY <1>2, <1>3, <1>4, <1>6 DEF Pieces
<1>8. payload = (u \o row) \o w
  BY <1>1, <1>7
<1>9. PICK pos \in Nat : pos = Len(u)
  BY LenProperties
<1>10. /\ WholeRow(payload, pos) /\ RowAt(payload, pos) = [path |-> path, meta |-> e]
       /\ After(payload, pos) = Len(pre[k])
  <2>1. m \in Held /\ e \in Held /\ pos = Len(u) /\ m = Len(path)
    BY <1>5, <1>9
  <2>2. Len(path) \in Held /\ payload = (u \o RowCells(path, e)) \o w
    BY <1>6, <1>8, <2>1
  <2>3. RowFound(payload, Len(u), path, e, Len(u \o RowCells(path, e)))
    BY <2>1, <2>2, RowIsThere
  <2>4. QED
    BY <1>6, <1>7, <2>1, <2>3 DEF RowFound
<1>11. QED
  BY <1>2, <1>3, <1>4, <1>9, <1>10

\* A payload starts with the number of its entries.
LEMMA CountIs ==
  ASSUME NEW s \in Seq(Entry), NEW P, P = Seq(CellsOf(Held)), NEW pre, Pieces(s, P, pre),
         NEW n \in Nat, n = Len(s), NEW payload, payload = BatchPayload(s)
  PROVE  /\ payload[1].value = n /\ Len(pre[0]) = LengthWidth /\ Fits(payload, LengthWidth)
<1>1. \E w \in P : payload = pre[0] \o w
  <2>1. PICK k \in 0 .. n : k = 0
    OBVIOUS
  <2>2. \E w \in P : payload = pre[k] \o w
    BY PiecesRest, SMTT(30)
  <2>3. QED
    BY <2>1, <2>2
<1>2. PICK lw \in Nat : lw = LengthWidth /\ lw # 0
  BY WidthAssumption
<1>3. PICK head \in P : head = pre[0]
  BY DEF Pieces
<1>4. head = Fixed("count", n, lw)
  BY <1>2, <1>3 DEF Pieces
<1>5. "count" \in Fields /\ n \in Held
  BY DEF Fields, Held
<1>6. Len(head) = lw /\ \A k \in 1 .. lw : head[k] = [field |-> "count", value |-> n, at |-> k]
  <2>1. head = [k \in 1 .. lw |-> [field |-> "count", value |-> n, at |-> k]]
    BY <1>4 DEF Fixed
  <2>2. \A k \in 1 .. lw : head[k] = [field |-> "count", value |-> n, at |-> k]
    BY <2>1
  <2>3. Len(head) = lw
    BY <1>4, <1>5, FixedIs
  <2>4. QED
    BY <2>2, <2>3
<1>7. PICK w \in P : payload = head \o w
  BY <1>1, <1>3
<1>8. \A k \in 1 .. lw : payload[k] = head[k]
  BY <1>6, <1>7, JoinedFirst
<1>9. 1 \in 1 .. lw
  BY <1>2
<1>10. payload[1].value = n
  BY <1>6, <1>8, <1>9
<1>11. Len(head \o w) = Len(head) + Len(w) /\ Len(w) \in Nat
  BY JoinedLen, LenProperties
<1>12. Fits(payload, lw)
  BY <1>6, <1>7, <1>11 DEF Fits
<1>13. QED
  BY <1>2, <1>3, <1>6, <1>10, <1>12

\* One entry more.
LEMMA BeginningGrows ==
  ASSUME NEW S, NEW s \in Seq(S), NEW k \in 1 .. Len(s)
  PROVE  Append(SubSeq(s, 1, k - 1), s[k]) = SubSeq(s, 1, k)
<1>1. PICK n \in Nat : n = Len(s) /\ DOMAIN s = 1 .. n /\ s \in [1 .. n -> S]
  BY LenProperties
<1>2. SubSeq(s, 1, k) = [i \in 1 .. k |-> s[i]]
  BY <1>1
<1>3. PICK m \in Nat : m = k - 1
  OBVIOUS
<1>4. PICK t : t = [i \in 1 .. m |-> s[i]]
  OBVIOUS
<1>5. SubSeq(s, 1, k - 1) = t
  BY <1>1, <1>3, <1>4
<1>6. t \in Seq(S) /\ Len(t) = m
  BY <1>1, <1>3, <1>4
<1>7. s[k] \in S
  BY <1>1
<1>8. Append(t, s[k]) = [i \in 1 .. k |-> IF i <= m THEN t[i] ELSE s[k]]
  BY <1>3, <1>6, <1>7
<1>9. \A i \in 1 .. k : (IF i <= m THEN t[i] ELSE s[k]) = s[i]
  BY <1>3, <1>4
<1>10. QED
  BY <1>2, <1>5, <1>8, <1>9

\* What is parsed of a batch is what was sent.
LEMMA ParsedIsGiven ==
  ASSUME NEW s \in Seq(Entry)
  PROVE  ParseBatch(BatchPayload(s)).ok /\ ParseBatch(BatchPayload(s)).seq = s
<1>1. PICK payload : payload = BatchPayload(s)
  OBVIOUS
<1>2. PICK P : P = Seq(CellsOf(Held))
  OBVIOUS
<1>3. PICK pre : Pieces(s, P, pre)
  BY <1>2, PiecesExist
<1>4. PICK n \in Nat : n = Len(s)
  BY LenProperties
<1>5. payload[1].value = n /\ Len(pre[0]) = LengthWidth /\ Fits(payload, LengthWidth)
  BY ONLY <1>1, <1>2, <1>3, <1>4, CountIs, s \in Seq(Entry), n \in Nat
<1>6. PICK g : g = [k \in 0 .. n |-> [ok |-> TRUE, pos |-> Len(pre[k]), seq |-> SubSeq(s, 1, k)]]
  OBVIOUS
<1>7. g[0] = [ok |-> TRUE, pos |-> LengthWidth, seq |-> <<>>]
  <2>1. SubSeq(s, 1, 0) = <<>>
    BY SubSeqEmpty
  <2>2. g[0] = [ok |-> TRUE, pos |-> Len(pre[0]), seq |-> SubSeq(s, 1, 0)]
    BY <1>6
  <2>3. QED
    BY <1>5, <2>1, <2>2
<1>8. \A k \in 1 .. n :
        /\ g[k - 1].ok /\ WholeRow(payload, g[k - 1].pos)
        /\ g[k] = [ok |-> TRUE, pos |-> After(payload, g[k - 1].pos),
                   seq |-> Append(g[k - 1].seq,
                                  [RowAt(payload, g[k - 1].pos).meta
                                     EXCEPT !.path = RowAt(payload, g[k - 1].pos).path])]
  <2>1. SUFFICES ASSUME NEW k \in 1 .. n
        PROVE  /\ g[k - 1].ok /\ WholeRow(payload, g[k - 1].pos)
               /\ g[k] = [ok |-> TRUE, pos |-> After(payload, g[k - 1].pos),
                          seq |-> Append(g[k - 1].seq,
                                         [RowAt(payload, g[k - 1].pos).meta
                                            EXCEPT !.path = RowAt(payload, g[k - 1].pos).path])]
    OBVIOUS
  <2>2. PICK at : at = Len(pre[k - 1])
    OBVIOUS
  <2>3. k \in 0 .. n /\ k - 1 \in 0 .. n
    OBVIOUS
  <2>4. g[k - 1] = [ok |-> TRUE, pos |-> at, seq |-> SubSeq(s, 1, k - 1)]
    BY <1>6, <2>2, <2>3
  <2>5. g[k] = [ok |-> TRUE, pos |-> Len(pre[k]), seq |-> SubSeq(s, 1, k)]
    BY <1>6, <2>3
  <2>6. /\ WholeRow(payload, at) /\ RowAt(payload, at) = [path |-> s[k].path, meta |-> s[k]]
        /\ After(payload, at) = Len(pre[k])
    <3>1. Pieces(s, P, pre) /\ n = Len(s) /\ payload = BatchPayload(s) /\ P = Seq(CellsOf(Held))
      BY <1>1, <1>2, <1>3, <1>4
    <3>2. /\ WholeRow(payload, Len(pre[k - 1]))
          /\ RowAt(payload, Len(pre[k - 1])) = [path |-> s[k].path, meta |-> s[k]]
          /\ After(payload, Len(pre[k - 1])) = Len(pre[k])
      BY ONLY <3>1, PieceIs, s \in Seq(Entry), n \in Nat, k \in 1 .. n
    <3>3. QED
      BY <2>2, <3>2
  <2>7. s[k] \in Entry
    BY <1>4, ElementOfSeq
  <2>8. [s[k] EXCEPT !.path = s[k].path] = s[k]
    BY <2>7, EntryIs
  <2>9. Append(SubSeq(s, 1, k - 1), s[k]) = SubSeq(s, 1, k)
    BY <1>4, BeginningGrows
  <2>10. [RowAt(payload, at).meta EXCEPT !.path = RowAt(payload, at).path] = s[k]
    BY <2>6, <2>8
  <2>11. g[k - 1].ok /\ g[k - 1].pos = at /\ g[k - 1].seq = SubSeq(s, 1, k - 1)
    BY <2>4
  <2>12. Append(g[k - 1].seq,
                [RowAt(payload, g[k - 1].pos).meta EXCEPT !.path = RowAt(payload, g[k - 1].pos).path])
           = SubSeq(s, 1, k)
    BY <2>9, <2>10, <2>11
  <2>13. QED
    BY <2>5, <2>6, <2>11, <2>12
<1>9. Parses(g, payload)
  <2>1. \A k \in 0 .. n : k # 0 => k \in 1 .. n
    OBVIOUS
  <2> DEFINE one(k) == [ok |-> TRUE, pos |-> After(payload, g[k - 1].pos),
                        seq |-> Append(g[k - 1].seq,
                                       [RowAt(payload, g[k - 1].pos).meta
                                          EXCEPT !.path = RowAt(payload, g[k - 1].pos).path])]
             none == [ok |-> TRUE, pos |-> LengthWidth, seq |-> <<>>]
             bad(k) == [g[k - 1] EXCEPT !.ok = FALSE]
             good(k) == g[k - 1].ok /\ WholeRow(payload, g[k - 1].pos)
  <2>2. g[0] = none /\ \A k \in 1 .. n : good(k) /\ g[k] = one(k)
    BY <1>7, <1>8
  <2>3. g = [k \in 0 .. n |-> IF k = 0 THEN none ELSE IF good(k) THEN one(k) ELSE bad(k)]
    <3> HIDE DEF none, good, one, bad
    <3>1. QED
      BY <1>6, <2>1, <2>2
  <2>4. QED
    BY <1>5, <2>3 DEF Parses
<1>10. PICK f : f = CHOOSE h : Parses(h, payload)
  OBVIOUS
<1>11. Parses(f, payload)
  BY <1>9, <1>10
<1>12. \A k \in 0 .. n : f[k] = g[k]
  <2> DEFINE T == {k \in Nat : k \in 0 .. n => f[k] = g[k]}
  <2>1. ASSUME NEW k \in Nat, \A j \in Nat : j < k => j \in T PROVE k \in T
    <3>1. SUFFICES ASSUME k \in 0 .. n PROVE f[k] = g[k]
      OBVIOUS
    <3>2. f[k] = IF k = 0 THEN [ok |-> TRUE, pos |-> LengthWidth, seq |-> <<>>]
                 ELSE IF f[k - 1].ok /\ WholeRow(payload, f[k - 1].pos)
                 THEN [ok |-> TRUE, pos |-> After(payload, f[k - 1].pos),
                       seq |-> Append(f[k - 1].seq,
                                  [RowAt(payload, f[k - 1].pos).meta
                                     EXCEPT !.path = RowAt(payload, f[k - 1].pos).path])]
                 ELSE [f[k - 1] EXCEPT !.ok = FALSE]
      BY <1>5, <1>11, <3>1 DEF Parses
    <3>3. CASE k = 0
      BY <1>7, <3>2, <3>3
    <3>4. CASE k # 0
      <4>1. k - 1 \in Nat /\ k - 1 < k /\ k - 1 \in 0 .. n /\ k \in 1 .. n
        BY <3>1, <3>4
      <4>2. f[k - 1] = g[k - 1]
        BY <2>1, <4>1
      <4>3. QED
        BY <1>8, <3>2, <3>4, <4>1, <4>2
    <3>5. QED
      BY <3>3, <3>4
  <2>2. \A k \in Nat : k \in T
    <3> HIDE DEF T
    <3>1. QED
      BY <2>1, NumbersUpTo
  <2>3. QED
    BY <2>2
<1>13. ParseBatch(payload) = f[n]
  BY <1>5, <1>10 DEF ParseBatch, Parses
<1>14. f[n].ok /\ f[n].seq = s
  <2>1. g[n].ok /\ g[n].seq = SubSeq(s, 1, n)
    BY <1>6
  <2>2. SubSeq(s, 1, n) = s
    BY <1>4, SubSeqFull
  <2>3. f[n] = g[n]
    BY <1>12
  <2>4. QED
    BY <2>1, <2>2, <2>3
<1>15. QED
  BY <1>1, <1>13, <1>14

-----------------------------------------------------------------------------
(* The entries of a batch that are chosen, in their order. *)

\* The equation of At, for the first n of the entries.
Chooses(f, entries, S, n) ==
  f = [k \in 0 .. n |->
        IF k = 0 THEN <<>>
        ELSE IF k \in S THEN Append(f[k - 1], entries[k]) ELSE f[k - 1]]

\* What the loop has chosen after k entries.
LEMMA ChoosesAt ==
  ASSUME NEW entries, NEW S, NEW n, NEW f, Chooses(f, entries, S, n), NEW k \in 0 .. n
  PROVE  f[k] = IF k = 0 THEN <<>>
                ELSE IF k \in S THEN Append(f[k - 1], entries[k]) ELSE f[k - 1]
BY DEF Chooses

\* It has a solution.
LEMMA ChoosesExists ==
  ASSUME NEW entries, NEW S
  PROVE  \A n \in Nat : \E f : Chooses(f, entries, S, n)
<1> DEFINE T == {n \in Nat : \E f : Chooses(f, entries, S, n)}
<1>1. 0 \in T
  <2>1. Chooses([k \in 0 .. 0 |-> <<>>], entries, S, 0)
    BY DEF Chooses
  <2>2. QED
    BY <2>1
<1>2. ASSUME NEW n \in T PROVE n + 1 \in T
  <2>1. PICK f : Chooses(f, entries, S, n)
    OBVIOUS
  <2> DEFINE next(h, k) == IF k = 0 THEN <<>>
                           ELSE IF k \in S THEN Append(h[k - 1], entries[k]) ELSE h[k - 1]
  <2>2. PICK g : g = [k \in 0 .. n + 1 |-> next(f, k)]
    OBVIOUS
  <2>3. \A k \in 0 .. n : g[k] = f[k]
    <3>1. SUFFICES ASSUME NEW k \in 0 .. n PROVE g[k] = f[k]
      OBVIOUS
    <3>2. k \in 0 .. n + 1
      OBVIOUS
    <3>3. f[k] = next(f, k)
      BY <2>1, ChoosesAt
    <3>4. g[k] = next(f, k)
      <4> HIDE DEF next
      <4>1. QED
        BY <2>2, <3>2
    <3>5. QED
      BY <3>3, <3>4
  <2>4. \A k \in 0 .. n + 1 : k # 0 => k - 1 \in 0 .. n
    OBVIOUS
  <2>5. \A k \in 0 .. n + 1 : next(f, k) = next(g, k)
    BY <2>3, <2>4
  <2>6. g = [k \in 0 .. n + 1 |-> next(g, k)]
    <3> HIDE DEF next
    <3>1. QED
      BY <2>2, <2>5
  <2>7. Chooses(g, entries, S, n + 1)
    BY <2>6 DEF Chooses
  <2>8. QED
    BY <2>7
<1>3. \A n \in Nat : n \in T
  <2> HIDE DEF T
  <2>1. ASSUME NEW m \in Nat, \A k \in Nat : k < m => k \in T PROVE m \in T
    <3>1. m # 0 => m - 1 \in Nat /\ m - 1 < m /\ (m - 1) + 1 = m
      OBVIOUS
    <3>2. QED
      BY <1>1, <1>2, <2>1, <3>1
  <2>2. QED
    BY <2>1, NumbersUpTo
<1>4. QED
  BY <1>3

\* d has the entries at the places p, which are those in S, each once.
Picks(d, p, entries, S) ==
  /\ p \in Seq(Nat) /\ Len(d) = Len(p)
  /\ \A j \in DOMAIN p : p[j] \in S /\ d[j] = entries[p[j]]
  /\ \A i, j \in DOMAIN p : p[i] = p[j] => i = j
  /\ \A k \in S : \E j \in DOMAIN p : p[j] = k

\* One place more.
LEMMA PicksOneMore ==
  ASSUME NEW V, NEW entries, NEW S, NEW d \in Seq(V), NEW p, Picks(d, p, entries, S),
         NEW k \in Nat, k \notin S, entries[k] \in V
  PROVE  Picks(Append(d, entries[k]), Append(p, k), entries, S \cup {k})
<1>1. PICK m \in Nat : m = Len(p) /\ Len(d) = m /\ DOMAIN p = 1 .. m
  BY LenProperties DEF Picks
<1>2. PICK q : q = Append(p, k)
  OBVIOUS
<1>3. PICK c : c = Append(d, entries[k])
  OBVIOUS
<1>4. p \in Seq(Nat)
  BY DEF Picks
<1>5. /\ q \in Seq(Nat) /\ Len(q) = m + 1 /\ DOMAIN q = 1 .. m + 1
      /\ q[m + 1] = k /\ \A j \in 1 .. m : q[j] = p[j]
  BY <1>1, <1>2, <1>4
<1>6. Len(c) = m + 1 /\ c[m + 1] = entries[k] /\ \A j \in 1 .. m : c[j] = d[j]
  BY <1>1, <1>3
<1>7. \A j \in 1 .. m + 1 : j = m + 1 \/ j \in 1 .. m
  OBVIOUS
<1>8. \A j \in 1 .. m : p[j] \in S /\ d[j] = entries[p[j]]
  BY <1>1 DEF Picks
<1>9. \A j \in 1 .. m + 1 : q[j] \in S \cup {k} /\ c[j] = entries[q[j]]
  BY <1>5, <1>6, <1>7, <1>8
<1>10. \A i, j \in 1 .. m : p[i] = p[j] => i = j
  BY <1>1 DEF Picks
<1>11. \A i, j \in 1 .. m + 1 : q[i] = q[j] => i = j
  BY <1>5, <1>7, <1>8, <1>10
<1>12. \A l \in S : \E j \in 1 .. m : p[j] = l
  BY <1>1 DEF Picks
<1>13. \A l \in S \cup {k} : \E j \in 1 .. m + 1 : q[j] = l
  <2>1. \A j \in 1 .. m : j \in 1 .. m + 1
    OBVIOUS
  <2>2. m + 1 \in 1 .. m + 1
    OBVIOUS
  <2>3. QED
    BY <1>5, <1>12, <2>1, <2>2
<1>14. QED
  BY <1>2, <1>3, <1>5, <1>6, <1>9, <1>11, <1>13 DEF Picks

\* The loop chooses the entries at the places in S, each once and in order.
LEMMA ChoosesPicks ==
  ASSUME NEW V, NEW entries \in Seq(V), NEW n \in Nat, n = Len(entries),
         NEW S, S \subseteq 1 .. n, NEW f, Chooses(f, entries, S, n)
  PROVE  f[n] \in Seq(V) /\ \E p : Picks(f[n], p, entries, S)
<1> DEFINE T == {k \in Nat : k \in 0 .. n =>
                   f[k] \in Seq(V) /\ \E p : Picks(f[k], p, entries, S \cap (1 .. k))}
<1>1. ASSUME NEW k \in Nat, \A j \in Nat : j < k => j \in T PROVE k \in T
  <2>1. SUFFICES ASSUME k \in 0 .. n
                 PROVE  f[k] \in Seq(V) /\ \E p : Picks(f[k], p, entries, S \cap (1 .. k))
    OBVIOUS
  <2>2. f[k] = IF k = 0 THEN <<>>
               ELSE IF k \in S THEN Append(f[k - 1], entries[k]) ELSE f[k - 1]
    BY <2>1, ChoosesAt
  <2>3. CASE k = 0
    <3>1. f[k] = <<>> /\ S \cap (1 .. k) = {}
      BY <2>2, <2>3
    <3>2. Picks(<<>>, <<>>, entries, {})
      BY DEF Picks
    <3>3. <<>> \in Seq(V)
      OBVIOUS
    <3>4. QED
      BY <3>1, <3>2, <3>3
  <2>4. CASE k # 0
    <3>1. k - 1 \in Nat /\ k - 1 < k /\ k - 1 \in 0 .. n /\ k \in 1 .. n
      BY <2>1, <2>4
    <3>2. PICK d \in Seq(V) : d = f[k - 1]
      BY <1>1, <3>1
    <3>3. PICK p : Picks(d, p, entries, S \cap (1 .. k - 1))
      BY <1>1, <3>1, <3>2
    <3>4. entries[k] \in V
      BY <3>1, ElementOfSeq
    <3>5. CASE k \in S
      <4>1. S \cap (1 .. k) = (S \cap (1 .. k - 1)) \cup {k} /\ k \notin S \cap (1 .. k - 1)
        BY <3>1, <3>5
      <4>2. f[k] = Append(d, entries[k])
        BY <2>2, <2>4, <3>2, <3>5
      <4>3. Picks(f[k], Append(p, k), entries, S \cap (1 .. k))
        <5>1. PICK R : R = S \cap (1 .. k - 1)
          OBVIOUS
        <5>2. Picks(d, p, entries, R) /\ k \notin R
          BY <3>3, <4>1, <5>1
        <5>3. Picks(Append(d, entries[k]), Append(p, k), entries, R \cup {k})
          BY <3>4, <5>2, PicksOneMore
        <5>4. QED
          BY <4>1, <4>2, <5>1, <5>3
      <4>4. f[k] \in Seq(V)
        BY <3>4, <4>2
      <4>5. QED
        BY <4>3, <4>4
    <3>6. CASE k \notin S
      <4>1. S \cap (1 .. k) = S \cap (1 .. k - 1)
        BY <3>1, <3>6
      <4>2. f[k] = d
        BY <2>2, <2>4, <3>2, <3>6
      <4>3. QED
        BY <3>3, <4>1, <4>2
    <3>7. QED
      BY <3>5, <3>6
  <2>5. QED
    BY <2>3, <2>4
<1>2. \A k \in Nat : k \in T
  <2> HIDE DEF T
  <2>1. QED
    BY <1>1, NumbersUpTo
<1>3. S \cap (1 .. n) = S
  OBVIOUS
<1>4. n \in 0 .. n
  OBVIOUS
<1>5. QED
  BY <1>2, <1>3, <1>4

\* What At has: the entries at the places in S, each once.
LEMMA AtPicks ==
  ASSUME NEW V, NEW b, Entries(b) \in Seq(V), NEW S, S \subseteq DOMAIN Entries(b)
  PROVE  At(b, S) \in Seq(V) /\ \E p : Picks(At(b, S), p, Entries(b), S)
<1>1. PICK entries \in Seq(V) : entries = Entries(b)
  OBVIOUS
<1>2. PICK n \in Nat : n = Len(entries) /\ DOMAIN entries = 1 .. n
  BY LenProperties
<1>3. PICK f : f = CHOOSE h : Chooses(h, entries, S, n)
  OBVIOUS
<1>4. Chooses(f, entries, S, n)
  BY <1>3, ChoosesExists
<1>5. At(b, S) = f[n]
  BY <1>1, <1>2, <1>3 DEF At, Chooses, Entries
<1>6. S \subseteq 1 .. n
  BY <1>1, <1>2
<1>7. f[n] \in Seq(V) /\ \E p : Picks(f[n], p, entries, S)
  BY <1>2, <1>4, <1>6, ChoosesPicks
<1>8. QED
  BY <1>1, <1>5, <1>7

-----------------------------------------------------------------------------
(* A run of the main loop, with its pool. *)

Open == {"recv", "inline", "drain", "event", "redrain", "check", "final", "flush", "destroy"}
Ended == {"join", "finalize", "done"}

\* s is a sequence.
IsSeq(s) == s \in Seq(Range(s))

BatchData == [entries : Seq(Entry), results : Seq(SUBSET {"duplicate", "blacklisted"})]
DirLine == [to : {DirInfo}, path : Seq(STRING)]

RunTypes ==
  /\ input \in Inputs /\ dead \subseteq input.dead
  /\ IsSeq(retQ) /\ IsSeq(coming)
  /\ tp \in Seq(BatchData)
  /\ state \in [dirs : Nat, files : Nat, dequeued : Nat, hasError : BOOLEAN, pendingBatches : Int]
  /\ tasks \in Seq(Entry) /\ dirLines \in Seq(DirLine)
  /\ IsSeq(printed) /\ \A k \in DOMAIN printed : printed[k].entry \in Entry

\* What a phase of main_loop_run says of the pool, and of the batch in main's hand.
PhaseInv ==
  /\ phase \in {"seed", "create"} \cup Open \cup Ended
  /\ phase \in {"seed", "create"} <=> owner = "creating"
  /\ phase \in Open <=> owner = "open"
  /\ phase = "join" <=> owner \in {"failing", "closing"}
  /\ inline # NoBatch <=> phase = "inline"

\* The batches of a run, in their order: parsed, in the return queues, coming.
\* The first rows are those of a target that is a file.
ComingInv ==
  /\ Len(tp) + Len(retQ) + Len(coming) = Len(input.batches)
  /\ \A k \in DOMAIN retQ : retQ[k] = BatchPayload(input.batches[Len(tp) + k])
  /\ \A k \in DOMAIN coming :
       coming[k] = BatchPayload(input.batches[Len(tp) + Len(retQ) + k])
  /\ phase = "seed" => retQ = <<>> /\ tasks = <<>> /\ printed = <<>> /\ dirLines = <<>>
  /\ phase \in {"seed", "create"} => tp = <<>>

\* The batches in the pool or in main's hand.
Live == (Range(queue) \cup Range(hand) \cup Range(completed) \cup {inline}) \ {NoBatch}

\* Each is in one place.
PlaceInv ==
  /\ \A i, j \in DOMAIN queue : queue[i] = queue[j] => i = j
  /\ \A i, j \in DOMAIN completed : completed[i] = completed[j] => i = j
  /\ \A t, u \in Threads : hand[t] = hand[u] /\ hand[t] # NoBatch => t = u
  /\ \A i \in DOMAIN queue, j \in DOMAIN completed : queue[i] # completed[j]
  /\ \A t \in Threads, i \in DOMAIN queue : hand[t] # queue[i]
  /\ \A t \in Threads, j \in DOMAIN completed : hand[t] # completed[j]
  /\ inline # NoBatch => inline \notin Range(queue) \cup Range(hand) \cup Range(completed)

\* They are what state.pendingBatches counts, and at the end there are none.
CountInv ==
  /\ Live \subseteq DOMAIN tp
  /\ state.pendingBatches = Cardinality(Live)
  /\ phase \in {"final", "flush", "destroy"} => Live = {} /\ coming = <<>> /\ retQ = <<>>
  /\ phase \in Ended =>
       Live = {} /\ (born = NumThreads => coming = <<>> /\ retQ = <<>>)

\* What is known of a batch: its entries and the results so far.
DataInv ==
  /\ \A b \in Live : Entries(b) = input.batches[b] /\ Len(Results(b)) <= Len(Entries(b))
  /\ \A b \in DOMAIN tp : b \notin Live => tp[b] = NoBatchData
  /\ \A k \in DOMAIN completed : Deduped(completed[k])

RunInv == IInv /\ RunTypes /\ PhaseInv /\ ComingInv /\ PlaceInv /\ CountInv /\ DataInv

-----------------------------------------------------------------------------
(* What a step is to the batches. *)

places == <<queue, hand, completed, inline>>
listing == <<input, tp, visited, dirLines, lost, state, tasks, printed>>

\* Nothing happens to them.
Idle == UNCHANGED <<places, listing, retQ, coming>> /\ dead' \subseteq dead

\* The pool's steps that move a batch.
Moves ==
  /\ \E t \in Threads : Take(t) \/ (Complete(t) /\ Deduped(hand[t]))
  /\ UNCHANGED <<phase, quiet>>

Lookup(b) ==
  /\ b = inline \/ \E t \in Threads : b = hand[t] /\ pc[t] = "working"
  /\ b # NoBatch
  /\ Dedup(b) /\ UNCHANGED <<tpVars, phase, inline>>

\* Every step of the pipeline is one of these to the batches.
LEMMA Steps ==
  ASSUME IInv, PhaseInv, CountInv, [Next]_vars
  PROVE  \/ Idle \/ Arrive \/ PrintRow \/ Moves \/ Seed \/ HandleBatch
         \/ (\E b : Lookup(b)) \/ InlineProcess \/ Drain
<1> USE DEF Idle, places, listing, quiet, cfgVars, monitorVars, mainVars, printVars
<1>1. CASE UNCHANGED vars
  BY <1>1 DEF vars, tpVars, threadVars
<1>2. ASSUME NEW d \in dead, Recover(d) PROVE Idle
  BY <1>2 DEF Recover, tpVars, threadVars
<1>3. ASSUME NEW id \in DOMAIN input.renamed, Rename(id) PROVE Idle
  BY <1>3 DEF Rename, tpVars, threadVars
<1>4. CASE Create
  BY <1>4 DEF Create, CreateThread
<1>5. CASE CannotCreate
  BY <1>5 DEF CannotCreate, CreateFails
<1>6. CASE RecvEnd \/ DrainEnd \/ Check
  BY <1>6 DEF RecvEnd, DrainEnd, Check, tpVars, threadVars
<1>7. CASE Event
  BY <1>7 DEF Event, ReadEvent, tpVars, threadVars
<1>8. CASE Flush \/ Finalize
  BY <1>8 DEF Flush, Finalize, tpVars, threadVars
<1>9. CASE DestroyPool
  BY <1>9 DEF DestroyPool, Destroy
<1>10. CASE JoinPool
  <2>1. completed = <<>>
    <3>1. phase \in Ended
      BY <1>10 DEF JoinPool, Phase, Ended
    <3>2. Live = {} /\ completed \in Seq(Batch)
      BY <3>1 DEF CountInv, IInv, TpTypeOK
    <3>3. \A k \in DOMAIN completed : completed[k] \in Live
      BY <3>2, BatchAssumption DEF Live, Range
    <3>4. DOMAIN completed = 1 .. Len(completed) /\ Len(completed) \in Nat
      BY <3>2, LenProperties
    <3>5. Len(completed) = 0
      BY <3>2, <3>3, <3>4
    <3>6. QED
      BY <3>2, <3>5, EmptySeq
  <2>2. QED
    BY <1>10, <2>1 DEF JoinPool, Joined, threadVars
<1>11. CASE InlineDedup
  BY <1>11 DEF InlineDedup, Lookup, PhaseInv
<1>12. ASSUME NEW t \in Threads, PoolThread(t) \/ PoolWake(t)
       PROVE  Idle \/ Moves \/ \E b : Lookup(b)
  <2>1. CASE PoolDedup(t)
    <3>1. hand[t] # NoBatch
      BY <2>1 DEF PoolDedup, IInv, Hands
    <3>2. QED
      BY <2>1, <3>1 DEF PoolDedup, Lookup
  <2>2. CASE PoolComplete(t)
    BY <2>2 DEF PoolComplete, Moves
  <2>3. CASE Take(t) /\ UNCHANGED <<phase, quiet>>
    BY <2>3 DEF Moves
  <2>4. CASE (Test(t) \/ FallAsleep(t) \/ Notify(t) \/ Wake(t)) /\ UNCHANGED <<phase, quiet>>
    BY <2>4 DEF Test, FallAsleep, Notify, Wake
  <2>5. QED
    BY <1>12, <2>1, <2>2, <2>3, <2>4 DEF PoolThread, PoolWake
<1>13. ASSUME NEW now \in clock .. clock + 2, PrintProgress(now) PROVE Idle
  BY <1>13 DEF PrintProgress, tpVars, threadVars
<1>14. QED
  <2> HIDE DEF Idle, places, listing, quiet, cfgVars, monitorVars, mainVars, printVars
  <2>1. QED
    BY <1>1, <1>2, <1>3, <1>4, <1>5, <1>6, <1>7, <1>8, <1>9, <1>10, <1>11, <1>12, <1>13 DEF Next, MainStep

-----------------------------------------------------------------------------
(* How the main loop goes on. *)

\* There is a batch for what is in the return queues.
LEMMA NextBatch ==
  ASSUME RunTypes, ComingInv, retQ # <<>>
  PROVE  /\ Len(tp) + 1 \in DOMAIN input.batches /\ Len(tp) + 1 \in Batch
         /\ input.batches[Len(tp) + 1] \in Seq(Entry)
         /\ Head(retQ) = BatchPayload(input.batches[Len(tp) + 1])
         /\ ParseBatch(Head(retQ)).ok
         /\ ParseBatch(Head(retQ)).seq = input.batches[Len(tp) + 1]
<1>1. input.batches \in Seq(Seq(Entry)) /\ DOMAIN input.batches \subseteq Batch
  BY InputAssumption DEF RunTypes
<1>2. PICK n \in Nat : n = Len(input.batches) /\ DOMAIN input.batches = 1 .. n
  BY <1>1, LenProperties
<1>3. PICK m \in Nat : m = Len(tp)
  BY LenProperties DEF RunTypes
<1>4. retQ \in Seq(Range(retQ)) /\ coming \in Seq(Range(coming))
  BY DEF RunTypes, IsSeq
<1>5. PICK r \in Nat : r = Len(retQ) /\ DOMAIN retQ = 1 .. r
  BY <1>4, LenProperties
<1>6. PICK c \in Nat : c = Len(coming)
  BY <1>4, LenProperties
<1>7. r # 0
  BY <1>4, <1>5, EmptySeq
<1>8. m + r + c = n
  BY <1>2, <1>3, <1>5, <1>6 DEF ComingInv
<1>9. m + 1 \in 1 .. n /\ 1 \in 1 .. r
  BY <1>7, <1>8
<1>10. retQ[1] = BatchPayload(input.batches[m + 1])
  BY <1>3, <1>5, <1>9 DEF ComingInv
<1>11. Head(retQ) = retQ[1]
  BY <1>4
<1>12. PICK s \in Seq(Entry) : s = input.batches[m + 1]
  BY <1>1, <1>2, <1>9, ElementOfSeq
<1>13. ParseBatch(BatchPayload(s)).ok /\ ParseBatch(BatchPayload(s)).seq = s
  BY ParsedIsGiven
<1>14. QED
  BY <1>1, <1>2, <1>3, <1>9, <1>10, <1>11, <1>12, <1>13

\* What a step is to the phases.
PhaseStep ==
  /\ PhaseInv'
  /\ phase' = "seed" => phase = "seed"
  /\ phase' \in {"seed", "create"} => phase \in {"seed", "create"}
  /\ phase' \in {"final", "flush", "destroy"} =>
       phase \in {"final", "flush", "destroy"} \/ (phase = "check" /\ AllDone /\ Idle)
  /\ phase' \in Ended =>
       \/ phase \in {"destroy"} \cup Ended /\ born' = born
       \/ phase = "create" /\ born' # NumThreads

\* The main loop goes on only when its phase allows it: to the end when no batch is
\* left, and never back.
LEMMA PhasesGo ==
  ASSUME IInv, RunTypes, ComingInv, PhaseInv, [Next]_vars
  PROVE  PhaseStep
<1> USE DEF PhaseStep, PhaseInv, Open, Ended
<1>1. CASE UNCHANGED vars
  BY <1>1 DEF vars, mainVars, tpVars, threadVars
<1>2. ASSUME \/ Arrive \/ (\E d \in dead : Recover(d)) \/ (\E id \in DOMAIN input.renamed : Rename(id))
             \/ PrintRow \/ (\E now \in clock .. clock + 2 : PrintProgress(now))
      PROVE  PhaseStep
  <2>1. UNCHANGED <<phase, owner, inline, born>>
    BY <1>2 DEF Arrive, Recover, Rename, PrintRow, PrintProgress, mainVars, tpVars, threadVars
  <2>2. QED
    BY <2>1
<1>3. CASE Seed
  BY <1>3 DEF Seed, Phase, tpVars, threadVars
<1>4. CASE Create
  <2>1. /\ phase = "create" /\ owner = "creating" /\ inline' = inline
        /\ \/ owner' = "open" /\ phase' = "recv"
           \/ owner' = "creating" /\ phase' = "create"
    BY <1>4 DEF Create, CreateThread, quiet
  <2>2. QED
    BY <2>1
<1>5. CASE CannotCreate
  <2>1. /\ phase = "create" /\ phase' = "join" /\ inline' = inline
        /\ owner = "creating" /\ owner' = "failing" /\ born' = born
    BY <1>5 DEF CannotCreate, CreateFails, Phase, quiet
  <2>2. born # NumThreads
    BY <2>1, ThreadAssumption DEF IInv, TpTypeOK, Births
  <2>3. QED
    BY <2>1, <2>2
<1>6. CASE HandleBatch
  <2>1. UNCHANGED <<owner, born>>
    BY <1>6 DEF HandleBatch, Submit, Refuse, tpVars, threadVars
  <2>2. \/ UNCHANGED <<phase, inline>>
        \/ phase' = "inline" /\ inline' # NoBatch
    BY <1>6, NextBatch, BatchAssumption DEF HandleBatch
  <2>3. QED
    BY <1>6, <2>1, <2>2 DEF HandleBatch
<1>7. CASE InlineDedup
  BY <1>7 DEF InlineDedup, tpVars, threadVars
<1>8. CASE InlineProcess
  BY <1>8 DEF InlineProcess, Phase, tpVars, threadVars
<1>9. CASE RecvEnd
  BY <1>9 DEF RecvEnd, Phase, quiet, tpVars, threadVars
<1>10. CASE Drain
  BY <1>10 DEF Drain, Poll, threadVars
<1>11. CASE DrainEnd
  BY <1>11 DEF DrainEnd, AfterDrain, quiet, tpVars, threadVars
<1>12. CASE Event
  BY <1>12 DEF Event, ReadEvent, Phase, quiet, tpVars, threadVars
<1>13. CASE Check
  <2>1. Idle
    BY <1>13 DEF Check, Idle, places, listing, quiet, cfgVars, printVars, tpVars, threadVars
  <2>2. QED
    BY <1>13, <2>1 DEF Check, quiet, tpVars, threadVars
<1>14. CASE Flush
  BY <1>14 DEF Flush, Phase, tpVars, threadVars
<1>15. CASE DestroyPool
  BY <1>15 DEF DestroyPool, Destroy, Phase, quiet
<1>16. CASE JoinPool
  BY <1>16 DEF JoinPool, Joined, Phase, quiet, threadVars
<1>17. CASE Finalize
  BY <1>17 DEF Finalize, Phase, tpVars, threadVars
<1>18. ASSUME NEW t \in Threads, PoolThread(t) \/ PoolWake(t)
       PROVE  PhaseStep
  <2>1. UNCHANGED <<phase, owner, inline, born>>
    BY <1>18 DEF PoolThread, PoolWake, PoolDedup, PoolComplete, Take, Test, FallAsleep, Wake, Notify,
                 Complete, quiet, tpVars, threadVars
  <2>2. QED
    BY <2>1
<1>19. QED
  <2> HIDE DEF PhaseStep, PhaseInv, Open, Ended
  <2>1. QED
    BY <1>1, <1>2, <1>3, <1>4, <1>5, <1>6, <1>7, <1>8, <1>9, <1>10, <1>11, <1>12, <1>13, <1>14, <1>15,
       <1>16, <1>17, <1>18 DEF Next, MainStep

\* A step of the run is one of the pool, or none.
LEMMA StepIsPool ==
  ASSUME RunInv, [Next]_vars
  PROVE  [TpNext]_tpVars
<1>1. CASE UNCHANGED vars
  BY <1>1 DEF vars
<1>2. ASSUME \/ Arrive \/ (\E d \in dead : Recover(d)) \/ (\E id \in DOMAIN input.renamed : Rename(id))
             \/ PrintRow \/ (\E now \in clock .. clock + 2 : PrintProgress(now))
      PROVE  UNCHANGED tpVars
  BY <1>2 DEF Arrive, Recover, Rename, PrintRow, PrintProgress
<1>3. CASE Seed \/ InlineDedup \/ InlineProcess \/ RecvEnd \/ DrainEnd \/ Check \/ Flush \/ Finalize
  BY <1>3 DEF Seed, InlineDedup, InlineProcess, RecvEnd, DrainEnd, Check, Flush, Finalize
<1>4. CASE Create \/ CannotCreate
  BY <1>4 DEF Create, CannotCreate, TpNext, OwnerStep
<1>5. CASE HandleBatch
  <2>1. Len(tp) + 1 \in Batch /\ ParseBatch(Head(retQ)).ok
    BY <1>5, NextBatch DEF HandleBatch, RunInv
  <2>2. Submit(Len(tp) + 1) \/ Refuse
    BY <1>5, <2>1 DEF HandleBatch
  <2>3. QED
    BY <2>1, <2>2 DEF TpNext, OwnerStep
<1>6. CASE Drain \/ DestroyPool \/ JoinPool
  BY <1>6 DEF Drain, DestroyPool, JoinPool, TpNext, OwnerStep
<1>7. CASE Event
  BY <1>7 DEF Event, TpNext, OwnerStep
<1>8. ASSUME NEW t \in Threads, PoolThread(t) \/ PoolWake(t)
      PROVE  [TpNext]_tpVars
  <2>1. UNCHANGED tpVars \/ ThreadStep(t)
    BY <1>8 DEF PoolThread, PoolWake, PoolDedup, PoolComplete, ThreadStep
  <2>2. QED
    BY <2>1 DEF TpNext
<1>9. QED
  BY <1>1, <1>2, <1>3, <1>4, <1>5, <1>6, <1>7, <1>8 DEF Next, MainStep

-----------------------------------------------------------------------------
(* Where the batches are. *)

\* A batch is live that is in the queue, in a hand, completed, or looked up inline.
LEMMA LiveIs ==
  \A b : b \in Live <=>
    /\ b # NoBatch
    /\ \/ \E i \in DOMAIN queue : queue[i] = b
       \/ \E t \in DOMAIN hand : hand[t] = b
       \/ \E j \in DOMAIN completed : completed[j] = b
       \/ inline = b
BY DEF Live, Range

\* The places of the pool are sequences and a function.
LEMMA PlaceTypes ==
  ASSUME TpTypeOK
  PROVE  /\ queue \in Seq(Batch) /\ Len(queue) \in Nat /\ DOMAIN queue = 1 .. Len(queue)
         /\ \A i \in DOMAIN queue : queue[i] \in Batch /\ queue[i] # NoBatch
         /\ completed \in Seq(Batch) /\ Len(completed) \in Nat
         /\ DOMAIN completed = 1 .. Len(completed)
         /\ \A i \in DOMAIN completed : completed[i] \in Batch /\ completed[i] # NoBatch
         /\ DOMAIN hand = Threads
<1>1. queue \in Seq(Batch) /\ completed \in Seq(Batch) /\ DOMAIN hand = Threads
  BY DEF TpTypeOK
<1>2. \A q \in Seq(Batch) : /\ Len(q) \in Nat /\ DOMAIN q = 1 .. Len(q)
                            /\ \A i \in DOMAIN q : q[i] \in Batch
  BY LenProperties, ElementOfSeq
<1>3. \A b \in Batch : b # NoBatch
  BY BatchAssumption
<1>4. QED
  BY <1>1, <1>2, <1>3

\* What leaves the places of the batches alone leaves the live ones alone.
LEMMA PlacesStay ==
  ASSUME PlaceInv, UNCHANGED places
  PROVE  PlaceInv' /\ Live' = Live
BY DEF PlaceInv, Live, places

\* A thread takes the first batch of the queue.
LEMMA TakeMoves ==
  ASSUME IInv, PlaceInv, NEW t \in Threads, Take(t), inline' = inline
  PROVE  PlaceInv' /\ Live' = Live
<1>1. /\ queue \in Seq(Batch) /\ Len(queue) \in Nat /\ DOMAIN queue = 1 .. Len(queue)
      /\ \A i \in DOMAIN queue : queue[i] \in Batch /\ queue[i] # NoBatch
      /\ DOMAIN hand = Threads
  BY PlaceTypes DEF IInv
<1>2. PICK n \in Nat : Len(queue) = n + 1
  <2>1. Len(queue) # 0
    BY <1>1, EmptySeq DEF Take
  <2>2. Len(queue) - 1 \in Nat /\ Len(queue) = (Len(queue) - 1) + 1
    BY <1>1, <2>1
  <2>3. QED
    BY <2>2
<1>3. /\ Head(queue) = queue[1] /\ Len(queue') = n /\ DOMAIN queue' = 1 .. n
      /\ \A i \in 1 .. n : queue'[i] = queue[i + 1]
  BY <1>1, <1>2 DEF Take
<1>4. /\ DOMAIN queue = 1 .. n + 1
      /\ \A i \in 1 .. n + 1 : i = 1 \/ (i - 1 \in 1 .. n /\ (i - 1) + 1 = i)
      /\ \A i \in 1 .. n : i + 1 \in 1 .. n + 1 /\ i + 1 # 1
      /\ 1 \in 1 .. n + 1
  BY <1>1, <1>2
<1>5. /\ DOMAIN hand' = Threads /\ hand'[t] = queue[1]
      /\ \A u \in Threads : u # t => hand'[u] = hand[u]
      /\ hand[t] = NoBatch
  BY <1>1, <1>3 DEF Take, IInv, Hands
<1>6. completed' = completed /\ inline' = inline
  BY DEF Take
<1>7. \A i, j \in 1 .. n : queue'[i] = queue'[j] => i = j
  <2>1. SUFFICES ASSUME NEW i \in 1 .. n, NEW j \in 1 .. n, queue'[i] = queue'[j] PROVE i = j
    OBVIOUS
  <2>2. queue[i + 1] = queue[j + 1]
    BY <1>3, <2>1
  <2>3. i + 1 = j + 1
    BY <1>4, <2>2 DEF PlaceInv
  <2>4. QED
    BY <2>3
<1>8. \A u \in Threads, i \in 1 .. n : hand'[u] # queue'[i]
  <2>1. \A i \in 1 .. n : queue[1] # queue[i + 1]
    BY <1>4 DEF PlaceInv
  <2>2. QED
    BY <1>3, <1>4, <1>5, <2>1 DEF PlaceInv
<1>9. \A u, v \in Threads : hand'[u] = hand'[v] /\ hand'[u] # NoBatch => u = v
  BY <1>4, <1>5 DEF PlaceInv
<1>10. \A u \in Threads, j \in DOMAIN completed : hand'[u] # completed[j]
  BY <1>4, <1>5 DEF PlaceInv
<1>11. \A i \in 1 .. n, j \in DOMAIN completed : queue'[i] # completed[j]
  BY <1>3, <1>4 DEF PlaceInv
<1>12. \A b : b \in Live' <=> b \in Live
  <2>1. \A b : b \in Live' <=>
          /\ b # NoBatch
          /\ \/ \E i \in DOMAIN queue' : queue'[i] = b
             \/ \E u \in DOMAIN hand' : hand'[u] = b
             \/ \E j \in DOMAIN completed' : completed'[j] = b
             \/ inline' = b
    BY DEF Live, Range
  <2>2. \A b : (\E i \in 1 .. n : queue'[i] = b) \/ b = queue[1] <=> \E i \in 1 .. n + 1 : queue[i] = b
    <3>1. ASSUME NEW b, NEW i \in 1 .. n, queue'[i] = b
          PROVE  \E j \in 1 .. n + 1 : queue[j] = b
      BY <1>3, <1>4, <3>1
    <3>2. queue[1] \in {queue[i] : i \in 1 .. n + 1}
      BY <1>4
    <3>3. ASSUME NEW b, NEW i \in 1 .. n + 1, queue[i] = b, i # 1
          PROVE  \E j \in 1 .. n : queue'[j] = b
      BY <1>3, <1>4, <3>3
    <3>4. QED
      BY <3>1, <3>2, <3>3
  <2>3. \A b : b # NoBatch =>
          ((\E u \in Threads : hand'[u] = b) <=> (\E u \in Threads : hand[u] = b) \/ b = queue[1])
    BY <1>5
  <2>4. SUFFICES ASSUME NEW b, b # NoBatch PROVE b \in Live' <=> b \in Live
    BY <2>1, LiveIs
  <2>5. QED
    <3>1. (\E i \in DOMAIN queue' : queue'[i] = b) \/ b = queue[1] <=> \E i \in DOMAIN queue : queue[i] = b
      BY <1>3, <1>4, <2>2
    <3>2. DOMAIN hand' = Threads /\ DOMAIN hand = Threads
      BY <1>1, <1>5
    <3>3. (\E u \in DOMAIN hand' : hand'[u] = b) <=>
            (\E u \in DOMAIN hand : hand[u] = b) \/ b = queue[1]
      BY <2>3, <2>4, <3>2
    <3>4. b \in Live <=> \/ \E i \in DOMAIN queue : queue[i] = b
                         \/ \E u \in DOMAIN hand : hand[u] = b
                         \/ \E j \in DOMAIN completed : completed[j] = b
                         \/ inline = b
      BY <2>4, LiveIs
    <3>5. QED
      BY <1>6, <2>1, <2>4, <3>1, <3>3, <3>4
<1>13. Live' = Live
  BY <1>12
<1>14. inline' # NoBatch => inline' \notin Range(queue') \cup Range(hand') \cup Range(completed')
  <2>1. SUFFICES ASSUME inline # NoBatch
                 PROVE  inline \notin Range(queue') \cup Range(hand') \cup Range(completed')
    BY <1>6
  <2>2. /\ \A i \in DOMAIN queue : queue[i] # inline
        /\ \A u \in Threads : hand[u] # inline
        /\ \A j \in DOMAIN completed : completed[j] # inline
    BY <1>1, <2>1 DEF PlaceInv, Range
  <2>3. queue[1] # inline /\ \A i \in 1 .. n : queue[i + 1] # inline
    BY <1>4, <2>2
  <2>4. \A i \in DOMAIN queue' : queue'[i] # inline
    BY <1>3, <2>3
  <2>5. \A u \in Threads : hand'[u] # inline
    BY <1>5, <2>2, <2>3
  <2>6. QED
    BY <1>5, <1>6, <2>2, <2>4, <2>5 DEF Range
<1>15. PlaceInv'
  BY <1>3, <1>6, <1>7, <1>8, <1>9, <1>10, <1>11, <1>14 DEF PlaceInv
<1>16. QED
  BY <1>13, <1>15

\* It puts it in the list of completed batches.
LEMMA CompleteMoves ==
  ASSUME IInv, PlaceInv, NEW t \in Threads, Complete(t), inline' = inline
  PROVE  /\ PlaceInv' /\ Live' = Live
         /\ \A j \in DOMAIN completed' :
              \/ j \in DOMAIN completed /\ completed'[j] = completed[j]
              \/ completed'[j] = hand[t]
<1>1. /\ completed \in Seq(Batch) /\ DOMAIN completed = 1 .. Len(completed)
      /\ \A i \in DOMAIN completed : completed[i] \in Batch /\ completed[i] # NoBatch
      /\ DOMAIN hand = Threads /\ Len(completed) \in Nat
  BY PlaceTypes DEF IInv
<1>2. PICK n \in Nat : n = Len(completed) /\ DOMAIN completed = 1 .. n
  BY <1>1
<1>3. hand[t] # NoBatch /\ hand[t] \in Batch
  BY DEF Complete, IInv, Hands, TpTypeOK
<1>4. PICK b \in Batch : b = hand[t] /\ b # NoBatch
  BY <1>3
<1>5. completed' = Append(completed, b)
  BY <1>4 DEF Complete
<1>6. /\ DOMAIN completed' = 1 .. n + 1 /\ completed'[n + 1] = b
      /\ \A i \in 1 .. n : completed'[i] = completed[i]
  BY <1>1, <1>2, <1>5
<1>7. /\ \A i \in 1 .. n + 1 : i = n + 1 \/ i \in 1 .. n
      /\ \A i \in 1 .. n : i \in 1 .. n + 1
      /\ n + 1 \in 1 .. n + 1
  OBVIOUS
<1>8. /\ DOMAIN hand' = Threads /\ hand'[t] = NoBatch
      /\ \A u \in Threads : u # t => hand'[u] = hand[u]
  BY <1>1 DEF Complete
<1>9. queue' = queue /\ inline' = inline
  BY DEF Complete
<1>10. /\ \A i \in 1 .. n : completed[i] # b
       /\ \A u \in Threads : u # t => hand[u] # b
       /\ \A i \in DOMAIN queue : queue[i] # b
       /\ inline # b
  <2>1. \A i \in 1 .. n : completed[i] # b
    BY <1>2, <1>4 DEF PlaceInv
  <2>2. \A u \in Threads : u # t => hand[u] # b
    BY <1>4 DEF PlaceInv
  <2>3. \A i \in DOMAIN queue : queue[i] # b
    BY <1>4 DEF PlaceInv
  <2>4. inline # b
    BY <1>1, <1>4 DEF PlaceInv, Range
  <2>5. QED
    BY <2>1, <2>2, <2>3, <2>4
<1>11. \A i, j \in 1 .. n + 1 : completed'[i] = completed'[j] => i = j
  BY <1>2, <1>6, <1>7, <1>10 DEF PlaceInv
<1>12. \A u, v \in Threads : hand'[u] = hand'[v] /\ hand'[u] # NoBatch => u = v
  BY <1>8 DEF PlaceInv
<1>13. \A i \in DOMAIN queue, j \in 1 .. n + 1 : queue[i] # completed'[j]
  BY <1>2, <1>6, <1>7, <1>10 DEF PlaceInv
<1>14. \A i \in DOMAIN queue : queue[i] # NoBatch
  BY PlaceTypes DEF IInv
<1>15. \A u \in Threads, i \in DOMAIN queue : hand'[u] # queue[i]
  BY <1>8, <1>14 DEF PlaceInv
<1>16. \A u \in Threads, j \in 1 .. n + 1 : hand'[u] # completed'[j]
  <2>1. \A j \in 1 .. n + 1 : completed'[j] # NoBatch
    BY <1>1, <1>2, <1>4, <1>6, <1>7
  <2>2. \A u \in Threads, j \in 1 .. n + 1 : u # t => hand[u] # completed'[j]
    BY <1>2, <1>6, <1>7, <1>10 DEF PlaceInv
  <2>3. QED
    BY <1>8, <2>1, <2>2
<1>17. inline # NoBatch => inline \notin Range(queue) \cup Range(hand') \cup Range(completed')
  <2>1. SUFFICES ASSUME inline # NoBatch
                 PROVE  inline \notin Range(queue) \cup Range(hand') \cup Range(completed')
    OBVIOUS
  <2>2. /\ \A i \in DOMAIN queue : queue[i] # inline
        /\ \A u \in Threads : hand[u] # inline
        /\ \A j \in DOMAIN completed : completed[j] # inline
    BY <1>1, <2>1 DEF PlaceInv, Range
  <2>3. \A u \in Threads : hand'[u] # inline
    BY <1>8, <2>1, <2>2
  <2>4. \A j \in 1 .. n + 1 : completed'[j] # inline
    BY <1>2, <1>6, <1>7, <1>10, <2>2
  <2>5. QED
    BY <1>6, <1>8, <2>2, <2>3, <2>4 DEF Range
<1>18. PlaceInv'
  BY <1>6, <1>9, <1>11, <1>12, <1>13, <1>15, <1>16, <1>17 DEF PlaceInv
<1>19. \A c : c \in Live' <=> c \in Live
  <2>1. SUFFICES ASSUME NEW c, c # NoBatch PROVE c \in Live' <=> c \in Live
    BY DEF Live
  <2>2. c \in Live' <=>
          \/ \E i \in DOMAIN queue' : queue'[i] = c
          \/ \E u \in DOMAIN hand' : hand'[u] = c
          \/ \E j \in DOMAIN completed' : completed'[j] = c
          \/ inline' = c
    BY <2>1 DEF Live, Range
  <2>3. (\E j \in 1 .. n + 1 : completed'[j] = c) <=> (\E j \in 1 .. n : completed[j] = c) \/ c = b
    BY <1>6, <1>7
  <2>4. (\E u \in Threads : hand[u] = c) <=> (\E u \in Threads : hand'[u] = c) \/ c = b
    BY <1>4, <1>8, <2>1
  <2>5. QED
    BY <1>1, <1>2, <1>6, <1>8, <1>9, <2>1, <2>2, <2>3, <2>4, LiveIs
<1>20. Live' = Live
  BY <1>19
<1>21. QED
  BY <1>2, <1>4, <1>6, <1>7, <1>18, <1>20

\* A new batch is queued.
LEMMA SubmitAdds ==
  ASSUME IInv, PlaceInv, NEW b \in Batch, b \notin Live, Submit(b), inline' = inline
  PROVE  /\ PlaceInv' /\ Live' = Live \cup {b} /\ completed' = completed
<1>1. /\ queue \in Seq(Batch) /\ DOMAIN hand = Threads /\ Len(queue) \in Nat
  BY PlaceTypes DEF IInv
<1>2. PICK n \in Nat : n = Len(queue) /\ DOMAIN queue = 1 .. n
  BY <1>1, LenProperties
<1>3. b # NoBatch
  BY BatchAssumption
<1>4. queue' = Append(queue, b) /\ hand' = hand /\ completed' = completed /\ inline' = inline
  BY DEF Submit
<1>5. /\ DOMAIN queue' = 1 .. n + 1 /\ queue'[n + 1] = b
      /\ \A i \in 1 .. n : queue'[i] = queue[i]
  BY <1>1, <1>2, <1>4
<1>6. /\ \A i \in 1 .. n + 1 : i = n + 1 \/ i \in 1 .. n
      /\ \A i \in 1 .. n : i \in 1 .. n + 1
      /\ n + 1 \in 1 .. n + 1
  OBVIOUS
<1>7. /\ \A i \in 1 .. n : queue[i] # b
      /\ \A u \in Threads : hand[u] # b
      /\ \A j \in DOMAIN completed : completed[j] # b
      /\ inline # b
  BY <1>1, <1>2, <1>3, LiveIs
<1>8. \A i, j \in 1 .. n + 1 : queue'[i] = queue'[j] => i = j
  BY <1>2, <1>5, <1>6, <1>7 DEF PlaceInv
<1>9. \A i \in 1 .. n + 1, j \in DOMAIN completed : queue'[i] # completed[j]
  BY <1>2, <1>5, <1>6, <1>7 DEF PlaceInv
<1>10. \A u \in Threads, i \in 1 .. n + 1 : hand[u] # queue'[i]
  BY <1>2, <1>5, <1>6, <1>7 DEF PlaceInv
<1>11. inline # NoBatch => inline \notin Range(queue') \cup Range(hand) \cup Range(completed)
  <2>1. SUFFICES ASSUME inline # NoBatch
                 PROVE  inline \notin Range(queue') \cup Range(hand) \cup Range(completed)
    OBVIOUS
  <2>2. inline \notin Range(queue) \cup Range(hand) \cup Range(completed)
    BY <2>1 DEF PlaceInv
  <2>3. \A i \in 1 .. n + 1 : queue'[i] # inline
    BY <1>2, <1>5, <1>6, <1>7, <2>2 DEF Range
  <2>4. QED
    BY <1>5, <2>2, <2>3 DEF Range
<1>12. PlaceInv'
  BY <1>4, <1>5, <1>8, <1>9, <1>10, <1>11 DEF PlaceInv
<1>13. Range(queue') = Range(queue) \cup {b}
  BY <1>2, <1>5, <1>6 DEF Range
<1>14. Live' = Live \cup {b}
  BY <1>3, <1>4, <1>13 DEF Live
<1>15. QED
  BY <1>4, <1>12, <1>14

\* Main keeps a new batch.
LEMMA InlineAdds ==
  ASSUME IInv, PlaceInv, NEW b \in Batch, b \notin Live, UNCHANGED tpVars,
         inline = NoBatch, inline' = b
  PROVE  /\ PlaceInv' /\ Live' = Live \cup {b} /\ completed' = completed
<1>1. queue' = queue /\ hand' = hand /\ completed' = completed
  BY DEF tpVars, threadVars
<1>2. b # NoBatch
  BY BatchAssumption
<1>3. b \notin Range(queue) \cup Range(hand) \cup Range(completed)
  BY <1>2 DEF Live
<1>4. PlaceInv'
  BY <1>1, <1>2, <1>3 DEF PlaceInv
<1>5. Live' = Live \cup {b}
  BY <1>1, <1>2 DEF Live
<1>6. QED
  BY <1>1, <1>4, <1>5

\* The first of the completed batches is taken out of the list.
LEMMA PollTakes ==
  ASSUME IInv, PlaceInv, Poll, inline' = inline
  PROVE  /\ PlaceInv' /\ Head(completed) \in Live /\ Live' = Live \ {Head(completed)}
         /\ 1 \in DOMAIN completed /\ Head(completed) = completed[1]
         /\ \A j \in DOMAIN completed' : j + 1 \in DOMAIN completed
                                          /\ completed'[j] = completed[j + 1]
<1>1. /\ completed \in Seq(Batch) /\ Len(completed) \in Nat /\ DOMAIN completed = 1 .. Len(completed)
      /\ \A i \in DOMAIN completed : completed[i] \in Batch /\ completed[i] # NoBatch
      /\ DOMAIN hand = Threads
  BY PlaceTypes DEF IInv
<1>2. PICK n \in Nat : Len(completed) = n + 1
  <2>1. Len(completed) # 0
    BY <1>1, EmptySeq DEF Poll
  <2>2. Len(completed) - 1 \in Nat /\ Len(completed) = (Len(completed) - 1) + 1
    BY <1>1, <2>1
  <2>3. QED
    BY <2>2
<1>3. /\ Head(completed) = completed[1] /\ DOMAIN completed' = 1 .. n
      /\ \A i \in 1 .. n : completed'[i] = completed[i + 1]
  BY <1>1, <1>2 DEF Poll
<1>4. /\ DOMAIN completed = 1 .. n + 1
      /\ \A i \in 1 .. n + 1 : i = 1 \/ (i - 1 \in 1 .. n /\ (i - 1) + 1 = i)
      /\ \A i \in 1 .. n : i + 1 \in 1 .. n + 1 /\ i + 1 # 1
      /\ 1 \in 1 .. n + 1
  BY <1>1, <1>2
<1>5. queue' = queue /\ hand' = hand /\ inline' = inline
  BY DEF Poll, threadVars
<1>6. PICK b : b = completed[1]
  OBVIOUS
<1>7. \A i, j \in 1 .. n : completed'[i] = completed'[j] => i = j
  <2>1. SUFFICES ASSUME NEW i \in 1 .. n, NEW j \in 1 .. n, completed'[i] = completed'[j] PROVE i = j
    OBVIOUS
  <2>2. completed[i + 1] = completed[j + 1]
    BY <1>3, <2>1
  <2>3. i + 1 = j + 1
    BY <1>4, <2>2 DEF PlaceInv
  <2>4. QED
    BY <2>3
<1>8. Range(completed) = Range(completed') \cup {b}
  <2>1. \A c : (\E i \in 1 .. n + 1 : completed[i] = c) <=>
               (\E i \in 1 .. n : completed'[i] = c) \/ c = b
    BY <1>3, <1>4, <1>6
  <2>2. \A c : c \in Range(completed) <=> c \in Range(completed') \/ c = b
    <3>1. \A c : c \in Range(completed) <=> \E i \in 1 .. n + 1 : completed[i] = c
      BY <1>4 DEF Range
    <3>2. \A c : c \in Range(completed') <=> \E i \in 1 .. n : completed'[i] = c
      BY <1>3 DEF Range
    <3>3. QED
      BY ONLY <2>1, <3>1, <3>2
  <2>3. QED
    BY <2>2
<1>9. b \notin Range(completed') /\ b # NoBatch
  <2>1. \A i \in 1 .. n : completed[1] # completed[i + 1]
    BY <1>4 DEF PlaceInv
  <2>2. QED
    BY <1>1, <1>3, <1>4, <1>6, <2>1 DEF Range
<1>10. b \notin Range(queue) \cup Range(hand) \cup {inline}
  BY <1>1, <1>4, <1>6, <1>9 DEF PlaceInv, Range
<1>11. Live' = Live \ {b} /\ b \in Live
  BY <1>5, <1>8, <1>9, <1>10 DEF Live
<1>12. PlaceInv'
  <2>1. \A i \in DOMAIN queue, j \in 1 .. n : queue[i] # completed'[j]
    BY <1>3, <1>4 DEF PlaceInv
  <2>2. \A u \in Threads, j \in 1 .. n : hand[u] # completed'[j]
    <3>1. \A u \in Threads, j \in DOMAIN completed : hand[u] # completed[j]
      BY DEF PlaceInv
    <3>2. QED
      BY <1>3, <1>4, <3>1
  <2>3. inline # NoBatch => inline \notin Range(queue) \cup Range(hand) \cup Range(completed')
    BY <1>8 DEF PlaceInv
  <2>4. QED
    BY <1>3, <1>5, <1>7, <2>1, <2>2, <2>3 DEF PlaceInv
<1>13. QED
  BY <1>3, <1>4, <1>6, <1>11, <1>12

\* Main lets go of the batch in its hand.
LEMMA InlineGoes ==
  ASSUME PlaceInv, inline # NoBatch, UNCHANGED tpVars, inline' = NoBatch
  PROVE  /\ PlaceInv' /\ inline \in Live /\ Live' = Live \ {inline} /\ completed' = completed
<1>1. queue' = queue /\ hand' = hand /\ completed' = completed
  BY DEF tpVars, threadVars
<1>2. QED
  BY <1>1 DEF PlaceInv, Live

-----------------------------------------------------------------------------
(* What a look-up is. *)

Result == SUBSET {"duplicate", "blacklisted"}

\* The entries and the results of a batch are sequences.
LEMMA BatchIs ==
  ASSUME RunTypes, NEW b \in DOMAIN tp
  PROVE  /\ Entries(b) \in Seq(Entry) /\ Results(b) \in Seq(Result)
         /\ Len(Entries(b)) \in Nat /\ Len(Results(b)) \in Nat
         /\ DOMAIN Entries(b) = 1 .. Len(Entries(b))
         /\ DOMAIN Results(b) = 1 .. Len(Results(b))
         /\ tp[b] \in BatchData
         /\ tp[b] = [entries |-> Entries(b), results |-> Results(b)]
         /\ Len(tp) \in Nat /\ DOMAIN tp = 1 .. Len(tp)
<1>1. tp \in Seq(BatchData)
  BY DEF RunTypes
<1>2. tp[b] \in BatchData
  BY <1>1, ElementOfSeq, LenProperties
<1>3. Len(tp) \in Nat /\ DOMAIN tp = 1 .. Len(tp)
  BY <1>1, LenProperties
<1>4. Entries(b) \in Seq(Entry) /\ Results(b) \in Seq(Result)
  BY <1>2 DEF BatchData, Entries, Results, Result
<1>5. tp[b] = [entries |-> Entries(b), results |-> Results(b)]
  BY <1>2 DEF BatchData, Entries, Results
<1>6. Len(Entries(b)) \in Nat /\ DOMAIN Entries(b) = 1 .. Len(Entries(b))
  BY <1>4, LenProperties
<1>7. Len(Results(b)) \in Nat /\ DOMAIN Results(b) = 1 .. Len(Results(b))
  BY <1>4, LenProperties
<1>8. QED
  BY <1>2, <1>3, <1>4, <1>5, <1>6, <1>7

\* The entry of b that is looked up next, and what is found of it.
NextPlace(b) == Len(Results(b)) + 1
Found(b) ==
  (IF Fingerprint(Entries(b)[NextPlace(b)]) \in visited THEN {"duplicate"} ELSE {})
    \cup (IF Entries(b)[NextPlace(b)].dev \in dead THEN {"blacklisted"} ELSE {})

\* Everything from the limit on is passed over; or one entry is looked up.
PassedOver(b, rest) ==
  /\ NextPlace(b) > IterationLimit /\ visited' = visited
  /\ Len(rest) = Len(Entries(b)) - Len(Results(b))
  /\ \A i \in 1 .. Len(Entries(b)) - Len(Results(b)) : rest[i] = {"duplicate"}
LookedUp(b, rest) ==
  /\ NextPlace(b) <= IterationLimit
  /\ visited' = visited \cup {Fingerprint(Entries(b)[NextPlace(b)])}
  /\ Len(rest) = 1 /\ rest[1] = Found(b)

\* A step of batch_dedup_worker adds one result, or one for every entry that is
\* behind the limit.
LEMMA DedupIs ==
  ASSUME RunTypes, NEW b \in DOMAIN tp, Len(Results(b)) <= Len(Entries(b)), Dedup(b)
  PROVE  /\ NextPlace(b) \in DOMAIN Entries(b)
         /\ \E rest \in Seq(Result) :
              /\ tp' = [tp EXCEPT ![b].results = @ \o rest]
              /\ PassedOver(b, rest) \/ LookedUp(b, rest)
<1>1. PICK n \in Nat, r \in Nat : n = Len(Entries(b)) /\ r = Len(Results(b))
  BY BatchIs
<1>2. r + 1 \in 1 .. n /\ DOMAIN Entries(b) = 1 .. n
  BY <1>1, BatchIs DEF Dedup, Deduped
<1>3. PICK rest : rest = Marks(b)
  OBVIOUS
<1>4. tp' = [tp EXCEPT ![b].results = @ \o rest]
  BY <1>3 DEF Dedup
<1>5. CASE r + 1 > IterationLimit
  <2>1. PICK m \in Nat : m = n - r
    BY <1>2
  <2>2. rest = [i \in 1 .. m |-> {"duplicate"}]
    BY <1>1, <1>3, <1>5, <2>1 DEF Marks
  <2>3. rest \in Seq(Result) /\ Len(rest) = m
    BY <2>2 DEF Result
  <2>4. visited' = visited
    BY <1>1, <1>5, LimitAssumption DEF Dedup
  <2>5. PassedOver(b, rest)
    BY <1>1, <1>5, <2>1, <2>2, <2>3, <2>4 DEF PassedOver, NextPlace
  <2>6. QED
    BY <1>1, <1>2, <1>4, <2>3, <2>5 DEF NextPlace
<1>6. CASE ~(r + 1 > IterationLimit)
  <2>1. rest = <<Found(b)>>
    BY <1>1, <1>3, <1>6 DEF Marks, Found, NextPlace, IsBlacklisted
  <2>2. Found(b) \in Result
    BY DEF Found, Result
  <2>3. rest \in Seq(Result) /\ Len(rest) = 1 /\ rest[1] = Found(b)
    BY <2>1, <2>2
  <2>4. visited' = visited \cup {Fingerprint(Entries(b)[r + 1])}
    BY <1>1, <1>6, LimitAssumption DEF Dedup
  <2>5. LookedUp(b, rest)
    BY <1>1, <1>6, <2>3, <2>4, LimitAssumption DEF LookedUp, NextPlace
  <2>6. QED
    BY <1>1, <1>2, <1>4, <2>3, <2>5 DEF NextPlace
<1>7. QED
  BY <1>5, <1>6

\* What a batch is after more results.
LEMMA MoreResults ==
  ASSUME RunTypes, NEW b \in DOMAIN tp, NEW rest \in Seq(Result),
         tp' = [tp EXCEPT ![b].results = @ \o rest]
  PROVE  /\ tp' \in Seq(BatchData) /\ Len(tp') = Len(tp) /\ DOMAIN tp' = DOMAIN tp
         /\ \A c \in DOMAIN tp : c # b => tp'[c] = tp[c]
         /\ Entries(b)' = Entries(b)
         /\ Len(Results(b)') = Len(Results(b)) + Len(rest)
         /\ DOMAIN Results(b)' = 1 .. Len(Results(b)')
         /\ \A i \in DOMAIN Results(b) : Results(b)'[i] = Results(b)[i]
         /\ \A i \in 1 .. Len(rest) : Results(b)'[Len(Results(b)) + i] = rest[i]
<1>1. /\ Results(b) \in Seq(Result) /\ Len(Results(b)) \in Nat
      /\ DOMAIN Results(b) = 1 .. Len(Results(b)) /\ tp[b] \in BatchData
      /\ tp[b] = [entries |-> Entries(b), results |-> Results(b)]
      /\ Entries(b) \in Seq(Entry)
  BY BatchIs
<1>2. PICK P : P = Seq(Result)
  OBVIOUS
<1>3. PICK a \in P : a = Results(b)
  BY <1>1, <1>2
<1>4. PICK m \in Nat : m = Len(a)
  BY <1>1, <1>3
<1>5. PICK k \in Nat : k = Len(rest)
  BY LenProperties
<1>6. PICK d : d = a \o rest
  OBVIOUS
<1>7. d \in P /\ Len(d) = m + k
  <2>1. a \o rest \in P /\ Len(a \o rest) = Len(a) + Len(rest)
    BY <1>2, JoinedType
  <2>2. QED
    BY <1>4, <1>5, <1>6, <2>1
<1>8. \A i \in 1 .. m : d[i] = a[i]
  BY <1>2, <1>4, <1>6, JoinedFirst
<1>9. \A i \in 1 .. k : d[m + i] = rest[i]
  BY <1>2, <1>4, <1>5, <1>6, JoinedSecond
<1>10. tp' = [tp EXCEPT ![b] = [entries |-> Entries(b), results |-> d]]
  <2>1. [tp[b] EXCEPT !.results = d] = [entries |-> Entries(b), results |-> d]
    BY <1>1
  <2>2. tp' = [tp EXCEPT ![b] = [tp[b] EXCEPT !.results = tp[b].results \o rest]]
    OBVIOUS
  <2>3. tp[b].results \o rest = d
    BY <1>3, <1>6 DEF Results
  <2>4. QED
    BY <2>1, <2>2, <2>3
<1>11. [entries |-> Entries(b), results |-> d] \in BatchData
  BY <1>1, <1>2, <1>7 DEF BatchData, Result
<1>12. tp \in Seq(BatchData)
  BY DEF RunTypes
<1>13. tp' \in Seq(BatchData) /\ Len(tp') = Len(tp) /\ DOMAIN tp' = DOMAIN tp
  <2>1. b \in 1 .. Len(tp) /\ DOMAIN tp = 1 .. Len(tp)
    BY BatchIs
  <2>2. PICK x \in BatchData : x = [entries |-> Entries(b), results |-> d]
    BY <1>11
  <2>3. [tp EXCEPT ![b] = x] \in Seq(BatchData) /\ Len([tp EXCEPT ![b] = x]) = Len(tp)
    BY <1>12, <2>1, ExceptSeq
  <2>4. tp' = [tp EXCEPT ![b] = x]
    BY <1>10, <2>2
  <2>5. DOMAIN tp' = DOMAIN tp
    BY <2>4
  <2>6. QED
    BY <2>3, <2>4, <2>5
<1>14. tp'[b] = [entries |-> Entries(b), results |-> d] /\ \A c \in DOMAIN tp : c # b => tp'[c] = tp[c]
  BY <1>10
<1>15. Entries(b)' = Entries(b) /\ Results(b)' = d
  BY <1>14 DEF Entries, Results
<1>16. DOMAIN d = 1 .. m + k
  BY <1>2, <1>7, LenProperties
<1>17. QED
  BY <1>3, <1>4, <1>5, <1>7, <1>8, <1>9, <1>13, <1>14, <1>15, <1>16, <1>1

-----------------------------------------------------------------------------
(* Every step keeps the invariant of the run. *)

Kept == RunTypes' /\ ComingInv' /\ PlaceInv' /\ CountInv' /\ DataInv'

\* The live batches are finitely many.
LEMMA LiveFinite ==
  ASSUME RunTypes, CountInv
  PROVE  IsFiniteSet(Live) /\ Cardinality(Live) \in Nat /\ (Cardinality(Live) = 0 <=> Live = {})
<1>1. DOMAIN tp = 1 .. Len(tp) /\ Len(tp) \in Nat
  BY LenProperties DEF RunTypes
<1>2. IsFiniteSet(1 .. Len(tp))
  BY <1>1, FS_Interval
<1>3. IsFiniteSet(Live)
  BY <1>1, <1>2, FS_Subset DEF CountInv
<1>4. QED
  BY <1>3, FS_CardinalityType, FS_EmptySet

\* When the main loop gets to its end no batch is live, and none is on its way.
LEMMA EndStep ==
  ASSUME RunInv, PhaseStep
  PROVE  /\ phase' \in {"final", "flush", "destroy"} => Live = {} /\ coming = <<>> /\ retQ = <<>>
         /\ phase' \in Ended => Live = {} /\ (born' = NumThreads => coming = <<>> /\ retQ = <<>>)
<1>1. AllDone => Live = {} /\ coming = <<>> /\ retQ = <<>>
  BY LiveFinite DEF AllDone, RunInv, CountInv
<1>2. phase = "create" => Live = {}
  BY DEF RunInv, ComingInv, CountInv
<1>3. QED
  BY <1>1, <1>2 DEF PhaseStep, RunInv, CountInv, Ended

\* What does nothing to the batches keeps the invariant.
LEMMA IdleKeeps ==
  ASSUME RunInv, PhaseStep, Idle
  PROVE  Kept
<1>1. UNCHANGED <<places, listing, retQ, coming>> /\ dead' \subseteq dead
  BY DEF Idle
<1>2. PlaceInv' /\ Live' = Live
  BY <1>1, PlacesStay DEF RunInv
<1>3. RunTypes'
  BY <1>1 DEF RunInv, RunTypes, listing, IsSeq, DirLine, DirInfo
<1>4. ComingInv'
  BY <1>1 DEF RunInv, ComingInv, listing, PhaseStep
<1>5. CountInv'
  BY <1>1, <1>2, EndStep DEF RunInv, CountInv, listing
<1>6. DataInv'
  BY <1>1, <1>2 DEF RunInv, DataInv, listing, places, Entries, Results, Deduped
<1>7. QED
  BY <1>2, <1>3, <1>4, <1>5, <1>6 DEF Kept

\* So does what moves a batch from place to place,
LEMMA MovesKeep ==
  ASSUME RunInv, PhaseStep, Moves
  PROVE  Kept
<1>1. PICK t \in Threads : Take(t) \/ (Complete(t) /\ Deduped(hand[t]))
  BY DEF Moves
<1>2. UNCHANGED <<phase, inline, listing, retQ, coming, dead>>
  BY DEF Moves, quiet, listing, cfgVars, printVars
<1>3. /\ PlaceInv' /\ Live' = Live
      /\ \A j \in DOMAIN completed' : Deduped(completed'[j])
  <2>1. CASE Take(t)
    <3>1. completed' = completed
      BY <2>1 DEF Take
    <3>2. QED
      BY <1>2, <2>1, <3>1, TakeMoves DEF RunInv, DataInv
  <2>2. CASE Complete(t) /\ Deduped(hand[t])
    BY <1>2, <2>2, CompleteMoves DEF RunInv, DataInv
  <2>3. QED
    BY <1>1, <2>1, <2>2
<1>4. RunTypes'
  BY <1>2 DEF RunInv, RunTypes, listing, IsSeq, DirLine, DirInfo
<1>5. ComingInv'
  BY <1>2 DEF RunInv, ComingInv, listing
<1>6. CountInv'
  BY <1>2, <1>3, EndStep DEF RunInv, CountInv, listing
<1>7. DataInv'
  BY <1>2, <1>3 DEF RunInv, DataInv, listing, Entries, Results, Deduped
<1>8. QED
  BY <1>3, <1>4, <1>5, <1>6, <1>7 DEF Kept

\* the row of a target that is a file,
LEMMA SeedKeeps ==
  ASSUME RunInv, PhaseStep, Seed
  PROVE  Kept
<1>1. /\ UNCHANGED <<places, input, tp, visited, dirLines, lost, printed, retQ, coming, dead>>
      /\ tasks' = input.single /\ state' = [state EXCEPT !.files = Len(input.single)]
      /\ phase = "seed" /\ phase' = "create"
  BY DEF Seed, Phase, places, tpVars, threadVars, cfgVars, printVars
<1>2. PlaceInv' /\ Live' = Live
  BY <1>1, PlacesStay DEF RunInv
<1>3. RunTypes'
  <2>1. input.single \in Seq(Entry)
    BY InputAssumption DEF RunInv, RunTypes
  <2>2. Len(input.single) \in Nat
    BY <2>1, LenProperties
  <2>3. state' \in [dirs : Nat, files : Nat, dequeued : Nat, hasError : BOOLEAN, pendingBatches : Int]
    BY <1>1, <2>2 DEF RunInv, RunTypes
  <2>4. QED
    BY <1>1, <2>1, <2>3 DEF RunInv, RunTypes, IsSeq, DirLine, DirInfo
<1>4. ComingInv'
  BY <1>1 DEF RunInv, ComingInv
<1>5. CountInv'
  <2>1. state'.pendingBatches = state.pendingBatches
    BY <1>1 DEF RunInv, RunTypes
  <2>2. QED
    BY <1>1, <1>2, <2>1 DEF RunInv, CountInv, Ended
<1>6. DataInv'
  BY <1>1, <1>2 DEF RunInv, DataInv, places, Entries, Results, Deduped
<1>7. QED
  BY <1>2, <1>3, <1>4, <1>5, <1>6 DEF Kept

\* A row more is a sequence still.
LEMMA OneMore ==
  ASSUME NEW s, IsSeq(s), NEW x
  PROVE  /\ IsSeq(Append(s, x)) /\ Len(s) \in Nat /\ DOMAIN s = 1 .. Len(s)
         /\ Len(Append(s, x)) = Len(s) + 1 /\ DOMAIN Append(s, x) = 1 .. Len(s) + 1
         /\ Append(s, x)[Len(s) + 1] = x
         /\ \A k \in 1 .. Len(s) : Append(s, x)[k] = s[k]
<1>1. PICK S : S = Range(s) \cup {x}
  OBVIOUS
<1>2. s \in Seq(Range(s)) /\ Range(s) \subseteq S
  BY <1>1 DEF IsSeq
<1>3. s \in Seq(S) /\ x \in S
  BY <1>1, <1>2, SeqMonotonic
<1>4. Len(s) \in Nat /\ DOMAIN s = 1 .. Len(s)
  BY <1>3, LenProperties
<1>5. PICK a : a = Append(s, x)
  OBVIOUS
<1>6. /\ a \in Seq(S) /\ Len(a) = Len(s) + 1
      /\ \A k \in 1 .. Len(s) : a[k] = s[k]
      /\ a[Len(s) + 1] = x
  BY <1>3, <1>5, AppendProperties
<1>7. DOMAIN a = 1 .. Len(s) + 1
  BY <1>4, <1>6, LenProperties
<1>8. \A k \in 1 .. Len(a) : a[k] \in Range(a)
  BY <1>6, <1>7 DEF Range
<1>9. a \in Seq(Range(a))
  <2>1. PICK n \in Nat : n = Len(a)
    BY <1>4, <1>6
  <2>2. a = [k \in 1 .. n |-> a[k]]
    BY <1>6, <2>1, LenProperties
  <2>3. QED
    BY <1>8, <2>1, <2>2
<1>10. QED
  BY <1>4, <1>5, <1>6, <1>7, <1>9 DEF IsSeq

\* and the writer.
LEMMA PrintRowKeeps ==
  ASSUME RunInv, PhaseStep, PrintRow
  PROVE  Kept
<1>1. /\ UNCHANGED <<places, input, tp, visited, dirLines, lost, state, retQ, coming, dead, phase>>
      /\ tasks # <<>> /\ tasks' = Tail(tasks)
      /\ \E x : x.entry = Head(tasks) /\ printed' = Append(printed, x)
  <2>1. /\ UNCHANGED <<places, input, tp, visited, dirLines, lost, state, retQ, coming, dead, phase>>
        /\ tasks # <<>> /\ tasks' = Tail(tasks)
    BY DEF PrintRow, places, tpVars, threadVars, cfgVars, mainVars
  <2>2. \E x : x.entry = Head(tasks) /\ printed' = Append(printed, x)
    BY DEF PrintRow
  <2>3. QED
    BY <2>1, <2>2
<1>2. PlaceInv' /\ Live' = Live
  BY <1>1, PlacesStay DEF RunInv
<1>3. RunTypes'
  <2>1. tasks \in Seq(Entry)
    BY DEF RunInv, RunTypes
  <2>2. Head(tasks) \in Entry /\ Tail(tasks) \in Seq(Entry)
    BY <1>1, <2>1, HeadTailProperties
  <2>3. PICK x : x.entry = Head(tasks) /\ printed' = Append(printed, x)
    BY <1>1
  <2>4. IsSeq(printed) /\ \A k \in DOMAIN printed : printed[k].entry \in Entry
    BY DEF RunInv, RunTypes
  <2>5. /\ IsSeq(printed') /\ DOMAIN printed' = 1 .. Len(printed) + 1 /\ DOMAIN printed = 1 .. Len(printed)
        /\ printed'[Len(printed) + 1] = x /\ \A k \in 1 .. Len(printed) : printed'[k] = printed[k]
        /\ Len(printed) \in Nat
    BY <2>3, <2>4, OneMore
  <2>6. \A k \in DOMAIN printed' : k = Len(printed) + 1 \/ k \in DOMAIN printed
    BY <2>5
  <2>7. \A k \in DOMAIN printed' : printed'[k].entry \in Entry
    BY <2>2, <2>3, <2>4, <2>5, <2>6
  <2>8. QED
    BY <1>1, <2>2, <2>5, <2>7 DEF RunInv, RunTypes, IsSeq, DirLine, DirInfo
<1>4. ComingInv'
  BY <1>1 DEF RunInv, ComingInv
<1>5. CountInv'
  BY <1>1, <1>2, EndStep DEF RunInv, CountInv
<1>6. DataInv'
  BY <1>1, <1>2 DEF RunInv, DataInv, places, Entries, Results, Deduped
<1>7. QED
  BY <1>2, <1>3, <1>4, <1>5, <1>6 DEF Kept

\* A sequence that is not empty is its head and its tail.
LEMMA OneLess ==
  ASSUME NEW s, IsSeq(s), s # <<>>
  PROVE  /\ IsSeq(Tail(s)) /\ Len(s) \in Nat /\ DOMAIN s = 1 .. Len(s) /\ 1 \in DOMAIN s
         /\ Len(Tail(s)) = Len(s) - 1 /\ DOMAIN Tail(s) = 1 .. Len(s) - 1 /\ Head(s) = s[1]
         /\ \A k \in 1 .. Len(s) - 1 : Tail(s)[k] = s[k + 1]
<1>1. PICK S : S = Range(s)
  OBVIOUS
<1>2. s \in Seq(S)
  BY <1>1 DEF IsSeq
<1>3. PICK n \in Nat : n = Len(s) /\ DOMAIN s = 1 .. n
  BY <1>2, LenProperties
<1>4. n # 0
  BY <1>2, <1>3, EmptySeq
<1>5. PICK a : a = Tail(s)
  OBVIOUS
<1>6. /\ a \in Seq(S) /\ Len(a) = n - 1 /\ Head(s) = s[1]
      /\ \A k \in 1 .. n - 1 : a[k] = s[k + 1]
  BY <1>2, <1>3, <1>4, <1>5
<1>7. PICK m \in Nat : m = n - 1
  BY <1>4
<1>8. DOMAIN a = 1 .. m
  BY <1>6, <1>7, LenProperties
<1>9. a = [k \in 1 .. m |-> a[k]]
  BY <1>6, <1>7, <1>8, LenProperties
<1>10. \A k \in 1 .. m : a[k] \in Range(a)
  BY <1>8 DEF Range
<1>11. a \in Seq(Range(a))
  BY <1>9, <1>10
<1>12. 1 \in 1 .. n
  BY <1>4
<1>13. QED
  BY <1>3, <1>5, <1>6, <1>7, <1>8, <1>11, <1>12 DEF IsSeq

\* So does a batch that arrives,
LEMMA ArriveKeeps ==
  ASSUME RunInv, PhaseStep, Arrive
  PROVE  Kept
<1>1. /\ UNCHANGED <<places, listing, dead, phase>>
      /\ coming # <<>> /\ phase # "seed"
      /\ retQ' = Append(retQ, Head(coming)) /\ coming' = Tail(coming)
  BY DEF Arrive, places, listing, tpVars, threadVars, cfgVars, printVars
<1>2. PlaceInv' /\ Live' = Live
  BY <1>1, PlacesStay DEF RunInv
<1>3. IsSeq(retQ) /\ IsSeq(coming) /\ tp \in Seq(BatchData)
  BY DEF RunInv, RunTypes
<1>4. PICK r \in Nat, c \in Nat, m \in Nat : r = Len(retQ) /\ c = Len(coming) /\ m = Len(tp)
  BY <1>1, <1>3, OneLess, OneMore, LenProperties
<1>5. /\ IsSeq(retQ') /\ Len(retQ') = r + 1 /\ DOMAIN retQ' = 1 .. r + 1 /\ DOMAIN retQ = 1 .. r
      /\ retQ'[r + 1] = Head(coming) /\ \A k \in 1 .. r : retQ'[k] = retQ[k]
  BY <1>1, <1>3, <1>4, OneMore
<1>6. /\ IsSeq(coming') /\ Len(coming') = c - 1 /\ DOMAIN coming' = 1 .. c - 1
      /\ DOMAIN coming = 1 .. c /\ 1 \in 1 .. c
      /\ Head(coming) = coming[1] /\ \A k \in 1 .. c - 1 : coming'[k] = coming[k + 1]
  BY <1>1, <1>3, <1>4, OneLess
<1>7. RunTypes'
  BY <1>1, <1>5, <1>6 DEF RunInv, RunTypes, listing, IsSeq, DirLine, DirInfo
<1>8. ComingInv'
  <2>1. /\ m + r + c = Len(input.batches)
        /\ \A k \in 1 .. r : retQ[k] = BatchPayload(input.batches[m + k])
        /\ \A k \in 1 .. c : coming[k] = BatchPayload(input.batches[m + r + k])
    BY <1>4, <1>5, <1>6 DEF RunInv, ComingInv
  <2>2. \A k \in 1 .. r + 1 : k = r + 1 \/ k \in 1 .. r
    OBVIOUS
  <2>3. m + r + 1 = m + (r + 1)
    OBVIOUS
  <2>4. retQ'[r + 1] = BatchPayload(input.batches[m + (r + 1)])
    BY <1>5, <1>6, <2>1, <2>3
  <2>5. \A k \in 1 .. r + 1 : retQ'[k] = BatchPayload(input.batches[m + k])
    BY <1>5, <2>1, <2>2, <2>4
  <2>6. \A k \in 1 .. c - 1 : k + 1 \in 1 .. c /\ m + r + (k + 1) = m + (r + 1) + k
    OBVIOUS
  <2>7. \A k \in 1 .. c - 1 : coming'[k] = BatchPayload(input.batches[m + (r + 1) + k])
    <3>1. SUFFICES ASSUME NEW k \in 1 .. c - 1
                   PROVE  coming'[k] = BatchPayload(input.batches[m + (r + 1) + k])
      OBVIOUS
    <3>2. coming'[k] = coming[k + 1] /\ coming[k + 1] = BatchPayload(input.batches[m + r + (k + 1)])
      BY <1>6, <2>1, <2>6
    <3>3. m + r + (k + 1) = m + (r + 1) + k
      BY <2>6
    <3>4. QED
      BY <3>2, <3>3
  <2>8. m + (r + 1) + (c - 1) = Len(input.batches)
    BY <2>1
  <2>9. input' = input /\ tp' = tp /\ Len(tp') = m
    BY <1>1, <1>4 DEF listing
  <2>10. phase' # "seed" /\ (phase' \in {"seed", "create"} => tp' = <<>>)
    BY <1>1, <2>9 DEF RunInv, ComingInv
  <2>11. QED
    BY <1>5, <1>6, <2>5, <2>7, <2>8, <2>9, <2>10 DEF ComingInv
<1>9. CountInv'
  <2>1. phase' \in {"final", "flush", "destroy"} => FALSE
    BY <1>1, EndStep
  <2>2. phase' \in Ended => Live = {} /\ born' # NumThreads
    BY <1>1, EndStep
  <2>3. QED
    BY <1>1, <1>2, <2>1, <2>2 DEF RunInv, CountInv, listing
<1>10. DataInv'
  BY <1>1, <1>2 DEF RunInv, DataInv, listing, places, Entries, Results, Deduped
<1>11. QED
  BY <1>2, <1>7, <1>8, <1>9, <1>10 DEF Kept

\* What a new batch is to the batches.
Hatch(b) ==
  /\ b = Len(tp) + 1 /\ b \in DOMAIN input.batches /\ b \in Batch /\ b \notin Live
  /\ input.batches[b] \in Seq(Entry)
  /\ tp' = Append(tp, [entries |-> input.batches[b], results |-> <<>>])
  /\ state' = Pending(1)
  /\ Live' = Live \cup {b}
  /\ UNCHANGED <<input, coming, visited, dead, lost, dirLines, tasks, printed, completed>>
  /\ retQ # <<>> /\ retQ' = Tail(retQ)
  /\ phase = "recv"

\* A batch that is taken from a return queue parses, and is a new live batch.
LEMMA HandleIsHatch ==
  ASSUME RunInv, HandleBatch
  PROVE  PlaceInv' /\ \E b : Hatch(b)
<1>1. PICK b : b = Len(tp) + 1
  OBVIOUS
<1>2. /\ phase = "recv" /\ retQ # <<>> /\ retQ' = Tail(retQ)
      /\ UNCHANGED <<input, coming, visited, dead, lost, dirLines, tasks, printed>>
  BY DEF HandleBatch, cfgVars, printVars
<1>3. /\ b \in DOMAIN input.batches /\ b \in Batch /\ input.batches[b] \in Seq(Entry)
      /\ ParseBatch(Head(retQ)).ok /\ ParseBatch(Head(retQ)).seq = input.batches[b]
  BY <1>1, <1>2, NextBatch DEF RunInv
<1>4. /\ tp' = Append(tp, [entries |-> input.batches[b], results |-> <<>>])
      /\ state' = Pending(1)
      /\ \/ Submit(b) /\ inline' = inline
         \/ Refuse /\ inline' = b
  BY <1>1, <1>3 DEF HandleBatch
<1>5. b \notin Live
  <2>1. Len(tp) \in Nat /\ DOMAIN tp = 1 .. Len(tp)
    BY LenProperties DEF RunInv, RunTypes
  <2>2. b \notin DOMAIN tp
    BY <1>1, <2>1
  <2>3. QED
    BY <2>2 DEF RunInv, CountInv
<1>6. PlaceInv' /\ Live' = Live \cup {b} /\ completed' = completed
  <2>1. CASE Submit(b) /\ inline' = inline
    BY <1>3, <1>5, <2>1, SubmitAdds DEF RunInv
  <2>2. CASE Refuse /\ inline' = b
    <3>1. UNCHANGED tpVars /\ inline = NoBatch
      BY <1>2, <2>2 DEF Refuse, RunInv, PhaseInv
    <3>2. QED
      BY <1>3, <1>5, <2>2, <3>1, InlineAdds DEF RunInv
  <2>3. QED
    BY <1>4, <2>1, <2>2
<1>7. QED
  BY <1>1, <1>2, <1>3, <1>4, <1>5, <1>6 DEF Hatch

\* The batches after a new one.
LEMMA HatchIs ==
  ASSUME RunTypes, NEW b, Hatch(b)
  PROVE  /\ tp' \in Seq(BatchData) /\ Len(tp') = Len(tp) + 1 /\ DOMAIN tp' = DOMAIN tp \cup {b}
         /\ Len(tp) \in Nat /\ DOMAIN tp = 1 .. Len(tp) /\ b \notin DOMAIN tp
         /\ \A c \in DOMAIN tp : tp'[c] = tp[c]
         /\ Entries(b)' = input.batches[b] /\ Results(b)' = <<>>
<1>1. tp \in Seq(BatchData)
  BY DEF RunTypes
<1>2. PICK m \in Nat : m = Len(tp) /\ DOMAIN tp = 1 .. m /\ b = m + 1
  BY <1>1, LenProperties DEF Hatch
<1>3. PICK x \in BatchData : x = [entries |-> input.batches[b], results |-> <<>>]
  <2>1. input.batches[b] \in Seq(Entry)
    BY DEF Hatch
  <2>2. <<>> \in Seq(SUBSET {"duplicate", "blacklisted"})
    BY EmptySeq
  <2>3. QED
    BY <2>1, <2>2 DEF BatchData
<1>4. tp' = Append(tp, x)
  BY <1>3 DEF Hatch
<1>5. /\ tp' \in Seq(BatchData) /\ Len(tp') = m + 1 /\ tp'[m + 1] = x
      /\ \A c \in 1 .. m : tp'[c] = tp[c]
  BY <1>1, <1>2, <1>4, AppendProperties
<1>6. DOMAIN tp' = 1 .. m + 1
  BY <1>5, LenProperties
<1>7. QED
  BY <1>2, <1>3, <1>5, <1>6 DEF Entries, Results

\* So does a batch that is taken up.
LEMMA HandleBatchKeeps ==
  ASSUME RunInv, PhaseStep, HandleBatch
  PROVE  Kept
<1>1. PlaceInv' /\ \E b : Hatch(b)
  BY HandleIsHatch
<1>2. PICK b : Hatch(b)
  BY <1>1
<1>3. /\ tp' \in Seq(BatchData) /\ Len(tp') = Len(tp) + 1 /\ DOMAIN tp' = DOMAIN tp \cup {b}
      /\ Len(tp) \in Nat /\ DOMAIN tp = 1 .. Len(tp) /\ b \notin DOMAIN tp
      /\ \A c \in DOMAIN tp : tp'[c] = tp[c]
      /\ Entries(b)' = input.batches[b] /\ Results(b)' = <<>>
  BY <1>2, HatchIs DEF RunInv
<1>4. IsSeq(retQ) /\ IsSeq(coming) /\ retQ # <<>> /\ retQ' = Tail(retQ)
  BY <1>2 DEF RunInv, RunTypes, Hatch
<1>5. PICK r \in Nat, c \in Nat, m \in Nat : r = Len(retQ) /\ c = Len(coming) /\ m = Len(tp)
  BY <1>3, <1>4, OneLess, OneMore
<1>6. /\ IsSeq(retQ') /\ Len(retQ') = r - 1 /\ DOMAIN retQ' = 1 .. r - 1
      /\ DOMAIN retQ = 1 .. r /\ 1 \in 1 .. r
      /\ \A k \in 1 .. r - 1 : retQ'[k] = retQ[k + 1]
  BY <1>4, <1>5, OneLess
<1>7. /\ UNCHANGED <<input, coming, dead, dirLines, tasks, printed, completed>>
      /\ state' = [state EXCEPT !.pendingBatches = @ + 1] /\ Live' = Live \cup {b} /\ b \notin Live
  BY <1>2 DEF Hatch, Pending
<1>8. state' \in [dirs : Nat, files : Nat, dequeued : Nat, hasError : BOOLEAN, pendingBatches : Int]
      /\ state'.pendingBatches = state.pendingBatches + 1
  BY <1>7, SMTT(30) DEF RunInv, RunTypes
<1>9. RunTypes'
  BY <1>3, <1>6, <1>7, <1>8 DEF RunInv, RunTypes, IsSeq, DirLine, DirInfo
<1>10. phase' \in {"recv", "inline"}
  BY <1>2 DEF HandleBatch, Hatch
<1>11. ComingInv'
  <2>1. /\ m + r + c = Len(input.batches)
        /\ \A k \in 1 .. r : retQ[k] = BatchPayload(input.batches[m + k])
        /\ \A k \in DOMAIN coming : coming[k] = BatchPayload(input.batches[m + r + k])
    BY <1>5, <1>6 DEF RunInv, ComingInv
  <2>2. \A k \in 1 .. r - 1 : k + 1 \in 1 .. r /\ m + (k + 1) = (m + 1) + k
    OBVIOUS
  <2>3. \A k \in 1 .. r - 1 : retQ'[k] = BatchPayload(input.batches[(m + 1) + k])
    <3>1. SUFFICES ASSUME NEW k \in 1 .. r - 1
                   PROVE  retQ'[k] = BatchPayload(input.batches[(m + 1) + k])
      OBVIOUS
    <3>2. retQ'[k] = retQ[k + 1] /\ retQ[k + 1] = BatchPayload(input.batches[m + (k + 1)])
      BY <1>6, <2>1, <2>2
    <3>3. m + (k + 1) = (m + 1) + k
      BY <2>2
    <3>4. QED
      BY <3>2, <3>3
  <2>4. (m + 1) + (r - 1) = m + r
    OBVIOUS
  <2>5. \A k \in DOMAIN coming : coming[k] = BatchPayload(input.batches[(m + 1) + (r - 1) + k])
    BY <2>1, <2>4
  <2>6. (m + 1) + (r - 1) + c = Len(input.batches)
    BY <2>1
  <2>7. Len(tp') = m + 1 /\ Len(retQ') = r - 1 /\ Len(coming') = c /\ input' = input
    BY <1>3, <1>5, <1>6, <1>7
  <2>8. QED
    BY <1>6, <1>7, <1>10, <2>3, <2>5, <2>6, <2>7 DEF ComingInv
<1>12. CountInv'
  <2>1. Cardinality(Live') = Cardinality(Live) + 1
    BY <1>7, LiveFinite, FS_AddElement DEF RunInv
  <2>2. Live' \subseteq DOMAIN tp'
    BY <1>3, <1>7 DEF RunInv, CountInv
  <2>3. QED
    BY <1>8, <1>10, <2>1, <2>2 DEF RunInv, CountInv, Ended
<1>13. DataInv'
  <2>1. \A c1 \in Live : c1 \in DOMAIN tp
    BY DEF RunInv, CountInv
  <2>2. \A c1 \in DOMAIN tp : Entries(c1)' = Entries(c1) /\ Results(c1)' = Results(c1)
    BY <1>3 DEF Entries, Results
  <2>3. \A k \in DOMAIN completed : completed[k] \in Live
    BY LiveIs, PlaceTypes DEF RunInv, IInv
  <2>4. Len(<<>>) = 0 /\ Len(input.batches[b]) \in Nat
    BY <1>2, EmptySeq, LenProperties DEF Hatch
  <2>5. \A c1 \in Live' : Entries(c1)' = input'.batches[c1] /\ Len(Results(c1)') <= Len(Entries(c1)')
    BY <1>3, <1>7, <2>1, <2>2, <2>4 DEF RunInv, DataInv
  <2>6. \A c1 \in DOMAIN tp' : c1 \notin Live' => tp'[c1] = NoBatchData
    BY <1>3, <1>7 DEF RunInv, DataInv
  <2>7. \A c1 \in Live : Deduped(c1) => Len(tp'[c1].results) = Len(tp'[c1].entries)
    BY <1>3, <2>1 DEF Deduped, Entries, Results
  <2>8. \A k \in DOMAIN completed' : Len(tp'[completed'[k]].results) = Len(tp'[completed'[k]].entries)
    BY <1>7, <2>3, <2>7 DEF RunInv, DataInv
  <2>9. QED
    BY <2>5, <2>6, <2>8 DEF DataInv, Deduped, Entries, Results
<1>14. QED
  BY <1>1, <1>9, <1>11, <1>12, <1>13 DEF Kept

-----------------------------------------------------------------------------
(* A batch is looked up, and processed. *)

\* Only a live batch is looked up, whose entries are those of its payload.
LEMMA LookupIsLive ==
  ASSUME RunInv, NEW b, Lookup(b)
  PROVE  /\ b \in Live /\ b \in DOMAIN tp /\ \A j \in DOMAIN completed : completed[j] # b
         /\ Entries(b) = input.batches[b] /\ Len(Results(b)) <= Len(Entries(b))
         /\ UNCHANGED <<places, input, dead, coming, retQ, state, lost, dirLines, tasks, printed, phase>>
<1>1. b # NoBatch /\ (b = inline \/ \E t \in Threads : b = hand[t])
  BY DEF Lookup
<1>2. DOMAIN hand = Threads
  BY PlaceTypes DEF RunInv, IInv
<1>3. b \in Live
  BY <1>1, <1>2, LiveIs
<1>4. \A j \in DOMAIN completed : completed[j] # b
  <2>1. CASE b = inline
    BY <1>1, <2>1 DEF RunInv, PlaceInv, Range
  <2>2. CASE \E t \in Threads : b = hand[t]
    BY <2>2 DEF RunInv, PlaceInv
  <2>3. QED
    BY <1>1, <2>1, <2>2
<1>5. UNCHANGED <<places, input, dead, coming, retQ, state, lost, dirLines, tasks, printed, phase>>
  BY DEF Lookup, Dedup, places, tpVars, threadVars, cfgVars, printVars
<1>6. QED
  BY <1>3, <1>4, <1>5 DEF RunInv, CountInv, DataInv

\* A look-up keeps the invariant.
LEMMA LookupKeeps ==
  ASSUME RunInv, PhaseStep, NEW b, Lookup(b)
  PROVE  Kept
<1>1. /\ b \in Live /\ b \in DOMAIN tp /\ \A j \in DOMAIN completed : completed[j] # b
      /\ Entries(b) = input.batches[b] /\ Len(Results(b)) <= Len(Entries(b))
      /\ UNCHANGED <<places, input, dead, coming, retQ, state, lost, dirLines, tasks, printed, phase>>
  BY LookupIsLive
<1>2. PlaceInv' /\ Live' = Live
  BY <1>1, PlacesStay DEF RunInv
<1>3. PICK rest \in Seq(Result) :
        /\ tp' = [tp EXCEPT ![b].results = @ \o rest]
        /\ PassedOver(b, rest) \/ LookedUp(b, rest)
  BY <1>1, DedupIs DEF Lookup, RunInv
<1>4. /\ tp' \in Seq(BatchData) /\ Len(tp') = Len(tp) /\ DOMAIN tp' = DOMAIN tp
      /\ \A c \in DOMAIN tp : c # b => tp'[c] = tp[c]
      /\ Entries(b)' = Entries(b)
      /\ Len(Results(b)') = Len(Results(b)) + Len(rest)
  BY <1>1, <1>3, MoreResults DEF RunInv
<1>5. Len(Results(b)) + Len(rest) <= Len(Entries(b))
  <2>1. PICK n \in Nat, r \in Nat : n = Len(Entries(b)) /\ r = Len(Results(b)) /\ DOMAIN Entries(b) = 1 .. n
    BY <1>1, BatchIs DEF RunInv
  <2>2. r + 1 \in 1 .. n
    BY <1>1, <2>1, DedupIs DEF Lookup, RunInv, NextPlace
  <2>3. PICK m \in Nat : m = Len(rest)
    BY LenProperties
  <2>4. m = n - r \/ m = 1
    BY <1>3, <2>1, <2>3 DEF PassedOver, LookedUp
  <2>5. r + m <= n
    BY <2>2, <2>4
  <2>6. QED
    BY <2>1, <2>3, <2>5
<1>6. RunTypes'
  BY <1>1, <1>4 DEF RunInv, RunTypes, IsSeq, DirLine, DirInfo
<1>7. ComingInv'
  <2>1. phase \notin {"seed", "create"}
    BY <1>1 DEF RunInv, ComingInv
  <2>2. QED
    BY <1>1, <1>4, <2>1 DEF RunInv, ComingInv
<1>8. CountInv'
  BY <1>1, <1>2, <1>4, EndStep DEF RunInv, CountInv
<1>9. DataInv'
  <2>1. \A c \in Live : c \in DOMAIN tp
    BY DEF RunInv, CountInv
  <2>2. \A c \in DOMAIN tp : c # b => Entries(c)' = Entries(c) /\ Results(c)' = Results(c)
    BY <1>4 DEF Entries, Results
  <2>3. \A c \in Live' : Entries(c)' = input'.batches[c] /\ Len(Results(c)') <= Len(Entries(c)')
    BY <1>1, <1>2, <1>4, <1>5, <2>1, <2>2 DEF RunInv, DataInv
  <2>4. \A c \in DOMAIN tp' : c \notin Live' => tp'[c] = NoBatchData
    BY <1>1, <1>2, <1>4 DEF RunInv, DataInv
  <2>5. \A k \in DOMAIN completed : completed[k] \in Live
    BY LiveIs, PlaceTypes DEF RunInv, IInv
  <2>6. \A k \in DOMAIN completed' : Len(tp'[completed'[k]].results) = Len(tp'[completed'[k]].entries)
    <3>1. completed' = completed
      BY <1>1 DEF places
    <3>2. \A k \in DOMAIN completed : tp'[completed[k]] = tp[completed[k]]
      BY <1>1, <1>4, <2>1, <2>5
    <3>3. QED
      BY <3>1, <3>2 DEF RunInv, DataInv, Deduped, Entries, Results
  <2>7. QED
    BY <2>3, <2>4, <2>6 DEF DataInv, Deduped, Entries, Results
<1>10. QED
  BY <1>2, <1>6, <1>7, <1>8, <1>9 DEF Kept

-----------------------------------------------------------------------------
\* What main makes of a batch of which all is known: the new directories that
\* are not lost, and the new files.
Deals(b, dirs) ==
  /\ tasks' = tasks \o At(b, (Fresh(b) \ DirsOf(b)) \cup IF input.includeDir THEN dirs ELSE {})
  /\ dirLines' = dirLines \o Named(At(b, dirs))
  /\ lost' = lost \cup {Entries(b)[k].path : k \in DirsOf(b) \ dirs}
  /\ state' \in [dirs : Nat, files : Nat, dequeued : Nat, hasError : BOOLEAN, pendingBatches : Int]
  /\ state'.pendingBatches = state.pendingBatches - 1
  /\ state'.hasError <=> state.hasError \/ Skipped(b) # {}
  /\ tp' = [tp EXCEPT ![b] = NoBatchData]
  /\ UNCHANGED <<input, coming, retQ, visited, dead, printed>>

Leave(b) ==
  /\ b \in Live /\ Deduped(b)
  /\ \E dirs \in SUBSET DirsOf(b) : Deals(b, dirs)
  /\ Live' = Live \ {b}
  /\ \A j \in DOMAIN completed' : completed'[j] # b /\ \E i \in DOMAIN completed : completed'[j] = completed[i]
  /\ phase \notin {"seed", "create"}

\* process_completed_batch deals with the fresh files and with those directories
\* that do not go to the lost tasks.
LEMMA ProcessDeals ==
  ASSUME RunTypes, NEW b \in DOMAIN tp, Process(b)
  PROVE  \E dirs \in SUBSET DirsOf(b) : Deals(b, dirs)
<1> DEFINE dirs(f) == {k \in DirsOf(b) : f[k] # "lost"}
           files == Fresh(b) \ DirsOf(b)
<1>1. PICK fate \in [DirsOf(b) -> Fates] :
        /\ state' = Counted(b, files \cup dirs(fate))
        /\ tasks' = tasks \o At(b, files \cup IF input.includeDir THEN dirs(fate) ELSE {})
        /\ dirLines' = dirLines \o Named(At(b, dirs(fate)))
        /\ lost' = lost \cup {Entries(b)[k].path : k \in {d \in DirsOf(b) : fate[d] = "lost"}}
        /\ tp' = [tp EXCEPT ![b] = NoBatchData]
        /\ UNCHANGED <<cfgVars, monitorVars, coming, retQ, visited, dead, printVars>>
  BY DEF Process
<1>2. PICK D \in SUBSET DirsOf(b) : D = dirs(fate)
  OBVIOUS
<1>3. {d \in DirsOf(b) : fate[d] = "lost"} = DirsOf(b) \ D
  BY <1>2
<1>4. PICK H : H = files \cup D
  OBVIOUS
<1>5. state' = [state EXCEPT !.pendingBatches = @ - 1, !.dequeued = @ + 1,
                !.dirs = @ + Cardinality(H \cap DirsOf(b)),
                !.files = @ + Cardinality(H \ DirsOf(b)),
                !.hasError = @ \/ Skipped(b) # {}]
  BY <1>1, <1>2, <1>4 DEF Counted
<1>6. Cardinality(H \cap DirsOf(b)) \in Nat /\ Cardinality(H \ DirsOf(b)) \in Nat
  <2>1. DOMAIN Entries(b) = 1 .. Len(Entries(b)) /\ Len(Entries(b)) \in Nat
    BY BatchIs
  <2>2. IsFiniteSet(DOMAIN Entries(b))
    BY <2>1, FS_Interval
  <2>3. H \cap DirsOf(b) \subseteq DOMAIN Entries(b) /\ H \ DirsOf(b) \subseteq DOMAIN Entries(b)
    BY <1>4 DEF DirsOf, Fresh
  <2>4. QED
    BY <2>2, <2>3, FS_Subset, FS_CardinalityType
<1>7. /\ state' \in [dirs : Nat, files : Nat, dequeued : Nat, hasError : BOOLEAN, pendingBatches : Int]
      /\ state'.pendingBatches = state.pendingBatches - 1
      /\ state'.hasError <=> state.hasError \/ Skipped(b) # {}
  <2>1. PICK x \in Nat, y \in Nat : x = Cardinality(H \cap DirsOf(b)) /\ y = Cardinality(H \ DirsOf(b))
    BY <1>6
  <2>2. PICK z : z = (state.hasError \/ Skipped(b) # {})
    OBVIOUS
  <2>3. z \in BOOLEAN /\ (z <=> state.hasError \/ Skipped(b) # {})
    BY <2>2
  <2>4. state' = [state EXCEPT !.pendingBatches = @ - 1, !.dequeued = @ + 1,
                  !.dirs = @ + Cardinality(H \cap DirsOf(b)),
                  !.files = @ + Cardinality(H \ DirsOf(b)), !.hasError = z]
    BY <1>5, <2>2, Zenon
  <2>5. state \in [dirs : Nat, files : Nat, dequeued : Nat, hasError : BOOLEAN, pendingBatches : Int]
    BY DEF RunTypes
  <2>6. state' = [state EXCEPT !.pendingBatches = state.pendingBatches - 1, !.dequeued = state.dequeued + 1,
                  !.dirs = state.dirs + x, !.files = state.files + y, !.hasError = z]
    BY <2>1, <2>4
  <2>7. state' \in [dirs : Nat, files : Nat, dequeued : Nat, hasError : BOOLEAN, pendingBatches : Int]
    <3>1. /\ state.dirs + x \in Nat /\ state.files + y \in Nat /\ state.dequeued + 1 \in Nat
          /\ state.pendingBatches - 1 \in Int
      BY <2>1, <2>5
    <3>2. state' = [dirs |-> state.dirs + x, files |-> state.files + y, dequeued |-> state.dequeued + 1,
                    hasError |-> z, pendingBatches |-> state.pendingBatches - 1]
      BY <2>5, <2>6
    <3>3. QED
      BY <2>3, <3>1, <3>2
  <2>8. state'.pendingBatches = state.pendingBatches - 1 /\ state'.hasError = z
    BY <2>5, <2>6
  <2>9. QED
    BY <2>3, <2>7, <2>8
<1>8. Deals(b, D)
  <2>1. UNCHANGED <<input, coming, retQ, visited, dead, printed>>
    BY <1>1 DEF cfgVars, printVars
  <2>2. lost' = lost \cup {Entries(b)[k].path : k \in DirsOf(b) \ D}
    BY <1>1, <1>3
  <2>3. /\ tasks' = tasks \o At(b, files \cup IF input.includeDir THEN D ELSE {})
        /\ dirLines' = dirLines \o Named(At(b, D))
    BY <1>1, <1>2
  <2>4. QED
    BY <1>1, <1>7, <2>1, <2>2, <2>3 DEF Deals
<1>9. QED
  BY <1>8

\* A batch that is processed was live, and is so no more.
LEMMA GoesIsLeave ==
  ASSUME RunInv, InlineProcess \/ Drain
  PROVE  PlaceInv' /\ \E b : Leave(b)
<1>1. CASE InlineProcess
  <2>1. /\ inline # NoBatch /\ UNCHANGED tpVars /\ inline' = NoBatch /\ phase = "inline"
        /\ Deduped(inline) /\ Process(inline)
    BY <1>1 DEF InlineProcess, Phase, RunInv, PhaseInv
  <2>2. PlaceInv' /\ inline \in Live /\ Live' = Live \ {inline} /\ completed' = completed
    BY <2>1, InlineGoes DEF RunInv
  <2>3. inline \in DOMAIN tp
    BY <2>2 DEF RunInv, CountInv
  <2>4. \E dirs \in SUBSET DirsOf(inline) : Deals(inline, dirs)
    BY <2>1, <2>3, ProcessDeals DEF RunInv
  <2>5. \A j \in DOMAIN completed : completed[j] # inline
    BY <2>1 DEF RunInv, PlaceInv, Range
  <2>6. PICK b : b = inline
    OBVIOUS
  <2>7. Leave(b)
    BY <2>1, <2>2, <2>4, <2>5, <2>6 DEF Leave
  <2>8. QED
    BY <2>2, <2>7
<1>2. CASE Drain
  <2>1. Poll /\ inline' = inline /\ phase \in {"drain", "redrain", "final"}
    BY <1>2 DEF Drain
  <2>2. PICK b : b = Head(completed)
    OBVIOUS
  <2>3. Process(b)
    BY <1>2, <2>2 DEF Drain
  <2>4. /\ PlaceInv' /\ b \in Live /\ Live' = Live \ {b} /\ 1 \in DOMAIN completed /\ b = completed[1]
        /\ \A j \in DOMAIN completed' : j + 1 \in DOMAIN completed /\ completed'[j] = completed[j + 1]
    BY <2>1, <2>2, PollTakes DEF RunInv
  <2>5. Deduped(b)
    BY <2>4 DEF RunInv, DataInv
  <2>6. b \in DOMAIN tp
    BY <2>4 DEF RunInv, CountInv
  <2>7. \E dirs \in SUBSET DirsOf(b) : Deals(b, dirs)
    BY <2>3, <2>6, ProcessDeals DEF RunInv
  <2>8. \A j \in DOMAIN completed' : completed'[j] # b
    <3>1. SUFFICES ASSUME NEW j \in DOMAIN completed', completed'[j] = b PROVE FALSE
      OBVIOUS
    <3>2. j + 1 \in DOMAIN completed /\ completed[j + 1] = completed[1]
      BY <2>4, <3>1
    <3>3. j + 1 = 1
      BY <2>4, <3>2 DEF RunInv, PlaceInv
    <3>4. j \in Nat \ {0}
      <4>1. completed' \in Seq(Batch)
        BY <2>1, PlaceTypes, HeadTailProperties DEF Poll, RunInv, IInv
      <4>2. DOMAIN completed' = 1 .. Len(completed') /\ Len(completed') \in Nat
        BY <4>1, LenProperties
      <4>3. QED
        BY <4>2
    <3>5. QED
      BY <3>3, <3>4
  <2>9. Leave(b)
    BY <2>1, <2>4, <2>5, <2>7, <2>8 DEF Leave
  <2>10. QED
    BY <2>4, <2>9
<1>3. QED
  BY <1>1, <1>2

\* What --print-dir names is a sequence of lines.
LEMMA NamedType ==
  ASSUME NEW d \in Seq(Entry)
  PROVE  /\ Named(d) \in Seq(DirLine) /\ Len(Named(d)) = (IF input.printDir THEN Len(d) ELSE 0)
         /\ DOMAIN Named(d) = 1 .. Len(Named(d))
         /\ input.printDir => \A k \in DOMAIN d : Named(d)[k] = [to |-> DirInfo, path |-> d[k].path]
<1>1. PICK n \in Nat : n = Len(d) /\ DOMAIN d = 1 .. n
  BY LenProperties
<1>2. CASE ~input.printDir
  BY <1>2, EmptySeq DEF Named
<1>3. CASE input.printDir
  <2>1. PICK s : s = [k \in 1 .. n |-> [to |-> DirInfo, path |-> d[k].path]]
    OBVIOUS
  <2>2. Named(d) = s
    BY <1>1, <1>3, <2>1 DEF Named
  <2>3. \A k \in 1 .. n : d[k] \in Entry
    BY <1>1, ElementOfSeq
  <2>4. \A k \in 1 .. n : d[k].path \in Seq(STRING)
    BY <2>3 DEF Entry
  <2>5. \A k \in 1 .. n : [to |-> DirInfo, path |-> d[k].path] \in DirLine
    BY <2>4 DEF DirLine
  <2>6. s \in Seq(DirLine) /\ Len(s) = n /\ DOMAIN s = 1 .. n
    BY <2>1, <2>5
  <2>7. QED
    BY <1>1, <1>3, <2>1, <2>2, <2>6
<1>4. QED
  BY <1>2, <1>3

\* The rows and the lines that a batch leaves.
LEMMA DealsAre ==
  ASSUME RunTypes, NEW b \in DOMAIN tp, NEW dirs \in SUBSET DirsOf(b), Deals(b, dirs)
  PROVE  /\ \E add \in Seq(Entry) : \E p :
              /\ tasks' = tasks \o add
              /\ Picks(add, p, Entries(b), (Fresh(b) \ DirsOf(b)) \cup IF input.includeDir THEN dirs ELSE {})
         /\ \E ds \in Seq(Entry) : \E p :
              /\ dirLines' = dirLines \o Named(ds)
              /\ Picks(ds, p, Entries(b), dirs)
         /\ RunTypes'
<1>1. Entries(b) \in Seq(Entry)
  BY BatchIs
<1>2. PICK S : S = (Fresh(b) \ DirsOf(b)) \cup IF input.includeDir THEN dirs ELSE {}
  OBVIOUS
<1>3. S \subseteq DOMAIN Entries(b) /\ dirs \subseteq DOMAIN Entries(b)
  BY <1>2 DEF Fresh, DirsOf
<1>4. PICK V : V = Entry
  OBVIOUS
<1>5. At(b, S) \in Seq(V) /\ \E p : Picks(At(b, S), p, Entries(b), S)
  BY <1>1, <1>3, <1>4, AtPicks
<1>6. At(b, dirs) \in Seq(V) /\ \E p : Picks(At(b, dirs), p, Entries(b), dirs)
  BY <1>1, <1>3, <1>4, AtPicks
<1>7. tasks' = tasks \o At(b, S) /\ dirLines' = dirLines \o Named(At(b, dirs))
  BY <1>2 DEF Deals
<1>8. PICK add \in Seq(Entry), ds \in Seq(Entry) : add = At(b, S) /\ ds = At(b, dirs)
  BY <1>4, <1>5, <1>6
<1>9. tasks' \in Seq(Entry)
  <2>1. tasks \in Seq(Entry)
    BY DEF RunTypes
  <2>2. PICK P : P = Seq(Entry)
    OBVIOUS
  <2>3. tasks \o add \in P
    BY <2>1, <2>2, JoinedType
  <2>4. QED
    BY <1>7, <1>8, <2>2, <2>3
<1>10. dirLines' \in Seq(DirLine)
  <2>1. dirLines \in Seq(DirLine)
    BY DEF RunTypes
  <2>2. PICK P : P = Seq(DirLine)
    OBVIOUS
  <2>3. PICK u : u = Named(ds)
    OBVIOUS
  <2>4. u \in P
    BY <2>2, <2>3, NamedType
  <2>5. dirLines \o u \in P
    BY <2>1, <2>2, <2>4, JoinedType
  <2>6. QED
    BY <1>7, <1>8, <2>2, <2>3, <2>5
<1>11. tp' \in Seq(BatchData)
  <2>1. tp \in Seq(BatchData) /\ b \in 1 .. Len(tp)
    BY BatchIs DEF RunTypes
  <2>2. PICK x \in BatchData : x = NoBatchData
    <3>1. <<>> \in Seq(Entry) /\ <<>> \in Seq(SUBSET {"duplicate", "blacklisted"})
      BY EmptySeq
    <3>2. QED
      BY <3>1 DEF BatchData, NoBatchData
  <2>3. [tp EXCEPT ![b] = x] \in Seq(BatchData)
    BY <2>1, <2>2, ExceptSeq
  <2>4. QED
    BY <2>2, <2>3 DEF Deals
<1>12. /\ UNCHANGED <<input, coming, retQ, dead, printed>>
       /\ state' \in [dirs : Nat, files : Nat, dequeued : Nat, hasError : BOOLEAN, pendingBatches : Int]
  BY DEF Deals
<1>13. RunTypes'
  <2>1. (input \in Inputs)' /\ (dead \subseteq input.dead)' /\ IsSeq(retQ)' /\ IsSeq(coming)'
    BY <1>12 DEF RunTypes, IsSeq
  <2>2. IsSeq(printed)' /\ (\A k \in DOMAIN printed : printed[k].entry \in Entry)'
    BY <1>12 DEF RunTypes, IsSeq
  <2>3. (dirLines \in Seq(DirLine))'
    BY <1>10, <1>12 DEF DirLine, DirInfo
  <2>4. QED
    BY <1>9, <1>11, <1>12, <2>1, <2>2, <2>3 DEF RunTypes
<1>14. QED
  BY <1>2, <1>5, <1>6, <1>7, <1>8, <1>13

\* The end of a batch keeps the invariant.
LEMMA LeaveKeeps ==
  ASSUME RunInv, PhaseStep, PlaceInv', NEW b, Leave(b)
  PROVE  Kept
<1>1. /\ b \in Live /\ Live' = Live \ {b} /\ phase \notin {"seed", "create"}
      /\ \A j \in DOMAIN completed' : completed'[j] # b /\ \E i \in DOMAIN completed : completed'[j] = completed[i]
  BY DEF Leave
<1>2. PICK dirs \in SUBSET DirsOf(b) : Deals(b, dirs)
  BY DEF Leave
<1>3. b \in DOMAIN tp
  BY <1>1 DEF RunInv, CountInv
<1>4. RunTypes'
  BY <1>2, <1>3, DealsAre DEF RunInv
<1>5. /\ tp' = [tp EXCEPT ![b] = NoBatchData] /\ UNCHANGED <<input, coming, retQ>>
      /\ state'.pendingBatches = state.pendingBatches - 1
  BY <1>2 DEF Deals
<1>6. DOMAIN tp' = DOMAIN tp /\ Len(tp') = Len(tp) /\ tp'[b] = NoBatchData
      /\ \A c \in DOMAIN tp : c # b => tp'[c] = tp[c]
  <2>1. DOMAIN tp' = DOMAIN tp /\ tp'[b] = NoBatchData /\ \A c \in DOMAIN tp : c # b => tp'[c] = tp[c]
    BY <1>3, <1>5
  <2>2. tp \in Seq(BatchData) /\ tp' \in Seq(BatchData)
    BY <1>4 DEF RunInv, RunTypes
  <2>3. Len(tp') = Len(tp)
    BY <2>1, <2>2, LenProperties
  <2>4. QED
    BY <2>1, <2>3
<1>7. ComingInv'
  <2>1. phase' \notin {"seed", "create"}
    BY <1>1 DEF PhaseStep
  <2>2. QED
    BY <1>5, <1>6, <2>1 DEF RunInv, ComingInv
<1>8. CountInv'
  <2>1. Cardinality(Live') = Cardinality(Live) - 1
    BY <1>1, LiveFinite, FS_RemoveElement DEF RunInv
  <2>2. Live' \subseteq DOMAIN tp'
    BY <1>1, <1>6 DEF RunInv, CountInv
  <2>3. phase' \notin {"final", "flush", "destroy"} /\ phase' \notin Ended
    BY <1>1, EndStep
  <2>4. QED
    BY <1>5, <2>1, <2>2, <2>3 DEF RunInv, CountInv
<1>9. DataInv'
  <2>1. \A c \in Live' : c \in DOMAIN tp /\ c \in Live /\ c # b
    BY <1>1 DEF RunInv, CountInv
  <2>2. \A c \in Live' : Entries(c)' = Entries(c) /\ Results(c)' = Results(c)
    BY <1>6, <2>1 DEF Entries, Results
  <2>3. \A c \in Live' : Entries(c)' = input'.batches[c] /\ Len(Results(c)') <= Len(Entries(c)')
    BY <1>5, <2>1, <2>2 DEF RunInv, DataInv
  <2>4. \A c \in DOMAIN tp' : c \notin Live' => tp'[c] = NoBatchData
    BY <1>1, <1>6 DEF RunInv, DataInv
  <2>5. \A k \in DOMAIN completed : completed[k] \in Live /\ completed[k] \in DOMAIN tp
    BY LiveIs, PlaceTypes DEF RunInv, IInv, CountInv
  <2>6. \A k \in DOMAIN completed' : Len(tp'[completed'[k]].results) = Len(tp'[completed'[k]].entries)
    <3>1. SUFFICES ASSUME NEW k \in DOMAIN completed'
                   PROVE  Len(tp'[completed'[k]].results) = Len(tp'[completed'[k]].entries)
      OBVIOUS
    <3>2. PICK i \in DOMAIN completed : completed'[k] = completed[i] /\ completed[i] # b
      BY <1>1
    <3>3. tp'[completed[i]] = tp[completed[i]]
      BY <1>6, <2>5, <3>2
    <3>4. QED
      BY <3>2, <3>3 DEF RunInv, DataInv, Deduped, Entries, Results
  <2>7. QED
    BY <2>3, <2>4, <2>6 DEF DataInv, Deduped, Entries, Results
<1>10. QED
  BY <1>4, <1>7, <1>8, <1>9 DEF Kept

-----------------------------------------------------------------------------
\* The invariant holds at the start,
LEMMA InitRunInv == Init => RunInv
<1> SUFFICES ASSUME Init PROVE RunInv
  OBVIOUS
<1>1. IInv
  BY InitIInv DEF Init
<1>2. input \in Inputs /\ input.batches \in Seq(Seq(Entry))
  BY InputAssumption DEF Init
<1>3. PICK n \in Nat : n = Len(input.batches) /\ DOMAIN input.batches = 1 .. n
  BY <1>2, LenProperties
<1>4. /\ coming = [k \in 1 .. n |-> BatchPayload(input.batches[k])]
      /\ retQ = <<>> /\ tp = <<>> /\ inline = NoBatch /\ dead = input.dead /\ state = NewState
      /\ dirLines = <<>> /\ tasks = <<>> /\ printed = <<>> /\ phase = "seed"
  BY <1>3 DEF Init
<1>5. /\ owner = "creating" /\ queue = <<>> /\ completed = <<>>
      /\ hand = [t \in Threads |-> NoBatch]
  BY DEF Init, NewPool
<1>6. Live = {}
  <2>1. Range(queue) = {} /\ Range(completed) = {} /\ Range(hand) \subseteq {NoBatch}
    BY <1>5 DEF Range
  <2>2. QED
    BY <1>4, <2>1 DEF Live
<1>7. coming \in Seq(Range(coming)) /\ Len(coming) = n
  <2>1. \A k \in 1 .. n : BatchPayload(input.batches[k]) \in Range(coming)
    BY <1>4 DEF Range
  <2>2. QED
    BY <1>4, <2>1
<1>8. RunTypes
  <2>1. tp \in Seq(BatchData) /\ tasks \in Seq(Entry) /\ dirLines \in Seq(DirLine)
    BY <1>4, EmptySeq
  <2>2. state \in [dirs : Nat, files : Nat, dequeued : Nat, hasError : BOOLEAN, pendingBatches : Int]
    BY <1>4 DEF NewState
  <2>3. IsSeq(retQ) /\ IsSeq(printed) /\ IsSeq(coming)
    BY <1>4, <1>7, EmptySeq DEF IsSeq
  <2>4. \A k \in DOMAIN printed : printed[k].entry \in Entry
    BY <1>4
  <2>5. QED
    BY <1>2, <1>4, <2>1, <2>2, <2>3, <2>4 DEF RunTypes
<1>9. PhaseInv
  BY <1>4, <1>5 DEF PhaseInv, Open, Ended
<1>10. ComingInv
  <2>1. Len(retQ) = 0 /\ Len(tp) = 0
    BY <1>4
  <2>2. 0 + 0 + n = n /\ \A k \in 1 .. n : 0 + 0 + k = k
    OBVIOUS
  <2>3. \A k \in DOMAIN coming : coming[k] = BatchPayload(input.batches[0 + 0 + k])
    BY <1>4, <2>2
  <2>4. QED
    BY <1>3, <1>4, <1>7, <2>1, <2>2, <2>3 DEF ComingInv
<1>11. PlaceInv
  BY <1>4, <1>5 DEF PlaceInv, Range
<1>12. CountInv
  BY <1>4, <1>6, FS_EmptySet DEF CountInv, NewState, Ended
<1>13. DataInv
  BY <1>4, <1>5, <1>6 DEF DataInv
<1>14. QED
  BY <1>1, <1>8, <1>9, <1>10, <1>11, <1>12, <1>13 DEF RunInv

\* and every step keeps it, goes on as the phases allow, and leaves what was given
\* to the run alone.
LEMMA NextKeepsRun ==
  ASSUME RunInv, [Next]_vars
  PROVE  RunInv' /\ PhaseStep /\ Kept
<1>1. PhaseStep
  BY PhasesGo DEF RunInv
<1>2. IInv'
  <2>1. [TpNext]_tpVars
    BY StepIsPool
  <2>2. QED
    BY <2>1, NextIInv DEF RunInv
<1>3. \/ Idle \/ Arrive \/ PrintRow \/ Moves \/ Seed \/ HandleBatch
      \/ (\E b : Lookup(b)) \/ InlineProcess \/ Drain
  BY Steps DEF RunInv
<1>4. CASE InlineProcess \/ Drain
  <2>1. PlaceInv' /\ \E b : Leave(b)
    BY <1>4, GoesIsLeave
  <2>2. QED
    BY <1>1, <1>2, <2>1, LeaveKeeps DEF Kept, RunInv, PhaseStep
<1>5. CASE Idle
  BY <1>1, <1>2, <1>5, IdleKeeps DEF Kept, RunInv, PhaseStep
<1>6. CASE Arrive
  BY <1>1, <1>2, <1>6, ArriveKeeps DEF Kept, RunInv, PhaseStep
<1>7. CASE PrintRow
  BY <1>1, <1>2, <1>7, PrintRowKeeps DEF Kept, RunInv, PhaseStep
<1>8. CASE Moves
  BY <1>1, <1>2, <1>8, MovesKeep DEF Kept, RunInv, PhaseStep
<1>9. CASE Seed
  BY <1>1, <1>2, <1>9, SeedKeeps DEF Kept, RunInv, PhaseStep
<1>10. CASE HandleBatch
  BY <1>1, <1>2, <1>10, HandleBatchKeeps DEF Kept, RunInv, PhaseStep
<1>11. CASE \E b : Lookup(b)
  BY <1>1, <1>2, <1>11, LookupKeeps DEF Kept, RunInv, PhaseStep
<1>12. QED
  BY <1>3, <1>4, <1>5, <1>6, <1>7, <1>8, <1>9, <1>10, <1>11

\* In every run, whatever it is given and whatever the order of its threads, the
\* batches are what the workers sent, each of them is in one place, pending_batches
\* counts those that are not done, and the main loop ends when none is left
\* (main_loop_handle_batch, drain_completed_batches, main_loop_run).
THEOREM SpecRunInv == Spec => []RunInv
BY InitRunInv, NextKeepsRun, PTL DEF Spec

\* The main loop and its handlers use the pool as its promise asks: every run is one
\* of the pool, so that each batch that is accepted is worked on by one thread and
\* given back once (main_loop_run, thread_pool_submit_batch). That is the safety half
\* of PoolKeepsPromise; the fairness in its other half is left to TLC.
THEOREM MasterUsesPool == Spec => TpSpec /\ Pool!PoolSafeSpec
<1>1. Init => NewPool
  BY DEF Init
<1>2. Spec => TpSpec
  BY <1>1, SpecRunInv, StepIsPool, PTL DEF Spec, TpSpec
<1>3. QED
  BY <1>2, PoolImplementsWorkPool

-----------------------------------------------------------------------------
(* What is listed: the rows, and the places of batches that wait for it. *)

\* The places of all batches, and what is at one.
Spots == UNION {{b} \X DOMAIN input.batches[b] : b \in DOMAIN input.batches}
EntryAt(w) == input.batches[w[1]][w[2]]

LookedUpIn(w) == w[1] \in Live /\ w[2] \in DOMAIN Results(w[1])

\* Looked up, and neither known nor on a device that is given up: to be listed.
Waiting == {w \in Spots : LookedUpIn(w) /\ Results(w[1])[w[2]] = {}}

\* Looked up, not known, and on a device that is given up.
Refused == {w \in Spots : LookedUpIn(w) /\ Results(w[1])[w[2]] = {"blacklisted"}}

\* Looked up or passed over, in a batch that is in hand or is done.
Seen == {w \in Spots : w[1] \in DOMAIN tp /\ (w[1] \in Live => w[2] \in DOMAIN Results(w[1]))}

\* A spot is a batch of the input and a place in it.
LEMMA SpotIs ==
  /\ \A b, k : <<b, k>> \in Spots <=> b \in DOMAIN input.batches /\ k \in DOMAIN input.batches[b]
  /\ \A w \in Spots : w = <<w[1], w[2]>> /\ w[1] \in DOMAIN input.batches
                        /\ w[2] \in DOMAIN input.batches[w[1]]
BY DEF Spots

\* What is given is the single target, or what is at a spot.
LEMMA GivenIs ==
  \A e : e \in Given <=>
    e \in Range(input.single) \/ \E w \in Spots : EntryAt(w) = e
<1>1. ASSUME NEW e, e \in Given PROVE e \in Range(input.single) \/ \E w \in Spots : EntryAt(w) = e
  <2>1. CASE e \in UNION {Range(input.batches[k]) : k \in DOMAIN input.batches}
    <3>1. PICK b \in DOMAIN input.batches : e \in Range(input.batches[b])
      BY <2>1
    <3>2. PICK k \in DOMAIN input.batches[b] : e = input.batches[b][k]
      BY <3>1 DEF Range
    <3>3. <<b, k>> \in Spots /\ EntryAt(<<b, k>>) = e
      BY <3>2, SpotIs DEF EntryAt
    <3>4. QED
      BY <3>3
  <2>2. QED
    BY <1>1, <2>1 DEF Given, GivenTo
<1>2. ASSUME NEW w \in Spots PROVE EntryAt(w) \in Given
  <2>1. EntryAt(w) \in Range(input.batches[w[1]]) /\ w[1] \in DOMAIN input.batches
    BY SpotIs DEF EntryAt, Range
  <2>2. QED
    BY <2>1 DEF Given, GivenTo
<1>3. QED
  BY <1>1, <1>2 DEF Given, GivenTo

\* A place has a batch in its list, and its number.
LEMMA SpotNumbers ==
  ASSUME RunTypes
  PROVE  \A w \in Spots : w[1] \in Nat /\ w[2] \in Nat \ {0} /\ EntryAt(w) \in Entry
<1>1. input.batches \in Seq(Seq(Entry))
  BY InputAssumption DEF RunTypes
<1>2. SUFFICES ASSUME NEW w \in Spots PROVE w[1] \in Nat /\ w[2] \in Nat \ {0} /\ EntryAt(w) \in Entry
  OBVIOUS
<1>3. PICK b, k : b = w[1] /\ k = w[2] /\ b \in DOMAIN input.batches /\ k \in DOMAIN input.batches[b]
  BY SpotIs
<1>4. DOMAIN input.batches = 1 .. Len(input.batches) /\ Len(input.batches) \in Nat
  BY <1>1, LenProperties
<1>5. PICK s \in Seq(Entry) : s = input.batches[b]
  BY <1>1, <1>3, <1>4, ElementOfSeq
<1>6. DOMAIN s = 1 .. Len(s) /\ Len(s) \in Nat
  BY LenProperties
<1>7. s[k] \in Entry
  BY <1>3, <1>5, <1>6, ElementOfSeq
<1>8. QED
  BY <1>3, <1>4, <1>5, <1>6, <1>7 DEF EntryAt

\* A fingerprint tells entries apart.
LEMMA FingerprintTells ==
  ASSUME RunTypes, NEW e \in Given, NEW f \in Given,
         Fingerprint(e) = Fingerprint(f) \/ e.path = f.path
  PROVE  e = f
<1>1. e.path = f.path
  BY DEF Fingerprint
<1>2. QED
  BY <1>1, InputAssumption DEF RunTypes, Given

\* What was given at once is not in a batch.
LEMMA SingleIsAll ==
  ASSUME RunTypes, input.single # <<>>
  PROVE  Spots = {} /\ Len(input.single) = 1
<1>1. input.batches = <<>> /\ Len(input.single) = 1
  BY InputAssumption DEF RunTypes
<1>2. QED
  BY <1>1 DEF Spots

-----------------------------------------------------------------------------
(* The rows, printed and to be printed, and how they grow. *)

\* The rows, printed or not, are entries.
LEMMA RowsType ==
  ASSUME RunTypes
  PROVE  /\ Rows \in Seq(Entry) /\ [k \in DOMAIN printed |-> printed[k].entry] \in Seq(Entry)
<1>1. PICK n \in Nat : n = Len(printed) /\ DOMAIN printed = 1 .. n
  BY LenProperties DEF RunTypes, IsSeq
<1>2. PICK r : r = [k \in 1 .. n |-> printed[k].entry]
  OBVIOUS
<1>3. r \in Seq(Entry)
  BY <1>1, <1>2 DEF RunTypes
<1>4. tasks \in Seq(Entry)
  BY DEF RunTypes
<1>5. PICK P : P = Seq(Entry)
  OBVIOUS
<1>6. r \o tasks \in P
  BY <1>3, <1>4, <1>5, JoinedType
<1>7. Rows = r \o tasks
  BY <1>1, <1>2 DEF Rows
<1>8. QED
  BY <1>1, <1>2, <1>3, <1>5, <1>6, <1>7

\* What the main loop lists comes behind the rows.
LEMMA MoreRows ==
  ASSUME RunTypes, NEW add \in Seq(Entry), tasks' = tasks \o add, printed' = printed
  PROVE  Rows' = Rows \o add
<1>1. PICK r \in Seq(Entry) : r = [k \in DOMAIN printed |-> printed[k].entry]
  BY RowsType
<1>2. Rows' = r \o (tasks \o add) /\ Rows = r \o tasks
  BY <1>1 DEF Rows
<1>3. PICK P : P = Seq(Entry)
  OBVIOUS
<1>4. tasks \in P /\ r \in P /\ add \in P
  BY <1>1, <1>3 DEF RunTypes
<1>5. (r \o tasks) \o add = r \o (tasks \o add)
  BY <1>3, <1>4, Regroup
<1>6. QED
  BY <1>2, <1>5

\* The writer changes nothing of the rows.
LEMMA PrintedRows ==
  ASSUME RunTypes, PrintRow
  PROVE  Rows' = Rows
<1>1. PICK x : x.entry = Head(tasks) /\ printed' = Append(printed, x)
  BY DEF PrintRow
<1>2. tasks # <<>> /\ tasks' = Tail(tasks) /\ tasks \in Seq(Entry) /\ IsSeq(printed)
  BY DEF PrintRow, RunTypes
<1>3. PICK n \in Nat : n = Len(printed) /\ DOMAIN printed = 1 .. n
  BY <1>2, OneMore
<1>4. /\ DOMAIN printed' = 1 .. n + 1 /\ printed'[n + 1] = x
      /\ \A k \in 1 .. n : printed'[k] = printed[k]
  BY <1>1, <1>2, <1>3, OneMore
<1>5. PICK h \in Entry, t \in Seq(Entry) : h = Head(tasks) /\ t = Tail(tasks) /\ tasks = <<h>> \o t
  <2>1. Head(tasks) \in Entry /\ Tail(tasks) \in Seq(Entry)
    BY <1>2, HeadTailProperties
  <2>2. tasks = <<Head(tasks)>> \o Tail(tasks)
    BY <1>2
  <2>3. QED
    BY <2>1, <2>2
<1>6. PICK r \in Seq(Entry) : r = [k \in 1 .. n |-> printed[k].entry]
  BY <1>3, RowsType
<1>7. PICK q : q = [k \in 1 .. n + 1 |-> printed'[k].entry]
  OBVIOUS
<1>8. q = r \o <<h>>
  <2>1. Len(r) = n /\ DOMAIN r = 1 .. n
    BY <1>6
  <2>2. \A k \in 1 .. n : q[k] = r[k]
    BY <1>4, <1>6, <1>7
  <2>3. q[n + 1] = h
    BY <1>1, <1>4, <1>5, <1>7
  <2>4. r \o <<h>> = Append(r, h)
    BY <1>6
  <2>5. PICK a : a = Append(r, h)
    OBVIOUS
  <2>6. /\ a \in Seq(Entry) /\ Len(a) = n + 1 /\ a[n + 1] = h
        /\ \A k \in 1 .. n : a[k] = r[k]
    BY <1>6, <2>1, <2>5, AppendProperties
  <2>7. a = [k \in 1 .. n + 1 |-> a[k]]
    BY <2>6, LenProperties
  <2>8. \A k \in 1 .. n + 1 : k = n + 1 \/ k \in 1 .. n
    OBVIOUS
  <2>9. \A k \in 1 .. n + 1 : q[k] = a[k]
    BY <2>2, <2>3, <2>6, <2>8
  <2>10. q = [k \in 1 .. n + 1 |-> q[k]]
    BY <1>7
  <2>11. q = a
    BY <2>7, <2>9, <2>10
  <2>12. QED
    BY <2>4, <2>5, <2>11
<1>9. Rows' = q \o t /\ Rows = r \o tasks
  BY <1>2, <1>3, <1>4, <1>5, <1>6, <1>7 DEF Rows
<1>10. PICK P : P = Seq(Entry)
  OBVIOUS
<1>11. PICK one \in P : one = <<h>>
  <2>1. <<h>> \in Seq(Entry)
    BY <1>5
  <2>2. QED
    BY <1>10, <2>1
<1>12. (r \o one) \o t = r \o (one \o t)
  BY <1>6, <1>10, Regroup
<1>13. QED
  BY <1>5, <1>8, <1>9, <1>11, <1>12

\* A batch that was parsed is one of the input's.
LEMMA KnownBatch ==
  ASSUME RunTypes, ComingInv
  PROVE  DOMAIN tp \subseteq DOMAIN input.batches
<1>1. IsSeq(retQ) /\ IsSeq(coming) /\ tp \in Seq(BatchData)
  BY DEF RunTypes
<1>2. PICK r \in Nat, c \in Nat, m \in Nat :
        r = Len(retQ) /\ c = Len(coming) /\ m = Len(tp) /\ DOMAIN tp = 1 .. m
  BY <1>1, OneMore, LenProperties
<1>3. Len(input.batches) = m + r + c
  BY <1>2 DEF ComingInv
<1>4. DOMAIN input.batches = 1 .. Len(input.batches)
  BY InputAssumption, LenProperties DEF RunTypes
<1>5. QED
  BY <1>2, <1>3, <1>4

-----------------------------------------------------------------------------
(* What a step is to the list. *)

\* A run begins with Seed.
LEMMA Begins ==
  ASSUME [Next]_vars, phase = "seed"
  PROVE  phase' = "seed" \/ Seed
<1>1. CASE UNCHANGED vars
  BY <1>1 DEF vars, mainVars
<1>2. CASE \/ Arrive \/ (\E d \in dead : Recover(d)) \/ (\E id \in DOMAIN input.renamed : Rename(id))
           \/ PrintRow \/ (\E now \in clock .. clock + 2 : PrintProgress(now))
  BY <1>2 DEF Arrive, Recover, Rename, PrintRow, PrintProgress, mainVars
<1>3. CASE MainStep \/ CannotCreate
  BY <1>3 DEF MainStep, CannotCreate, Create, HandleBatch, InlineDedup, InlineProcess, RecvEnd, Drain,
              DrainEnd, AfterDrain, Event, Check, Flush, DestroyPool, JoinPool, Finalize, Phase
<1>4. ASSUME NEW t \in Threads, PoolThread(t) \/ PoolWake(t) PROVE phase' = "seed"
  BY <1>4 DEF PoolThread, PoolWake, PoolDedup, PoolComplete
<1>5. QED
  BY <1>1, <1>2, <1>3, <1>4 DEF Next

-----------------------------------------------------------------------------
(* What a step is to the list. *)

Started == phase # "seed"

\* Nothing, but that what is behind the limit is passed over.
Same ==
  /\ UNCHANGED <<input, visited, dirLines, lost>>
  /\ Rows' = Rows /\ Waiting' = Waiting /\ Refused' = Refused
  /\ state'.hasError = state.hasError
  /\ \A w \in Seen' : w \in Seen \/ w[2] > IterationLimit
  /\ Started' => Started

Starts ==
  /\ UNCHANGED <<input, visited, dirLines, lost>>
  /\ Rows = <<>> /\ Rows' = input.single
  /\ Waiting = {} /\ Refused = {}
  /\ Waiting' = {} /\ Refused' = {} /\ Seen' = {}
  /\ state'.hasError = state.hasError

\* The entry at w is looked up.
One(w) ==
  /\ UNCHANGED <<input, dirLines, lost>>
  /\ Rows' = Rows /\ state'.hasError = state.hasError
  /\ Started' => Started
  /\ w \in Spots /\ visited' = visited \cup {Fingerprint(EntryAt(w))}
  /\ Seen' \subseteq Seen \cup {w}
  /\ \/ Fingerprint(EntryAt(w)) \in visited /\ Waiting' = Waiting /\ Refused' = Refused
     \/ /\ EntryAt(w).dev \in dead
        /\ Waiting' = Waiting /\ Refused' = Refused \cup {w}
     \/ /\ Fingerprint(EntryAt(w)) \notin visited
        /\ Waiting' = Waiting \cup {w} /\ Refused' = Refused

\* d are entries that waited in batch b, each at one place.
TakenFrom(b, d, p) ==
  /\ DOMAIN d = DOMAIN p
  /\ \A j \in DOMAIN d : <<b, p[j]>> \in Waiting /\ d[j] = EntryAt(<<b, p[j]>>)
  /\ \A i, j \in DOMAIN d : p[i] = p[j] => i = j

\* Batch b is done.
Gone(b) ==
  /\ UNCHANGED <<input, visited>> /\ Started /\ lost \subseteq lost'
  /\ Waiting' = {w \in Waiting : w[1] # b} /\ Refused' = {w \in Refused : w[1] # b}
  /\ Seen' \subseteq Seen
  /\ state'.hasError <=> state.hasError \/ \E w \in Refused : w[1] = b
  /\ \E add \in Seq(Entry) : \E p :
       /\ Rows' = Rows \o add /\ TakenFrom(b, add, p)
       /\ \A w \in Waiting : w[1] = b =>
            \/ EntryAt(w) \in Range(add)
            \/ IsDir(EntryAt(w)) /\ (~input.includeDir \/ EntryAt(w).path \in lost')
  /\ \E ds \in Seq(Entry) : \E p : dirLines' = dirLines \o Named(ds) /\ TakenFrom(b, ds, p)

\* What leaves the batches alone leaves alone what waits, what was refused and what
\* was seen.
LEMMA DataStays ==
  ASSUME UNCHANGED <<input, tp>>, Live' = Live
  PROVE  Waiting' = Waiting /\ Refused' = Refused /\ Seen' = Seen
BY DEF Waiting, Refused, Seen, LookedUpIn, Results, Spots

\* These steps change nothing of the list.
LEMMA StillSame ==
  ASSUME RunInv, PhaseStep, [Next]_vars, ~Seed, Idle \/ Arrive \/ PrintRow \/ Moves
  PROVE  Same
<1>1. UNCHANGED <<input, tp, visited, dirLines, lost, state>>
  BY DEF Idle, Arrive, PrintRow, Moves, listing, cfgVars, mainVars, quiet
<1>2. Live' = Live
  <2>1. CASE Idle \/ Arrive \/ PrintRow
    BY <2>1, PlacesStay DEF Idle, Arrive, PrintRow, places, tpVars, threadVars, mainVars, RunInv
  <2>2. CASE Moves
    <3>1. PICK t \in Threads : Take(t) \/ Complete(t)
      BY <2>2 DEF Moves
    <3>2. inline' = inline
      BY <2>2 DEF Moves, quiet
    <3>3. QED
      BY <3>1, <3>2, TakeMoves, CompleteMoves DEF RunInv
  <2>3. QED
    BY <2>1, <2>2
<1>3. Rows' = Rows
  <2>1. CASE PrintRow
    BY <2>1, PrintedRows DEF RunInv
  <2>2. CASE Idle \/ Arrive \/ Moves
    <3>1. UNCHANGED <<tasks, printed>>
      BY <2>2 DEF Idle, Arrive, Moves, listing, quiet, printVars
    <3>2. QED
      BY <3>1 DEF Rows
  <2>3. QED
    BY <2>1, <2>2
<1>4. Started' => Started
  BY Begins DEF Started
<1>5. QED
  BY <1>1, <1>2, <1>3, <1>4, DataStays DEF Same

\* The seed lists the single target.
LEMMA SeedStarts ==
  ASSUME RunInv, PhaseStep, Seed
  PROVE  Starts
<1>1. /\ UNCHANGED <<input, visited, dirLines, lost, printed, tp>>
      /\ tasks' = input.single /\ state' = [state EXCEPT !.files = Len(input.single)]
      /\ phase = "seed" /\ UNCHANGED tpVars /\ inline' = inline
  BY DEF Seed, Phase, cfgVars, printVars
<1>2. tp = <<>> /\ tasks = <<>> /\ printed = <<>>
  BY <1>1 DEF RunInv, ComingInv
<1>3. Rows = <<>> /\ Rows' = input.single
  <2>1. input.single \in Seq(Entry)
    BY InputAssumption DEF RunInv, RunTypes
  <2>2. [k \in DOMAIN printed |-> printed[k].entry] = <<>>
    BY <1>2
  <2>3. <<>> \o input.single = input.single /\ <<>> \o <<>> = <<>>
    BY <2>1
  <2>4. QED
    BY <1>1, <1>2, <2>2, <2>3 DEF Rows
<1>4. DOMAIN tp' = {}
  BY <1>1, <1>2
<1>5. Live' = {}
  <2>1. Live = {}
    BY <1>2 DEF RunInv, CountInv
  <2>2. UNCHANGED places
    BY <1>1 DEF places, tpVars, threadVars
  <2>3. QED
    BY <2>1, <2>2, PlacesStay DEF RunInv
<1>6. Waiting' = {} /\ Refused' = {} /\ Seen' = {}
  BY <1>4, <1>5 DEF Waiting, Refused, Seen, LookedUpIn
<1>7. state'.hasError = state.hasError
  BY <1>1 DEF RunInv, RunTypes
<1>8. Waiting = {} /\ Refused = {}
  <2>1. Live = {}
    BY <1>2 DEF RunInv, CountInv
  <2>2. QED
    BY <2>1 DEF Waiting, Refused, LookedUpIn
<1>9. QED
  BY <1>1, <1>3, <1>6, <1>7, <1>8 DEF Starts

\* A new batch changes nothing of the list.
LEMMA HatchSame ==
  ASSUME RunInv, NEW b, Hatch(b), Started' => Started
  PROVE  Same
<1>1. /\ DOMAIN tp' = DOMAIN tp \cup {b} /\ b \notin DOMAIN tp
      /\ \A c \in DOMAIN tp : tp'[c] = tp[c]
      /\ Results(b)' = <<>>
  BY HatchIs DEF RunInv
<1>2. /\ UNCHANGED <<input, visited, dirLines, lost, tasks, printed>>
      /\ state' = [state EXCEPT !.pendingBatches = @ + 1] /\ Live' = Live \cup {b} /\ b \notin Live
  BY DEF Hatch, Pending
<1>3. Rows' = Rows
  BY <1>2 DEF Rows
<1>4. state'.hasError = state.hasError
  BY <1>2 DEF RunInv, RunTypes
<1>5. \A w : LookedUpIn(w)' <=> LookedUpIn(w)
  <2>1. \A w : w[1] = b => ~LookedUpIn(w)' /\ ~LookedUpIn(w)
    <3>1. DOMAIN Results(b)' = {}
      BY <1>1
    <3>2. QED
      BY <1>2, <3>1 DEF LookedUpIn
  <2>2. \A c : c # b => (c \in Live' <=> c \in Live)
    BY <1>2
  <2>3. \A c \in Live : Results(c)' = Results(c)
    BY <1>1 DEF Results, RunInv, CountInv
  <2>4. QED
    BY <2>1, <2>2, <2>3 DEF LookedUpIn
<1>6. \A w : LookedUpIn(w) => Results(w[1])' = Results(w[1])
  BY <1>1 DEF Results, LookedUpIn, RunInv, CountInv
<1>7. Spots' = Spots
  BY <1>2 DEF Spots
<1>8. Waiting' = Waiting /\ Refused' = Refused
  <2>1. \A w : w \in Waiting' <=> w \in Waiting
    BY <1>5, <1>6, <1>7 DEF Waiting
  <2>2. \A w : w \in Refused' <=> w \in Refused
    BY <1>5, <1>6, <1>7 DEF Refused
  <2>3. QED
    BY <2>1, <2>2
<1>9. \A w \in Seen' : w \in Seen
  <2>1. SUFFICES ASSUME NEW w \in Seen' PROVE w \in Seen
    OBVIOUS
  <2>2. w[1] # b
    <3>1. DOMAIN Results(b)' = {}
      BY <1>1
    <3>2. QED
      BY <1>2, <2>1, <3>1 DEF Seen
  <2>3. w[1] \in DOMAIN tp /\ (w[1] \in Live' <=> w[1] \in Live) /\ Results(w[1])' = Results(w[1])
    BY <1>1, <1>2, <2>1, <2>2 DEF Seen, Results
  <2>4. QED
    BY <1>7, <2>1, <2>3 DEF Seen
<1>10. QED
  BY <1>2, <1>3, <1>4, <1>8, <1>9 DEF Same

\* A place of b after one look-up.
LEMMA LookupTurns ==
  ASSUME RunInv, NEW b, Lookup(b), Started' => Started
  PROVE  Same \/ \E w : One(w)
<1>1. /\ b \in Live /\ b \in DOMAIN tp
      /\ Entries(b) = input.batches[b] /\ Len(Results(b)) <= Len(Entries(b))
      /\ UNCHANGED <<places, input, dead, coming, retQ, state, lost, dirLines, tasks, printed, phase>>
  BY LookupIsLive
<1>2. Live' = Live /\ Rows' = Rows /\ Spots' = Spots
  BY <1>1, PlacesStay DEF RunInv, Rows, Spots
<1>3. PICK rest \in Seq(Result) :
        /\ tp' = [tp EXCEPT ![b].results = @ \o rest]
        /\ PassedOver(b, rest) \/ LookedUp(b, rest)
  BY <1>1, DedupIs DEF Lookup, RunInv
<1>4. /\ DOMAIN tp' = DOMAIN tp
      /\ \A c \in DOMAIN tp : c # b => tp'[c] = tp[c]
      /\ Len(Results(b)') = Len(Results(b)) + Len(rest)
      /\ DOMAIN Results(b)' = 1 .. Len(Results(b)')
      /\ \A i \in DOMAIN Results(b) : Results(b)'[i] = Results(b)[i]
      /\ \A i \in 1 .. Len(rest) : Results(b)'[Len(Results(b)) + i] = rest[i]
  BY <1>1, <1>3, MoreResults DEF RunInv
<1>5. PICK n \in Nat, r \in Nat :
        /\ n = Len(Entries(b)) /\ r = Len(Results(b)) /\ DOMAIN Entries(b) = 1 .. n /\ DOMAIN Results(b) = 1 .. r
        /\ r + 1 \in 1 .. n
  <2>1. PICK n \in Nat, r \in Nat :
          n = Len(Entries(b)) /\ r = Len(Results(b)) /\ DOMAIN Entries(b) = 1 .. n /\ DOMAIN Results(b) = 1 .. r
    BY <1>1, BatchIs DEF RunInv
  <2>2. r + 1 \in 1 .. n
    BY <1>1, <2>1, DedupIs DEF Lookup, RunInv, NextPlace
  <2>3. QED
    BY <2>1, <2>2
<1>6. PICK m \in Nat : m = Len(rest)
  BY LenProperties
<1>7. PICK now : now = Results(b)'
  OBVIOUS
<1>8. /\ DOMAIN now = 1 .. r + m
      /\ \A i \in 1 .. r : now[i] = Results(b)[i]
      /\ \A i \in 1 .. m : now[r + i] = rest[i]
  BY <1>4, <1>5, <1>6, <1>7
<1>9. \A w : w[1] # b => (LookedUpIn(w)' <=> LookedUpIn(w))
                          /\ (LookedUpIn(w) => Results(w[1])' = Results(w[1]))
  BY <1>2, <1>4 DEF LookedUpIn, Results, RunInv, CountInv
<1>10. /\ \A k : LookedUpIn(<<b, k>>)' <=> k \in 1 .. r + m
       /\ \A k : LookedUpIn(<<b, k>>) <=> k \in 1 .. r
  BY <1>1, <1>2, <1>5, <1>7, <1>8 DEF LookedUpIn
<1>11. \A w : (w \in Waiting' <=> w \in Spots /\ LookedUpIn(w)' /\ Results(w[1])'[w[2]] = {})
               /\ (w \in Refused' <=> w \in Spots /\ LookedUpIn(w)' /\ Results(w[1])'[w[2]] = {"blacklisted"})
  BY <1>2 DEF Waiting, Refused
<1>12. \A w : w[1] # b => (w \in Waiting' <=> w \in Waiting) /\ (w \in Refused' <=> w \in Refused)
  BY <1>9, <1>11 DEF Waiting, Refused
<1>13. \A k : /\ <<b, k>> \in Waiting' <=> <<b, k>> \in Spots /\ k \in 1 .. r + m /\ now[k] = {}
              /\ <<b, k>> \in Refused' <=> <<b, k>> \in Spots /\ k \in 1 .. r + m /\ now[k] = {"blacklisted"}
              /\ <<b, k>> \in Waiting <=> <<b, k>> \in Spots /\ k \in 1 .. r /\ Results(b)[k] = {}
              /\ <<b, k>> \in Refused <=> <<b, k>> \in Spots /\ k \in 1 .. r /\ Results(b)[k] = {"blacklisted"}
  BY <1>7, <1>10, <1>11 DEF Waiting, Refused
<1>14. \A w \in Seen' : w \in Seen \/ (w[1] = b /\ w[2] \in 1 .. r + m /\ w[2] \notin 1 .. r)
  <2>1. SUFFICES ASSUME NEW w \in Seen', w \notin Seen
                 PROVE  w[1] = b /\ w[2] \in 1 .. r + m /\ w[2] \notin 1 .. r
    OBVIOUS
  <2>2. w \in Spots /\ w[1] \in DOMAIN tp /\ (w[1] \in Live => w[2] \in DOMAIN Results(w[1])')
    BY <1>2, <1>4, <2>1 DEF Seen
  <2>3. w[1] \in Live /\ w[2] \notin DOMAIN Results(w[1])
    BY <2>1, <2>2 DEF Seen
  <2>4. w[1] = b
    BY <1>4, <2>2, <2>3 DEF Results
  <2>5. QED
    BY <1>5, <1>7, <1>8, <2>2, <2>3, <2>4
<1>15. \A w \in Spots : w = <<w[1], w[2]>>
  BY SpotIs
<1>16. Waiting' \subseteq Spots /\ Waiting \subseteq Spots /\ Refused' \subseteq Spots /\ Refused \subseteq Spots
  BY <1>2 DEF Waiting, Refused
<1>17. CASE PassedOver(b, rest)
  <2>1. r + 1 > IterationLimit /\ visited' = visited /\ m = n - r /\ \A i \in 1 .. n - r : rest[i] = {"duplicate"}
    BY <1>5, <1>6, <1>17 DEF PassedOver, NextPlace
  <2>2. \A k \in 1 .. r + m : k \in 1 .. r \/ now[k] = {"duplicate"}
    <3>1. SUFFICES ASSUME NEW k \in 1 .. r + m, k \notin 1 .. r PROVE now[k] = {"duplicate"}
      OBVIOUS
    <3>2. PICK i \in 1 .. m : k = r + i
      <4>1. k - r \in 1 .. m /\ k = r + (k - r)
        BY <3>1
      <4>2. QED
        BY <4>1
    <3>3. QED
      BY <1>8, <2>1, <3>2
  <2>3. {"duplicate"} # {} /\ {"duplicate"} # {"blacklisted"}
    BY Zenon
  <2>4. \A k \in 1 .. r : k \in 1 .. r + m
    OBVIOUS
  <2>5. \A k : (<<b, k>> \in Waiting' <=> <<b, k>> \in Waiting) /\ (<<b, k>> \in Refused' <=> <<b, k>> \in Refused)
    BY <1>8, <1>13, <2>2, <2>3, <2>4
  <2>6. \A w \in Spots : (w \in Waiting' <=> w \in Waiting) /\ (w \in Refused' <=> w \in Refused)
    BY <1>12, <1>15, <2>5
  <2>7. Waiting' = Waiting /\ Refused' = Refused
    BY <1>16, <2>6
  <2>8. \A w \in Seen' : w \in Seen \/ w[2] > IterationLimit
    <3>1. \A k \in 1 .. r + m : k \notin 1 .. r => k > IterationLimit
      BY <2>1, LimitAssumption
    <3>2. QED
      BY <1>14, <3>1
  <2>9. QED
    BY <1>1, <1>2, <2>1, <2>7, <2>8 DEF Same
<1>18. CASE LookedUp(b, rest)
  <2>1. m = 1 /\ rest[1] = Found(b) /\ visited' = visited \cup {Fingerprint(Entries(b)[r + 1])}
    BY <1>5, <1>6, <1>18 DEF LookedUp, NextPlace
  <2>2. PICK w : w = <<b, r + 1>>
    OBVIOUS
  <2>3. w \in Spots /\ w[1] = b /\ w[2] = r + 1
    <3>1. b \in DOMAIN input.batches
      BY <1>1, KnownBatch DEF RunInv
    <3>2. QED
      BY <1>1, <1>5, <2>2, <3>1, SpotIs
  <2>4. EntryAt(w) = Entries(b)[r + 1]
    BY <1>1, <2>3 DEF EntryAt
  <2>5. now[r + 1] = Found(b) /\ DOMAIN now = 1 .. r + 1
    BY <1>8, <2>1
  <2>6. \A k \in 1 .. r + 1 : k = r + 1 \/ k \in 1 .. r
    OBVIOUS
  <2>7. r + 1 \notin 1 .. r /\ r + 1 \in 1 .. r + 1 /\ \A k \in 1 .. r : k \in 1 .. r + 1
    OBVIOUS
  <2>8. Found(b) = (IF Fingerprint(EntryAt(w)) \in visited THEN {"duplicate"} ELSE {})
                     \cup (IF EntryAt(w).dev \in dead THEN {"blacklisted"} ELSE {})
    BY <1>5, <2>4 DEF Found, NextPlace
  <2>9. \A k : /\ k # r + 1 => (<<b, k>> \in Waiting' <=> <<b, k>> \in Waiting)
               /\ k # r + 1 => (<<b, k>> \in Refused' <=> <<b, k>> \in Refused)
    BY <1>8, <1>13, <2>1, <2>6, <2>7
  <2>10. /\ <<b, r + 1>> \notin Waiting /\ <<b, r + 1>> \notin Refused
         /\ <<b, r + 1>> \in Waiting' <=> Found(b) = {}
         /\ <<b, r + 1>> \in Refused' <=> Found(b) = {"blacklisted"}
    BY <1>13, <2>1, <2>2, <2>3, <2>5, <2>7
  <2>11. /\ \A v \in Spots : v # w => (v \in Waiting' <=> v \in Waiting) /\ (v \in Refused' <=> v \in Refused)
         /\ w \notin Waiting /\ w \notin Refused
         /\ w \in Waiting' <=> Found(b) = {}
         /\ w \in Refused' <=> Found(b) = {"blacklisted"}
    BY <1>12, <1>15, <2>2, <2>9, <2>10
  <2>12. Seen' \subseteq Seen \cup {w}
    <3>1. \A v \in Seen' : v \in Seen \/ (v[1] = b /\ v[2] = r + 1)
      BY <1>14, <2>1, <2>6
    <3>2. \A v \in Seen' : v \in Spots
      BY <1>2 DEF Seen
    <3>3. QED
      BY <1>15, <2>2, <3>1, <3>2
  <2>13. \/ Fingerprint(EntryAt(w)) \in visited /\ Waiting' = Waiting /\ Refused' = Refused
         \/ /\ EntryAt(w).dev \in dead
            /\ Waiting' = Waiting /\ Refused' = Refused \cup {w}
         \/ /\ Fingerprint(EntryAt(w)) \notin visited
            /\ Waiting' = Waiting \cup {w} /\ Refused' = Refused
    <3>1. CASE Fingerprint(EntryAt(w)) \in visited
      <4>1. "duplicate" \in Found(b) /\ "duplicate" \notin {} /\ "duplicate" \notin {"blacklisted"}
        BY <2>8, <3>1
      <4>2. w \notin Waiting' /\ w \notin Refused'
        BY <2>11, <4>1
      <4>3. \A v \in Spots : (v \in Waiting' <=> v \in Waiting) /\ (v \in Refused' <=> v \in Refused)
        BY <2>11, <4>2
      <4>4. Waiting' = Waiting /\ Refused' = Refused
        BY ONLY <1>16, <2>3, <4>3
      <4>5. QED
        BY <3>1, <4>4
    <3>2. CASE Fingerprint(EntryAt(w)) \notin visited /\ EntryAt(w).dev \in dead
      <4>1. Found(b) = {"blacklisted"} /\ {"blacklisted"} # {}
        BY <2>8, <3>2
      <4>2. w \notin Waiting' /\ w \in Refused'
        BY <2>11, <4>1
      <4>3. \A v \in Spots : (v \in Waiting' <=> v \in Waiting) /\ (v \in Refused' <=> v \in Refused \cup {w})
        BY <2>11, <4>2
      <4>4. Waiting' = Waiting /\ Refused' = Refused \cup {w}
        BY ONLY <1>16, <2>3, <4>3
      <4>5. QED
        BY <3>2, <4>4
    <3>3. CASE Fingerprint(EntryAt(w)) \notin visited /\ EntryAt(w).dev \notin dead
      <4>1. Found(b) = {} /\ {} # {"blacklisted"}
        BY <2>8, <3>3
      <4>2. w \in Waiting' /\ w \notin Refused'
        BY <2>11, <4>1
      <4>3. \A v \in Spots : (v \in Waiting' <=> v \in Waiting \cup {w}) /\ (v \in Refused' <=> v \in Refused)
        BY <2>11, <4>2
      <4>4. Waiting' = Waiting \cup {w} /\ Refused' = Refused
        BY ONLY <1>16, <2>3, <4>3
      <4>5. QED
        BY <3>3, <4>4
    <3>4. QED
      BY <3>1, <3>2, <3>3
  <2>14. One(w)
    BY <1>1, <1>2, <2>1, <2>3, <2>4, <2>12, <2>13 DEF One
  <2>15. QED
    BY <2>14
<1>19. QED
  BY <1>3, <1>17, <1>18

\* What was picked out of a batch was waiting.
LEMMA PickedWaited ==
  ASSUME RunInv, NEW b \in Live, Deduped(b), NEW S, S \subseteq Fresh(b),
         NEW d \in Seq(Entry), NEW p, Picks(d, p, Entries(b), S)
  PROVE  /\ TakenFrom(b, d, p)
         /\ \A w \in Waiting : w[1] = b /\ w[2] \in S => EntryAt(w) \in Range(d)
<1>1. b \in DOMAIN tp /\ Entries(b) = input.batches[b]
  BY DEF RunInv, CountInv, DataInv
<1>2. PICK n \in Nat : /\ n = Len(Entries(b)) /\ DOMAIN Entries(b) = 1 .. n /\ DOMAIN Results(b) = 1 .. n
  BY <1>1, BatchIs DEF RunInv, Deduped
<1>3. PICK m \in Nat : m = Len(d) /\ DOMAIN d = 1 .. m /\ DOMAIN p = 1 .. m
  BY LenProperties DEF Picks
<1>4. /\ \A j \in 1 .. m : p[j] \in S /\ d[j] = Entries(b)[p[j]]
      /\ \A i, j \in 1 .. m : p[i] = p[j] => i = j
      /\ \A k \in S : \E j \in 1 .. m : p[j] = k
  BY <1>3 DEF Picks
<1>5. b \in DOMAIN input.batches
  BY <1>1, KnownBatch DEF RunInv
<1>6. \A k \in S : <<b, k>> \in Spots /\ k \in 1 .. n /\ Results(b)[k] = {}
  BY <1>1, <1>2, <1>5, SpotIs DEF Fresh
<1>7. \A k \in S : <<b, k>> \in Waiting /\ EntryAt(<<b, k>>) = Entries(b)[k]
  BY <1>1, <1>2, <1>6 DEF Waiting, LookedUpIn, EntryAt
<1>8. TakenFrom(b, d, p)
  BY <1>3, <1>4, <1>7 DEF TakenFrom
<1>9. ASSUME NEW w \in Waiting, w[1] = b, w[2] \in S PROVE EntryAt(w) \in Range(d)
  <2>1. PICK j \in 1 .. m : p[j] = w[2]
    BY <1>4, <1>9
  <2>2. EntryAt(w) = d[j]
    BY <1>1, <1>4, <1>9, <2>1 DEF EntryAt
  <2>3. QED
    BY <1>3, <2>2 DEF Range
<1>10. QED
  BY <1>8, <1>9

\* The end of a batch lists what of it is fresh.
LEMMA LeaveGone ==
  ASSUME RunInv, NEW b, Leave(b)
  PROVE  Gone(b)
<1>1. /\ b \in Live /\ Deduped(b) /\ Live' = Live \ {b} /\ phase \notin {"seed", "create"}
  BY DEF Leave
<1>2. PICK dirs \in SUBSET DirsOf(b) : Deals(b, dirs)
  BY DEF Leave
<1>3. b \in DOMAIN tp /\ Entries(b) = input.batches[b]
  BY <1>1 DEF RunInv, CountInv, DataInv
<1>4. PICK n \in Nat : /\ n = Len(Entries(b)) /\ DOMAIN Entries(b) = 1 .. n /\ DOMAIN Results(b) = 1 .. n
  BY <1>1, <1>3, BatchIs DEF RunInv, Deduped
<1>5. /\ \E add \in Seq(Entry) : \E p :
            /\ tasks' = tasks \o add
            /\ Picks(add, p, Entries(b), (Fresh(b) \ DirsOf(b)) \cup IF input.includeDir THEN dirs ELSE {})
      /\ \E ds \in Seq(Entry) : \E q :
            /\ dirLines' = dirLines \o Named(ds)
            /\ Picks(ds, q, Entries(b), dirs)
  BY <1>2, <1>3, DealsAre DEF RunInv
<1>6. PICK add \in Seq(Entry) : \E p :
       /\ tasks' = tasks \o add
       /\ Picks(add, p, Entries(b), (Fresh(b) \ DirsOf(b)) \cup IF input.includeDir THEN dirs ELSE {})
  BY <1>5
<1>7. PICK p :
       /\ tasks' = tasks \o add
       /\ Picks(add, p, Entries(b), (Fresh(b) \ DirsOf(b)) \cup IF input.includeDir THEN dirs ELSE {})
  BY <1>6
<1>8. PICK ds \in Seq(Entry) : \E q :
       /\ dirLines' = dirLines \o Named(ds)
       /\ Picks(ds, q, Entries(b), dirs)
  BY <1>5
<1>9. PICK q :
       /\ dirLines' = dirLines \o Named(ds)
       /\ Picks(ds, q, Entries(b), dirs)
  BY <1>8
<1>10. /\ UNCHANGED <<input, visited, printed>> /\ tp' = [tp EXCEPT ![b] = NoBatchData]
       /\ lost' = lost \cup {Entries(b)[k].path : k \in DirsOf(b) \ dirs}
       /\ state'.hasError <=> state.hasError \/ Skipped(b) # {}
  BY <1>2 DEF Deals
<1>11. PICK S : S = (Fresh(b) \ DirsOf(b)) \cup IF input.includeDir THEN dirs ELSE {}
  OBVIOUS
<1>12. S \subseteq Fresh(b) /\ dirs \subseteq Fresh(b)
  BY <1>11 DEF DirsOf
<1>13. TakenFrom(b, add, p) /\ \A w \in Waiting : w[1] = b /\ w[2] \in S => EntryAt(w) \in Range(add)
  <2>1. Picks(add, p, Entries(b), S)
    BY <1>7, <1>11
  <2>2. QED
    BY <1>1, <1>12, <2>1, PickedWaited
<1>14. TakenFrom(b, ds, q)
  BY <1>1, <1>9, <1>12, PickedWaited
<1>15. Rows' = Rows \o add
  BY <1>7, <1>10, MoreRows DEF RunInv
<1>16. Spots' = Spots
  BY <1>10 DEF Spots
<1>17. DOMAIN tp' = DOMAIN tp /\ \A c \in DOMAIN tp : c # b => tp'[c] = tp[c]
  BY <1>3, <1>10
<1>18. \A w : /\ LookedUpIn(w)' <=> LookedUpIn(w) /\ w[1] # b
              /\ LookedUpIn(w) /\ w[1] # b => Results(w[1])' = Results(w[1])
  BY <1>1, <1>17 DEF LookedUpIn, Results, RunInv, CountInv
<1>19. Waiting' = {w \in Waiting : w[1] # b}
  <2>1. \A w : w \in Waiting' <=> w \in Waiting /\ w[1] # b
    BY <1>16, <1>18 DEF Waiting
  <2>2. QED
    BY <2>1
<1>20. Refused' = {w \in Refused : w[1] # b}
  <2>1. \A w : w \in Refused' <=> w \in Refused /\ w[1] # b
    BY <1>16, <1>18 DEF Refused
  <2>2. QED
    BY <2>1
<1>21. Seen' \subseteq Seen
  <2>1. SUFFICES ASSUME NEW w \in Seen' PROVE w \in Seen
    OBVIOUS
  <2>2. w \in Spots /\ w[1] \in DOMAIN tp /\ (w[1] \in Live' => w[2] \in DOMAIN Results(w[1])')
    BY <1>16, <1>17, <2>1 DEF Seen
  <2>3. CASE w[1] = b
    <3>1. w[2] \in DOMAIN Results(w[1])
      BY <1>3, <1>4, <2>2, <2>3, SpotIs
    <3>2. QED
      BY <2>2, <3>1 DEF Seen
  <2>4. CASE w[1] # b
    BY <1>1, <1>17, <2>2, <2>4 DEF Seen, Results
  <2>5. QED
    BY <2>3, <2>4
<1>22. (\E w \in Refused : w[1] = b) <=> Skipped(b) # {}
  <2>1. ASSUME NEW w \in Refused, w[1] = b PROVE w[2] \in Skipped(b)
    BY <1>3, <1>4, <2>1 DEF Refused, LookedUpIn, Skipped
  <2>2. ASSUME NEW k \in Skipped(b) PROVE <<b, k>> \in Refused
    <3>1. k \in 1 .. n /\ Results(b)[k] = {"blacklisted"}
      BY <1>4 DEF Skipped
    <3>2. b \in DOMAIN input.batches
      BY <1>3, KnownBatch DEF RunInv
    <3>3. <<b, k>> \in Spots
      BY <1>3, <1>4, <3>1, <3>2, SpotIs
    <3>4. QED
      BY <1>1, <1>4, <3>1, <3>3 DEF Refused, LookedUpIn
  <2>3. QED
    BY <2>1, <2>2
<1>23. ASSUME NEW w \in Waiting, w[1] = b
       PROVE  \/ EntryAt(w) \in Range(add)
              \/ IsDir(EntryAt(w)) /\ (~input.includeDir \/ EntryAt(w).path \in lost')
  <2>1. PICK k : k = w[2]
    OBVIOUS
  <2>2. k \in Fresh(b) /\ EntryAt(w) = Entries(b)[k]
    BY <1>3, <1>4, <1>23, <2>1 DEF Waiting, LookedUpIn, Fresh, EntryAt
  <2>3. CASE k \in S
    BY <1>13, <1>23, <2>1, <2>3
  <2>4. CASE k \notin S
    <3>1. k \in DirsOf(b) /\ (~input.includeDir \/ k \notin dirs)
      BY <1>11, <2>2, <2>4
    <3>2. IsDir(EntryAt(w))
      BY <2>2, <3>1 DEF DirsOf
    <3>3. k \notin dirs => EntryAt(w).path \in lost'
      BY <1>10, <2>2, <3>1
    <3>4. QED
      BY <3>1, <3>2, <3>3
  <2>5. QED
    BY <2>3, <2>4
<1>24. \E u \in Seq(Entry) : \E x : dirLines' = dirLines \o Named(u) /\ TakenFrom(b, u, x)
  BY <1>9, <1>14
<1>25. \E u \in Seq(Entry) : \E x :
       /\ Rows' = Rows \o u /\ TakenFrom(b, u, x)
       /\ \A w \in Waiting : w[1] = b =>
            \/ EntryAt(w) \in Range(u)
            \/ IsDir(EntryAt(w)) /\ (~input.includeDir \/ EntryAt(w).path \in lost')
  BY <1>13, <1>15, <1>23
<1>26. QED
  BY <1>1, <1>10, <1>19, <1>20, <1>21, <1>22, <1>24, <1>25 DEF Gone, Started

\* Every step is one of these.
LEMMA Turns ==
  ASSUME RunInv, [Next]_vars
  PROVE  Same \/ Starts \/ (\E w : One(w)) \/ \E b : Gone(b)
<1>1. PhaseStep
  BY NextKeepsRun
<1>2. CASE Seed
  BY <1>1, <1>2, SeedStarts
<1>3. CASE ~Seed
  <2>1. Started' => Started
    BY <1>3, Begins DEF Started
  <2>2. \/ Idle \/ Arrive \/ PrintRow \/ Moves \/ HandleBatch
        \/ (\E b : Lookup(b)) \/ InlineProcess \/ Drain
    BY <1>3, Steps DEF RunInv
  <2>3. CASE Idle \/ Arrive \/ PrintRow \/ Moves
    BY <1>1, <1>3, <2>3, StillSame
  <2>4. CASE HandleBatch
    <3>1. PICK b : Hatch(b)
      BY <2>4, HandleIsHatch
    <3>2. QED
      BY <2>1, <3>1, HatchSame
  <2>5. CASE \E b : Lookup(b)
    BY <2>1, <2>5, LookupTurns
  <2>6. CASE InlineProcess \/ Drain
    <3>1. PICK b : Leave(b)
      BY <2>6, GoesIsLeave
    <3>2. QED
      BY <3>1, LeaveGone
  <2>7. QED
    BY <2>2, <2>3, <2>4, <2>5, <2>6
<1>4. QED
  BY <1>2, <1>3

-----------------------------------------------------------------------------
(* Sequences without repetitions. *)

\* Every element of s is at one place of it.
Distinct(s) == \A i, j \in DOMAIN s : s[i] = s[j] => i = j

\* Two sequences of different things without repetitions, joined.
LEMMA JoinedDistinct ==
  ASSUME NEW V, NEW P, P = Seq(V), NEW s \in P, NEW t \in P, NEW c, c = s \o t
  PROVE  /\ \A x : x \in Range(c) <=> x \in Range(s) \/ x \in Range(t)
         /\ Distinct(s) /\ Distinct(t) /\ Range(s) \cap Range(t) = {} => Distinct(c)
<1>1. PICK m \in Nat, n \in Nat : m = Len(s) /\ DOMAIN s = 1 .. m /\ n = Len(t) /\ DOMAIN t = 1 .. n
  BY LenProperties
<1>2. c \in P /\ Len(c) = m + n
  BY <1>1, JoinedType
<1>3. DOMAIN c = 1 .. m + n
  BY <1>2, LenProperties
<1>4. \A k \in 1 .. m : c[k] = s[k]
  BY <1>1, JoinedFirst
<1>5. \A k \in 1 .. n : c[m + k] = t[k]
  BY <1>1, JoinedSecond
<1>6. /\ \A k \in 1 .. m + n : k \in 1 .. m \/ \E i \in 1 .. n : k = m + i
      /\ \A k \in 1 .. m : k \in 1 .. m + n
      /\ \A k \in 1 .. n : m + k \in 1 .. m + n
  <2>1. \A k \in 1 .. m + n : k \in 1 .. m \/ (k - m \in 1 .. n /\ k = m + (k - m))
    OBVIOUS
  <2>2. \A k \in 1 .. m + n : k \in 1 .. m \/ \E i \in 1 .. n : k = m + i
    BY <2>1
  <2>3. QED
    BY <2>2
<1>7. \A x : x \in Range(c) <=> \E k \in 1 .. m + n : c[k] = x
  BY <1>3 DEF Range
<1>8. \A x : x \in Range(s) <=> \E k \in 1 .. m : s[k] = x
  BY <1>1 DEF Range
<1>9. \A x : x \in Range(t) <=> \E k \in 1 .. n : t[k] = x
  BY <1>1 DEF Range
<1>10. \A x : x \in Range(c) <=> x \in Range(s) \/ x \in Range(t)
  <2>1. ASSUME NEW k \in 1 .. m + n PROVE (\E i \in 1 .. m : s[i] = c[k]) \/ (\E i \in 1 .. n : t[i] = c[k])
    <3>1. CASE k \in 1 .. m
      BY <1>4, <3>1
    <3>2. CASE k \notin 1 .. m
      <4>1. PICK i \in 1 .. n : k = m + i
        BY <1>6, <3>2
      <4>2. QED
        BY <1>5, <4>1
    <3>3. QED
      BY <3>1, <3>2
  <2>2. \A i \in 1 .. m : \E k \in 1 .. m + n : c[k] = s[i]
    BY <1>4, <1>6
  <2>3. \A i \in 1 .. n : \E k \in 1 .. m + n : c[k] = t[i]
    BY <1>5, <1>6
  <2>4. QED
    BY ONLY <1>7, <1>8, <1>9, <2>1, <2>2, <2>3
<1>11. ASSUME Distinct(s), Distinct(t), Range(s) \cap Range(t) = {} PROVE Distinct(c)
  <2>1. SUFFICES ASSUME NEW i \in 1 .. m + n, NEW j \in 1 .. m + n, c[i] = c[j] PROVE i = j
    BY <1>3 DEF Distinct
  <2>2. \A k \in 1 .. m, l \in 1 .. n : s[k] # t[l]
    BY <1>8, <1>9, <1>11
  <2>3. \A k, l \in 1 .. m : s[k] = s[l] => k = l
    BY <1>1, <1>11 DEF Distinct
  <2>4. \A k, l \in 1 .. n : t[k] = t[l] => k = l
    BY <1>1, <1>11 DEF Distinct
  <2>5. CASE i \in 1 .. m /\ j \in 1 .. m
    BY <1>4, <2>1, <2>3, <2>5
  <2>6. CASE i \in 1 .. m /\ j \notin 1 .. m
    <3>1. PICK l \in 1 .. n : j = m + l
      BY <1>6, <2>6
    <3>2. QED
      BY <1>4, <1>5, <2>1, <2>2, <2>6, <3>1
  <2>7. CASE i \notin 1 .. m /\ j \in 1 .. m
    <3>1. PICK l \in 1 .. n : i = m + l
      BY <1>6, <2>7
    <3>2. QED
      BY <1>4, <1>5, <2>1, <2>2, <2>7, <3>1
  <2>8. CASE i \notin 1 .. m /\ j \notin 1 .. m
    <3>1. PICK k \in 1 .. n, l \in 1 .. n : i = m + k /\ j = m + l
      BY <1>6, <2>8
    <3>2. t[k] = t[l]
      BY <1>5, <2>1, <3>1
    <3>3. QED
      BY <2>4, <3>1, <3>2
  <2>9. QED
    BY <2>5, <2>6, <2>7, <2>8
<1>12. QED
  BY <1>10, <1>11

-----------------------------------------------------------------------------
(* What is true of the list. *)

\* An entry is listed or waits once, and the table of visited fingerprints knows it.
OnceInv ==
  /\ Distinct(Rows)
  /\ \A v, w \in Waiting : EntryAt(v) = EntryAt(w) => v = w
  /\ \A w \in Waiting : EntryAt(w) \notin Range(Rows) /\ Fingerprint(EntryAt(w)) \in visited
  /\ \A e \in Range(Rows) :
       e \in Given /\ (Fingerprint(e) \in visited \/ input.single # <<>>)

\* So is a directory that --print-dir names, and it does not wait any more.
NamedInv ==
  /\ Distinct(dirLines)
  /\ \A x \in Range(dirLines) : \E e \in Given :
       /\ x.path = e.path /\ Fingerprint(e) \in visited
       /\ \A w \in Waiting : EntryAt(w) # e

\* What becomes of an entry that was looked up, when its batch is done.
Accounted(e) ==
  \/ e \in Range(Rows)
  \/ e.dev \in input.dead /\ state.hasError
  \/ IsDir(e) /\ (~input.includeDir \/ e.path \in lost)

CoverInv ==
  /\ \A w \in Seen : w[2] > IterationLimit \/ Fingerprint(EntryAt(w)) \in visited
  /\ \A e \in Given : Fingerprint(e) \in visited =>
       Accounted(e) \/ \E w \in Waiting \cup Refused : EntryAt(w) = e
  /\ \A w \in Refused : EntryAt(w).dev \in input.dead
  /\ Started => Range(input.single) \subseteq Range(Rows)

ListInv == OnceInv /\ NamedInv /\ CoverInv

\* A step that changes nothing of the list keeps the invariant of the list,
LEMMA SameList ==
  ASSUME RunInv, ListInv, Same
  PROVE  ListInv'
<1>1. Given' = Given /\ \A w : EntryAt(w)' = EntryAt(w)
  BY DEF Same, Given, GivenTo, EntryAt
<1>2. OnceInv'
  BY <1>1 DEF Same, ListInv, OnceInv
<1>3. NamedInv'
  BY <1>1 DEF Same, ListInv, NamedInv
<1>4. \A e : Accounted(e)' <=> Accounted(e)
  BY DEF Same, Accounted
<1>5. CoverInv'
  BY <1>1, <1>4 DEF Same, ListInv, CoverInv
<1>6. QED
  BY <1>2, <1>3, <1>5 DEF ListInv

\* so does the seed,
LEMMA StartsList ==
  ASSUME RunInv, ListInv, Starts
  PROVE  ListInv'
<1>1. Given' = Given
  BY DEF Starts, Given, GivenTo
<1>2. /\ UNCHANGED <<input, visited, dirLines, lost>>
      /\ Rows = <<>> /\ Rows' = input.single
      /\ Waiting = {} /\ Refused = {}
      /\ Waiting' = {} /\ Refused' = {} /\ Seen' = {}
      /\ state'.hasError = state.hasError
  BY DEF Starts
<1>3. input.single \in Seq(Entry)
  BY InputAssumption DEF RunInv, RunTypes
<1>4. Distinct(input.single)
  <2>1. CASE input.single = <<>>
    BY <2>1 DEF Distinct
  <2>2. CASE input.single # <<>>
    <3>1. Len(input.single) = 1
      BY <2>2, SingleIsAll DEF RunInv
    <3>2. DOMAIN input.single = 1 .. 1
      BY <1>3, <3>1, LenProperties
    <3>3. QED
      BY <3>2 DEF Distinct
  <2>3. QED
    BY <2>1, <2>2
<1>5. \A e \in Range(input.single) : e \in Given /\ input.single # <<>>
  BY DEF Given, GivenTo, Range
<1>6. OnceInv'
  BY <1>1, <1>2, <1>4, <1>5 DEF OnceInv, Distinct
<1>7. NamedInv'
  BY <1>1, <1>2 DEF ListInv, NamedInv
<1>8. CoverInv'
  <2>1. ASSUME NEW e \in Given, Fingerprint(e) \in visited PROVE Accounted(e)'
    <3>1. Accounted(e)
      BY <1>2, <2>1 DEF ListInv, CoverInv
    <3>2. e \notin Range(Rows)
      BY <1>2 DEF Range
    <3>3. QED
      BY <1>2, <3>1, <3>2 DEF Accounted
  <2>2. QED
    BY <1>1, <1>2, <2>1 DEF CoverInv
<1>9. QED
  BY <1>6, <1>7, <1>8 DEF ListInv

\* the look-up of one spot,
LEMMA OneList ==
  ASSUME RunInv, ListInv, NEW w, One(w)
  PROVE  ListInv'
<1>1. Given' = Given /\ \A v : EntryAt(v)' = EntryAt(v)
  BY DEF One, Given, GivenTo, EntryAt
<1>2. /\ UNCHANGED <<input, dirLines, lost>>
      /\ Rows' = Rows /\ state'.hasError = state.hasError
      /\ Started' => Started
      /\ w \in Spots /\ visited' = visited \cup {Fingerprint(EntryAt(w))}
      /\ Seen' \subseteq Seen \cup {w}
  BY DEF One
<1>3. PICK e \in Given : e = EntryAt(w)
  BY <1>2, GivenIs
<1>4. \/ Fingerprint(e) \in visited /\ Waiting' = Waiting /\ Refused' = Refused
      \/ e.dev \in dead /\ Waiting' = Waiting /\ Refused' = Refused \cup {w}
      \/ Fingerprint(e) \notin visited /\ Waiting' = Waiting \cup {w} /\ Refused' = Refused
  BY <1>3 DEF One
<1>5. \A v \in Waiting' : v \in Waiting \/ (v = w /\ Fingerprint(e) \notin visited)
  BY <1>4
<1>6. input.single = <<>>
  BY <1>2, SingleIsAll DEF RunInv
<1>7. OnceInv'
  <2>1. \A u, v \in Waiting' : EntryAt(u) = EntryAt(v) => u = v
    BY <1>3, <1>5 DEF ListInv, OnceInv
  <2>2. \A v \in Waiting' : EntryAt(v) \notin Range(Rows) /\ Fingerprint(EntryAt(v)) \in visited'
    BY <1>2, <1>3, <1>5, <1>6 DEF ListInv, OnceInv
  <2>3. QED
    BY <1>1, <1>2, <2>1, <2>2 DEF ListInv, OnceInv
<1>8. NamedInv'
  <2>1. ASSUME NEW x \in Range(dirLines)
        PROVE  \E f \in Given :
                 /\ x.path = f.path /\ Fingerprint(f) \in visited'
                 /\ \A v \in Waiting' : EntryAt(v) # f
    <3>1. PICK f \in Given :
            /\ x.path = f.path /\ Fingerprint(f) \in visited
            /\ \A v \in Waiting : EntryAt(v) # f
      BY DEF ListInv, NamedInv
    <3>2. QED
      BY <1>2, <1>3, <1>5, <3>1
  <2>2. QED
    BY <1>1, <1>2, <2>1 DEF ListInv, NamedInv
<1>9. CoverInv'
  <2>1. \A f : Accounted(f)' <=> Accounted(f)
    BY <1>2 DEF Accounted
  <2>2. \A v \in Seen' : v[2] > IterationLimit \/ Fingerprint(EntryAt(v)) \in visited'
    BY <1>2 DEF ListInv, CoverInv
  <2>3. ASSUME NEW f \in Given, Fingerprint(f) \in visited'
        PROVE  Accounted(f) \/ \E v \in Waiting' \cup Refused' : EntryAt(v) = f
    <3>1. CASE Fingerprint(f) \in visited
      BY <1>4, <3>1 DEF ListInv, CoverInv
    <3>2. CASE Fingerprint(f) \notin visited
      <4>1. Fingerprint(f) = Fingerprint(e)
        BY <1>2, <1>3, <2>3, <3>2
      <4>2. f = e
        BY <4>1, FingerprintTells DEF RunInv
      <4>3. QED
        BY <1>3, <1>4, <3>2, <4>2
    <3>3. QED
      BY <3>1, <3>2
  <2>4. \A v \in Refused' : EntryAt(v).dev \in input.dead
    BY <1>3, <1>4 DEF ListInv, CoverInv, RunInv, RunTypes
  <2>5. QED
    BY <1>1, <1>2, <2>1, <2>2, <2>3, <2>4 DEF ListInv, CoverInv
<1>10. QED
  BY <1>7, <1>8, <1>9 DEF ListInv

-----------------------------------------------------------------------------
(* A batch goes to the list. *)

\* Entries that waited in a batch are distinct entries of the input, that were
\* looked up and are not listed.
LEMMA TakenAre ==
  ASSUME RunInv, OnceInv, NEW b, NEW d \in Seq(Entry), NEW p, TakenFrom(b, d, p)
  PROVE  /\ Distinct(d)
         /\ \A e \in Range(d) : \E w \in Waiting : w[1] = b /\ EntryAt(w) = e
         /\ \A e \in Range(d) : e \in Given /\ Fingerprint(e) \in visited /\ e \notin Range(Rows)
<1>1. ASSUME NEW i \in DOMAIN d, NEW j \in DOMAIN d, d[i] = d[j] PROVE i = j
  <2>1. <<b, p[i]>> = <<b, p[j]>>
    BY <1>1 DEF TakenFrom, OnceInv
  <2>2. QED
    BY <2>1 DEF TakenFrom
<1>2. ASSUME NEW e \in Range(d) PROVE \E w \in Waiting : w[1] = b /\ EntryAt(w) = e
  <2>1. PICK j \in DOMAIN d : e = d[j]
    BY DEF Range
  <2>2. PICK w : w = <<b, p[j]>>
    OBVIOUS
  <2>3. w \in Waiting /\ EntryAt(w) = e /\ w[1] = b
    BY <2>1, <2>2 DEF TakenFrom
  <2>4. QED
    BY <2>3
<1>3. \A w \in Waiting : EntryAt(w) \in Given
  BY GivenIs DEF Waiting
<1>4. QED
  BY <1>1, <1>2, <1>3 DEF Distinct, OnceInv

\* The lines of distinct entries of the input are distinct.
LEMMA NamedAre ==
  ASSUME RunInv, NEW d \in Seq(Entry), Distinct(d), \A e \in Range(d) : e \in Given
  PROVE  /\ Distinct(Named(d))
         /\ \A x \in Range(Named(d)) : \E e \in Range(d) : x.path = e.path
<1>1. PICK n \in Nat : n = Len(d) /\ DOMAIN d = 1 .. n
  BY LenProperties
<1>2. PICK u : u = Named(d)
  OBVIOUS
<1>3. /\ Len(u) = (IF input.printDir THEN n ELSE 0) /\ DOMAIN u = 1 .. Len(u)
      /\ input.printDir => \A k \in 1 .. n : u[k] = [to |-> DirInfo, path |-> d[k].path]
  BY <1>1, <1>2, NamedType
<1>4. CASE ~input.printDir
  <2>1. DOMAIN u = {}
    BY <1>3, <1>4
  <2>2. QED
    BY <1>2, <2>1 DEF Distinct, Range
<1>5. CASE input.printDir
  <2>1. DOMAIN u = 1 .. n /\ \A k \in 1 .. n : u[k].path = d[k].path
    BY <1>3, <1>5
  <2>2. \A k \in 1 .. n : d[k] \in Range(d)
    BY <1>1 DEF Range
  <2>3. ASSUME NEW i \in 1 .. n, NEW j \in 1 .. n, u[i] = u[j] PROVE i = j
    <3>1. d[i] \in Given /\ d[j] \in Given /\ d[i].path = d[j].path
      BY <2>1, <2>2, <2>3
    <3>2. d[i] = d[j]
      BY <3>1, FingerprintTells DEF RunInv
    <3>3. QED
      BY <1>1, <3>2 DEF Distinct
  <2>4. Distinct(u)
    BY <2>1, <2>3 DEF Distinct
  <2>5. \A x \in Range(u) : \E e \in Range(d) : x.path = e.path
    BY <2>1, <2>2 DEF Range
  <2>6. QED
    BY <1>2, <2>4, <2>5
<1>6. QED
  BY <1>4, <1>5

\* The end of a batch keeps the invariant of the list.
LEMMA GoneList ==
  ASSUME RunInv, ListInv, NEW b, Gone(b)
  PROVE  ListInv'
<1>1. Given' = Given /\ \A v : EntryAt(v)' = EntryAt(v)
  BY DEF Gone, Given, GivenTo, EntryAt
<1>2. /\ UNCHANGED <<input, visited>> /\ Started /\ lost \subseteq lost'
      /\ Waiting' = {w \in Waiting : w[1] # b} /\ Refused' = {w \in Refused : w[1] # b}
      /\ Seen' \subseteq Seen
      /\ state'.hasError <=> state.hasError \/ \E w \in Refused : w[1] = b
  BY DEF Gone
<1>3. PICK add \in Seq(Entry) : \E p :
       /\ Rows' = Rows \o add /\ TakenFrom(b, add, p)
       /\ \A w \in Waiting : w[1] = b =>
            \/ EntryAt(w) \in Range(add)
            \/ IsDir(EntryAt(w)) /\ (~input.includeDir \/ EntryAt(w).path \in lost')
  BY DEF Gone
<1>4. PICK ds \in Seq(Entry) : \E p : dirLines' = dirLines \o Named(ds) /\ TakenFrom(b, ds, p)
  BY DEF Gone
<1>5. /\ Distinct(add)
      /\ \A e \in Range(add) : \E w \in Waiting : w[1] = b /\ EntryAt(w) = e
      /\ \A e \in Range(add) : e \in Given /\ Fingerprint(e) \in visited /\ e \notin Range(Rows)
  BY <1>3, TakenAre DEF ListInv
<1>6. /\ Distinct(ds)
      /\ \A e \in Range(ds) : \E w \in Waiting : w[1] = b /\ EntryAt(w) = e
      /\ \A e \in Range(ds) : e \in Given /\ Fingerprint(e) \in visited
  BY <1>4, TakenAre DEF ListInv
<1>7. /\ \A x : x \in Range(Rows') <=> x \in Range(Rows) \/ x \in Range(add)
      /\ Distinct(Rows) /\ Distinct(add) /\ Range(Rows) \cap Range(add) = {} => Distinct(Rows')
  <2>1. PICK V, P : V = Entry /\ P = Seq(V)
    OBVIOUS
  <2>2. PICK s \in P, t \in P : s = Rows /\ t = add
    BY <2>1, RowsType DEF RunInv
  <2>3. PICK c : c = Rows' /\ c = s \o t
    BY <1>3, <2>2
  <2>4. /\ \A x : x \in Range(c) <=> x \in Range(s) \/ x \in Range(t)
        /\ Distinct(s) /\ Distinct(t) /\ Range(s) \cap Range(t) = {} => Distinct(c)
    BY <2>1, <2>3, JoinedDistinct
  <2>5. QED
    BY <2>2, <2>4, <2>3
<1>8. /\ \A x : x \in Range(dirLines') <=> x \in Range(dirLines) \/ x \in Range(Named(ds))
      /\ Distinct(dirLines) /\ Distinct(Named(ds)) /\ Range(dirLines) \cap Range(Named(ds)) = {}
           => Distinct(dirLines')
  <2>1. PICK V, P : V = DirLine /\ P = Seq(V)
    OBVIOUS
  <2>2. PICK s \in P, t \in P : s = dirLines /\ t = Named(ds)
    BY <2>1, NamedType DEF RunInv, RunTypes
  <2>3. PICK c : c = dirLines' /\ c = s \o t
    BY <1>4, <2>2
  <2>4. /\ \A x : x \in Range(c) <=> x \in Range(s) \/ x \in Range(t)
        /\ Distinct(s) /\ Distinct(t) /\ Range(s) \cap Range(t) = {} => Distinct(c)
    BY <2>1, <2>3, JoinedDistinct
  <2>5. QED
    BY <2>2, <2>4, <2>3
<1>9. /\ Distinct(Named(ds))
      /\ \A x \in Range(Named(ds)) : \E e \in Range(ds) : x.path = e.path
  BY <1>6, NamedAre
<1>10. OnceInv'
  <2>1. Distinct(Rows')
    BY <1>5, <1>7 DEF ListInv, OnceInv
  <2>2. \A u, v \in Waiting' : EntryAt(u) = EntryAt(v) => u = v
    BY <1>2 DEF ListInv, OnceInv
  <2>3. \A v \in Waiting' : EntryAt(v) \notin Range(Rows') /\ Fingerprint(EntryAt(v)) \in visited
    <3>1. SUFFICES ASSUME NEW v \in Waiting' PROVE EntryAt(v) \notin Range(Rows') /\ Fingerprint(EntryAt(v)) \in visited
      OBVIOUS
    <3>2. v \in Waiting /\ v[1] # b
      BY <1>2
    <3>3. EntryAt(v) \notin Range(Rows) /\ Fingerprint(EntryAt(v)) \in visited
      BY <3>2 DEF ListInv, OnceInv
    <3>4. EntryAt(v) \notin Range(add)
      BY <1>5, <3>2 DEF ListInv, OnceInv
    <3>5. QED
      BY <1>7, <3>3, <3>4
  <2>4. \A e \in Range(Rows') : e \in Given /\ (Fingerprint(e) \in visited \/ input.single # <<>>)
    BY <1>5, <1>7 DEF ListInv, OnceInv
  <2>5. QED
    BY <1>1, <1>2, <2>1, <2>2, <2>3, <2>4 DEF OnceInv
<1>11. NamedInv'
  <2>1. Range(dirLines) \cap Range(Named(ds)) = {}
    <3>1. SUFFICES ASSUME NEW x \in Range(dirLines), x \in Range(Named(ds)) PROVE FALSE
      OBVIOUS
    <3>2. PICK f \in Given : /\ x.path = f.path
                             /\ \A w \in Waiting : EntryAt(w) # f
      BY DEF ListInv, NamedInv
    <3>3. PICK e \in Range(ds) : x.path = e.path
      BY <1>9, <3>1
    <3>4. e = f
      BY <1>6, <3>2, <3>3, FingerprintTells DEF RunInv
    <3>5. QED
      BY <1>6, <3>2, <3>3, <3>4
  <2>2. Distinct(dirLines')
    BY <1>8, <1>9, <2>1 DEF ListInv, NamedInv
  <2>3. ASSUME NEW x \in Range(dirLines')
        PROVE  \E e \in Given :
                 /\ x.path = e.path /\ Fingerprint(e) \in visited
                 /\ \A w \in Waiting' : EntryAt(w) # e
    <3>1. CASE x \in Range(dirLines)
      BY <1>2, <3>1 DEF ListInv, NamedInv
    <3>2. CASE x \in Range(Named(ds))
      <4>1. PICK e \in Range(ds) : x.path = e.path
        BY <1>9, <3>2
      <4>2. \A w \in Waiting' : EntryAt(w) # e
        BY <1>2, <1>6, <4>1 DEF ListInv, OnceInv
      <4>3. QED
        BY <1>6, <4>1, <4>2
    <3>3. QED
      BY <1>8, <2>3, <3>1, <3>2
  <2>4. QED
    BY <1>1, <1>2, <2>2, <2>3 DEF NamedInv
<1>12. CoverInv'
  <2>1. ASSUME NEW e, Accounted(e) PROVE Accounted(e)'
    BY <1>2, <1>7, <2>1 DEF Accounted
  <2>2. ASSUME NEW e \in Given, Fingerprint(e) \in visited
        PROVE  Accounted(e)' \/ \E w \in Waiting' \cup Refused' : EntryAt(w) = e
    <3>1. CASE Accounted(e)
      BY <2>1, <3>1
    <3>2. CASE \E w \in Waiting : EntryAt(w) = e
      <4>1. PICK w \in Waiting : EntryAt(w) = e
        BY <3>2
      <4>2. CASE w[1] # b
        BY <1>2, <4>1, <4>2
      <4>3. CASE w[1] = b
        BY <1>2, <1>3, <1>7, <4>1, <4>3 DEF Accounted
      <4>4. QED
        BY <4>2, <4>3
    <3>3. CASE \E w \in Refused : EntryAt(w) = e
      <4>1. PICK w \in Refused : EntryAt(w) = e
        BY <3>3
      <4>2. CASE w[1] # b
        BY <1>2, <4>1, <4>2
      <4>3. CASE w[1] = b
        <5>1. e.dev \in input.dead
          BY <4>1 DEF ListInv, CoverInv
        <5>2. QED
          BY <1>2, <4>3, <5>1 DEF Accounted
      <4>4. QED
        BY <4>2, <4>3
    <3>4. QED
      BY <2>2, <3>1, <3>2, <3>3 DEF ListInv, CoverInv
  <2>3. \A w \in Seen' : w[2] > IterationLimit \/ Fingerprint(EntryAt(w)) \in visited
    BY <1>2 DEF ListInv, CoverInv
  <2>4. \A w \in Refused' : EntryAt(w).dev \in input.dead
    BY <1>2 DEF ListInv, CoverInv
  <2>5. Range(input.single) \subseteq Range(Rows')
    BY <1>2, <1>7 DEF ListInv, CoverInv
  <2>6. QED
    BY <1>1, <1>2, <2>2, <2>3, <2>4, <2>5 DEF CoverInv
<1>13. QED
  BY <1>10, <1>11, <1>12 DEF ListInv

-----------------------------------------------------------------------------
(* Each entry is listed once. *)

\* The invariant of the list holds at the start,
LEMMA InitListInv == Init => ListInv
<1> SUFFICES ASSUME Init PROVE ListInv
  OBVIOUS
<1>1. RunInv
  BY InitRunInv
<1>2. /\ tp = <<>> /\ tasks = <<>> /\ printed = <<>> /\ dirLines = <<>> /\ visited = {}
      /\ phase = "seed"
  BY DEF Init
<1>3. Live = {} /\ DOMAIN tp = {}
  BY <1>1, <1>2 DEF RunInv, CountInv
<1>4. Waiting = {} /\ Refused = {} /\ Seen = {}
  BY <1>3 DEF Waiting, Refused, Seen, LookedUpIn
<1>5. Rows = <<>>
  <2>1. [k \in DOMAIN printed |-> printed[k].entry] = <<>> /\ <<>> \o <<>> = <<>>
    BY <1>2
  <2>2. QED
    BY <1>2, <2>1 DEF Rows
<1>6. OnceInv
  BY <1>4, <1>5 DEF OnceInv, Distinct, Range
<1>7. NamedInv
  BY <1>2, <1>4 DEF NamedInv, Distinct, Range
<1>8. CoverInv
  BY <1>2, <1>4 DEF CoverInv, Started
<1>9. QED
  BY <1>6, <1>7, <1>8 DEF ListInv

\* and every step keeps it.
LEMMA NextKeepsList ==
  ASSUME RunInv, ListInv, [Next]_vars
  PROVE  ListInv'
BY Turns, SameList, StartsList, OneList, GoneList

\* In every run an entry is listed when the first of its spots is, and every spot of
\* a batch that is done is listed, a duplicate, or accounted for
\* (batch_dedup_worker, process_completed_batch).
THEOREM RunIsListed == Spec => [](RunInv /\ ListInv)
<1>1. Init => RunInv /\ ListInv
  BY InitRunInv, InitListInv
<1>2. RunInv /\ ListInv /\ [Next]_vars => (RunInv /\ ListInv)'
  BY NextKeepsRun, NextKeepsList
<1>3. QED
  BY <1>1, <1>2, PTL DEF Spec

\* How often an entry is listed.
LEMMA TimesIs ==
  ASSUME Distinct(Rows), NEW e
  PROVE  Times(e) = IF e \in Range(Rows) THEN 1 ELSE 0
<1>1. CASE e \in Range(Rows)
  <2>1. PICK k \in DOMAIN Rows : Rows[k] = e
    BY <1>1 DEF Range
  <2>2. {j \in DOMAIN Rows : Rows[j] = e} = {k}
    BY <2>1 DEF Distinct
  <2>3. QED
    BY <1>1, <2>2, FS_Singleton DEF Times
<1>2. CASE e \notin Range(Rows)
  <2>1. {j \in DOMAIN Rows : Rows[j] = e} = {}
    BY <1>2 DEF Range
  <2>2. QED
    BY <1>2, <2>1, FS_EmptySet DEF Times
<1>3. QED
  BY <1>1, <1>2

\* At the end every place was seen, and none waits.
LEMMA EndIs ==
  ASSUME RunInv, phase \in {"finalize", "done"}, born = NumThreads
  PROVE  Seen = Spots /\ Waiting = {} /\ Refused = {}
<1>1. Live = {} /\ coming = <<>> /\ retQ = <<>>
  BY DEF RunInv, CountInv, Ended
<1>2. Waiting = {} /\ Refused = {}
  BY <1>1 DEF Waiting, Refused, LookedUpIn
<1>3. Len(tp) = Len(input.batches)
  <2>1. Len(coming) = 0 /\ Len(retQ) = 0 /\ Len(tp) \in Nat
    BY <1>1, LenProperties DEF RunInv, RunTypes
  <2>2. QED
    BY <2>1 DEF RunInv, ComingInv
<1>4. DOMAIN tp = DOMAIN input.batches
  BY <1>3, InputAssumption, LenProperties DEF RunInv, RunTypes
<1>5. Seen = Spots
  BY <1>1, <1>4, SpotIs DEF Seen
<1>6. QED
  BY <1>2, <1>5

\* The invariants are what EachOnce says.
LEMMA ListedOnceAll ==
  ASSUME RunInv, ListInv
  PROVE  EachOnce
<1>1. \A e \in Given : Times(e) <= 1
  BY TimesIs DEF ListInv, OnceInv
<1>2. IsInjective(dirLines)
  BY DEF ListInv, NamedInv, Distinct, IsInjective
<1>3. ASSUME phase \in {"finalize", "done"}, born = NumThreads, NEW e \in Given
      PROVE  \/ Times(e) = 1
             \/ e.dev \in input.dead /\ ExitStatus = 1
             \/ IsDir(e) /\ (~input.includeDir \/ e.path \in lost)
             \/ Behind(e)
  <2>1. Seen = Spots /\ Waiting = {} /\ Refused = {}
    BY <1>3, EndIs
  <2>2. ASSUME Accounted(e)
        PROVE  \/ Times(e) = 1
               \/ e.dev \in input.dead /\ ExitStatus = 1
               \/ IsDir(e) /\ (~input.includeDir \/ e.path \in lost)
    <3>1. e \in Range(Rows) => Times(e) = 1
      BY TimesIs DEF ListInv, OnceInv
    <3>2. state.hasError => ExitStatus = 1
      BY DEF ExitStatus
    <3>3. QED
      BY <2>2, <3>1, <3>2 DEF Accounted
  <2>3. CASE Fingerprint(e) \in visited
    BY <2>1, <2>2, <2>3 DEF ListInv, CoverInv
  <2>4. CASE e \in Range(input.single)
    <3>1. e \in Range(Rows)
      BY <1>3, <2>4 DEF ListInv, CoverInv, Started
    <3>2. QED
      BY <2>2, <3>1 DEF Accounted
  <2>5. CASE Fingerprint(e) \notin visited /\ e \notin Range(input.single)
    <3>1. PICK w \in Spots : EntryAt(w) = e
      BY <2>5, GivenIs
    <3>2. w[2] > IterationLimit
      BY <2>1, <2>5, <3>1 DEF ListInv, CoverInv
    <3>3. Behind(e)
      BY <3>1, <3>2, SpotIs DEF Behind, EntryAt
    <3>4. QED
      BY <3>3
  <2>6. QED
    BY <2>3, <2>4, <2>5
<1>4. QED
  BY <1>1, <1>2, <1>3 DEF EachOnce

\* For every input, every number of threads and every capacity of the pool, whatever
\* the order in which the threads look the batches up: an entry that came twice is
\* listed once, and at the end all that came is listed, but for what the exit status,
\* --dir and the limit explain (batch_dedup_worker, process_completed_batch,
\* drain_completed_batches, main_loop_run).
THEOREM EachEntryOnce == Spec => []EachOnce
<1>1. RunInv /\ ListInv => EachOnce
  BY ListedOnceAll
<1>2. QED
  BY <1>1, RunIsListed, PTL

-----------------------------------------------------------------------------
(* Remainders. *)

\* A remainder, and the number that it is of.
LEMMA RemainderIs ==
  ASSUME NEW W \in Nat \ {0}, NEW a \in Nat
  PROVE  a % W \in 0 .. W - 1 /\ a \div W \in Int /\ a = W * (a \div W) + (a % W)
<1> DEFINE q == a \div W
<1>1. q \in Int /\ a % W \in Int /\ a = W * q + (a % W)
  OBVIOUS
<1>2. a % W \in 0 .. W - 1
  OBVIOUS
<1>3. QED
  BY <1>1, <1>2

\* There is one remainder.
LEMMA RemainderOne ==
  ASSUME NEW W \in Nat \ {0}, NEW a \in Nat, NEW q \in Int, NEW r \in 0 .. W - 1, a = W * q + r
  PROVE  a % W = r
<1>1. PICK p \in Int, s \in Int : p = a \div W /\ s = a % W /\ a = W * p + s /\ s \in 0 .. W - 1
  BY RemainderIs
<1>2. W * q - W * p = W * (q - p)
  BY <1>1
<1>3. q - p >= 1 => W * (q - p) >= W
  BY <1>1
<1>4. q - p <= -1 => W * (q - p) <= -W
  BY <1>1
<1>5. q - p = 0 \/ q - p >= 1 \/ q - p <= -1
  BY <1>1
<1>6. W * (q - p) = s - r
  <2>1. PICK x \in Int, y \in Int : x = W * q /\ y = W * p
    BY <1>1
  <2>2. a = x + r /\ a = y + s
    BY <1>1, <2>1
  <2>3. x - y = s - r
    BY <1>1, <2>2
  <2>4. QED
    BY <1>2, <2>1, <2>3
<1>7. q = p
  BY <1>1, <1>3, <1>4, <1>5, <1>6
<1>8. W * p + r = W * p + s
  BY <1>1, <1>7
<1>9. W * p \in Int
  BY <1>1
<1>10. r = s
  BY <1>1, <1>8, <1>9
<1>11. s = a % W
  BY <1>1
<1>12. QED
  BY ONLY <1>10, <1>11

\* The remainder of the next number.
LEMMA NextRemainder ==
  ASSUME NEW W \in Nat \ {0}, NEW a \in Nat
  PROVE  (a + 1) % W = (IF a % W = W - 1 THEN 0 ELSE (a % W) + 1)
<1>1. PICK p \in Int, s \in 0 .. W - 1 : s = a % W /\ a = W * p + s
  BY RemainderIs
<1>2. CASE s = W - 1
  <2>1. W * (p + 1) = W * p + W
    BY <1>1
  <2>2. a + 1 = W * (p + 1) + 0
    BY <1>1, <1>2, <2>1
  <2>3. PICK b \in Nat : b = a + 1
    OBVIOUS
  <2>4. 0 \in 0 .. W - 1 /\ p + 1 \in Int /\ b = W * (p + 1) + 0
    BY <1>1, <2>2, <2>3
  <2>5. b % W = 0
    BY <2>4, RemainderOne
  <2>6. QED
    BY <1>1, <1>2, <2>3, <2>5
<1>3. CASE s # W - 1
  <2>1. s + 1 \in 0 .. W - 1 /\ a + 1 = W * p + (s + 1)
    BY <1>1, <1>3
  <2>2. (a + 1) % W = s + 1
    BY <2>1, RemainderOne
  <2>3. QED
    BY <1>1, <1>3, <2>2
<1>4. QED
  BY <1>2, <1>3

\* A whole turn later the remainder is the same.
LEMMA SameRemainder ==
  ASSUME NEW W \in Nat \ {0}, NEW a \in Nat
  PROVE  (a + W) % W = a % W
<1>1. PICK p \in Int, s \in 0 .. W - 1 : s = a % W /\ a = W * p + s
  BY RemainderIs
<1>2. W * (p + 1) = W * p + W
  BY <1>1
<1>3. a + W = W * (p + 1) + s
  BY <1>1, <1>2
<1>4. PICK b \in Nat : b = a + W
  OBVIOUS
<1>5. p + 1 \in Int /\ b = W * (p + 1) + s
  BY <1>3, <1>4
<1>6. b % W = s
  BY <1>5, RemainderOne
<1>7. QED
  BY <1>1, <1>4, <1>6

\* A number below the divisor is its own remainder.
LEMMA SmallRemainder ==
  ASSUME NEW W \in Nat \ {0}, NEW a \in Nat, a < W
  PROVE  a % W = a
OBVIOUS

\* Two numbers less than one turn apart have different remainders.
LEMMA OtherRemainder ==
  ASSUME NEW c \in Nat \ {0}, NEW x \in Nat, NEW y \in Nat, x < y, y - x < c
  PROVE  x % c # y % c
<1> DEFINE q == x \div c
           r == y \div c
<1>1. /\ q \in Int /\ r \in Int
      /\ x % c \in Int /\ y % c \in Int
      /\ x = c * q + (x % c)
      /\ y = c * r + (y % c)
  OBVIOUS
<1> SUFFICES ASSUME x % c = y % c PROVE FALSE
  OBVIOUS
<1> HIDE DEF q, r
<1>2. y - x = c * r - c * q
  BY <1>1
<1>3. c * r - c * q = c * (r - q)
  BY <1>1
<1>4. r - q >= 1 => c * (r - q) >= c
  BY <1>1
<1>5. r - q <= 0 => c * (r - q) <= 0
  BY <1>1
<1>6. QED
  BY <1>1, <1>2, <1>3, <1>4, <1>5

-----------------------------------------------------------------------------
(* The ring of samples. *)

Sample == [at : Int, counts : [Counters -> Int]]
NoSample == [at |-> 0, counts |-> [what \in Counters |-> 0]]
Rates == [Counters -> Int \X Int]
StatsType ==
  [samples : [0 .. RateWindow - 1 -> Sample], head : Int, filled : BOOLEAN, last : Int,
   rate : Rates, max : Rates]

\* The samples grow older to the front.
Ordered(q) ==
  /\ \A k \in DOMAIN q : q[k].at > 0
  /\ \A j, k \in DOMAIN q : j < k => q[j].at < q[k].at

\* The ring st holds the last samples of q, each at its number modulo the window,
\* and is full with the second round.
RingOf(st, q) ==
  /\ st.head = Len(q) % RateWindow
  /\ st.filled <=> Len(q) >= 2 * RateWindow
  /\ st.last = IF Len(q) = 0 THEN 0 ELSE q[Len(q)].at
  /\ \A k \in DOMAIN q : k > Len(q) - RateWindow => st.samples[k % RateWindow] = q[k]
  /\ Len(q) < RateWindow => st.samples[0] = NoSample

\* The order goes on with a later sample.
LEMMA OrderedGrows ==
  ASSUME NEW q \in Seq(Sample), Ordered(q), NEW s \in Sample, s.at > 0,
         Len(q) # 0 => s.at > q[Len(q)].at
  PROVE  Ordered(Append(q, s))
<1>1. PICK n \in Nat : n = Len(q) /\ DOMAIN q = 1 .. n
  BY LenProperties
<1>2. PICK r : r = Append(q, s)
  OBVIOUS
<1>3. DOMAIN r = 1 .. n + 1 /\ r[n + 1] = s /\ \A k \in 1 .. n : r[k] = q[k]
  <2>1. r \in Seq(Sample) /\ Len(r) = n + 1 /\ r[n + 1] = s /\ \A k \in 1 .. n : r[k] = q[k]
    BY <1>1, <1>2, AppendProperties
  <2>2. QED
    BY <2>1, LenProperties
<1>4. \A k \in 1 .. n + 1 : k = n + 1 \/ k \in 1 .. n
  OBVIOUS
<1>5. \A k \in 1 .. n : q[k].at \in Int
  <2>1. \A k \in 1 .. n : q[k] \in Sample
    BY <1>1, ElementOfSeq
  <2>2. QED
    BY <2>1 DEF Sample
<1>6. \A k \in 1 .. n : q[k].at < s.at
  <2>1. SUFFICES ASSUME NEW k \in 1 .. n PROVE q[k].at < s.at
    OBVIOUS
  <2>2. n \in 1 .. n /\ q[n].at < s.at /\ s.at \in Int
    BY <1>1 DEF Sample
  <2>3. k = n \/ q[k].at < q[n].at
    BY <1>1, <2>2 DEF Ordered
  <2>4. QED
    BY <1>5, <2>2, <2>3
<1>7. \A k \in 1 .. n + 1 : r[k].at > 0
  BY <1>1, <1>3, <1>4 DEF Ordered
<1>8. \A j, k \in 1 .. n + 1 : j < k => r[j].at < r[k].at
  <2>1. SUFFICES ASSUME NEW j \in 1 .. n + 1, NEW k \in 1 .. n + 1, j < k PROVE r[j].at < r[k].at
    OBVIOUS
  <2>2. j \in 1 .. n
    BY <2>1
  <2>3. CASE k \in 1 .. n
    BY <1>1, <1>3, <2>1, <2>2, <2>3 DEF Ordered
  <2>4. CASE k = n + 1
    BY <1>3, <1>6, <2>2, <2>4
  <2>5. QED
    BY <1>4, <2>3, <2>4
<1>9. QED
  BY <1>2, <1>3, <1>7, <1>8 DEF Ordered

\* A sample more in the ring.
LEMMA RingGrows ==
  ASSUME NEW q \in Seq(Sample), NEW st \in StatsType, RingOf(st, q), Ordered(q),
         NEW now \in Int, now > 0, NEW counts \in [Counters -> Int]
  PROVE  /\ Sampled(st, now, counts) \in StatsType
         /\ RingOf(Sampled(st, now, counts), Append(q, [at |-> now, counts |-> counts]))
<1>1. PICK W \in Nat \ {0, 1} : W = RateWindow
  BY WindowAssumption
<1>2. PICK n \in Nat : n = Len(q) /\ DOMAIN q = 1 .. n
  BY LenProperties
<1>3. PICK s \in Sample : s = [at |-> now, counts |-> counts]
  BY DEF Sample
<1>4. PICK h : h = (st.head + 1) % W
  OBVIOUS
<1>5. PICK r : r = Append(q, s)
  OBVIOUS
<1>6. /\ r \in Seq(Sample) /\ Len(r) = n + 1 /\ DOMAIN r = 1 .. n + 1
      /\ r[n + 1] = s /\ \A k \in 1 .. n : r[k] = q[k]
  <2>1. r \in Seq(Sample) /\ Len(r) = n + 1 /\ r[n + 1] = s /\ \A k \in 1 .. n : r[k] = q[k]
    BY <1>2, <1>5, AppendProperties
  <2>2. QED
    BY <2>1, LenProperties
<1>7. h = (n + 1) % W /\ h \in 0 .. W - 1
  <2>1. n % W \in 0 .. W - 1
    BY <1>1, RemainderIs
  <2>2. PICK m \in Int : m = n % W /\ m \in 0 .. W - 1
    BY <1>1, <2>1
  <2>3. st.head = m
    BY <1>1, <1>2, <2>2 DEF RingOf
  <2>4. (n + 1) % W = (IF m = W - 1 THEN 0 ELSE m + 1)
    BY <1>1, <2>2, NextRemainder
  <2>5. CASE m = W - 1
    <3>1. h = W % W
      BY <1>1, <1>4, <2>3, <2>5
    <3>2. W = W * 1 + 0 /\ 0 \in 0 .. W - 1
      BY <1>1
    <3>3. W % W = 0
      BY <1>1, <3>2, RemainderOne
    <3>4. QED
      BY <1>1, <2>4, <2>5, <3>1, <3>3
  <2>6. CASE m # W - 1
    <3>1. PICK x \in Nat : x = m + 1 /\ x < W
      BY <1>1, <2>2, <2>6
    <3>2. x % W = x
      BY <1>1, <3>1, SmallRemainder
    <3>3. QED
      BY <1>1, <1>4, <2>2, <2>3, <2>4, <2>6, <3>1, <3>2
  <2>7. QED
    BY <2>5, <2>6
<1>8. PICK f \in BOOLEAN : f = (st.filled \/ (h = 0 /\ st.samples[0].at # 0))
  OBVIOUS
<1>9. PICK g : g = [st.samples EXCEPT ![h] = s]
  OBVIOUS
<1>10. st.samples \in [0 .. W - 1 -> Sample]
  BY <1>1 DEF StatsType
<1>11. g \in [0 .. W - 1 -> Sample] /\ g[h] = s /\ \A i \in 0 .. W - 1 : i # h => g[i] = st.samples[i]
  BY <1>7, <1>9, <1>10
<1>12. PICK t : t = Sampled(st, now, counts)
  OBVIOUS
<1>13. t = [st EXCEPT !.head = h, !.filled = f, !.samples = g, !.last = now]
  <2>1. t = [st EXCEPT !.head = h, !.filled = (st.filled \/ (h = 0 /\ st.samples[0].at # 0)),
                       !.samples[h] = s, !.last = now]
    BY <1>1, <1>3, <1>4, <1>12, Zenon DEF Sampled
  <2>2. QED
    BY <1>8, <1>9, <2>1
<1>14. t \in StatsType /\ t.head = h /\ t.filled = f /\ t.samples = g /\ t.last = now
  <2>1. /\ st = [samples |-> st.samples, head |-> st.head, filled |-> st.filled, last |-> st.last,
                rate |-> st.rate, max |-> st.max]
        /\ st.rate \in Rates /\ st.max \in Rates
    BY DEF StatsType
  <2>2. t = [samples |-> g, head |-> h, filled |-> f, last |-> now, rate |-> st.rate, max |-> st.max]
    BY <1>13, <2>1
  <2>3. h \in Int /\ f \in BOOLEAN /\ g \in [0 .. W - 1 -> Sample] /\ now \in Int
    BY <1>7, <1>8, <1>11
  <2>4. t \in [samples : [0 .. W - 1 -> Sample], head : Int, filled : BOOLEAN, last : Int,
                rate : Rates, max : Rates]
    BY ONLY <2>1, <2>2, <2>3
  <2>5. QED
    BY <1>1, <2>2, <2>4 DEF StatsType
<1>15. f <=> n + 1 >= 2 * W
  <2>1. st.filled <=> n >= 2 * W
    BY <1>1, <1>2 DEF RingOf
  <2>2. f <=> (st.filled \/ (h = 0 /\ st.samples[0].at # 0))
    BY <1>8, Zenon
  <2>3. PICK b \in Nat : b = n + 1
    OBVIOUS
  <2>4. CASE n + 1 < W
    <3>1. b < W /\ b # 0
      BY <1>1, <2>4, <2>3
    <3>2. b % W = b
      BY <1>1, <3>1, SmallRemainder
    <3>3. h # 0
      BY <1>7, <2>3, <3>1, <3>2
    <3>4. ~(n >= 2 * W) /\ ~(n + 1 >= 2 * W)
      BY <1>1, <2>4
    <3>5. QED
      BY ONLY <2>1, <2>2, <3>3, <3>4
  <2>5. CASE n + 1 = W
    <3>1. st.samples[0] = NoSample
      BY <1>1, <1>2, <2>5 DEF RingOf
    <3>2. st.samples[0].at = 0
      BY <3>1 DEF NoSample
    <3>3. ~(n >= 2 * W) /\ ~(n + 1 >= 2 * W)
      BY <1>1, <2>5
    <3>4. QED
      BY ONLY <2>1, <2>2, <3>2, <3>3
  <2>6. CASE W < n + 1 /\ n + 1 < 2 * W
    <3>1. PICK x \in Nat : x = n + 1 - W /\ x < W /\ x # 0
      BY <1>1, <2>6
    <3>2. x % W = x
      BY <1>1, <3>1, SmallRemainder
    <3>3. (x + W) % W = x % W
      BY <1>1, SameRemainder
    <3>4. x + W = n + 1
      BY <1>1, <3>1
    <3>5. h # 0
      BY <1>7, <3>1, <3>2, <3>3, <3>4
    <3>6. ~(n >= 2 * W) /\ ~(n + 1 >= 2 * W)
      BY <1>1, <2>6
    <3>7. QED
      BY ONLY <2>1, <2>2, <3>5, <3>6
  <2>7. CASE n + 1 = 2 * W
    <3>1. W % W = 0
      <4>1. W = W * 1 + 0 /\ 0 \in 0 .. W - 1
        BY <1>1
      <4>2. QED
        BY <1>1, <4>1, RemainderOne
    <3>2. h = 0
      <4>1. (W + W) % W = W % W
        BY <1>1, SameRemainder
      <4>2. W + W = n + 1
        BY <1>1, <2>7
      <4>3. QED
        BY <1>7, <3>1, <4>1, <4>2
    <3>3. W \in 1 .. n /\ W > n - W
      BY <1>1, <2>7
    <3>4. st.samples[0] = q[W]
      BY <1>1, <1>2, <3>1, <3>3 DEF RingOf
    <3>5. q[W].at > 0
      BY <1>2, <3>3 DEF Ordered
    <3>6. q[W].at \in Int
      <4>1. q[W] \in Sample
        BY <1>2, <3>3, ElementOfSeq
      <4>2. QED
        BY <4>1 DEF Sample
    <3>7. st.samples[0].at # 0
      BY <3>4, <3>5, <3>6
    <3>8. n + 1 >= 2 * W
      BY <1>1, <2>7
    <3>9. QED
      BY ONLY <2>2, <3>2, <3>7, <3>8
  <2>8. CASE n >= 2 * W
    <3>1. n + 1 >= 2 * W
      BY <1>1, <2>8
    <3>2. QED
      BY ONLY <2>1, <2>8, <2>2, <3>1
  <2>9. QED
    BY <1>1, <2>4, <2>5, <2>6, <2>7, <2>8
<1>16. \A k \in 1 .. n + 1 : k > n + 1 - W => g[k % W] = r[k]
  <2>1. SUFFICES ASSUME NEW k \in 1 .. n + 1, k > n + 1 - W PROVE g[k % W] = r[k]
    OBVIOUS
  <2>2. CASE k = n + 1
    BY <1>6, <1>7, <1>11, <2>2
  <2>3. CASE k # n + 1
    <3>1. k \in 1 .. n /\ k > n - W
      BY <1>1, <2>1, <2>3
    <3>2. st.samples[k % W] = q[k]
      BY <1>1, <1>2, <3>1 DEF RingOf
    <3>3. PICK x \in Nat, y \in Nat : x = k /\ y = n + 1 /\ x < y /\ y - x < W
      BY <1>1, <2>1, <2>3
    <3>4. x % W # y % W
      BY <1>1, <3>3, OtherRemainder
    <3>5. k % W # h /\ k % W \in 0 .. W - 1
      BY <1>1, <1>7, <3>3, <3>4, RemainderIs
    <3>6. QED
      BY <1>6, <1>11, <3>1, <3>2, <3>5
  <2>4. QED
    BY <2>2, <2>3
<1>17. n + 1 < W => g[0] = NoSample
  <2>1. SUFFICES ASSUME n + 1 < W PROVE g[0] = NoSample
    OBVIOUS
  <2>2. PICK b \in Nat : b = n + 1 /\ b < W
    BY <2>1
  <2>3. b % W = b
    BY <1>1, <2>2, SmallRemainder
  <2>4. h = n + 1 /\ 0 \in 0 .. W - 1 /\ h # 0
    BY <1>1, <1>7, <2>3, <2>2
  <2>5. st.samples[0] = NoSample
    BY <1>1, <1>2, <2>1 DEF RingOf
  <2>6. QED
    BY <1>1, <1>11, <2>4, <2>5
<1>18. RingOf(t, r)
  <2>1. t.last = IF Len(r) = 0 THEN 0 ELSE r[Len(r)].at
    BY <1>3, <1>6, <1>14
  <2>2. QED
    BY <1>1, <1>6, <1>7, <1>14, <1>15, <1>16, <1>17, <2>1 DEF RingOf
<1>19. QED
  BY <1>3, <1>5, <1>12, <1>14, <1>18

-----------------------------------------------------------------------------
(* What a ring goes back to. *)

CountsType == [Counters -> Int]

\* The counters of a sample are numbers.
LEMMA CountsAre ==
  ASSUME state.dirs \in Int, state.files \in Int, state.dequeued \in Int
  PROVE  Counts \in CountsType
<1>1. PICK r : r = Counts
  OBVIOUS
<1>2. r = [dirs |-> state.dirs, files |-> state.files, dequeued |-> state.dequeued]
  BY <1>1 DEF Counts
<1>3. DOMAIN r = Counters
  BY <1>2 DEF Counters
<1>4. \A what \in Counters : r[what] \in Int
  BY <1>2 DEF Counters
<1>5. r = [what \in DOMAIN r |-> r[what]]
  BY <1>2
<1>6. QED
  BY <1>1, <1>3, <1>4, <1>5 DEF CountsType

\* The sample that a ring of the samples q goes back to, q being as long as n.
Origin(q, n) ==
  IF n < RateWindow THEN NoSample
  ELSE IF n < 2 * RateWindow THEN q[RateWindow] ELSE q[n - RateWindow + 1]

\* What the ring has at its oldest place is the sample that the rates go back to.
LEMMA OldestIs ==
  ASSUME NEW q \in Seq(Sample), NEW st \in StatsType, RingOf(st, q)
  PROVE  st.samples[Oldest(st)] = Origin(q, Len(q))
<1>1. PICK W \in Nat \ {0, 1} : W = RateWindow
  BY WindowAssumption
<1>2. PICK n \in Nat : n = Len(q) /\ DOMAIN q = 1 .. n
  BY LenProperties
<1>3. st.head = n % W /\ (st.filled <=> n >= 2 * W)
      /\ (\A k \in 1 .. n : k > n - W => st.samples[k % W] = q[k])
      /\ (n < W => st.samples[0] = NoSample)
  BY <1>1, <1>2 DEF RingOf
<1>4. W % W = 0
  <2>1. W = W * 1 + 0 /\ 0 \in 0 .. W - 1
    BY <1>1
  <2>2. QED
    BY <1>1, <2>1, RemainderOne
<1>5. CASE n < W
  <2>1. ~(n >= 2 * W)
    BY <1>1, <1>5
  <2>2. Oldest(st) = 0
    BY <1>3, <2>1 DEF Oldest
  <2>3. Origin(q, n) = NoSample
    BY <1>1, <1>5 DEF Origin
  <2>4. QED
    BY <1>2, <1>3, <1>5, <2>2, <2>3
<1>6. CASE n >= W /\ n < 2 * W
  <2>1. ~(n >= 2 * W) /\ ~(n < W)
    BY <1>1, <1>6
  <2>2. Oldest(st) = 0
    BY <1>3, <2>1 DEF Oldest
  <2>3. Origin(q, n) = q[W]
    BY <1>1, <1>6, <2>1 DEF Origin
  <2>4. W \in 1 .. n /\ W > n - W
    BY <1>1, <1>6
  <2>5. st.samples[0] = q[W]
    BY <1>3, <1>4, <2>4
  <2>6. QED
    BY <1>2, <2>2, <2>3, <2>5
<1>7. CASE n >= 2 * W
  <2>1. ~(n < W) /\ ~(n < 2 * W)
    BY <1>1, <1>7
  <2>2. PICK k \in 1 .. n : k = n - W + 1 /\ k > n - W
    BY <1>1, <1>7
  <2>3. Origin(q, n) = q[k]
    BY <1>1, <2>1, <2>2 DEF Origin
  <2>4. Oldest(st) = ((n % W) + 1) % W
    BY <1>1, <1>3, <1>7 DEF Oldest
  <2>5. ((n % W) + 1) % W = (n + 1) % W
    <3>1. n % W \in 0 .. W - 1
      BY <1>1, RemainderIs
    <3>2. PICK m \in Nat : m = n % W /\ m \in 0 .. W - 1
      BY <1>1, <3>1
    <3>3. m % W = m
      BY <1>1, <3>2, SmallRemainder
    <3>4. (m + 1) % W = (IF m % W = W - 1 THEN 0 ELSE (m % W) + 1)
      BY <1>1, <3>2, NextRemainder
    <3>5. (n + 1) % W = (IF n % W = W - 1 THEN 0 ELSE (n % W) + 1)
      BY <1>1, <1>2, NextRemainder
    <3>6. QED
      BY ONLY <3>2, <3>3, <3>4, <3>5
  <2>6. k \in Nat /\ k + W = n + 1
    BY <1>1, <2>2
  <2>7. (k + W) % W = k % W
    BY <1>1, <2>6, SameRemainder
  <2>8. Oldest(st) = k % W
    BY <2>4, <2>5, <2>6, <2>7
  <2>9. QED
    BY <1>2, <1>3, <2>2, <2>3, <2>8
<1>8. QED
  BY <1>1, <1>2, <1>5, <1>6, <1>7

\* The origin is older than the sample, but for the one that ends a round.
LEMMA OriginIsOlder ==
  ASSUME NEW q \in Seq(Sample), Ordered(q), Len(q) # 0, Len(q) # RateWindow
  PROVE  q[Len(q)].at - Origin(q, Len(q)).at >= 1 /\ Origin(q, Len(q)) \in Sample
<1>1. PICK W \in Nat \ {0, 1} : W = RateWindow
  BY WindowAssumption
<1>2. PICK n \in Nat : n = Len(q) /\ DOMAIN q = 1 .. n
  BY LenProperties
<1>3. \A k \in 1 .. n : q[k] \in Sample /\ q[k].at \in Int
  <2>1. \A k \in 1 .. n : q[k] \in Sample
    BY <1>2, ElementOfSeq
  <2>2. QED
    BY <2>1 DEF Sample
<1>4. n \in 1 .. n /\ q[n].at > 0
  BY <1>2 DEF Ordered
<1>5. \A k \in 1 .. n : k < n => q[k].at < q[n].at
  BY <1>2, <1>4 DEF Ordered
<1>6. CASE n < W
  <2>1. Origin(q, n) = NoSample
    BY <1>1, <1>6 DEF Origin
  <2>2. NoSample.at = 0 /\ NoSample \in Sample
    BY DEF NoSample, Sample
  <2>3. QED
    BY <1>2, <1>3, <1>4, <2>1, <2>2
<1>7. CASE n >= W
  <2>1. PICK k \in 1 .. n : k < n /\ Origin(q, n) = q[k]
    <3>1. CASE n < 2 * W
      <4>1. W \in 1 .. n /\ W < n /\ ~(n < W)
        BY <1>1, <1>2, <1>7
      <4>2. Origin(q, n) = q[W]
        BY <1>1, <3>1, <4>1 DEF Origin
      <4>3. QED
        BY <4>1, <4>2
    <3>2. CASE n >= 2 * W
      <4>1. n - W + 1 \in 1 .. n /\ n - W + 1 < n /\ ~(n < W) /\ ~(n < 2 * W)
        BY <1>1, <1>2, <3>2
      <4>2. Origin(q, n) = q[n - W + 1]
        BY <1>1, <4>1 DEF Origin
      <4>3. QED
        BY <4>1, <4>2
    <3>3. QED
      BY <1>1, <3>1, <3>2
  <2>2. q[k].at < q[n].at /\ q[k].at \in Int /\ q[n].at \in Int /\ q[k] \in Sample
    BY <1>3, <1>4, <1>5, <2>1
  <2>3. q[n].at - q[k].at >= 1
    BY <2>2
  <2>4. QED
    BY <1>2, <2>1, <2>2, <2>3
<1>8. QED
  BY <1>1, <1>6, <1>7

-----------------------------------------------------------------------------
(* The rates of a sample. *)

\* The ring st has the rates of the samples q.
Growth(st, q) ==
  LET n == Len(q)
      old == Origin(q, n) IN
  n # 0 /\ n # RateWindow => \A what \in Counters :
    /\ st.rate[what] = <<q[n].counts[what] - old.counts[what], q[n].at - old.at>>
    /\ ~Exceeds(st.rate[what], st.max[what])

RingInv ==
  /\ clock \in Int /\ samples \in Seq(Sample) /\ stats \in StatsType
  /\ Ordered(samples) /\ RingOf(stats, samples) /\ Growth(stats, samples)

\* What update_statistics does with st when the sample is in the ring.
Updated(st, now, counts) ==
  LET oldest == st.samples[Oldest(st)]
      seconds == now - oldest.at
      rate == [what \in Counters |-> <<counts[what] - oldest.counts[what], seconds>>] IN
  IF seconds >= 1
  THEN [st EXCEPT !.rate = rate,
                  !.max = [what \in Counters |->
                             IF Exceeds(rate[what], @[what]) THEN rate[what] ELSE @[what]]]
  ELSE [st EXCEPT !.rate.dirs = SimpleRate(now, counts.dirs),
                  !.rate.files = SimpleRate(now, counts.files)]

\* update_statistics is the new sample and then the rates.
LEMMA UpdatedIs ==
  ASSUME NEW old, NEW now, NEW counts
  PROVE  UpdateStatistics(old, now, counts) = Updated(Sampled(old, now, counts), now, counts)
BY DEF UpdateStatistics, Updated

\* No rate exceeds the greater one of itself and the greatest so far.
LEMMA NoneExceeds ==
  ASSUME NEW r \in Int \X Int, NEW m \in Int \X Int
  PROVE  /\ ~Exceeds(r, IF Exceeds(r, m) THEN r ELSE m)
         /\ (IF Exceeds(r, m) THEN r ELSE m) \in Int \X Int
<1>1. ~Exceeds(r, r)
  BY DEF Exceeds
<1>2. QED
  BY <1>1

\* After a sample the rates are the growth since the one that they go back to.
LEMMA RatesGrow ==
  ASSUME NEW q \in Seq(Sample), NEW st \in StatsType, RingOf(st, q), Ordered(q), Len(q) # 0,
         NEW now, NEW counts, q[Len(q)] = [at |-> now, counts |-> counts],
         now \in Int, counts \in CountsType
  PROVE  /\ Updated(st, now, counts) \in StatsType
         /\ RingOf(Updated(st, now, counts), q)
         /\ Growth(Updated(st, now, counts), q)
<1>1. PICK W \in Nat \ {0, 1} : W = RateWindow
  BY WindowAssumption
<1>2. PICK n \in Nat : n = Len(q) /\ DOMAIN q = 1 .. n
  BY LenProperties
<1>3. PICK old : old = Origin(q, n)
  OBVIOUS
<1>4. st.samples[Oldest(st)] = old
  BY <1>2, <1>3, OldestIs
<1>5. PICK sec : sec = now - old.at
  OBVIOUS
<1>6. PICK rate : rate = [what \in Counters |-> <<counts[what] - old.counts[what], sec>>]
  OBVIOUS
<1>7. PICK max : max = [what \in Counters |->
                          IF Exceeds(rate[what], st.max[what]) THEN rate[what] ELSE st.max[what]]
  OBVIOUS
<1>8. PICK t : t = Updated(st, now, counts)
  OBVIOUS
<1>9. t = IF sec >= 1 THEN [st EXCEPT !.rate = rate, !.max = max]
          ELSE [st EXCEPT !.rate.dirs = SimpleRate(now, counts.dirs),
                          !.rate.files = SimpleRate(now, counts.files)]
  BY <1>4, <1>5, <1>6, <1>7, <1>8 DEF Updated
<1>10. /\ st = [samples |-> st.samples, head |-> st.head, filled |-> st.filled, last |-> st.last,
                rate |-> st.rate, max |-> st.max]
       /\ st.rate \in Rates /\ st.max \in Rates
       /\ st.samples \in [0 .. W - 1 -> Sample] /\ st.head \in Int /\ st.filled \in BOOLEAN
       /\ st.last \in Int
  BY <1>1 DEF StatsType
<1>11. \A x, y : x \in Rates /\ y \in Rates
                 => [samples |-> st.samples, head |-> st.head, filled |-> st.filled,
                     last |-> st.last, rate |-> x, max |-> y] \in StatsType
  BY <1>1, <1>10 DEF StatsType
<1>12. CASE n # W
  <2>1. sec >= 1 /\ old \in Sample /\ sec \in Int
    <3>1. q[n].at - old.at >= 1 /\ old \in Sample
      BY <1>1, <1>2, <1>3, <1>12, OriginIsOlder
    <3>2. q[n].at = now
      BY <1>2
    <3>3. QED
      BY <1>5, <3>1, <3>2 DEF Sample
  <2>2. t = [samples |-> st.samples, head |-> st.head, filled |-> st.filled, last |-> st.last,
             rate |-> rate, max |-> max]
    BY <1>9, <1>10, <2>1
  <2>3. \A what \in Counters : counts[what] \in Int /\ old.counts[what] \in Int
    <3>1. old.counts \in [Counters -> Int]
      BY <2>1 DEF Sample
    <3>2. QED
      BY <3>1 DEF CountsType
  <2>4. \A what \in Counters : rate[what] = <<counts[what] - old.counts[what], sec>>
                               /\ rate[what] \in Int \X Int
    BY <1>6, <2>1, <2>3
  <2>5. \A what \in Counters : ~Exceeds(rate[what], max[what]) /\ max[what] \in Int \X Int
    <3>1. SUFFICES ASSUME NEW what \in Counters
                   PROVE ~Exceeds(rate[what], max[what]) /\ max[what] \in Int \X Int
      OBVIOUS
    <3>2. PICK r \in Int \X Int : r = rate[what]
      BY <2>4
    <3>3. PICK m \in Int \X Int : m = st.max[what]
      BY <1>10 DEF Rates
    <3>4. max[what] = IF Exceeds(r, m) THEN r ELSE m
      BY <1>7, <3>2, <3>3
    <3>5. QED
      BY <3>2, <3>4, NoneExceeds
  <2>6. rate \in Rates /\ max \in Rates
    <3>1. DOMAIN rate = Counters /\ rate = [what \in DOMAIN rate |-> rate[what]]
      BY <1>6
    <3>2. DOMAIN max = Counters /\ max = [what \in DOMAIN max |-> max[what]]
      BY <1>7
    <3>3. QED
      BY <2>4, <2>5, <3>1, <3>2 DEF Rates
  <2>7. t \in StatsType
    BY <1>11, <2>2, <2>6
  <2>8. /\ t.samples = st.samples /\ t.head = st.head /\ t.filled = st.filled /\ t.last = st.last
        /\ t.rate = rate /\ t.max = max
    BY <2>2
  <2>9. RingOf(t, q)
    BY <2>8 DEF RingOf
  <2>10. Growth(t, q)
    <3>1. q[n].at = now /\ q[n].counts = counts
      BY <1>2
    <3>2. QED
      BY <1>2, <1>3, <1>5, <2>4, <2>5, <2>8, <3>1 DEF Growth
  <2>11. QED
    BY <1>8, <2>7, <2>9, <2>10
<1>13. CASE n = W
  <2>1. old = q[n]
    BY <1>1, <1>3, <1>13 DEF Origin
  <2>2. ~(sec >= 1)
    BY <1>2, <1>5, <2>1
  <2>3. PICK x \in Int \X Int, y \in Int \X Int :
          x = SimpleRate(now, counts.dirs) /\ y = SimpleRate(now, counts.files)
    <3>1. counts["dirs"] \in Int /\ counts["files"] \in Int
      BY DEF CountsType, Counters
    <3>2. \A c \in Int : SimpleRate(now, c) \in Int \X Int
      BY WindowAssumption DEF SimpleRate
    <3>3. QED
      BY <3>1, <3>2
  <2>4. PICK z : z = [st.rate EXCEPT !.dirs = x, !.files = y]
    OBVIOUS
  <2>5. z \in Rates
    BY <1>10, <2>3, <2>4 DEF Rates, Counters
  <2>6. t = [st EXCEPT !.rate.dirs = x, !.rate.files = y]
    BY <1>9, <2>2, <2>3
  <2>7. t = [samples |-> st.samples, head |-> st.head, filled |-> st.filled, last |-> st.last,
             rate |-> z, max |-> st.max]
    BY <1>10, <2>4, <2>6
  <2>8. t \in StatsType
    BY <1>10, <1>11, <2>5, <2>7
  <2>9. t.samples = st.samples /\ t.head = st.head /\ t.filled = st.filled /\ t.last = st.last
    BY <2>7
  <2>10. RingOf(t, q)
    BY <2>9 DEF RingOf
  <2>11. Growth(t, q)
    BY <1>1, <1>2, <1>13 DEF Growth
  <2>12. QED
    BY <1>8, <2>8, <2>10, <2>11
<1>14. QED
  BY <1>12, <1>13

-----------------------------------------------------------------------------
(* The monitor's steps. *)

\* The panel keeps the invariant of the ring.
LEMMA ProgressKeepsRing ==
  ASSUME RingInv, state.dirs \in Int, state.files \in Int, state.dequeued \in Int,
         NEW now \in clock .. clock + 2, PrintProgress(now)
  PROVE  RingInv'
<1>1. Counts \in CountsType
  BY CountsAre
<1>2. PICK n \in Nat : n = Len(samples)
  BY LenProperties DEF RingInv
<1>3. now \in Int /\ now - stats.last >= 1 /\ stats.last \in Int /\ clock' = now
  BY DEF RingInv, PrintProgress, SampleDue, StatsType
<1>4. PICK s \in Sample : s = [at |-> now, counts |-> Counts]
  BY <1>1, <1>3 DEF Sample, CountsType
<1>5. s.at = now
  BY <1>4
<1>6. now > 0 /\ (n # 0 => now > samples[n].at)
  <2>1. stats.last = IF n = 0 THEN 0 ELSE samples[n].at
    BY <1>2 DEF RingInv, RingOf
  <2>2. n # 0 => samples[n].at > 0 /\ samples[n].at \in Int
    <3>1. n # 0 => n \in DOMAIN samples /\ samples[n] \in Sample
      BY <1>2, LenProperties, ElementOfSeq DEF RingInv
    <3>2. QED
      BY <3>1 DEF RingInv, Ordered, Sample
  <2>3. QED
    BY <1>3, <2>1, <2>2
<1>7. PICK r : r = Append(samples, s)
  OBVIOUS
<1>8. /\ r \in Seq(Sample) /\ Len(r) = n + 1 /\ r[n + 1] = s
      /\ samples' = r
  <2>1. samples' = r
    BY <1>4, <1>7 DEF PrintProgress
  <2>2. QED
    BY <1>2, <1>7, <2>1, AppendProperties DEF RingInv
<1>9. Ordered(r)
  BY <1>2, <1>5, <1>6, <1>7, OrderedGrows DEF RingInv
<1>10. PICK st : st = Sampled(stats, now, Counts)
  OBVIOUS
<1>11. st \in StatsType /\ RingOf(st, r)
  BY <1>1, <1>3, <1>4, <1>6, <1>7, <1>10, RingGrows DEF RingInv, CountsType
<1>12. stats' = Updated(st, now, Counts)
  <2>1. stats' = UpdateStatistics(stats, now, Counts)
    BY DEF PrintProgress
  <2>2. QED
    BY <1>10, <2>1, UpdatedIs
<1>13. /\ Updated(st, now, Counts) \in StatsType
       /\ RingOf(Updated(st, now, Counts), r)
       /\ Growth(Updated(st, now, Counts), r)
  <2>1. Len(r) # 0 /\ r[Len(r)] = [at |-> now, counts |-> Counts]
    BY <1>2, <1>4, <1>8
  <2>2. PICK c : c = Counts
    OBVIOUS
  <2>3. QED
    BY <1>1, <1>3, <1>8, <1>9, <1>11, <2>1, <2>2, RatesGrow
<1>14. stats' \in StatsType /\ RingOf(stats, samples)' /\ Growth(stats, samples)'
  BY <1>8, <1>12, <1>13 DEF RingOf, Growth, Origin
<1>15. Ordered(samples)'
  BY <1>8, <1>9 DEF Ordered
<1>16. QED
  BY <1>3, <1>8, <1>14, <1>15 DEF RingInv

\* The invariant of the ring holds at the start.
LEMMA InitRingInv ==
  ASSUME Init
  PROVE  RingInv
<1>1. PICK W \in Nat \ {0, 1} : W = RateWindow
  BY WindowAssumption
<1>2. samples = <<>> /\ stats = NewStatistics /\ clock = StartTime
  BY DEF Init
<1>3. Len(samples) = 0 /\ DOMAIN samples = {} /\ samples \in Seq(Sample)
  BY <1>2
<1>4. NoSample \in Sample /\ NoRate \in Rates
  BY DEF NoSample, Sample, NoRate, Rates
<1>5. stats = [samples |-> [i \in 0 .. W - 1 |-> NoSample],
               head |-> 0, filled |-> FALSE, last |-> 0, rate |-> NoRate, max |-> NoRate]
  BY <1>1, <1>2 DEF NewStatistics, NoSample
<1>6. stats \in StatsType
  BY <1>1, <1>4, <1>5 DEF StatsType
<1>7. 0 % W = 0 /\ 0 < W /\ 0 \in 0 .. W - 1 /\ ~(0 >= 2 * W)
  BY <1>1
<1>8. RingOf(stats, samples)
  BY <1>1, <1>3, <1>5, <1>7 DEF RingOf
<1>9. QED
  BY <1>2, <1>3, <1>6, <1>8, WindowAssumption DEF RingInv, Ordered, Growth

\* Nobody but the monitor touches the ring.
LEMMA NextKeepsRing ==
  ASSUME RunTypes, RingInv, [Next]_vars
  PROVE  RingInv'
<1>1. CASE UNCHANGED monitorVars
  BY <1>1 DEF RingInv, monitorVars, Ordered, RingOf, Growth, Origin
<1>2. CASE \E now \in clock .. clock + 2 : PrintProgress(now)
  BY <1>2, ProgressKeepsRing DEF RunTypes
<1>3. QED
  <2> USE DEF vars, monitorVars, quiet
  <2>1. CASE Arrive \/ PrintRow \/ CannotCreate \/ UNCHANGED vars
    BY <1>1, <2>1 DEF Arrive, PrintRow, CannotCreate
  <2>2. CASE \E d \in dead : Recover(d)
    BY <1>1, <2>2 DEF Recover
  <2>3. CASE \E id \in DOMAIN input.renamed : Rename(id)
    BY <1>1, <2>3 DEF Rename
  <2>4. CASE MainStep
    <3>1. ASSUME NEW b, Dedup(b) PROVE UNCHANGED monitorVars
      BY <3>1 DEF Dedup
    <3>2. ASSUME NEW b, Process(b) PROVE UNCHANGED monitorVars
      BY <3>2 DEF Process
    <3>3. CASE Seed \/ Create \/ HandleBatch \/ RecvEnd \/ DrainEnd \/ Event
      BY <1>1, <3>3 DEF Seed, Create, HandleBatch, RecvEnd, DrainEnd, Event
    <3>4. CASE Check \/ Flush \/ DestroyPool \/ JoinPool \/ Finalize
      BY <1>1, <3>4 DEF Check, Flush, DestroyPool, JoinPool, Finalize
    <3>5. CASE InlineDedup
      BY <1>1, <3>1, <3>5 DEF InlineDedup
    <3>6. CASE InlineProcess
      BY <1>1, <3>2, <3>6 DEF InlineProcess
    <3>7. CASE Drain
      BY <1>1, <3>2, <3>7 DEF Drain
    <3>8. QED
      BY <2>4, <3>3, <3>4, <3>5, <3>6, <3>7 DEF MainStep
  <2>5. CASE \E t \in Threads : PoolThread(t) \/ PoolWake(t)
    BY <1>1, <2>5 DEF PoolThread, PoolWake, PoolDedup, PoolComplete, Dedup
  <2>6. QED
    BY <1>2, <2>1, <2>2, <2>3, <2>4, <2>5 DEF Next

\* The invariant of the ring, once it has come round twice, is RatesAreGrowth.
LEMMA RingTells ==
  ASSUME RingInv
  PROVE  RatesAreGrowth
<1>1. PICK W \in Nat \ {0, 1} : W = RateWindow
  BY WindowAssumption
<1>2. PICK n \in Nat : n = Len(samples)
  BY LenProperties DEF RingInv
<1>3. SUFFICES ASSUME n >= 2 * W PROVE RatesAreGrowth
  BY <1>1, <1>2 DEF RatesAreGrowth
<1>4. n # 0 /\ n # RateWindow /\ ~(n < RateWindow) /\ ~(n < 2 * RateWindow)
  BY <1>1, <1>3
<1>5. Origin(samples, n) = samples[n - RateWindow + 1]
  BY <1>4 DEF Origin
<1>6. QED
  BY <1>2, <1>4, <1>5 DEF RingInv, Growth, RatesAreGrowth

\* For every window, from the end of the ring's second round on, however often it
\* comes round and however late the monitor comes, the rates of the panel are the
\* growth of the counters over the window, and none is above the greatest
\* (update_statistics).
THEOREM RatesAreKept == Spec => []RatesAreGrowth
<1>1. Init => RingInv
  BY InitRingInv
<1>2. RunTypes /\ RingInv /\ [Next]_vars => RingInv'
  BY NextKeepsRing
<1>3. RingInv => RatesAreGrowth
  BY RingTells
<1>4. RunInv => RunTypes
  BY DEF RunInv
<1>5. QED
  BY <1>1, <1>2, <1>3, <1>4, SpecRunInv, PTL DEF Spec

-----------------------------------------------------------------------------
(* The cache of owners. *)

\* What the system may say of any owner of this run.
Owner == [id : Nat, text : UNION {Answers(id) : id \in DOMAIN input.names}]

\* Every entry is what the system once said.
OwnersInv(cache) ==
  /\ cache \in [0 .. Buckets - 1 -> Seq(Owner)]
  /\ \A bucket \in 0 .. Buckets - 1 : \A k \in DOMAIN cache[bucket] :
       cache[bucket][k].text \in Answers(cache[bucket][k].id)

TextOf(cache, id) == cache[id % Buckets][Min(Cached(cache, id))].text

\* A non-empty set of numbers has a least one.
LEMMA MinIs ==
  ASSUME NEW T, T \subseteq Nat, T # {}
  PROVE  Min(T) \in T /\ \A y \in T : Min(T) <= y
<1>1. \E x \in T : \A y \in T : x <= y
  BY LeastNumber
<1>2. QED
  BY <1>1 DEF Min

\* A sequence with one thing more in front.
LEMMA OneInFront ==
  ASSUME NEW V, NEW P, P = Seq(V), NEW s \in P, NEW x \in V, NEW c, c = <<x>> \o s
  PROVE  /\ c \in P /\ Len(s) \in Nat /\ DOMAIN s = 1 .. Len(s) /\ DOMAIN c = 1 .. Len(s) + 1
         /\ c[1] = x /\ \A k \in DOMAIN s : c[k + 1] = s[k]
<1>1. PICK one \in P : one = <<x>> /\ Len(one) = 1 /\ one[1] = x
  <2>1. <<x>> \in Seq(V) /\ Len(<<x>>) = 1 /\ <<x>>[1] = x
    OBVIOUS
  <2>2. QED
    BY <2>1
<1>2. PICK n \in Nat : n = Len(s) /\ DOMAIN s = 1 .. n
  BY LenProperties
<1>3. c \in P /\ Len(c) = 1 + n
  BY <1>1, <1>2, JoinedType
<1>4. c[1] = x
  BY <1>1, JoinedFirst
<1>5. \A k \in 1 .. n : c[1 + k] = s[k]
  BY <1>1, <1>2, JoinedSecond
<1>6. DOMAIN c = 1 .. n + 1
  BY <1>3, LenProperties
<1>7. QED
  BY <1>2, <1>3, <1>4, <1>5, <1>6

\* What is cached of an owner is an answer about this owner.
LEMMA CachedIsAnswer ==
  ASSUME NEW cache, OwnersInv(cache), NEW id \in Nat, Cached(cache, id) # {}
  PROVE  TextOf(cache, id) \in Answers(id)
<1>1. PICK b \in 0 .. Buckets - 1 : b = id % Buckets
  BY BucketAssumption, RemainderIs
<1>2. cache[b] \in Seq(Owner)
  BY <1>1 DEF OwnersInv
<1>3. Cached(cache, id) \subseteq Nat
  BY <1>1, <1>2, LenProperties DEF Cached
<1>4. PICK m : m = Min(Cached(cache, id)) /\ m \in Cached(cache, id)
  BY <1>3, MinIs
<1>5. m \in DOMAIN cache[b] /\ cache[b][m].id = id
  BY <1>1, <1>4 DEF Cached
<1>6. QED
  BY <1>1, <1>4, <1>5 DEF OwnersInv, TextOf

\* get_username, get_groupname: from now on id is cached with this text, and what
\* was cached of others still is.
Knows(cache, id, asked) ==
  /\ OwnersInv(asked.cache)
  /\ Cached(asked.cache, id) # {} /\ TextOf(asked.cache, id) = asked.text
  /\ \A other \in Nat : Cached(cache, other) # {} =>
       Cached(asked.cache, other) # {} /\ TextOf(asked.cache, other) = TextOf(cache, other)

\* An owner that is asked for is cached, and nobody else loses the text that he has.
LEMMA NameIsKnown ==
  ASSUME NEW cache, OwnersInv(cache), NEW users, NEW id \in Nat, id \in DOMAIN input.names,
         OwnerText(id, users[id]) \in Answers(id)
  PROVE  Knows(cache, id, NameOf(cache, users, id))
<1>1. PICK asked : asked = NameOf(cache, users, id)
  OBVIOUS
<1>2. CASE Cached(cache, id) # {}
  <2>1. asked = [text |-> TextOf(cache, id), cache |-> cache]
    BY <1>1, <1>2 DEF NameOf, TextOf
  <2>2. asked.text = TextOf(cache, id) /\ asked.cache = cache
    BY <2>1
  <2>3. QED
    BY <1>1, <1>2, <2>2 DEF Knows
<1>3. CASE Cached(cache, id) = {}
  <2>1. PICK b \in 0 .. Buckets - 1 : b = id % Buckets
    BY BucketAssumption, RemainderIs
  <2>2. PICK text : text = OwnerText(id, users[id])
    OBVIOUS
  <2>3. PICK x \in Owner : x = [id |-> id, text |-> text]
    BY <2>2 DEF Owner
  <2>4. x.id = id /\ x.text = text
    BY <2>3
  <2>5. PICK P : P = Seq(Owner)
    OBVIOUS
  <2>6. cache \in [0 .. Buckets - 1 -> P]
    BY <2>5 DEF OwnersInv
  <2>7. PICK s \in P : s = cache[b]
    BY <2>6
  <2>8. PICK c : c = <<x>> \o s
    OBVIOUS
  <2>9. /\ c \in P /\ Len(s) \in Nat /\ DOMAIN s = 1 .. Len(s) /\ DOMAIN c = 1 .. Len(s) + 1
        /\ c[1] = x /\ \A k \in DOMAIN s : c[k + 1] = s[k]
    BY <2>5, <2>8, OneInFront
  <2>10. PICK new : new = [cache EXCEPT ![b] = c]
    OBVIOUS
  <2>11. asked = [text |-> text, cache |-> new]
    BY <1>1, <1>3, <2>1, <2>2, <2>3, <2>7, <2>8, <2>10 DEF NameOf
  <2>12. asked.text = text /\ asked.cache = new
    BY <2>11
  <2>13. /\ new \in [0 .. Buckets - 1 -> P] /\ new[b] = c
         /\ \A j \in 0 .. Buckets - 1 : j # b => new[j] = cache[j]
    BY <2>6, <2>9, <2>10
  <2>14. \A k \in DOMAIN c : k = 1 \/ \E j \in DOMAIN s : k = j + 1
    <3>1. SUFFICES ASSUME NEW k \in DOMAIN c, k # 1 PROVE \E j \in DOMAIN s : k = j + 1
      OBVIOUS
    <3>2. k - 1 \in DOMAIN s /\ k = (k - 1) + 1
      BY <2>9, <3>1
    <3>3. QED
      BY <3>2
  <2>15. OwnersInv(new)
    <3>1. \A k \in DOMAIN s : s[k].text \in Answers(s[k].id)
      BY <2>7 DEF OwnersInv
    <3>2. \A k \in DOMAIN c : c[k].text \in Answers(c[k].id)
      BY <2>2, <2>4, <2>9, <2>14, <3>1
    <3>3. QED
      BY <2>5, <2>13, <3>2 DEF OwnersInv
  <2>16. 1 \in Cached(new, id) /\ Cached(new, id) \subseteq Nat /\ \A k \in Cached(new, id) : 1 <= k
    BY <2>1, <2>4, <2>9, <2>13 DEF Cached
  <2>17. Min(Cached(new, id)) = 1
    <3>1. PICK m \in Nat : /\ m = Min(Cached(new, id)) /\ m \in Cached(new, id)
                           /\ \A y \in Cached(new, id) : m <= y
      BY <2>16, MinIs
    <3>2. m <= 1 /\ 1 <= m
      BY <2>16, <3>1
    <3>3. QED
      BY <3>1, <3>2
  <2>18. TextOf(new, id) = text
    BY <2>1, <2>4, <2>9, <2>13, <2>17 DEF TextOf
  <2>19. ASSUME NEW other \in Nat, Cached(cache, other) # {}
         PROVE  Cached(new, other) # {} /\ TextOf(new, other) = TextOf(cache, other)
    <3>1. PICK d \in 0 .. Buckets - 1 : d = other % Buckets
      BY BucketAssumption, RemainderIs
    <3>2. CASE d # b
      <4>1. new[d] = cache[d]
        BY <2>13, <3>2
      <4>2. Cached(new, other) = Cached(cache, other)
        BY <3>1, <4>1 DEF Cached
      <4>3. QED
        BY <2>19, <3>1, <4>1, <4>2 DEF TextOf
    <3>3. CASE d = b
      <4>1. other # id
        BY <1>3, <2>19
      <4>2. \A k \in DOMAIN s : k \in Cached(cache, other) <=> k + 1 \in Cached(new, other)
        <5>1. \A k \in DOMAIN s : k + 1 \in DOMAIN c
          BY <2>9
        <5>2. QED
          BY <2>7, <2>9, <2>13, <3>1, <3>3, <5>1 DEF Cached
      <4>3. 1 \notin Cached(new, other)
        BY <2>4, <2>9, <2>13, <3>1, <3>3, <4>1 DEF Cached
      <4>4. Cached(cache, other) \subseteq DOMAIN s /\ Cached(cache, other) \subseteq Nat
        BY <2>7, <2>9, <3>1, <3>3 DEF Cached
      <4>5. PICK m \in Nat : /\ m = Min(Cached(cache, other)) /\ m \in Cached(cache, other)
                             /\ \A y \in Cached(cache, other) : m <= y
        BY <2>19, <4>4, MinIs
      <4>6. m \in DOMAIN s /\ m + 1 \in Cached(new, other)
        BY <4>2, <4>4, <4>5
      <4>7. Cached(new, other) \subseteq DOMAIN c /\ Cached(new, other) \subseteq Nat
        BY <2>9, <2>13, <3>1, <3>3 DEF Cached
      <4>8. \A y \in Cached(new, other) : m + 1 <= y
        <5>1. SUFFICES ASSUME NEW y \in Cached(new, other) PROVE m + 1 <= y
          OBVIOUS
        <5>2. PICK j \in DOMAIN s : y = j + 1
          BY <2>14, <4>3, <4>7
        <5>3. j \in Cached(cache, other) /\ j \in Nat
          BY <2>9, <4>2, <5>2
        <5>4. QED
          BY <4>5, <5>2, <5>3
      <4>9. PICK l \in Nat : /\ l = Min(Cached(new, other)) /\ l \in Cached(new, other)
                             /\ \A y \in Cached(new, other) : l <= y
        BY <4>6, <4>7, MinIs
      <4>10. l = m + 1
        <5>1. l <= m + 1 /\ m + 1 <= l
          BY <4>6, <4>8, <4>9
        <5>2. QED
          BY <5>1
      <4>11. new[b][m + 1] = cache[b][m]
        BY <2>7, <2>9, <2>13, <4>6
      <4>12. QED
        BY <3>1, <3>3, <4>5, <4>6, <4>9, <4>10, <4>11 DEF TextOf
    <3>4. QED
      BY <3>2, <3>3
  <2>20. Cached(new, id) # {}
    BY <2>16
  <2>21. QED
    BY <1>1, <2>12, <2>15, <2>18, <2>19, <2>20 DEF Knows
<1>4. QED
  BY <1>2, <1>3

-----------------------------------------------------------------------------
(* What is remembered of the devices. *)

\* get_xattr_str: the attributes of a file are hidden because its device had none,
\* and the device has none because this file had none.
Hides(cache, dev, attr, asked) ==
  /\ asked.text = <<"[unsupported]">> =>
       attr.answer = "notty" \/ (dev \in DOMAIN cache /\ cache[dev] = "unsupported")
  /\ \A d \in DOMAIN asked.cache : asked.cache[d] = "unsupported" =>
       \/ d \in DOMAIN cache /\ cache[d] = "unsupported"
       \/ d = dev /\ attr.answer = "notty"

\* A device has the status that was set, or the one that it had.
LEMMA StatusIs ==
  ASSUME NEW cache, NEW dev, NEW status, NEW d \in DOMAIN SetStatus(cache, dev, status),
         SetStatus(cache, dev, status)[d] = "unsupported"
  PROVE  \/ d \in DOMAIN cache /\ cache[d] = "unsupported"
         \/ d = dev /\ status = "unsupported"
<1>1. CASE SetStatus(cache, dev, status) = cache
  BY <1>1
<1>2. CASE SetStatus(cache, dev, status)
             = [e \in DOMAIN cache \cup {dev} |-> IF e = dev THEN status ELSE cache[e]]
  BY <1>2
<1>3. QED
  BY <1>1, <1>2 DEF SetStatus

\* A look-up of attributes hides them only so.
LEMMA XattrHides ==
  ASSUME NEW cache, NEW dev, NEW attr
  PROVE  Hides(cache, dev, attr, XattrOf(cache, dev, attr))
<1>1. PICK asked : asked = XattrOf(cache, dev, attr)
  OBVIOUS
<1>2. CASE Status(cache, dev) = "unsupported"
  <2>1. asked.cache = cache
    BY <1>1, <1>2 DEF XattrOf
  <2>2. dev \in DOMAIN cache /\ cache[dev] = "unsupported"
    BY <1>2 DEF Status
  <2>3. QED
    BY <1>1, <2>1, <2>2 DEF Hides
<1>3. CASE Status(cache, dev) # "unsupported" /\ attr.answer = "notty"
  <2>1. asked.cache = SetStatus(cache, dev, "unsupported")
    BY <1>1, <1>3 DEF XattrOf
  <2>2. ASSUME NEW d \in DOMAIN asked.cache, asked.cache[d] = "unsupported"
        PROVE  \/ d \in DOMAIN cache /\ cache[d] = "unsupported"
               \/ d = dev
    BY <2>1, <2>2, StatusIs
  <2>3. attr.answer = "notty"
    BY <1>3
  <2>4. QED
    BY <1>1, <2>2, <2>3 DEF Hides
<1>4. CASE Status(cache, dev) # "unsupported" /\ attr.answer # "notty"
  <2>1. asked.text # <<"[unsupported]">>
    <3>1. FlagsText(attr.flags) # <<"[unsupported]">>
      <4>1. DOMAIN FlagsText(attr.flags) = 1 .. 16 /\ DOMAIN <<"[unsupported]">> = 1 .. 1
        BY DEF FlagsText
      <4>2. 16 \in 1 .. 16 /\ 16 \notin 1 .. 1
        OBVIOUS
      <4>3. QED
        BY <4>1, <4>2
    <3>2. <<"[access_denied]">> # <<"[unsupported]">> /\ <<"[ioctl_error]">> # <<"[unsupported]">>
      OBVIOUS
    <3>3. asked.text \in {<<"[access_denied]">>, <<"[ioctl_error]">>, FlagsText(attr.flags)}
      BY <1>1, <1>4 DEF XattrOf
    <3>4. QED
      BY <3>1, <3>2, <3>3
  <2>2. asked.cache = cache \/ asked.cache = SetStatus(cache, dev, "supported")
    BY <1>1, <1>4 DEF XattrOf
  <2>3. QED
    BY <1>1, <2>1, <2>2, StatusIs DEF Hides
<1>5. QED
  BY <1>2, <1>3, <1>4

-----------------------------------------------------------------------------
(* What the rows show. *)

\* A user has the name that the run began with, or the new one.
NamesInv ==
  /\ DOMAIN names = DOMAIN input.names
  /\ \A id \in DOMAIN names : OwnerText(id, names[id]) \in Answers(id)

\* Rows show what is cached.
OwnersShown ==
  \A k \in DOMAIN printed :
    IF "u" \in Columns
    THEN /\ Cached(caches.uid, printed[k].entry.uid) # {}
         /\ printed[k].values.u = TextOf(caches.uid, printed[k].entry.uid)
    ELSE printed[k].values.u = <<>>

\* The file that told of a device.
DevicesShown ==
  /\ \A d \in DOMAIN caches.dev : caches.dev[d] = "unsupported" =>
       \E k \in DOMAIN printed : printed[k].entry.dev = d /\ printed[k].entry.attr.answer = "notty"
  /\ \A k \in DOMAIN printed : printed[k].values.X = <<"[unsupported]">> =>
       \E j \in 1 .. k : printed[j].entry.dev = printed[k].entry.dev
                           /\ printed[j].entry.attr.answer = "notty"

ShownInv == OwnersInv(caches.uid) /\ NamesInv /\ OwnersShown /\ DevicesShown

\* Nothing is printed or cached at the start.
LEMMA InitShownInv ==
  ASSUME Init
  PROVE  ShownInv
<1>1. /\ printed = <<>> /\ names = input.names
      /\ caches = [uid |-> NoOwners, gid |-> NoOwners, dev |-> NoStatus]
  BY DEF Init
<1>2. OwnersInv(caches.uid)
  <2>1. caches.uid = [bucket \in 0 .. Buckets - 1 |-> <<>>]
    BY <1>1 DEF NoOwners
  <2>2. <<>> \in Seq(Owner) /\ DOMAIN <<>> = {}
    OBVIOUS
  <2>3. QED
    BY <2>1, <2>2 DEF OwnersInv
<1>3. NamesInv
  BY <1>1 DEF NamesInv, Answers
<1>4. DOMAIN printed = {} /\ DOMAIN caches.dev = {}
  BY <1>1 DEF NoStatus
<1>5. QED
  BY <1>2, <1>3, <1>4 DEF ShownInv, OwnersShown, DevicesShown

\* The next row is that of a file that was given.
LEMMA NextIsGiven ==
  ASSUME RunTypes, \A e \in Range(Rows) : e \in Given, PrintRow, NEW e, e = Head(tasks)
  PROVE  e \in Entry /\ e \in Given
<1>1. e = Head(tasks)
  OBVIOUS
<1>2. tasks \in Seq(Entry) /\ tasks # <<>>
  BY DEF RunTypes, PrintRow
<1>3. PICK n \in Nat, m \in Nat : n = Len(printed) /\ DOMAIN printed = 1 .. n /\ m = Len(tasks)
  BY <1>2, OneMore, LenProperties DEF RunTypes
<1>4. 1 \in 1 .. m /\ tasks[1] = e /\ DOMAIN tasks = 1 .. m
  BY <1>1, <1>2, <1>3, LenProperties
<1>5. PICK r \in Seq(Entry) : r = [k \in DOMAIN printed |-> printed[k].entry]
  BY RowsType
<1>6. Len(r) = n
  BY <1>3, <1>5
<1>7. PICK P : P = Seq(Entry)
  OBVIOUS
<1>8. PICK c : c = r \o tasks
  OBVIOUS
<1>9. c[n + 1] = tasks[1]
  BY <1>2, <1>3, <1>4, <1>5, <1>6, <1>7, <1>8, JoinedSecond
<1>10. c \in P /\ Len(c) = n + m
  BY <1>2, <1>3, <1>5, <1>6, <1>7, <1>8, JoinedType
<1>11. n + 1 \in DOMAIN c
  BY <1>3, <1>4, <1>7, <1>10, LenProperties
<1>12. Rows = c
  BY <1>5, <1>8 DEF Rows
<1>13. e \in Range(Rows)
  BY <1>4, <1>9, <1>11, <1>12 DEF Range
<1>14. QED
  BY <1>2, <1>3, <1>4, <1>13, ElementOfSeq

\* The writer prints a row.
LEMMA PrintRowShows ==
  ASSUME RunTypes, ShownInv, \A e \in Range(Rows) : e \in Given, PrintRow
  PROVE  ShownInv'
<1>1. PICK e : e = Head(tasks)
  OBVIOUS
<1>2. e \in Entry /\ e \in Given
  BY <1>1, NextIsGiven
<1>3. e.uid \in Nat /\ e.uid \in DOMAIN input.names
  BY <1>2, InputAssumption DEF Entry, Given, RunTypes
<1>4. PICK asked : asked = Asked(e)
  OBVIOUS
<1>5. PICK x : /\ x = [entry |-> e, values |-> Values(e, asked),
                       line |-> PrintToStream(input.row, compiled, Values(e, asked))]
  OBVIOUS
<1>6. /\ caches' = [uid |-> asked.u.cache, gid |-> asked.g.cache, dev |-> asked.X.cache]
      /\ printed' = Append(printed, x) /\ UNCHANGED <<input, compiled, names>>
  BY <1>1, <1>4, <1>5 DEF PrintRow, cfgVars
<1>7. x.entry = e /\ x.values.u = asked.u.text /\ x.values.X = asked.X.text
  BY <1>5 DEF Values
<1>8. PICK n \in Nat : n = Len(printed) /\ DOMAIN printed = 1 .. n
  BY OneMore DEF RunTypes
<1>9. /\ DOMAIN printed' = 1 .. n + 1 /\ printed'[n + 1] = x
      /\ \A k \in 1 .. n : printed'[k] = printed[k]
  BY <1>6, <1>8, OneMore DEF RunTypes
<1>10. \A k \in 1 .. n + 1 : k = n + 1 \/ k \in 1 .. n
  OBVIOUS
<1>11. caches'.uid = asked.u.cache /\ caches'.dev = asked.X.cache
  BY <1>6
<1>12. Columns' = Columns /\ \A id : Answers(id)' = Answers(id)
  BY <1>6 DEF Columns, Answers
<1>13. asked.u = IF "u" \in Columns THEN NameOf(caches.uid, names, e.uid)
                 ELSE [text |-> <<>>, cache |-> caches.uid]
  BY <1>4 DEF Asked
<1>14. OwnersInv(caches.uid) /\ OwnersShown /\ NamesInv /\ DevicesShown
  BY DEF ShownInv
<1>15. \A k \in 1 .. n : printed[k].entry.uid \in Nat
  BY <1>8 DEF RunTypes, Entry
<1>16. OwnersInv(asked.u.cache) /\ OwnersShown'
  <2>1. CASE "u" \in Columns
    <3>1. Knows(caches.uid, e.uid, asked.u)
      <4>1. OwnerText(e.uid, names[e.uid]) \in Answers(e.uid)
        BY <1>3, <1>14 DEF NamesInv
      <4>2. QED
        BY <1>3, <1>13, <1>14, <2>1, <4>1, NameIsKnown
    <3>2. \A k \in 1 .. n : /\ Cached(asked.u.cache, printed[k].entry.uid) # {}
                            /\ printed[k].values.u = TextOf(asked.u.cache, printed[k].entry.uid)
      BY <1>8, <1>14, <1>15, <2>1, <3>1 DEF Knows, OwnersShown
    <3>3. /\ Cached(asked.u.cache, x.entry.uid) # {}
          /\ x.values.u = TextOf(asked.u.cache, x.entry.uid)
      BY <1>7, <3>1 DEF Knows
    <3>4. \A k \in 1 .. n + 1 : /\ Cached(asked.u.cache, printed'[k].entry.uid) # {}
                                /\ printed'[k].values.u = TextOf(asked.u.cache, printed'[k].entry.uid)
      BY <1>9, <1>10, <3>2, <3>3
    <3>5. OwnersShown'
      BY <1>9, <1>11, <1>12, <2>1, <3>4 DEF OwnersShown, TextOf, Cached
    <3>6. QED
      BY <3>1, <3>5 DEF Knows
  <2>2. CASE "u" \notin Columns
    <3>1. asked.u.cache = caches.uid /\ asked.u.text = <<>>
      BY <1>13, <2>2
    <3>2. \A k \in 1 .. n : printed[k].values.u = <<>>
      BY <1>8, <1>14, <2>2 DEF OwnersShown
    <3>3. \A k \in 1 .. n + 1 : printed'[k].values.u = <<>>
      BY <1>7, <1>9, <1>10, <3>1, <3>2
    <3>4. OwnersShown'
      BY <1>9, <1>12, <2>2, <3>3 DEF OwnersShown
    <3>5. QED
      BY <1>14, <3>1, <3>4
  <2>3. QED
    BY <2>1, <2>2
<1>17. OwnersInv(caches.uid)'
  BY <1>6, <1>11, <1>12, <1>16 DEF OwnersInv, Owner
<1>18. NamesInv'
  BY <1>6, <1>12, <1>14 DEF NamesInv
<1>19. Hides(caches.dev, e.dev, e.attr, asked.X)
  <2>1. CASE "X" \in Columns
    <3>1. asked.X = XattrOf(caches.dev, e.dev, e.attr)
      BY <1>4, <2>1 DEF Asked
    <3>2. QED
      BY <3>1, XattrHides
  <2>2. CASE "X" \notin Columns
    <3>1. asked.X = [text |-> <<>>, cache |-> caches.dev]
      BY <1>4, <2>2 DEF Asked
    <3>2. asked.X.text = <<>> /\ asked.X.cache = caches.dev /\ <<>> # <<"[unsupported]">>
      BY <3>1
    <3>3. QED
      BY <3>2 DEF Hides
  <2>3. QED
    BY <2>1, <2>2
<1>20. DevicesShown'
  <2>1. \A d \in DOMAIN asked.X.cache : asked.X.cache[d] = "unsupported" =>
          \E k \in 1 .. n + 1 :
            printed'[k].entry.dev = d /\ printed'[k].entry.attr.answer = "notty"
    <3>1. SUFFICES ASSUME NEW d \in DOMAIN asked.X.cache, asked.X.cache[d] = "unsupported"
                   PROVE  \E k \in 1 .. n + 1 :
                            printed'[k].entry.dev = d /\ printed'[k].entry.attr.answer = "notty"
      OBVIOUS
    <3>2. CASE d \in DOMAIN caches.dev /\ caches.dev[d] = "unsupported"
      <4>1. PICK k \in 1 .. n : printed[k].entry.dev = d /\ printed[k].entry.attr.answer = "notty"
        BY <1>8, <1>14, <3>2 DEF DevicesShown
      <4>2. k \in 1 .. n + 1 /\ printed'[k] = printed[k]
        BY <1>9
      <4>3. QED
        BY <4>1, <4>2
    <3>3. CASE d = e.dev /\ e.attr.answer = "notty"
      <4>1. n + 1 \in 1 .. n + 1 /\ printed'[n + 1].entry = e
        BY <1>7, <1>9
      <4>2. QED
        BY <3>3, <4>1
    <3>4. QED
      BY <1>19, <3>1, <3>2, <3>3 DEF Hides
  <2>2. \A k \in 1 .. n + 1 : printed'[k].values.X = <<"[unsupported]">> =>
          \E j \in 1 .. k : printed'[j].entry.dev = printed'[k].entry.dev
                              /\ printed'[j].entry.attr.answer = "notty"
    <3>1. SUFFICES ASSUME NEW k \in 1 .. n + 1, printed'[k].values.X = <<"[unsupported]">>
                   PROVE  \E j \in 1 .. k : printed'[j].entry.dev = printed'[k].entry.dev
                                              /\ printed'[j].entry.attr.answer = "notty"
      OBVIOUS
    <3>2. CASE k \in 1 .. n
      <4>1. printed'[k] = printed[k]
        BY <1>9, <3>2
      <4>2. PICK j \in 1 .. k : printed[j].entry.dev = printed[k].entry.dev
                                  /\ printed[j].entry.attr.answer = "notty"
        BY <1>8, <1>14, <3>1, <3>2, <4>1 DEF DevicesShown
      <4>3. j \in 1 .. n /\ printed'[j] = printed[j]
        BY <1>9, <3>2
      <4>4. QED
        BY <4>1, <4>2, <4>3
    <3>3. CASE k = n + 1
      <4>1. printed'[k].entry = e /\ asked.X.text = <<"[unsupported]">>
        BY <1>7, <1>9, <3>1, <3>3
      <4>2. CASE e.attr.answer = "notty"
        <5>1. k \in 1 .. k
          BY <3>3
        <5>2. QED
          BY <4>1, <4>2, <5>1
      <4>3. CASE e.dev \in DOMAIN caches.dev /\ caches.dev[e.dev] = "unsupported"
        <5>1. PICK j \in 1 .. n : printed[j].entry.dev = e.dev
                                    /\ printed[j].entry.attr.answer = "notty"
          BY <1>8, <1>14, <4>3 DEF DevicesShown
        <5>2. j \in 1 .. k /\ printed'[j] = printed[j]
          BY <1>9, <3>3
        <5>3. QED
          BY <4>1, <5>1, <5>2
      <4>4. QED
        BY <1>19, <4>1, <4>2, <4>3 DEF Hides
    <3>4. QED
      BY <1>10, <3>2, <3>3
  <2>3. QED
    BY <1>9, <1>11, <2>1, <2>2 DEF DevicesShown
<1>21. QED
  BY <1>16, <1>17, <1>18, <1>20 DEF ShownInv

\* A user is renamed.
LEMMA RenameShows ==
  ASSUME RunTypes, ShownInv, NEW id \in DOMAIN input.renamed, Rename(id)
  PROVE  ShownInv'
<1>1. /\ names' = [names EXCEPT ![id] = input.renamed[id]]
      /\ UNCHANGED <<input, compiled, caches, printed>>
  BY DEF Rename, cfgVars
<1>2. \A o : Answers(o)' = Answers(o)
  BY <1>1 DEF Answers
<1>3. NamesInv'
  <2>1. DOMAIN names' = DOMAIN input.names
    BY <1>1 DEF ShownInv, NamesInv
  <2>2. OwnerText(id, input.renamed[id]) \in Answers(id)
    BY DEF Answers
  <2>3. \A o \in DOMAIN names : OwnerText(o, names'[o]) \in Answers(o)
    BY <1>1, <2>2 DEF ShownInv, NamesInv
  <2>4. QED
    BY <1>1, <1>2, <2>1, <2>3 DEF NamesInv, ShownInv
<1>4. Columns' = Columns
  BY <1>1 DEF Columns
<1>5. OwnersInv(caches.uid)'
  BY <1>1, <1>2 DEF ShownInv, OwnersInv, Owner
<1>6. OwnersShown'
  BY <1>1, <1>4 DEF ShownInv, OwnersShown, TextOf, Cached
<1>7. DevicesShown'
  BY <1>1 DEF ShownInv, DevicesShown
<1>8. QED
  BY <1>3, <1>5, <1>6, <1>7 DEF ShownInv

\* Nothing that a row depends on changes but when one is printed or a user is renamed.
LEMMA RowsAreTheWriters ==
  ASSUME [Next]_vars
  PROVE  \/ UNCHANGED <<cfgVars, printVars>> \/ PrintRow
         \/ \E id \in DOMAIN input.renamed : Rename(id)
<1> USE DEF vars, quiet
<1>1. CASE Arrive \/ CannotCreate \/ UNCHANGED vars
  BY <1>1 DEF Arrive, CannotCreate
<1>2. CASE \E d \in dead : Recover(d)
  BY <1>2 DEF Recover
<1>3. CASE \E now \in clock .. clock + 2 : PrintProgress(now)
  BY <1>3 DEF PrintProgress
<1>4. CASE MainStep
  <2>1. ASSUME NEW b, Dedup(b) PROVE UNCHANGED <<cfgVars, printVars>>
    BY <2>1 DEF Dedup
  <2>2. ASSUME NEW b, Process(b) PROVE UNCHANGED <<cfgVars, printVars>>
    BY <2>2 DEF Process
  <2>3. CASE Seed \/ Create \/ HandleBatch \/ RecvEnd \/ DrainEnd \/ Event
    BY <2>3 DEF Seed, Create, HandleBatch, RecvEnd, DrainEnd, Event
  <2>4. CASE Check \/ Flush \/ DestroyPool \/ JoinPool \/ Finalize
    BY <2>4 DEF Check, Flush, DestroyPool, JoinPool, Finalize
  <2>5. CASE InlineDedup
    BY <2>1, <2>5 DEF InlineDedup
  <2>6. CASE InlineProcess
    BY <2>2, <2>6 DEF InlineProcess
  <2>7. CASE Drain
    BY <2>2, <2>7 DEF Drain
  <2>8. QED
    BY <1>4, <2>3, <2>4, <2>5, <2>6, <2>7 DEF MainStep
<1>5. CASE \E t \in Threads : PoolThread(t) \/ PoolWake(t)
  BY <1>5 DEF PoolThread, PoolWake, PoolDedup, PoolComplete, Dedup
<1>6. QED
  BY <1>1, <1>2, <1>3, <1>4, <1>5 DEF Next

\* Every step keeps what the rows show.
LEMMA NextKeepsShown ==
  ASSUME RunTypes, ShownInv, \A e \in Range(Rows) : e \in Given, [Next]_vars
  PROVE  ShownInv'
<1>1. CASE UNCHANGED <<cfgVars, printVars>>
  <2>1. UNCHANGED <<input, compiled, names, caches, printed>>
    BY <1>1 DEF cfgVars, printVars
  <2>2. Columns' = Columns /\ \A o : Answers(o)' = Answers(o)
    BY <2>1 DEF Columns, Answers
  <2>3. OwnersInv(caches.uid)'
    BY <2>1, <2>2 DEF ShownInv, OwnersInv, Owner
  <2>4. OwnersShown'
    BY <2>1, <2>2 DEF ShownInv, OwnersShown, TextOf, Cached
  <2>5. DevicesShown'
    BY <2>1 DEF ShownInv, DevicesShown
  <2>6. NamesInv'
    BY <2>1, <2>2 DEF ShownInv, NamesInv
  <2>7. QED
    BY <2>3, <2>4, <2>5, <2>6 DEF ShownInv
<1>2. CASE PrintRow
  BY <1>2, PrintRowShows
<1>3. CASE \E id \in DOMAIN input.renamed : Rename(id)
  BY <1>3, RenameShows
<1>4. QED
  BY <1>1, <1>2, <1>3, RowsAreTheWriters

\* The invariant of the rows is what ShownIsAnswered says.
LEMMA ShownTells ==
  ASSUME RunTypes, ShownInv
  PROVE  ShownIsAnswered
<1>1. \A k \in DOMAIN printed : printed[k].entry.uid \in Nat
  BY DEF RunTypes, Entry
<1>2. \A j, k \in DOMAIN printed :
        printed[j].entry.uid = printed[k].entry.uid => printed[j].values.u = printed[k].values.u
  BY DEF ShownInv, OwnersShown
<1>3. "u" \in Columns =>
        \A k \in DOMAIN printed : printed[k].values.u \in Answers(printed[k].entry.uid)
  <2>1. SUFFICES ASSUME "u" \in Columns, NEW k \in DOMAIN printed
                 PROVE  printed[k].values.u \in Answers(printed[k].entry.uid)
    OBVIOUS
  <2>2. /\ Cached(caches.uid, printed[k].entry.uid) # {}
        /\ printed[k].values.u = TextOf(caches.uid, printed[k].entry.uid)
    BY <2>1 DEF ShownInv, OwnersShown
  <2>3. QED
    BY <1>1, <2>2, CachedIsAnswer DEF ShownInv
<1>4. QED
  BY <1>2, <1>3 DEF ShownIsAnswered, ShownInv, DevicesShown

\* For every input, every size of the cache of owners and whenever a user is renamed:
\* all rows of an owner show one name, which the system gave him in this run; and
\* attributes are hidden for the device of a file only after a file of that device
\* had none (get_username, get_xattr_str).
THEOREM RowsShowAnswers == Spec => []ShownIsAnswered
<1>1. Init => ShownInv
  BY InitShownInv
<1>2. RunInv /\ ListInv /\ ShownInv /\ [Next]_vars => ShownInv'
  BY NextKeepsShown DEF RunInv, ListInv, OnceInv
<1>3. RunInv /\ ShownInv => ShownIsAnswered
  BY ShownTells DEF RunInv
<1>4. QED
  BY <1>1, <1>2, <1>3, RunIsListed, PTL DEF Spec

-----------------------------------------------------------------------------
(* The cells of a slice. *)

\* The metadata of a recorded row.
MetaOf(e) == [dev |-> e.dev, ino |-> e.ino, mtime |-> e.mtime, dt |-> DtOf[e.mode.type]]

\* Whatever a cell of a slice holds: a length, a character or the metadata.
Stored == Nat \cup STRING \cup {MetaOf(e) : e \in Entry}

\* What is taken for a length is a number.
LengthsAre(cells) == \A k \in DOMAIN cells : cells[k].field = "length" => cells[k].value \in Nat

\* Two parts whose lengths are numbers, joined.
LEMMA LengthsJoin ==
  ASSUME NEW V, NEW P, P = Seq(CellsOf(V)), NEW a \in P, NEW b \in P,
         LengthsAre(a), LengthsAre(b), NEW c, c = a \o b
  PROVE  LengthsAre(c)
<1>1. PICK m \in Nat, n \in Nat : /\ m = Len(a) /\ n = Len(b)
                                  /\ DOMAIN a = 1 .. m /\ DOMAIN b = 1 .. n
  BY LenProperties
<1>2. c \in P /\ Len(c) = m + n
  BY <1>1, JoinedType
<1>3. DOMAIN c = 1 .. m + n
  BY <1>2, LenProperties
<1>4. \A k \in 1 .. m : c[k] = a[k]
  BY <1>1, JoinedFirst
<1>5. \A k \in 1 .. n : c[m + k] = b[k]
  BY <1>1, JoinedSecond
<1>6. SUFFICES ASSUME NEW k \in 1 .. m + n, c[k].field = "length" PROVE c[k].value \in Nat
  BY <1>3 DEF LengthsAre
<1>7. CASE k <= m
  BY <1>1, <1>4, <1>6, <1>7 DEF LengthsAre
<1>8. CASE k > m
  <2>1. PICK j \in 1 .. n : k = m + j
    <3>1. k - m \in 1 .. n /\ k = m + (k - m)
      BY <1>8
    <3>2. QED
      BY <3>1
  <2>2. QED
    BY <1>1, <1>5, <1>6, <2>1 DEF LengthsAre
<1>9. k <= m \/ k > m
  OBVIOUS
<1>10. QED
  BY ONLY <1>7, <1>8, <1>9, Zenon

\* What is left of cells that were cut are the first of them.
LEMMA LengthsCut ==
  ASSUME NEW V, NEW P, P = Seq(CellsOf(V)), NEW c \in P, LengthsAre(c),
         NEW n \in 0 .. Len(c), NEW torn, torn = SubSeq(c, 1, n)
  PROVE  /\ torn \in P /\ Len(torn) = n /\ LengthsAre(torn)
         /\ \A k \in 1 .. n : torn[k] = c[k]
<1>1. PICK m \in Nat : m = Len(c) /\ DOMAIN c = 1 .. m /\ n \in 0 .. m
  BY LenProperties
<1>2. torn = [k \in 1 .. n |-> c[k]] /\ c \in [1 .. m -> CellsOf(V)]
  BY <1>1
<1>3. DOMAIN torn = 1 .. n /\ (\A k \in 1 .. n : torn[k] = c[k]) /\ 1 .. n \subseteq 1 .. m
  BY <1>1, <1>2
<1>4. torn \in P /\ Len(torn) = n
  BY <1>1, <1>2, <1>3
<1>5. LengthsAre(torn)
  BY <1>1, <1>3 DEF LengthsAre
<1>6. QED
  BY <1>3, <1>4, <1>5

\* write_pbin_record writes the row of a path and its metadata.
LEMMA PbinRowIs ==
  ASSUME NEW e \in Entry, NEW P, P = Seq(CellsOf(Stored))
  PROVE  /\ PbinRow(e) = RowCells(e.path, MetaOf(e)) /\ PbinRow(e) \in P /\ LengthsAre(PbinRow(e))
         /\ e.path \in Seq(Stored) /\ MetaOf(e) \in Stored /\ Len(e.path) \in Nat /\ Len(e.path) \in Stored
<1>1. PICK T : T = STRING
  OBVIOUS
<1>2. e.path \in Seq(T) /\ T \subseteq Stored /\ Nat \subseteq Stored
  BY <1>1 DEF Entry, Stored
<1>3. PICK path \in Seq(Stored) : path = e.path
  BY <1>2, SeqMonotonic
<1>4. PICK n \in Nat : n = Len(path)
  BY LenProperties
<1>5. PICK meta \in Stored : meta = MetaOf(e)
  BY DEF Stored
<1>6. PICK lw \in Nat, mw \in Nat : lw = LengthWidth /\ mw = MetaWidth
  BY WidthAssumption
<1>7. PICK a : a = Fixed("length", n, lw)
  OBVIOUS
<1>8. PICK b : b = PathCells(path)
  OBVIOUS
<1>9. PICK c : c = Fixed("meta", meta, mw)
  OBVIOUS
<1>10. /\ a \in P /\ Len(a) = lw /\ \A k \in 1 .. lw : a[k] = [field |-> "length", value |-> n, at |-> k]
  <2>1. "length" \in Fields /\ n \in Stored
    BY <1>2 DEF Fields
  <2>2. QED
    BY <1>7, <2>1, FixedIs
<1>11. /\ b \in P /\ Len(b) = n
       /\ \A k \in 1 .. n : b[k] = [field |-> "path", value |-> path[k], at |-> 1]
  BY <1>4, <1>8, PathCellsAre
<1>12. /\ c \in P /\ Len(c) = mw /\ \A k \in 1 .. mw : c[k] = [field |-> "meta", value |-> meta, at |-> k]
  <2>1. "meta" \in Fields
    BY DEF Fields
  <2>2. QED
    BY <1>9, <2>1, FixedIs
<1>13. LengthsAre(a) /\ LengthsAre(b) /\ LengthsAre(c)
  <2>1. DOMAIN a = 1 .. lw /\ DOMAIN b = 1 .. n /\ DOMAIN c = 1 .. mw
    BY <1>10, <1>11, <1>12, LenProperties
  <2>2. QED
    BY <1>10, <1>11, <1>12, <2>1 DEF LengthsAre
<1>14. PICK d : d = a \o b
  OBVIOUS
<1>15. d \in P /\ LengthsAre(d)
  BY <1>10, <1>11, <1>13, <1>14, JoinedType, LengthsJoin
<1>16. PICK row : row = d \o c
  OBVIOUS
<1>17. row \in P /\ LengthsAre(row)
  BY <1>12, <1>13, <1>15, <1>16, JoinedType, LengthsJoin
<1>18. row = RowCells(path, meta)
  BY <1>4, <1>6, <1>7, <1>8, <1>9, <1>14, <1>16 DEF RowCells
<1>19. PbinRow(e) = RowCells(path, meta)
  BY <1>3, <1>5 DEF PbinRow, MetaOf
<1>20. QED
  BY <1>2, <1>3, <1>4, <1>5, <1>17, <1>18, <1>19

-----------------------------------------------------------------------------
(* What is written of a sequence of entries. *)

\* Nothing is written of no entries.
LEMMA WrittenNothing == Written(<<>>) = <<>>
<1>1. [k \in DOMAIN <<>> |-> PbinRow(<<>>[k])] = <<>>
  OBVIOUS
<1>2. QED
  BY <1>1 DEF Written, FlattenSeq

\* One more entry is one more row behind the others.
LEMMA WrittenGrows ==
  ASSUME NEW s \in Seq(Entry), NEW e \in Entry
  PROVE  Written(Append(s, e)) = Written(s) \o PbinRow(e)
<1>1. PICK P : P = Seq(CellsOf(Stored))
  OBVIOUS
<1>2. PICK n \in Nat : n = Len(s) /\ DOMAIN s = 1 .. n /\ s \in [1 .. n -> Entry]
  BY LenProperties
<1>3. PICK rows : rows = [k \in 1 .. n |-> PbinRow(s[k])]
  OBVIOUS
<1>4. \A x \in Entry : PbinRow(x) \in P
  BY <1>1, PbinRowIs
<1>5. rows \in Seq(P) /\ Len(rows) = n
  BY <1>2, <1>3, <1>4
<1>6. PICK row \in P : row = PbinRow(e)
  BY <1>4
<1>7. PICK t : t = Append(s, e)
  OBVIOUS
<1>8. t \in Seq(Entry) /\ DOMAIN t = 1 .. n + 1 /\ t[n + 1] = e /\ \A k \in 1 .. n : t[k] = s[k]
  BY <1>2, <1>7, AppendProperties
<1>9. [k \in DOMAIN t |-> PbinRow(t[k])] = Append(rows, row)
  <2>1. PICK u : u = Append(rows, row)
    OBVIOUS
  <2>2. /\ u \in Seq(P) /\ Len(u) = n + 1 /\ DOMAIN u = 1 .. n + 1 /\ u[n + 1] = row
        /\ \A k \in 1 .. n : u[k] = rows[k]
    BY <1>5, <2>1, AppendProperties
  <2>3. \A k \in 1 .. n + 1 : u[k] = PbinRow(t[k])
    <3>1. SUFFICES ASSUME NEW k \in 1 .. n + 1 PROVE u[k] = PbinRow(t[k])
      OBVIOUS
    <3>2. CASE k = n + 1
      BY <1>6, <1>8, <2>2, <3>2
    <3>3. CASE k \in 1 .. n
      BY <1>3, <1>8, <2>2, <3>3
    <3>4. QED
      BY <3>2, <3>3
  <2>4. u = [k \in 1 .. n + 1 |-> u[k]]
    BY <2>2
  <2>5. QED
    BY <1>8, <2>1, <2>3, <2>4
<1>10. FlattenSeq(Append(rows, row)) = FlattenSeq(rows) \o row
  BY <1>1, <1>5, FlattenAppend
<1>11. Written(s) = FlattenSeq(rows)
  BY <1>2, <1>3 DEF Written
<1>12. QED
  BY <1>6, <1>7, <1>9, <1>10, <1>11 DEF Written

\* What is written are cells, and what is taken for a length in them is a number.
LEMMA WrittenIs ==
  ASSUME NEW P, P = Seq(CellsOf(Stored))
  PROVE  \A s \in Seq(Entry) : Written(s) \in P /\ LengthsAre(Written(s))
<1> DEFINE T == {n \in Nat : \A s \in Seq(Entry) :
                               Len(s) = n => Written(s) \in P /\ LengthsAre(Written(s))}
<1>1. ASSUME NEW n \in Nat, \A k \in Nat : k < n => k \in T PROVE n \in T
  <2>1. SUFFICES ASSUME NEW s \in Seq(Entry), Len(s) = n
                 PROVE  Written(s) \in P /\ LengthsAre(Written(s))
    OBVIOUS
  <2>2. CASE s = <<>>
    <3>1. Written(s) = <<>>
      BY <2>2, WrittenNothing
    <3>2. <<>> \in P /\ LengthsAre(<<>>)
      BY DEF LengthsAre
    <3>3. QED
      BY <3>1, <3>2
  <2>3. CASE s # <<>>
    <3>1. PICK h \in Seq(Entry), e \in Entry : s = Append(h, e)
      BY <2>3, SequenceEmptyOrAppend
    <3>2. Len(h) \in Nat /\ Len(h) < n
      BY <2>1, <3>1, AppendProperties, LenProperties
    <3>3. Written(h) \in P /\ LengthsAre(Written(h))
      BY <1>1, <3>2
    <3>4. PICK a \in P : a = Written(h) /\ LengthsAre(a)
      BY <3>3
    <3>5. PICK b \in P : b = PbinRow(e) /\ LengthsAre(b)
      BY PbinRowIs
    <3>6. Written(s) = a \o b
      BY <3>1, <3>4, <3>5, WrittenGrows
    <3>7. QED
      BY <3>4, <3>5, <3>6, JoinedType, LengthsJoin
  <2>4. QED
    BY <2>2, <2>3
<1>2. \A n \in Nat : n \in T
  <2> HIDE DEF T
  <2>1. QED
    BY <1>1, NumbersUpTo
<1>3. QED
  BY <1>2, LenProperties

\* What is written of two sequences stands one behind the other.
LEMMA WrittenJoin ==
  ASSUME NEW s \in Seq(Entry)
  PROVE  \A t \in Seq(Entry) : Written(s \o t) = Written(s) \o Written(t)
<1>1. PICK P : P = Seq(CellsOf(Stored))
  OBVIOUS
<1>2. PICK Q : Q = Seq(Entry)
  OBVIOUS
<1>3. PICK w \in P : w = Written(s)
  BY <1>1, WrittenIs
<1> DEFINE T == {n \in Nat : \A t \in Q : Len(t) = n => Written(s \o t) = w \o Written(t)}
<1>4. ASSUME NEW n \in Nat, \A k \in Nat : k < n => k \in T PROVE n \in T
  <2>1. SUFFICES ASSUME NEW t \in Q, Len(t) = n
                 PROVE  Written(s \o t) = w \o Written(t)
    OBVIOUS
  <2>2. CASE t = <<>>
    <3>1. s \o t = s /\ w \o <<>> = w
      BY <1>1, <1>2, <2>2, ConcatEmptySeq
    <3>2. Written(t) = <<>>
      BY <2>2, WrittenNothing
    <3>3. QED
      BY <1>3, <3>1, <3>2
  <2>3. CASE t # <<>>
    <3>1. PICK h \in Q, e \in Entry : t = Append(h, e)
      BY <1>2, <2>3, SequenceEmptyOrAppend
    <3>2. Len(h) \in Nat /\ Len(h) < n
      BY <1>2, <2>1, <3>1, AppendProperties, LenProperties
    <3>3. Written(s \o h) = w \o Written(h)
      BY <1>4, <3>2
    <3>4. PICK a \in P : a = Written(h)
      BY <1>1, <1>2, WrittenIs
    <3>5. PICK b \in P : b = PbinRow(e)
      BY <1>1, PbinRowIs
    <3>6. s \o t = Append(s \o h, e) /\ s \o h \in Seq(Entry)
      BY <1>2, <3>1
    <3>7. Written(s \o t) = (w \o a) \o b
      BY <3>3, <3>4, <3>5, <3>6, WrittenGrows
    <3>8. Written(t) = a \o b
      BY <1>2, <3>1, <3>4, <3>5, WrittenGrows
    <3>9. (w \o a) \o b = w \o (a \o b)
      BY <1>1, Regroup
    <3>10. QED
      BY <3>7, <3>8, <3>9
  <2>4. QED
    BY <2>2, <2>3
<1>5. \A n \in Nat : n \in T
  <2> HIDE DEF T
  <2>1. QED
    BY <1>4, NumbersUpTo
<1>6. QED
  BY <1>2, <1>3, <1>5, LenProperties

-----------------------------------------------------------------------------
(* A reader of rows. *)

\* At the positions in good it takes a row, and goes on at the next position.
Reads(f, good, row, next) ==
  f = [pos \in Nat |-> IF pos \in good THEN <<row[pos]>> \o f[next[pos]] ELSE <<>>]

\* A reader that goes on while the rows are good comes to an end.
LEMMA ReadsExist ==
  ASSUME NEW N \in Nat, NEW good, good \subseteq 0 .. N, NEW row, NEW next,
         \A pos \in good : next[pos] \in Nat /\ next[pos] > pos
  PROVE  \E f : Reads(f, good, row, next)
<1>1. PICK part : part = [pos \in Nat |-> <<row[pos]>>]
  OBVIOUS
<1>2. PICK f : Continues(f, good, part, next)
  BY ContinuesExist
<1>3. \A pos \in Nat : (IF pos \in good THEN part[pos] \o f[next[pos]] ELSE <<>>)
                        = IF pos \in good THEN <<row[pos]>> \o f[next[pos]] ELSE <<>>
  BY <1>1
<1>4. Reads(f, good, row, next)
  BY <1>2, <1>3 DEF Continues, Reads
<1>5. QED
  BY <1>4

\* Its places at, one behind the other, are those of these rows.
ReadsChain(good, row, next, at, rows, n) ==
  /\ at \in [0 .. n -> Nat]
  /\ \A k \in 1 .. n : at[k - 1] \in good /\ row[at[k - 1]] = rows[k] /\ next[at[k - 1]] = at[k]
  /\ at[n] \notin good

\* It reads the rows that stand one behind the other, up to the first bad one.
LEMMA ChainIsRead ==
  ASSUME NEW good, NEW row, NEW next, NEW f, Reads(f, good, row, next),
         NEW V, NEW P, P = Seq(V), NEW rows \in P, NEW n \in Nat, n = Len(rows),
         NEW at, ReadsChain(good, row, next, at, rows, n)
  PROVE  f[at[0]] = rows
<1>1. \A pos \in Nat : f[pos] = IF pos \in good THEN <<row[pos]>> \o f[next[pos]] ELSE <<>>
  BY DEF Reads
<1>2. rows \in [1 .. n -> V] /\ DOMAIN rows = 1 .. n
  BY LenProperties
<1> DEFINE rest(i) == [k \in 1 .. i |-> rows[(n - i) + k]]
           T == {i \in Nat : i \in 0 .. n => f[at[n - i]] = rest(i)}
<1>3. ASSUME NEW i \in Nat, \A j \in Nat : j < i => j \in T PROVE i \in T
  <2>1. SUFFICES ASSUME i \in 0 .. n PROVE f[at[n - i]] = rest(i)
    OBVIOUS
  <2>2. CASE i = 0
    <3>1. f[at[n]] = <<>>
      <4>1. n \in 0 .. n
        OBVIOUS
      <4>2. at[n] \in Nat /\ at[n] \notin good
        BY <4>1 DEF ReadsChain
      <4>3. QED
        BY <1>1, <4>2
    <3>2. rest(0) = <<>>
      OBVIOUS
    <3>3. n - i = n
      BY <2>2
    <3>4. QED
      BY <2>2, <3>1, <3>2, <3>3
  <2>3. CASE i # 0
    <3>1. PICK m \in Nat : m = i - 1 /\ m < i /\ m \in 0 .. n
      <4>1. i - 1 \in Nat /\ i - 1 < i /\ i - 1 \in 0 .. n
        BY <2>1, <2>3
      <4>2. QED
        BY <4>1
    <3>2. PICK k \in 1 .. n : k = n - m /\ k - 1 = n - i
      <4>1. n - m \in 1 .. n /\ (n - m) - 1 = n - i
        BY <2>1, <3>1
      <4>2. QED
        BY <4>1, Zenon
    <3>3. f[at[k]] = rest(m)
      BY <1>3, <3>1, <3>2
    <3>4. at[k - 1] \in Nat /\ at[k - 1] \in good /\ row[at[k - 1]] = rows[k] /\ next[at[k - 1]] = at[k]
      BY DEF ReadsChain
    <3>5. f[at[k - 1]] = <<rows[k]>> \o rest(m)
      BY <1>1, <3>3, <3>4
    <3>6. PICK t : t = rest(m)
      OBVIOUS
    <3>7. \A j \in 1 .. m : t[j] = rows[k + j] /\ rows[k + j] \in V
      BY <1>2, <2>1, <3>1, <3>2, <3>6
    <3>8. t \in P /\ Len(t) = m
      BY <3>6, <3>7
    <3>9. PICK x \in V : x = rows[k]
      BY <1>2
    <3>10. PICK c : c = <<x>> \o t
      OBVIOUS
    <3>11. /\ c \in P /\ DOMAIN c = 1 .. m + 1 /\ DOMAIN t = 1 .. m
           /\ c[1] = x /\ \A j \in DOMAIN t : c[j + 1] = t[j]
      BY <3>8, <3>10, OneInFront
    <3>12. \A j \in 1 .. i : c[j] = rows[(n - i) + j]
      <4>1. SUFFICES ASSUME NEW j \in 1 .. i PROVE c[j] = rows[(n - i) + j]
        OBVIOUS
      <4>2. CASE j = 1
        <5>1. (n - i) + j = k
          BY <3>2, <4>2
        <5>2. QED
          BY <3>9, <3>11, <4>2, <5>1
      <4>3. CASE j # 1
        <5>1. PICK l \in 1 .. m : j = l + 1
          <6>1. j - 1 \in 1 .. m /\ j = (j - 1) + 1
            BY <3>1, <4>3
          <6>2. QED
            BY <6>1
        <5>2. (n - i) + j = k + l
          BY <3>2, <5>1
        <5>3. QED
          BY <3>7, <3>11, <5>1, <5>2
      <4>4. QED
        BY <4>2, <4>3
    <3>13. c = rest(i)
      <4>1. m + 1 = i
        BY <3>1
      <4>2. c = [j \in 1 .. i |-> c[j]]
        BY <3>11, <4>1
      <4>3. QED
        BY <3>12, <4>2
    <3>14. QED
      BY <3>2, <3>5, <3>6, <3>9, <3>10, <3>13
  <2>4. QED
    BY <2>2, <2>3
<1>4. \A i \in Nat : i \in T
  <2> HIDE DEF T
  <2>1. QED
    BY <1>3, NumbersUpTo
<1>5. f[at[n - n]] = rest(n)
  BY <1>4
<1>6. n - n = 0
  OBVIOUS
<1>7. rest(n) = rows
  <2>1. \A k \in 1 .. n : (n - n) + k = k
    OBVIOUS
  <2>2. rows = [k \in 1 .. n |-> rows[k]]
    BY <1>2
  <2>3. QED
    BY <2>1, <2>2
<1>8. QED
  BY <1>5, <1>6, <1>7

-----------------------------------------------------------------------------
(* The two readers of slices. *)

Row(e) == [path |-> e.path, meta |-> MetaOf(e)]
FileRow(r) == [path |-> r.path, dir |-> TypeOf(r.meta.dt) = "DIR"]

\* The cells hold the first n rows of s one behind the other, and no whole row more.
Torn(cells, s, at, n) ==
  /\ at \in [0 .. n -> Nat] /\ at[0] = 0 /\ n <= Len(s)
  /\ \A k \in 1 .. n : /\ RowFound(cells, at[k - 1], s[k].path, MetaOf(s[k]), at[k])
                       /\ Len(s[k].path) <= MaxPathLength
  /\ ~WholeRow(cells, at[n])

\* A whole row ends behind its start and within the cells.
LEMMA RowsAdvance ==
  ASSUME NEW P, P = Seq(CellsOf(Stored)), NEW cells \in P, LengthsAre(cells),
         NEW pos \in Nat, WholeRow(cells, pos)
  PROVE  /\ LengthAt(cells, pos) \in Nat /\ After(cells, pos) \in Nat
         /\ After(cells, pos) > pos /\ After(cells, pos) <= Len(cells)
<1>1. PICK lw \in Nat, mw \in Nat, ml \in Nat :
        lw = LengthWidth /\ mw = MetaWidth /\ lw # 0 /\ ml = MaxPathLength
  BY WidthAssumption
<1>2. PICK m \in Nat : m = Len(cells) /\ DOMAIN cells = 1 .. m
  BY LenProperties
<1>3. pos + 1 \in 1 .. m
  BY <1>1, <1>2 DEF WholeRow, Fits
<1>4. LengthAt(cells, pos) \in Nat
  BY <1>1, <1>2, <1>3 DEF LengthAt, LengthsAre
<1>5. PICK l \in Nat : l = LengthAt(cells, pos)
  BY <1>4
<1>6. After(cells, pos) = ((pos + lw) + l) + mw
  BY <1>1, <1>5 DEF After
<1>7. After(cells, pos) <= m
  BY <1>2 DEF WholeRow, Fits
<1>8. ((pos + lw) + l) + mw \in Nat /\ ((pos + lw) + l) + mw > pos
  BY <1>1
<1>9. QED
  BY <1>2, <1>4, <1>6, <1>7, <1>8

\* read_next_pbin_record takes the whole rows whose paths are not too long.
LEMMA NextIsWhole ==
  ASSUME NEW P, P = Seq(CellsOf(Stored)), NEW cells \in P, LengthsAre(cells), NEW pos \in Nat
  PROVE  NextRow(cells, pos) <=> WholeRow(cells, pos) /\ LengthAt(cells, pos) <= MaxPathLength
<1>1. SUFFICES ASSUME WholeRow(cells, pos)
               PROVE  Fits(cells, pos + LengthWidth + LengthAt(cells, pos))
  BY DEF NextRow, WholeRow
<1>2. PICK lw \in Nat, mw \in Nat : lw = LengthWidth /\ mw = MetaWidth
  BY WidthAssumption
<1>3. PICK l \in Nat : l = LengthAt(cells, pos)
  BY <1>1, RowsAdvance
<1>4. PICK m \in Nat : m = Len(cells)
  BY LenProperties
<1>5. ((pos + lw) + l) + mw <= m
  BY <1>1, <1>2, <1>3, <1>4 DEF WholeRow, Fits, After
<1>6. (pos + lw) + l <= m
  BY <1>5
<1>7. QED
  BY <1>2, <1>3, <1>4, <1>6 DEF Fits

\* The type that a row stands for is that of the entry.
LEMMA DirIs ==
  ASSUME NEW e \in Entry
  PROVE  FileRow(Row(e)) = [path |-> e.path, dir |-> IsDir(e)]
<1>1. PICK type \in DOMAIN DtOf : type = e.mode.type
  BY DEF Entry, TypeLetter, DtOf
<1>2. PICK dt : dt = DtOf[type]
  OBVIOUS
<1>3. \A t \in DOMAIN DtOf : DtOf[t] = dt <=> t = type
  BY <1>2 DEF DtOf
<1>4. TypeOf(dt) = type
  BY <1>3 DEF TypeOf
<1>5. Row(e).path = e.path /\ Row(e).meta.dt = dt
  BY <1>1, <1>2 DEF Row, MetaOf
<1>6. QED
  BY <1>1, <1>4, <1>5 DEF FileRow, IsDir

\* parse_pbin_buffer reads exactly the whole rows,
LEMMA BufferReads ==
  ASSUME NEW P, P = Seq(CellsOf(Stored)), NEW cells \in P, LengthsAre(cells),
         NEW s \in Seq(Entry), NEW n \in Nat, NEW at, Torn(cells, s, at, n)
  PROVE  ParseBuffer(cells) = [k \in 1 .. n |-> Row(s[k])]
<1>1. PICK N \in Nat : N = Len(cells)
  BY LenProperties
<1>2. PICK good : good = {pos \in Nat : WholeRow(cells, pos)}
  OBVIOUS
<1>3. PICK row : row = [pos \in Nat |-> RowAt(cells, pos)]
  OBVIOUS
<1>4. PICK next : next = [pos \in Nat |-> After(cells, pos)]
  OBVIOUS
<1>5. \A pos \in good : pos \in 0 .. N /\ next[pos] \in Nat /\ next[pos] > pos
  BY <1>1, <1>2, <1>4, RowsAdvance
<1>6. PICK f : Reads(f, good, row, next)
  BY <1>5, ReadsExist
<1> DEFINE Is(g) == g = [pos \in Nat |-> IF WholeRow(cells, pos)
                                         THEN <<RowAt(cells, pos)>> \o g[After(cells, pos)]
                                         ELSE <<>>]
<1>7. \A g : Is(g) <=> Reads(g, good, row, next)
  <2>1. SUFFICES ASSUME NEW g PROVE Is(g) <=> Reads(g, good, row, next)
    OBVIOUS
  <2>2. [pos \in Nat |-> IF WholeRow(cells, pos)
                         THEN <<RowAt(cells, pos)>> \o g[After(cells, pos)] ELSE <<>>]
        = [pos \in Nat |-> IF pos \in good THEN <<row[pos]>> \o g[next[pos]] ELSE <<>>]
    <3>1. \A pos \in Nat : /\ pos \in good <=> WholeRow(cells, pos)
                           /\ row[pos] = RowAt(cells, pos) /\ next[pos] = After(cells, pos)
      BY <1>2, <1>3, <1>4
    <3>2. QED
      BY <3>1, Zenon
  <2>3. QED
    BY <2>2 DEF Reads
<1>8. PICK g : g = CHOOSE h : Is(h)
  OBVIOUS
<1>9. Reads(g, good, row, next)
  <2> HIDE DEF Is
  <2>1. Is(g)
    BY <1>6, <1>7, <1>8
  <2>2. QED
    BY <1>7, <2>1
<1>10. ParseBuffer(cells) = g[0]
  BY <1>8 DEF ParseBuffer
<1>11. PICK V : V = {Row(e) : e \in Entry}
  OBVIOUS
<1>12. PICK rows : rows = [k \in 1 .. n |-> Row(s[k])]
  OBVIOUS
<1>13. \A k \in 1 .. n : s[k] \in Entry
  <2>1. PICK m \in Nat : m = Len(s) /\ s \in [1 .. m -> Entry]
    BY LenProperties
  <2>2. QED
    BY <2>1 DEF Torn
<1>14. rows \in Seq(V) /\ n = Len(rows)
  BY <1>11, <1>12, <1>13
<1>15. ReadsChain(good, row, next, at, rows, n)
  <2>1. at \in [0 .. n -> Nat]
    BY DEF Torn
  <2>2. ASSUME NEW k \in 1 .. n
        PROVE  at[k - 1] \in good /\ row[at[k - 1]] = rows[k] /\ next[at[k - 1]] = at[k]
    <3>1. PICK p \in Nat : p = at[k - 1]
      <4>1. k - 1 \in 0 .. n
        OBVIOUS
      <4>2. QED
        BY <2>1, <4>1
    <3>2. /\ WholeRow(cells, p) /\ RowAt(cells, p) = [path |-> s[k].path, meta |-> MetaOf(s[k])]
          /\ After(cells, p) = at[k]
      BY <3>1 DEF Torn, RowFound
    <3>3. QED
      BY <1>2, <1>3, <1>4, <1>12, <3>1, <3>2 DEF Row
  <2>3. at[n] \notin good
    BY <1>2 DEF Torn
  <2>4. QED
    BY <2>1, <2>2, <2>3 DEF ReadsChain
<1>16. g[at[0]] = rows
  BY <1>9, <1>14, <1>15, ChainIsRead
<1>17. QED
  BY <1>10, <1>12, <1>16 DEF Torn

\* and so does read_next_pbin_record.
LEMMA FileReads ==
  ASSUME NEW P, P = Seq(CellsOf(Stored)), NEW cells \in P, LengthsAre(cells),
         NEW s \in Seq(Entry), NEW n \in Nat, NEW at, Torn(cells, s, at, n)
  PROVE  ReadRows(cells) = [k \in 1 .. n |-> [path |-> s[k].path, dir |-> IsDir(s[k])]]
<1>1. PICK N \in Nat : N = Len(cells)
  BY LenProperties
<1>2. PICK good : good = {pos \in Nat : NextRow(cells, pos)}
  OBVIOUS
<1>3. PICK row : row = [pos \in Nat |-> FileRow(RowAt(cells, pos))]
  OBVIOUS
<1>4. PICK next : next = [pos \in Nat |-> After(cells, pos)]
  OBVIOUS
<1>5. \A pos \in good : pos \in 0 .. N /\ next[pos] \in Nat /\ next[pos] > pos
  <2>1. SUFFICES ASSUME NEW pos \in Nat, NextRow(cells, pos)
                 PROVE  pos \in 0 .. N /\ next[pos] \in Nat /\ next[pos] > pos
    BY <1>2
  <2>2. WholeRow(cells, pos)
    BY <2>1, NextIsWhole
  <2>3. QED
    BY <1>1, <1>4, <2>2, RowsAdvance
<1>6. PICK f : Reads(f, good, row, next)
  BY <1>5, ReadsExist
<1> DEFINE Is(g) == g = [pos \in Nat |->
                          IF NextRow(cells, pos)
                          THEN <<[path |-> RowAt(cells, pos).path,
                                  dir |-> TypeOf(RowAt(cells, pos).meta.dt) = "DIR"]>>
                                 \o g[After(cells, pos)]
                          ELSE <<>>]
<1>7. \A g : Is(g) <=> Reads(g, good, row, next)
  <2>1. SUFFICES ASSUME NEW g PROVE Is(g) <=> Reads(g, good, row, next)
    OBVIOUS
  <2>2. [pos \in Nat |-> IF NextRow(cells, pos)
                         THEN <<[path |-> RowAt(cells, pos).path,
                                 dir |-> TypeOf(RowAt(cells, pos).meta.dt) = "DIR"]>>
                                \o g[After(cells, pos)]
                         ELSE <<>>]
        = [pos \in Nat |-> IF pos \in good THEN <<row[pos]>> \o g[next[pos]] ELSE <<>>]
    <3>1. \A pos \in Nat : /\ pos \in good <=> NextRow(cells, pos)
                           /\ row[pos] = [path |-> RowAt(cells, pos).path,
                                          dir |-> TypeOf(RowAt(cells, pos).meta.dt) = "DIR"]
                           /\ next[pos] = After(cells, pos)
      BY <1>2, <1>3, <1>4 DEF FileRow
    <3>2. QED
      BY <3>1, Zenon
  <2>3. QED
    BY <2>2 DEF Reads
<1>8. PICK g : g = CHOOSE h : Is(h)
  OBVIOUS
<1>9. Reads(g, good, row, next)
  <2> HIDE DEF Is
  <2>1. Is(g)
    BY <1>6, <1>7, <1>8
  <2>2. QED
    BY <1>7, <2>1
<1>10. ReadRows(cells) = g[0]
  BY <1>8 DEF ReadRows
<1>11. PICK V : V = {FileRow(Row(e)) : e \in Entry}
  OBVIOUS
<1>12. PICK rows : rows = [k \in 1 .. n |-> FileRow(Row(s[k]))]
  OBVIOUS
<1>13. \A k \in 1 .. n : s[k] \in Entry
  <2>1. PICK m \in Nat : m = Len(s) /\ s \in [1 .. m -> Entry]
    BY LenProperties
  <2>2. QED
    BY <2>1 DEF Torn
<1>14. rows \in Seq(V) /\ n = Len(rows)
  BY <1>11, <1>12, <1>13
<1>15. ReadsChain(good, row, next, at, rows, n)
  <2>1. at \in [0 .. n -> Nat]
    BY DEF Torn
  <2>2. ASSUME NEW k \in 1 .. n
        PROVE  at[k - 1] \in good /\ row[at[k - 1]] = rows[k] /\ next[at[k - 1]] = at[k]
    <3>1. PICK p \in Nat : p = at[k - 1]
      <4>1. k - 1 \in 0 .. n
        OBVIOUS
      <4>2. QED
        BY <2>1, <4>1
    <3>2. /\ WholeRow(cells, p) /\ RowAt(cells, p) = Row(s[k]) /\ After(cells, p) = at[k]
          /\ LengthAt(cells, p) <= MaxPathLength
      BY <3>1 DEF Torn, RowFound, Row
    <3>3. NextRow(cells, p)
      BY <3>2, NextIsWhole
    <3>4. QED
      BY <1>2, <1>3, <1>4, <1>12, <3>1, <3>2, <3>3
  <2>3. at[n] \notin good
    <3>1. n \in 0 .. n
      OBVIOUS
    <3>2. at[n] \in Nat /\ ~WholeRow(cells, at[n])
      BY <2>1, <3>1 DEF Torn
    <3>3. QED
      BY <1>2, <3>2, NextIsWhole
  <2>4. QED
    BY <2>1, <2>2, <2>3 DEF ReadsChain
<1>16. g[at[0]] = rows
  BY <1>9, <1>14, <1>15, ChainIsRead
<1>17. rows = [k \in 1 .. n |-> [path |-> s[k].path, dir |-> IsDir(s[k])]]
  BY <1>12, <1>13, DirIs
<1>18. QED
  BY <1>10, <1>16, <1>17 DEF Torn

-----------------------------------------------------------------------------
(* A slice that was cut. *)

\* What is written of the first k entries.
Upto(s, k) == Written(SubSeq(s, 1, k))

\* What is written of the first entries stands in front of the rest.
LEMMA UptoIs ==
  ASSUME NEW P, P = Seq(CellsOf(Stored)), NEW s \in Seq(Entry), NEW k \in 0 .. Len(s)
  PROVE  /\ Upto(s, k) \in P /\ LengthsAre(Upto(s, k)) /\ Len(Upto(s, k)) \in Nat
         /\ Upto(s, 0) = <<>> /\ Upto(s, Len(s)) = Written(s)
         /\ k # 0 => Upto(s, k) = Upto(s, k - 1) \o PbinRow(s[k])
         /\ \E v \in P : Written(s) = Upto(s, k) \o v
<1>1. PICK n \in Nat : n = Len(s) /\ DOMAIN s = 1 .. n /\ s \in [1 .. n -> Entry]
  BY LenProperties
<1>2. \A i \in 0 .. n : SubSeq(s, 1, i) \in Seq(Entry) /\ SubSeq(s, 1, i) = [j \in 1 .. i |-> s[j]]
  BY <1>1
<1>3. PICK t \in Seq(Entry) : t = SubSeq(s, 1, k) /\ t = [j \in 1 .. k |-> s[j]]
  BY <1>1, <1>2
<1>4. PICK u \in P : u = Upto(s, k) /\ LengthsAre(u)
  BY <1>3, WrittenIs DEF Upto
<1>5. Len(u) \in Nat
  BY LenProperties
<1>6. Upto(s, 0) = <<>>
  <2>1. SubSeq(s, 1, 0) = <<>>
    BY <1>1, <1>2
  <2>2. QED
    BY <2>1, WrittenNothing DEF Upto
<1>7. Upto(s, n) = Written(s)
  <2>1. SubSeq(s, 1, n) = s
    BY <1>1, <1>2
  <2>2. QED
    BY <2>1 DEF Upto
<1>8. k # 0 => Upto(s, k) = Upto(s, k - 1) \o PbinRow(s[k])
  <2>1. SUFFICES ASSUME k # 0 PROVE Upto(s, k) = Upto(s, k - 1) \o PbinRow(s[k])
    OBVIOUS
  <2>2. k \in 1 .. Len(s) /\ k - 1 \in 0 .. n /\ k \in 1 .. n
    BY <1>1, <2>1
  <2>3. PICK h \in Seq(Entry) : h = SubSeq(s, 1, k - 1)
    BY <1>2, <2>2
  <2>4. PICK e \in Entry : e = s[k]
    BY <1>1, <2>2
  <2>5. Append(h, e) = t
    BY <1>3, <2>2, <2>3, <2>4, BeginningGrows
  <2>6. Written(t) = Written(h) \o PbinRow(e)
    BY <2>5, WrittenGrows
  <2>7. QED
    BY <1>3, <2>3, <2>4, <2>6 DEF Upto
<1>9. \E v \in P : Written(s) = u \o v
  <2>1. PICK m \in Nat : m = n - k
    <3>1. n - k \in Nat
      BY ONLY <1>1, k \in 0 .. Len(s), n \in Nat
    <3>2. QED
      BY <3>1
  <2>2. PICK r : r = [j \in 1 .. m |-> s[k + j]]
    OBVIOUS
  <2>3. \A j \in 1 .. m : k + j \in 1 .. n
    BY <1>1, <2>1
  <2>4. r \in Seq(Entry) /\ Len(r) = m
    BY <1>1, <2>2, <2>3
  <2>5. Len(t) = k
    BY <1>1, <1>3
  <2>6. s = t \o r
    <3>1. PICK c : c = t \o r
      OBVIOUS
    <3>2. c \in Seq(Entry) /\ Len(c) = k + m
      <4>1. PICK Q : Q = Seq(Entry)
        OBVIOUS
      <4>2. t \in Q /\ r \in Q
        BY <2>4, <4>1
      <4>3. t \o r \in Q /\ Len(t \o r) = Len(t) + Len(r)
        BY <4>1, <4>2, JoinedType
      <4>4. QED
        BY <2>4, <2>5, <3>1, <4>1, <4>3
    <3>3. DOMAIN c = 1 .. n /\ c \in [1 .. n -> Entry]
      BY <1>1, <2>1, <3>2, LenProperties
    <3>4. \A j \in 1 .. k : c[j] = t[j]
      BY <2>4, <2>5, <3>1, JoinedFirst
    <3>5. \A j \in 1 .. m : c[k + j] = r[j]
      BY <2>4, <2>5, <3>1, JoinedSecond
    <3>6. \A j \in 1 .. n : c[j] = s[j]
      <4>1. SUFFICES ASSUME NEW j \in 1 .. n PROVE c[j] = s[j]
        OBVIOUS
      <4>2. CASE j <= k
        BY <1>3, <3>4, <4>2
      <4>3. CASE j > k
        <5>1. PICK i \in 1 .. m : j = k + i
          <6>1. j - k \in 1 .. m /\ j = k + (j - k)
            BY <1>1, <2>1, <4>3
          <6>2. QED
            BY <6>1
        <5>2. QED
          BY <2>2, <3>5, <5>1
      <4>4. j <= k \/ j > k
        BY <1>1
      <4>5. QED
        BY ONLY <4>2, <4>3, <4>4, Zenon
    <3>7. c = [j \in 1 .. n |-> c[j]] /\ s = [j \in 1 .. n |-> s[j]]
      BY <1>1, <3>3
    <3>8. QED
      BY <3>1, <3>6, <3>7
  <2>7. PICK v \in P : v = Written(r)
    BY <2>4, WrittenIs
  <2>8. Written(s) = Written(t) \o v
    BY <2>4, <2>6, <2>7, WrittenJoin
  <2>9. QED
    BY <1>3, <1>4, <2>8 DEF Upto
<1>10. QED
  BY <1>1, <1>4, <1>5, <1>6, <1>7, <1>8, <1>9

\* A cut behind the first part leaves the first part.
LEMMA CutBehind ==
  ASSUME NEW S, NEW P, P = Seq(S)
  PROVE  \A a, v \in P : \A cut \in Nat : Len(a) <= cut /\ cut <= Len(a \o v) =>
           \E w \in P : SubSeq(a \o v, 1, cut) = a \o w
<1> SUFFICES ASSUME NEW a \in P, NEW v \in P, NEW cut \in Nat,
                    Len(a) <= cut, cut <= Len(a \o v)
             PROVE  \E w \in P : SubSeq(a \o v, 1, cut) = a \o w
  BY ZenonT(60)
<1>1. PICK c : c = a \o v
  OBVIOUS
<1>2. PICK m \in Nat : m = Len(a)
  BY LenProperties
<1>3. m <= cut /\ cut <= Len(c)
  BY <1>1, <1>2
<1>4. PICK n \in Nat : n = Len(v) /\ DOMAIN v = 1 .. n /\ v \in [1 .. n -> S]
  BY LenProperties
<1>5. a \in [1 .. m -> S]
  BY <1>2, LenProperties
<1>6. c \in P /\ Len(c) = m + n
  <2>1. a \o v \in P /\ Len(a \o v) = Len(a) + Len(v)
    BY ONLY JoinedType, P = Seq(S), a \in P, v \in P
  <2>2. QED
    BY <1>4, <1>1, <1>2, <2>1
<1>7. c \in [1 .. m + n -> S] /\ cut <= m + n
  BY <1>6, <1>3, LenProperties
<1>8. PICK r \in Nat : r = cut - m /\ r <= n
  <2>1. cut - m \in Nat /\ cut - m <= n
    BY <1>7, <1>3
  <2>2. QED
    BY <2>1
<1>9. PICK w : w = [j \in 1 .. r |-> v[j]]
  OBVIOUS
<1>10. w \in P /\ Len(w) = r
  <2>1. \A j \in 1 .. r : v[j] \in S
    BY <1>4, <1>8
  <2>2. w \in Seq(S) /\ Len(w) = r
    BY ONLY <1>9, <2>1, r \in Nat
  <2>3. QED
    BY <2>2
<1>11. PICK d : d = a \o w
  OBVIOUS
<1>12. d \in P /\ Len(d) = m + r
  <2>1. a \o w \in P /\ Len(a \o w) = Len(a) + Len(w)
    BY ONLY <1>10, JoinedType, P = Seq(S), a \in P
  <2>2. QED
    BY <1>10, <1>11, <1>2, <2>1
<1>13. m + r = cut
  BY <1>8
<1>14. d \in [1 .. cut -> S]
  BY <1>12, <1>13, LenProperties
<1>15. (\A j \in 1 .. m : c[j] = a[j]) /\ (\A j \in 1 .. n : c[m + j] = v[j])
  BY <1>4, <1>1, <1>2, JoinedFirst, JoinedSecond
<1>16. (\A j \in 1 .. m : d[j] = a[j]) /\ (\A j \in 1 .. r : d[m + j] = w[j])
  BY <1>10, <1>11, <1>2, JoinedFirst, JoinedSecond
<1>17. \A j \in 1 .. cut : d[j] = c[j]
  <2>1. SUFFICES ASSUME NEW j \in 1 .. cut PROVE d[j] = c[j]
    OBVIOUS
  <2>2. CASE j <= m
    BY <1>15, <1>16, <2>2
  <2>3. CASE j > m
    <3>1. PICK i \in 1 .. r : j = m + i
      <4>1. j - m \in 1 .. r /\ j = m + (j - m)
        BY <1>13, <2>3
      <4>2. QED
        BY <4>1
    <3>2. i \in 1 .. n
      BY <1>8
    <3>3. QED
      BY <1>9, <1>15, <1>16, <3>1, <3>2
  <2>4. j <= m \/ j > m
    OBVIOUS
  <2>5. QED
    BY ONLY <2>2, <2>3, <2>4, Zenon
<1>18. SubSeq(c, 1, cut) = [j \in 1 .. cut |-> c[j]]
  BY <1>7, <1>3
<1>19. d = [j \in 1 .. cut |-> d[j]]
  BY <1>14
<1>20. QED
  BY <1>10, <1>11, <1>17, <1>18, <1>19, <1>1

\* The slice of these rows, before and after the footer.
SliceOf(s, c) == c = Written(s) \/ \E r \in Nat : c = Written(s) \o Footer(r)

\* What is behind the rows: nothing, or a footer.
LEMMA SliceIs ==
  ASSUME NEW P, P = Seq(CellsOf(Stored)), NEW s \in Seq(Entry), NEW c, SliceOf(s, c)
  PROVE  \E tail \in P :
           /\ c = Written(s) \o tail /\ LengthsAre(c) /\ c \in P
           /\ tail # <<>> => Len(tail) = FooterWidth /\ tail[1].field = "footer"
<1>1. PICK u \in P : u = Written(s) /\ LengthsAre(u)
  BY WrittenIs
<1>2. CASE c = Written(s)
  <2>1. u \o <<>> = u /\ <<>> \in P
    BY ConcatEmptySeq
  <2>2. QED
    BY <1>1, <1>2, <2>1
<1>3. CASE \E r \in Nat : c = Written(s) \o Footer(r)
  <2>1. PICK r \in Nat : c = u \o Footer(r)
    BY <1>1, <1>3
  <2>2. PICK fw \in Nat, lw \in Nat : fw = FooterWidth /\ fw >= lw /\ lw # 0
    BY WidthAssumption
  <2>3. PICK tail : tail = Fixed("footer", r, fw)
    OBVIOUS
  <2>4. /\ tail \in P /\ Len(tail) = fw
        /\ \A k \in 1 .. fw : tail[k] = [field |-> "footer", value |-> r, at |-> k]
    <3>1. "footer" \in Fields /\ r \in Stored
      BY DEF Fields, Stored
    <3>2. QED
      BY <2>3, <3>1, FixedIs
  <2>5. 1 \in 1 .. fw
    BY <2>2
  <2>6. tail[1].field = "footer"
    BY <2>4, <2>5
  <2>7. LengthsAre(tail)
    <3>1. DOMAIN tail = 1 .. fw
      BY <2>4, LenProperties
    <3>2. QED
      BY <2>4, <3>1 DEF LengthsAre
  <2>8. c = u \o tail
    BY <2>1, <2>2, <2>3 DEF Footer
  <2>9. c \in P /\ LengthsAre(c)
    BY <1>1, <2>4, <2>7, <2>8, JoinedType, LengthsJoin
  <2>10. QED
    BY <1>1, <2>2, <2>4, <2>6, <2>8, <2>9
<1>4. QED
  BY <1>2, <1>3 DEF SliceOf

\* A row that was written whole is found.
LEMMA RowInTorn ==
  ASSUME NEW P, P = Seq(CellsOf(Stored)), NEW s \in Seq(Entry), NEW tail \in P,
         NEW c, c = Written(s) \o tail, NEW cut \in Nat, cut <= Len(c),
         NEW torn, torn = SubSeq(c, 1, cut),
         NEW k \in 1 .. Len(s), Len(Upto(s, k)) <= cut
  PROVE  RowFound(torn, Len(Upto(s, k - 1)), s[k].path, MetaOf(s[k]), Len(Upto(s, k)))
<1>1. PICK n \in Nat : n = Len(s) /\ DOMAIN s = 1 .. n /\ s \in [1 .. n -> Entry]
  BY LenProperties
<1>2. k \in 0 .. Len(s) /\ k - 1 \in 0 .. Len(s) /\ k # 0
  BY <1>1
<1>3. PICK a \in P : a = Upto(s, k)
  BY <1>2, UptoIs
<1>4. PICK m \in Nat : m = Len(a)
  BY LenProperties
<1>5. PICK v \in P : Written(s) = a \o v
  BY <1>2, <1>3, UptoIs
<1>6. c = a \o (v \o tail) /\ v \o tail \in P
  <2>1. (a \o v) \o tail = a \o (v \o tail)
    BY ONLY Regroup, P = Seq(CellsOf(Stored)), a \in P, v \in P, tail \in P, SMTT(60)
  <2>2. v \o tail \in P
    BY JoinedType
  <2>3. QED
    BY <1>5, <2>1, <2>2
<1>7. PICK w \in P : torn = a \o w
  <2>1. PICK x \in P : x = v \o tail
    BY <1>6
  <2>2. c = a \o x
    BY <1>6, <2>1
  <2>3. m <= cut
    BY <1>3, <1>4
  <2>4. Len(a) <= cut /\ cut <= Len(a \o x) /\ torn = SubSeq(a \o x, 1, cut)
    BY <1>4, <2>2, <2>3
  <2>5. \E w \in P : SubSeq(a \o x, 1, cut) = a \o w
    BY <2>4, CutBehind, ZenonT(60)
  <2>6. QED
    BY <2>4, <2>5
<1>8. PICK u \in P : u = Upto(s, k - 1)
  BY <1>2, UptoIs
<1>9. PICK e \in Entry : e = s[k]
  BY <1>1
<1>10. /\ PbinRow(e) = RowCells(e.path, MetaOf(e)) /\ e.path \in Seq(Stored)
       /\ MetaOf(e) \in Stored /\ Len(e.path) \in Stored
  BY PbinRowIs
<1>11. a = u \o RowCells(e.path, MetaOf(e))
  BY <1>2, <1>3, <1>8, <1>9, <1>10, UptoIs
<1>12. PICK path \in Seq(Stored), meta \in Stored : path = e.path /\ meta = MetaOf(e) /\ Len(path) \in Stored
  BY <1>10
<1>13. torn = (u \o RowCells(path, meta)) \o w
  BY <1>7, <1>11, <1>12
<1>14. RowFound(torn, Len(u), path, meta, Len(u \o RowCells(path, meta)))
  BY <1>12, <1>13, RowIsThere
<1>15. QED
  BY <1>3, <1>8, <1>9, <1>11, <1>12, <1>14

\* A row that was cut is none, nor is the footer.
LEMMA StopsInRow ==
  ASSUME NEW P, P = Seq(CellsOf(Stored)), NEW s \in Seq(Entry), NEW tail \in P,
         NEW c, c = Written(s) \o tail, c \in P, LengthsAre(c),
         NEW cut \in Nat, cut <= Len(c), NEW torn, torn = SubSeq(c, 1, cut),
         NEW k \in 1 .. Len(s), Len(Upto(s, k - 1)) <= cut, cut < Len(Upto(s, k))
  PROVE  ~WholeRow(torn, Len(Upto(s, k - 1)))
<1>1. PICK n \in Nat, N \in Nat : n = Len(s) /\ N = Len(c)
  BY LenProperties
<1>2. k \in 0 .. Len(s) /\ k - 1 \in 0 .. Len(s)
  BY <1>1
<1>3. PICK p \in Nat, q \in Nat : p = Len(Upto(s, k - 1)) /\ q = Len(Upto(s, k))
  BY <1>2, UptoIs
<1>4. q <= N
  <2>1. PICK a \in P : a = Upto(s, k)
    BY <1>2, UptoIs
  <2>2. PICK v \in P : Written(s) = a \o v
    BY <1>2, <2>1, UptoIs
  <2>3. PICK x \in Nat, y \in Nat : x = Len(v) /\ y = Len(tail)
    BY LenProperties
  <2>4. a \o v \in P /\ Len(a \o v) = q + x
    <3>1. a \o v \in P /\ Len(a \o v) = Len(a) + Len(v)
      BY ONLY JoinedType, P = Seq(CellsOf(Stored)), a \in P, v \in P
    <3>2. QED
      BY <1>3, <2>1, <2>3, <3>1
  <2>5. PICK d \in P : d = a \o v /\ Len(d) = q + x
    BY <2>4
  <2>6. c = d \o tail
    BY <2>2, <2>5
  <2>7. Len(d \o tail) = Len(d) + Len(tail)
    BY ONLY JoinedType, P = Seq(CellsOf(Stored)), d \in P, tail \in P
  <2>8. N = (q + x) + y
    BY <1>1, <2>3, <2>5, <2>6, <2>7
  <2>9. QED
    BY <2>8
<1>5. RowFound(c, p, s[k].path, MetaOf(s[k]), q)
  <2>1. SubSeq(c, 1, N) = c
    <3>1. c \in [1 .. N -> CellsOf(Stored)]
      BY <1>1, LenProperties
    <3>2. QED
      BY <1>1, <3>1
  <2>2. N \in Nat /\ N <= Len(c) /\ c = SubSeq(c, 1, N) /\ Len(Upto(s, k)) <= N
    BY <1>1, <1>3, <1>4, <2>1
  <2>3. QED
    BY <1>3, <2>2, RowInTorn
<1>6. After(c, p) = q
  BY <1>5 DEF RowFound
<1>7. cut \in 0 .. Len(c)
  BY <1>1
<1>8. torn \in P /\ Len(torn) = cut /\ \A j \in 1 .. cut : torn[j] = c[j]
  BY <1>7, LengthsCut
<1>9. SUFFICES ASSUME WholeRow(torn, p) PROVE FALSE
  BY <1>3
<1>10. PICK lw \in Nat, mw \in Nat : lw = LengthWidth /\ mw = MetaWidth /\ lw # 0
  BY WidthAssumption
<1>11. p + lw <= cut /\ After(torn, p) <= cut
  BY <1>8, <1>9, <1>10 DEF WholeRow, Fits
<1>12. p + 1 \in 1 .. cut
  BY <1>10, <1>11
<1>13. After(torn, p) = After(c, p)
  BY <1>8, <1>12 DEF After, LengthAt
<1>14. QED
  BY <1>3, <1>6, <1>11, <1>13

\* A footer, or what a cut left of it, is no row.
LEMMA StopsAtEnd ==
  ASSUME NEW P, P = Seq(CellsOf(Stored)), NEW s \in Seq(Entry), NEW tail \in P,
         NEW c, c = Written(s) \o tail, c \in P, LengthsAre(c),
         tail # <<>> => Len(tail) = FooterWidth /\ tail[1].field = "footer",
         NEW cut \in Nat, cut <= Len(c), NEW torn, torn = SubSeq(c, 1, cut),
         Len(Written(s)) <= cut
  PROVE  ~WholeRow(torn, Len(Written(s)))
<1>1. PICK u \in P : u = Written(s)
  BY WrittenIs
<1>2. PICK p \in Nat, y \in Nat : p = Len(u) /\ y = Len(tail)
  BY LenProperties
<1>3. Len(c) = p + y
  <2>1. Len(u \o tail) = Len(u) + Len(tail)
    BY ONLY JoinedType, P = Seq(CellsOf(Stored)), u \in P, tail \in P
  <2>2. QED
    BY <1>1, <1>2, <2>1
<1>4. cut \in 0 .. Len(c)
  BY <1>3
<1>5. torn \in P /\ Len(torn) = cut /\ \A j \in 1 .. cut : torn[j] = c[j]
  BY <1>4, LengthsCut
<1>6. SUFFICES ASSUME WholeRow(torn, p) PROVE FALSE
  BY <1>1, <1>2
<1>7. PICK lw \in Nat, mw \in Nat, fw \in Nat, ml \in Nat :
        /\ lw = LengthWidth /\ mw = MetaWidth /\ lw # 0
        /\ fw = FooterWidth /\ ml = MaxPathLength /\ fw <= ml
  BY WidthAssumption
<1>8. p + lw <= cut /\ After(torn, p) <= cut
  BY <1>5, <1>6, <1>7 DEF WholeRow, Fits
<1>9. p + 1 \in 1 .. cut /\ 1 \in 1 .. y
  <2>1. lw >= 1 /\ p + lw <= cut /\ cut <= p + y
    BY <1>3, <1>7, <1>8
  <2>2. p + 1 <= cut /\ 1 <= y
    BY ONLY <2>1, p \in Nat, lw \in Nat, cut \in Nat, y \in Nat
  <2>3. QED
    BY <2>2
<1>10. tail # <<>>
  BY <1>2, <1>9
<1>11. c[p + 1] = tail[1]
  <2>1. \A k \in 1 .. y : c[p + k] = tail[k]
    BY <1>1, <1>2, JoinedSecond
  <2>2. QED
    BY <1>9, <2>1
<1>12. torn[p + 1].field = "footer"
  BY <1>5, <1>9, <1>10, <1>11
<1>13. LengthAt(torn, p) = ml + 1
  BY <1>7, <1>12 DEF LengthAt
<1>14. After(torn, p) = ((p + lw) + (ml + 1)) + mw
  BY <1>7, <1>13 DEF After
<1>15. cut <= p + fw
  BY <1>2, <1>3, <1>7, <1>10
<1>16. QED
  BY <1>7, <1>8, <1>14, <1>15

\* What is written of some entries is no longer than the slice.
LEMMA UptoFits ==
  ASSUME NEW P, P = Seq(CellsOf(Stored)), NEW s \in Seq(Entry), NEW tail \in P,
         NEW c, c = Written(s) \o tail
  PROVE  \A k \in 0 .. Len(s) : Len(Upto(s, k)) \in Nat /\ Len(Upto(s, k)) <= Len(c)
<1>1. SUFFICES ASSUME NEW k \in 0 .. Len(s)
               PROVE  Len(Upto(s, k)) \in Nat /\ Len(Upto(s, k)) <= Len(c)
  OBVIOUS
<1>2. PICK a \in P : a = Upto(s, k)
  BY UptoIs
<1>3. PICK v \in P : Written(s) = a \o v
  BY <1>2, UptoIs
<1>4. PICK p \in Nat, x \in Nat, y \in Nat : p = Len(a) /\ x = Len(v) /\ y = Len(tail)
  BY LenProperties
<1>5. a \o v \in P /\ Len(a \o v) = Len(a) + Len(v)
  BY ONLY JoinedType, P = Seq(CellsOf(Stored)), a \in P, v \in P
<1>6. PICK d \in P : d = a \o v /\ Len(d) = p + x
  BY <1>4, <1>5
<1>7. Len(d \o tail) = Len(d) + Len(tail)
  BY ONLY JoinedType, P = Seq(CellsOf(Stored)), d \in P, tail \in P
<1>8. Len(c) = (p + x) + y
  BY <1>3, <1>4, <1>6, <1>7
<1>9. QED
  BY <1>2, <1>4, <1>8

\* A slice that was cut holds the first entries, and no more.
LEMMA TornIs ==
  ASSUME NEW P, P = Seq(CellsOf(Stored)), NEW s \in Seq(Entry),
         \A k \in 1 .. Len(s) : Len(s[k].path) <= MaxPathLength,
         NEW c, SliceOf(s, c), NEW cut \in 0 .. Len(c),
         NEW torn, torn = SubSeq(c, 1, cut)
  PROVE  /\ torn \in P /\ LengthsAre(torn)
         /\ \E n \in 0 .. Len(s) : (cut = Len(c) => n = Len(s)) /\ \E at : Torn(torn, s, at, n)
<1>1. PICK tail \in P :
        /\ c = Written(s) \o tail /\ LengthsAre(c) /\ c \in P
        /\ tail # <<>> => Len(tail) = FooterWidth /\ tail[1].field = "footer"
  BY SliceIs
<1>2. torn \in P /\ LengthsAre(torn)
  BY <1>1, LengthsCut
<1>3. PICK N \in Nat, m \in Nat : N = Len(s) /\ m = Len(c)
  BY <1>1, LenProperties
<1>4. cut \in Nat /\ cut <= Len(c)
  BY <1>3
<1>5. PICK lu : lu = [k \in 0 .. N |-> Len(Upto(s, k))]
  OBVIOUS
<1>6. lu \in [0 .. N -> Nat] /\ \A k \in 0 .. N : lu[k] = Len(Upto(s, k)) /\ lu[k] <= m
  BY <1>1, <1>3, <1>5, UptoFits
<1>7. lu[0] = 0
  <2>1. 0 \in 0 .. N /\ Upto(s, 0) = <<>>
    BY <1>3, UptoIs
  <2>2. QED
    BY <1>6, <2>1
<1>8. lu[N] = Len(Written(s))
  <2>1. N \in 0 .. N /\ Upto(s, N) = Written(s)
    BY <1>3, UptoIs
  <2>2. QED
    BY <1>6, <2>1
<1>9. ASSUME NEW n \in 0 .. N, \A k \in 1 .. n : lu[k] <= cut, ~WholeRow(torn, lu[n])
      PROVE  \E at : Torn(torn, s, at, n)
  <2>1. PICK at : at = [k \in 0 .. n |-> lu[k]]
    OBVIOUS
  <2>2. at \in [0 .. n -> Nat] /\ at[0] = 0 /\ n <= Len(s) /\ at[n] = lu[n]
    BY <1>3, <1>6, <1>7, <2>1
  <2>3. ASSUME NEW k \in 1 .. n
        PROVE  /\ RowFound(torn, at[k - 1], s[k].path, MetaOf(s[k]), at[k])
               /\ Len(s[k].path) <= MaxPathLength
    <3>1. k \in 1 .. Len(s) /\ k - 1 \in 0 .. N /\ k \in 0 .. N /\ k - 1 \in 0 .. n /\ k \in 0 .. n
      BY <1>3
    <3>2. at[k] = Len(Upto(s, k)) /\ at[k - 1] = Len(Upto(s, k - 1))
      BY <1>6, <2>1, <3>1
    <3>3. Len(Upto(s, k)) <= cut
      BY <1>6, <1>9, <3>1
    <3>4. RowFound(torn, Len(Upto(s, k - 1)), s[k].path, MetaOf(s[k]), Len(Upto(s, k)))
      BY <1>1, <1>4, <3>1, <3>3, RowInTorn
    <3>5. QED
      BY <3>1, <3>2, <3>4
  <2>4. QED
    BY <1>9, <2>2, <2>3 DEF Torn
<1>10. CASE \E k \in 1 .. N : lu[k] > cut
  <2>1. PICK K \in 1 .. N : lu[K] > cut /\ \A k \in 1 .. N : lu[k] > cut => K <= k
    <3>1. PICK S : S = {k \in 1 .. N : lu[k] > cut}
      OBVIOUS
    <3>2. S \subseteq Nat /\ S # {}
      BY <1>10, <3>1
    <3>3. PICK K \in S : \A k \in S : K <= k
      BY <3>2, LeastNumber
    <3>4. QED
      BY <3>1, <3>3
  <2>2. K - 1 \in 0 .. N /\ K \in 1 .. Len(s) /\ K \in 0 .. N
    BY <1>3
  <2>3. \A k \in 1 .. K - 1 : lu[k] <= cut
    BY <1>4, <1>6, <2>1
  <2>4. lu[K - 1] <= cut
    BY <1>4, <1>7, <2>2, <2>3
  <2>5. Len(Upto(s, K - 1)) <= cut /\ cut < Len(Upto(s, K))
    BY <1>4, <1>6, <2>1, <2>2, <2>4
  <2>6. ~WholeRow(torn, Len(Upto(s, K - 1)))
    BY <1>1, <1>4, <2>2, <2>5, StopsInRow
  <2>7. ~WholeRow(torn, lu[K - 1])
    BY <1>6, <2>2, <2>6
  <2>8. cut # Len(c)
    BY <1>3, <1>6, <2>1, <2>2
  <2>9. \E at : Torn(torn, s, at, K - 1)
    BY <1>9, <2>2, <2>3, <2>7
  <2>10. QED
    BY <1>2, <1>3, <2>2, <2>8, <2>9
<1>11. CASE ~\E k \in 1 .. N : lu[k] > cut
  <2>1. \A k \in 1 .. N : lu[k] <= cut
    BY <1>4, <1>6, <1>11
  <2>2. lu[N] <= cut
    BY <1>3, <1>4, <1>7, <2>1
  <2>3. ~WholeRow(torn, Len(Written(s)))
    BY <1>1, <1>4, <1>8, <2>2, StopsAtEnd
  <2>4. N \in 0 .. N /\ ~WholeRow(torn, lu[N])
    BY <1>3, <1>8, <2>3
  <2>5. \E at : Torn(torn, s, at, N)
    BY <1>9, <2>1, <2>4
  <2>6. QED
    BY <1>2, <1>3, <2>4, <2>5
<1>12. QED
  BY <1>10, <1>11

-----------------------------------------------------------------------------
(* What becomes of the entries that are recorded. *)

\* The equation of Record, for the first n of the entries.
Records(f, entries, r, n) ==
  f = [k \in 0 .. n |-> IF k = 0 THEN r ELSE RecordOne(f[k - 1], entries[k])]

\* What has become of the first k entries.
LEMMA RecordsAt ==
  ASSUME NEW entries, NEW r, NEW n, NEW f, Records(f, entries, r, n), NEW k \in 0 .. n
  PROVE  f[k] = IF k = 0 THEN r ELSE RecordOne(f[k - 1], entries[k])
BY DEF Records

\* It has a solution.
LEMMA RecordsExist ==
  ASSUME NEW entries, NEW r
  PROVE  \A n \in Nat : \E f : Records(f, entries, r, n)
<1> DEFINE T == {n \in Nat : \E f : Records(f, entries, r, n)}
<1>1. 0 \in T
  <2>1. Records([k \in 0 .. 0 |-> r], entries, r, 0)
    BY DEF Records
  <2>2. QED
    BY <2>1
<1>2. ASSUME NEW n \in T PROVE n + 1 \in T
  <2>1. PICK f : Records(f, entries, r, n)
    OBVIOUS
  <2> DEFINE next(h, k) == IF k = 0 THEN r ELSE RecordOne(h[k - 1], entries[k])
  <2>2. PICK g : g = [k \in 0 .. n + 1 |-> next(f, k)]
    OBVIOUS
  <2>3. \A k \in 0 .. n : g[k] = f[k]
    <3>1. SUFFICES ASSUME NEW k \in 0 .. n PROVE g[k] = f[k]
      OBVIOUS
    <3>2. k \in 0 .. n + 1
      OBVIOUS
    <3>3. f[k] = next(f, k)
      BY <2>1, RecordsAt
    <3>4. g[k] = next(f, k)
      <4> HIDE DEF next
      <4>1. QED
        BY <2>2, <3>2
    <3>5. QED
      BY <3>3, <3>4
  <2>4. \A k \in 0 .. n + 1 : k # 0 => k - 1 \in 0 .. n
    OBVIOUS
  <2>5. \A k \in 0 .. n + 1 : next(f, k) = next(g, k)
    BY <2>3, <2>4
  <2>6. g = [k \in 0 .. n + 1 |-> next(g, k)]
    <3> HIDE DEF next
    <3>1. QED
      BY <2>2, <2>5
  <2>7. Records(g, entries, r, n + 1)
    BY <2>6 DEF Records
  <2>8. QED
    BY <2>7
<1>3. \A n \in Nat : n \in T
  <2> HIDE DEF T
  <2>1. ASSUME NEW m \in Nat, \A k \in Nat : k < m => k \in T PROVE m \in T
    <3>1. m # 0 => m - 1 \in Nat /\ m - 1 < m /\ (m - 1) + 1 = m
      OBVIOUS
    <3>2. QED
      BY <1>1, <1>2, <2>1, <3>1
  <2>2. QED
    BY <2>1, NumbersUpTo
<1>4. QED
  BY <1>3

\* What may be recorded: what a worker sent.
Told == {e \in Entry : e \in Given /\ Len(e.path) <= MaxPathLength}

\* Rows in the cells, and entries that wait.
Recording(r) ==
  /\ r.batch \in Seq(Told)
  /\ \E s \in Seq(Told) : r.cells = Written(s)

\* What may be recorded is a sequence of entries.
LEMMA ToldIs == \A s \in Seq(Told) : s \in Seq(Entry) /\ \A k \in 1 .. Len(s) : s[k] \in Told
<1>1. SUFFICES ASSUME NEW s \in Seq(Told)
               PROVE  s \in Seq(Entry) /\ \A k \in 1 .. Len(s) : s[k] \in Told
  OBVIOUS
<1>2. PICK n \in Nat : n = Len(s) /\ s \in [1 .. n -> Told]
  BY LenProperties
<1>3. Told \subseteq Entry
  BY DEF Told
<1>4. QED
  BY <1>2, <1>3

\* Two sequences that were recorded one after the other.
LEMMA JoinRecorded ==
  \A s, t \in Seq(Told) : \E u \in Seq(Told) : Written(s) \o Written(t) = Written(u)
<1>1. SUFFICES ASSUME NEW s \in Seq(Told), NEW t \in Seq(Told)
               PROVE  \E u \in Seq(Told) : Written(s) \o Written(t) = Written(u)
  OBVIOUS
<1>2. PICK P : P = Seq(Told)
  OBVIOUS
<1>3. s \o t \in P
  BY ONLY JoinedType, P = Seq(Told), s \in P, t \in P, <1>2
<1>4. s \in Seq(Entry) /\ t \in Seq(Entry)
  BY ToldIs
<1>5. Written(s \o t) = Written(s) \o Written(t)
  BY <1>4, WrittenJoin
<1>6. QED
  BY <1>2, <1>3, <1>5

\* One more entry is recorded,
LEMMA RecordOneKeeps ==
  ASSUME NEW r, Recording(r), DOMAIN r = {"batch", "cells"},
         NEW e \in Told
  PROVE  Recording(RecordOne(r, e)) /\ DOMAIN RecordOne(r, e) = {"batch", "cells"}
<1>1. CASE Len(r.batch) >= RecordBatchMax
  <2>1. RecordOne(r, e) = [batch |-> <<e>>, cells |-> r.cells \o Written(r.batch)]
    BY <1>1 DEF RecordOne
  <2>2. <<e>> \in Seq(Told)
    OBVIOUS
  <2>3. \E u \in Seq(Told) : r.cells \o Written(r.batch) = Written(u)
    <3>1. PICK s \in Seq(Told), t \in Seq(Told) : r.cells = Written(s) /\ r.batch = t
      BY DEF Recording
    <3>2. PICK u \in Seq(Told) : Written(s) \o Written(t) = Written(u)
      BY JoinRecorded
    <3>3. QED
      BY <3>1, <3>2
  <2>4. QED
    BY <2>1, <2>2, <2>3 DEF Recording
<1>2. CASE ~(Len(r.batch) >= RecordBatchMax)
  <2>1. RecordOne(r, e) = [r EXCEPT !.batch = Append(r.batch, e)]
    BY <1>2 DEF RecordOne
  <2>2. Append(r.batch, e) \in Seq(Told)
    BY AppendProperties DEF Recording
  <2>3. /\ RecordOne(r, e).batch = Append(r.batch, e) /\ RecordOne(r, e).cells = r.cells
        /\ DOMAIN RecordOne(r, e) = {"batch", "cells"}
    BY <2>1
  <2>4. QED
    BY <2>2, <2>3 DEF Recording
<1>3. QED
  BY <1>1, <1>2

\* and any number of them (record_path_batch_append).
LEMMA RecordKeeps ==
  ASSUME NEW entries \in Seq(Told), Recording([batch |-> recBatch, cells |-> slice]),
         Record(entries)
  PROVE  Recording([batch |-> recBatch', cells |-> slice'])
<1>1. PICK n \in Nat : n = Len(entries) /\ DOMAIN entries = 1 .. n /\ entries \in [1 .. n -> Told]
  BY LenProperties
<1>2. PICK r : r = [batch |-> recBatch, cells |-> slice]
  OBVIOUS
<1>3. PICK f : f = CHOOSE h : Records(h, entries, r, n)
  OBVIOUS
<1>4. Records(f, entries, r, n)
  BY <1>3, RecordsExist
<1>5. recBatch' = f[n].batch /\ slice' = f[n].cells
  BY <1>1, <1>2, <1>3 DEF Record, Records
<1> DEFINE T == {k \in Nat : k \in 0 .. n => Recording(f[k]) /\ DOMAIN f[k] = {"batch", "cells"}}
<1>6. ASSUME NEW k \in Nat, \A j \in Nat : j < k => j \in T PROVE k \in T
  <2>1. SUFFICES ASSUME k \in 0 .. n PROVE Recording(f[k]) /\ DOMAIN f[k] = {"batch", "cells"}
    OBVIOUS
  <2>2. f[k] = IF k = 0 THEN r ELSE RecordOne(f[k - 1], entries[k])
    BY <1>4, <2>1, RecordsAt
  <2>3. CASE k = 0
    BY <1>2, <2>2, <2>3
  <2>4. CASE k # 0
    <3>1. k - 1 \in Nat /\ k - 1 < k /\ k - 1 \in 0 .. n /\ k \in 1 .. n
      BY <2>1, <2>4
    <3>2. Recording(f[k - 1]) /\ DOMAIN f[k - 1] = {"batch", "cells"} /\ entries[k] \in Told
      BY <1>1, <1>6, <3>1
    <3>3. PICK q : q = f[k - 1]
      OBVIOUS
    <3>4. Recording(RecordOne(q, entries[k])) /\ DOMAIN RecordOne(q, entries[k]) = {"batch", "cells"}
      BY <3>2, <3>3, RecordOneKeeps
    <3>5. QED
      BY <2>2, <2>4, <3>3, <3>4
  <2>5. QED
    BY <2>3, <2>4
<1>7. n \in T
  <2> HIDE DEF T
  <2>1. QED
    BY <1>6, NumbersUpTo
<1>8. Recording(f[n])
  BY <1>7
<1>9. Recording([batch |-> f[n].batch, cells |-> f[n].cells])
  BY <1>8 DEF Recording
<1>10. QED
  BY <1>5, <1>9

\* The slice holds what was recorded and does not wait any more, and the footer
\* at the end.
SliceInv ==
  /\ recBatch \in Seq(Told)
  /\ IF phase = "done" THEN \E s \in Seq(Told) : SliceOf(s, slice)
     ELSE \E s \in Seq(Told) : slice = Written(s)

\* The invariant of the slice holds at the start.
LEMMA InitSliceInv == Init => SliceInv
<1>1. SUFFICES ASSUME Init PROVE SliceInv
  OBVIOUS
<1>2. recBatch = <<>> /\ slice = <<>> /\ phase = "seed"
  BY <1>1 DEF Init
<1>3. <<>> \in Seq(Told)
  BY EmptySeq
<1>4. slice = Written(<<>>)
  BY <1>2, WrittenNothing
<1>5. QED
  BY <1>2, <1>3, <1>4 DEF SliceInv

\* Both readers find the first n entries.
BothFind(cells, s, n) ==
  /\ ParseBuffer(cells) = [k \in 1 .. n |-> Row(s[k])]
  /\ ReadRows(cells) = [k \in 1 .. n |-> [path |-> s[k].path, dir |-> IsDir(s[k])]]

\* What both readers find in a slice that was cut.
LEMMA CutReads ==
  ASSUME NEW s \in Seq(Told), NEW c, SliceOf(s, c), NEW cut \in 0 .. Len(c),
         NEW torn, torn = SubSeq(c, 1, cut)
  PROVE  \E n \in 0 .. Len(s) : (cut = Len(c) => n = Len(s)) /\ BothFind(torn, s, n)
<1>1. s \in Seq(Entry) /\ \A k \in 1 .. Len(s) : s[k] \in Told
  BY ToldIs
<1>2. \A k \in 1 .. Len(s) : Len(s[k].path) <= MaxPathLength
  BY <1>1 DEF Told
<1>3. PICK P : P = Seq(CellsOf(Stored))
  OBVIOUS
<1>4. /\ torn \in P /\ LengthsAre(torn)
      /\ \E n \in 0 .. Len(s) : (cut = Len(c) => n = Len(s)) /\ \E at : Torn(torn, s, at, n)
  BY <1>1, <1>2, <1>3, TornIs
<1>5. PICK n \in 0 .. Len(s) : (cut = Len(c) => n = Len(s)) /\ \E at : Torn(torn, s, at, n)
  BY <1>4
<1>6. PICK at : Torn(torn, s, at, n)
  BY <1>5
<1>7. n \in Nat
  BY <1>5
<1>8. ParseBuffer(torn) = [k \in 1 .. n |-> Row(s[k])]
  BY <1>1, <1>3, <1>4, <1>6, <1>7, BufferReads
<1>9. ReadRows(torn) = [k \in 1 .. n |-> [path |-> s[k].path, dir |-> IsDir(s[k])]]
  BY <1>1, <1>3, <1>4, <1>6, <1>7, FileReads
<1>10. QED
  BY <1>5, <1>8, <1>9 DEF BothFind

\* The footer counts the rows.
LEMMA RowsCounted ==
  ASSUME NEW s \in Seq(Told), NEW c, c = Written(s)
  PROVE  Len(ParseBuffer(c)) \in Nat
<1>1. SliceOf(s, c)
  BY DEF SliceOf
<1>2. c \in Seq(CellsOf(Stored))
  BY ToldIs, WrittenIs
<1>3. PICK N \in Nat : N = Len(c) /\ c \in [1 .. N -> CellsOf(Stored)]
  BY <1>2, LenProperties
<1>4. c = SubSeq(c, 1, N) /\ N \in 0 .. Len(c)
  BY <1>3
<1>5. PICK n \in 0 .. Len(s) : BothFind(c, s, n)
  BY <1>1, <1>4, CutReads
<1>6. n \in Nat
  BY LenProperties
<1>7. QED
  BY <1>5, <1>6 DEF BothFind

\* What a worker can send stays what it is.
LEMMA ToldStays == input' = input => Told' = Told
BY DEF Told, Given

\* The entries of a batch that is in hand.
LEMMA LiveIsTold ==
  ASSUME RunTypes, ComingInv, CountInv, DataInv, NEW b \in Live
  PROVE  Entries(b) \in Seq(Told)
<1>1. b \in DOMAIN tp /\ Entries(b) = input.batches[b]
  BY DEF CountInv, DataInv
<1>2. /\ input \in Inputs /\ input.batches \in Seq(Seq(Entry))
      /\ \A c \in DOMAIN input.batches : \A k \in DOMAIN input.batches[c] :
           Len(input.batches[c][k].path) <= MaxPathLength
  BY InputAssumption DEF RunTypes
<1>3. b \in DOMAIN input.batches
  BY <1>1, <1>2, KnownBatch
<1>4. PICK s \in Seq(Entry) : s = input.batches[b]
  BY <1>2, <1>3, ElementOfSeq, LenProperties
<1>5. PICK n \in Nat : n = Len(s) /\ DOMAIN s = 1 .. n /\ s \in [1 .. n -> Entry]
  BY LenProperties
<1>6. ASSUME NEW k \in 1 .. n PROVE s[k] \in Told
  <2>1. s[k] \in Entry /\ Len(s[k].path) <= MaxPathLength
    BY <1>2, <1>3, <1>4, <1>5
  <2>2. <<b, k>> \in Spots /\ EntryAt(<<b, k>>) = s[k]
    BY <1>3, <1>4, <1>5, SpotIs DEF EntryAt
  <2>3. s[k] \in Given
    BY <2>2, GivenIs
  <2>4. QED
    BY <2>1, <2>3 DEF Told
<1>7. s \in Seq(Told)
  BY <1>5, <1>6
<1>8. QED
  BY <1>1, <1>4, <1>7

\* What is recorded of a batch keeps the rows of the slice.
LEMMA ProcessSlices ==
  ASSUME RunTypes, SliceInv, phase # "done", NEW b, Entries(b) \in Seq(Told), Process(b)
  PROVE  /\ recBatch' \in Seq(Told) /\ \E s \in Seq(Told) : slice' = Written(s)
         /\ input' = input
<1>1. input' = input
  BY DEF Process, cfgVars
<1>2. Recording([batch |-> recBatch, cells |-> slice])
  BY DEF SliceInv, Recording
<1>3. ASSUME NEW S, S \subseteq DOMAIN Entries(b), Record(At(b, S))
      PROVE  recBatch' \in Seq(Told) /\ \E s \in Seq(Told) : slice' = Written(s)
  <2>1. PICK V : V = Told
    OBVIOUS
  <2>2. At(b, S) \in Seq(V)
    BY <1>3, <2>1, AtPicks
  <2>3. PICK entries \in Seq(Told) : entries = At(b, S)
    BY <2>1, <2>2
  <2>4. Record(entries)
    BY <1>3, <2>3
  <2>5. Recording([batch |-> recBatch', cells |-> slice'])
    BY <1>2, <2>4, RecordKeeps
  <2>6. QED
    BY <2>5 DEF Recording
<1> DEFINE dirs(f) == {k \in DirsOf(b) : f[k] # "lost"}
           files == Fresh(b) \ DirsOf(b)
<1>4. PICK fate \in [DirsOf(b) -> Fates] :
        IF input.continueMode
        THEN Record(At(b, files \cup IF input.pumpingOld THEN {} ELSE dirs(fate)))
        ELSE UNCHANGED <<recBatch, slice>>
  BY DEF Process
<1>5. CASE input.continueMode
  <2>1. files \cup (IF input.pumpingOld THEN {} ELSE dirs(fate)) \subseteq DOMAIN Entries(b)
    BY DEF Fresh, DirsOf
  <2>2. QED
    <3> HIDE DEF dirs, files
    <3>1. QED
      BY <1>1, <1>3, <1>4, <1>5, <2>1
<1>6. CASE ~input.continueMode
  BY <1>1, <1>4, <1>6 DEF SliceInv
<1>7. QED
  BY <1>5, <1>6

\* What a step is to the slice.
LEMMA SliceSteps ==
  ASSUME [Next]_vars
  PROVE  \/ UNCHANGED <<input, recBatch, slice>> /\ (phase = "done" => phase' = "done")
                 /\ (phase' = "done" => phase = "done")
         \/ InlineProcess \/ Drain \/ Flush \/ Finalize
<1> DEFINE Still == /\ UNCHANGED <<input, recBatch, slice>>
                    /\ (phase = "done" => phase' = "done") /\ (phase' = "done" => phase = "done")
<1> USE DEF quiet, cfgVars, mainVars
<1>1. CASE UNCHANGED vars
  BY <1>1 DEF vars
<1>2. CASE \/ Arrive \/ (\E d \in dead : Recover(d)) \/ (\E id \in DOMAIN input.renamed : Rename(id))
           \/ PrintRow \/ (\E now \in clock .. clock + 2 : PrintProgress(now))
  BY <1>2 DEF Arrive, Recover, Rename, PrintRow, PrintProgress
<1>3. CASE \E t \in Threads : PoolThread(t) \/ PoolWake(t)
  BY <1>3 DEF PoolThread, PoolWake, PoolDedup, PoolComplete, Dedup
<1>4. CASE Seed \/ Create \/ CannotCreate \/ RecvEnd \/ DrainEnd
  BY <1>4 DEF Seed, Create, CannotCreate, RecvEnd, DrainEnd, Phase, AfterDrain
<1>5. CASE HandleBatch
  BY <1>5 DEF HandleBatch
<1>6. CASE Event \/ Check \/ DestroyPool \/ JoinPool \/ InlineDedup
  BY <1>6 DEF Event, Check, DestroyPool, JoinPool, InlineDedup, Dedup, Phase
<1>7. QED
  BY <1>1, <1>2, <1>3, <1>4, <1>5, <1>6 DEF Next, MainStep

\* Every step keeps the invariant of the slice.
LEMMA NextKeepsSlice ==
  ASSUME RunInv, SliceInv, [Next]_vars
  PROVE  SliceInv'
<1>1. CASE UNCHANGED <<input, recBatch, slice>> /\ (phase = "done" => phase' = "done")
             /\ (phase' = "done" => phase = "done")
  <2>1. Told' = Told
    BY <1>1, ToldStays
  <2>2. CASE phase = "done"
    <3>1. \E s \in Seq(Told) : SliceOf(s, slice')
      BY <1>1, <2>2 DEF SliceInv
    <3>2. \E s \in Seq(Told') : SliceOf(s, slice)'
      BY <2>1, <3>1 DEF SliceOf
    <3>3. QED
      BY <1>1, <2>1, <2>2, <3>2 DEF SliceInv
  <2>3. CASE phase # "done"
    BY <1>1, <2>1, <2>3 DEF SliceInv
  <2>4. QED
    BY <2>2, <2>3
<1>2. CASE InlineProcess \/ Drain
  <2>1. PICK b \in Live : Process(b) /\ phase # "done" /\ phase' # "done"
    <3>1. CASE InlineProcess
      <4>1. inline \in Live /\ Process(inline) /\ phase = "inline" /\ phase' = "recv"
        BY <3>1 DEF InlineProcess, Phase, RunInv, PhaseInv, Live
      <4>2. QED
        BY <4>1
    <3>2. CASE Drain
      <4>1. Head(completed) \in Live
        BY <3>2, PollTakes DEF Drain, RunInv
      <4>2. Process(Head(completed)) /\ phase \in {"drain", "redrain", "final"} /\ phase' = phase
        BY <3>2 DEF Drain
      <4>3. QED
        BY <4>1, <4>2
    <3>3. QED
      BY <1>2, <3>1, <3>2
  <2>2. Entries(b) \in Seq(Told)
    BY LiveIsTold DEF RunInv
  <2>3. /\ recBatch' \in Seq(Told) /\ \E s \in Seq(Told) : slice' = Written(s)
        /\ input' = input
    BY <2>1, <2>2, ProcessSlices DEF RunInv
  <2>4. Told' = Told
    BY <2>3, ToldStays
  <2>5. QED
    BY <2>1, <2>3, <2>4 DEF SliceInv
<1>3. CASE Flush
  <2>1. /\ slice' = slice \o Written(recBatch) /\ recBatch' = <<>> /\ input' = input
        /\ phase = "flush" /\ phase' = "destroy"
    BY <1>3 DEF Flush, Phase, cfgVars
  <2>2. PICK s \in Seq(Told), t \in Seq(Told) : slice = Written(s) /\ recBatch = t
    BY <2>1 DEF SliceInv
  <2>3. \E u \in Seq(Told) : slice' = Written(u)
    BY <2>1, <2>2, JoinRecorded
  <2>4. Told' = Told /\ <<>> \in Seq(Told)
    BY <2>1, ToldStays
  <2>5. QED
    BY <2>1, <2>3, <2>4 DEF SliceInv
<1>4. CASE Finalize
  <2>1. /\ slice' = (IF slice = <<>> THEN slice ELSE slice \o Footer(Len(ParseBuffer(slice))))
        /\ recBatch' = recBatch /\ input' = input /\ phase = "finalize" /\ phase' = "done"
    BY <1>4 DEF Finalize, Phase, cfgVars
  <2>2. PICK s \in Seq(Told) : slice = Written(s)
    BY <2>1 DEF SliceInv
  <2>3. SliceOf(s, slice')
    <3>1. CASE slice = <<>>
      BY <2>1, <2>2, <3>1 DEF SliceOf
    <3>2. CASE slice # <<>>
      <4>1. Len(ParseBuffer(slice)) \in Nat
        BY <2>2, RowsCounted
      <4>2. QED
        BY <2>1, <2>2, <3>2, <4>1 DEF SliceOf
    <3>3. QED
      BY <3>1, <3>2
  <2>4. Told' = Told
    BY <2>1, ToldStays
  <2>5. \E t \in Seq(Told') : SliceOf(t, slice)'
    BY <2>3, <2>4 DEF SliceOf
  <2>6. QED
    BY <2>1, <2>4, <2>5 DEF SliceInv
<1>5. QED
  BY <1>1, <1>2, <1>3, <1>4, SliceSteps

\* The readers of any beginning of the slice.
LEMMA SliceTells ==
  ASSUME SliceInv
  PROVE  CutSliceIsPrefix
<1>1. PICK s \in Seq(Told) : SliceOf(s, slice)
  BY DEF SliceInv, SliceOf
<1>2. PICK N \in Nat, M \in Nat : N = Len(s) /\ M = Len(slice) /\ slice = SubSeq(slice, 1, M)
  <2>1. s \in Seq(Entry)
    BY ToldIs
  <2>2. PICK P : P = Seq(CellsOf(Stored))
    OBVIOUS
  <2>3. slice \in P
    BY <1>1, <2>1, <2>2, SliceIs
  <2>4. PICK n \in Nat, m \in Nat : n = Len(s) /\ m = Len(slice) /\ slice \in [1 .. m -> CellsOf(Stored)]
    BY <2>1, <2>2, <2>3, LenProperties
  <2>5. slice = SubSeq(slice, 1, m)
    BY <2>2, <2>3, <2>4
  <2>6. QED
    BY <2>4, <2>5
<1>3. \A k \in 1 .. N : s[k] \in Told /\ s[k] \in Given
  BY <1>2, ToldIs DEF Told
<1>4. ASSUME NEW torn, NEW n \in 0 .. N,
             BothFind(torn, s, n)
      PROVE  /\ BufferPaths(torn) = [k \in 1 .. n |-> s[k].path]
             /\ Recorded(torn) = [k \in 1 .. n |-> s[k].path]
             /\ \A k \in 1 .. n : ReadRows(torn)[k].dir = IsDir(s[k])
  <2>1. PICK b : b = ParseBuffer(torn)
    OBVIOUS
  <2>2. PICK r : r = ReadRows(torn)
    OBVIOUS
  <2>3. DOMAIN b = 1 .. n /\ \A k \in 1 .. n : b[k].path = s[k].path
    BY <1>4, <2>1 DEF BothFind, Row
  <2>4. DOMAIN r = 1 .. n /\ \A k \in 1 .. n : r[k].path = s[k].path /\ r[k].dir = IsDir(s[k])
    <3> HIDE DEF IsDir
    <3>1. r = [k \in 1 .. n |-> [path |-> s[k].path, dir |-> IsDir(s[k])]]
      BY <1>4, <2>2 DEF BothFind
    <3>2. QED
      BY <3>1
  <2>5. BufferPaths(torn) = [k \in DOMAIN b |-> b[k].path]
    BY <2>1 DEF BufferPaths
  <2>6. Recorded(torn) = [k \in DOMAIN r |-> r[k].path]
    BY <2>2 DEF Recorded
  <2>7. QED
    BY <2>2, <2>3, <2>4, <2>5, <2>6
<1>5. Recorded(slice) = [k \in 1 .. N |-> s[k].path]
  <2>1. M \in 0 .. Len(slice) /\ M = Len(slice)
    BY <1>2
  <2>2. PICK n \in 0 .. Len(s) : (M = Len(slice) => n = Len(s)) /\ BothFind(slice, s, n)
    BY <1>1, <1>2, <2>1, CutReads
  <2>3. n = N
    BY <1>2, <2>2
  <2>4. QED
    BY <1>2, <1>4, <2>2, <2>3
<1>6. SUFFICES ASSUME NEW cut \in 0 .. Len(slice), NEW torn, torn = SubSeq(slice, 1, cut)
               PROVE  /\ BufferPaths(torn) = Recorded(torn)
                      /\ IsPrefix(Recorded(torn), Recorded(slice))
                      /\ \A k \in DOMAIN Recorded(torn) : \E e \in Given :
                           e.path = Recorded(torn)[k] /\ ReadRows(torn)[k].dir = IsDir(e)
  BY DEF CutSliceIsPrefix
<1>7. PICK n \in 0 .. Len(s) : BothFind(torn, s, n)
  BY <1>1, <1>6, CutReads
<1>8. n \in 0 .. N /\ n \in Nat /\ n <= N
  BY <1>2, <1>7
<1>9. /\ BufferPaths(torn) = [k \in 1 .. n |-> s[k].path]
      /\ Recorded(torn) = [k \in 1 .. n |-> s[k].path]
      /\ \A k \in 1 .. n : ReadRows(torn)[k].dir = IsDir(s[k])
  BY <1>4, <1>7, <1>8
<1>10. IsPrefix(Recorded(torn), Recorded(slice))
  <2>1. PICK a : a = [k \in 1 .. n |-> s[k].path]
    OBVIOUS
  <2>2. PICK c : c = [k \in 1 .. N |-> s[k].path]
    OBVIOUS
  <2>3. \A k \in 1 .. N : s[k].path \in Seq(STRING)
    BY <1>3 DEF Told, Entry
  <2>4. a \in Seq(Seq(STRING)) /\ Len(a) = n /\ DOMAIN a = 1 .. n
    BY <1>8, <2>1, <2>3
  <2>5. c \in Seq(Seq(STRING)) /\ Len(c) = N
    BY <2>2, <2>3
  <2>6. SubSeq(c, 1, n) = a
    <3>1. SubSeq(c, 1, n) = [k \in 1 .. n |-> c[k]]
      BY <1>8, <2>5
    <3>2. \A k \in 1 .. n : c[k] = s[k].path
      BY <1>8, <2>2
    <3>3. QED
      BY <2>1, <3>1, <3>2
  <2>7. IsPrefix(a, c)
    BY <1>8, <2>4, <2>5, <2>6 DEF IsPrefix
  <2>8. QED
    BY <1>5, <1>9, <2>1, <2>2, <2>7
<1>11. \A k \in DOMAIN Recorded(torn) : \E e \in Given :
         e.path = Recorded(torn)[k] /\ ReadRows(torn)[k].dir = IsDir(e)
  <2>1. SUFFICES ASSUME NEW k \in 1 .. n
                 PROVE  \E e \in Given :
                          e.path = Recorded(torn)[k] /\ ReadRows(torn)[k].dir = IsDir(e)
    BY <1>9
  <2>2. PICK e : e = s[k]
    OBVIOUS
  <2>3. e \in Given
    BY <1>3, <1>8, <2>2
  <2>4. e.path = Recorded(torn)[k] /\ ReadRows(torn)[k].dir = IsDir(e)
    BY <1>9, <2>2
  <2>5. QED
    BY <2>3, <2>4
<1>12. QED
  BY <1>9, <1>10, <1>11

\* For every input, every width of the fields and every size of record_batch, and
\* wherever a kill cuts the slice: parse_pbin_buffer and read_next_pbin_record find
\* the same rows in it, the first of those that were recorded, each with the path and
\* the type of an entry of this run (write_pbin_record, record_path_batch_append,
\* finalize_archive).
THEOREM SliceIsRead == Spec => []CutSliceIsPrefix
<1>1. Init => SliceInv
  BY InitSliceInv
<1>2. RunInv /\ SliceInv /\ [Next]_vars => SliceInv'
  BY NextKeepsSlice
<1>3. SliceInv => CutSliceIsPrefix
  BY SliceTells
<1>4. QED
  BY <1>1, <1>2, <1>3, SpecRunInv, PTL DEF Spec

-----------------------------------------------------------------------------
(* Folds from the left. *)

\* One step of the compiler of the format, or of the reader of CSV.
Turn(what, r, char) ==
  IF what = "csv" THEN ReadChar(r, char) ELSE CompileChar(r, char)

\* The equation of the fold, on the subsets of the first m places.
FoldsTo(g, what, base, text, m) ==
  g = [B \in SUBSET (1 .. m) |->
         IF B = {} THEN base ELSE Turn(what, g[B \ {Max(B)}], text[Max(B)])]

\* It has a solution.
LEMMA LeftExists ==
  ASSUME NEW what, NEW base, NEW text
  PROVE  \A m \in Nat : \E g : FoldsTo(g, what, base, text, m)
<1> DEFINE T == {m \in Nat : \E g : FoldsTo(g, what, base, text, m)}
<1>1. 0 \in T
  <2>1. \A B \in SUBSET (1 .. 0) : B = {}
    OBVIOUS
  <2>2. FoldsTo([B \in SUBSET (1 .. 0) |-> base], what, base, text, 0)
    BY <2>1 DEF FoldsTo
  <2>3. QED
    BY <2>2
<1>2. ASSUME NEW m \in Nat, m \in T PROVE m + 1 \in T
  <2>1. PICK g : FoldsTo(g, what, base, text, m)
    BY <1>2
  <2>2. PICK n \in Nat : n = m + 1
    OBVIOUS
  <2>3. PICK h : h = [B \in SUBSET (1 .. n) |->
                        IF n \in B THEN Turn(what, g[B \ {n}], text[n]) ELSE g[B]]
    OBVIOUS
  <2>4. \A B \in SUBSET (1 .. n) : n \notin B => B \in SUBSET (1 .. m)
    BY <2>2
  <2>5. \A B \in SUBSET (1 .. m) : h[B] = g[B]
    BY <2>2, <2>3
  <2>6. ASSUME NEW B \in SUBSET (1 .. n)
        PROVE  h[B] = IF B = {} THEN base ELSE Turn(what, h[B \ {Max(B)}], text[Max(B)])
    <3>1. CASE n \in B
      <4>1. Max(B) = n
        BY <3>1, MaxIsLast
      <4>2. h[B \ {n}] = g[B \ {n}]
        BY <2>4, <2>5
      <4>3. h[B] = Turn(what, g[B \ {n}], text[n])
        BY <2>3, <3>1
      <4>4. QED
        BY <3>1, <4>1, <4>2, <4>3
    <3>2. CASE n \notin B
      <4>1. B \in SUBSET (1 .. m) /\ h[B] = g[B]
        BY <2>4, <2>5, <3>2
      <4>2. h[B \ {Max(B)}] = g[B \ {Max(B)}]
        <5>1. B \ {Max(B)} \in SUBSET (1 .. m)
          BY <4>1
        <5>2. QED
          BY <2>5, <5>1
      <4>3. g[B] = IF B = {} THEN base ELSE Turn(what, g[B \ {Max(B)}], text[Max(B)])
        BY <2>1, <4>1 DEF FoldsTo
      <4>4. QED
        BY <4>1, <4>2, <4>3
    <3>3. QED
      BY <3>1, <3>2
  <2>7. h = [B \in SUBSET (1 .. n) |->
               IF B = {} THEN base ELSE Turn(what, h[B \ {Max(B)}], text[Max(B)])]
    BY <2>3, <2>6
  <2>8. FoldsTo(h, what, base, text, n)
    BY <2>7 DEF FoldsTo
  <2>9. QED
    BY <2>2, <2>8
<1>3. \A m \in Nat : m \in T
  <2> HIDE DEF T
  <2>1. ASSUME NEW m \in Nat, \A k \in Nat : k < m => k \in T PROVE m \in T
    <3>1. m # 0 => m - 1 \in Nat /\ m - 1 < m /\ (m - 1) + 1 = m
      OBVIOUS
    <3>2. QED
      BY <1>1, <1>2, <2>1, <3>1
  <2>2. QED
    BY <2>1, NumbersUpTo
<1>4. QED
  BY <1>3

\* The states after each character, the first one is that before the text.
Runs(h, what, base, text, n) ==
  h[0] = base /\ \A i \in 1 .. n : h[i] = Turn(what, h[i - 1], text[i])

\* The fold over the first places is such a run.
LEMMA FoldRuns ==
  ASSUME NEW what, NEW base, NEW text, NEW n \in Nat,
         NEW g, FoldsTo(g, what, base, text, n)
  PROVE  Runs([i \in 0 .. n |-> g[1 .. i]], what, base, text, n)
<1>1. PICK h : h = [i \in 0 .. n |-> g[1 .. i]]
  OBVIOUS
<1>2. \A B \in SUBSET (1 .. n) :
        g[B] = IF B = {} THEN base ELSE Turn(what, g[B \ {Max(B)}], text[Max(B)])
  BY DEF FoldsTo
<1>3. h[0] = base
  <2>1. 1 .. 0 = {} /\ {} \in SUBSET (1 .. n) /\ 0 \in 0 .. n
    OBVIOUS
  <2>2. g[{}] = base
    BY <1>2, <2>1
  <2>3. QED
    BY <1>1, <2>1, <2>2
<1>4. ASSUME NEW i \in 1 .. n PROVE h[i] = Turn(what, h[i - 1], text[i])
  <2>1. i \in Nat /\ i \in 1 .. i /\ i \in 0 .. n /\ i - 1 \in 0 .. n
    OBVIOUS
  <2>2. PICK B : B = 1 .. i
    OBVIOUS
  <2>3. B \subseteq 1 .. n /\ i \in B /\ B # {} /\ B \ {i} = 1 .. i - 1
    BY <2>2
  <2>7. Max(B) = i
    BY <2>1, <2>2, <2>3, MaxIsLast
  <2>4. g[1 .. i] = Turn(what, g[1 .. i - 1], text[i])
    BY <1>2, <2>2, <2>3, <2>7
  <2>5. h[i] = g[1 .. i] /\ h[i - 1] = g[1 .. i - 1]
    BY <1>1, <2>1
  <2>6. QED
    BY <2>4, <2>5
<1>5. QED
  BY <1>1, <1>3, <1>4 DEF Runs

\* FoldLeft over the reader of CSV.
LEMMA ReadLeft ==
  ASSUME NEW base, NEW W, NEW text \in Seq(W), NEW n \in Nat, n = Len(text)
  PROVE  \E h : Runs(h, "csv", base, text, n) /\ FoldLeft(ReadChar, base, text) = h[n]
<1> DEFINE g == CHOOSE f : FoldsTo(f, "csv", base, text, n)
<1>1. FoldsTo(g, "csv", base, text, n)
  BY LeftExists
<1>2. DOMAIN text = 1 .. n
  BY LenProperties
<1>3. FoldLeft(ReadChar, base, text) = g[1 .. n]
  BY <1>2 DEF FoldLeft, MapThenFoldSet, FoldsTo, Turn
<1> HIDE DEF g
<1>4. PICK h : h = [i \in 0 .. n |-> g[1 .. i]]
  OBVIOUS
<1>5. Runs(h, "csv", base, text, n)
  BY <1>1, <1>4, FoldRuns
<1>6. h[n] = g[1 .. n]
  BY <1>4
<1>7. QED
  BY <1>3, <1>5, <1>6

\* FoldLeft over the compiler of the format.
LEMMA CompileLeft ==
  ASSUME NEW base, NEW W, NEW text \in Seq(W), NEW n \in Nat, n = Len(text)
  PROVE  \E h : Runs(h, "format", base, text, n) /\ FoldLeft(CompileChar, base, text) = h[n]
<1> DEFINE g == CHOOSE f : FoldsTo(f, "format", base, text, n)
<1>1. FoldsTo(g, "format", base, text, n)
  BY LeftExists
<1>2. DOMAIN text = 1 .. n
  BY LenProperties
<1>3. FoldLeft(CompileChar, base, text) = g[1 .. n]
  BY <1>2 DEF FoldLeft, MapThenFoldSet, FoldsTo, Turn
<1> HIDE DEF g
<1>4. PICK h : h = [i \in 0 .. n |-> g[1 .. i]]
  OBVIOUS
<1>5. Runs(h, "format", base, text, n)
  BY <1>1, <1>4, FoldRuns
<1>6. h[n] = g[1 .. n]
  BY <1>4
<1>7. QED
  BY <1>3, <1>5, <1>6

\* Reading a text, or compiling it.
Read(what, base, text) ==
  IF what = "csv" THEN FoldLeft(ReadChar, base, text) ELSE FoldLeft(CompileChar, base, text)

\* It is the end of the states.
LEMMA ReadIs ==
  ASSUME NEW what \in {"csv", "format"}, NEW base, NEW W, NEW text \in Seq(W), NEW n \in Nat, n = Len(text)
  PROVE  \E h : Runs(h, what, base, text, n) /\ Read(what, base, text) = h[n]
<1>1. CASE what = "csv"
  BY <1>1, ReadLeft DEF Read
<1>2. CASE what = "format"
  BY <1>2, CompileLeft DEF Read
<1>3. QED
  BY <1>1, <1>2

\* The states only depend on the text so far.
LEMMA RunsAlike ==
  ASSUME NEW what, NEW base, NEW s, NEW t, NEW n \in Nat, NEW m \in Nat, n <= m, Alike(s, t, n),
         NEW h, Runs(h, what, base, s, n), NEW g, Runs(g, what, base, t, m)
  PROVE  h[n] = g[n]
<1> DEFINE T == {i \in Nat : i <= n => h[i] = g[i]}
<1>1. ASSUME NEW i \in Nat, \A k \in Nat : k < i => k \in T PROVE i \in T
  <2>1. SUFFICES ASSUME i <= n PROVE h[i] = g[i]
    OBVIOUS
  <2>2. CASE i = 0
    BY <2>2 DEF Runs
  <2>3. CASE i # 0
    <3>1. i \in 1 .. n /\ i \in 1 .. m
      BY <2>1, <2>3
    <3>2. h[i - 1] = g[i - 1]
      <4>1. i - 1 \in Nat /\ i - 1 < i /\ i - 1 <= n
        BY <2>1, <2>3
      <4>2. QED
        BY <1>1, <4>1
    <3>3. s[i] = t[i]
      BY <3>1 DEF Alike
    <3>4. h[i] = Turn(what, h[i - 1], s[i]) /\ g[i] = Turn(what, g[i - 1], t[i])
      BY <3>1 DEF Runs
    <3>5. QED
      BY <3>2, <3>3, <3>4
  <2>4. QED
    BY <2>2, <2>3
<1>2. \A i \in Nat : i \in T
  <2> HIDE DEF T
  <2>1. QED
    BY <1>1, NumbersUpTo
<1>3. QED
  BY <1>2

\* Nothing to read,
LEMMA ReadNothing ==
  ASSUME NEW what \in {"csv", "format"}, NEW base
  PROVE  Read(what, base, <<>>) = base
<1>1. PICK P : P = Seq({})
  OBVIOUS
<1>2. PICK text \in P : text = <<>>
  <2>1. <<>> \in Seq({})
    OBVIOUS
  <2>2. QED
    BY <1>1, <2>1
<1>3. PICK n \in Nat : n = 0
  OBVIOUS
<1>4. text \in Seq({}) /\ n = Len(text)
  BY <1>1, <1>2, <1>3
<1>5. PICK h : Runs(h, what, base, text, n) /\ Read(what, base, text) = h[n]
  BY <1>4, ReadIs
<1>6. h[0] = base
  BY <1>5 DEF Runs
<1>7. QED
  BY <1>2, <1>3, <1>5, <1>6

\* and a character more.
LEMMA ReadOne ==
  ASSUME NEW what \in {"csv", "format"}, NEW base, NEW W, NEW text \in Seq(W), NEW char \in W
  PROVE  Read(what, base, Append(text, char)) = Turn(what, Read(what, base, text), char)
<1>1. PICK n \in Nat : n = Len(text)
  BY LenProperties
<1>2. PICK more \in Seq(W) : more = Append(text, char)
  BY AppendProperties
<1>3. PICK m \in Nat : m = n + 1
  OBVIOUS
<1>4. Len(more) = m /\ n <= m /\ more[m] = char /\ \A i \in 1 .. n : text[i] = more[i]
  BY <1>1, <1>2, <1>3, AppendProperties
<1>5. PICK h : Runs(h, what, base, text, n) /\ Read(what, base, text) = h[n]
  BY <1>1, ReadIs
<1>6. PICK g : Runs(g, what, base, more, m) /\ Read(what, base, more) = g[m]
  BY <1>4, ReadIs
<1>7. h[n] = g[n]
  <2>1. Alike(text, more, n)
    BY <1>4 DEF Alike
  <2>2. QED
    BY <1>4, <1>5, <1>6, <2>1, RunsAlike
<1>8. g[m] = Turn(what, g[n], char)
  <2>1. m \in 1 .. m /\ m - 1 = n
    BY <1>3
  <2>2. g[m] = Turn(what, g[m - 1], more[m])
    BY <1>6, <2>1 DEF Runs
  <2>3. QED
    BY <1>4, <2>1, <2>2
<1>9. QED
  BY <1>2, <1>5, <1>6, <1>7, <1>8

\* One text and then another.
LEMMA ReadOn ==
  ASSUME NEW what \in {"csv", "format"}, NEW base, NEW W, NEW P, P = Seq(W), NEW s \in P, NEW t \in P
  PROVE  Read(what, base, s \o t) = Read(what, Read(what, base, s), t)
<1>1. PICK r : r = Read(what, base, s)
  OBVIOUS
<1> DEFINE T == {u \in P : Read(what, base, s \o u) = Read(what, r, u)}
<1>2. <<>> \in T
  <2>1. s \o <<>> = s /\ <<>> \in P
    BY ConcatEmptySeq
  <2>2. QED
    BY <1>1, <2>1, ReadNothing
<1>3. ASSUME NEW u \in P, NEW x \in W, u \in T PROVE Append(u, x) \in T
  <2>1. PICK c \in P : c = s \o u
    BY ConcatProperties
  <2>2. Append(u, x) \in P
    BY AppendProperties
  <2>3. s \o Append(u, x) = Append(c, x)
    <3>1. PICK one \in P : one = <<x>>
      <4>1. <<x>> \in Seq(W)
        OBVIOUS
      <4>2. QED
        BY <4>1
    <3>2. Append(u, x) = u \o one /\ Append(c, x) = c \o one
      BY <3>1, <2>1, AppendIsConcat
    <3>3. (s \o u) \o one = s \o (u \o one)
      BY Regroup
    <3>4. QED
      BY ONLY <2>1, <3>2, <3>3
  <2>4. Read(what, base, Append(c, x)) = Turn(what, Read(what, base, c), x)
    BY ReadOne
  <2>5. Read(what, r, Append(u, x)) = Turn(what, Read(what, r, u), x)
    BY ReadOne
  <2>6. Read(what, base, c) = Read(what, r, u)
    BY <1>3, <2>1
  <2>7. QED
    BY <2>2, <2>3, <2>4, <2>5, <2>6
<1>4. \A u \in P : u \in T
  <2> HIDE DEF T
  <2>1. QED
    BY <1>2, <1>3, SequencesUpTo
<1>5. QED
  BY <1>1, <1>4

-----------------------------------------------------------------------------
(* A reader of CSV. *)

\* Whatever is a character of a row, or of the format.
Signs == {Quote, EndOfLine, "%", ",", "|", "(", ")"}
Hints == {"[unsupported]", "[access_denied]", "[ioctl_error]"}

ModeGlyphs == UNION {{ModeText(e.mode)[k] : k \in 1 .. 10} : e \in Entry}
OctalGlyphs == UNION {{OctalText(e.mode)[k] : k \in 1 .. 2} : e \in Entry}
FlagGlyphs == UNION {{FlagsText(e.attr.flags)[k] : k \in 1 .. 16} : e \in Entry}

Glyph ==
  STRING \cup Letters \cup Signs \cup Hints \cup {ToString(n) : n \in Nat}
    \cup {TypeName[e.mode.type] : e \in Entry} \cup ModeGlyphs \cup OctalGlyphs \cup FlagGlyphs

Line == Seq(Glyph)

\* The characters that a reader tells apart.
LEMMA CharsDiffer ==
  /\ Quote # "," /\ EndOfLine # "," /\ Quote # EndOfLine
  /\ Quote # "%" /\ EndOfLine # "%"
BY DEF Quote, EndOfLine

\* A state of the reader.
Reader(in, shut, field, record, records) ==
  [in |-> in, shut |-> shut, field |-> field, record |-> record, records |-> records]

\* What a reader does inside quotes,
LEMMA ReadsInside ==
  ASSUME NEW f, NEW c, NEW rs, NEW char, char # Quote
  PROVE  ReadChar(Reader(TRUE, FALSE, f, c, rs), char) = Reader(TRUE, FALSE, Append(f, char), c, rs)
<1>1. PICK r : r = Reader(TRUE, FALSE, f, c, rs)
  OBVIOUS
<1>2. r.in = TRUE /\ r.field = f
  BY <1>1 DEF Reader
<1>3. ReadChar(r, char) = [r EXCEPT !.field = Append(f, char)]
  BY <1>2 DEF ReadChar
<1>4. QED
  BY <1>1, <1>3 DEF Reader

\* at their end,
LEMMA ReadsEnd ==
  ASSUME NEW f, NEW c, NEW rs
  PROVE  ReadChar(Reader(TRUE, FALSE, f, c, rs), Quote) = Reader(FALSE, TRUE, f, c, rs)
<1>1. PICK r : r = Reader(TRUE, FALSE, f, c, rs)
  OBVIOUS
<1>2. r.in = TRUE /\ r.field = f
  BY <1>1 DEF Reader
<1>3. ReadChar(r, Quote) = [r EXCEPT !.in = FALSE, !.shut = TRUE]
  BY <1>2 DEF ReadChar
<1>4. QED
  BY <1>1, <1>3 DEF Reader

\* behind them,
LEMMA ReadsBehind ==
  ASSUME NEW f, NEW c, NEW rs
  PROVE  /\ ReadChar(Reader(FALSE, TRUE, f, c, rs), Quote) = Reader(TRUE, FALSE, Append(f, Quote), c, rs)
         /\ ReadChar(Reader(FALSE, TRUE, f, c, rs), ",") = Reader(FALSE, FALSE, <<>>, Append(c, f), rs)
         /\ ReadChar(Reader(FALSE, TRUE, f, c, rs), EndOfLine)
              = Reader(FALSE, FALSE, <<>>, <<>>, Append(rs, Append(c, f)))
<1>1. PICK r : r = Reader(FALSE, TRUE, f, c, rs)
  OBVIOUS
<1>2. r.in = FALSE /\ r.shut = TRUE /\ r.field = f /\ r.record = c /\ r.records = rs
  BY <1>1 DEF Reader
<1>3. ReadChar(r, Quote) = [r EXCEPT !.in = TRUE, !.shut = FALSE, !.field = Append(f, Quote)]
  BY <1>2, CharsDiffer DEF ReadChar
<1>4. ReadChar(r, ",") = [r EXCEPT !.shut = FALSE, !.field = <<>>, !.record = Append(c, f)]
  BY <1>2, CharsDiffer DEF ReadChar
<1>5. ReadChar(r, EndOfLine) = [r EXCEPT !.shut = FALSE, !.field = <<>>, !.record = <<>>,
                                         !.records = Append(rs, Append(c, f))]
  BY <1>2, CharsDiffer DEF ReadChar
<1>6. QED
  BY <1>1, <1>3, <1>4, <1>5 DEF Reader

\* and before.
LEMMA ReadsBefore ==
  ASSUME NEW f, NEW c, NEW rs
  PROVE  ReadChar(Reader(FALSE, FALSE, f, c, rs), Quote) = Reader(TRUE, FALSE, f, c, rs)
<1>1. PICK r : r = Reader(FALSE, FALSE, f, c, rs)
  OBVIOUS
<1>2. r.in = FALSE /\ r.shut = FALSE /\ r.field = f
  BY <1>1 DEF Reader
<1>3. ReadChar(r, Quote) = [r EXCEPT !.in = TRUE, !.shut = FALSE, !.field = f]
  BY <1>2, CharsDiffer DEF ReadChar
<1>4. QED
  BY <1>1, <1>3 DEF Reader

\* What print_csv_field writes of a character.
Doubled(char) == IF char = Quote THEN <<Quote, Quote>> ELSE <<char>>

\* The value with its quotes doubled.
Escaped(value) == FlattenSeq([k \in DOMAIN value |-> Doubled(value[k])])

\* One more character.
LEMMA EscapedGrows ==
  ASSUME NEW P, P = Line, NEW value \in P, NEW char \in Glyph
  PROVE  /\ Escaped(value) \in P /\ Doubled(char) \in P
         /\ Escaped(Append(value, char)) = Escaped(value) \o Doubled(char)
<1>1. \A x \in Glyph : Doubled(x) \in P
  <2>1. SUFFICES ASSUME NEW x \in Glyph PROVE Doubled(x) \in Seq(Glyph)
    BY DEF Line
  <2>2. Quote \in Glyph
    BY DEF Glyph, Signs
  <2>4. <<Quote, Quote>> \in Seq(Glyph) /\ <<x>> \in Seq(Glyph)
    BY <2>2, PairIs
  <2>3. QED
    BY <2>4 DEF Doubled
<1>2. PICK n \in Nat : n = Len(value) /\ DOMAIN value = 1 .. n /\ \A k \in 1 .. n : value[k] \in Glyph
  BY OneBehind DEF Line
<1>3. PICK more : more = Append(value, char)
  OBVIOUS
<1>4. /\ DOMAIN more = 1 .. n + 1 /\ more[n + 1] = char
      /\ \A k \in 1 .. n : more[k] = value[k]
  BY <1>2, <1>3, OneBehind DEF Line
<1>5. \A k \in 1 .. n + 1 : k = n + 1 \/ k \in 1 .. n
  OBVIOUS
<1>6. PICK s \in [1 .. n -> P] : s = [k \in 1 .. n |-> Doubled(value[k])]
  BY <1>1, <1>2
<1>7. PICK t \in [1 .. n + 1 -> P] : t = [k \in 1 .. n + 1 |-> Doubled(more[k])]
  BY <1>1, <1>2, <1>4, <1>5
<1>8. (\A k \in 1 .. n : t[k] = s[k]) /\ t[n + 1] = Doubled(char)
  BY <1>4, <1>6, <1>7
<1>9. FlattenSeq(s) \in P /\ FlattenSeq(t) = FlattenSeq(s) \o t[n + 1]
  <2>1. P = Seq(Glyph) /\ Alike(t, s, n)
    BY <1>8 DEF Line, Alike
  <2>2. FlattenSeq(s) \in P /\ Joins(FlattenSeq(t), FlattenSeq(s), t[n + 1])
    BY <2>1, FlattenMore
  <2>3. QED
    BY <2>2 DEF Joins
<1>10. Escaped(value) = FlattenSeq(s) /\ Escaped(more) = FlattenSeq(t)
  BY <1>2, <1>4, <1>6, <1>7 DEF Escaped
<1>11. QED
  BY <1>1, <1>3, <1>8, <1>9, <1>10

\* Inside quotes the value is read back.
LEMMA EscapedIsRead ==
  ASSUME NEW P, P = Line, NEW c, NEW rs
  PROVE  \A value \in P :
           Read("csv", Reader(TRUE, FALSE, <<>>, c, rs), Escaped(value)) = Reader(TRUE, FALSE, value, c, rs)
<1>1. PICK base : base = Reader(TRUE, FALSE, <<>>, c, rs)
  OBVIOUS
<1> DEFINE T == {v \in P : Read("csv", base, Escaped(v)) = Reader(TRUE, FALSE, v, c, rs)}
<1>2. <<>> \in T
  <2>1. Escaped(<<>>) = <<>> /\ <<>> \in P
    <3>1. PICK s : s = [k \in DOMAIN <<>> |-> Doubled(<<>>[k])]
      OBVIOUS
    <3>2. s = <<>> /\ FlattenSeq(<<>>) = <<>>
      BY <3>1 DEF FlattenSeq
    <3>3. QED
      BY <3>1, <3>2 DEF Escaped, Line
  <2>2. QED
    BY <1>1, <2>1, ReadNothing
<1>3. ASSUME NEW v \in P, NEW x \in Glyph, v \in T PROVE Append(v, x) \in T
  <2>1. Append(v, x) \in P
    BY AppendProperties DEF Line
  <2>2. PICK e \in P, d \in P : e = Escaped(v) /\ d = Doubled(x) /\ Escaped(Append(v, x)) = e \o d
    BY EscapedGrows
  <2>3. Read("csv", base, e \o d) = Read("csv", Read("csv", base, e), d)
    BY ReadOn DEF Line
  <2>4. PICK r : r = Reader(TRUE, FALSE, v, c, rs) /\ Read("csv", base, e) = r
    BY <1>3, <2>2
  <2>5. Read("csv", r, d) = Reader(TRUE, FALSE, Append(v, x), c, rs)
    <3>1. PICK none \in P : none = <<>>
      <4>1. <<>> \in Seq(Glyph)
        OBVIOUS
      <4>2. QED
        BY <4>1 DEF Line
    <3>2. PICK one \in P : one = Append(none, x)
      BY AppendProperties DEF Line
    <3>3. Read("csv", r, one) = ReadChar(r, x)
      <4>1. Read("csv", r, none) = r
        BY <3>1, ReadNothing
      <4>2. Read("csv", r, one) = Turn("csv", Read("csv", r, none), x)
        BY <3>2, ReadOne DEF Line
      <4>3. QED
        BY <4>1, <4>2 DEF Turn
    <3>4. CASE x # Quote
      <4>1. d = one
        BY <2>2, <3>1, <3>2, <3>4 DEF Doubled
      <4>2. ReadChar(r, x) = Reader(TRUE, FALSE, Append(v, x), c, rs)
        <5>1. ReadChar(Reader(TRUE, FALSE, v, c, rs), x) = Reader(TRUE, FALSE, Append(v, x), c, rs)
          BY <3>4, ReadsInside
        <5>2. QED
          BY <2>4, <5>1
      <4>3. QED
        BY <3>3, <4>1, <4>2
    <3>5. CASE x = Quote
      <4>1. d = Append(one, x)
        BY <2>2, <3>1, <3>2, <3>5 DEF Doubled
      <4>2. Read("csv", r, d) = ReadChar(ReadChar(r, x), x)
        <5>1. Read("csv", r, Append(one, x)) = Turn("csv", Read("csv", r, one), x)
          BY ReadOne DEF Line
        <5>2. QED
          BY <3>3, <4>1, <5>1 DEF Turn
      <4>3. ReadChar(r, x) = Reader(FALSE, TRUE, v, c, rs)
        BY <2>4, <3>5, ReadsEnd
      <4>4. ReadChar(Reader(FALSE, TRUE, v, c, rs), Quote) = Reader(TRUE, FALSE, Append(v, Quote), c, rs)
        BY ReadsBehind
      <4>5. QED
        BY <3>5, <4>2, <4>3, <4>4
    <3>6. QED
      BY <3>4, <3>5
  <2>6. QED
    BY <2>1, <2>2, <2>3, <2>4, <2>5
<1>4. \A v \in P : v \in T
  <2> HIDE DEF T
  <2>1. QED
    BY <1>2, <1>3, SequencesUpTo DEF Line
<1>5. QED
  BY <1>1, <1>4

\* A text of one character.
LEMMA OneIs ==
  ASSUME NEW P, P = Line, NEW char \in Glyph, NEW what \in {"csv", "format"}, NEW base
  PROVE  <<char>> \in P /\ Read(what, base, <<char>>) = Turn(what, base, char)
<1>1. PICK none \in P : none = <<>>
  <2>1. <<>> \in Seq(Glyph)
    OBVIOUS
  <2>2. QED
    BY <2>1 DEF Line
<1>2. PICK one \in P : one = Append(none, char)
  BY AppendProperties DEF Line
<1>3. one = <<char>>
  BY <1>1, <1>2
<1>4. Read(what, base, none) = base
  BY <1>1, ReadNothing
<1>5. Read(what, base, one) = Turn(what, Read(what, base, none), char)
  BY <1>2, ReadOne DEF Line
<1>6. QED
  BY <1>3, <1>4, <1>5

\* A field is read back.
LEMMA FieldIsRead ==
  ASSUME NEW P, P = Line, NEW value \in P, NEW c, NEW rs
  PROVE  /\ CsvField(value) \in P
         /\ Read("csv", Reader(FALSE, FALSE, <<>>, c, rs), CsvField(value)) = Reader(FALSE, TRUE, value, c, rs)
<1>1. Quote \in Glyph
  BY DEF Glyph, Signs
<1>2. PICK q \in P : q = <<Quote>>
  BY <1>1, OneIs
<1>3. PICK e \in P : e = Escaped(value)
  BY <1>1, EscapedGrows
<1>4. CsvField(value) = (q \o e) \o q
  BY <1>2, <1>3 DEF CsvField, Escaped, Doubled
<1>5. PICK qe \in P : qe = q \o e
  BY ConcatProperties DEF Line
<1>6. qe \o q \in P
  BY ConcatProperties DEF Line
<1>7. PICK base : base = Reader(FALSE, FALSE, <<>>, c, rs)
  OBVIOUS
<1>8. Read("csv", base, q) = Reader(TRUE, FALSE, <<>>, c, rs)
  <2>1. Read("csv", base, <<Quote>>) = Turn("csv", base, Quote)
    BY <1>1, OneIs
  <2>2. ReadChar(base, Quote) = Reader(TRUE, FALSE, <<>>, c, rs)
    BY <1>7, ReadsBefore
  <2>3. QED
    BY <1>2, <2>1, <2>2 DEF Turn
<1>9. Read("csv", base, qe) = Reader(TRUE, FALSE, value, c, rs)
  <2>1. Read("csv", base, q \o e) = Read("csv", Read("csv", base, q), e)
    BY ReadOn DEF Line
  <2>2. Read("csv", Reader(TRUE, FALSE, <<>>, c, rs), e) = Reader(TRUE, FALSE, value, c, rs)
    <3>1. \A v \in P :
            Read("csv", Reader(TRUE, FALSE, <<>>, c, rs), Escaped(v)) = Reader(TRUE, FALSE, v, c, rs)
      BY ONLY P = Line, EscapedIsRead, ZenonT(60)
    <3>2. QED
      BY <1>3, <3>1
  <2>3. QED
    BY <1>5, <1>8, <2>1, <2>2
<1>10. Read("csv", base, qe \o q) = Reader(FALSE, TRUE, value, c, rs)
  <2>1. PICK r : r = Reader(TRUE, FALSE, value, c, rs)
    OBVIOUS
  <2>2. Read("csv", base, qe \o q) = Read("csv", Read("csv", base, qe), q)
    BY ReadOn DEF Line
  <2>3. Read("csv", r, <<Quote>>) = Turn("csv", r, Quote)
    BY <1>1, OneIs
  <2>4. ReadChar(r, Quote) = Reader(FALSE, TRUE, value, c, rs)
    BY <2>1, ReadsEnd
  <2>5. QED
    BY <1>2, <1>9, <2>1, <2>2, <2>3, <2>4 DEF Turn
<1>11. QED
  BY <1>4, <1>5, <1>6, <1>7, <1>10

-----------------------------------------------------------------------------
(* The compiled format. *)

\* A state of the compiler.
Compiler(last, segments) == [last |-> last, segments |-> segments]

\* A segment of a compiled format.
Part == [field : Letters \cup {"text"}, text : Line]

\* What becomes of a segment in a row, and of all of them.
Piece(row, values, part) == IF part.field = "text" THEN part.text ELSE Field(row, values[part.field])
Shown(row, values, parts) == FlattenSeq([k \in DOMAIN parts |-> Piece(row, values, parts[k])])

\* Every column is a text.
ValuesAre(values) == \A l \in Letters : values[l] \in Line

\* A field is a text, quoted or not.
LEMMA FieldIs ==
  ASSUME NEW P, P = Line, NEW row, NEW value \in P
  PROVE  Field(row, value) \in P
<1>1. PICK q \in P : q = <<Quote>>
  <2>1. Quote \in Glyph
    BY DEF Glyph, Signs
  <2>2. QED
    BY <2>1, OneIs
<1>2. CsvField(value) \in P
  BY FieldIsRead
<1>3. PICK qv \in P : qv = q \o value
  BY ConcatProperties DEF Line
<1>4. qv \o q \in P
  BY ConcatProperties DEF Line
<1>5. QED
  BY <1>1, <1>2, <1>3, <1>4 DEF Field

\* What becomes of a segment is a text.
LEMMA PieceIsLine ==
  ASSUME NEW P, P = Line, NEW row, NEW values, ValuesAre(values), NEW part \in Part
  PROVE  Piece(row, values, part) \in P
<1>1. part.field = "text" => part.text \in P
  BY DEF Part
<1>2. part.field # "text" => values[part.field] \in P
  BY DEF Part, ValuesAre
<1>3. part.field # "text" => Field(row, values[part.field]) \in P
  BY <1>2, FieldIs
<1>4. QED
  BY <1>1, <1>3 DEF Piece

\* One more segment.
LEMMA ShownGrows ==
  ASSUME NEW P, P = Line, NEW row, NEW values, ValuesAre(values), NEW parts \in Seq(Part), NEW part \in Part
  PROVE  /\ Shown(row, values, parts) \in P /\ Piece(row, values, part) \in P
         /\ Shown(row, values, Append(parts, part)) = Shown(row, values, parts) \o Piece(row, values, part)
<1>1. \A x \in Part : Piece(row, values, x) \in P
  BY PieceIsLine
<1>2. PICK n \in Nat : n = Len(parts) /\ DOMAIN parts = 1 .. n /\ \A k \in 1 .. n : parts[k] \in Part
  BY OneBehind
<1>3. PICK more : more = Append(parts, part)
  OBVIOUS
<1>4. /\ DOMAIN more = 1 .. n + 1 /\ more[n + 1] = part
      /\ \A k \in 1 .. n : more[k] = parts[k]
  BY <1>2, <1>3, OneBehind
<1>5. \A k \in 1 .. n + 1 : k = n + 1 \/ k \in 1 .. n
  OBVIOUS
<1>6. PICK s \in [1 .. n -> P] : s = [k \in 1 .. n |-> Piece(row, values, parts[k])]
  BY <1>1, <1>2
<1>7. PICK t \in [1 .. n + 1 -> P] : t = [k \in 1 .. n + 1 |-> Piece(row, values, more[k])]
  BY <1>1, <1>2, <1>4, <1>5
<1>8. (\A k \in 1 .. n : t[k] = s[k]) /\ t[n + 1] = Piece(row, values, part)
  BY <1>4, <1>6, <1>7
<1>9. FlattenSeq(s) \in P /\ FlattenSeq(t) = FlattenSeq(s) \o t[n + 1]
  <2>1. P = Seq(Glyph) /\ Alike(t, s, n)
    BY <1>8 DEF Line, Alike
  <2>2. FlattenSeq(s) \in P /\ Joins(FlattenSeq(t), FlattenSeq(s), t[n + 1])
    BY <2>1, FlattenMore
  <2>3. QED
    BY <2>2 DEF Joins
<1>10. Shown(row, values, parts) = FlattenSeq(s) /\ Shown(row, values, more) = FlattenSeq(t)
  BY <1>2, <1>4, <1>6, <1>7 DEF Shown
<1>11. QED
  BY <1>1, <1>3, <1>8, <1>9, <1>10

\* The letters are characters.
LEMMA LettersAre == "%" \in Glyph /\ "," \in Glyph /\ "|" \in Glyph /\ \A l \in Letters : l \in Glyph
BY DEF Glyph, Signs

\* A text of two characters.
LEMMA TwoAre ==
  ASSUME NEW P, P = Line, NEW x \in Glyph, NEW y \in Glyph, NEW what \in {"csv", "format"}, NEW base
  PROVE  <<x, y>> \in P /\ Read(what, base, <<x, y>>) = Turn(what, Turn(what, base, x), y)
<1>1. PICK one \in P : one = <<x>> /\ Read(what, base, one) = Turn(what, base, x)
  BY OneIs
<1>2. PICK two \in P : two = Append(one, y)
  BY AppendProperties DEF Line
<1>3. two = <<x, y>>
  <2>1. Append(<<x>>, y) = <<x, y>>
    BY PairIs
  <2>2. QED
    BY <1>1, <1>2, <2>1
<1>4. Read(what, base, two) = Turn(what, Read(what, base, one), y)
  BY <1>2, ReadOne DEF Line
<1>5. QED
  BY <1>1, <1>2, <1>3, <1>4

\* What the compiler does of a character.
LEMMA CompilesPercent ==
  ASSUME NEW parts, NEW last \in {"none", "text"}
  PROVE  Turn("format", Compiler(last, parts), "%") = Compiler("percent", parts)
<1>1. PICK r : r = Compiler(last, parts)
  OBVIOUS
<1>2. r.last = last
  BY <1>1 DEF Compiler
<1>3. CompileChar(r, "%") = [r EXCEPT !.last = "percent"]
  BY <1>2 DEF CompileChar
<1>4. QED
  BY <1>1, <1>3 DEF Compiler, Turn

\* Behind a %, a letter ends the segment,
LEMMA CompilesLetter ==
  ASSUME NEW parts, NEW char \in Letters
  PROVE  Turn("format", Compiler("percent", parts), char)
           = Compiler("none", Append(parts, Segment(char, <<>>)))
<1>1. PICK r : r = Compiler("percent", parts)
  OBVIOUS
<1>2. r.last = "percent" /\ r.segments = parts
  BY <1>1 DEF Compiler
<1>3. CompileChar(r, char) = [last |-> "none", segments |-> Append(parts, Segment(char, <<>>))]
  BY <1>2 DEF CompileChar
<1>4. QED
  BY <1>1, <1>3 DEF Compiler, Turn

\* and any other character stays, with the %.
LEMMA CompilesOther ==
  ASSUME NEW parts, NEW char, char \notin Letters
  PROVE  Turn("format", Compiler("percent", parts), char)
           = Compiler("none", Append(parts, Text(<<"%", char>>)))
<1>1. PICK r : r = Compiler("percent", parts)
  OBVIOUS
<1>2. r.last = "percent" /\ r.segments = parts
  BY <1>1 DEF Compiler
<1>3. CompileChar(r, char) = [last |-> "none", segments |-> Append(parts, Text(<<"%", char>>))]
  BY <1>2 DEF CompileChar
<1>4. QED
  BY <1>1, <1>3 DEF Compiler, Turn

\* A character begins a new text,
LEMMA CompilesText ==
  ASSUME NEW parts, NEW char, char # "%"
  PROVE  Turn("format", Compiler("none", parts), char)
           = Compiler("text", Append(parts, Text(<<char>>)))
<1>1. PICK r : r = Compiler("none", parts)
  OBVIOUS
<1>2. r.last = "none" /\ r.segments = parts
  BY <1>1 DEF Compiler
<1>3. CompileChar(r, char) = [last |-> "text", segments |-> Append(parts, Text(<<char>>))]
  BY <1>2 DEF CompileChar
<1>4. QED
  BY <1>1, <1>3 DEF Compiler, Turn

\* A character more in the last segment.
Longer(parts, n, char) == [parts EXCEPT ![n].text = Append(parts[n].text, char)]

\* or goes on with one.
LEMMA CompilesMore ==
  ASSUME NEW V, NEW parts \in Seq(V), Len(parts) # 0, NEW char, char # "%"
  PROVE  Turn("format", Compiler("text", parts), char) = Compiler("text", Longer(parts, Len(parts), char))
<1>1. PICK r : r = Compiler("text", parts)
  OBVIOUS
<1>2. r.last = "text" /\ r.segments = parts
  BY <1>1 DEF Compiler
<1>3. PICK n \in Nat : n = Len(parts)
  BY LenProperties
<1>4. CompileChar(r, char) = [r EXCEPT !.segments[n].text = Append(@, char)]
  BY <1>2, <1>3 DEF CompileChar
<1>5. [r EXCEPT !.segments[n].text = Append(@, char)]
        = [r EXCEPT !.segments = [parts EXCEPT ![n].text = Append(parts[n].text, char)]]
  BY <1>2
<1>6. QED
  BY <1>1, <1>3, <1>4, <1>5 DEF Compiler, Turn, Longer

-----------------------------------------------------------------------------
(* Formats that are lists of letters. *)

\* What a letter adds to the list.
ListPiece(first, letter, separator) ==
  (IF first THEN <<>> ELSE <<separator>>) \o <<"%", letter>>

\* One more letter.
LEMMA ListedGrows ==
  ASSUME NEW P, P = Line, NEW ls \in Seq(Letters), NEW l \in Letters, NEW separator \in Glyph,
         NEW first \in BOOLEAN, first <=> Len(ls) = 0
  PROVE  /\ Listed(ls, separator) \in P /\ ListPiece(first, l, separator) \in P
         /\ Joins(Listed(Append(ls, l), separator), Listed(ls, separator),
                  ListPiece(first, l, separator))
<1>1. \A x \in Letters : \A is \in BOOLEAN : ListPiece(is, x, separator) \in P
  <2>1. SUFFICES ASSUME NEW x \in Letters, NEW is \in BOOLEAN PROVE ListPiece(is, x, separator) \in P
    OBVIOUS
  <2>2. PICK a \in P : a = IF is THEN <<>> ELSE <<separator>>
    <3>1. <<>> \in Seq(Glyph) /\ <<separator>> \in Seq(Glyph)
      OBVIOUS
    <3>2. QED
      BY <3>1 DEF Line
  <2>3. PICK b \in P : b = <<"%", x>>
    <3>1. "%" \in Glyph /\ x \in Glyph
      BY LettersAre
    <3>2. <<"%", x>> \in P
      BY <3>1, TwoAre
    <3>3. QED
      BY <3>2
  <2>4. a \o b \in P
    BY ConcatProperties DEF Line
  <2>5. QED
    BY <2>2, <2>3, <2>4 DEF ListPiece
<1>2. PICK n \in Nat : n = Len(ls) /\ DOMAIN ls = 1 .. n /\ \A k \in 1 .. n : ls[k] \in Letters
  BY OneBehind
<1>3. PICK more : more = Append(ls, l)
  OBVIOUS
<1>4. /\ DOMAIN more = 1 .. n + 1 /\ more[n + 1] = l
      /\ \A k \in 1 .. n : more[k] = ls[k]
  BY <1>2, <1>3, OneBehind
<1>5. \A k \in 1 .. n + 1 : k = n + 1 \/ k \in 1 .. n
  BY <1>2
<1>6. PICK s \in [1 .. n -> P] : s = [k \in 1 .. n |-> ListPiece(k = 1, ls[k], separator)]
  BY <1>1, <1>2
<1>7. PICK t \in [1 .. n + 1 -> P] : t = [k \in 1 .. n + 1 |-> ListPiece(k = 1, more[k], separator)]
  <2>1. \A k \in 1 .. n + 1 : more[k] \in Letters
    BY <1>2, <1>4, <1>5
  <2>2. QED
    BY <1>1, <2>1
<1>8. (\A k \in 1 .. n : t[k] = s[k]) /\ t[n + 1] = ListPiece(first, l, separator)
  <2>1. n + 1 \in 1 .. n + 1 /\ (n + 1 = 1 <=> n = 0)
    BY <1>2
  <2>2. t[n + 1] = ListPiece(first, l, separator)
    BY <1>2, <1>4, <1>7, <2>1 DEF ListPiece
  <2>3. QED
    BY <1>2, <1>4, <1>6, <1>7, <2>2
<1>9. FlattenSeq(s) \in P /\ Joins(FlattenSeq(t), FlattenSeq(s), t[n + 1])
  <2>1. P = Seq(Glyph) /\ Alike(t, s, n)
    BY <1>8 DEF Line, Alike
  <2>2. QED
    BY <1>2, <2>1, FlattenMore
<1>10. Listed(ls, separator) = FlattenSeq(s) /\ Listed(more, separator) = FlattenSeq(t)
  BY <1>2, <1>4, <1>6, <1>7 DEF Listed, ListPiece
<1>11. QED
  BY <1>1, <1>3, <1>8, <1>9, <1>10

\* The columns of a row, by the letters.
Cells(ls, values) == [j \in DOMAIN ls |-> values[ls[j]]]

\* The letters but the last.
Leading(ls) == [j \in 1 .. Len(ls) - 1 |-> ls[j]]

\* Where a reader is behind the columns of these letters.
BehindColumns(ls, values, rs) ==
  IF Len(ls) = 0 THEN Reader(FALSE, FALSE, <<>>, <<>>, rs)
  ELSE Reader(FALSE, TRUE, values[ls[Len(ls)]], Cells(Leading(ls), values), rs)

\* The list is compiled to these segments, and they are read as these columns.
ListReads(ls, row, values, rs, parts) ==
  /\ Read("format", Compiler("none", <<>>), Listed(ls, ",")) = Compiler("none", parts)
  /\ Read("csv", Reader(FALSE, FALSE, <<>>, <<>>, rs), Shown(row, values, parts))
       = BehindColumns(ls, values, rs)

\* What separates a column from those before.
Comma(first) == IF first THEN <<>> ELSE <<",">>

\* The segments of the next column.
Column(first, parts, l) ==
  Append(IF first THEN parts ELSE Append(parts, Text(<<",">>)), Segment(l, <<>>))

\* They are compiled,
LEMMA ColumnIsCompiled ==
  ASSUME NEW P, P = Line, NEW parts, NEW first \in BOOLEAN, NEW l \in Letters
  PROVE  Read("format", Compiler("none", parts), ListPiece(first, l, ","))
           = Compiler("none", Column(first, parts, l))
<1>1. "%" \in Glyph /\ "," \in Glyph /\ l \in Glyph
  BY LettersAre
<1>2. PICK b \in P : b = <<"%", l>>
  <2>1. <<"%", l>> \in P
    BY <1>1, TwoAre
  <2>2. QED
    BY <2>1
<1>3. \A more : Read("format", Compiler("none", more), b)
                  = Compiler("none", Append(more, Segment(l, <<>>)))
  <2>1. SUFFICES ASSUME NEW more
                 PROVE  Read("format", Compiler("none", more), b)
                          = Compiler("none", Append(more, Segment(l, <<>>)))
    OBVIOUS
  <2>2. PICK r : r = Compiler("none", more)
    OBVIOUS
  <2>3. Read("format", r, <<"%", l>>) = Turn("format", Turn("format", r, "%"), l)
    BY <1>1, TwoAre
  <2>4. Turn("format", r, "%") = Compiler("percent", more)
    BY <2>2, CompilesPercent
  <2>5. Turn("format", Compiler("percent", more), l) = Compiler("none", Append(more, Segment(l, <<>>)))
    BY CompilesLetter
  <2>6. QED
    BY <1>2, <2>2, <2>3, <2>4, <2>5
<1>4. CASE first
  <2>1. ListPiece(first, l, ",") = b
    <3>1. <<>> \o b = b
      BY ConcatEmptySeq DEF Line
    <3>2. QED
      BY <1>2, <1>4, <3>1 DEF ListPiece
  <2>2. Column(first, parts, l) = Append(parts, Segment(l, <<>>))
    BY <1>4 DEF Column
  <2>3. QED
    BY <1>3, <2>1, <2>2
<1>5. CASE ~first
  <2>1. PICK a \in P : a = <<",">>
    <3>1. <<",">> \in P
      BY <1>1, OneIs
    <3>2. QED
      BY <3>1
  <2>2. ListPiece(first, l, ",") = a \o b
    BY <1>2, <1>5, <2>1 DEF ListPiece
  <2>3. PICK r : r = Compiler("none", parts)
    OBVIOUS
  <2>4. PICK more : more = Append(parts, Text(<<",">>))
    OBVIOUS
  <2>5. Read("format", r, a \o b) = Read("format", Read("format", r, a), b)
    BY ReadOn DEF Line
  <2>6. Read("format", r, <<",">>) = Turn("format", r, ",")
    BY <1>1, OneIs
  <2>7. Turn("format", r, ",") = Compiler("text", more)
    BY <2>3, <2>4, CompilesText
  <2>8. Read("format", Compiler("text", more), <<"%", l>>)
          = Turn("format", Turn("format", Compiler("text", more), "%"), l)
    BY <1>1, TwoAre
  <2>9. Turn("format", Compiler("text", more), "%") = Compiler("percent", more)
    BY CompilesPercent
  <2>10. Turn("format", Compiler("percent", more), l) = Compiler("none", Append(more, Segment(l, <<>>)))
    BY CompilesLetter
  <2>11. Column(first, parts, l) = Append(more, Segment(l, <<>>))
    BY <1>5, <2>4 DEF Column
  <2>12. QED
    BY <1>2, <2>1, <2>2, <2>3, <2>5, <2>6, <2>7, <2>8, <2>9, <2>10, <2>11
<1>6. QED
  BY <1>4, <1>5

\* and they are shown so.
LEMMA ColumnIsShown ==
  ASSUME NEW P, P = Line, NEW row, row.csv = TRUE, NEW values, ValuesAre(values), NEW parts \in Seq(Part),
         NEW first \in BOOLEAN, NEW l \in Letters
  PROVE  /\ Column(first, parts, l) \in Seq(Part)
         /\ Comma(first) \in P
         /\ Joins(Shown(row, values, Column(first, parts, l)),
                  Shown(row, values, parts) \o Comma(first), CsvField(values[l]))
<1>1. "," \in Glyph /\ l # "text"
  BY LettersAre DEF Letters
<1>2. PICK comma \in P : comma = Comma(first)
  <2>1. <<>> \in Seq(Glyph)
    OBVIOUS
  <2>3. <<",">> \in P
    BY <1>1, OneIs
  <2>2. QED
    BY <2>1, <2>3 DEF Line, Comma
<1>3. PICK part \in Part : part = Text(<<",">>)
  <2>1. <<",">> \in P
    BY <1>1, OneIs
  <2>2. QED
    BY <2>1 DEF Part, Text, Segment
<1>4. Piece(row, values, part) = <<",">>
  BY <1>3 DEF Piece, Text, Segment
<1>5. PICK column \in Part : column = Segment(l, <<>>)
  <2>1. <<>> \in Seq(Glyph)
    OBVIOUS
  <2>2. QED
    BY <2>1 DEF Part, Line, Segment
<1>6. Piece(row, values, column) = CsvField(values[l])
  BY <1>1, <1>5 DEF Piece, Segment, Field
<1>7. PICK more \in Seq(Part) : more = IF first THEN parts ELSE Append(parts, part)
  BY AppendProperties
<1>8. Shown(row, values, more) = Shown(row, values, parts) \o comma
  <2>1. CASE first
    <3>1. PICK s \in P : s = Shown(row, values, parts)
      BY <1>5, ShownGrows
    <3>2. s \o <<>> = s
      BY ConcatEmptySeq DEF Line
    <3>3. QED
      BY <1>2, <1>7, <2>1, <3>1, <3>2 DEF Comma
  <2>2. CASE ~first
    <3>1. Shown(row, values, Append(parts, part)) = Shown(row, values, parts) \o Piece(row, values, part)
      BY ShownGrows
    <3>2. QED
      BY <1>2, <1>4, <1>7, <2>2, <3>1 DEF Comma
  <2>3. QED
    BY <2>1, <2>2
<1>9. Shown(row, values, Append(more, column)) = Shown(row, values, more) \o Piece(row, values, column)
  BY ShownGrows
<1>10. Append(more, column) \in Seq(Part)
  BY AppendProperties
<1>11. Column(first, parts, l) = Append(more, column)
  BY <1>3, <1>5, <1>7 DEF Column
<1>12. QED
  BY <1>2, <1>6, <1>8, <1>9, <1>10, <1>11 DEF Joins

\* The columns but the last, and the last.
LEMMA CellsGrow ==
  ASSUME NEW values, ValuesAre(values), NEW ls \in Seq(Letters), Len(ls) # 0
  PROVE  Append(Cells(Leading(ls), values), values[ls[Len(ls)]]) = Cells(ls, values)
<1>1. PICK n \in Nat : n = Len(ls) /\ DOMAIN ls = 1 .. n /\ \A k \in 1 .. n : ls[k] \in Letters
  BY OneBehind
<1>2. PICK v, c : v = values[ls[n]] /\ c = Cells(Leading(ls), values)
  OBVIOUS
<1>3. PICK m \in Nat : n = m + 1
  <2>1. n - 1 \in Nat /\ n = (n - 1) + 1
    BY <1>1
  <2>2. QED
    BY <2>1
<1>4. PICK a : a = Cells(ls, values)
  OBVIOUS
<1>5. \A k \in 1 .. n : a[k] = values[ls[k]] /\ a[k] \in Line
  BY <1>1, <1>4 DEF Cells, ValuesAre
<1>6. a = [k \in 1 .. n |-> a[k]]
  BY <1>1, <1>4 DEF Cells
<1>7. c = [k \in 1 .. m |-> values[ls[k]]]
  <2>1. Leading(ls) = [k \in 1 .. m |-> ls[k]]
    <3>1. n - 1 = m
      BY <1>3
    <3>2. QED
      BY <1>1, <3>1 DEF Leading
  <2>2. QED
    BY <1>2, <2>1 DEF Cells
<1>8. c \in Seq(Line) /\ Len(c) = m /\ \A k \in 1 .. m : c[k] = a[k]
  <2>1. \A k \in 1 .. m : c[k] = a[k] /\ c[k] \in Line
    BY <1>3, <1>5, <1>7
  <2>2. QED
    BY <1>7, <2>1
<1>9. v = a[n] /\ v \in Line
  <2>1. n \in 1 .. n
    BY <1>3
  <2>2. QED
    BY <1>2, <1>5, <2>1
<1>10. PICK b : b = Append(c, v)
  OBVIOUS
<1>11. b \in Seq(Line) /\ Len(b) = m + 1 /\ b[m + 1] = v /\ \A k \in 1 .. m : b[k] = c[k]
  BY <1>8, <1>9, <1>10, OneBehind
<1>12. \A k \in 1 .. n : b[k] = a[k]
  <2>1. \A k \in 1 .. n : k = n \/ k \in 1 .. m
    BY <1>3
  <2>2. QED
    BY <1>3, <1>8, <1>9, <1>11, <2>1
<1>13. b = [k \in 1 .. n |-> b[k]]
  BY <1>3, <1>11, LenProperties
<1>14. a = b
  BY <1>6, <1>12, <1>13
<1>15. QED
  BY <1>1, <1>2, <1>4, <1>10, <1>14

\* The reader goes on to the next column.
LEMMA ColumnIsRead ==
  ASSUME NEW P, P = Line, NEW values, ValuesAre(values), NEW rs,
         NEW ls \in Seq(Letters), NEW l \in Letters,
         NEW comma \in P, comma = Comma(Len(ls) = 0)
  PROVE  Read("csv", Read("csv", BehindColumns(ls, values, rs), comma), CsvField(values[l]))
           = BehindColumns(Append(ls, l), values, rs)
<1>1. PICK n \in Nat : n = Len(ls) /\ DOMAIN ls = 1 .. n /\ \A k \in 1 .. n : ls[k] \in Letters
  BY OneBehind
<1>2. PICK more : more = Append(ls, l)
  OBVIOUS
<1>3. /\ Len(more) = n + 1 /\ DOMAIN more = 1 .. n + 1 /\ more[n + 1] = l
      /\ \A k \in 1 .. n : more[k] = ls[k]
  BY <1>1, <1>2, OneBehind
<1>4. Leading(more) = ls
  <2>1. n + 1 - 1 = n
    OBVIOUS
  <2>2. Leading(more) = [j \in 1 .. n |-> more[j]]
    BY <1>3, <2>1 DEF Leading
  <2>3. ls = [j \in 1 .. n |-> ls[j]]
    BY <1>1, LenProperties
  <2>4. QED
    BY <1>3, <2>2, <2>3
<1>5. BehindColumns(more, values, rs) = Reader(FALSE, TRUE, values[l], Cells(ls, values), rs)
  <2>1. n + 1 # 0 /\ more[Len(more)] = l
    BY <1>3
  <2>2. QED
    BY <1>3, <1>4, <2>1 DEF BehindColumns
<1>6. PICK before : before = Read("csv", BehindColumns(ls, values, rs), comma)
  OBVIOUS
<1>7. before = Reader(FALSE, FALSE, <<>>, Cells(ls, values), rs)
  <2>1. CASE n = 0
    <3>1. before = BehindColumns(ls, values, rs)
      BY <1>1, <1>6, <2>1, ReadNothing DEF Comma
    <3>2. BehindColumns(ls, values, rs) = Reader(FALSE, FALSE, <<>>, <<>>, rs)
      BY <1>1, <2>1 DEF BehindColumns
    <3>3. Cells(ls, values) = <<>>
      BY <1>1, <2>1 DEF Cells
    <3>4. QED
      BY <3>1, <3>2, <3>3
  <2>2. CASE n # 0
    <3>1. PICK v, c : v = values[ls[n]] /\ c = Cells(Leading(ls), values)
      OBVIOUS
    <3>2. BehindColumns(ls, values, rs) = Reader(FALSE, TRUE, v, c, rs)
      BY <1>1, <2>2, <3>1 DEF BehindColumns
    <3>3. comma = <<",">> /\ "," \in Glyph
      BY <1>1, <2>2, LettersAre DEF Comma
    <3>4. Read("csv", Reader(FALSE, TRUE, v, c, rs), <<",">>)
            = Turn("csv", Reader(FALSE, TRUE, v, c, rs), ",")
      BY <3>3, OneIs
    <3>5. Turn("csv", Reader(FALSE, TRUE, v, c, rs), ",") = Reader(FALSE, FALSE, <<>>, Append(c, v), rs)
      BY ReadsBehind DEF Turn
    <3>6. Append(c, v) = Cells(ls, values)
      BY <1>1, <2>2, <3>1, CellsGrow
    <3>7. QED
      BY <1>6, <3>2, <3>3, <3>4, <3>5, <3>6
  <2>3. QED
    BY <2>1, <2>2
<1>8. PICK v \in P : v = values[l]
  BY DEF ValuesAre
<1>9. Read("csv", Reader(FALSE, FALSE, <<>>, Cells(ls, values), rs), CsvField(values[l]))
        = Reader(FALSE, TRUE, values[l], Cells(ls, values), rs)
  <2>1. Read("csv", Reader(FALSE, FALSE, <<>>, Cells(ls, values), rs), CsvField(v))
          = Reader(FALSE, TRUE, v, Cells(ls, values), rs)
    BY ONLY P = Line, v \in P, FieldIsRead
  <2>2. QED
    BY <1>8, <2>1
<1>10. QED
  BY <1>2, <1>5, <1>6, <1>7, <1>9

\* A list of letters is compiled to segments that are read as its columns.
LEMMA ListIsRead ==
  ASSUME NEW row, row.csv = TRUE, NEW values, ValuesAre(values), NEW rs
  PROVE  \A ls \in Seq(Letters) : \E parts \in Seq(Part) : ListReads(ls, row, values, rs, parts)
<1>1. PICK P : P = Line
  OBVIOUS
<1>2. PICK Q : Q = Seq(Letters)
  OBVIOUS
<1> DEFINE T == {ls \in Q : \E parts \in Seq(Part) : ListReads(ls, row, values, rs, parts)}
<1>3. PICK start : start = Reader(FALSE, FALSE, <<>>, <<>>, rs)
  OBVIOUS
<1>4. PICK base : base = Compiler("none", <<>>)
  OBVIOUS
<1>5. <<>> \in T
  <2>1. PICK none \in Seq(Part) : none = <<>>
    <3>1. <<>> \in Seq(Part)
      OBVIOUS
    <3>2. QED
      BY <3>1
  <2>2. Listed(<<>>, ",") = <<>> /\ Shown(row, values, none) = <<>>
    <3>1. FlattenSeq(<<>>) = <<>>
      BY DEF FlattenSeq
    <3>2. [k \in DOMAIN <<>> |-> (IF k = 1 THEN <<>> ELSE <<",">>) \o <<"%", <<>>[k]>>] = <<>>
      OBVIOUS
    <3>3. [k \in DOMAIN none |-> Piece(row, values, none[k])] = <<>>
      BY <2>1
    <3>4. QED
      BY <3>1, <3>2, <3>3 DEF Listed, Shown
  <2>3. Read("format", base, <<>>) = base /\ Read("csv", start, <<>>) = start
    BY ReadNothing
  <2>4. BehindColumns(<<>>, values, rs) = start
    BY <1>3 DEF BehindColumns
  <2>5. ListReads(<<>>, row, values, rs, none)
    BY <1>3, <1>4, <2>1, <2>2, <2>3, <2>4 DEF ListReads
  <2>6. <<>> \in Q
    <3>1. <<>> \in Seq(Letters)
      OBVIOUS
    <3>2. QED
      BY <1>2, <3>1
  <2>7. QED
    BY <2>5, <2>6
<1>6. ASSUME NEW ls \in Q, NEW l \in Letters, ls \in T PROVE Append(ls, l) \in T
  <2>1. PICK parts \in Seq(Part) : ListReads(ls, row, values, rs, parts)
    BY <1>6
  <2>2. PICK first \in BOOLEAN : first = (Len(ls) = 0)
    OBVIOUS
  <2>3. PICK more : more = Append(ls, l) /\ more \in Q
    BY <1>2, AppendProperties
  <2>4. PICK new : new = Column(first, parts, l)
    OBVIOUS
  <2>5. Read("format", base, Listed(more, ",")) = Compiler("none", new)
    <3>1. "," \in Glyph
      BY LettersAre
    <3>2. PICK a \in P, b \in P : /\ a = Listed(ls, ",") /\ b = ListPiece(first, l, ",")
                                  /\ Joins(Listed(more, ","), a, b)
      <4>1. /\ Listed(ls, ",") \in P /\ ListPiece(first, l, ",") \in P
            /\ Joins(Listed(Append(ls, l), ","), Listed(ls, ","), ListPiece(first, l, ","))
        BY <1>1, <1>2, <2>2, <3>1, ListedGrows
      <4>2. QED
        BY <2>3, <4>1
    <3>3. Read("format", base, a \o b) = Read("format", Read("format", base, a), b)
      BY <1>1, ReadOn DEF Line
    <3>4. Read("format", base, a) = Compiler("none", parts)
      BY <1>4, <2>1, <3>2 DEF ListReads
    <3>5. Read("format", Compiler("none", parts), b) = Compiler("none", new)
      BY <2>4, <3>2, ColumnIsCompiled
    <3>6. QED
      BY <3>2, <3>3, <3>4, <3>5 DEF Joins
  <2>6. /\ new \in Seq(Part)
        /\ Read("csv", start, Shown(row, values, new)) = BehindColumns(more, values, rs)
    <3>1. new \in Seq(Part)
      BY <1>1, <2>4, ColumnIsShown
    <3>2. PICK comma \in P : /\ comma = Comma(first)
                             /\ Shown(row, values, new)
                                  = (Shown(row, values, parts) \o comma) \o CsvField(values[l])
      <4>1. /\ Comma(first) \in P
            /\ Joins(Shown(row, values, Column(first, parts, l)),
                     Shown(row, values, parts) \o Comma(first), CsvField(values[l]))
        BY <1>1, ColumnIsShown
      <4>2. QED
        BY <2>4, <4>1 DEF Joins
    <3>3. PICK s \in P : s = Shown(row, values, parts)
      <4>1. PICK part \in Part : part = Segment(l, <<>>)
        <5>1. <<>> \in Seq(Glyph)
          OBVIOUS
        <5>2. QED
          BY <5>1 DEF Part, Segment, Line
      <4>2. QED
        BY <1>1, <4>1, ShownGrows
    <3>4. PICK f \in P : f = CsvField(values[l])
      <4>1. values[l] \in P
        BY <1>1 DEF ValuesAre
      <4>2. QED
        BY <1>1, <4>1, FieldIsRead
    <3>5. PICK sc \in P : sc = s \o comma
      BY <1>1, ConcatProperties DEF Line
    <3>6. Read("csv", start, sc \o f) = Read("csv", Read("csv", start, sc), f)
      BY <1>1, ReadOn DEF Line
    <3>7. Read("csv", start, s \o comma) = Read("csv", Read("csv", start, s), comma)
      BY <1>1, ReadOn DEF Line
    <3>8. Read("csv", start, s) = BehindColumns(ls, values, rs)
      BY <1>3, <2>1, <3>3 DEF ListReads
    <3>9. Read("csv", Read("csv", BehindColumns(ls, values, rs), comma), f) = BehindColumns(more, values, rs)
      BY <1>1, <1>2, <2>2, <2>3, <3>2, <3>4, ColumnIsRead
    <3>10. QED
      BY <3>1, <3>2, <3>3, <3>4, <3>5, <3>6, <3>7, <3>8, <3>9
  <2>7. ListReads(more, row, values, rs, new)
    BY <1>3, <1>4, <2>5, <2>6 DEF ListReads
  <2>8. QED
    BY <2>3, <2>6, <2>7
<1>7. \A ls \in Q : ls \in T
  <2> HIDE DEF T
  <2>1. QED
    BY <1>2, <1>5, <1>6, SequencesUpTo
<1>8. QED
  BY <1>2, <1>7

\* The compiler starts with no segments.
LEMMA PrecompileIs ==
  ASSUME NEW format
  PROVE  Precompile(format) = Read("format", Compiler("none", <<>>), format).segments
BY DEF Precompile, Read, Compiler

\* The reader starts with nothing.
LEMMA ReadCsvIs ==
  ASSUME NEW text
  PROVE  ReadCsv(text) = Read("csv", Reader(FALSE, FALSE, <<>>, <<>>, <<>>), text).records
BY DEF ReadCsv, Read, Reader

\* A row of the default CSV is read back.
LEMMA RowIsRead ==
  ASSUME NEW row, row.csv = TRUE, NEW values, ValuesAre(values), NEW rs
  PROVE  Read("csv", Reader(FALSE, FALSE, <<>>, <<>>, rs),
              PrintToStream(row, Precompile(Listed(CsvLetters, ",")), values))
           = Reader(FALSE, FALSE, <<>>, <<>>, Append(rs, Cells(CsvLetters, values)))
<1>1. PICK ls \in Seq(Letters) : ls = CsvLetters /\ Len(ls) # 0
  <2>1. CsvLetters \in Seq(Letters) /\ Len(CsvLetters) # 0
    BY DEF CsvLetters, Letters
  <2>2. QED
    BY <2>1
<1>2. PICK parts \in Seq(Part) : ListReads(ls, row, values, rs, parts)
  BY ListIsRead
<1>3. Precompile(Listed(ls, ",")) = parts
  <2>1. Read("format", Compiler("none", <<>>), Listed(ls, ",")) = Compiler("none", parts)
    BY <1>2 DEF ListReads
  <2>2. Compiler("none", parts).segments = parts
    BY DEF Compiler
  <2>3. QED
    BY <2>1, <2>2, PrecompileIs
<1>4. PICK P : P = Line
  OBVIOUS
<1>5. PICK s \in P : s = Shown(row, values, parts)
  <2>1. PICK part \in Part : TRUE
    <3>1. <<>> \in Seq(Glyph)
      OBVIOUS
    <3>2. Text(<<>>) \in Part
      BY <3>1 DEF Part, Text, Segment, Line
    <3>3. QED
      BY <3>2
  <2>2. QED
    BY <1>4, <2>1, ShownGrows
<1>6. EndOfLine \in Glyph
  BY DEF Glyph, Signs
<1>7. PICK e \in P : e = <<EndOfLine>>
  <2>1. <<EndOfLine>> \in P
    BY <1>4, <1>6, OneIs
  <2>2. QED
    BY <2>1
<1>8. PrintToStream(row, parts, values) = s \o e
  BY <1>5, <1>7 DEF PrintToStream, Shown, Piece
<1>9. PICK start : start = Reader(FALSE, FALSE, <<>>, <<>>, rs)
  OBVIOUS
<1>10. PICK v, c : v = values[ls[Len(ls)]] /\ c = Cells(Leading(ls), values)
  OBVIOUS
<1>11. Read("csv", start, s) = Reader(FALSE, TRUE, v, c, rs)
  <2>1. Read("csv", start, s) = BehindColumns(ls, values, rs)
    BY <1>2, <1>5, <1>9 DEF ListReads
  <2>2. BehindColumns(ls, values, rs) = Reader(FALSE, TRUE, v, c, rs)
    BY <1>1, <1>10 DEF BehindColumns
  <2>3. QED
    BY <2>1, <2>2
<1>12. Read("csv", start, s \o e) = Read("csv", Read("csv", start, s), e)
  BY <1>4, ReadOn DEF Line
<1>13. Read("csv", Reader(FALSE, TRUE, v, c, rs), <<EndOfLine>>)
         = Turn("csv", Reader(FALSE, TRUE, v, c, rs), EndOfLine)
  BY <1>6, OneIs
<1>14. Turn("csv", Reader(FALSE, TRUE, v, c, rs), EndOfLine)
         = Reader(FALSE, FALSE, <<>>, <<>>, Append(rs, Append(c, v)))
  BY ReadsBehind DEF Turn
<1>15. Append(c, v) = Cells(ls, values)
  BY <1>1, <1>10, CellsGrow
<1>16. QED
  BY <1>1, <1>3, <1>7, <1>8, <1>9, <1>11, <1>12, <1>13, <1>14, <1>15

-----------------------------------------------------------------------------
(* What a format means. *)

\* Text is appended to the last segment.
LEMMA ShownLonger ==
  ASSUME NEW P, P = Line, NEW row, NEW values, ValuesAre(values), NEW parts \in Seq(Part),
         NEW n \in Nat, n = Len(parts), n # 0, parts[n].field = "text", NEW char \in Glyph,
         NEW new, new = Longer(parts, n, char)
  PROVE  /\ new \in Seq(Part) /\ Len(new) = n /\ new[n].field = "text"
         /\ Joins(Shown(row, values, new), Shown(row, values, parts), <<char>>)
<1>1. DOMAIN parts = 1 .. n /\ n \in 1 .. n /\ \A k \in 1 .. n : parts[k] \in Part
  <2>1. n \in 1 .. n
    OBVIOUS
  <2>2. DOMAIN parts = 1 .. n
    BY LenProperties
  <2>3. \A k \in 1 .. n : parts[k] \in Part
    BY ElementOfSeq
  <2>4. QED
    BY <2>1, <2>2, <2>3
<1>2. PICK old \in Part : old = parts[n] /\ old.field = "text"
  BY <1>1
<1>3. old.text \in P /\ old = [field |-> "text", text |-> old.text]
  BY <1>2 DEF Part
<1>4. PICK one \in P : one = <<char>>
  <2>1. <<char>> \in Seq(Glyph)
    OBVIOUS
  <2>2. QED
    BY <2>1 DEF Line
<1>5. PICK longer \in P : longer = Append(old.text, char)
  BY <1>3, AppendProperties DEF Line
<1>6. longer = old.text \o one
  BY <1>3, <1>4, <1>5, AppendIsConcat DEF Line
<1>7. PICK part \in Part : part = [field |-> "text", text |-> longer]
  BY DEF Part
<1>8. part.field = "text" /\ part.text = longer
  BY <1>7
<1>9. new = [parts EXCEPT ![n] = part]
  <2>1. new = [parts EXCEPT ![n] = [parts[n] EXCEPT !.text = Append(parts[n].text, char)]]
    BY <1>1 DEF Longer
  <2>2. [old EXCEPT !.text = longer] = part
    BY <1>3, <1>7
  <2>3. QED
    BY <1>2, <1>5, <2>1, <2>2
<1>10. /\ new \in Seq(Part) /\ Len(new) = n /\ DOMAIN new = 1 .. n /\ new[n] = part
       /\ \A k \in 1 .. n : k # n => new[k] = parts[k]
  <2>1. new \in Seq(Part) /\ Len(new) = n /\ \A k \in 1 .. n : new[k] = IF k = n THEN part ELSE parts[k]
    <3>1. n \in 1 .. Len(parts)
      BY <1>1
    <3>2. PICK b : b = [parts EXCEPT ![n] = part]
      OBVIOUS
    <3>3. /\ b \in Seq(Part) /\ Len(b) = Len(parts)
          /\ \A k \in 1 .. Len(parts) : b[k] = IF k = n THEN part ELSE parts[k]
      BY <3>1, <3>2, ExceptSeq
    <3>4. QED
      BY <1>9, <3>2, <3>3
  <2>2. DOMAIN new = 1 .. n
    BY <2>1, LenProperties
  <2>3. QED
    BY <1>1, <2>1, <2>2
<1>11. \A x \in Part : Piece(row, values, x) \in P
  BY PieceIsLine
<1>12. PICK s : s = [k \in 1 .. n |-> Piece(row, values, parts[k])]
  OBVIOUS
<1>13. s \in Seq(P) /\ Len(s) = n
  BY <1>1, <1>11, <1>12
<1>14. s[n] = old.text /\ Piece(row, values, part) = s[n] \o one
  BY <1>1, <1>2, <1>6, <1>8, <1>12 DEF Piece
<1>15. [k \in 1 .. n |-> Piece(row, values, new[k])] = [s EXCEPT ![n] = s[n] \o one]
  BY <1>1, <1>10, <1>12, <1>14
<1>16. FlattenSeq([s EXCEPT ![n] = s[n] \o one]) = FlattenSeq(s) \o one
  <2>1. P = Seq(Glyph) /\ s \in Seq(P) /\ Len(s) # 0 /\ one \in P
    BY <1>13 DEF Line
  <2>2. FlattenSeq([s EXCEPT ![Len(s)] = s[Len(s)] \o one]) = FlattenSeq(s) \o one
    BY ONLY <2>1, FlattenGrow
  <2>3. QED
    BY <1>13, <2>2
<1>17. Shown(row, values, parts) = FlattenSeq(s)
  BY <1>1, <1>12 DEF Shown
<1>18. Shown(row, values, new) = FlattenSeq([s EXCEPT ![n] = s[n] \o one])
  BY <1>10, <1>15 DEF Shown
<1>19. QED
  BY <1>4, <1>8, <1>10, <1>16, <1>17, <1>18 DEF Joins

\* What stands for a % and the character after it.
Replaced(char, values) ==
  IF char \in Letters THEN Field(input.row, values[char]) ELSE <<"%", char>>

\* The equation of from, in Meant.
FromIs(from, format, values) ==
  from = [k \in 1 .. Len(format) + 1 |->
            IF k > Len(format) THEN <<>>
            ELSE IF format[k] # "%" THEN <<format[k]>> \o from[k + 1]
            ELSE IF k = Len(format) THEN <<>>
            ELSE Replaced(format[k + 1], values) \o from[k + 2]]

\* It has a solution,
LEMMA FromExists ==
  ASSUME NEW V, NEW format \in Seq(V), NEW values
  PROVE  \E from : FromIs(from, format, values)
<1>1. PICK n \in Nat : n = Len(format)
  BY LenProperties
<1>2. PICK good : good = {k \in 1 .. n : format[k] # "%" \/ k # n}
  OBVIOUS
<1>3. PICK part : part = [k \in Nat |-> IF format[k] # "%" THEN <<format[k]>>
                                        ELSE Replaced(format[k + 1], values)]
  OBVIOUS
<1>4. PICK next : next = [k \in Nat |-> IF format[k] # "%" THEN k + 1 ELSE k + 2]
  OBVIOUS
<1>5. good \subseteq 0 .. n /\ \A k \in good : next[k] \in Nat /\ next[k] > k
  BY <1>2, <1>4
<1>6. PICK f : Continues(f, good, part, next)
  BY <1>5, ContinuesExist
<1>7. \A k \in Nat : f[k] = IF k \in good THEN part[k] \o f[next[k]] ELSE <<>>
  BY <1>6 DEF Continues
<1>8. PICK from : from = [k \in 1 .. n + 1 |-> f[k]]
  OBVIOUS
<1>9. ASSUME NEW k \in 1 .. n + 1
      PROVE  from[k] = IF k > n THEN <<>>
                       ELSE IF format[k] # "%" THEN <<format[k]>> \o from[k + 1]
                       ELSE IF k = n THEN <<>>
                       ELSE Replaced(format[k + 1], values) \o from[k + 2]
  <2>1. from[k] = IF k \in good THEN part[k] \o f[next[k]] ELSE <<>>
    BY <1>7, <1>8
  <2>2. CASE k > n
    <3>1. k \notin good
      BY <1>2, <2>2
    <3>2. QED
      BY <2>1, <2>2, <3>1
  <2>3. CASE k <= n /\ format[k] # "%"
    <3>1. k \in good /\ part[k] = <<format[k]>> /\ next[k] = k + 1 /\ ~(k > n)
      BY <1>2, <1>3, <1>4, <2>3
    <3>2. from[k + 1] = f[k + 1]
      BY <1>8, <2>3
    <3>3. QED
      BY <2>1, <2>3, <3>1, <3>2
  <2>4. CASE k = n /\ format[k] = "%"
    <3>1. k \notin good /\ ~(k > n)
      BY <1>2, <2>4
    <3>2. QED
      BY <2>1, <2>4, <3>1
  <2>5. CASE k < n /\ format[k] = "%"
    <3>1. k \in good /\ part[k] = Replaced(format[k + 1], values) /\ next[k] = k + 2 /\ ~(k > n) /\ k # n
      BY <1>2, <1>3, <1>4, <2>5
    <3>2. from[k + 2] = f[k + 2]
      BY <1>8, <2>5
    <3>3. QED
      BY <2>1, <2>5, <3>1, <3>2
  <2>6. QED
    BY <2>2, <2>3, <2>4, <2>5
<1>10. FromIs(from, format, values)
  BY <1>1, <1>8, <1>9 DEF FromIs
<1>11. QED
  BY <1>10

\* and Meant is the solution at the first place.
LEMMA MeantIs ==
  ASSUME NEW V, NEW format \in Seq(V), NEW values
  PROVE  \E from : FromIs(from, format, values) /\ Meant(format, values) = from[1] \o <<EndOfLine>>
<1> DEFINE from == CHOOSE f : FromIs(f, format, values)
<1>1. FromIs(from, format, values)
  BY FromExists
<1>2. Meant(format, values) = from[1] \o <<EndOfLine>>
  BY DEF Meant, FromIs, Replaced
<1>3. QED
  BY <1>1, <1>2

\* What is put for a % and a character is made of characters.
LEMMA ReplacedIsLine ==
  ASSUME NEW P, P = Line, NEW char \in Glyph, NEW values, ValuesAre(values)
  PROVE  Replaced(char, values) \in P
<1>1. char \in Letters => Field(input.row, values[char]) \in P
  BY FieldIs DEF ValuesAre
<1>2. "%" \in Glyph
  BY LettersAre
<1>3. <<"%", char>> \in P
  BY <1>2, TwoAre
<1>4. QED
  BY <1>1, <1>3 DEF Replaced

\* So is all that a format means.
LEMMA FromIsLine ==
  ASSUME NEW P, P = Line, NEW format \in P, NEW values, ValuesAre(values), NEW n \in Nat, n = Len(format),
         NEW from, FromIs(from, format, values)
  PROVE  \A k \in 1 .. n + 1 : from[k] \in P
<1> DEFINE T == {m \in Nat : \A k \in 1 .. n + 1 : k + m = n + 1 => from[k] \in P}
<1>1. ASSUME NEW m \in Nat, \A l \in Nat : l < m => l \in T PROVE m \in T
  <2>1. SUFFICES ASSUME NEW k \in 1 .. n + 1, k + m = n + 1 PROVE from[k] \in P
    OBVIOUS
  <2>2. from[k] = IF k > n THEN <<>>
                  ELSE IF format[k] # "%" THEN <<format[k]>> \o from[k + 1]
                  ELSE IF k = n THEN <<>>
                  ELSE Replaced(format[k + 1], values) \o from[k + 2]
    BY DEF FromIs
  <2>3. <<>> \in P
    <3>1. <<>> \in Seq(Glyph)
      OBVIOUS
    <3>2. QED
      BY <3>1 DEF Line
  <2>4. k <= n => <<format[k]>> \o from[k + 1] \in P
    <3>1. SUFFICES ASSUME k <= n PROVE <<format[k]>> \o from[k + 1] \in P
      OBVIOUS
    <3>2. m - 1 \in Nat /\ m - 1 < m /\ (k + 1) + (m - 1) = n + 1 /\ k + 1 \in 1 .. n + 1
      BY <2>1, <3>1
    <3>3. from[k + 1] \in P
      BY <1>1, <3>2
    <3>4. format[k] \in Glyph
      BY <3>1, ElementOfSeq DEF Line
    <3>5. <<format[k]>> \in P
      BY <3>4, OneIs
    <3>6. QED
      BY <3>3, <3>5, ConcatProperties DEF Line
  <2>5. k < n => Replaced(format[k + 1], values) \o from[k + 2] \in P
    <3>1. SUFFICES ASSUME k < n PROVE Replaced(format[k + 1], values) \o from[k + 2] \in P
      OBVIOUS
    <3>2. m - 2 \in Nat /\ m - 2 < m /\ (k + 2) + (m - 2) = n + 1 /\ k + 2 \in 1 .. n + 1
      BY <2>1, <3>1
    <3>3. from[k + 2] \in P
      BY <1>1, <3>2
    <3>4. format[k + 1] \in Glyph
      <4>1. k + 1 \in 1 .. n
        BY <3>1
      <4>2. QED
        BY <4>1, ElementOfSeq DEF Line
    <3>5. Replaced(format[k + 1], values) \in P
      BY <3>4, ReplacedIsLine
    <3>6. QED
      BY <3>3, <3>5, ConcatProperties DEF Line
  <2>6. k > n \/ k = n \/ k < n
    OBVIOUS
  <2>7. QED
    BY <2>2, <2>3, <2>4, <2>5, <2>6
<1>2. \A m \in Nat : m \in T
  <2> HIDE DEF T
  <2>1. QED
    BY <1>1, NumbersUpTo
<1>3. SUFFICES ASSUME NEW k \in 1 .. n + 1 PROVE from[k] \in P
  OBVIOUS
<1>4. n + 1 - k \in Nat /\ k + (n + 1 - k) = n + 1
  OBVIOUS
<1>5. QED
  BY <1>2, <1>4

\* In the middle of a format: the segments so far are shown as what comes before
\* the rest, a % that waits belongs to the rest, and text goes on with text.
Halfway(format, values, from, i, last, parts) ==
  /\ last \in {"none", "text", "percent"} /\ parts \in Seq(Part)
  /\ last = "percent" => /\ i # 0 /\ format[i] = "%"
                         /\ Joins(from[1], Shown(input.row, values, parts), from[i])
  /\ last # "percent" => Joins(from[1], Shown(input.row, values, parts), from[i + 1])
  /\ last = "text" => Len(parts) # 0 /\ parts[Len(parts)].field = "text"

\* A new segment is shown behind the others.
LEMMA ShownJoins ==
  ASSUME NEW P, P = Line, NEW values, ValuesAre(values), NEW parts \in Seq(Part), NEW part \in Part,
         NEW all, NEW f \in P, NEW rest \in P,
         Joins(all, Shown(input.row, values, parts), f), Joins(f, Piece(input.row, values, part), rest)
  PROVE  /\ Append(parts, part) \in Seq(Part)
         /\ Joins(all, Shown(input.row, values, Append(parts, part)), rest)
<1>1. PICK s \in P : s = Shown(input.row, values, parts)
  BY ShownGrows
<1>2. PICK piece \in P : piece = Piece(input.row, values, part)
  BY ShownGrows
<1>3. PICK more : more = Shown(input.row, values, Append(parts, part))
  OBVIOUS
<1>4. Joins(more, s, piece)
  <2>1. Shown(input.row, values, Append(parts, part))
          = Shown(input.row, values, parts) \o Piece(input.row, values, part)
    BY ShownGrows
  <2>2. QED
    BY <1>1, <1>2, <1>3, <2>1 DEF Joins
<1>5. Joins(all, more, rest)
  <2>1. P = Seq(Glyph) /\ Joins(all, s, f) /\ Joins(f, piece, rest)
    BY <1>1, <1>2 DEF Line
  <2>2. QED
    BY <1>4, <2>1, JoinsOn
<1>6. Append(parts, part) \in Seq(Part)
  BY AppendProperties
<1>7. QED
  BY <1>3, <1>5, <1>6

\* Some state of the compiler is in the middle of the format.
IsHalfway(format, values, from, i, compiler) ==
  \E last, parts : compiler = Compiler(last, parts) /\ Halfway(format, values, from, i, last, parts)

\* Behind a % there is what stands for it and its letter,
LEMMA BehindPercent ==
  ASSUME NEW P, P = Line, NEW format \in P, NEW values, ValuesAre(values), NEW n \in Nat, n = Len(format),
         NEW from, FromIs(from, format, values), NEW i \in Nat, i < n,
         NEW parts, Halfway(format, values, from, i, "percent", parts)
  PROVE  IsHalfway(format, values, from, i + 1, Turn("format", Compiler("percent", parts), format[i + 1]))
<1>1. PICK char \in Glyph : char = format[i + 1]
  <2>1. i + 1 \in 1 .. n
    OBVIOUS
  <2>2. QED
    BY <2>1, ElementOfSeq DEF Line
<1>2. i # 0 /\ format[i] = "%" /\ parts \in Seq(Part)
  BY DEF Halfway
<1>3. i \in 1 .. n + 1 /\ i + 2 \in 1 .. n + 1
  BY <1>2
<1>4. PICK f \in P, rest \in P : f = from[i] /\ rest = from[i + 2]
  BY <1>3, FromIsLine
<1>5. PICK part \in Part : part = IF char \in Letters THEN Segment(char, <<>>) ELSE Text(<<"%", char>>)
  <2>1. <<>> \in Seq(Glyph)
    OBVIOUS
  <2>2. "%" \in Glyph
    BY LettersAre
  <2>3. <<"%", char>> \in P
    BY <2>2, TwoAre
  <2>4. char \in Letters => Segment(char, <<>>) \in Part
    BY <2>1 DEF Part, Segment, Line
  <2>5. Text(<<"%", char>>) \in Part
    BY <2>3 DEF Part, Text, Segment
  <2>6. QED
    BY <2>4, <2>5
<1>6. Piece(input.row, values, part) = Replaced(char, values)
  <2>1. \A l \in Letters : l # "text"
    BY DEF Letters
  <2>2. QED
    BY <1>5, <2>1 DEF Piece, Replaced, Text, Segment
<1>7. Joins(f, Piece(input.row, values, part), rest)
  <2>1. from[i] = Replaced(format[i + 1], values) \o from[i + 2]
    <3>1. i # n /\ ~(i > n) /\ i \in 1 .. Len(format) + 1
      BY <1>3
    <3>2. QED
      BY <1>2, <3>1 DEF FromIs
  <2>2. QED
    BY <1>1, <1>4, <1>6, <2>1 DEF Joins
<1>8. PICK new : new = Append(parts, part)
  OBVIOUS
<1>9. new \in Seq(Part) /\ Joins(from[1], Shown(input.row, values, new), rest)
  <2>1. Joins(from[1], Shown(input.row, values, parts), f)
    BY <1>4 DEF Halfway
  <2>2. QED
    BY <1>2, <1>7, <1>8, <2>1, ShownJoins
<1>10. Turn("format", Compiler("percent", parts), char) = Compiler("none", new)
  <2>1. CASE char \in Letters
    BY <1>5, <1>8, <2>1, CompilesLetter
  <2>2. CASE char \notin Letters
    BY <1>5, <1>8, <2>2, CompilesOther
  <2>3. QED
    BY <2>1, <2>2
<1>11. Halfway(format, values, from, i + 1, "none", new)
  <2>1. (i + 1) + 1 = i + 2
    OBVIOUS
  <2>2. QED
    BY <1>4, <1>9, <2>1 DEF Halfway
<1>12. QED
  BY <1>1, <1>10, <1>11 DEF IsHalfway

\* a % waits,
LEMMA BeforePercent ==
  ASSUME NEW format, NEW values, NEW from, NEW i \in Nat, NEW last \in {"none", "text"},
         format[i + 1] = "%", NEW parts, Halfway(format, values, from, i, last, parts)
  PROVE  IsHalfway(format, values, from, i + 1, Turn("format", Compiler(last, parts), format[i + 1]))
<1>1. Turn("format", Compiler(last, parts), "%") = Compiler("percent", parts)
  BY CompilesPercent
<1>2. PICK j \in Nat : j = i + 1 /\ j # 0
  <2>1. i + 1 \in Nat /\ i + 1 # 0
    OBVIOUS
  <2>2. QED
    BY <2>1
<1>3. parts \in Seq(Part) /\ Joins(from[1], Shown(input.row, values, parts), from[j])
  BY <1>2 DEF Halfway
<1>4. Halfway(format, values, from, j, "percent", parts)
  BY <1>2, <1>3 DEF Halfway
<1>5. QED
  BY <1>1, <1>2, <1>4 DEF IsHalfway

\* and all else is text.
LEMMA BehindText ==
  ASSUME NEW P, P = Line, NEW format \in P, NEW values, ValuesAre(values), NEW n \in Nat, n = Len(format),
         NEW from, FromIs(from, format, values), NEW i \in Nat, i < n,
         NEW last \in {"none", "text"}, format[i + 1] # "%",
         NEW parts, Halfway(format, values, from, i, last, parts)
  PROVE  IsHalfway(format, values, from, i + 1, Turn("format", Compiler(last, parts), format[i + 1]))
<1>1. PICK char \in Glyph : char = format[i + 1] /\ char # "%"
  <2>1. i + 1 \in 1 .. n
    OBVIOUS
  <2>2. QED
    BY <2>1, ElementOfSeq DEF Line
<1>2. parts \in Seq(Part)
  BY DEF Halfway
<1>3. i + 1 \in 1 .. n + 1 /\ i + 2 \in 1 .. n + 1
  OBVIOUS
<1>4. PICK f \in P, rest \in P : f = from[i + 1] /\ rest = from[i + 2]
  BY <1>3, FromIsLine
<1>5. PICK one \in P : one = <<char>>
  <2>1. <<char>> \in P
    BY OneIs
  <2>2. QED
    BY <2>1
<1>6. Joins(f, one, rest)
  <2>1. from[i + 1] = <<format[i + 1]>> \o from[(i + 1) + 1]
    <3>1. ~(i + 1 > n) /\ i + 1 \in 1 .. Len(format) + 1
      BY <1>3
    <3>2. QED
      BY <3>1 DEF FromIs
  <2>2. (i + 1) + 1 = i + 2
    OBVIOUS
  <2>3. QED
    BY <1>1, <1>4, <1>5, <2>1, <2>2 DEF Joins
<1>7. Joins(from[1], Shown(input.row, values, parts), f)
  BY <1>4 DEF Halfway
<1>8. ASSUME NEW new \in Seq(Part), Turn("format", Compiler(last, parts), char) = Compiler("text", new),
             Joins(from[1], Shown(input.row, values, new), rest),
             Len(new) # 0, new[Len(new)].field = "text"
      PROVE  IsHalfway(format, values, from, i + 1, Turn("format", Compiler(last, parts), char))
  <2>1. (i + 1) + 1 = i + 2
    OBVIOUS
  <2>2. Halfway(format, values, from, i + 1, "text", new)
    BY <1>4, <1>8, <2>1 DEF Halfway
  <2>3. QED
    BY <1>8, <2>2 DEF IsHalfway
<1>9. CASE last = "none"
  <2>1. PICK part \in Part : part = Text(<<char>>)
    <3>1. Text(one) \in Part
      BY DEF Part, Text, Segment
    <3>2. QED
      BY <1>5, <3>1
  <2>2. part.field = "text" /\ Piece(input.row, values, part) = one
    BY <1>5, <2>1 DEF Piece, Text, Segment
  <2>3. PICK new : new = Append(parts, part)
    OBVIOUS
  <2>4. new \in Seq(Part) /\ Joins(from[1], Shown(input.row, values, new), rest)
    BY <1>2, <1>6, <1>7, <2>2, <2>3, ShownJoins
  <2>5. Turn("format", Compiler("none", parts), char) = Compiler("text", new)
    BY <1>1, <2>1, <2>3, CompilesText
  <2>6. Len(new) # 0 /\ new[Len(new)] = part
    BY <1>2, <2>3, AppendProperties, LenProperties
  <2>7. QED
    BY <1>1, <1>8, <1>9, <2>2, <2>4, <2>5, <2>6
<1>10. CASE last = "text"
  <2>1. PICK m \in Nat : m = Len(parts) /\ m # 0 /\ parts[m].field = "text"
    BY <1>2, <1>10, LenProperties DEF Halfway
  <2>2. PICK new : new = Longer(parts, m, char)
    OBVIOUS
  <2>3. /\ new \in Seq(Part) /\ Len(new) = m /\ new[m].field = "text"
        /\ Joins(Shown(input.row, values, new), Shown(input.row, values, parts), <<char>>)
    <3>1. PICK row : row = input.row
      OBVIOUS
    <3>2. m = Len(parts) /\ m # 0 /\ parts[m].field = "text"
      BY <2>1
    <3>3. /\ new \in Seq(Part) /\ Len(new) = m /\ new[m].field = "text"
          /\ Joins(Shown(row, values, new), Shown(row, values, parts), <<char>>)
      BY ONLY P = Line, ValuesAre(values), char \in Glyph, <1>2, <2>2, <3>2, ShownLonger
    <3>4. QED
      BY <3>1, <3>3
  <2>4. Turn("format", Compiler("text", parts), char) = Compiler("text", new)
    BY <1>1, <1>2, <2>1, <2>2, CompilesMore
  <2>5. Joins(from[1], Shown(input.row, values, new), rest)
    <3>1. PICK s \in P : s = Shown(input.row, values, parts)
      <4>1. PICK part \in Part : part = Text(one)
        <5>1. Text(one) \in Part
          BY DEF Part, Text, Segment
        <5>2. QED
          BY <5>1
      <4>2. QED
        BY <1>2, ShownGrows
    <3>2. PICK more : more = Shown(input.row, values, new)
      OBVIOUS
    <3>3. P = Seq(Glyph) /\ Joins(from[1], s, f) /\ Joins(more, s, one)
      BY <1>5, <1>7, <2>3, <3>1, <3>2 DEF Line
    <3>4. Joins(from[1], more, rest)
      BY <1>6, <3>3, JoinsOn
    <3>5. QED
      BY <3>2, <3>4
  <2>6. QED
    BY <1>1, <1>8, <1>10, <2>1, <2>3, <2>4, <2>5
<1>11. QED
  BY <1>9, <1>10

\* The compiler is in the middle of the format after each character.
LEMMA RunsHalfway ==
  ASSUME NEW P, P = Line, NEW format \in P, NEW values, ValuesAre(values), NEW n \in Nat, n = Len(format),
         NEW from, FromIs(from, format, values),
         NEW h, Runs(h, "format", Compiler("none", <<>>), format, n)
  PROVE  IsHalfway(format, values, from, n, h[n])
<1> DEFINE T == {i \in Nat : i <= n => IsHalfway(format, values, from, i, h[i])}
<1>1. ASSUME NEW j \in Nat, \A k \in Nat : k < j => k \in T PROVE j \in T
  <2>1. SUFFICES ASSUME j <= n PROVE IsHalfway(format, values, from, j, h[j])
    OBVIOUS
  <2>2. CASE j = 0
    <3>1. PICK parts : parts = <<>>
      OBVIOUS
    <3>2. parts \in Seq(Part)
      BY <3>1
    <3>3. Joins(from[1], Shown(input.row, values, parts), from[1])
      <4>1. Shown(input.row, values, parts) = <<>>
        <5>1. [k \in DOMAIN parts |-> Piece(input.row, values, parts[k])] = <<>>
          BY <3>1
        <5>2. FlattenSeq(<<>>) = <<>>
          BY DEF FlattenSeq
        <5>3. QED
          BY <5>1, <5>2 DEF Shown
      <4>2. from[1] \in Seq(Glyph)
        <5>1. 1 \in 1 .. n + 1
          OBVIOUS
        <5>2. QED
          BY <5>1, FromIsLine DEF Line
      <4>3. <<>> \o from[1] = from[1]
        BY <4>2, ConcatEmptySeq
      <4>4. QED
        BY <4>1, <4>3 DEF Joins
    <3>4. Halfway(format, values, from, 0, "none", parts)
      BY <3>2, <3>3 DEF Halfway
    <3>5. h[0] = Compiler("none", parts)
      BY <3>1 DEF Runs
    <3>6. QED
      BY <2>2, <3>4, <3>5 DEF IsHalfway
  <2>3. CASE j # 0
    <3>1. PICK i \in Nat : j = i + 1 /\ i < n /\ i < j
      <4>1. j - 1 \in Nat /\ j = (j - 1) + 1 /\ j - 1 < n /\ j - 1 < j
        BY <2>1, <2>3
      <4>2. QED
        BY <4>1
    <3>2. IsHalfway(format, values, from, i, h[i])
      BY <1>1, <3>1
    <3>3. PICK last, parts : h[i] = Compiler(last, parts) /\ Halfway(format, values, from, i, last, parts)
      BY <3>2 DEF IsHalfway
    <3>4. h[j] = Turn("format", Compiler(last, parts), format[i + 1])
      <4>1. j \in 1 .. n /\ j - 1 = i
        BY <2>1, <3>1
      <4>2. QED
        BY <3>1, <3>3, <4>1 DEF Runs
    <3>5. last \in {"none", "text", "percent"}
      BY <3>3 DEF Halfway
    <3>6. CASE last = "percent"
      <4>1. Halfway(format, values, from, i, "percent", parts)
        BY <3>3, <3>6
      <4>2. IsHalfway(format, values, from, i + 1, Turn("format", Compiler("percent", parts), format[i + 1]))
        BY <3>1, <4>1, BehindPercent
      <4>3. QED
        BY <3>1, <3>4, <3>6, <4>2
    <3>7. CASE last # "percent" /\ format[i + 1] = "%"
      <4>1. IsHalfway(format, values, from, i + 1, Turn("format", Compiler(last, parts), format[i + 1]))
        BY <3>3, <3>5, <3>7, BeforePercent
      <4>2. QED
        BY <3>1, <3>4, <4>1
    <3>8. CASE last # "percent" /\ format[i + 1] # "%"
      <4>1. IsHalfway(format, values, from, i + 1, Turn("format", Compiler(last, parts), format[i + 1]))
        BY <3>1, <3>3, <3>5, <3>8, BehindText
      <4>2. QED
        BY <3>1, <3>4, <4>1
    <3>9. QED
      BY <3>6, <3>7, <3>8
  <2>4. QED
    BY <2>2, <2>3
<1>2. \A i \in Nat : i \in T
  <2> HIDE DEF T
  <2>1. QED
    BY <1>1, NumbersUpTo
<1>3. QED
  BY <1>2

\* A row that is printed is what the format means.
LEMMA LineIsMeant ==
  ASSUME NEW P, P = Line, NEW format \in P, NEW values, ValuesAre(values)
  PROVE  /\ PrintToStream(input.row, Precompile(format), values) = Meant(format, values)
         /\ Meant(format, values) \in P
<1>1. PICK n \in Nat : n = Len(format)
  BY LenProperties DEF Line
<1>2. PICK from : FromIs(from, format, values) /\ Meant(format, values) = from[1] \o <<EndOfLine>>
  BY MeantIs DEF Line
<1>3. PICK h : Runs(h, "format", Compiler("none", <<>>), format, n)
               /\ Read("format", Compiler("none", <<>>), format) = h[n]
  BY <1>1, ReadIs DEF Line
<1>4. PICK last, parts : h[n] = Compiler(last, parts) /\ Halfway(format, values, from, n, last, parts)
  BY <1>1, <1>2, <1>3, RunsHalfway DEF IsHalfway
<1>5. PICK s \in P : s = Shown(input.row, values, parts)
  <2>1. PICK part \in Part : TRUE
    <3>1. <<>> \in Seq(Glyph)
      OBVIOUS
    <3>2. Text(<<>>) \in Part
      BY <3>1 DEF Part, Text, Segment, Line
    <3>3. QED
      BY <3>2
  <2>2. parts \in Seq(Part)
    BY <1>4 DEF Halfway
  <2>3. QED
    BY <2>1, <2>2, ShownGrows
<1>6. Joins(from[1], s, <<>>)
  <2>1. CASE last = "percent"
    <3>1. n # 0 /\ format[n] = "%" /\ Joins(from[1], s, from[n])
      BY <1>4, <1>5, <2>1 DEF Halfway
    <3>2. from[n] = <<>>
      <4>1. n \in 1 .. Len(format) + 1 /\ ~(n > Len(format))
        BY <1>1, <3>1
      <4>2. QED
        BY <1>1, <1>2, <3>1, <4>1 DEF FromIs
    <3>3. QED
      BY <3>1, <3>2
  <2>2. CASE last # "percent"
    <3>1. Joins(from[1], s, from[n + 1])
      BY <1>4, <1>5, <2>2 DEF Halfway
    <3>2. from[n + 1] = <<>>
      <4>1. n + 1 \in 1 .. Len(format) + 1 /\ n + 1 > Len(format)
        BY <1>1
      <4>2. QED
        BY <1>2, <4>1 DEF FromIs
    <3>3. QED
      BY <3>1, <3>2
  <2>3. QED
    BY <2>1, <2>2
<1>7. from[1] = s
  <2>1. s \o <<>> = s
    BY ConcatEmptySeq DEF Line
  <2>2. QED
    BY <1>6, <2>1 DEF Joins
<1>8. Precompile(format) = parts
  BY <1>3, <1>4, PrecompileIs DEF Compiler
<1>9. PrintToStream(input.row, parts, values) = s \o <<EndOfLine>>
  BY <1>5 DEF PrintToStream, Shown, Piece
<1>10. s \o <<EndOfLine>> \in P
  <2>1. EndOfLine \in Glyph
    BY DEF Glyph, Signs
  <2>2. <<EndOfLine>> \in P
    BY <2>1, OneIs
  <2>3. QED
    BY <2>2, ConcatProperties DEF Line
<1>11. QED
  BY <1>2, <1>7, <1>8, <1>9, <1>10

\* Formats made of letters are made of characters.
LEMMA ListedIsLine ==
  ASSUME NEW P, P = Line, NEW ls \in Seq(Letters), NEW separator \in Glyph
  PROVE  Listed(ls, separator) \in P
<1>1. PICK first \in BOOLEAN : first <=> Len(ls) = 0
  OBVIOUS
<1>2. "p" \in Letters
  BY DEF Letters
<1>3. QED
  BY <1>1, <1>2, ListedGrows

\* The format is, whoever gives it.
LEMMA FormatIsLine ==
  ASSUME NEW P, P = Line, input \in Inputs
  PROVE  Format \in P
<1>1. input.format \in P
  <2>1. input.format \in Seq(STRING)
    BY InputAssumption
  <2>2. STRING \subseteq Glyph
    BY DEF Glyph
  <2>3. QED
    BY <2>1, <2>2, SeqMonotonic DEF Line
<1>2. "," \in Glyph /\ "|" \in Glyph
  BY LettersAre
<1>3. Listed(CsvLetters, ",") \in P
  <2>1. CsvLetters \in Seq(Letters)
    BY DEF CsvLetters, Letters
  <2>2. QED
    BY <1>2, <2>1, ListedIsLine
<1>4. Listed(<<"p", "s", "m">>, "|") \in P
  <2>1. <<"p", "s", "m">> \in Seq(Letters)
    BY DEF Letters
  <2>2. QED
    BY <1>2, <2>1, ListedIsLine
<1>5. Listed(<<"p">> \o FlattenSeq([k \in DOMAIN Switches |->
                IF Switches[k] \in input.row.switches THEN <<Switches[k]>> ELSE <<>>]), "|") \in P
  <2>1. PICK Q : Q = Seq(Letters)
    OBVIOUS
  <2>2. PICK s : s = [k \in DOMAIN Switches |->
                IF Switches[k] \in input.row.switches THEN <<Switches[k]>> ELSE <<>>]
    OBVIOUS
  <2>3. s \in Seq(Q)
    <3>1. Switches \in Seq(Letters) /\ Len(Switches) \in Nat /\ DOMAIN Switches = 1 .. Len(Switches)
      BY DEF Switches, Letters
    <3>2. \A k \in DOMAIN Switches : Switches[k] \in Letters
      BY <3>1, ElementOfSeq
    <3>3. \A k \in DOMAIN Switches : <<Switches[k]>> \in Q
      BY <2>1, <3>2
    <3>4. <<>> \in Q
      BY <2>1
    <3>5. QED
      BY <2>2, <3>1, <3>3, <3>4
  <2>4. FlattenSeq(s) \in Q
    BY <2>1, <2>3, FlattenType
  <2>5. <<"p">> \in Q
    BY <2>1 DEF Letters
  <2>6. <<"p">> \o FlattenSeq(s) \in Seq(Letters)
    BY <2>1, <2>4, <2>5, ConcatProperties
  <2>7. QED
    BY <1>2, <2>2, <2>6, ListedIsLine
<1>6. DefaultFormat(input.row) \in P
  BY <1>3, <1>4, <1>5 DEF DefaultFormat
<1>7. QED
  BY <1>1, <1>6 DEF Format

-----------------------------------------------------------------------------
(* The columns of a file. *)

\* The letter of a permission.
PermLetter(mode, bit) ==
  IF bit \in mode.special THEN SpecialLetter(bit, bit \in mode.perm)
  ELSE IF bit \in mode.perm THEN Rwx[bit] ELSE "-"

\* The ten letters of a mode.
LEMMA ModeTextIs ==
  ASSUME NEW mode
  PROVE  /\ ModeText(mode)[1] = TypeLetter[mode.type]
         /\ \A bit \in 1 .. 9 : ModeText(mode)[bit + 1] = PermLetter(mode, bit)
         /\ Len(ModeText(mode)) = 10
         /\ ModeText(mode) = [k \in 1 .. 10 |-> ModeText(mode)[k]]
<1>1. PICK letters : letters = [bit \in 1 .. 9 |-> PermLetter(mode, bit)]
  OBVIOUS
<1>2. PICK V : V = {letters[bit] : bit \in 1 .. 9} \cup {TypeLetter[mode.type]}
  OBVIOUS
<1>3. letters \in Seq(V) /\ Len(letters) = 9
  BY <1>1, <1>2
<1>4. PICK one \in Seq(V) : one = <<TypeLetter[mode.type]>> /\ Len(one) = 1 /\ one[1] = TypeLetter[mode.type]
  <2>1. PICK x \in V : x = TypeLetter[mode.type]
    BY <1>2
  <2>2. <<x>> \in Seq(V) /\ Len(<<x>>) = 1 /\ <<x>>[1] = x
    OBVIOUS
  <2>3. QED
    BY <2>1, <2>2
<1>5. PICK all : all = one \o letters
  OBVIOUS
<1>6. all \in Seq(V) /\ Len(all) = 10 /\ \A k \in 1 .. 10 : all[k] = IF k <= 1 THEN one[k] ELSE letters[k - 1]
  <2>1. /\ one \o letters \in Seq(V)
        /\ Len(one \o letters) = Len(one) + Len(letters)
        /\ \A k \in 1 .. Len(one) + Len(letters) :
             (one \o letters)[k] = IF k <= Len(one) THEN one[k] ELSE letters[k - Len(one)]
    BY <1>3, <1>4, ConcatProperties
  <2>2. Len(one) + Len(letters) = 10
    BY <1>3, <1>4
  <2>3. QED
    BY <1>4, <1>5, <2>1, <2>2
<1>7. ModeText(mode) = all
  BY <1>1, <1>4, <1>5 DEF ModeText, PermLetter
<1>8. all[1] = TypeLetter[mode.type]
  BY <1>4, <1>6
<1>9. \A bit \in 1 .. 9 : all[bit + 1] = PermLetter(mode, bit)
  <2>1. SUFFICES ASSUME NEW bit \in 1 .. 9 PROVE all[bit + 1] = PermLetter(mode, bit)
    OBVIOUS
  <2>2. PICK k \in 1 .. 10 : k = bit + 1 /\ ~(k <= 1) /\ k - 1 = bit
    <3>1. bit + 1 \in 1 .. 10 /\ ~(bit + 1 <= 1) /\ (bit + 1) - 1 = bit
      OBVIOUS
    <3>2. QED
      BY <3>1
  <2>3. all[k] = letters[k - 1]
    BY <1>6, <2>2
  <2>4. QED
    BY <1>1, <2>2, <2>3
<1>10. all = [k \in 1 .. 10 |-> all[k]]
  BY <1>6
<1>11. QED
  BY <1>6, <1>7, <1>8, <1>9, <1>10

\* A mode is read back from its text.
LEMMA ModeIsRead ==
  ASSUME NEW e \in Entry
  PROVE  ReadMode(ModeText(e.mode)) = e.mode
<1>1. PICK mode : mode = e.mode
  OBVIOUS
<1>2. /\ mode = [type |-> mode.type, perm |-> mode.perm, special |-> mode.special]
      /\ mode.type \in DOMAIN TypeLetter /\ mode.perm \in SUBSET (1 .. 9) /\ mode.special \in SUBSET {3, 6, 9}
  BY <1>1 DEF Entry
<1>3. PICK text : text = ModeText(mode)
  OBVIOUS
<1>4. text[1] = TypeLetter[mode.type] /\ \A bit \in 1 .. 9 : text[bit + 1] = PermLetter(mode, bit)
  BY <1>3, ModeTextIs
<1>5. (CHOOSE type \in DOMAIN TypeLetter : TypeLetter[type] = text[1]) = mode.type
  BY <1>2, <1>4 DEF TypeLetter
<1>6. \A bit \in 1 .. 9 : Rwx[bit] \in {"r", "w", "x"}
  BY DEF Rwx
<1>7. \A bit \in 1 .. 9 : PermLetter(mode, bit) \in {"r", "w", "x", "s", "t"} <=> bit \in mode.perm
  BY <1>6 DEF PermLetter, SpecialLetter
<1>8. \A bit \in 1 .. 9 : PermLetter(mode, bit) \in {"s", "S", "t", "T"} <=> bit \in mode.special
  BY <1>6 DEF PermLetter, SpecialLetter
<1>9. {bit \in 1 .. 9 : text[bit + 1] \in {"r", "w", "x", "s", "t"}} = mode.perm
  BY <1>2, <1>4, <1>7
<1>10. {bit \in 1 .. 9 : text[bit + 1] \in {"s", "S", "t", "T"}} = mode.special
  BY <1>2, <1>4, <1>8
<1>11. QED
  BY <1>1, <1>2, <1>3, <1>5, <1>9, <1>10 DEF ReadMode

\* A number is a text,
LEMMA NumberIs ==
  ASSUME NEW P, P = Line, NEW n \in Nat
  PROVE  Number(n) \in P
<1>1. ToString(n) \in Glyph
  BY DEF Glyph
<1>2. QED
  BY <1>1, OneIs DEF Number

\* so is a mode,
LEMMA ModeIsLine ==
  ASSUME NEW P, P = Line, NEW e \in Entry
  PROVE  ModeText(e.mode) \in P
<1>1. \A k \in 1 .. 10 : ModeText(e.mode)[k] \in Glyph
  <2>1. ModeGlyphs \subseteq Glyph
    BY DEF Glyph
  <2>2. PICK M : M = {ModeText(e.mode)[k] : k \in 1 .. 10}
    OBVIOUS
  <2>3. M \in {{ModeText(f.mode)[k] : k \in 1 .. 10} : f \in Entry}
    BY <2>2
  <2>4. M \subseteq Glyph
    BY <2>1, <2>3 DEF ModeGlyphs
  <2>5. QED
    BY <2>2, <2>4
<1>2. PICK text : text = ModeText(e.mode)
  OBVIOUS
<1>3. text = [k \in 1 .. 10 |-> text[k]]
  BY <1>2, ModeTextIs
<1>4. text \in Seq(Glyph)
  BY <1>1, <1>2, <1>3
<1>5. QED
  BY <1>2, <1>4 DEF Line

\* the attributes,
LEMMA FlagsAreLine ==
  ASSUME NEW P, P = Line, NEW e \in Entry
  PROVE  FlagsText(e.attr.flags) \in P
<1>1. \A k \in 1 .. 16 : FlagsText(e.attr.flags)[k] \in Glyph
  <2>1. FlagGlyphs \subseteq Glyph
    BY DEF Glyph
  <2>2. PICK M : M = {FlagsText(e.attr.flags)[k] : k \in 1 .. 16}
    OBVIOUS
  <2>3. M \in {{FlagsText(f.attr.flags)[k] : k \in 1 .. 16} : f \in Entry}
    BY <2>2
  <2>4. M \subseteq Glyph
    BY <2>1, <2>3 DEF FlagGlyphs
  <2>5. QED
    BY <2>2, <2>4
<1>2. PICK text : text = FlagsText(e.attr.flags)
  OBVIOUS
<1>3. text = [k \in 1 .. 16 |-> text[k]]
  BY <1>2 DEF FlagsText
<1>4. text \in Seq(Glyph)
  BY <1>1, <1>2, <1>3
<1>5. QED
  BY <1>2, <1>4 DEF Line

\* the name of a type,
LEMMA TypeIsLine ==
  ASSUME NEW P, P = Line, NEW e \in Entry
  PROVE  <<TypeName[e.mode.type]>> \in P
<1>1. TypeName[e.mode.type] \in Glyph
  BY DEF Glyph
<1>2. QED
  BY <1>1, OneIs

\* the octal permissions,
LEMMA OctalIsLine ==
  ASSUME NEW P, P = Line, NEW e \in Entry
  PROVE  OctalText(e.mode) \in P
<1>1. \A k \in 1 .. 2 : OctalText(e.mode)[k] \in Glyph
  <2>1. OctalGlyphs \subseteq Glyph
    BY DEF Glyph
  <2>2. PICK M : M = {OctalText(e.mode)[k] : k \in 1 .. 2}
    OBVIOUS
  <2>3. M \in {{OctalText(f.mode)[k] : k \in 1 .. 2} : f \in Entry}
    BY <2>2
  <2>4. M \subseteq Glyph
    BY <2>1, <2>3 DEF OctalGlyphs
  <2>5. QED
    BY <2>2, <2>4
<1>2. PICK n : n = ToString(MapThenSumSet(LAMBDA bit : 2 ^ (9 - bit), e.mode.perm))
  OBVIOUS
<1>3. OctalText(e.mode) = <<"0", n>>
  <2>1. "0" \in {"0", n} /\ n \in {"0", n}
    OBVIOUS
  <2>2. Append(<<"0">>, n) = <<"0", n>>
    BY <2>1, PairIs
  <2>3. <<"0">> \o <<n>> = Append(<<"0">>, n)
    BY AppendIsConcat
  <2>4. QED
    BY <1>2, <2>2, <2>3 DEF OctalText, Number
<1>4. <<"0", n>>[1] = "0" /\ <<"0", n>>[2] = n
  OBVIOUS
<1>5. "0" \in Glyph /\ n \in Glyph
  BY <1>1, <1>3, <1>4
<1>6. <<"0", n>> \in P
  BY <1>5, TwoAre
<1>7. QED
  BY <1>3, <1>6

\* and an owner.
LEMMA OwnerIsLine ==
  ASSUME NEW P, P = Line, NEW id \in Nat, NEW name \in STRING
  PROVE  OwnerText(id, name) \in P
<1>1. PICK number \in P : number = Number(id)
  BY NumberIs
<1>2. name \in Glyph /\ "(" \in Glyph /\ ")" \in Glyph
  BY DEF Glyph, Signs
<1>3. PICK a \in P : a = <<name, "(">>
  <2>1. <<name, "(">> \in P
    BY <1>2, TwoAre
  <2>2. QED
    BY <2>1
<1>4. PICK b \in P : b = <<")">>
  <2>1. <<")">> \in P
    BY <1>2, OneIs
  <2>2. QED
    BY <2>1
<1>5. PICK c \in P : c = a \o number
  BY ConcatProperties DEF Line
<1>6. c \o b \in P
  BY ConcatProperties DEF Line
<1>7. QED
  BY <1>1, <1>3, <1>4, <1>5, <1>6 DEF OwnerText

\* What the system says of an owner is a text.
LEMMA AnswersAreLines ==
  ASSUME NEW P, P = Line, input \in Inputs, NEW id \in Nat, id \in DOMAIN input.names
  PROVE  Answers(id) \subseteq P
<1>1. input.names[id] \in STRING
  BY InputAssumption
<1>2. id \in DOMAIN input.renamed => input.renamed[id] \in STRING
  BY InputAssumption
<1>3. OwnerText(id, input.names[id]) \in P
  BY <1>1, OwnerIsLine
<1>4. id \in DOMAIN input.renamed => OwnerText(id, input.renamed[id]) \in P
  BY <1>2, OwnerIsLine
<1>5. QED
  BY <1>3, <1>4 DEF Answers

\* The text and the cache after a look-up.
LEMMA NameIsText ==
  ASSUME NEW P, P = Line, input \in Inputs, NamesInv, NEW cache, OwnersInv(cache),
         NEW id \in Nat, id \in DOMAIN input.names,
         NEW asked, asked = NameOf(cache, names, id)
  PROVE  OwnersInv(asked.cache) /\ asked.text \in P
<1>1. OwnerText(id, names[id]) \in Answers(id)
  BY DEF NamesInv
<1>2. Knows(cache, id, asked)
  BY <1>1, NameIsKnown
<1>3. OwnersInv(asked.cache) /\ Cached(asked.cache, id) # {} /\ TextOf(asked.cache, id) = asked.text
  BY <1>2 DEF Knows
<1>4. asked.text \in Answers(id)
  BY <1>3, CachedIsAnswer
<1>5. QED
  BY <1>3, <1>4, AnswersAreLines

\* The text of the attributes.
LEMMA XattrIsText ==
  ASSUME NEW P, P = Line, NEW cache, NEW e \in Entry
  PROVE  XattrOf(cache, e.dev, e.attr).text \in P
<1>1. \A hint \in Hints : <<hint>> \in P
  <2>1. \A hint \in Hints : hint \in Glyph
    BY DEF Glyph
  <2>2. QED
    BY <2>1, OneIs
<1>2. <<"[unsupported]">> \in P /\ <<"[access_denied]">> \in P /\ <<"[ioctl_error]">> \in P
  BY <1>1 DEF Hints
<1>3. PICK flags \in P : flags = FlagsText(e.attr.flags)
  BY FlagsAreLine
<1>4. XattrOf(cache, e.dev, e.attr).text \in
        {<<"[unsupported]">>, <<"[access_denied]">>, <<"[ioctl_error]">>, flags}
  BY <1>3 DEF XattrOf
<1>5. QED
  BY <1>2, <1>4

\* Every column of a row is a text.
LEMMA ValuesAreTexts ==
  ASSUME NEW P, P = Line, RunTypes, NamesInv, OwnersInv(caches.uid), OwnersInv(caches.gid),
         NEW e \in Entry, e \in Given,
         NEW asked, asked = Asked(e), NEW values, values = Values(e, asked)
  PROVE  /\ OwnersInv(asked.g.cache) /\ ValuesAre(values) /\ values.o = ModeText(e.mode)
<1>1. input \in Inputs
  BY DEF RunTypes
<1>2. e.uid \in Nat /\ e.gid \in Nat /\ e.uid \in DOMAIN input.names /\ e.gid \in DOMAIN input.names
  BY <1>1, InputAssumption DEF Entry, Given
<1>3. PICK empty \in P : empty = <<>>
  <2>1. <<>> \in Seq(Glyph)
    OBVIOUS
  <2>2. QED
    BY <2>1 DEF Line
<1>4. asked.u.text \in P
  <2>1. CASE "u" \in Columns
    <3>1. PICK a : a = asked.u
      OBVIOUS
    <3>2. a = NameOf(caches.uid, names, e.uid)
      BY <2>1, <3>1 DEF Asked
    <3>3. a.text \in P
      BY <1>1, <1>2, <3>2, NameIsText
    <3>4. QED
      BY <3>1, <3>3
  <2>2. CASE "u" \notin Columns
    BY <1>3, <2>2 DEF Asked
  <2>3. QED
    BY <2>1, <2>2
<1>5. OwnersInv(asked.g.cache) /\ asked.g.text \in P
  <2>1. CASE "g" \in Columns
    <3>1. PICK a : a = asked.g
      OBVIOUS
    <3>2. a = NameOf(caches.gid, names, e.gid)
      BY <2>1, <3>1 DEF Asked
    <3>3. OwnersInv(a.cache) /\ a.text \in P
      BY <1>1, <1>2, <3>2, NameIsText
    <3>4. QED
      BY <3>1, <3>3
  <2>2. CASE "g" \notin Columns
    <3>1. asked.g.text = <<>> /\ asked.g.cache = caches.gid
      BY <2>2 DEF Asked
    <3>2. QED
      BY <1>3, <3>1
  <2>3. QED
    BY <2>1, <2>2
<1>6. asked.X.text \in P
  <2>1. CASE "X" \in Columns
    <3>1. asked.X = XattrOf(caches.dev, e.dev, e.attr)
      BY <2>1 DEF Asked
    <3>2. QED
      BY <3>1, XattrIsText
  <2>2. CASE "X" \notin Columns
    BY <1>3, <2>2 DEF Asked
  <2>3. QED
    BY <2>1, <2>2
<1>7. e.path \in P
  <2>1. e.path \in Seq(STRING) /\ STRING \subseteq Glyph
    BY DEF Entry, Glyph
  <2>2. QED
    BY <2>1, SeqMonotonic DEF Line
<1>8. /\ Number(e.size) \in P /\ Number(e.uid) \in P /\ Number(e.gid) \in P /\ Number(e.mtime) \in P
      /\ Number(e.atime) \in P /\ Number(e.ctime) \in P /\ Number(e.ino) \in P
  <2>1. /\ e.size \in Nat /\ e.uid \in Nat /\ e.gid \in Nat /\ e.mtime \in Nat
        /\ e.atime \in Nat /\ e.ctime \in Nat /\ e.ino \in Nat
    BY DEF Entry
  <2>2. QED
    BY <2>1, NumberIs
<1>9. <<TypeName[e.mode.type]>> \in P /\ ModeText(e.mode) \in P /\ OctalText(e.mode) \in P
  BY TypeIsLine, ModeIsLine, OctalIsLine
<1>10. PICK type, mode, octal :
         type = <<TypeName[e.mode.type]>> /\ mode = ModeText(e.mode) /\ octal = OctalText(e.mode)
  OBVIOUS
<1>11. values = [p |-> e.path, s |-> Number(e.size), U |-> Number(e.uid), G |-> Number(e.gid),
                 u |-> asked.u.text, g |-> asked.g.text, X |-> asked.X.text,
                 m |-> Number(e.mtime), a |-> Number(e.atime), c |-> Number(e.ctime), i |-> Number(e.ino),
                 t |-> type, o |-> mode, O |-> octal]
  BY <1>10 DEF Values
<1>12. \A l \in Letters : values[l] \in P
  BY <1>4, <1>5, <1>6, <1>7, <1>8, <1>9, <1>10, <1>11 DEF Letters
<1>13. ValuesAre(values)
  BY <1>12 DEF ValuesAre
<1>14. values.o = ModeText(e.mode)
  BY <1>10, <1>11
<1>15. QED
  BY <1>5, <1>13, <1>14

-----------------------------------------------------------------------------
(* The output as it is read. *)

\* The columns of the rows that the default CSV has.
RowColumns == [k \in DOMAIN printed |-> Cells(CsvLetters, printed[k].values)]

\* A row is what its format means, and its mode that of its file.
RowIs(row) ==
  /\ row.line = Meant(Format, row.values) /\ row.line \in Line
  /\ row.values.o = ModeText(row.entry.mode)

\* What a reader makes of the output so far, when it is the default CSV.
OutputIsRead ==
  input.row.csv /\ input.format = <<>> =>
    Read("csv", Reader(FALSE, FALSE, <<>>, <<>>, <<>>), Output)
      = Reader(FALSE, FALSE, <<>>, <<>>, RowColumns)

\* The format as it was compiled, the cache of groups, and the rows so far.
ReadInv ==
  /\ compiled = Precompile(Format) /\ OwnersInv(caches.gid)
  /\ \A k \in DOMAIN printed : RowIs(printed[k])
  /\ OutputIsRead

\* At the start nothing is printed.
LEMMA InitReadInv ==
  ASSUME Init
  PROVE  ReadInv
<1>1. /\ printed = <<>> /\ compiled = Precompile(Format)
      /\ caches = [uid |-> NoOwners, gid |-> NoOwners, dev |-> NoStatus]
  BY DEF Init
<1>2. OwnersInv(caches.gid)
  <2>1. caches.gid = [bucket \in 0 .. Buckets - 1 |-> <<>>]
    BY <1>1 DEF NoOwners
  <2>2. <<>> \in Seq(Owner) /\ DOMAIN <<>> = {}
    OBVIOUS
  <2>3. QED
    BY <2>1, <2>2 DEF OwnersInv
<1>3. DOMAIN printed = {} /\ RowColumns = <<>> /\ Output = <<>>
  <2>1. FlattenSeq(<<>>) = <<>>
    BY DEF FlattenSeq
  <2>2. [k \in DOMAIN printed |-> printed[k].line] = <<>>
    BY <1>1
  <2>3. QED
    BY <1>1, <2>1, <2>2 DEF RowColumns, Output
<1>4. PICK start : start = Reader(FALSE, FALSE, <<>>, <<>>, <<>>)
  OBVIOUS
<1>5. Read("csv", start, <<>>) = start
  BY ReadNothing
<1>6. OutputIsRead
  BY <1>3, <1>4, <1>5 DEF OutputIsRead
<1>7. QED
  BY <1>1, <1>2, <1>3, <1>6 DEF ReadInv

\* A line more.
LEMMA OutputGrows ==
  ASSUME NEW P, P = Line, NEW n \in Nat, DOMAIN printed = 1 .. n, \A k \in 1 .. n : printed[k].line \in P,
         NEW line \in P, DOMAIN printed' = 1 .. n + 1, printed'[n + 1].line = line,
         \A k \in 1 .. n : printed'[k] = printed[k]
  PROVE  Output \in P /\ Joins(Output', Output, line)
<1>1. PICK s \in [1 .. n -> P] : s = [k \in 1 .. n |-> printed[k].line]
  OBVIOUS
<1>2. \A k \in 1 .. n + 1 : k = n + 1 \/ k \in 1 .. n
  OBVIOUS
<1>3. PICK t \in [1 .. n + 1 -> P] : t = [k \in 1 .. n + 1 |-> printed'[k].line]
  BY <1>2
<1>4. Alike(t, s, n)
  BY <1>1, <1>3 DEF Alike
<1>5. P = Seq(Glyph)
  BY DEF Line
<1>6. FlattenSeq(s) \in P /\ Joins(FlattenSeq(t), FlattenSeq(s), t[n + 1])
  BY <1>4, <1>5, FlattenMore
<1>7. Output = FlattenSeq(s) /\ Output' = FlattenSeq(t)
  BY <1>1, <1>3 DEF Output
<1>8. t[n + 1] = line
  BY <1>3
<1>9. QED
  BY <1>6, <1>7, <1>8

\* The writer prints a row.
LEMMA PrintRowReads ==
  ASSUME RunTypes, ShownInv, ReadInv, \A e \in Range(Rows) : e \in Given, PrintRow
  PROVE  ReadInv'
<1>1. PICK e : e = Head(tasks)
  OBVIOUS
<1>2. e \in Entry /\ e \in Given
  BY <1>1, NextIsGiven
<1>3. PICK asked : asked = Asked(e)
  OBVIOUS
<1>4. PICK values : values = Values(e, asked)
  OBVIOUS
<1>5. PICK line : line = PrintToStream(input.row, compiled, values)
  OBVIOUS
<1>6. PICK x : x = [entry |-> e, values |-> values, line |-> line]
  OBVIOUS
<1>7. /\ caches' = [uid |-> asked.u.cache, gid |-> asked.g.cache, dev |-> asked.X.cache]
      /\ printed' = Append(printed, x) /\ UNCHANGED <<input, compiled, names>>
  BY <1>1, <1>3, <1>4, <1>5, <1>6 DEF PrintRow, cfgVars
<1>8. PICK P : P = Line
  OBVIOUS
<1>9. OwnersInv(asked.g.cache) /\ ValuesAre(values) /\ values.o = ModeText(e.mode)
  <2>1. NamesInv /\ OwnersInv(caches.uid) /\ OwnersInv(caches.gid)
    BY DEF ShownInv, ReadInv
  <2>2. QED
    BY <1>2, <1>3, <1>4, <1>8, <2>1, ValuesAreTexts
<1>10. OwnersInv(caches.gid)'
  <2>1. caches'.gid = asked.g.cache /\ \A id : Answers(id)' = Answers(id)
    BY <1>7 DEF Answers
  <2>2. QED
    BY <1>7, <1>9, <2>1 DEF OwnersInv, Owner
<1>11. PICK format \in P : format = Format
  <2>1. input \in Inputs
    BY DEF RunTypes
  <2>2. QED
    BY <1>8, <2>1, FormatIsLine
<1>12. compiled = Precompile(format) /\ Format' = format /\ compiled' = Precompile(Format')
  BY <1>7, <1>11 DEF ReadInv, Format
<1>13. line = Meant(format, values) /\ line \in P
  BY <1>5, <1>8, <1>9, <1>11, <1>12, LineIsMeant
<1>14. PICK n \in Nat : n = Len(printed) /\ DOMAIN printed = 1 .. n
  BY OneMore DEF RunTypes
<1>15. /\ DOMAIN printed' = 1 .. n + 1 /\ printed'[n + 1] = x
       /\ \A k \in 1 .. n : printed'[k] = printed[k]
  BY <1>7, <1>14, OneMore DEF RunTypes
<1>16. \A k \in 1 .. n + 1 : k = n + 1 \/ k \in 1 .. n
  OBVIOUS
<1>17. x.entry = e /\ x.values = values /\ x.line = line
  BY <1>6
<1>18. \A row : RowIs(row)' <=> RowIs(row)
  <2>1. \A v : Meant(format, v)' = Meant(format, v)
    BY <1>7 DEF Meant
  <2>2. QED
    BY <1>11, <1>12, <2>1 DEF RowIs
<1>19. RowIs(x)
  BY <1>8, <1>9, <1>11, <1>13, <1>17 DEF RowIs
<1>20. (\A k \in DOMAIN printed : RowIs(printed[k]))'
  BY <1>14, <1>15, <1>16, <1>18, <1>19 DEF ReadInv
<1>21. OutputIsRead'
  <2>1. SUFFICES ASSUME input.row.csv, input.format = <<>>
                 PROVE  Read("csv", Reader(FALSE, FALSE, <<>>, <<>>, <<>>), Output')
                          = Reader(FALSE, FALSE, <<>>, <<>>, RowColumns')
    BY <1>7 DEF OutputIsRead
  <2>2. PICK start : start = Reader(FALSE, FALSE, <<>>, <<>>, <<>>)
    OBVIOUS
  <2>3. PICK cells : cells = RowColumns
    OBVIOUS
  <2>4. Read("csv", start, Output) = Reader(FALSE, FALSE, <<>>, <<>>, cells)
    BY <2>1, <2>2, <2>3 DEF ReadInv, OutputIsRead
  <2>5. PICK text \in P : text = Output /\ Joins(Output', text, line)
    <3>1. \A k \in 1 .. n : printed[k].line \in P
      BY <1>8, <1>14 DEF ReadInv, RowIs
    <3>2. printed'[n + 1].line = line
      BY <1>15, <1>17
    <3>3. QED
      BY <1>8, <1>13, <1>14, <1>15, <3>1, <3>2, OutputGrows
  <2>6. Read("csv", start, text \o line) = Read("csv", Read("csv", start, text), line)
    BY <1>8, <1>13, ReadOn DEF Line
  <2>7. PICK row : row = input.row /\ row.csv = TRUE
    BY <2>1
  <2>8. line = PrintToStream(row, Precompile(Listed(CsvLetters, ",")), values)
    BY <1>5, <1>11, <1>12, <2>1, <2>7 DEF Format, DefaultFormat
  <2>9. Read("csv", Reader(FALSE, FALSE, <<>>, <<>>, cells), line)
          = Reader(FALSE, FALSE, <<>>, <<>>, Append(cells, Cells(CsvLetters, values)))
    BY <1>9, <2>7, <2>8, RowIsRead
  <2>10. RowColumns' = Append(cells, Cells(CsvLetters, values))
    <3>1. cells = [k \in 1 .. n |-> Cells(CsvLetters, printed[k].values)]
      BY <1>14, <2>3 DEF RowColumns
    <3>2. PICK new : new = Cells(CsvLetters, values)
      OBVIOUS
    <3>3. PICK V : V = {cells[k] : k \in 1 .. n} \cup {new}
      OBVIOUS
    <3>4. cells \in Seq(V) /\ Len(cells) = n
      BY <3>1, <3>3
    <3>5. PICK more : more = Append(cells, new)
      OBVIOUS
    <3>6. DOMAIN more = 1 .. n + 1 /\ more[n + 1] = new /\ \A k \in 1 .. n : more[k] = cells[k]
      BY <3>3, <3>4, <3>5, OneBehind
    <3>7. more = [k \in 1 .. n + 1 |-> more[k]]
      <4>1. more \in Seq(V) /\ Len(more) = n + 1
        BY <3>3, <3>4, <3>5, OneBehind
      <4>2. QED
        BY <4>1
    <3>8. PICK grown : grown = [k \in 1 .. n + 1 |-> Cells(CsvLetters, printed'[k].values)]
      OBVIOUS
    <3>9. \A k \in 1 .. n + 1 : grown[k] = more[k]
      BY <1>15, <1>16, <1>17, <3>1, <3>2, <3>6, <3>8
    <3>10. grown = more
      BY <3>7, <3>8, <3>9
    <3>11. RowColumns' = grown
      BY <1>15, <3>8 DEF RowColumns, Cells
    <3>12. QED
      BY <3>2, <3>5, <3>10, <3>11
  <2>11. Output' = text \o line
    BY <2>5 DEF Joins
  <2>12. QED
    BY <2>2, <2>4, <2>5, <2>6, <2>9, <2>10, <2>11
<1>22. QED
  BY <1>10, <1>12, <1>20, <1>21 DEF ReadInv

\* A user is renamed, or nothing changes that a row depends on.
LEMMA ReadStays ==
  ASSUME ReadInv, UNCHANGED <<input, compiled, caches, printed>>
  PROVE  ReadInv'
<1>1. Format' = Format /\ Output' = Output /\ RowColumns' = RowColumns
  BY DEF Format, Output, RowColumns, Cells
<1>2. \A id : Answers(id)' = Answers(id)
  BY DEF Answers
<1>3. OwnersInv(caches.gid)'
  BY <1>2 DEF ReadInv, OwnersInv, Owner
<1>4. \A row : RowIs(row)' <=> RowIs(row)
  <2>1. \A values : Meant(Format, values)' = Meant(Format, values)
    BY <1>1 DEF Meant
  <2>2. QED
    BY <1>1, <2>1 DEF RowIs
<1>5. (\A k \in DOMAIN printed : RowIs(printed[k]))'
  BY <1>4 DEF ReadInv
<1>6. OutputIsRead'
  BY <1>1 DEF ReadInv, OutputIsRead
<1>7. QED
  BY <1>1, <1>3, <1>5, <1>6 DEF ReadInv

\* Every step keeps the rows as they are read.
LEMMA NextKeepsRead ==
  ASSUME RunTypes, ShownInv, ReadInv, \A e \in Range(Rows) : e \in Given, [Next]_vars
  PROVE  ReadInv'
<1>1. CASE UNCHANGED <<cfgVars, printVars>>
  <2>1. UNCHANGED <<input, compiled, caches, printed>>
    BY <1>1 DEF cfgVars, printVars
  <2>2. QED
    BY <2>1, ReadStays
<1>2. CASE PrintRow
  BY <1>2, PrintRowReads
<1>3. CASE \E id \in DOMAIN input.renamed : Rename(id)
  <2>1. UNCHANGED <<input, compiled, caches, printed>>
    BY <1>3 DEF Rename, cfgVars
  <2>2. QED
    BY <2>1, ReadStays
<1>4. QED
  BY <1>1, <1>2, <1>3, RowsAreTheWriters

\* What holds of the rows is what RowsReadBack says.
LEMMA ReadTells ==
  ASSUME RunTypes, ReadInv
  PROVE  RowsReadBack
<1>1. PICK n \in Nat : n = Len(printed) /\ DOMAIN printed = 1 .. n
  BY OneMore DEF RunTypes
<1>2. printed # <<>> => Last(printed).line = Meant(Format, Last(printed).values)
  <2>1. SUFFICES ASSUME printed # <<>>
                 PROVE  Last(printed).line = Meant(Format, Last(printed).values)
    OBVIOUS
  <2>2. n # 0
    BY <1>1, <2>1, EmptySeq DEF RunTypes, IsSeq
  <2>3. n \in DOMAIN printed /\ Last(printed) = printed[n]
    BY <1>1, <2>2 DEF Last
  <2>4. RowIs(Last(printed))
    BY <2>3 DEF ReadInv
  <2>5. QED
    BY <2>4 DEF RowIs
<1>3. input.row.csv /\ input.format = <<>> =>
        ReadCsv(Output) = [k \in DOMAIN printed |->
                            [j \in DOMAIN CsvLetters |-> printed[k].values[CsvLetters[j]]]]
  <2>1. SUFFICES ASSUME input.row.csv, input.format = <<>>
                 PROVE  ReadCsv(Output) = RowColumns
    BY DEF RowColumns, Cells
  <2>2. PICK r : r = Reader(FALSE, FALSE, <<>>, <<>>, RowColumns)
    OBVIOUS
  <2>3. Read("csv", Reader(FALSE, FALSE, <<>>, <<>>, <<>>), Output) = r
    BY <2>1, <2>2 DEF ReadInv, OutputIsRead
  <2>4. r.records = RowColumns
    BY <2>2 DEF Reader
  <2>5. QED
    BY <2>3, <2>4, ReadCsvIs
<1>4. \A k \in DOMAIN printed : ReadMode(printed[k].values.o) = printed[k].entry.mode
  <2>1. SUFFICES ASSUME NEW k \in DOMAIN printed
                 PROVE  ReadMode(printed[k].values.o) = printed[k].entry.mode
    OBVIOUS
  <2>2. printed[k].entry \in Entry /\ printed[k].values.o = ModeText(printed[k].entry.mode)
    BY DEF RunTypes, ReadInv, RowIs
  <2>3. QED
    BY <2>2, ModeIsRead
<1>5. QED
  BY <1>2, <1>3, <1>4 DEF RowsReadBack

\* For every input, every format and whatever characters the paths have: each row,
\* when it is printed, is what its format means, and a reader of CSV gets back the
\* rows of the default CSV, with every bit of their modes (precompile_format,
\* print_csv_field, print_to_stream, format_mode_str).
THEOREM RowsAreRead == Spec => []RowsReadBack
<1>1. Init => ShownInv /\ ReadInv
  BY InitShownInv, InitReadInv
<1>2. RunInv /\ ListInv /\ ShownInv /\ ReadInv /\ [Next]_vars => ShownInv' /\ ReadInv'
  BY NextKeepsShown, NextKeepsRead DEF RunInv, ListInv, OnceInv
<1>3. RunInv /\ ReadInv => RowsReadBack
  BY ReadTells DEF RunInv
<1>4. QED
  BY <1>1, <1>2, <1>3, RunIsListed, PTL DEF Spec

=============================================================================
