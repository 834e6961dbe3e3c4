---------------------------- MODULE ChannelProofs ----------------------------
(***************************************************************************)
(* Theorems about the two ways a command or a message travels between two  *)
(* threads: the three pipes of a worker (Framing) and the queue of an IPC  *)
(* thread (MsgQueue).  ctrl and the queue implement Channel, what arrives  *)
(* on data are whole batches in order, and the drain of cmd counts every   *)
(* SCAN the worker never got.                                              *)
(***************************************************************************)
EXTENDS MsgQueue, Framing, SumProofs

-----------------------------------------------------------------------------
(* Messages as cells *)

Cell == Messages \X Nat

\* The cells of messages one after the other.
Pieces(q) == [k \in DOMAIN q |-> Cells(q[k], 1, Size[q[k]])]
Stream(q) == FlattenSeq(Pieces(q))

\* Three sequences of cells, one after the other.
LEMMA CellsAssociate ==
  \A a, b, c \in Seq(Cell) : (a \o b) \o c = a \o (b \o c) /\ a \o (b \o c) = (a \o b) \o c
BY ConcatAssociative

\* Sizes are those of headers at least.
LEMMA SizeIs ==
  /\ \A m \in Messages : Size[m] \in Nat /\ Size[m] >= HeaderSize /\ PipeOf[m] \in Pipes
  /\ HeaderSize \in Nat /\ HeaderSize >= 2 /\ PipeBuf \in Nat /\ Room \in Nat /\ PipeBuf <= Room
BY SizeAssumption

\* A run of cells of one message.
LEMMA CellsAre ==
  ASSUME NEW m \in Messages, NEW a \in Nat, NEW b \in Nat, a <= b + 1
  PROVE  /\ Cells(m, a, b) \in Seq(Cell) /\ Len(Cells(m, a, b)) = b - a + 1
         /\ \A i \in 1 .. b - a + 1 : Cells(m, a, b)[i] = <<m, a + i - 1>>
<1>1. PICK n \in Nat : n = b - a + 1
  OBVIOUS
<1>2. \A i \in 1 .. n : <<m, a + i - 1>> \in Cell
  BY DEF Cell
<1>3. Cells(m, a, b) = [i \in 1 .. n |-> <<m, a + i - 1>>]
  BY <1>1 DEF Cells
<1>4. [i \in 1 .. n |-> <<m, a + i - 1>>] \in Seq(Cell)
  BY <1>2
<1>5. Len([i \in 1 .. n |-> <<m, a + i - 1>>]) = n
  BY <1>1
<1>6. QED
  BY <1>1, <1>3, <1>4, <1>5

\* The first k cells of a message.
LEMMA FirstCells ==
  ASSUME NEW m \in Messages, NEW k \in Nat
  PROVE  /\ Cells(m, 1, k) \in Seq(Cell) /\ Len(Cells(m, 1, k)) = k
         /\ \A i \in 1 .. k : Cells(m, 1, k)[i] = <<m, i>>
<1>1. 1 \in Nat /\ 1 <= k + 1 /\ k - 1 + 1 = k /\ \A i \in 1 .. k : 1 + i - 1 = i
  OBVIOUS
<1>2. /\ Cells(m, 1, k) \in Seq(Cell) /\ Len(Cells(m, 1, k)) = k - 1 + 1
      /\ \A i \in 1 .. k - 1 + 1 : Cells(m, 1, k)[i] = <<m, 1 + i - 1>>
  BY <1>1, CellsAre
<1>3. QED
  BY <1>1, <1>2

\* All cells of a message: as many as its size, two at least.
LEMMA WholeCells ==
  ASSUME NEW m \in Messages
  PROVE  /\ Cells(m, 1, Size[m]) \in Seq(Cell) /\ Len(Cells(m, 1, Size[m])) = Size[m]
         /\ Size[m] \in Nat /\ Size[m] >= 2
<1>1. Size[m] \in Nat /\ Size[m] >= 2
  BY SizeIs
<1>2. QED
  BY <1>1, FirstCells

\* Two of them that meet are one.
LEMMA CellsJoin ==
  ASSUME NEW m \in Messages, NEW a \in Nat, NEW b \in Nat, NEW c \in Nat, a <= b + 1, b <= c
  PROVE  Cells(m, a, b) \o Cells(m, b + 1, c) = Cells(m, a, c)
<1>1. PICK x \in Seq(Cell) : x = Cells(m, a, b)
  BY CellsAre
<1>2. PICK y \in Seq(Cell) : y = Cells(m, b + 1, c)
  BY CellsAre
<1>3. PICK z \in Seq(Cell) : z = Cells(m, a, c)
  BY CellsAre
<1>4. PICK k \in Nat : k = b - a + 1
  OBVIOUS
<1>5. PICK n \in Nat : n = c - b
  OBVIOUS
<1>6. Len(x) = k /\ \A i \in 1 .. k : x[i] = <<m, a + i - 1>>
  BY <1>1, <1>4, CellsAre
<1>7. Len(y) = n /\ \A i \in 1 .. n : y[i] = <<m, b + 1 + i - 1>>
  <2>1. c - (b + 1) + 1 = n
    BY <1>5
  <2>2. b + 1 \in Nat /\ b + 1 <= c + 1
    OBVIOUS
  <2>3. Len(y) = c - (b + 1) + 1 /\ \A i \in 1 .. c - (b + 1) + 1 : y[i] = <<m, b + 1 + i - 1>>
    BY <1>2, <2>2, CellsAre
  <2>4. QED
    BY <2>1, <2>3
<1>8. Len(z) = k + n /\ \A i \in 1 .. k + n : z[i] = <<m, a + i - 1>>
  <2>1. c - a + 1 = k + n /\ a <= c + 1
    BY <1>4, <1>5
  <2>2. Len(z) = c - a + 1 /\ \A i \in 1 .. c - a + 1 : z[i] = <<m, a + i - 1>>
    BY <1>3, <2>1, CellsAre
  <2>3. QED
    BY <2>1, <2>2
<1>9. x \o y \in Seq(Cell) /\ Len(x \o y) = k + n
      /\ \A i \in 1 .. k + n : (x \o y)[i] = IF i <= k THEN x[i] ELSE y[i - k]
  <2>1. x \o y \in Seq(Cell) /\ Len(x \o y) = Len(x) + Len(y)
    BY ConcatProperties
  <2>2. \A i \in 1 .. Len(x) + Len(y) : (x \o y)[i] = IF i <= Len(x) THEN x[i] ELSE y[i - Len(x)]
    BY ConcatProperties
  <2>3. Len(x) = k /\ Len(y) = n
    BY <1>6, <1>7
  <2>4. QED
    BY <2>1, <2>2, <2>3
<1>10. \A i \in 1 .. k + n : (x \o y)[i] = z[i]
  <2>1. SUFFICES ASSUME NEW i \in 1 .. k + n PROVE (x \o y)[i] = z[i]
    OBVIOUS
  <2>2. CASE i <= k
    <3>1. (x \o y)[i] = x[i]
      BY <1>9, <2>2
    <3>2. x[i] = <<m, a + i - 1>> /\ z[i] = <<m, a + i - 1>>
      BY <1>6, <1>8, <2>2
    <3>3. QED
      BY <3>1, <3>2
  <2>3. CASE ~(i <= k)
    <3>1. i - k \in 1 .. n /\ b + 1 + (i - k) - 1 = a + i - 1
      BY <1>4, <2>3
    <3>2. y[i - k] = <<m, a + i - 1>>
      BY <1>7, <3>1
    <3>3. QED
      BY <1>8, <1>9, <2>3, <3>2
  <2>4. QED
    BY <2>2, <2>3
<1>11. x \o y = z
  BY <1>8, <1>9, <1>10, SeqEqual
<1>12. QED
  BY <1>1, <1>2, <1>3, <1>11

\* The pieces of a sequence of messages.
LEMMA PiecesAre ==
  ASSUME NEW q \in Seq(Messages)
  PROVE  /\ Pieces(q) \in Seq(Seq(Cell)) /\ Len(Pieces(q)) = Len(q)
         /\ \A k \in 1 .. Len(q) : Pieces(q)[k] = Cells(q[k], 1, Size[q[k]])
<1>1. PICK n \in Nat : n = Len(q) /\ DOMAIN q = 1 .. n
  BY LenProperties
<1>2. \A k \in 1 .. n : Cells(q[k], 1, Size[q[k]]) \in Seq(Cell)
  <2>1. SUFFICES ASSUME NEW k \in 1 .. n PROVE Cells(q[k], 1, Size[q[k]]) \in Seq(Cell)
    OBVIOUS
  <2>2. PICK m \in Messages : m = q[k]
    BY <1>1, ElementOfSeq
  <2>3. Size[m] \in Nat /\ 1 <= Size[m] + 1
    BY SizeIs
  <2>4. QED
    BY <2>2, <2>3, CellsAre
<1>3. Pieces(q) = [k \in 1 .. n |-> Cells(q[k], 1, Size[q[k]])]
  BY <1>1 DEF Pieces
<1>4. QED
  BY <1>1, <1>2, <1>3

\* A stream is a sequence of cells.
LEMMA StreamType == \A q \in Seq(Messages) : Stream(q) \in Seq(Cell)
BY PiecesAre, FlattenType DEF Stream

\* No messages, no cells.
LEMMA StreamEmpty == Stream(<<>>) = <<>>
<1>1. PICK q \in Seq(Messages) : q = <<>>
  BY EmptySeq
<1>2. Pieces(q) = <<>>
  <2>1. Pieces(q) \in Seq(Seq(Cell)) /\ Len(Pieces(q)) = 0
    BY <1>1, PiecesAre, EmptySeq
  <2>2. QED
    BY <2>1, EmptySeq
<1>3. FlattenSeq(<<>>) = <<>>
  BY DEF FlattenSeq
<1>4. QED
  BY <1>1, <1>2, <1>3 DEF Stream

\* One more message at the end.
LEMMA StreamAppend ==
  ASSUME NEW q \in Seq(Messages), NEW m \in Messages
  PROVE  Stream(Append(q, m)) = Stream(q) \o Cells(m, 1, Size[m])
<1>1. PICK n \in Nat : n = Len(q)
  BY LenProperties
<1>2. PICK r \in Seq(Messages) : r = Append(q, m)
  BY AppendProperties
<1>3. Len(r) = n + 1 /\ r[n + 1] = m /\ \A k \in 1 .. n : r[k] = q[k]
  BY <1>1, <1>2, AppendProperties
<1>4. PICK t \in Seq(Cell) : t = Cells(m, 1, Size[m])
  BY WholeCells
<1>5. PICK s \in Seq(Seq(Cell)) : s = Pieces(q)
  BY PiecesAre
<1>6. PICK u \in Seq(Seq(Cell)) : u = Pieces(r)
  BY PiecesAre
<1>7. PICK v \in Seq(Seq(Cell)) : v = Append(s, t)
  BY AppendProperties
<1>8. Len(s) = n /\ \A k \in 1 .. n : s[k] = Cells(q[k], 1, Size[q[k]])
  BY <1>1, <1>5, PiecesAre
<1>9. Len(u) = n + 1 /\ \A k \in 1 .. n + 1 : u[k] = Cells(r[k], 1, Size[r[k]])
  BY <1>3, <1>6, PiecesAre
<1>10. Len(v) = n + 1 /\ v[n + 1] = t /\ \A k \in 1 .. n : v[k] = s[k]
  BY <1>7, <1>8, AppendProperties
<1>11. \A k \in 1 .. n + 1 : u[k] = v[k]
  <2>1. SUFFICES ASSUME NEW k \in 1 .. n + 1 PROVE u[k] = v[k]
    OBVIOUS
  <2>2. k = n + 1 \/ k \in 1 .. n
    OBVIOUS
  <2>3. u[k] = Cells(r[k], 1, Size[r[k]])
    BY <1>9
  <2>4. CASE k = n + 1
    BY <1>3, <1>4, <1>10, <2>3, <2>4
  <2>5. CASE k \in 1 .. n
    BY <1>3, <1>8, <1>10, <2>3, <2>5
  <2>6. QED
    BY <2>2, <2>4, <2>5
<1>12. u = v
  BY <1>9, <1>10, <1>11, SeqEqual
<1>13. FlattenSeq(v) = FlattenSeq(s) \o t
  BY <1>7, FlattenAppend
<1>14. QED
  BY <1>2, <1>4, <1>5, <1>6, <1>12, <1>13 DEF Stream

\* One more in front.
LEMMA StreamFront ==
  ASSUME NEW x \in Messages, NEW q \in Seq(Messages)
  PROVE  Stream(<<x>> \o q) = Cells(x, 1, Size[x]) \o Stream(q)
<1>1. PICK f \in Seq(Messages) : f = Append(<<>>, x)
  <2>1. <<>> \in Seq(Messages)
    OBVIOUS
  <2>2. QED
    BY <2>1, AppendProperties
<1>2. PICK t \in Seq(Cell) : t = Cells(x, 1, Size[x])
  BY WholeCells
<1> DEFINE T == {n \in Nat : \A r \in Seq(Messages) : Len(r) = n => Stream(f \o r) = t \o Stream(r)}
<1>3. Stream(f) = t
  <2>1. f = Append(<<>>, x)
    BY <1>1
  <2>2. <<>> \in Seq(Messages)
    OBVIOUS
  <2>3. Stream(f) = Stream(<<>>) \o t
    BY <1>2, <2>1, <2>2, StreamAppend
  <2>4. QED
    BY <2>3, StreamEmpty, ConcatEmptySeq
<1>4. ASSUME NEW m \in Nat, \A k \in Nat : k < m => k \in T PROVE m \in T
  <2>1. SUFFICES ASSUME NEW r \in Seq(Messages), Len(r) = m
                 PROVE  Stream(f \o r) = t \o Stream(r)
    OBVIOUS
  <2>2. CASE r = <<>>
    <3>1. f \o r = f /\ t \o Stream(r) = t
      BY <2>2, StreamEmpty, ConcatEmptySeq
    <3>2. QED
      BY <1>3, <3>1
  <2>3. CASE r # <<>>
    <3>1. PICK h \in Seq(Messages), y \in Messages : r = Append(h, y)
      BY <2>3, SequenceEmptyOrAppend
    <3>2. PICK k \in Nat : k = Len(h)
      BY LenProperties
    <3>3. k < m
      BY <2>1, <3>1, <3>2, AppendProperties
    <3>4. Stream(f \o h) = t \o Stream(h)
      BY <1>4, <3>2, <3>3
    <3>5. PICK g \in Seq(Messages) : g = f \o h
      BY ConcatProperties
    <3>6. f \o r = Append(g, y)
      BY <3>1, <3>5
    <3>7. PICK c \in Seq(Cell) : c = Cells(y, 1, Size[y])
      BY WholeCells
    <3>8. Stream(Append(g, y)) = Stream(g) \o c /\ Stream(r) = Stream(h) \o c
      BY <3>1, <3>7, StreamAppend
    <3>9. PICK d \in Seq(Cell) : d = Stream(h)
      BY StreamType
    <3>10. (t \o d) \o c = t \o (d \o c)
      BY CellsAssociate, Zenon
    <3>11. QED
      BY <3>4, <3>5, <3>6, <3>8, <3>9, <3>10
  <2>4. QED
    BY <2>2, <2>3
<1>5. \A n \in Nat : n \in T
  <2> HIDE DEF T
  <2>1. QED
    BY <1>4, NumbersUpTo
<1>6. Len(q) \in Nat
  BY LenProperties
<1>7. f = <<x>>
  BY <1>1
<1>8. QED
  BY <1>2, <1>5, <1>6, <1>7

\* A message has two cells at least.
LEMMA StreamLength == \A q \in Seq(Messages) : Len(Stream(q)) \in Nat /\ Len(Stream(q)) >= 2 * Len(q)
<1> DEFINE T == {n \in Nat : \A r \in Seq(Messages) :
                              Len(r) = n => Len(Stream(r)) \in Nat /\ Len(Stream(r)) >= 2 * n}
<1>1. ASSUME NEW m \in Nat, \A k \in Nat : k < m => k \in T PROVE m \in T
  <2>1. SUFFICES ASSUME NEW r \in Seq(Messages), Len(r) = m
                 PROVE  Len(Stream(r)) \in Nat /\ Len(Stream(r)) >= 2 * m
    OBVIOUS
  <2>2. CASE r = <<>>
    BY <2>1, <2>2, StreamEmpty, EmptySeq
  <2>3. CASE r # <<>>
    <3>1. PICK h \in Seq(Messages), y \in Messages : r = Append(h, y)
      BY <2>3, SequenceEmptyOrAppend
    <3>2. PICK k \in Nat : k = Len(h)
      BY LenProperties
    <3>3. m = k + 1
      BY <2>1, <3>1, <3>2, AppendProperties
    <3>4. Len(Stream(h)) \in Nat /\ Len(Stream(h)) >= 2 * k
      BY <1>1, <3>2, <3>3
    <3>5. PICK c \in Seq(Cell) : c = Cells(y, 1, Size[y])
      BY WholeCells
    <3>6. Len(c) = Size[y] /\ Size[y] \in Nat /\ Size[y] >= 2
      BY <3>5, WholeCells
    <3>7. PICK d \in Seq(Cell) : d = Stream(h)
      BY StreamType
    <3>8. Stream(r) = d \o c
      BY <3>1, <3>5, <3>7, StreamAppend
    <3>9. Len(d \o c) = Len(d) + Len(c)
      BY ConcatProperties
    <3>10. QED
      BY <3>3, <3>4, <3>6, <3>7, <3>8, <3>9
  <2>4. QED
    BY <2>2, <2>3
<1>2. \A n \in Nat : n \in T
  <2> HIDE DEF T
  <2>1. QED
    BY <1>1, NumbersUpTo
<1>3. \A q \in Seq(Messages) : Len(q) \in Nat
  BY LenProperties
<1>4. QED
  BY <1>2, <1>3

-----------------------------------------------------------------------------
(* What a reader finds at the front of a pipe *)

\* The part of a message that is in the pipe while its writer is in ipc_send.
IsBeginning(b) ==
  \/ b = <<>>
  \/ \E m \in Messages, k \in Nat : k < Size[m] /\ b = Cells(m, 1, k)

\* The cells are those of message x, as far as it goes.
Starts(u, x) == \A i \in 1 .. Len(u) : i <= Size[x] => u[i] = <<x, i>>

\* The beginning of a message is a sequence of cells.
LEMMA BeginningType == \A b : IsBeginning(b) => b \in Seq(Cell)
<1>1. <<>> \in Seq(Cell)
  OBVIOUS
<1>2. QED
  BY <1>1, FirstCells DEF IsBeginning

\* An empty run starts like any message, a message and what follows like it.
LEMMA StartsWhole ==
  ASSUME NEW x \in Messages, NEW v \in Seq(Cell), NEW u, u = Cells(x, 1, Size[x]) \o v
  PROVE  u \in Seq(Cell) /\ Starts(u, x) /\ Len(u) = Size[x] + Len(v)
<1>1. PICK t \in Seq(Cell) : t = Cells(x, 1, Size[x])
  BY WholeCells
<1>2. PICK n \in Nat : n = Size[x]
  BY SizeIs
<1>3. Len(t) = n /\ \A i \in 1 .. n : t[i] = <<x, i>>
  BY <1>1, <1>2, FirstCells
<1>4. u \in Seq(Cell) /\ Len(u) = n + Len(v)
  BY <1>1, <1>3, ConcatProperties
<1>5. \A i \in 1 .. n : u[i] = t[i]
  BY <1>1, <1>3, JoinedFirst
<1>6. Starts(u, x)
  <2>1. SUFFICES ASSUME NEW i \in 1 .. Len(u), i <= n PROVE u[i] = <<x, i>>
    BY <1>2 DEF Starts
  <2>2. i \in 1 .. n
    BY <2>1
  <2>3. QED
    BY <1>3, <1>5, <2>2
<1>7. QED
  BY <1>2, <1>4, <1>6

\* The first message of what was not read yet.
First(x, u, rest, b) ==
  /\ u \in Seq(Cell) /\ Starts(u, x)
  /\ Len(u) >= Size[x] =>
       \E more \in Seq(Messages) :
         rest = <<x>> \o more /\ u = Cells(x, 1, Size[x]) \o (Stream(more) \o b)

\* What is not empty starts with the first of the messages, or with the beginning.
LEMMA FirstMessage ==
  ASSUME NEW rest \in Seq(Messages), NEW b, IsBeginning(b),
         NEW u, u = Stream(rest) \o b, u # <<>>
  PROVE  \E x \in Messages : First(x, u, rest, b)
<1>1. b \in Seq(Cell)
  BY BeginningType
<1>2. CASE rest = <<>>
  <2>1. u = b
    BY <1>1, <1>2, StreamEmpty, ConcatEmptySeq
  <2>2. PICK m \in Messages, k \in Nat : k < Size[m] /\ b = Cells(m, 1, k)
    BY <2>1 DEF IsBeginning
  <2>3. Len(u) = k /\ \A i \in 1 .. k : u[i] = <<m, i>>
    BY <2>1, <2>2, FirstCells
  <2>4. Starts(u, m)
    BY <2>3 DEF Starts
  <2>5. ~(Len(u) >= Size[m])
    BY <2>2, <2>3, SizeIs
  <2>6. QED
    BY <1>1, <2>1, <2>4, <2>5 DEF First
<1>3. CASE rest # <<>>
  <2>1. PICK x \in Messages, more \in Seq(Messages) : rest = <<x>> \o more
    <3>1. Head(rest) \in Messages /\ Tail(rest) \in Seq(Messages)
      BY <1>3, HeadTailProperties
    <3>2. rest = <<Head(rest)>> \o Tail(rest)
      BY <1>3
    <3>3. QED
      BY <3>1, <3>2
  <2>2. PICK t \in Seq(Cell) : t = Cells(x, 1, Size[x])
    BY WholeCells
  <2>3. PICK d \in Seq(Cell) : d = Stream(more)
    BY StreamType
  <2>4. Stream(rest) = t \o d
    BY <2>1, <2>2, <2>3, StreamFront
  <2>5. (t \o d) \o b = t \o (d \o b)
    BY <1>1, CellsAssociate, Zenon
  <2>6. u = t \o (d \o b)
    BY <2>4, <2>5
  <2>7. d \o b \in Seq(Cell)
    BY <1>1, ConcatProperties
  <2>8. u \in Seq(Cell) /\ Starts(u, x)
    BY <2>2, <2>6, <2>7, StartsWhole
  <2>9. QED
    BY <2>1, <2>2, <2>3, <2>6, <2>8 DEF First
<1>4. QED
  BY <1>2, <1>3

\* What was read starts like the whole.
LEMMA StartsRead ==
  ASSUME NEW c \in Seq(Cell), NEW q \in Seq(Cell), NEW x \in Messages, Starts(c \o q, x)
  PROVE  Starts(c, x)
<1>1. PICK n \in Nat : n = Len(c)
  BY LenProperties
<1>2. PICK u : u = c \o q
  OBVIOUS
<1>3. \A i \in 1 .. n : u[i] = c[i]
  BY <1>1, <1>2, JoinedFirst
<1>4. Len(u) = n + Len(q) /\ Len(q) \in Nat
  BY <1>1, <1>2, ConcatProperties, LenProperties
<1>5. \A i \in 1 .. n : i \in 1 .. Len(u)
  BY <1>4
<1>6. \A i \in 1 .. n : i <= Size[x] => c[i] = <<x, i>>
  BY <1>2, <1>3, <1>5 DEF Starts
<1>7. QED
  BY <1>1, <1>6 DEF Starts

\* A part of a run.
LEMMA PartIs ==
  ASSUME NEW c \in Seq(Cell), NEW a \in Nat, NEW b \in Nat, 1 <= a, b <= Len(c)
  PROVE  SubSeq(c, a, b) \in Seq(Cell)
<1>1. Len(c) \in Nat /\ \A i \in 1 .. Len(c) : c[i] \in Cell
  BY LenProperties, ElementOfSeq
<1>2. a \in Int /\ b \in Int /\ \A i \in a .. b : i \in 1 .. Len(c)
  BY <1>1
<1>3. \A i \in a .. b : c[i] \in Cell
  BY <1>1, <1>2
<1>4. QED
  BY <1>2, <1>3, SubSeqProperties

\* So many cells that start like a message are its first.
LEMMA StartIsFirst ==
  ASSUME NEW c \in Seq(Cell), NEW x \in Messages, Starts(c, x), NEW k \in Nat,
         k <= Len(c), k <= Size[x]
  PROVE  SubSeq(c, 1, k) = Cells(x, 1, k)
<1>1. PICK d \in Seq(Cell) : d = Cells(x, 1, k)
  BY FirstCells
<1>2. Len(d) = k /\ \A i \in 1 .. k : d[i] = <<x, i>>
  BY <1>1, FirstCells
<1>3. Len(c) \in Nat /\ \A i \in 1 .. k : c[i] \in Cell
  <2>1. Len(c) \in Nat
    BY LenProperties
  <2>2. \A i \in 1 .. Len(c) : c[i] \in Cell
    BY ElementOfSeq
  <2>3. QED
    BY <2>1, <2>2
<1>4. PICK e \in Seq(Cell) : e = SubSeq(c, 1, k)
  <2>1. 1 \in Nat /\ 1 <= 1
    OBVIOUS
  <2>2. SubSeq(c, 1, k) \in Seq(Cell)
    BY <2>1, PartIs, Zenon
  <2>3. QED
    BY <2>2
<1>5. Len(e) = k /\ \A i \in 1 .. k : e[i] = c[i]
  <2>1. \A i \in 1 .. k - 1 + 1 : e[i] = c[1 + i - 1]
    BY <1>3, <1>4, SubSeqProperties
  <2>2. \A i \in 1 .. k : i \in 1 .. k - 1 + 1 /\ 1 + i - 1 = i
    OBVIOUS
  <2>3. Len(e) = IF 1 <= k THEN k - 1 + 1 ELSE 0
    BY <1>3, <1>4, SubSeqProperties
  <2>4. QED
    BY <2>1, <2>2, <2>3
<1>6. \A i \in 1 .. k : c[i] = <<x, i>>
  <2>1. Size[x] \in Nat
    BY SizeIs
  <2>2. \A i \in 1 .. k : i \in 1 .. Len(c) /\ i <= Size[x]
    BY <1>3, <2>1
  <2>3. QED
    BY <2>2 DEF Starts
<1>7. d = e
  BY <1>2, <1>5, <1>6, SeqEqual
<1>8. QED
  BY <1>1, <1>4, <1>7

\* A header is there, and it is that of the message.
LEMMA HeaderOf ==
  ASSUME NEW c \in Seq(Cell), NEW x \in Messages, Starts(c, x), HeaderSize <= Len(c)
  PROVE  /\ IsHeader(SubSeq(c, 1, HeaderSize)) /\ SubSeq(c, 1, HeaderSize) = Cells(x, 1, HeaderSize)
         /\ MessageOf(c) = x
<1>1. SubSeq(c, 1, HeaderSize) = Cells(x, 1, HeaderSize)
  BY StartIsFirst, SizeIs
<1>2. 1 \in 1 .. Len(c) /\ 1 <= Size[x]
  <2>1. Len(c) \in Nat /\ Size[x] \in Nat /\ Size[x] >= HeaderSize /\ HeaderSize \in Nat /\ HeaderSize >= 2
    BY SizeIs, LenProperties
  <2>2. QED
    BY <2>1
<1>3. c[1] = <<x, 1>>
  BY <1>2 DEF Starts
<1>4. MessageOf(c) = x
  <2>1. Head(c) = c[1]
    OBVIOUS
  <2>2. QED
    BY <1>3, <2>1 DEF MessageOf
<1>5. QED
  BY <1>1, <1>4 DEF IsHeader

\* A read moves cells and loses none.
LEMMA ReadKeeps ==
  ASSUME NEW c \in Seq(Cell), NEW q \in Seq(Cell), NEW n \in Nat, n <= Len(q)
  PROVE  /\ SubSeq(q, 1, n) \in Seq(Cell) /\ SubSeq(q, n + 1, Len(q)) \in Seq(Cell)
         /\ c \o SubSeq(q, 1, n) \in Seq(Cell)
         /\ Len(SubSeq(q, 1, n)) = n /\ Len(c \o SubSeq(q, 1, n)) = Len(c) + n
         /\ (c \o SubSeq(q, 1, n)) \o SubSeq(q, n + 1, Len(q)) = c \o q
         /\ SubSeq(q, 1, n) \o SubSeq(q, n + 1, Len(q)) = q
<1>1. PICK k \in Nat : k = Len(q)
  BY LenProperties
<1>2. \A i \in 1 .. k : q[i] \in Cell
  BY <1>1, ElementOfSeq
<1>3. PICK a \in Seq(Cell) : a = SubSeq(q, 1, n)
  <2>1. 1 \in Nat /\ 1 <= 1
    OBVIOUS
  <2>2. SubSeq(q, 1, n) \in Seq(Cell)
    BY <2>1, PartIs, Zenon
  <2>3. QED
    BY <2>2
<1>4. PICK b \in Seq(Cell) : b = SubSeq(q, n + 1, k)
  <2>1. n + 1 \in Nat /\ 1 <= n + 1 /\ k <= Len(q)
    BY <1>1
  <2>2. SubSeq(q, n + 1, k) \in Seq(Cell)
    BY <2>1, PartIs, Zenon
  <2>3. QED
    BY <2>2
<1>5. Len(a) = n
  <2>1. Len(a) = IF 1 <= n THEN n - 1 + 1 ELSE 0
    BY <1>1, <1>2, <1>3, SubSeqProperties
  <2>2. QED
    BY <2>1
<1>6. a \o b = q
  <2>1. 1 \in 1 .. Len(q) + 1 /\ n \in 1 - 1 .. Len(q) /\ k \in n .. Len(q)
    BY <1>1
  <2>2. SubSeq(q, 1, n) \o SubSeq(q, n + 1, k) = SubSeq(q, 1, k)
    BY <2>1, ConcatAdjacentSubSeq
  <2>3. SubSeq(q, 1, k) = q
    BY <1>1, SubSeqFull
  <2>4. QED
    BY <1>3, <1>4, <2>2, <2>3
<1>7. (c \o a) \o b = c \o (a \o b)
  BY CellsAssociate, Zenon
<1>8. c \o a \in Seq(Cell) /\ Len(c \o a) = Len(c) + n
  BY <1>5, ConcatProperties
<1>9. QED
  BY <1>1, <1>3, <1>4, <1>5, <1>6, <1>7, <1>8

\* Two ways to cut a run at the same place give the same parts.
LEMMA CutAlike ==
  ASSUME NEW c \in Seq(Cell), NEW q \in Seq(Cell), NEW d \in Seq(Cell), NEW v \in Seq(Cell),
         c \o q = d \o v, Len(c) = Len(d)
  PROVE  c = d /\ q = v
<1>1. PICK n \in Nat : n = Len(c) /\ n = Len(d)
  BY LenProperties
<1>2. PICK u : u = c \o q /\ u = d \o v
  OBVIOUS
<1>3. PICK k \in Nat : k = Len(q)
  BY LenProperties
<1>4. Len(v) = k
  <2>1. Len(u) = n + k
    BY <1>1, <1>2, <1>3, ConcatProperties
  <2>2. Len(u) = n + Len(v)
    BY <1>1, <1>2, ConcatProperties
  <2>3. Len(v) \in Nat
    BY LenProperties
  <2>4. QED
    BY <2>1, <2>2, <2>3
<1>5. \A i \in 1 .. n : c[i] = d[i]
  <2>1. \A i \in 1 .. n : u[i] = c[i]
    BY <1>1, <1>2, JoinedFirst
  <2>2. \A i \in 1 .. n : u[i] = d[i]
    BY <1>1, <1>2, JoinedFirst
  <2>3. QED
    BY <2>1, <2>2
<1>6. \A i \in 1 .. k : q[i] = v[i]
  <2>1. \A i \in 1 .. n + k : u[i] = IF i <= n THEN c[i] ELSE q[i - n]
    BY <1>1, <1>2, <1>3, ConcatProperties
  <2>2. \A i \in 1 .. n + k : u[i] = IF i <= n THEN d[i] ELSE v[i - n]
    BY <1>1, <1>2, <1>4, ConcatProperties
  <2>3. \A i \in 1 .. k : n + i \in 1 .. n + k /\ ~(n + i <= n) /\ n + i - n = i
    OBVIOUS
  <2>4. \A i \in 1 .. k : u[n + i] = q[i] /\ u[n + i] = v[i]
    BY <2>1, <2>2, <2>3
  <2>5. QED
    BY <2>4
<1>7. c = d
  BY <1>1, <1>5, SeqEqual
<1>8. q = v
  BY <1>3, <1>4, <1>6, SeqEqual
<1>9. QED
  BY <1>7, <1>8

-----------------------------------------------------------------------------
(* Types *)

Reception ==
  [from : Pipes \cup {"none"}, part : {"header", "payload"}, need : Nat, cells : Seq(Cell)]

PipesTyped ==
  /\ pipe \in [Pipes -> Seq(Cell)]
  /\ todo \in [Threads -> Seq(Messages)]
  /\ written \in [Threads -> Nat]
  /\ recv \in [Readers -> Reception]
  /\ drain \in [state : {"off", "header", "payload", "done"}, count : Nat, skip : Nat]
  /\ up \in BOOLEAN
  /\ sent \in [Pipes -> Seq(Messages)]
  /\ got \in [Pipes -> Seq(Messages \cup {Garbage})]
  /\ torn \in [Pipes -> BOOLEAN]

\* A thread has only messages for its own pipes, and is in the middle only of one
\* that is larger than PIPE_BUF.
SendingOK(t) ==
  /\ \A i \in 1 .. Len(todo[t]) : PipeOf[todo[t][i]] \in WritesTo(t)
  /\ written[t] # 0 =>
       todo[t] # <<>> /\ written[t] < Size[Head(todo[t])] /\ PipeBuf < Size[Head(todo[t])]

\* What a reader that has read r expects.
ReceptionOK(r, t) ==
  /\ r.from \in ReadsFrom(t) \cup {"none"}
  /\ r.part = "header" => r.need = HeaderSize
  /\ Len(r.cells) <= r.need
  /\ r.part = "payload" => HeaderSize <= Len(r.cells)
  /\ r.from = "none" => r = Idle
  /\ r.from # "none" => Len(r.cells) >= 1

Base ==
  /\ PipesTyped
  /\ \A t \in Threads : SendingOK(t)
  /\ \A t \in Readers : ReceptionOK(recv[t], t)

\* A reader between two messages.
LEMMA IdleOK == Idle \in Reception /\ \A t : ReceptionOK(Idle, t)
<1>1. <<>> \in Seq(Cell) /\ Len(<<>>) = 0
  OBVIOUS
<1>2. Idle = [from |-> "none", part |-> "header", need |-> HeaderSize, cells |-> <<>>]
  BY DEF Idle
<1>3. Idle \in Reception
  BY <1>1, <1>2, SizeIs DEF Reception
<1>4. Idle.from = "none" /\ Idle.part = "header" /\ Idle.need = HeaderSize /\ Idle.cells = <<>>
  BY <1>2
<1>5. \A t : ReceptionOK(Idle, t)
  BY <1>1, <1>4, SizeIs DEF ReceptionOK
<1>6. QED
  BY <1>3, <1>5

\* The reader's pipe.
LEMMA ReaderPipes == \A t \in Readers : ReadsFrom(t) \subseteq Pipes
BY DEF Readers, ReadsFrom, Pipes

\* A header that is there names its message.
LEMMA HeaderMessage ==
  ASSUME NEW c \in Seq(Cell), IsHeader(c)
  PROVE  /\ MessageOf(c) \in Messages /\ c = Cells(MessageOf(c), 1, HeaderSize)
         /\ Size[MessageOf(c)] - HeaderSize \in Nat
<1>1. PICK m \in Messages : c = Cells(m, 1, HeaderSize)
  BY DEF IsHeader
<1>2. 1 \in 1 .. HeaderSize
  BY SizeIs
<1>3. c[1] = <<m, 1>>
  BY <1>1, <1>2, SizeIs, FirstCells
<1>4. MessageOf(c) = m
  BY <1>3 DEF MessageOf
<1>5. Size[m] - HeaderSize \in Nat
  BY SizeIs
<1>6. QED
  BY <1>1, <1>4, <1>5

\* What a step of ipc_send writes.
LEMMA SendDoes ==
  ASSUME Base, NEW t \in Threads, Send(t)
  PROVE  \E m \in Messages, d \in Nat :
           /\ todo[t] # <<>> /\ m = Head(todo[t]) /\ PipeOf[m] \in WritesTo(t)
           /\ written[t] <= d /\ d <= Size[m]
           /\ Size[m] <= PipeBuf => written[t] = 0 /\ d = Size[m]
                                    /\ Len(pipe[PipeOf[m]]) + Size[m] <= Room
           /\ pipe' = [pipe EXCEPT ![PipeOf[m]] = pipe[PipeOf[m]] \o Cells(m, written[t] + 1, d)]
           /\ written' = [written EXCEPT ![t] = IF d = Size[m] THEN 0 ELSE d]
           /\ d = Size[m] => /\ todo' = [todo EXCEPT ![t] = Tail(todo[t])]
                             /\ sent' = [sent EXCEPT ![PipeOf[m]] = Append(sent[PipeOf[m]], m)]
           /\ d # Size[m] => todo' = todo /\ sent' = sent /\ PipeBuf < Size[m]
<1>1. todo[t] # <<>> /\ todo[t] \in Seq(Messages) /\ written[t] \in Nat
  BY DEF Base, PipesTyped, Send, Sending
<1>2. PICK m \in Messages : m = Head(todo[t])
  BY <1>1, HeadTailProperties
<1>3. PipeOf[m] \in WritesTo(t)
  <2>1. 1 \in 1 .. Len(todo[t]) /\ Head(todo[t]) = todo[t][1]
    BY <1>1
  <2>2. QED
    BY <1>2, <2>1 DEF Base, SendingOK
<1>4. PICK n \in WriteSizes(Size[m] - written[t], Room - Len(pipe[PipeOf[m]])) :
        /\ pipe' = [pipe EXCEPT ![PipeOf[m]] = pipe[PipeOf[m]] \o Cells(m, written[t] + 1, written[t] + n)]
        /\ written' = [written EXCEPT ![t] = WrittenAfter(written[t] + n, Size[m])]
        /\ todo' = IF written[t] + n = Size[m] THEN [todo EXCEPT ![t] = Tail(todo[t])] ELSE todo
        /\ sent' = IF written[t] + n = Size[m]
                   THEN [sent EXCEPT ![PipeOf[m]] = Append(sent[PipeOf[m]], m)] ELSE sent
  BY <1>2 DEF Send
<1>5. written[t] <= Size[m] /\ (Size[m] <= PipeBuf => written[t] = 0)
  BY <1>1, <1>2, SizeIs DEF Base, SendingOK
<1>6. Size[m] \in Nat /\ PipeBuf \in Nat /\ Room \in Nat
  BY SizeIs
<1>7. PICK l \in Nat : l = Len(pipe[PipeOf[m]])
  <2>1. pipe[PipeOf[m]] \in Seq(Cell)
    BY SizeIs DEF Base, PipesTyped
  <2>2. QED
    BY <2>1, LenProperties
<1>8. /\ n \in Nat /\ n <= Size[m] - written[t]
      /\ Size[m] - written[t] <= PipeBuf => n = Size[m] - written[t] /\ n <= Room - l
  <2>1. CASE Size[m] - written[t] <= PipeBuf
    BY <1>1, <1>4, <1>5, <1>6, <1>7, <2>1 DEF WriteSizes
  <2>2. CASE ~(Size[m] - written[t] <= PipeBuf)
    <3>1. n \in 1 .. Least(Size[m] - written[t], Room - l)
      BY <1>4, <1>7, <2>2 DEF WriteSizes
    <3>2. QED
      BY <1>1, <1>5, <1>6, <1>7, <2>2, <3>1 DEF Least
  <2>3. QED
    BY <2>1, <2>2
<1>9. PICK d \in Nat : d = written[t] + n
  BY <1>1, <1>8
<1>10. written[t] <= d /\ d <= Size[m]
  BY <1>1, <1>5, <1>6, <1>8, <1>9
<1>11. Size[m] <= PipeBuf => written[t] = 0 /\ d = Size[m] /\ l + Size[m] <= Room
  BY <1>1, <1>5, <1>6, <1>7, <1>8, <1>9
<1>12. d # Size[m] => PipeBuf < Size[m]
  BY <1>6, <1>11
<1>13. /\ pipe' = [pipe EXCEPT ![PipeOf[m]] = pipe[PipeOf[m]] \o Cells(m, written[t] + 1, d)]
       /\ written' = [written EXCEPT ![t] = IF d = Size[m] THEN 0 ELSE d]
       /\ todo' = IF d = Size[m] THEN [todo EXCEPT ![t] = Tail(todo[t])] ELSE todo
       /\ sent' = IF d = Size[m] THEN [sent EXCEPT ![PipeOf[m]] = Append(sent[PipeOf[m]], m)] ELSE sent
  BY <1>4, <1>9 DEF WrittenAfter
<1>14. QED
  BY <1>1, <1>2, <1>3, <1>7, <1>10, <1>11, <1>12, <1>13

\* What a reader of p has: nothing yet, or what it is putting together.
Fresh(p) == [from |-> p, part |-> "header", need |-> HeaderSize, cells |-> <<>>]

\* A reader that starts a message from p.
LEMMA FreshIs ==
  ASSUME NEW p \in Pipes
  PROVE  /\ [Idle EXCEPT !.from = p] = Fresh(p) /\ Fresh(p) \in Reception
         /\ Fresh(p).from = p /\ Fresh(p).part = "header" /\ Fresh(p).need = HeaderSize
         /\ Fresh(p).cells = <<>>
<1>1. <<>> \in Seq(Cell)
  OBVIOUS
<1>2. Fresh(p) \in Reception
  BY <1>1, SizeIs DEF Fresh, Reception
<1>3. [Idle EXCEPT !.from = p] = Fresh(p)
  BY DEF Fresh, Idle
<1>4. QED
  BY <1>2, <1>3 DEF Fresh

\* r is what reader t has when it reads.
SoFar(r, t) ==
  \/ r = recv[t] /\ recv[t] # Idle
  \/ r = Fresh(r.from) /\ recv[t] = Idle /\ up

\* A read of n cells from p.
Takes(t, p, r, n) ==
  /\ p \in ReadsFrom(t) /\ r.from = p /\ SoFar(r, t)
  /\ 1 <= n /\ n <= r.need - Len(r.cells) /\ n <= Len(pipe[p])

\* What a read takes.
LEMMA ReceiveDoes ==
  ASSUME Base, NEW t \in Readers, StartReceive(t) \/ ReceiveMore(t)
  PROVE  \E p \in Pipes, r \in Reception, n \in Nat :
           /\ Takes(t, p, r, n)
           /\ pipe' = [pipe EXCEPT ![p] = SubSeq(pipe[p], n + 1, Len(pipe[p]))]
           /\ recv' = [recv EXCEPT ![t] = [r EXCEPT !.cells = r.cells \o SubSeq(pipe[p], 1, n)]]
           /\ torn' = [torn EXCEPT !["cmd"] = torn["cmd"] \/ (p = "cmd" /\ drain.state = "payload")]
           /\ UNCHANGED <<todo, written, drain, up, serving, sent, got>>
<1>1. PICK p \in Pipes, r \in Reception :
        /\ p \in ReadsFrom(t) /\ r.from = p /\ Len(r.cells) <= r.need
        /\ SoFar(r, t)
        /\ Read(t, p, r)
  <2>1. CASE StartReceive(t)
    <3>1. recv[t] = Idle /\ up
      BY <2>1 DEF StartReceive
    <3>2. PICK p \in ReadsFrom(t) : Read(t, p, [Idle EXCEPT !.from = p])
      BY <2>1 DEF StartReceive
    <3>3. p \in Pipes
      BY <3>2, ReaderPipes
    <3>4. Read(t, p, Fresh(p)) /\ Fresh(p) \in Reception /\ Fresh(p).from = p
          /\ Len(Fresh(p).cells) <= Fresh(p).need
      BY <3>2, <3>3, FreshIs, SizeIs
    <3>5. QED
      BY <3>1, <3>2, <3>3, <3>4 DEF SoFar
  <2>2. CASE ReceiveMore(t)
    <3>1. recv[t] # Idle /\ Read(t, recv[t].from, recv[t])
      BY <2>2 DEF ReceiveMore
    <3>2. recv[t] \in Reception /\ ReceptionOK(recv[t], t)
      BY DEF Base, PipesTyped
    <3>3. recv[t].from \in ReadsFrom(t) /\ Len(recv[t].cells) <= recv[t].need
      BY <3>1, <3>2 DEF ReceptionOK
    <3>4. recv[t].from \in Pipes
      BY <3>3, ReaderPipes
    <3>5. SoFar(recv[t], t)
      BY <3>1 DEF SoFar
    <3>6. QED
      BY <3>1, <3>2, <3>3, <3>4, <3>5
  <2>3. QED
    BY <2>1, <2>2
<1>2. pipe[p] \in Seq(Cell) /\ r.cells \in Seq(Cell) /\ r.need \in Nat
  BY DEF Base, PipesTyped, Reception
<1>3. PICK l \in Nat : l = Len(pipe[p])
  BY <1>2, LenProperties
<1>4. PICK k \in Nat : k = r.need - Len(r.cells)
  <2>1. Len(r.cells) \in Nat
    BY <1>2, LenProperties
  <2>2. QED
    BY <1>1, <1>2, <2>1
<1>5. PICK n \in Nat : n = Least(k, l)
  BY DEF Least
<1>6. n <= k /\ n <= l
  BY <1>5 DEF Least
<1>7. /\ n > 0
      /\ pipe' = [pipe EXCEPT ![p] = SubSeq(pipe[p], n + 1, Len(pipe[p]))]
      /\ recv' = [recv EXCEPT ![t] = [r EXCEPT !.cells = r.cells \o SubSeq(pipe[p], 1, n)]]
      /\ torn' = [torn EXCEPT !["cmd"] = torn["cmd"] \/ (p = "cmd" /\ drain.state = "payload")]
      /\ UNCHANGED <<todo, written, drain, up, serving, sent, got>>
  BY <1>1, <1>3, <1>4, <1>5 DEF Read
<1>8. 1 <= n /\ n <= r.need - Len(r.cells) /\ n <= Len(pipe[p])
  BY <1>3, <1>4, <1>6, <1>7
<1>9. Takes(t, p, r, n)
  BY <1>1, <1>8 DEF Takes
<1>10. QED
  BY <1>7, <1>9, Zenon

-----------------------------------------------------------------------------
(* The types, action by action *)

\* ipc_send keeps the types.
LEMMA SendTyped ==
  ASSUME Base, NEW t \in Threads, Send(t)
  PROVE  Base'
<1>1. PICK m \in Messages, d \in Nat :
           /\ todo[t] # <<>> /\ m = Head(todo[t]) /\ PipeOf[m] \in WritesTo(t)
           /\ written[t] <= d /\ d <= Size[m]
           /\ pipe' = [pipe EXCEPT ![PipeOf[m]] = pipe[PipeOf[m]] \o Cells(m, written[t] + 1, d)]
           /\ written' = [written EXCEPT ![t] = IF d = Size[m] THEN 0 ELSE d]
           /\ d = Size[m] => /\ todo' = [todo EXCEPT ![t] = Tail(todo[t])]
                             /\ sent' = [sent EXCEPT ![PipeOf[m]] = Append(sent[PipeOf[m]], m)]
           /\ d # Size[m] => todo' = todo /\ sent' = sent /\ PipeBuf < Size[m]
  BY SendDoes
<1>2. UNCHANGED <<recv, drain, up, got, torn>>
  BY DEF Send
<1>3. PipeOf[m] \in Pipes /\ Size[m] \in Nat
  BY SizeIs
<1>4. PICK c \in Seq(Cell) : c = Cells(m, written[t] + 1, d)
  <2>1. written[t] + 1 \in Nat /\ written[t] + 1 <= d + 1
    BY <1>1 DEF Base, PipesTyped
  <2>2. QED
    BY <2>1, CellsAre
<1>5. pipe' \in [Pipes -> Seq(Cell)]
  <2>1. PICK s \in Seq(Cell) : s = pipe[PipeOf[m]] \o c
    BY <1>3, ConcatProperties DEF Base, PipesTyped
  <2>2. pipe' = [pipe EXCEPT ![PipeOf[m]] = s]
    BY <1>1, <1>4, <2>1
  <2>3. QED
    BY <2>2 DEF Base, PipesTyped
<1>6. written' \in [Threads -> Nat]
  BY <1>1 DEF Base, PipesTyped
<1>7. todo[t] \in Seq(Messages) /\ Tail(todo[t]) \in Seq(Messages)
  BY <1>1, HeadTailProperties DEF Base, PipesTyped
<1>8. todo' \in [Threads -> Seq(Messages)]
  BY <1>1, <1>7 DEF Base, PipesTyped
<1>9. sent' \in [Pipes -> Seq(Messages)]
  <2>1. PICK s \in Seq(Messages) : s = Append(sent[PipeOf[m]], m)
    BY <1>3, AppendProperties DEF Base, PipesTyped
  <2>2. sent' = sent \/ sent' = [sent EXCEPT ![PipeOf[m]] = s]
    BY <1>1, <2>1
  <2>3. QED
    BY <2>2 DEF Base, PipesTyped
<1>10. PipesTyped'
  BY <1>2, <1>5, <1>6, <1>8, <1>9 DEF Base, PipesTyped
<1>11. ASSUME NEW s \in Threads PROVE SendingOK(s)'
  <2>1. CASE s # t
    <3>1. written'[s] = written[s] /\ todo'[s] = todo[s]
      BY <1>1, <2>1 DEF Base, PipesTyped
    <3>2. QED
      BY <3>1 DEF Base, SendingOK
  <2>2. CASE s = t /\ d = Size[m]
    <3>1. todo'[t] = Tail(todo[t]) /\ written'[t] = 0
      BY <1>1, <2>2 DEF Base, PipesTyped
    <3>2. Len(Tail(todo[t])) = Len(todo[t]) - 1 /\ Len(todo[t]) \in Nat
          /\ \A i \in 1 .. Len(Tail(todo[t])) : Tail(todo[t])[i] = todo[t][i + 1]
      BY <1>1, <1>7, HeadTailProperties, LenProperties
    <3>3. \A i \in 1 .. Len(Tail(todo[t])) : i + 1 \in 1 .. Len(todo[t])
      BY <3>2
    <3>4. \A i \in 1 .. Len(Tail(todo[t])) : PipeOf[Tail(todo[t])[i]] \in WritesTo(t)
      BY <3>2, <3>3 DEF Base, SendingOK
    <3>5. QED
      BY <2>2, <3>1, <3>4 DEF SendingOK
  <2>3. CASE s = t /\ d # Size[m]
    <3>1. todo'[t] = todo[t] /\ written'[t] = d
      BY <1>1, <2>3 DEF Base, PipesTyped
    <3>2. d < Size[m] /\ PipeBuf < Size[m]
      BY <1>1, <1>3, <2>3
    <3>3. QED
      BY <1>1, <2>3, <3>1, <3>2 DEF Base, SendingOK
  <2>4. QED
    BY <2>1, <2>2, <2>3
<1>12. \A s \in Readers : ReceptionOK(recv[s], s)'
  BY <1>2 DEF Base
<1>13. QED
  BY <1>10, <1>11, <1>12 DEF Base

\* So does an ipc_send that drops its message.
LEMMA GiveUpSendTyped ==
  ASSUME Base, NEW t \in Threads, GiveUpSend(t)
  PROVE  Base'
<1>1. todo[t] # <<>> /\ written[t] = 0 /\ todo' = [todo EXCEPT ![t] = Tail(todo[t])]
      /\ UNCHANGED <<pipe, written, recv, drain, up, serving, sent, got, torn>>
  BY DEF GiveUpSend, Sending
<1>2. todo[t] \in Seq(Messages) /\ Tail(todo[t]) \in Seq(Messages)
  BY <1>1, HeadTailProperties DEF Base, PipesTyped
<1>3. todo' \in [Threads -> Seq(Messages)]
  BY <1>1, <1>2 DEF Base, PipesTyped
<1>4. PipesTyped'
  BY <1>1, <1>3 DEF Base, PipesTyped
<1>5. ASSUME NEW s \in Threads PROVE SendingOK(s)'
  <2>1. CASE s # t
    <3>1. written'[s] = written[s] /\ todo'[s] = todo[s]
      BY <1>1, <2>1 DEF Base, PipesTyped
    <3>2. QED
      BY <3>1 DEF Base, SendingOK
  <2>2. CASE s = t
    <3>1. todo'[t] = Tail(todo[t]) /\ written'[t] = 0
      BY <1>1 DEF Base, PipesTyped
    <3>2. Len(Tail(todo[t])) = Len(todo[t]) - 1 /\ Len(todo[t]) \in Nat
          /\ \A i \in 1 .. Len(Tail(todo[t])) : Tail(todo[t])[i] = todo[t][i + 1]
      BY <1>1, <1>2, HeadTailProperties, LenProperties
    <3>3. \A i \in 1 .. Len(Tail(todo[t])) : i + 1 \in 1 .. Len(todo[t])
      BY <3>2
    <3>4. \A i \in 1 .. Len(Tail(todo[t])) : PipeOf[Tail(todo[t])[i]] \in WritesTo(t)
      BY <3>2, <3>3 DEF Base, SendingOK
    <3>5. QED
      BY <2>2, <3>1, <3>4 DEF SendingOK
  <2>3. QED
    BY <2>1, <2>2
<1>6. \A s \in Readers : ReceptionOK(recv[s], s)'
  BY <1>1 DEF Base
<1>7. QED
  BY <1>4, <1>5, <1>6 DEF Base

\* What the other actions leave to the senders.
LEMMA SendersKept ==
  ASSUME Base, todo' = todo, written' = written
  PROVE  \A t \in Threads : SendingOK(t)'
BY DEF Base, SendingOK

\* A reader is left with something else.
LEMMA ReadersKept ==
  ASSUME Base, NEW t \in Readers, NEW r \in Reception, ReceptionOK(r, t),
         recv' = [recv EXCEPT ![t] = r]
  PROVE  /\ recv' \in [Readers -> Reception] /\ recv'[t] = r
         /\ \A s \in Readers : ReceptionOK(recv'[s], s)
BY DEF Base, PipesTyped

\* A reception that has n cells more.
Longer(t, p, r, n, x) ==
  /\ x = [r EXCEPT !.cells = r.cells \o SubSeq(pipe[p], 1, n)] /\ ReceptionOK(x, t)
  /\ x.from = p /\ x.part = r.part /\ x.need = r.need
  /\ x.cells = r.cells \o SubSeq(pipe[p], 1, n) /\ Len(x.cells) = Len(r.cells) + n

\* A read leaves the reader with more cells of the same message.
LEMMA MoreRead ==
  ASSUME Base, NEW t \in Readers, NEW p \in Pipes, NEW r \in Reception, NEW n \in Nat,
         Takes(t, p, r, n)
  PROVE  \E x \in Reception : Longer(t, p, r, n, x)
<1>1. /\ pipe[p] \in Seq(Cell) /\ r.cells \in Seq(Cell) /\ r.need \in Nat
      /\ r.part \in {"header", "payload"}
      /\ p \in ReadsFrom(t) /\ r.from = p /\ SoFar(r, t)
      /\ 1 <= n /\ n <= r.need - Len(r.cells) /\ n <= Len(pipe[p])
  BY DEF Base, PipesTyped, Reception, Takes
<1>2. PICK c \in Seq(Cell) : c = r.cells \o SubSeq(pipe[p], 1, n) /\ Len(c) = Len(r.cells) + n
  <2>1. n <= Len(pipe[p]) /\ pipe[p] \in Seq(Cell) /\ r.cells \in Seq(Cell)
    BY <1>1
  <2>2. /\ r.cells \o SubSeq(pipe[p], 1, n) \in Seq(Cell)
        /\ Len(r.cells \o SubSeq(pipe[p], 1, n)) = Len(r.cells) + n
    BY <2>1, ReadKeeps, Zenon
  <2>3. QED
    BY <2>2
<1>3. PICK x : x = [from |-> r.from, part |-> r.part, need |-> r.need, cells |-> c]
  OBVIOUS
<1>4. x = [r EXCEPT !.cells = c]
  BY <1>3 DEF Reception
<1>5. x \in Reception
  BY <1>1, <1>3 DEF Reception
<1>6. /\ r.part = "header" => r.need = HeaderSize
      /\ r.part = "payload" => HeaderSize <= Len(r.cells)
  <2>1. CASE r = recv[t]
    BY <2>1 DEF Base, ReceptionOK
  <2>2. CASE r = Fresh(r.from)
    BY <1>1, <2>2, FreshIs
  <2>3. QED
    BY <1>1, <2>1, <2>2 DEF SoFar
<1>7. PICK k \in Nat : k = Len(r.cells)
  BY <1>1, LenProperties
<1>8. p # "none"
  BY DEF Pipes
<1>9. Len(c) <= r.need /\ Len(c) >= 1 /\ (HeaderSize <= k => HeaderSize <= Len(c))
  <2>1. r.need \in Nat /\ n <= r.need - k /\ 1 <= n /\ Len(c) = k + n /\ HeaderSize \in Nat
    BY <1>1, <1>2, <1>7, SizeIs
  <2>2. QED
    BY <1>7, <2>1
<1>10. x.from = p /\ x.part = r.part /\ x.need = r.need /\ x.cells = c
  BY <1>1, <1>3
<1>11. ReceptionOK(x, t)
  BY <1>1, <1>6, <1>7, <1>8, <1>9, <1>10 DEF ReceptionOK
<1>12. Longer(t, p, r, n, x)
  BY <1>2, <1>4, <1>10, <1>11 DEF Longer
<1>13. QED
  BY <1>5, <1>12

\* ipc_recv_header and ipc_recv_payload keep the types.
LEMMA ReceiveTyped ==
  ASSUME Base, NEW t \in Readers, StartReceive(t) \/ ReceiveMore(t)
  PROVE  Base'
<1>1. PICK p \in Pipes, r \in Reception, n \in Nat :
           /\ Takes(t, p, r, n)
           /\ pipe' = [pipe EXCEPT ![p] = SubSeq(pipe[p], n + 1, Len(pipe[p]))]
           /\ recv' = [recv EXCEPT ![t] = [r EXCEPT !.cells = r.cells \o SubSeq(pipe[p], 1, n)]]
           /\ torn' = [torn EXCEPT !["cmd"] = torn["cmd"] \/ (p = "cmd" /\ drain.state = "payload")]
           /\ UNCHANGED <<todo, written, drain, up, serving, sent, got>>
  BY ReceiveDoes
<1>2. PICK x \in Reception : ReceptionOK(x, t) /\ recv' = [recv EXCEPT ![t] = x]
  <2>1. PICK x \in Reception :
          x = [r EXCEPT !.cells = r.cells \o SubSeq(pipe[p], 1, n)] /\ ReceptionOK(x, t)
    <3>1. Takes(t, p, r, n)
      BY <1>1
    <3>2. QED
      BY <3>1, MoreRead DEF Longer
  <2>2. recv' = [recv EXCEPT ![t] = x]
    BY <1>1, <2>1
  <2>3. QED
    BY <2>1, <2>2
<1>3. recv' \in [Readers -> Reception] /\ \A s \in Readers : ReceptionOK(recv'[s], s)
  BY <1>2, ReadersKept
<1>4. pipe' \in [Pipes -> Seq(Cell)]
  <2>1. pipe[p] \in Seq(Cell)
    BY DEF Base, PipesTyped
  <2>2. PICK q \in Seq(Cell) : q = SubSeq(pipe[p], n + 1, Len(pipe[p]))
    <3>1. n <= Len(pipe[p])
      BY <1>1 DEF Takes
    <3>2. QED
      BY <2>1, <3>1, ReadKeeps
  <2>3. QED
    BY <1>1, <2>2 DEF Base, PipesTyped
<1>5. torn' \in [Pipes -> BOOLEAN]
  BY <1>1 DEF Base, PipesTyped
<1>6. PipesTyped'
  BY <1>1, <1>3, <1>4, <1>5 DEF Base, PipesTyped
<1>7. QED
  BY <1>1, <1>3, <1>6, SendersKept DEF Base

\* So does a receive that gives up.
LEMMA GiveUpReceiveTyped ==
  ASSUME Base, NEW t \in Readers, GiveUpReceive(t)
  PROVE  Base'
<1>1. /\ recv' = [recv EXCEPT ![t] = Idle] /\ torn' = [torn EXCEPT ![recv[t].from] = TRUE]
      /\ UNCHANGED <<pipe, todo, written, drain, up, sent, got>>
  BY DEF GiveUpReceive
<1>2. recv' \in [Readers -> Reception] /\ \A s \in Readers : ReceptionOK(recv'[s], s)
  BY <1>1, ReadersKept, IdleOK
<1>3. torn' \in [Pipes -> BOOLEAN]
  BY <1>1 DEF Base, PipesTyped
<1>4. PipesTyped'
  BY <1>1, <1>2, <1>3 DEF Base, PipesTyped
<1>5. QED
  BY <1>1, <1>2, <1>4, SendersKept DEF Base

\* What the end of a header leads to.
LEMMA ParseHeaderDoes ==
  ASSUME Base, NEW t \in Readers, ParseHeader(t)
  PROVE  \E x \in Reception :
           /\ ReceptionOK(x, t) /\ recv' = [recv EXCEPT ![t] = x]
           /\ recv[t].from \in ReadsFrom(t) /\ Len(recv[t].cells) = HeaderSize
           /\ x.from = recv[t].from /\ x.cells = recv[t].cells /\ x.part = "payload"
           /\ IsHeader(x.cells) => x.need = Size[MessageOf(x.cells)]
           /\ UNCHANGED <<pipe, todo, written, drain, up, sent, got, torn>>
<1>1. PICK r \in Reception : r = recv[t]
  BY DEF Base, PipesTyped
<1>2. ReceptionOK(r, t) /\ r.part = "header" /\ Len(r.cells) = HeaderSize
  BY <1>1 DEF Base, ParseHeader
<1>3. PICK len \in IF IsHeader(r.cells) THEN {PayloadSize(MessageOf(r.cells))} ELSE 0 .. Room :
        recv' = [recv EXCEPT ![t] = [r EXCEPT !.part = "payload", !.need = HeaderSize + len]]
  BY <1>1 DEF ParseHeader
<1>4. r.cells \in Seq(Cell)
  BY DEF Reception
<1>5. len \in Nat /\ (IsHeader(r.cells) => HeaderSize + len = Size[MessageOf(r.cells)])
  <2>1. CASE IsHeader(r.cells)
    <3>1. PICK m \in Messages : m = MessageOf(r.cells)
      BY <1>4, <2>1, HeaderMessage
    <3>2. len = Size[m] - HeaderSize
      BY <1>3, <2>1, <3>1 DEF PayloadSize
    <3>3. QED
      BY <3>1, <3>2, SizeIs
  <2>2. CASE ~IsHeader(r.cells)
    BY <1>3, <2>2, SizeIs
  <2>3. QED
    BY <2>1, <2>2
<1>6. PICK x : x = [from |-> r.from, part |-> "payload", need |-> HeaderSize + len, cells |-> r.cells]
  OBVIOUS
<1>7. recv' = [recv EXCEPT ![t] = x]
  <2>1. [r EXCEPT !.part = "payload", !.need = HeaderSize + len] = x
    <3>1. PICK y : y = [from |-> r.from, part |-> "payload", need |-> r.need, cells |-> r.cells]
      OBVIOUS
    <3>2. [r EXCEPT !.part = "payload"] = y
      BY <3>1 DEF Reception
    <3>3. [y EXCEPT !.need = HeaderSize + len] = x
      BY <1>6, <3>1
    <3>4. QED
      BY <3>2, <3>3
  <2>2. QED
    BY <1>3, <2>1
<1>8. x \in Reception
  BY <1>4, <1>5, <1>6, SizeIs DEF Reception
<1>9. x.from = r.from /\ x.cells = r.cells /\ x.part = "payload" /\ x.need = HeaderSize + len
  BY <1>6
<1>10. r.from # "none"
  <2>1. Idle.cells = <<>> /\ Len(<<>>) = 0
    BY DEF Idle
  <2>2. QED
    BY <1>2, <2>1, SizeIs DEF ReceptionOK
<1>11. ReceptionOK(x, t)
  BY <1>2, <1>5, <1>9, <1>10, SizeIs DEF ReceptionOK
<1>12. UNCHANGED <<pipe, todo, written, drain, up, sent, got, torn>>
  BY DEF ParseHeader
<1>13. r.from \in ReadsFrom(t)
  BY <1>2, <1>10 DEF ReceptionOK
<1>14. QED
  BY <1>1, <1>2, <1>5, <1>7, <1>8, <1>9, <1>11, <1>12, <1>13

\* Whatever length the header says.
LEMMA ParseHeaderTyped ==
  ASSUME Base, NEW t \in Readers, ParseHeader(t)
  PROVE  Base'
<1>1. PICK x \in Reception :
        /\ ReceptionOK(x, t) /\ recv' = [recv EXCEPT ![t] = x]
        /\ UNCHANGED <<pipe, todo, written, drain, up, sent, got, torn>>
  BY ParseHeaderDoes
<1>2. recv' \in [Readers -> Reception] /\ \A s \in Readers : ReceptionOK(recv'[s], s)
  BY <1>1, ReadersKept
<1>3. PipesTyped'
  BY <1>1, <1>2 DEF Base, PipesTyped
<1>4. QED
  BY <1>1, <1>2, <1>3, SendersKept DEF Base

\* What the end of a message leads to.
Whole(c) == IsHeader(SubSeq(c, 1, HeaderSize)) /\ c = Cells(MessageOf(c), 1, Len(c))

\* The end of a receive: a whole message is handed on as itself, and what else
\* there is as garbage or not at all.
LEMMA DeliverDoes ==
  ASSUME Base, NEW t \in Readers, Deliver(t)
  PROVE  \E h \in Seq(Messages \cup {Garbage}) :
           /\ recv[t].from \in ReadsFrom(t) /\ recv[t].from \in Pipes
           /\ recv[t].part = "payload" /\ Len(recv[t].cells) = recv[t].need
           /\ HeaderSize <= Len(recv[t].cells)
           /\ recv' = [recv EXCEPT ![t] = Idle]
           /\ got' = [got EXCEPT ![recv[t].from] = got[recv[t].from] \o h]
           /\ Whole(recv[t].cells) => h = <<MessageOf(recv[t].cells)>>
           /\ UNCHANGED <<pipe, todo, written, drain, up, sent, torn>>
<1>1. PICK r \in Reception : r = recv[t]
  BY DEF Base, PipesTyped
<1>2. ReceptionOK(r, t) /\ r.part = "payload" /\ Len(r.cells) = r.need
  BY <1>1 DEF Base, Deliver
<1>3. PICK h \in IF Whole(r.cells) THEN {<<MessageOf(r.cells)>>} ELSE {<<Garbage>>, <<>>} :
        got' = [got EXCEPT ![r.from] = got[r.from] \o h]
  BY <1>1 DEF Deliver, Whole
<1>4. HeaderSize <= Len(r.cells) /\ r.cells \in Seq(Cell)
  BY <1>2 DEF ReceptionOK, Reception
<1>5. MessageOf(r.cells) \in Messages
  <2>1. 1 \in 1 .. Len(r.cells)
    BY <1>4, SizeIs, LenProperties
  <2>2. r.cells[1] \in Cell
    BY <1>4, <2>1, ElementOfSeq
  <2>3. QED
    BY <2>2 DEF MessageOf, Cell
<1>6. h \in Seq(Messages \cup {Garbage})
  <2>1. CASE Whole(r.cells)
    <3>1. h = <<MessageOf(r.cells)>>
      BY <1>3, <2>1
    <3>2. QED
      BY <1>5, <3>1
  <2>2. CASE ~Whole(r.cells)
    <3>1. h = <<Garbage>> \/ h = <<>>
      BY <1>3, <2>2
    <3>2. Garbage \in Messages \cup {Garbage}
      OBVIOUS
    <3>3. <<Garbage>> \in Seq(Messages \cup {Garbage})
      BY <3>2
    <3>4. <<>> \in Seq(Messages \cup {Garbage})
      OBVIOUS
    <3>5. QED
      BY <3>1, <3>3, <3>4
  <2>3. QED
    BY <2>1, <2>2
<1>7. Whole(r.cells) => h = <<MessageOf(r.cells)>>
  BY <1>3
<1>8. r.from # "none"
  <2>1. Idle.cells = <<>> /\ Len(<<>>) = 0
    BY DEF Idle
  <2>2. QED
    BY <1>2, <1>4, <2>1, SizeIs DEF ReceptionOK
<1>9. r.from \in ReadsFrom(t) /\ r.from \in Pipes
  BY <1>2, <1>8, ReaderPipes DEF ReceptionOK
<1>10. recv' = [recv EXCEPT ![t] = Idle] /\ UNCHANGED <<pipe, todo, written, drain, up, sent, torn>>
  BY DEF Deliver
<1>11. QED
  BY <1>1, <1>2, <1>3, <1>4, <1>6, <1>7, <1>9, <1>10

\* The end of a receive keeps the types.
LEMMA DeliverTyped ==
  ASSUME Base, NEW t \in Readers, Deliver(t)
  PROVE  Base'
<1>1. PICK h \in Seq(Messages \cup {Garbage}) :
           /\ recv[t].from \in Pipes
           /\ recv' = [recv EXCEPT ![t] = Idle]
           /\ got' = [got EXCEPT ![recv[t].from] = got[recv[t].from] \o h]
           /\ UNCHANGED <<pipe, todo, written, drain, up, sent, torn>>
  BY DeliverDoes
<1>2. recv' \in [Readers -> Reception] /\ \A s \in Readers : ReceptionOK(recv'[s], s)
  BY <1>1, ReadersKept, IdleOK
<1>3. got' \in [Pipes -> Seq(Messages \cup {Garbage})]
  <2>1. PICK g \in Seq(Messages \cup {Garbage}) : g = got[recv[t].from] \o h
    BY <1>1, ConcatProperties DEF Base, PipesTyped
  <2>2. QED
    BY <1>1, <2>1 DEF Base, PipesTyped
<1>4. PipesTyped'
  BY <1>1, <1>2, <1>3 DEF Base, PipesTyped
<1>5. QED
  BY <1>1, <1>2, <1>4, SendersKept DEF Base

DrainRecords == [state : {"off", "header", "payload", "done"}, count : Nat, skip : Nat]

\* The drain goes to the given state.
DrainTo(s, n, k) == drain' = [state |-> s, count |-> n, skip |-> k]

\* What a header means to the drain.
LEMMA DrainHeaderDoes ==
  ASSUME Base, DrainHeader
  PROVE  \E n \in Nat, c \in Seq(Cell), q \in Seq(Cell) :
           /\ drain.state = "header" /\ n <= HeaderSize /\ n <= Len(pipe["cmd"])
           /\ n < HeaderSize => n = Len(pipe["cmd"])
           /\ c = SubSeq(pipe["cmd"], 1, n) /\ Len(c) = n /\ c \o q = pipe["cmd"]
           /\ pipe' = [pipe EXCEPT !["cmd"] = q]
           /\ n < HeaderSize => DrainTo("done", drain.count, drain.skip)
           /\ n = HeaderSize /\ IsHeader(c) =>
                DrainTo("payload", IF IsScan(MessageOf(c)) THEN drain.count + 1 ELSE drain.count,
                        Size[MessageOf(c)] - HeaderSize)
           /\ n = HeaderSize /\ ~IsHeader(c) => DrainTo("payload", drain.count, Room + 1)
           /\ torn' = [torn EXCEPT !["cmd"] = torn["cmd"] \/ CmdShared]
           /\ UNCHANGED <<todo, written, recv, up, serving, sent, got>>
<1>1. PICK p \in Seq(Cell) : p = pipe["cmd"]
  BY DEF Base, PipesTyped, Pipes
<1>2. PICK l \in Nat : l = Len(p)
  BY LenProperties
<1>3. PICK n \in Nat : n = Least(HeaderSize, l)
  BY SizeIs DEF Least
<1>4. n <= HeaderSize /\ n <= l /\ (n < HeaderSize => n = l)
  BY <1>3, SizeIs DEF Least
<1>5. /\ SubSeq(p, 1, n) \in Seq(Cell) /\ SubSeq(p, n + 1, Len(p)) \in Seq(Cell)
      /\ Len(SubSeq(p, 1, n)) = n /\ SubSeq(p, 1, n) \o SubSeq(p, n + 1, Len(p)) = p
  BY <1>2, <1>4, ReadKeeps
<1>6. PICK c \in Seq(Cell) : c = SubSeq(p, 1, n)
  BY <1>5
<1>7. PICK q \in Seq(Cell) : q = SubSeq(p, n + 1, Len(p))
  BY <1>5
<1>8. drain \in DrainRecords
  BY DEF Base, PipesTyped, DrainRecords
<1>9. PICK k \in Nat : k = drain.count
  BY <1>8 DEF DrainRecords
<1>10. PICK j \in Nat : j = drain.skip
  BY <1>8 DEF DrainRecords
<1>11. drain = [state |-> "header", count |-> k, skip |-> j] /\ drain.state = "header"
  <2>1. drain.state = "header"
    BY DEF DrainHeader
  <2>2. QED
    BY <1>8, <1>9, <1>10, <2>1 DEF DrainRecords
<1>12. PICK i : i = IF IsScan(MessageOf(c)) THEN k + 1 ELSE k
  OBVIOUS
<1>13. drain' = IF n < HeaderSize THEN [drain EXCEPT !.state = "done"]
              ELSE IF IsHeader(c)
              THEN [drain EXCEPT !.state = "payload", !.skip = Skipped(MessageOf(c)),
                                 !.count = IF IsScan(MessageOf(c)) THEN @ + 1 ELSE @]
              ELSE [drain EXCEPT !.state = "payload", !.skip = Room + 1]
  BY <1>1, <1>2, <1>3, <1>6 DEF DrainHeader
<1>14. n < HeaderSize => DrainTo("done", k, j)
  BY <1>11, <1>13 DEF DrainTo
<1>15. n = HeaderSize => ~(n < HeaderSize)
  BY SizeIs
<1>16. n = HeaderSize /\ IsHeader(c) => DrainTo("payload", i, Size[MessageOf(c)] - HeaderSize)
  <2>1. SUFFICES ASSUME n = HeaderSize, IsHeader(c)
                 PROVE  DrainTo("payload", i, Size[MessageOf(c)] - HeaderSize)
    OBVIOUS
  <2>2. drain' = [drain EXCEPT !.state = "payload", !.skip = Skipped(MessageOf(c)),
                               !.count = IF IsScan(MessageOf(c)) THEN @ + 1 ELSE @]
    BY <1>13, <1>15, <2>1
  <2>3. drain' = [state |-> "payload", count |-> i, skip |-> Skipped(MessageOf(c))]
    BY <1>11, <1>12, <2>2
  <2>4. QED
    BY <2>3 DEF DrainTo, Skipped
<1>17. n = HeaderSize /\ ~IsHeader(c) => DrainTo("payload", k, Room + 1)
  BY <1>11, <1>13, <1>15 DEF DrainTo
<1>18. pipe' = [pipe EXCEPT !["cmd"] = q]
  BY <1>1, <1>2, <1>3, <1>7 DEF DrainHeader
<1>19. torn' = [torn EXCEPT !["cmd"] = torn["cmd"] \/ CmdShared]
       /\ UNCHANGED <<todo, written, recv, up, serving, sent, got>>
  BY DEF DrainHeader
<1>20. c \o q = p /\ Len(c) = n
  BY <1>5, <1>6, <1>7
<1>21. QED
  BY <1>1, <1>2, <1>4, <1>6, <1>9, <1>10, <1>11, <1>12, <1>14, <1>16, <1>17, <1>18, <1>19, <1>20

\* What the drain does with a payload.
LEMMA DrainPayloadDoes ==
  ASSUME Base, DrainPayload
  PROVE  \E n \in Nat, q \in Seq(Cell) :
           /\ drain.state = "payload" /\ n <= drain.skip /\ n <= Len(pipe["cmd"])
           /\ n < drain.skip => n = Len(pipe["cmd"])
           /\ SubSeq(pipe["cmd"], 1, n) \in Seq(Cell) /\ Len(SubSeq(pipe["cmd"], 1, n)) = n
           /\ SubSeq(pipe["cmd"], 1, n) \o q = pipe["cmd"]
           /\ pipe' = [pipe EXCEPT !["cmd"] = q]
           /\ n = drain.skip => DrainTo("header", drain.count, 0)
           /\ n # drain.skip => \E k \in Nat, s \in {"header", "payload"} : DrainTo(s, drain.count, k)
           /\ torn' = [torn EXCEPT !["cmd"] = torn["cmd"] \/ CmdShared]
           /\ UNCHANGED <<todo, written, recv, up, serving, sent, got>>
<1>1. PICK p \in Seq(Cell) : p = pipe["cmd"]
  BY DEF Base, PipesTyped, Pipes
<1>2. PICK l \in Nat : l = Len(p)
  BY LenProperties
<1>3. drain \in DrainRecords
  BY DEF Base, PipesTyped, DrainRecords
<1>4. PICK k \in Nat : k = drain.count
  BY <1>3 DEF DrainRecords
<1>5. PICK j \in Nat : j = drain.skip
  BY <1>3 DEF DrainRecords
<1>6. drain = [state |-> "payload", count |-> k, skip |-> j] /\ drain.state = "payload"
  <2>1. drain.state = "payload"
    BY DEF DrainPayload
  <2>2. QED
    BY <1>3, <1>4, <1>5, <2>1 DEF DrainRecords
<1>7. PICK n \in Nat : n = Least(j, l)
  BY DEF Least
<1>8. n <= j /\ n <= l /\ (n < j => n = l)
  BY <1>7 DEF Least
<1>9. /\ SubSeq(p, 1, n) \in Seq(Cell) /\ SubSeq(p, n + 1, Len(p)) \in Seq(Cell)
      /\ Len(SubSeq(p, 1, n)) = n /\ SubSeq(p, 1, n) \o SubSeq(p, n + 1, Len(p)) = p
  BY <1>2, <1>8, ReadKeeps
<1>10. PICK q \in Seq(Cell) : q = SubSeq(p, n + 1, Len(p))
  BY <1>9
<1>11. drain' = IF n = j \/ n = 0 THEN [drain EXCEPT !.state = "header", !.skip = 0]
                ELSE [drain EXCEPT !.skip = @ - n]
  BY <1>1, <1>2, <1>5, <1>7 DEF DrainPayload
<1>12. n = j => DrainTo("header", k, 0)
  BY <1>6, <1>11 DEF DrainTo
<1>13. n # j => \E i \in Nat, s \in {"header", "payload"} : DrainTo(s, k, i)
  <2>1. CASE n = 0
    <3>1. DrainTo("header", k, 0)
      BY <1>6, <1>11, <2>1 DEF DrainTo
    <3>2. QED
      BY <3>1
  <2>2. CASE n # 0 /\ n # j
    <3>1. DrainTo("payload", k, j - n) /\ j - n \in Nat
      BY <1>6, <1>8, <1>11, <2>2 DEF DrainTo
    <3>2. QED
      BY <3>1
  <2>3. QED
    BY <2>1, <2>2
<1>14. /\ pipe' = [pipe EXCEPT !["cmd"] = q]
       /\ torn' = [torn EXCEPT !["cmd"] = torn["cmd"] \/ CmdShared]
       /\ UNCHANGED <<todo, written, recv, up, serving, sent, got>>
  BY <1>1, <1>2, <1>5, <1>7, <1>10 DEF DrainPayload
<1>15. QED
  BY <1>1, <1>2, <1>4, <1>5, <1>6, <1>8, <1>9, <1>10, <1>12, <1>13, <1>14

-----------------------------------------------------------------------------
\* The fields of the drain after a step.
LEMMA DrainRecord ==
  ASSUME NEW s \in {"off", "header", "payload", "done"}, NEW n \in Nat, NEW k \in Nat, DrainTo(s, n, k)
  PROVE  /\ drain' \in DrainRecords
         /\ drain'.state = s /\ drain'.count = n /\ drain'.skip = k
BY DEF DrainTo, DrainRecords

\* An action on cmd that leaves sent and got alone.
LEMMA CmdTyped ==
  ASSUME Base, drain' \in DrainRecords, NEW q \in Seq(Cell), NEW b \in BOOLEAN,
         pipe' = [pipe EXCEPT !["cmd"] = q], torn' = [torn EXCEPT !["cmd"] = b],
         UNCHANGED <<todo, written, recv, up, sent, got>>
  PROVE  Base'
<1>1. pipe' \in [Pipes -> Seq(Cell)] /\ torn' \in [Pipes -> BOOLEAN]
  BY DEF Base, PipesTyped
<1>2. PipesTyped'
  BY <1>1 DEF Base, PipesTyped, DrainRecords
<1>3. \A s \in Readers : ReceptionOK(recv[s], s)'
  BY DEF Base
<1>4. QED
  BY <1>2, <1>3, SendersKept DEF Base

\* ipc_drain_and_count_tasks keeps the types.
LEMMA DrainTyped ==
  ASSUME Base, Drain
  PROVE  Base'
<1>1. CASE StartDrain
  <2>1. drain' = [NoDrain EXCEPT !.state = "header"]
        /\ torn' = [torn EXCEPT !["cmd"] = torn["cmd"] \/ CmdShared]
        /\ UNCHANGED <<pipe, todo, written, recv, up, sent, got>>
    BY <1>1 DEF StartDrain
  <2>2. drain' \in DrainRecords
    BY <2>1 DEF NoDrain, DrainRecords
  <2>3. PICK q \in Seq(Cell) : q = pipe["cmd"]
    BY DEF Base, PipesTyped, Pipes
  <2>4. pipe' = [pipe EXCEPT !["cmd"] = q]
    BY <2>1, <2>3 DEF Base, PipesTyped
  <2>5. PICK b \in BOOLEAN : b <=> torn["cmd"] \/ CmdShared
    OBVIOUS
  <2>6. torn' = [torn EXCEPT !["cmd"] = b]
    BY <2>1, <2>5
  <2>7. QED
    BY <2>1, <2>2, <2>4, <2>6, CmdTyped
<1>2. CASE DrainHeader
  <2>1. PICK n \in Nat, c \in Seq(Cell), q \in Seq(Cell) :
           /\ n <= HeaderSize
           /\ pipe' = [pipe EXCEPT !["cmd"] = q]
           /\ n < HeaderSize => DrainTo("done", drain.count, drain.skip)
           /\ n = HeaderSize /\ IsHeader(c) =>
                DrainTo("payload", IF IsScan(MessageOf(c)) THEN drain.count + 1 ELSE drain.count,
                        Size[MessageOf(c)] - HeaderSize)
           /\ n = HeaderSize /\ ~IsHeader(c) => DrainTo("payload", drain.count, Room + 1)
           /\ torn' = [torn EXCEPT !["cmd"] = torn["cmd"] \/ CmdShared]
           /\ UNCHANGED <<todo, written, recv, up, serving, sent, got>>
    BY <1>2, DrainHeaderDoes
  <2>2. drain.count \in Nat /\ drain.skip \in Nat
    BY DEF Base, PipesTyped
  <2>3. n < HeaderSize \/ n = HeaderSize
    BY <2>1, SizeIs
  <2>4. IsHeader(c) => Size[MessageOf(c)] - HeaderSize \in Nat
    BY HeaderMessage
  <2>5. drain' \in DrainRecords
    <3>1. PICK k \in Nat : k = IF IsScan(MessageOf(c)) THEN drain.count + 1 ELSE drain.count
      BY <2>2
    <3>2. Room + 1 \in Nat
      BY SizeIs
    <3>3. \E s \in {"done", "payload"}, i \in Nat, j \in Nat : DrainTo(s, i, j)
      <4>1. CASE n < HeaderSize
        BY <2>1, <2>2, <4>1
      <4>2. CASE n = HeaderSize /\ IsHeader(c)
        BY <2>1, <2>4, <3>1, <4>2
      <4>3. CASE n = HeaderSize /\ ~IsHeader(c)
        BY <2>1, <2>2, <3>2, <4>3
      <4>4. QED
        BY <2>3, <4>1, <4>2, <4>3
    <3>4. QED
      BY <3>3, DrainRecord
  <2>6. PICK b \in BOOLEAN : b <=> torn["cmd"] \/ CmdShared
    OBVIOUS
  <2>7. torn' = [torn EXCEPT !["cmd"] = b]
    BY <2>1, <2>6
  <2>8. QED
    BY <2>1, <2>5, <2>7, CmdTyped
<1>3. CASE DrainPayload
  <2>1. PICK n \in Nat, q \in Seq(Cell) :
           /\ pipe' = [pipe EXCEPT !["cmd"] = q]
           /\ n = drain.skip => DrainTo("header", drain.count, 0)
           /\ n # drain.skip => \E k \in Nat, s \in {"header", "payload"} : DrainTo(s, drain.count, k)
           /\ torn' = [torn EXCEPT !["cmd"] = torn["cmd"] \/ CmdShared]
           /\ UNCHANGED <<todo, written, recv, up, serving, sent, got>>
    BY <1>3, DrainPayloadDoes
  <2>2. drain.count \in Nat
    BY DEF Base, PipesTyped
  <2>3. \E s \in {"header", "payload"}, j \in Nat : DrainTo(s, drain.count, j)
    BY <2>1
  <2>4. drain' \in DrainRecords
    BY <2>2, <2>3, DrainRecord
  <2>5. PICK b \in BOOLEAN : b <=> torn["cmd"] \/ CmdShared
    OBVIOUS
  <2>6. torn' = [torn EXCEPT !["cmd"] = b]
    BY <2>1, <2>5
  <2>7. QED
    BY <2>1, <2>4, <2>6, CmdTyped
<1>4. QED
  BY <1>1, <1>2, <1>3 DEF Drain

\* So do the death of the worker and the HUP its reader sees.
LEMMA EndsTyped ==
  ASSUME Base, Die \/ HangUp
  PROVE  Base'
<1>1. CASE Die
  <2>1. up' = FALSE /\ recv' = [recv EXCEPT !["main"] = Idle]
        /\ torn' = [torn EXCEPT !["cmd"] = torn["cmd"] \/ recv["main"] # Idle]
        /\ UNCHANGED <<pipe, todo, written, drain, sent, got>>
    BY <1>1 DEF Die
  <2>2. recv' \in [Readers -> Reception] /\ \A s \in Readers : ReceptionOK(recv'[s], s)
    BY <2>1, ReadersKept, IdleOK DEF Readers
  <2>3. torn' \in [Pipes -> BOOLEAN]
    BY <2>1 DEF Base, PipesTyped
  <2>4. PipesTyped'
    BY <2>1, <2>2, <2>3 DEF Base, PipesTyped
  <2>5. QED
    BY <2>1, <2>2, <2>4, SendersKept DEF Base
<1>2. CASE HangUp
  <2>1. recv' = [recv EXCEPT !["ipc"] = Idle]
        /\ UNCHANGED <<pipe, todo, written, drain, up, sent, got, torn>>
    BY <1>2 DEF HangUp
  <2>2. recv' \in [Readers -> Reception] /\ \A s \in Readers : ReceptionOK(recv'[s], s)
    BY <2>1, ReadersKept, IdleOK DEF Readers
  <2>3. PipesTyped'
    BY <2>1, <2>2 DEF Base, PipesTyped
  <2>4. QED
    BY <2>1, <2>2, <2>3, SendersKept DEF Base
<1>3. QED
  BY <1>1, <1>2

\* The types hold at the start.
LEMMA InitTyped == Init => Base
<1>1. SUFFICES ASSUME Init PROVE Base
  OBVIOUS
<1>2. pipe \in [Pipes -> Seq(Cell)] /\ sent \in [Pipes -> Seq(Messages)]
      /\ got \in [Pipes -> Seq(Messages \cup {Garbage})]
  BY <1>1 DEF Init
<1>3. recv \in [Readers -> Reception] /\ \A t \in Readers : ReceptionOK(recv[t], t)
  BY <1>1, IdleOK DEF Init
<1>4. PipesTyped
  BY <1>1, <1>2, <1>3, ScriptAssumption DEF Init, PipesTyped, NoDrain
<1>5. \A t \in Threads : SendingOK(t)
  <2>1. SUFFICES ASSUME NEW t \in Threads PROVE SendingOK(t)
    OBVIOUS
  <2>2. todo[t] = Script[t] /\ written[t] = 0
    BY <1>1 DEF Init
  <2>3. DOMAIN Script[t] = 1 .. Len(Script[t])
    BY ScriptAssumption, LenProperties
  <2>4. QED
    BY <2>2, <2>3, ScriptAssumption DEF SendingOK
<1>6. QED
  BY <1>3, <1>4, <1>5 DEF Base

\* Every step keeps the types.
LEMMA BaseKept == Base /\ [Next]_vars => Base'
<1>1. SUFFICES ASSUME Base, [Next]_vars PROVE Base'
  OBVIOUS
<1>2. ASSUME NEW t \in Threads, Send(t) \/ GiveUpSend(t) PROVE Base'
  BY <1>1, <1>2, SendTyped, GiveUpSendTyped
<1>3. ASSUME NEW t \in Readers, Receive(t) \/ GiveUpReceive(t) PROVE Base'
  BY <1>1, <1>3, ReceiveTyped, ParseHeaderTyped, DeliverTyped, GiveUpReceiveTyped DEF Receive
<1>4. CASE Drain \/ Die \/ HangUp
  BY <1>1, <1>4, DrainTyped, EndsTyped
<1>5. CASE UNCHANGED vars
  BY <1>1, <1>5 DEF vars, Base, PipesTyped, SendingOK, ReceptionOK
<1>6. QED
  BY <1>1, <1>2, <1>3, <1>4, <1>5 DEF Next

-----------------------------------------------------------------------------
(* data and ctrl: what the IPC thread receives is what was sent *)

\* Every message for p is small enough for one write.
Fits(p) == \A m \in Messages : PipeOf[m] = p => Size[m] <= PipeBuf

\* A pipe with one writer, or without partial writes.
Orderly(p) == p = "data" \/ (p = "ctrl" /\ Fits("ctrl"))

\* What reader t has of the message it is putting together from p.
Waiting(t, p) == IF recv[t].from = p THEN recv[t].cells ELSE <<>>

\* What the scanner has written of the message it is in.
BegunOf(q, w, p) == IF q # <<>> /\ PipeOf[Head(q)] = p THEN Cells(Head(q), 1, w) ELSE <<>>
Begun(p) == BegunOf(todo["scanner"], written["scanner"], p)

\* The IPC thread may still receive something.
Linked == up \/ recv["ipc"] # Idle

\* rest is what was sent and not received yet.
Rests(p, rest) ==
  /\ sent[p] = got[p] \o rest
  /\ Linked => Waiting("ipc", p) \o pipe[p] = Stream(rest) \o Begun(p)

Line(p) == ~torn[p] => \E rest \in Seq(Messages) : Rests(p, rest)

\* The reader expects the message whose header it has.
Known(t, p) ==
  recv[t].from = p /\ recv[t].part = "payload" /\ ~torn[p] =>
    recv[t].need = Size[MessageOf(recv[t].cells)]

\* Nothing is begun before the first cell.
LEMMA BegunEmpty ==
  ASSUME NEW q \in Seq(Messages), NEW p
  PROVE  BegunOf(q, 0, p) = <<>>
<1>1. CASE q # <<>>
  <2>1. PICK m \in Messages : m = Head(q)
    BY <1>1, HeadTailProperties
  <2>2. Cells(m, 1, 0) \in Seq(Cell) /\ Len(Cells(m, 1, 0)) = 0
    BY FirstCells
  <2>3. Cells(m, 1, 0) = <<>>
    BY <2>2, EmptySeq
  <2>4. QED
    BY <2>1, <2>3 DEF BegunOf
<1>2. QED
  BY <1>1 DEF BegunOf

\* Between two messages of the scanner nothing is begun.
LEMMA NothingBegun ==
  ASSUME Base, NEW p, written["scanner"] = 0
  PROVE  Begun(p) = <<>>
BY BegunEmpty DEF Begun, Base, PipesTyped, Threads

\* What is begun is the beginning of a message.
LEMMA BegunIs ==
  ASSUME Base, NEW p
  PROVE  IsBeginning(Begun(p)) /\ Begun(p) \in Seq(Cell)
<1>1. IsBeginning(Begun(p))
  <2>1. CASE written["scanner"] = 0
    BY <2>1, NothingBegun DEF IsBeginning
  <2>2. CASE written["scanner"] # 0
    <3>1. SendingOK("scanner") /\ written["scanner"] \in Nat /\ todo["scanner"] \in Seq(Messages)
      BY DEF Base, PipesTyped, Threads
    <3>2. todo["scanner"] # <<>> /\ written["scanner"] < Size[Head(todo["scanner"])]
      BY <2>2, <3>1 DEF SendingOK
    <3>3. PICK m \in Messages : m = Head(todo["scanner"])
      BY <3>1, <3>2, HeadTailProperties
    <3>4. Begun(p) = <<>> \/ Begun(p) = Cells(m, 1, written["scanner"])
      BY <3>3 DEF Begun, BegunOf
    <3>5. QED
      BY <3>1, <3>2, <3>3, <3>4 DEF IsBeginning
  <2>3. QED
    BY <2>1, <2>2
<1>2. QED
  BY <1>1, BeginningType

\* Small messages are not begun, they are there or not.
LEMMA SmallNotBegun ==
  ASSUME Base, NEW p, Fits(p)
  PROVE  Begun(p) = <<>>
<1>1. CASE written["scanner"] = 0
  BY <1>1, NothingBegun
<1>2. CASE written["scanner"] # 0
  <2>1. SendingOK("scanner") /\ todo["scanner"] \in Seq(Messages)
    BY DEF Base, PipesTyped, Threads
  <2>2. todo["scanner"] # <<>> /\ PipeBuf < Size[Head(todo["scanner"])]
    BY <1>2, <2>1 DEF SendingOK
  <2>3. PICK m \in Messages : m = Head(todo["scanner"])
    BY <2>1, <2>2, HeadTailProperties
  <2>4. PipeOf[m] # p
    <3>1. Size[m] \in Nat /\ PipeBuf \in Nat
      BY SizeIs
    <3>2. ~(Size[m] <= PipeBuf)
      BY <2>2, <2>3, <3>1
    <3>3. QED
      BY <3>2 DEF Fits
  <2>5. QED
    BY <2>3, <2>4 DEF Begun, BegunOf
<1>3. QED
  BY <1>1, <1>2

\* An action that leaves the line of p alone.
LEMMA LineAlone ==
  ASSUME NEW p, Line(p), Known("ipc", p),
         pipe'[p] = pipe[p], sent'[p] = sent[p], got'[p] = got[p], torn'[p] = torn[p],
         recv'["ipc"] = recv["ipc"], Linked' => Linked, Begun(p)' = Begun(p)
  PROVE  Line(p)' /\ Known("ipc", p)'
<1>1. Waiting("ipc", p)' = Waiting("ipc", p)
  BY DEF Waiting
<1>2. Known("ipc", p)'
  BY DEF Known
<1>3. ASSUME NEW rest \in Seq(Messages), Rests(p, rest) PROVE Rests(p, rest)'
  BY <1>1, <1>3 DEF Rests
<1>4. QED
  BY <1>2, <1>3 DEF Line

\* The IPC thread works on another pipe.
LEMMA LineAside ==
  ASSUME NEW p, Line(p), recv["ipc"].from # p, recv'["ipc"].from # p,
         pipe'[p] = pipe[p], sent'[p] = sent[p], got'[p] = got[p], torn'[p] = torn[p],
         Linked' => Linked, Begun(p)' = Begun(p)
  PROVE  Line(p)' /\ Known("ipc", p)'
<1>1. Waiting("ipc", p)' = Waiting("ipc", p)
  BY DEF Waiting
<1>2. Known("ipc", p)'
  BY DEF Known
<1>3. ASSUME NEW rest \in Seq(Messages), Rests(p, rest) PROVE Rests(p, rest)'
  BY <1>1, <1>3 DEF Rests
<1>4. QED
  BY <1>2, <1>3 DEF Line

\* What the scanner has begun stays as it is.
LEMMA BegunKept ==
  ASSUME NEW p, todo'["scanner"] = todo["scanner"], written'["scanner"] = written["scanner"]
  PROVE  Begun(p)' = Begun(p)
BY DEF Begun, BegunOf

\* A write to p goes on where the last one ended.
LEMMA BegunGrows ==
  ASSUME Base, NEW t \in Threads, Send(t), NEW p \in Pipes, Orderly(p),
         NEW m \in Messages, NEW d \in Nat, m = Head(todo[t]), todo[t] # <<>>, PipeOf[m] = p,
         p \in WritesTo(t), written[t] <= d, d <= Size[m],
         Size[m] <= PipeBuf => written[t] = 0 /\ d = Size[m],
         written' = [written EXCEPT ![t] = IF d = Size[m] THEN 0 ELSE d],
         todo' = IF d = Size[m] THEN [todo EXCEPT ![t] = Tail(todo[t])] ELSE todo
  PROVE  /\ d = Size[m] => /\ Begun(p) \o Cells(m, written[t] + 1, d) = Cells(m, 1, Size[m])
                           /\ Begun(p)' = <<>>
         /\ d # Size[m] => Begun(p)' = Begun(p) \o Cells(m, written[t] + 1, d)
<1>1. Base'
  BY SendTyped
<1>2. written \in [Threads -> Nat] /\ Size[m] \in Nat
  BY SizeIs DEF Base, PipesTyped
<1>3. PICK w \in Nat : w = written[t]
  BY <1>2
<1>4. Cells(m, 1, w) \o Cells(m, w + 1, d) = Cells(m, 1, d)
  <2>1. 1 \in Nat /\ 1 <= w + 1 /\ w <= d
    BY <1>3
  <2>2. QED
    BY <2>1, CellsJoin
<1>5. CASE t = "scanner"
  <2>1. Begun(p) = Cells(m, 1, w)
    BY <1>3, <1>5 DEF Begun, BegunOf
  <2>2. CASE d = Size[m]
    <3>1. written'["scanner"] = 0
      BY <1>2, <1>5, <2>2
    <3>2. todo'["scanner"] \in Seq(Messages)
      BY <1>1 DEF Base, PipesTyped, Threads
    <3>3. BegunOf(todo'["scanner"], 0, p) = <<>>
      BY <3>2, BegunEmpty
    <3>4. Begun(p)' = <<>>
      BY <3>1, <3>3 DEF Begun
    <3>5. QED
      BY <1>3, <1>4, <2>1, <2>2, <3>4
  <2>3. CASE d # Size[m]
    <3>1. written'["scanner"] = d /\ todo' = todo
      BY <1>2, <1>5, <2>3
    <3>2. Begun(p)' = Cells(m, 1, d)
      BY <1>5, <3>1 DEF Begun, BegunOf
    <3>3. QED
      BY <1>3, <1>4, <2>1, <2>3, <3>2
  <2>4. QED
    BY <2>2, <2>3
<1>6. CASE t # "scanner"
  <2>1. p = "ctrl" /\ Fits("ctrl")
    <3>1. p # "data"
      BY <1>6 DEF WritesTo, Threads
    <3>2. QED
      BY <3>1 DEF Orderly
  <2>2. Begun(p) = <<>>
    BY <2>1, SmallNotBegun
  <2>3. w = 0 /\ d = Size[m]
    BY <1>3, <2>1 DEF Fits
  <2>4. Begun(p)' = <<>>
    <3>1. todo'["scanner"] = todo["scanner"] /\ written'["scanner"] = written["scanner"]
      BY <1>6 DEF Base, PipesTyped, Threads
    <3>2. QED
      BY <2>2, <3>1, BegunKept
  <2>5. Begun(p) \o Cells(m, w + 1, d) = Cells(m, 1, Size[m])
    <3>1. Cells(m, 1, 0) \in Seq(Cell) /\ Len(Cells(m, 1, 0)) = 0
      BY FirstCells
    <3>2. Cells(m, 1, 0) = <<>>
      BY <3>1, EmptySeq
    <3>3. QED
      BY <1>4, <2>2, <2>3, <3>2
  <2>6. QED
    BY <1>3, <2>3, <2>4, <2>5
<1>7. QED
  BY <1>5, <1>6

\* An element at the end of two sequences.
LEMMA AppendJoin ==
  ASSUME NEW W, NEW s \in Seq(W), NEW t \in Seq(Messages), NEW e \in Messages
  PROVE  Append(s \o t, e) = s \o Append(t, e)
OBVIOUS

\* A write adds to the pipe what it adds to the messages on their way.
LEMMA SendLine ==
  ASSUME Base, NEW p \in {"data", "ctrl"}, Orderly(p), Line(p), Known("ipc", p),
         NEW t \in Threads, Send(t)
  PROVE  Line(p)' /\ Known("ipc", p)'
<1>1. PICK m \in Messages, d \in Nat :
           /\ todo[t] # <<>> /\ m = Head(todo[t]) /\ PipeOf[m] \in WritesTo(t)
           /\ written[t] <= d /\ d <= Size[m]
           /\ Size[m] <= PipeBuf => written[t] = 0 /\ d = Size[m]
                                    /\ Len(pipe[PipeOf[m]]) + Size[m] <= Room
           /\ pipe' = [pipe EXCEPT ![PipeOf[m]] = pipe[PipeOf[m]] \o Cells(m, written[t] + 1, d)]
           /\ written' = [written EXCEPT ![t] = IF d = Size[m] THEN 0 ELSE d]
           /\ d = Size[m] => /\ todo' = [todo EXCEPT ![t] = Tail(todo[t])]
                             /\ sent' = [sent EXCEPT ![PipeOf[m]] = Append(sent[PipeOf[m]], m)]
           /\ d # Size[m] => todo' = todo /\ sent' = sent /\ PipeBuf < Size[m]
  BY SendDoes
<1>2. UNCHANGED <<recv, up, got, torn>>
  BY DEF Send
<1>3. PICK q \in Pipes : q = PipeOf[m]
  BY SizeIs
<1>4. p \in Pipes
  BY DEF Pipes
<1>5. /\ pipe \in [Pipes -> Seq(Cell)] /\ sent \in [Pipes -> Seq(Messages)]
      /\ written \in [Threads -> Nat] /\ todo \in [Threads -> Seq(Messages)]
  BY DEF Base, PipesTyped
<1>6. Linked' = Linked /\ Waiting("ipc", p)' = Waiting("ipc", p)
  BY <1>2 DEF Linked, Waiting
<1>7. Known("ipc", p)'
  BY <1>2 DEF Known
<1>8. CASE q # p
  <2>1. pipe'[p] = pipe[p] /\ sent'[p] = sent[p]
    BY <1>1, <1>3, <1>4, <1>5, <1>8
  <2>2. Begun(p)' = Begun(p)
    <3>1. CASE t # "scanner"
      <4>1. todo'["scanner"] = todo["scanner"] /\ written'["scanner"] = written["scanner"]
        BY <1>1, <1>5, <3>1 DEF Threads
      <4>2. QED
        BY <4>1, BegunKept
    <3>2. CASE t = "scanner"
      <4>1. Begun(p) = <<>>
        BY <1>1, <1>3, <1>8, <3>2 DEF Begun, BegunOf
      <4>2. CASE d = Size[m]
        <5>1. written'["scanner"] = 0
          BY <1>1, <1>5, <3>2, <4>2
        <5>2. todo'["scanner"] = Tail(todo["scanner"]) /\ Tail(todo["scanner"]) \in Seq(Messages)
          BY <1>1, <1>5, <3>2, <4>2, HeadTailProperties
        <5>3. BegunOf(todo'["scanner"], 0, p) = <<>>
          BY <5>2, BegunEmpty
        <5>4. QED
          BY <4>1, <5>1, <5>3 DEF Begun
      <4>3. CASE d # Size[m]
        <5>1. Begun(p)' = <<>>
          BY <1>1, <1>3, <1>8, <3>2, <4>3 DEF Begun, BegunOf
        <5>2. QED
          BY <4>1, <5>1
      <4>4. QED
        BY <4>2, <4>3
    <3>3. QED
      BY <3>1, <3>2
  <2>3. QED
    BY <1>2, <1>6, <2>1, <2>2, LineAlone
<1>9. CASE q = p
  <2>1. PICK n \in Seq(Cell) : n = Cells(m, written[t] + 1, d)
    <3>1. written[t] + 1 \in Nat /\ written[t] + 1 <= d + 1
      BY <1>1, <1>5
    <3>2. QED
      BY <3>1, CellsAre
  <2>2. pipe'[p] = pipe[p] \o n
    BY <1>1, <1>3, <1>5, <1>9, <2>1
  <2>3. /\ d = Size[m] => Begun(p) \o n = Cells(m, 1, Size[m]) /\ Begun(p)' = <<>>
        /\ d # Size[m] => Begun(p)' = Begun(p) \o n
    <3>1. todo' = IF d = Size[m] THEN [todo EXCEPT ![t] = Tail(todo[t])] ELSE todo
      BY <1>1
    <3>2. Size[m] <= PipeBuf => written[t] = 0 /\ d = Size[m]
      BY <1>1
    <3>3. m = Head(todo[t]) /\ todo[t] # <<>> /\ PipeOf[m] = p /\ p \in WritesTo(t)
          /\ written[t] <= d /\ d <= Size[m]
          /\ written' = [written EXCEPT ![t] = IF d = Size[m] THEN 0 ELSE d]
      BY <1>1, <1>3, <1>9
    <3>4. QED
      BY <1>4, <2>1, <3>1, <3>2, <3>3, BegunGrows
  <2>4. ASSUME NEW rest \in Seq(Messages), Rests(p, rest)
        PROVE  \E more \in Seq(Messages) : Rests(p, more)'
    <3>1. PICK a \in Seq(Cell) : a = Waiting("ipc", p)
      <4>1. recv["ipc"].cells \in Seq(Cell) /\ <<>> \in Seq(Cell)
        BY DEF Base, PipesTyped, Reception, Readers
      <4>2. QED
        BY <4>1 DEF Waiting
    <3>2. PICK b \in Seq(Cell) : b = Begun(p)
      BY BegunIs
    <3>3. PICK s \in Seq(Cell) : s = Stream(rest)
      BY StreamType
    <3>4. PICK c \in Seq(Cell) : c = pipe[p]
      BY <1>4, <1>5
    <3>5. a \o (c \o n) = (a \o c) \o n /\ (s \o b) \o n = s \o (b \o n)
      <4>1. a \o (c \o n) = (a \o c) \o n
        BY CellsAssociate, Zenon
      <4>2. (s \o b) \o n = s \o (b \o n)
        BY CellsAssociate, Zenon
      <4>3. QED
        BY <4>1, <4>2
    <3>6. Linked => a \o (c \o n) = s \o (b \o n)
      BY <2>4, <3>1, <3>2, <3>3, <3>4, <3>5 DEF Rests
    <3>7. CASE d = Size[m]
      <4>1. PICK more \in Seq(Messages) : more = Append(rest, m)
        BY AppendProperties
      <4>2. Stream(more) = s \o (b \o n)
        BY <2>3, <3>2, <3>3, <3>7, <4>1, StreamAppend
      <4>3. Stream(more) \o Begun(p)' = Stream(more)
        <5>1. Stream(more) \in Seq(Cell)
          BY StreamType
        <5>2. QED
          BY <2>3, <3>7, <5>1, ConcatEmptySeq
      <4>4. sent'[p] = got'[p] \o more
        <5>1. sent'[p] = Append(sent[p], m)
          BY <1>1, <1>3, <1>5, <1>9, <3>7
        <5>2. sent[p] = got[p] \o rest /\ got[p] \in Seq(Messages \cup {Garbage})
          BY <1>4, <2>4 DEF Rests, Base, PipesTyped
        <5>3. got'[p] = got[p]
          BY <1>2
        <5>4. Append(got[p] \o rest, m) = got[p] \o Append(rest, m)
          <6>1. PICK W : W = Messages \cup {Garbage}
            OBVIOUS
          <6>2. got[p] \in Seq(W)
            BY <5>2, <6>1
          <6>3. PICK g \in Seq(W) : g = got[p]
            BY <6>2
          <6>4. Append(g \o rest, m) = g \o Append(rest, m)
            BY ONLY g \in Seq(W), rest \in Seq(Messages), m \in Messages, AppendJoin
          <6>5. QED
            BY <6>3, <6>4
        <5>5. QED
          BY <4>1, <5>1, <5>2, <5>3, <5>4
      <4>5. Linked' => Waiting("ipc", p)' \o pipe'[p] = Stream(more) \o Begun(p)'
        BY <1>6, <2>2, <3>1, <3>4, <3>6, <4>2, <4>3
      <4>6. Rests(p, more)'
        BY <4>4, <4>5 DEF Rests
      <4>7. QED
        BY <4>6
    <3>8. CASE d # Size[m]
      <4>1. sent'[p] = got'[p] \o rest
        BY <1>1, <1>2, <2>4, <3>8 DEF Rests
      <4>2. Linked' => Waiting("ipc", p)' \o pipe'[p] = Stream(rest) \o Begun(p)'
        BY <1>6, <2>2, <2>3, <3>1, <3>2, <3>3, <3>4, <3>6, <3>8
      <4>3. Rests(p, rest)'
        BY <4>1, <4>2 DEF Rests
      <4>4. QED
        BY <4>3
    <3>9. QED
      BY <3>7, <3>8
  <2>5. Line(p)'
    BY <1>2, <2>4 DEF Line
  <2>6. QED
    BY <1>7, <2>5
<1>10. QED
  BY <1>8, <1>9

\* A dropped message never was in the pipe.
LEMMA GiveUpSendLine ==
  ASSUME Base, NEW p \in {"data", "ctrl"}, Line(p), Known("ipc", p),
         NEW t \in Threads, GiveUpSend(t)
  PROVE  Line(p)' /\ Known("ipc", p)'
<1>1. todo[t] # <<>> /\ written[t] = 0 /\ todo' = [todo EXCEPT ![t] = Tail(todo[t])]
      /\ UNCHANGED <<pipe, written, recv, drain, up, serving, sent, got, torn>>
  BY DEF GiveUpSend, Sending
<1>2. todo \in [Threads -> Seq(Messages)]
  BY DEF Base, PipesTyped
<1>3. Begun(p)' = Begun(p)
  <2>1. CASE t # "scanner"
    <3>1. todo'["scanner"] = todo["scanner"] /\ written'["scanner"] = written["scanner"]
      BY <1>1, <1>2, <2>1 DEF Threads
    <3>2. QED
      BY <3>1, BegunKept
  <2>2. CASE t = "scanner"
    <3>1. Begun(p) = <<>>
      BY <1>1, <2>2, NothingBegun
    <3>2. todo'["scanner"] \in Seq(Messages) /\ written'["scanner"] = 0
      <4>1. Tail(todo[t]) \in Seq(Messages)
        BY <1>1, <1>2, HeadTailProperties
      <4>2. QED
        BY <1>1, <1>2, <2>2, <4>1
    <3>3. BegunOf(todo'["scanner"], 0, p) = <<>>
      BY <3>2, BegunEmpty
    <3>4. QED
      BY <3>1, <3>2, <3>3 DEF Begun
  <2>3. QED
    BY <2>1, <2>2
<1>4. Linked' => Linked
  BY <1>1 DEF Linked
<1>5. QED
  BY <1>1, <1>3, <1>4, LineAlone

\* The worker's main thread and the drain touch cmd only.
LEMMA CmdAside ==
  ASSUME Base, NEW p \in {"data", "ctrl"}, Line(p), Known("ipc", p),
         \A q \in {"data", "ctrl"} :
           pipe'[q] = pipe[q] /\ got'[q] = got[q] /\ torn'[q] = torn[q],
         recv'["ipc"] = recv["ipc"], up' => up,
         UNCHANGED <<sent, todo, written>>
  PROVE  Line(p)' /\ Known("ipc", p)'
<1>1. Begun(p)' = Begun(p)
  BY BegunKept
<1>2. Linked' => Linked
  BY DEF Linked
<1>3. QED
  BY <1>1, <1>2, LineAlone

\* What a reader has belongs to its pipe.
LEMMA WaitingIs ==
  ASSUME Base, NEW t \in Readers, NEW p
  PROVE  /\ recv[t].from # p => Waiting(t, p) = <<>>
         /\ recv[t].from = p => Waiting(t, p) = recv[t].cells
         /\ Waiting(t, p) \in Seq(Cell) /\ recv[t].cells \in Seq(Cell)
<1>1. recv[t].cells \in Seq(Cell) /\ <<>> \in Seq(Cell)
  BY DEF Base, PipesTyped, Reception
<1>2. QED
  BY <1>1 DEF Waiting

\* A reader between two messages has nothing.
LEMMA IdleFrom == Idle.from = "none" /\ Idle.part = "header" /\ Idle.cells = <<>>
BY DEF Idle

\* A reader that reads has what it shows.
LEMMA TakesIs ==
  ASSUME Base, NEW t \in Readers, NEW p \in Pipes, NEW r \in Reception, NEW n \in Nat,
         Takes(t, p, r, n)
  PROVE  /\ Waiting(t, p) = r.cells /\ (recv[t] = Idle => up)
         /\ \A q \in Pipes : q # p => recv[t].from # q
         /\ r.part = "payload" => r = recv[t] /\ Len(r.cells) >= 1
<1>1. r.from = p /\ SoFar(r, t)
  BY DEF Takes
<1>2. CASE r = recv[t] /\ recv[t] # Idle
  <2>1. ReceptionOK(recv[t], t)
    BY DEF Base
  <2>2. p # "none"
    BY DEF Pipes
  <2>3. QED
    BY <1>1, <1>2, <2>1, <2>2 DEF Waiting, ReceptionOK
<1>3. CASE r = Fresh(p) /\ recv[t] = Idle /\ up
  <2>1. recv[t].from = "none" /\ r.part = "header" /\ r.cells = <<>>
    BY <1>3, IdleFrom, FreshIs
  <2>2. \A q \in Pipes : q # "none"
    BY DEF Pipes
  <2>3. QED
    BY <1>3, <2>1, <2>2 DEF Waiting
<1>4. QED
  BY <1>1, <1>2, <1>3 DEF SoFar

\* A read does not change what is unread.
LEMMA TakesKeeps ==
  ASSUME Base, NEW t \in Readers, NEW p \in Pipes, NEW r \in Reception, NEW n \in Nat,
         Takes(t, p, r, n),
         pipe' = [pipe EXCEPT ![p] = SubSeq(pipe[p], n + 1, Len(pipe[p]))],
         recv' = [recv EXCEPT ![t] = [r EXCEPT !.cells = r.cells \o SubSeq(pipe[p], 1, n)]]
  PROVE  /\ Waiting(t, p)' \o pipe'[p] = Waiting(t, p) \o pipe[p]
         /\ recv'[t].from = p /\ recv'[t].part = r.part /\ recv'[t].need = r.need
         /\ Len(r.cells) >= 1 => MessageOf(recv'[t].cells) = MessageOf(r.cells)
         /\ recv'[t] # Idle
<1>1. PICK x \in Reception :
           /\ x = [r EXCEPT !.cells = r.cells \o SubSeq(pipe[p], 1, n)] /\ ReceptionOK(x, t)
           /\ x.from = p /\ x.part = r.part /\ x.need = r.need
           /\ x.cells = r.cells \o SubSeq(pipe[p], 1, n) /\ Len(x.cells) = Len(r.cells) + n
  <2>1. PICK x \in Reception : Longer(t, p, r, n, x)
    BY MoreRead
  <2>2. QED
    BY <2>1 DEF Longer
<1>2. recv'[t] = x
  BY <1>1 DEF Base, PipesTyped
<1>3. pipe[p] \in Seq(Cell) /\ r.cells \in Seq(Cell)
  BY DEF Base, PipesTyped, Reception
<1>4. n <= Len(pipe[p])
  BY DEF Takes
<1>5. /\ SubSeq(pipe[p], 1, n) \in Seq(Cell)
      /\ (r.cells \o SubSeq(pipe[p], 1, n)) \o SubSeq(pipe[p], n + 1, Len(pipe[p])) = r.cells \o pipe[p]
  BY <1>3, <1>4, ReadKeeps
<1>6. pipe'[p] = SubSeq(pipe[p], n + 1, Len(pipe[p]))
  BY DEF Base, PipesTyped
<1>7. Waiting(t, p)' = x.cells
  BY <1>1, <1>2 DEF Waiting
<1>8. Waiting(t, p) = r.cells
  BY TakesIs
<1>9. x # Idle
  <2>1. p # "none"
    BY DEF Pipes
  <2>2. QED
    BY <1>1, <2>1, IdleFrom
<1>10. Len(r.cells) >= 1 => MessageOf(x.cells) = MessageOf(r.cells)
  <2>1. SUFFICES ASSUME Len(r.cells) >= 1 PROVE MessageOf(x.cells) = MessageOf(r.cells)
    OBVIOUS
  <2>2. PICK c \in Seq(Cell) : c = r.cells
    BY <1>3
  <2>3. PICK k \in Nat : k = Len(c)
    BY LenProperties
  <2>4. PICK s \in Seq(Cell) : s = SubSeq(pipe[p], 1, n)
    BY <1>5
  <2>5. PICK u : u = c \o s
    OBVIOUS
  <2>6. \A i \in 1 .. k : u[i] = c[i]
    BY <2>3, <2>5, JoinedFirst
  <2>7. 1 \in 1 .. k
    BY <2>1, <2>2, <2>3
  <2>8. u[1] = c[1]
    BY <2>6, <2>7
  <2>9. Head(u) = u[1] /\ Head(c) = c[1]
    OBVIOUS
  <2>10. x.cells = u
    BY <1>1, <2>2, <2>4, <2>5
  <2>11. QED
    BY <2>2, <2>8, <2>9, <2>10 DEF MessageOf
<1>11. QED
  BY <1>1, <1>2, <1>5, <1>6, <1>7, <1>8, <1>9, <1>10

\* A read moves cells from the pipe to the reader.
LEMMA ReceiveLine ==
  ASSUME Base, NEW p \in {"data", "ctrl"}, Line(p), Known("ipc", p),
         NEW t \in Readers, StartReceive(t) \/ ReceiveMore(t)
  PROVE  Line(p)' /\ Known("ipc", p)'
<1>1. PICK q \in Pipes, r \in Reception, n \in Nat :
           /\ Takes(t, q, r, n)
           /\ pipe' = [pipe EXCEPT ![q] = SubSeq(pipe[q], n + 1, Len(pipe[q]))]
           /\ recv' = [recv EXCEPT ![t] = [r EXCEPT !.cells = r.cells \o SubSeq(pipe[q], 1, n)]]
           /\ torn' = [torn EXCEPT !["cmd"] = torn["cmd"] \/ (q = "cmd" /\ drain.state = "payload")]
           /\ UNCHANGED <<todo, written, drain, up, serving, sent, got>>
  BY ReceiveDoes
<1>2. /\ pipe \in [Pipes -> Seq(Cell)] /\ torn \in [Pipes -> BOOLEAN]
      /\ recv \in [Readers -> Reception]
  BY DEF Base, PipesTyped
<1>3. p \in Pipes /\ p # "cmd" /\ "ipc" \in Readers
  BY DEF Pipes, Readers
<1>4. torn'[p] = torn[p]
  BY <1>1, <1>2, <1>3
<1>5. Begun(p)' = Begun(p)
  BY <1>1, BegunKept
<1>6. CASE t # "ipc"
  <2>1. recv'["ipc"] = recv["ipc"]
    BY <1>1, <1>2, <1>3, <1>6
  <2>2. q = "cmd"
    BY <1>1, <1>6 DEF Takes, ReadsFrom, Readers
  <2>3. pipe'[p] = pipe[p]
    BY <1>1, <1>2, <1>3, <2>2
  <2>4. Linked' => Linked
    BY <1>1, <2>1 DEF Linked
  <2>5. QED
    BY <1>1, <1>4, <1>5, <2>1, <2>3, <2>4, LineAlone
<1>7. CASE t = "ipc" /\ q # p
  <2>1. /\ recv[t] = Idle => up
        /\ \A s \in Pipes : s # q => recv[t].from # s
    BY <1>1, TakesIs
  <2>2. recv'[t].from = q
    BY <1>1, TakesKeeps
  <2>3. recv["ipc"].from # p /\ recv'["ipc"].from # p
    BY <1>3, <1>7, <2>1, <2>2
  <2>4. pipe'[p] = pipe[p]
    BY <1>1, <1>2, <1>3, <1>7
  <2>5. Linked
    BY <1>7, <2>1 DEF Linked
  <2>6. QED
    BY <1>1, <1>4, <1>5, <2>3, <2>4, <2>5, LineAside
<1>8. CASE t = "ipc" /\ q = p
  <2>1. /\ recv[t] = Idle => up
        /\ r.part = "payload" => r = recv[t] /\ Len(r.cells) >= 1
    BY <1>1, TakesIs
  <2>2. /\ Waiting(t, p)' \o pipe'[p] = Waiting(t, p) \o pipe[p]
        /\ recv'[t].from = p /\ recv'[t].part = r.part /\ recv'[t].need = r.need
        /\ Len(r.cells) >= 1 => MessageOf(recv'[t].cells) = MessageOf(r.cells)
    <3>1. /\ Waiting(t, q)' \o pipe'[q] = Waiting(t, q) \o pipe[q]
          /\ recv'[t].from = q /\ recv'[t].part = r.part /\ recv'[t].need = r.need
          /\ Len(r.cells) >= 1 => MessageOf(recv'[t].cells) = MessageOf(r.cells)
          /\ recv'[t] # Idle
      BY <1>1, TakesKeeps
    <3>2. QED
      BY <1>8, <3>1
  <2>3. Linked
    BY <1>8, <2>1 DEF Linked
  <2>4. ASSUME NEW rest \in Seq(Messages), Rests(p, rest) PROVE Rests(p, rest)'
    <3>1. Waiting("ipc", p)' \o pipe'[p] = Stream(rest) \o Begun(p)'
      BY <1>5, <1>8, <2>2, <2>3, <2>4 DEF Rests
    <3>2. sent'[p] = got'[p] \o rest
      BY <1>1, <2>4 DEF Rests
    <3>3. QED
      BY <3>1, <3>2 DEF Rests
  <2>5. Line(p)'
    BY <1>4, <2>4 DEF Line
  <2>6. Known("ipc", p)'
    <3>1. SUFFICES ASSUME recv'["ipc"].part = "payload", ~torn'[p]
                   PROVE  recv'["ipc"].need = Size[MessageOf(recv'["ipc"].cells)]
      BY DEF Known
    <3>2. r = recv["ipc"] /\ Len(r.cells) >= 1 /\ r.part = "payload" /\ r.from = p
      BY <1>1, <1>8, <2>1, <2>2, <3>1 DEF Takes
    <3>3. recv["ipc"].need = Size[MessageOf(recv["ipc"].cells)]
      BY <1>4, <3>1, <3>2 DEF Known
    <3>4. QED
      BY <1>8, <2>2, <3>2, <3>3
  <2>7. QED
    BY <2>5, <2>6
<1>9. QED
  BY <1>6, <1>7, <1>8

\* A receive that gives up is a torn pipe.
LEMMA GiveUpReceiveLine ==
  ASSUME Base, NEW p \in {"data", "ctrl"}, Line(p), Known("ipc", p),
         NEW t \in Readers, GiveUpReceive(t)
  PROVE  Line(p)' /\ Known("ipc", p)'
<1>1. /\ recv[t] # Idle /\ up
      /\ recv' = [recv EXCEPT ![t] = Idle] /\ torn' = [torn EXCEPT ![recv[t].from] = TRUE]
      /\ UNCHANGED <<pipe, todo, written, drain, up, sent, got>>
  BY DEF GiveUpReceive
<1>2. torn \in [Pipes -> BOOLEAN] /\ recv \in [Readers -> Reception]
  BY DEF Base, PipesTyped
<1>3. p \in Pipes /\ p # "cmd" /\ "ipc" \in Readers /\ p # "none"
  BY DEF Pipes, Readers
<1>4. Begun(p)' = Begun(p)
  BY <1>1, BegunKept
<1>5. Linked
  BY <1>1 DEF Linked
<1>6. recv[t].from \in ReadsFrom(t)
  BY <1>1 DEF Base, ReceptionOK
<1>7. CASE t # "ipc"
  <2>1. recv[t].from = "cmd"
    BY <1>6, <1>7 DEF ReadsFrom
  <2>2. torn'[p] = torn[p] /\ recv'["ipc"] = recv["ipc"]
    BY <1>1, <1>2, <1>3, <1>7, <2>1
  <2>3. QED
    BY <1>1, <1>4, <1>5, <2>2, LineAlone
<1>8. CASE t = "ipc" /\ recv[t].from # p
  <2>1. torn'[p] = torn[p] /\ recv'["ipc"] = Idle
    BY <1>1, <1>2, <1>3, <1>8
  <2>2. recv["ipc"].from # p /\ recv'["ipc"].from # p
    BY <1>3, <1>8, <2>1, IdleFrom
  <2>3. QED
    BY <1>1, <1>4, <1>5, <2>1, <2>2, LineAside
<1>9. CASE t = "ipc" /\ recv[t].from = p
  <2>1. torn'[p] = TRUE
    BY <1>1, <1>2, <1>3, <1>9
  <2>2. QED
    BY <2>1 DEF Line, Known
<1>10. QED
  BY <1>7, <1>8, <1>9

\* c, which was read, is the front of a message that really was sent, and q, which
\* was not, what comes behind it.
Fronts(c, q, rest, b) ==
  /\ IsHeader(SubSeq(c, 1, HeaderSize)) /\ MessageOf(c) \in Messages
  /\ Len(c) <= Size[MessageOf(c)] => c = Cells(MessageOf(c), 1, Len(c))
  /\ Len(c) = Size[MessageOf(c)] =>
       \E more \in Seq(Messages) : rest = <<MessageOf(c)>> \o more /\ q = Stream(more) \o b

\* A whole header at the front is that of the first message on its way.
LEMMA FrontMessage ==
  ASSUME NEW c \in Seq(Cell), NEW q \in Seq(Cell), NEW rest \in Seq(Messages),
         NEW b \in Seq(Cell), IsBeginning(b), c \o q = Stream(rest) \o b, Len(c) >= HeaderSize
  PROVE  Fronts(c, q, rest, b)
<1>1. PICK u : u = c \o q
  OBVIOUS
<1>2. u = Stream(rest) \o b
  BY <1>1
<1>3. PICK l \in Nat : l = Len(c)
  BY LenProperties
<1>4. Len(u) = l + Len(q) /\ Len(q) \in Nat
  BY <1>1, <1>3, ConcatProperties, LenProperties
<1>5. l >= 2
  BY <1>3, SizeIs
<1>6. u # <<>>
  BY <1>4, <1>5
<1>7. PICK x \in Messages :
          /\ u \in Seq(Cell) /\ Starts(u, x)
          /\ Len(u) >= Size[x] =>
               \E more \in Seq(Messages) :
                 rest = <<x>> \o more /\ u = Cells(x, 1, Size[x]) \o (Stream(more) \o b)
  <2>1. PICK x \in Messages : First(x, u, rest, b)
    BY <1>2, <1>6, FirstMessage
  <2>2. QED
    BY <2>1 DEF First
<1>8. Starts(c, x)
  BY <1>1, <1>7, StartsRead
<1>9. IsHeader(SubSeq(c, 1, HeaderSize)) /\ MessageOf(c) = x
  <2>1. HeaderSize <= Len(c)
    BY <1>3, SizeIs
  <2>2. QED
    BY <1>8, <2>1, HeaderOf
<1>10. l <= Size[x] => c = Cells(x, 1, l)
  <2>1. SUFFICES ASSUME l <= Size[x] PROVE c = Cells(x, 1, l)
    OBVIOUS
  <2>2. l <= Len(c)
    BY <1>3
  <2>3. SubSeq(c, 1, l) = Cells(x, 1, l)
    BY <1>8, <2>1, <2>2, StartIsFirst
  <2>4. SubSeq(c, 1, l) = c
    BY <1>3, SubSeqFull
  <2>5. QED
    BY <2>3, <2>4
<1>11. ASSUME l = Size[x]
       PROVE  \E more \in Seq(Messages) : rest = <<x>> \o more /\ q = Stream(more) \o b
  <2>1. Len(u) >= Size[x]
    BY <1>4, <1>11, SizeIs
  <2>2. PICK more \in Seq(Messages) :
          rest = <<x>> \o more /\ u = Cells(x, 1, Size[x]) \o (Stream(more) \o b)
    BY <1>7, <2>1
  <2>3. PICK d \in Seq(Cell) : d = Cells(x, 1, Size[x])
    BY WholeCells
  <2>4. PICK v \in Seq(Cell) : v = Stream(more) \o b
    <3>1. Stream(more) \in Seq(Cell)
      BY StreamType
    <3>2. QED
      BY <3>1, ConcatProperties
  <2>5. Len(c) = Len(d)
    BY <1>3, <1>11, <2>3, WholeCells
  <2>6. c \o q = d \o v
    BY <1>1, <2>2, <2>3, <2>4
  <2>7. q = v
    BY <2>5, <2>6, CutAlike
  <2>8. QED
    BY <2>2, <2>4, <2>7
<1>12. QED
  BY <1>3, <1>9, <1>10, <1>11 DEF Fronts

\* The IPC thread is in a message that really was sent.
LEMMA MessageIs ==
  ASSUME Base, NEW p \in Pipes, Linked, recv["ipc"].from = p, Len(recv["ipc"].cells) >= HeaderSize,
         NEW rest \in Seq(Messages), Rests(p, rest), NEW c, c = recv["ipc"].cells
  PROVE  Fronts(c, pipe[p], rest, Begun(p))
<1>1. c \in Seq(Cell) /\ pipe[p] \in Seq(Cell)
  BY DEF Base, PipesTyped, Reception, Readers
<1>2. IsBeginning(Begun(p)) /\ Begun(p) \in Seq(Cell)
  BY BegunIs
<1>3. c \o pipe[p] = Stream(rest) \o Begun(p)
  <2>1. Waiting("ipc", p) = c
    BY DEF Waiting
  <2>2. QED
    BY <2>1 DEF Rests
<1>4. QED
  BY <1>1, <1>2, <1>3, FrontMessage

\* So is the main thread of the worker.
LEMMA CommandIs ==
  ASSUME Base, recv["main"].from = "cmd", Len(recv["main"].cells) >= HeaderSize,
         NEW rest \in Seq(Messages), Waiting("main", "cmd") \o pipe["cmd"] = Stream(rest),
         NEW c, c = recv["main"].cells
  PROVE  Fronts(c, pipe["cmd"], rest, <<>>)
<1>1. c \in Seq(Cell) /\ pipe["cmd"] \in Seq(Cell)
  BY DEF Base, PipesTyped, Reception, Readers, Pipes
<1>2. IsBeginning(<<>>) /\ <<>> \in Seq(Cell)
  BY DEF IsBeginning
<1>3. c \o pipe["cmd"] = Stream(rest) \o <<>>
  <2>1. Waiting("main", "cmd") = c
    BY DEF Waiting
  <2>2. Stream(rest) \in Seq(Cell)
    BY StreamType
  <2>3. Stream(rest) \o <<>> = Stream(rest)
    BY <2>2, ConcatEmptySeq
  <2>4. QED
    BY <2>1, <2>3
<1>4. QED
  BY <1>1, <1>2, <1>3, FrontMessage

\* So the length that is read is the length of that message.
LEMMA ParseHeaderLine ==
  ASSUME Base, NEW p \in {"data", "ctrl"}, Line(p), Known("ipc", p),
         NEW t \in Readers, ParseHeader(t)
  PROVE  Line(p)' /\ Known("ipc", p)'
<1>1. PICK x \in Reception :
           /\ ReceptionOK(x, t) /\ recv' = [recv EXCEPT ![t] = x]
           /\ recv[t].from \in ReadsFrom(t) /\ Len(recv[t].cells) = HeaderSize
           /\ x.from = recv[t].from /\ x.cells = recv[t].cells /\ x.part = "payload"
           /\ IsHeader(x.cells) => x.need = Size[MessageOf(x.cells)]
           /\ UNCHANGED <<pipe, todo, written, drain, up, sent, got, torn>>
  BY ParseHeaderDoes
<1>2. recv \in [Readers -> Reception]
  BY DEF Base, PipesTyped
<1>3. p \in Pipes /\ p # "cmd" /\ "ipc" \in Readers
  BY DEF Pipes, Readers
<1>4. Begun(p)' = Begun(p)
  BY <1>1, BegunKept
<1>5. CASE t # "ipc"
  <2>1. recv'["ipc"] = recv["ipc"]
    BY <1>1, <1>2, <1>3, <1>5
  <2>2. Linked' => Linked
    BY <1>1, <2>1 DEF Linked
  <2>3. QED
    BY <1>1, <1>4, <2>1, <2>2, LineAlone
<1>6. CASE t = "ipc"
  <2>1. recv'["ipc"] = x
    BY <1>1, <1>2, <1>3, <1>6
  <2>2. Linked
    <3>1. recv["ipc"] # Idle
      <4>1. Len(<<>>) = 0
        OBVIOUS
      <4>2. QED
        BY <1>1, <1>6, <4>1, IdleFrom, SizeIs
    <3>2. QED
      BY <3>1 DEF Linked
  <2>3. Waiting("ipc", p)' = Waiting("ipc", p)
    BY <1>1, <1>6, <2>1 DEF Waiting
  <2>4. ASSUME NEW rest \in Seq(Messages), Rests(p, rest) PROVE Rests(p, rest)'
    BY <1>1, <1>4, <2>2, <2>3, <2>4 DEF Rests
  <2>5. Line(p)'
    BY <1>1, <2>4 DEF Line
  <2>6. Known("ipc", p)'
    <3>1. SUFFICES ASSUME recv'["ipc"].from = p, ~torn'[p]
                   PROVE  recv'["ipc"].need = Size[MessageOf(recv'["ipc"].cells)]
      BY DEF Known
    <3>2. recv["ipc"].from = p /\ ~torn[p]
      BY <1>1, <1>6, <2>1, <3>1
    <3>3. PICK rest \in Seq(Messages) : Rests(p, rest)
      BY <3>2 DEF Line
    <3>4. PICK c \in Seq(Cell) : c = recv["ipc"].cells
      BY <1>2, <1>3 DEF Reception
    <3>5. Len(c) = HeaderSize /\ Len(recv["ipc"].cells) >= HeaderSize
      BY <1>1, <1>6, <3>4, SizeIs
    <3>6. IsHeader(SubSeq(c, 1, HeaderSize))
      BY <1>3, <2>2, <3>2, <3>3, <3>4, <3>5, MessageIs DEF Fronts
    <3>7. SubSeq(c, 1, HeaderSize) = c
      BY <3>5, SubSeqFull
    <3>8. QED
      BY <1>1, <1>6, <2>1, <3>4, <3>6, <3>7
  <2>7. QED
    BY <2>5, <2>6
<1>7. QED
  BY <1>5, <1>6

\* What the IPC thread hands on is the oldest message it has not received yet.
LEMMA HandsOn ==
  ASSUME Base, NEW p \in Pipes, Line(p), Known("ipc", p), ~torn[p], recv["ipc"].from = p,
         NEW h \in Seq(Messages \cup {Garbage}),
         recv["ipc"].part = "payload", Len(recv["ipc"].cells) = recv["ipc"].need,
         HeaderSize <= Len(recv["ipc"].cells),
         Whole(recv["ipc"].cells) => h = <<MessageOf(recv["ipc"].cells)>>
  PROVE  \E x \in Messages, more \in Seq(Messages) :
           h = <<x>> /\ sent[p] = got[p] \o (<<x>> \o more) /\ pipe[p] = Stream(more) \o Begun(p)
<1>1. PICK rest \in Seq(Messages) : Rests(p, rest)
  BY DEF Line
<1>2. PICK c \in Seq(Cell) : c = recv["ipc"].cells
  BY DEF Base, PipesTyped, Reception, Readers
<1>3. Linked
  <2>1. recv["ipc"] # Idle
    BY IdleFrom
  <2>2. QED
    BY <2>1 DEF Linked
<1>4. Len(c) = Size[MessageOf(c)]
  BY <1>2 DEF Known
<1>5. Len(recv["ipc"].cells) >= HeaderSize
  BY <1>2, SizeIs, LenProperties
<1>6. /\ IsHeader(SubSeq(c, 1, HeaderSize)) /\ MessageOf(c) \in Messages
      /\ Len(c) <= Size[MessageOf(c)] => c = Cells(MessageOf(c), 1, Len(c))
      /\ Len(c) = Size[MessageOf(c)] =>
           \E more \in Seq(Messages) :
             rest = <<MessageOf(c)>> \o more /\ pipe[p] = Stream(more) \o Begun(p)
  BY <1>1, <1>2, <1>3, <1>5, MessageIs DEF Fronts
<1>7. PICK x \in Messages : x = MessageOf(c)
  BY <1>6
<1>8. PICK more \in Seq(Messages) : rest = <<x>> \o more /\ pipe[p] = Stream(more) \o Begun(p)
  BY <1>4, <1>6, <1>7
<1>9. c = Cells(MessageOf(c), 1, Len(c))
  BY <1>4, <1>6, <1>7, SizeIs
<1>10. h = <<x>>
  BY <1>2, <1>6, <1>7, <1>9 DEF Whole
<1>11. sent[p] = got[p] \o rest
  BY <1>1 DEF Rests
<1>12. QED
  BY <1>8, <1>10, <1>11

\* Concatenation is associative.
LEMMA ThreeJoined ==
  ASSUME NEW W, NEW r \in Seq(W), NEW s \in Seq(W), NEW t \in Seq(Messages)
  PROVE  (r \o s) \o t = r \o (s \o t)
OBVIOUS

\* The message that is handed on is the first on its way.
LEMMA DeliverLine ==
  ASSUME Base, NEW p \in {"data", "ctrl"}, Line(p), Known("ipc", p),
         NEW t \in Readers, Deliver(t)
  PROVE  Line(p)' /\ Known("ipc", p)'
<1>1. PICK h \in Seq(Messages \cup {Garbage}) :
           /\ recv[t].from \in ReadsFrom(t) /\ recv[t].from \in Pipes
           /\ recv[t].part = "payload" /\ Len(recv[t].cells) = recv[t].need
           /\ HeaderSize <= Len(recv[t].cells)
           /\ recv' = [recv EXCEPT ![t] = Idle]
           /\ got' = [got EXCEPT ![recv[t].from] = got[recv[t].from] \o h]
           /\ Whole(recv[t].cells) => h = <<MessageOf(recv[t].cells)>>
           /\ UNCHANGED <<pipe, todo, written, drain, up, sent, torn>>
  BY DeliverDoes
<1>2. /\ recv \in [Readers -> Reception] /\ got \in [Pipes -> Seq(Messages \cup {Garbage})]
      /\ pipe \in [Pipes -> Seq(Cell)]
  BY DEF Base, PipesTyped
<1>3. p \in Pipes /\ p # "cmd" /\ "ipc" \in Readers /\ p # "none"
  BY DEF Pipes, Readers
<1>4. Begun(p)' = Begun(p)
  BY <1>1, BegunKept
<1>5. CASE t # "ipc"
  <2>1. recv'["ipc"] = recv["ipc"]
    BY <1>1, <1>2, <1>3, <1>5
  <2>2. got'[p] = got[p]
    <3>1. recv[t].from = "cmd"
      BY <1>1, <1>5 DEF ReadsFrom
    <3>2. QED
      BY <1>1, <1>2, <1>3, <3>1
  <2>3. Linked' => Linked
    BY <1>1, <2>1 DEF Linked
  <2>4. QED
    BY <1>1, <1>4, <2>1, <2>2, <2>3, LineAlone
<1>6. CASE t = "ipc" /\ recv["ipc"].from # p
  <2>1. recv'["ipc"] = Idle /\ got'[p] = got[p]
    BY <1>1, <1>2, <1>3, <1>6
  <2>2. recv["ipc"].from # p /\ recv'["ipc"].from # p
    BY <1>3, <1>6, <2>1, IdleFrom
  <2>3. Linked' => Linked
    BY <1>1, <2>1 DEF Linked
  <2>4. QED
    BY <1>1, <1>4, <2>1, <2>2, <2>3, LineAside
<1>7. CASE t = "ipc" /\ recv["ipc"].from = p
  <2>1. recv'["ipc"] = Idle /\ recv'["ipc"].from # p /\ recv'["ipc"].part = "header"
    BY <1>1, <1>2, <1>3, <1>7, IdleFrom
  <2>2. Known("ipc", p)'
    BY <2>1 DEF Known
  <2>3. ASSUME ~torn[p] PROVE \E more \in Seq(Messages) : Rests(p, more)'
    <3>1. PICK x \in Messages, more \in Seq(Messages) :
            h = <<x>> /\ sent[p] = got[p] \o (<<x>> \o more) /\ pipe[p] = Stream(more) \o Begun(p)
      BY <1>1, <1>3, <1>7, <2>3, HandsOn
    <3>2. sent'[p] = got'[p] \o more
      <4>1. got'[p] = got[p] \o h
        BY <1>1, <1>2, <1>3, <1>7
      <4>2. PICK W : W = Messages \cup {Garbage}
        OBVIOUS
      <4>3. got[p] \in Seq(W) /\ h \in Seq(W) /\ more \in Seq(Messages)
        BY <1>2, <1>3, <4>2
      <4>4. (got[p] \o h) \o more = got[p] \o (h \o more)
        <5>1. PICK g \in Seq(W) : g = got[p]
          BY <4>3
        <5>2. PICK e \in Seq(W) : e = h
          BY <4>3
        <5>3. (g \o e) \o more = g \o (e \o more)
          BY ONLY g \in Seq(W), e \in Seq(W), more \in Seq(Messages), ThreeJoined
        <5>4. QED
          BY <5>1, <5>2, <5>3
      <4>5. QED
        BY <1>1, <3>1, <4>1, <4>4
    <3>3. Waiting("ipc", p)' \o pipe'[p] = Stream(more) \o Begun(p)'
      <4>1. Waiting("ipc", p)' = <<>>
        BY <2>1 DEF Waiting
      <4>2. <<>> \o pipe[p] = pipe[p]
        BY <1>2, <1>3, ConcatEmptySeq
      <4>3. QED
        BY <1>1, <1>4, <3>1, <4>1, <4>2
    <3>4. Rests(p, more)'
      BY <3>2, <3>3 DEF Rests
    <3>5. QED
      BY <3>4
  <2>4. Line(p)'
    BY <1>1, <2>3 DEF Line
  <2>5. QED
    BY <2>2, <2>4
<1>8. QED
  BY <1>5, <1>6, <1>7

-----------------------------------------------------------------------------
\* At the start nothing is on its way.
LEMMA InitLine ==
  ASSUME Init, NEW p \in {"data", "ctrl"}
  PROVE  Line(p) /\ Known("ipc", p)
<1>1. p \in Pipes /\ "ipc" \in Readers /\ "ipc" \in Threads
  BY DEF Pipes, Readers, Threads
<1>2. recv["ipc"] = Idle /\ pipe[p] = <<>> /\ sent[p] = <<>> /\ got[p] = <<>>
  BY <1>1 DEF Init
<1>3. Waiting("ipc", p) = <<>>
  BY <1>2, IdleFrom DEF Waiting
<1>4. Known("ipc", p)
  BY <1>2, IdleFrom DEF Known
<1>5. Base
  BY InitTyped
<1>6. Begun(p) = <<>>
  <2>1. written["scanner"] = 0
    BY DEF Init, Threads
  <2>2. QED
    BY <1>5, <2>1, NothingBegun
<1>7. PICK e \in Seq(Messages) : e = <<>>
  BY EmptySeq
<1>8. Rests(p, e)
  <2>1. <<>> \o <<>> = <<>>
    OBVIOUS
  <2>2. QED
    BY <1>2, <1>3, <1>6, <1>7, <2>1, StreamEmpty DEF Rests
<1>9. QED
  BY <1>4, <1>8 DEF Line

\* Every step of an orderly pipe keeps what is known about it.
LEMMA LineKept ==
  ASSUME Base, [Next]_vars, NEW p \in {"data", "ctrl"}, Orderly(p), Line(p), Known("ipc", p)
  PROVE  Line(p)' /\ Known("ipc", p)'
<1>1. ASSUME NEW t \in Threads, Send(t) \/ GiveUpSend(t) PROVE Line(p)' /\ Known("ipc", p)'
  BY <1>1, SendLine, GiveUpSendLine
<1>2. ASSUME NEW t \in Readers, Receive(t) \/ GiveUpReceive(t) PROVE Line(p)' /\ Known("ipc", p)'
  BY <1>2, ReceiveLine, ParseHeaderLine, DeliverLine, GiveUpReceiveLine DEF Receive
<1>3. /\ pipe \in [Pipes -> Seq(Cell)] /\ torn \in [Pipes -> BOOLEAN]
      /\ recv \in [Readers -> Reception]
      /\ "data" \in Pipes /\ "ctrl" \in Pipes /\ "main" \in Readers /\ "ipc" \in Readers
  BY DEF Base, PipesTyped, Pipes, Readers
<1>4. CASE StartDrain
  <2>1. torn' = [torn EXCEPT !["cmd"] = torn["cmd"] \/ CmdShared]
        /\ UNCHANGED <<pipe, todo, written, recv, up, serving, sent, got>>
    BY <1>4 DEF StartDrain
  <2>2. QED
    BY <1>3, <2>1, CmdAside
<1>5. CASE DrainHeader
  <2>1. PICK q \in Seq(Cell) :
          /\ pipe' = [pipe EXCEPT !["cmd"] = q]
          /\ torn' = [torn EXCEPT !["cmd"] = torn["cmd"] \/ CmdShared]
          /\ UNCHANGED <<todo, written, recv, up, serving, sent, got>>
    BY <1>5, DrainHeaderDoes
  <2>2. QED
    BY <1>3, <2>1, CmdAside
<1>6. CASE DrainPayload
  <2>1. PICK q \in Seq(Cell) :
          /\ pipe' = [pipe EXCEPT !["cmd"] = q]
          /\ torn' = [torn EXCEPT !["cmd"] = torn["cmd"] \/ CmdShared]
          /\ UNCHANGED <<todo, written, recv, up, serving, sent, got>>
    BY <1>6, DrainPayloadDoes
  <2>2. QED
    BY <1>3, <2>1, CmdAside
<1>7. CASE Die
  <2>1. up' = FALSE /\ recv' = [recv EXCEPT !["main"] = Idle]
        /\ torn' = [torn EXCEPT !["cmd"] = torn["cmd"] \/ recv["main"] # Idle]
        /\ UNCHANGED <<pipe, todo, written, drain, serving, sent, got>>
    BY <1>7 DEF Die
  <2>2. recv'["ipc"] = recv["ipc"]
    BY <1>3, <2>1
  <2>3. QED
    BY <1>3, <2>1, <2>2, CmdAside
<1>8. CASE HangUp
  <2>1. ~up /\ recv' = [recv EXCEPT !["ipc"] = Idle]
        /\ UNCHANGED <<pipe, todo, written, drain, up, serving, sent, got, torn>>
    BY <1>8 DEF HangUp
  <2>2. recv'["ipc"] = Idle
    BY <1>3, <2>1
  <2>3. ~Linked'
    BY <2>1, <2>2 DEF Linked
  <2>4. ASSUME NEW rest \in Seq(Messages), Rests(p, rest) PROVE Rests(p, rest)'
    BY <2>1, <2>3, <2>4 DEF Rests
  <2>5. Line(p)'
    BY <2>1, <2>4 DEF Line
  <2>6. Known("ipc", p)'
    BY <2>2, IdleFrom DEF Known
  <2>7. QED
    BY <2>5, <2>6
<1>9. CASE UNCHANGED vars
  <2>1. UNCHANGED <<pipe, todo, written, recv, drain, up, sent, got, torn>>
    BY <1>9 DEF vars
  <2>2. QED
    BY <2>1, CmdAside
<1>10. QED
  BY <1>1, <1>2, <1>4, <1>5, <1>6, <1>7, <1>8, <1>9 DEF Next, Drain

\* t is s and then r.
Prefixed(s, r, t) ==
  /\ IsPrefix(s, t) /\ Len(t) = Len(s) + Len(r) /\ Len(s) \in Nat /\ Len(r) \in Nat
  /\ \A k \in 1 .. Len(r) : t[Len(s) + k] = r[k]

\* What was received and the rest, one after the other.
LEMMA PrefixJoined ==
  ASSUME NEW W, NEW s \in Seq(W), NEW r \in Seq(W)
  PROVE  Prefixed(s, r, s \o r)
<1> DEFINE t == s \o r
<1> HIDE DEF t
<1>1. t = s \o r
  BY DEF t
<1>2. PICK n \in Nat : n = Len(s)
  BY LenProperties
<1>3. PICK k \in Nat : k = Len(r)
  BY LenProperties
<1>4. t \in Seq(W) /\ Len(t) = n + k
  BY <1>1, <1>2, <1>3, ConcatProperties
<1>5. \A i \in 1 .. n : t[i] = s[i]
  BY <1>1, <1>2, JoinedFirst
<1>6. \A i \in 1 .. k : t[n + i] = r[i]
  BY <1>1, <1>2, <1>3, JoinedSecond
<1>7. SubSeq(t, 1, n) = SubSeq(s, 1, n)
  <2>1. CASE n = 0
    BY <2>1, SubSeqEmpty
  <2>2. CASE n # 0
    <3>1. 1 \in 1 .. Len(s) /\ n \in 1 .. Len(s)
      BY <1>2, <2>2
    <3>2. QED
      BY <1>1, <3>1, SubSeqOfConcat1
  <2>3. QED
    BY <2>1, <2>2
<1>8. IsPrefix(s, t)
  <2>1. n <= n + k
    OBVIOUS
  <2>2. QED
    BY <1>2, <1>4, <1>7, <2>1 DEF IsPrefix
<1>9. Prefixed(s, r, t)
  BY <1>2, <1>3, <1>4, <1>6, <1>8 DEF Prefixed
<1>10. QED
  BY <1>1, <1>9

\* So it is with what a reader received.
LEMMA ReceivedFirst ==
  ASSUME Base, NEW p \in Pipes, NEW rest \in Seq(Messages), sent[p] = got[p] \o rest
  PROVE  /\ IsPrefix(got[p], sent[p]) /\ Len(sent[p]) = Len(got[p]) + Len(rest)
         /\ Len(got[p]) \in Nat /\ Len(rest) \in Nat
         /\ \A k \in 1 .. Len(rest) : sent[p][Len(got[p]) + k] = rest[k]
<1>1. PICK W : W = Messages \cup {Garbage}
  OBVIOUS
<1>2. PICK s \in Seq(W) : s = got[p]
  BY <1>1 DEF Base, PipesTyped
<1>3. PICK r \in Seq(W) : r = rest
  BY <1>1
<1>4. PICK t : t = s \o r
  OBVIOUS
<1>5. Prefixed(s, r, s \o r)
  BY PrefixJoined
<1>6. t = sent[p]
  BY <1>2, <1>3, <1>4
<1>7. Prefixed(s, r, t)
  BY <1>4, <1>5
<1>8. QED
  BY <1>2, <1>3, <1>6, <1>7 DEF Prefixed

-----------------------------------------------------------------------------
(* data *)

DataInv == Base /\ Line("data") /\ Known("ipc", "data")

\* The invariant of data.
LEMMA DataInvHolds == Spec => []DataInv
<1>1. Init => DataInv
  BY InitTyped, InitLine DEF DataInv
<1>2. DataInv /\ [Next]_vars => DataInv'
  <2>1. Orderly("data")
    BY DEF Orderly
  <2>2. QED
    BY <2>1, BaseKept, LineKept DEF DataInv
<1>3. QED
  BY <1>1, <1>2, PTL DEF Spec

\* What the IPC thread takes from fd_data for a batch is one that push_to_master
\* sent whole, in order and without a gap, unless ipc_recv_payload gave up within
\* one: also where a batch is larger than PIPE_BUF or than the pipe.
THEOREM BatchesAreWhole == Spec => []BatchesWhole
<1>1. DataInv => BatchesWhole
  <2>1. SUFFICES ASSUME DataInv, ~torn["data"] PROVE IsPrefix(got["data"], sent["data"])
    BY DEF BatchesWhole
  <2>2. PICK rest \in Seq(Messages) : Rests("data", rest)
    BY <2>1 DEF DataInv, Line
  <2>3. sent["data"] = got["data"] \o rest
    BY <2>2 DEF Rests
  <2>4. "data" \in Pipes
    BY DEF Pipes
  <2>5. QED
    BY <2>1, <2>3, <2>4, ReceivedFirst DEF DataInv
<1>2. QED
  BY <1>1, DataInvHolds, PTL

-----------------------------------------------------------------------------
(* ctrl *)

CtrlInv == Base /\ Line("ctrl") /\ Known("ipc", "ctrl") /\ ~torn["ctrl"]

\* What the first unread message is.
LEMMA FirstUnread ==
  ASSUME Base, NEW p \in Pipes, Linked, Begun(p) = <<>>, Known("ipc", p), ~torn[p],
         NEW x \in Messages, NEW more \in Seq(Messages), Rests(p, <<x>> \o more)
  PROVE  /\ Len(Waiting("ipc", p)) <= Size[x]
         /\ Len(Waiting("ipc", p)) + Len(pipe[p]) = Size[x] + Len(Stream(more))
         /\ recv["ipc"].from = p => recv["ipc"].need <= Size[x]
<1>1. "ipc" \in Readers
  BY DEF Readers
<1>2. PICK c \in Seq(Cell) : c = Waiting("ipc", p)
  BY <1>1, WaitingIs
<1>3. PICK q \in Seq(Cell) : q = pipe[p]
  BY DEF Base, PipesTyped
<1>4. PICK d \in Seq(Cell) : d = Stream(more)
  BY StreamType
<1>5. PICK u : u = c \o q
  OBVIOUS
<1>6. u = Cells(x, 1, Size[x]) \o d
  <2>1. Stream(<<x>> \o more) = Cells(x, 1, Size[x]) \o d
    BY <1>4, StreamFront
  <2>2. PICK w \in Seq(Cell) : w = Cells(x, 1, Size[x])
    BY WholeCells
  <2>3. w \o d \in Seq(Cell)
    BY ConcatProperties
  <2>4. (w \o d) \o <<>> = w \o d
    BY <2>3, ConcatEmptySeq
  <2>5. u = Stream(<<x>> \o more) \o <<>>
    BY <1>2, <1>3, <1>5 DEF Rests
  <2>6. QED
    BY <2>1, <2>2, <2>4, <2>5
<1>7. u \in Seq(Cell) /\ Starts(u, x) /\ Len(u) = Size[x] + Len(d)
  BY <1>6, StartsWhole
<1>8. Len(u) = Len(c) + Len(q)
  BY <1>5, ConcatProperties
<1>9. Starts(c, x)
  BY <1>5, <1>7, StartsRead
<1>10. Size[x] \in Nat /\ HeaderSize \in Nat /\ HeaderSize <= Size[x]
  BY SizeIs
<1>11. Len(c) \in Nat
  BY LenProperties
<1>12. recv["ipc"].from = p => Len(c) <= recv["ipc"].need /\ recv["ipc"].need <= Size[x]
  <2>1. SUFFICES ASSUME recv["ipc"].from = p
                 PROVE  Len(c) <= recv["ipc"].need /\ recv["ipc"].need <= Size[x]
    OBVIOUS
  <2>2. recv["ipc"].cells = c
    BY <1>2, <2>1 DEF Waiting
  <2>3. ReceptionOK(recv["ipc"], "ipc") /\ recv["ipc"] \in Reception
    BY <1>1 DEF Base, PipesTyped
  <2>4. Len(c) <= recv["ipc"].need
    BY <2>2, <2>3 DEF ReceptionOK
  <2>5. CASE recv["ipc"].part = "header"
    BY <1>10, <2>3, <2>4, <2>5 DEF ReceptionOK
  <2>6. CASE recv["ipc"].part = "payload"
    <3>1. HeaderSize <= Len(c)
      BY <2>2, <2>3, <2>6 DEF ReceptionOK
    <3>2. MessageOf(c) = x
      BY <1>9, <3>1, HeaderOf
    <3>3. recv["ipc"].need = Size[x]
      BY <2>1, <2>2, <2>6, <3>2 DEF Known
    <3>4. QED
      BY <1>10, <2>4, <3>3
  <2>7. QED
    BY <2>3, <2>5, <2>6 DEF Reception
<1>13. Len(c) <= Size[x]
  <2>1. CASE recv["ipc"].from = p
    <3>1. recv["ipc"].need \in Nat
      BY <1>1 DEF Base, PipesTyped, Reception
    <3>2. QED
      BY <1>10, <1>11, <1>12, <2>1, <3>1
  <2>2. CASE recv["ipc"].from # p
    <3>1. c = <<>>
      BY <1>2, <2>2 DEF Waiting
    <3>2. QED
      BY <1>10, <3>1
  <2>3. QED
    BY <2>1, <2>2
<1>14. QED
  BY <1>2, <1>3, <1>4, <1>7, <1>8, <1>12, <1>13

\* As long as something is missing, the pipe is not empty.
LEMMA NothingTorn ==
  ASSUME CtrlInv, Fits("ctrl"), NEW t \in Readers, GiveUpReceive(t)
  PROVE  recv[t].from # "ctrl"
<1>1. SUFFICES ASSUME recv[t].from = "ctrl" PROVE FALSE
  OBVIOUS
<1>2. Base /\ Line("ctrl") /\ Known("ipc", "ctrl") /\ ~torn["ctrl"] /\ "ctrl" \in Pipes
  BY DEF CtrlInv, Pipes
<1>3. recv[t] # Idle /\ up /\ Len(recv[t].cells) < recv[t].need /\ pipe["ctrl"] = <<>>
  BY <1>1 DEF GiveUpReceive
<1>4. ReceptionOK(recv[t], t) /\ recv[t] \in Reception
  BY <1>2 DEF Base, PipesTyped
<1>5. t = "ipc"
  BY <1>1, <1>4 DEF ReceptionOK, ReadsFrom, Readers
<1>6. PICK c \in Seq(Cell) : c = recv["ipc"].cells
  BY <1>4, <1>5 DEF Reception
<1>7. Len(c) >= 1 /\ Len(c) \in Nat
  BY <1>1, <1>4, <1>5, <1>6, LenProperties DEF ReceptionOK
<1>8. Waiting("ipc", "ctrl") = c
  BY <1>1, <1>5, <1>6 DEF Waiting
<1>9. PICK rest \in Seq(Messages) : Rests("ctrl", rest)
  BY <1>2 DEF Line
<1>10. Linked
  BY <1>3 DEF Linked
<1>11. Begun("ctrl") = <<>>
  BY <1>2, SmallNotBegun
<1>12. c = Stream(rest)
  <2>1. c \o <<>> = c
    BY ConcatEmptySeq
  <2>2. Stream(rest) \in Seq(Cell)
    BY StreamType
  <2>3. Stream(rest) \o <<>> = Stream(rest)
    BY <2>2, ConcatEmptySeq
  <2>4. c \o <<>> = Stream(rest) \o <<>>
    BY <1>3, <1>8, <1>9, <1>10, <1>11 DEF Rests
  <2>5. QED
    BY <2>1, <2>3, <2>4
<1>13. rest # <<>>
  <2>1. c # <<>>
    BY <1>7
  <2>2. QED
    BY <1>12, <2>1, StreamEmpty
<1>14. PICK x \in Messages, more \in Seq(Messages) : rest = <<x>> \o more
  <2>1. Head(rest) \in Messages /\ Tail(rest) \in Seq(Messages)
    BY <1>13, HeadTailProperties
  <2>2. rest = <<Head(rest)>> \o Tail(rest)
    BY <1>13
  <2>3. QED
    BY <2>1, <2>2
<1>15. /\ Len(Waiting("ipc", "ctrl")) <= Size[x]
       /\ Len(Waiting("ipc", "ctrl")) + Len(pipe["ctrl"]) = Size[x] + Len(Stream(more))
       /\ recv["ipc"].from = "ctrl" => recv["ipc"].need <= Size[x]
  <2>1. Rests("ctrl", <<x>> \o more)
    BY <1>9, <1>14
  <2>2. QED
    BY <1>2, <1>10, <1>11, <2>1, FirstUnread
<1>16. Len(Stream(more)) \in Nat
  BY StreamLength
<1>17. Len(c) = Size[x] + Len(Stream(more))
  BY <1>3, <1>7, <1>8, <1>15
<1>18. recv["ipc"].need \in Nat /\ Len(c) < recv["ipc"].need /\ recv["ipc"].need <= Size[x]
  BY <1>1, <1>3, <1>4, <1>5, <1>6, <1>15 DEF Reception
<1>19. QED
  BY <1>7, <1>16, <1>17, <1>18, SizeIs

\* Every step keeps the invariant of ctrl.
LEMMA CtrlInvKept ==
  ASSUME Fits("ctrl"), CtrlInv, [Next]_vars
  PROVE  CtrlInv'
<1>1. Base /\ Line("ctrl") /\ Known("ipc", "ctrl") /\ Orderly("ctrl")
  BY DEF CtrlInv, Orderly
<1>2. Base' /\ Line("ctrl")' /\ Known("ipc", "ctrl")'
  BY <1>1, BaseKept, LineKept
<1>3. torn \in [Pipes -> BOOLEAN] /\ "ctrl" \in Pipes /\ ~torn["ctrl"]
  BY DEF CtrlInv, Base, PipesTyped, Pipes
<1>4. torn'["ctrl"] = torn["ctrl"]
  <2>1. ASSUME NEW t \in Threads, Send(t) \/ GiveUpSend(t) PROVE torn' = torn
    BY <2>1 DEF Send, GiveUpSend
  <2>2. ASSUME NEW t \in Readers, Receive(t) PROVE torn'["ctrl"] = torn["ctrl"]
    <3>1. CASE StartReceive(t) \/ ReceiveMore(t)
      BY <1>3, <3>1 DEF StartReceive, ReceiveMore, Read
    <3>2. CASE ParseHeader(t) \/ Deliver(t)
      BY <3>2 DEF ParseHeader, Deliver
    <3>3. QED
      BY <2>2, <3>1, <3>2 DEF Receive
  <2>3. ASSUME NEW t \in Readers, GiveUpReceive(t) PROVE torn'["ctrl"] = torn["ctrl"]
    <3>1. recv[t].from # "ctrl"
      BY <2>3, NothingTorn
    <3>2. torn' = [torn EXCEPT ![recv[t].from] = TRUE]
      BY <2>3 DEF GiveUpReceive
    <3>3. QED
      BY <1>3, <3>1, <3>2
  <2>4. ASSUME Drain \/ Die PROVE torn'["ctrl"] = torn["ctrl"]
    BY <1>3, <2>4 DEF Drain, StartDrain, DrainHeader, DrainPayload, Die
  <2>5. ASSUME HangUp \/ UNCHANGED vars PROVE torn' = torn
    BY <2>5 DEF HangUp, vars
  <2>6. QED
    BY <2>1, <2>2, <2>3, <2>4, <2>5 DEF Next
<1>5. QED
  BY <1>2, <1>3, <1>4 DEF CtrlInv

\* There is room for every message the pipe accepts.
LEMMA AcceptsOne ==
  ASSUME Fits("ctrl"), CtrlInv, NEW t \in Threads, Send(t),
         sent'["ctrl"] # sent["ctrl"]
  PROVE  Ctrl!Next
<1>1. Base
  BY DEF CtrlInv
<1>2. PICK m \in Messages, d \in Nat :
           /\ todo[t] # <<>> /\ m = Head(todo[t]) /\ PipeOf[m] \in WritesTo(t)
           /\ written[t] <= d /\ d <= Size[m]
           /\ Size[m] <= PipeBuf => written[t] = 0 /\ d = Size[m]
                                    /\ Len(pipe[PipeOf[m]]) + Size[m] <= Room
           /\ pipe' = [pipe EXCEPT ![PipeOf[m]] = pipe[PipeOf[m]] \o Cells(m, written[t] + 1, d)]
           /\ written' = [written EXCEPT ![t] = IF d = Size[m] THEN 0 ELSE d]
           /\ d = Size[m] => /\ todo' = [todo EXCEPT ![t] = Tail(todo[t])]
                             /\ sent' = [sent EXCEPT ![PipeOf[m]] = Append(sent[PipeOf[m]], m)]
           /\ d # Size[m] => todo' = todo /\ sent' = sent /\ PipeBuf < Size[m]
  BY <1>1, SendDoes
<1>3. Base /\ Line("ctrl") /\ Known("ipc", "ctrl") /\ ~torn["ctrl"] /\ "ctrl" \in Pipes
      /\ sent \in [Pipes -> Seq(Messages)] /\ pipe["ctrl"] \in Seq(Cell)
  BY DEF CtrlInv, Pipes, Base, PipesTyped
<1>4. PipeOf[m] = "ctrl"
  BY <1>2, <1>3
<1>5. Size[m] <= PipeBuf
  BY <1>4 DEF Fits
<1>6. Len(pipe["ctrl"]) + Size[m] <= Room /\ sent'["ctrl"] = Append(sent["ctrl"], m)
  BY <1>2, <1>3, <1>4, <1>5
<1>7. got' = got
  BY DEF Send
<1>8. Linked
  <2>1. t \in {"main", "scanner"}
    BY <1>2, <1>4 DEF WritesTo, Threads
  <2>2. Alive(t)
    BY DEF Send, Sending
  <2>3. QED
    BY <2>1, <2>2 DEF Alive, Linked
<1>9. PICK rest \in Seq(Messages) : Rests("ctrl", rest)
  BY <1>3 DEF Line
<1>10. Len(sent["ctrl"]) = Len(got["ctrl"]) + Len(rest) /\ Len(got["ctrl"]) \in Nat /\ Len(rest) \in Nat
  <2>1. sent["ctrl"] = got["ctrl"] \o rest
    BY <1>9 DEF Rests
  <2>2. QED
    BY <1>3, <2>1, ReceivedFirst
<1>11. Size[m] \in Nat /\ Size[m] >= 2 /\ Room \in Nat
  BY WholeCells, SizeIs
<1>12. PICK l \in Nat : l = Len(pipe["ctrl"])
  BY <1>3, LenProperties
<1>13. Len(rest) < Room
  <2>1. CASE rest = <<>>
    BY <1>6, <1>11, <1>12, <2>1
  <2>2. CASE rest # <<>>
    <3>1. PICK x \in Messages, more \in Seq(Messages) : rest = <<x>> \o more
      <4>1. Head(rest) \in Messages /\ Tail(rest) \in Seq(Messages)
        BY <2>2, HeadTailProperties
      <4>2. rest = <<Head(rest)>> \o Tail(rest)
        BY <2>2
      <4>3. QED
        BY <4>1, <4>2
    <3>2. Len(rest) = Len(more) + 1 /\ Len(more) \in Nat
      BY <3>1, LenProperties
    <3>3. Begun("ctrl") = <<>>
      BY <1>3, SmallNotBegun
    <3>4. /\ Len(Waiting("ipc", "ctrl")) <= Size[x]
          /\ Len(Waiting("ipc", "ctrl")) + Len(pipe["ctrl"]) = Size[x] + Len(Stream(more))
      <4>1. Rests("ctrl", <<x>> \o more)
        BY <1>9, <3>1
      <4>2. QED
        BY <1>3, <1>8, <3>3, <4>1, FirstUnread
    <3>5. Len(Waiting("ipc", "ctrl")) \in Nat
      <4>1. Waiting("ipc", "ctrl") \in Seq(Cell)
        BY <1>3, WaitingIs DEF Readers
      <4>2. QED
        BY <4>1, LenProperties
    <3>6. Len(Stream(more)) \in Nat /\ Len(Stream(more)) >= 2 * Len(more)
      BY StreamLength
    <3>7. Size[x] \in Nat
      BY SizeIs
    <3>8. 2 * Len(more) <= l
      BY <1>12, <3>2, <3>4, <3>5, <3>6, <3>7
    <3>9. QED
      BY <1>6, <1>11, <1>12, <3>2, <3>8
  <2>3. QED
    BY <2>1, <2>2
<1>14. Len(sent["ctrl"]) - Len(got["ctrl"]) < Room
  BY <1>10, <1>11, <1>13
<1>15. Ctrl!Accept(m)
  BY <1>6, <1>7, <1>14 DEF Ctrl!Accept
<1>16. QED
  BY <1>15 DEF Ctrl!Next

\* What is handed on is the oldest.
LEMMA HandsOnOldest ==
  ASSUME CtrlInv, NEW t \in Readers, Deliver(t), got'["ctrl"] # got["ctrl"]
  PROVE  Ctrl!Next
<1>1. PICK h \in Seq(Messages \cup {Garbage}) :
           /\ recv[t].from \in ReadsFrom(t) /\ recv[t].from \in Pipes
           /\ recv[t].part = "payload" /\ Len(recv[t].cells) = recv[t].need
           /\ HeaderSize <= Len(recv[t].cells)
           /\ got' = [got EXCEPT ![recv[t].from] = got[recv[t].from] \o h]
           /\ Whole(recv[t].cells) => h = <<MessageOf(recv[t].cells)>>
           /\ UNCHANGED <<pipe, todo, written, drain, up, sent, torn>>
  BY DeliverDoes DEF CtrlInv
<1>2. Base /\ Line("ctrl") /\ Known("ipc", "ctrl") /\ ~torn["ctrl"] /\ "ctrl" \in Pipes
      /\ got \in [Pipes -> Seq(Messages \cup {Garbage})]
  BY DEF CtrlInv, Pipes, Base, PipesTyped
<1>3. recv[t].from = "ctrl"
  BY <1>1, <1>2
<1>4. t = "ipc"
  BY <1>1, <1>3 DEF ReadsFrom
<1>5. PICK x \in Messages, more \in Seq(Messages) :
        h = <<x>> /\ sent["ctrl"] = got["ctrl"] \o (<<x>> \o more)
  BY <1>1, <1>2, <1>3, <1>4, HandsOn
<1>6. PICK rest \in Seq(Messages) : rest = <<x>> \o more
  <2>1. <<x>> \in Seq(Messages)
    OBVIOUS
  <2>2. QED
    BY <2>1, ConcatProperties
<1>7. Len(rest) >= 1 /\ rest[1] = x
  BY <1>6
<1>8. /\ Len(sent["ctrl"]) = Len(got["ctrl"]) + Len(rest)
      /\ Len(got["ctrl"]) \in Nat /\ Len(rest) \in Nat
      /\ \A k \in 1 .. Len(rest) : sent["ctrl"][Len(got["ctrl"]) + k] = rest[k]
  BY <1>2, <1>5, <1>6, ReceivedFirst
<1>9. Len(got["ctrl"]) < Len(sent["ctrl"]) /\ sent["ctrl"][Len(got["ctrl"]) + 1] = x
  BY <1>7, <1>8
<1>10. got'["ctrl"] = Append(got["ctrl"], x)
  <2>1. got'["ctrl"] = got["ctrl"] \o <<x>>
    BY <1>1, <1>2, <1>3, <1>5
  <2>2. PICK g \in Seq(Messages \cup {Garbage}) : g = got["ctrl"]
    BY <1>2
  <2>3. g \o <<x>> = Append(g, x)
    OBVIOUS
  <2>4. QED
    BY <2>1, <2>2, <2>3
<1>11. Ctrl!Deliver
  BY <1>1, <1>9, <1>10 DEF Ctrl!Deliver
<1>12. QED
  BY <1>11 DEF Ctrl!Next

\* Every step is one of the channel, or leaves it as it is.
LEMMA CtrlStep ==
  ASSUME Fits("ctrl"), CtrlInv, [Next]_vars
  PROVE  [Ctrl!Next]_(Ctrl!chanVars)
<1>1. SUFFICES ASSUME sent'["ctrl"] # sent["ctrl"] \/ got'["ctrl"] # got["ctrl"] PROVE Ctrl!Next
  BY DEF Ctrl!chanVars
<1>2. ASSUME NEW t \in Threads, Send(t) \/ GiveUpSend(t) PROVE Ctrl!Next
  <2>1. got' = got /\ (GiveUpSend(t) => sent' = sent)
    BY <1>2 DEF Send, GiveUpSend
  <2>2. QED
    BY <1>1, <1>2, <2>1, AcceptsOne
<1>3. ASSUME NEW t \in Readers, Receive(t) \/ GiveUpReceive(t) PROVE Ctrl!Next
  <2>1. sent' = sent
    BY <1>3 DEF Receive, StartReceive, ReceiveMore, Read, ParseHeader, Deliver, GiveUpReceive
  <2>2. ~Deliver(t) => got' = got
    BY <1>3 DEF Receive, StartReceive, ReceiveMore, Read, ParseHeader, GiveUpReceive
  <2>3. QED
    BY <1>1, <2>1, <2>2, HandsOnOldest
<1>4. ASSUME Drain \/ Die \/ HangUp \/ UNCHANGED vars PROVE sent' = sent /\ got' = got
  BY <1>4 DEF Drain, StartDrain, DrainHeader, DrainPayload, Die, HangUp, vars
<1>5. QED
  BY <1>1, <1>2, <1>3, <1>4 DEF Next

\* Two threads of the worker write heartbeats, lost tasks, completions and check
\* results to fd_ctrl without a lock.  As no message is larger than PIPE_BUF, the
\* pipe is still the bounded channel the bus takes it for: the IPC thread gets
\* every accepted message once, whole and in order.
THEOREM CtrlImplementsChannel ==
  ASSUME Fits("ctrl")
  PROVE  Spec => CtrlIsChannel
<1>1. Init => CtrlInv
  <2>1. Init => ~torn["ctrl"]
    BY DEF Init, Pipes
  <2>2. QED
    BY <2>1, InitTyped, InitLine DEF CtrlInv
<1>2. CtrlInv /\ [Next]_vars => CtrlInv'
  BY CtrlInvKept
<1>3. CtrlInv /\ [Next]_vars => [Ctrl!Next]_(Ctrl!chanVars)
  BY CtrlStep
<1>4. Init => Ctrl!Init
  BY DEF Init, Ctrl!Init, Pipes
<1>5. QED
  BY <1>1, <1>2, <1>3, <1>4, PTL DEF Spec, CtrlIsChannel, Ctrl!Spec

-----------------------------------------------------------------------------
(* cmd: what the drain counts *)

ScanAt(q) == {i \in DOMAIN q : IsScan(q[i])}

\* The SCANs of a sequence are finitely many.
LEMMA ScansNumber ==
  ASSUME NEW W, NEW q \in Seq(W)
  PROVE  IsFiniteSet(ScanAt(q)) /\ Scans(q) \in Nat /\ Scans(q) = Cardinality(ScanAt(q))
<1>1. DOMAIN q = 1 .. Len(q) /\ Len(q) \in Nat
  BY LenProperties
<1>2. IsFiniteSet(1 .. Len(q))
  BY <1>1, FS_Interval
<1>3. ScanAt(q) \subseteq 1 .. Len(q)
  BY <1>1 DEF ScanAt
<1>4. IsFiniteSet(ScanAt(q))
  BY <1>2, <1>3, FS_Subset
<1>5. Cardinality(ScanAt(q)) \in Nat
  BY <1>4, FS_CardinalityType
<1>6. Scans(q) = Cardinality(ScanAt(q))
  BY DEF Scans, ScanAt
<1>7. QED
  BY <1>4, <1>5, <1>6

\* One more message is one more SCAN, or none.
LEMMA ScansAppend ==
  ASSUME NEW W, NEW q \in Seq(W), NEW e \in W
  PROVE  Scans(Append(q, e)) = Scans(q) + IF IsScan(e) THEN 1 ELSE 0
<1>1. PICK n \in Nat : n = Len(q) /\ DOMAIN q = 1 .. n
  BY LenProperties
<1>2. PICK r \in Seq(W) : r = Append(q, e)
  BY AppendProperties
<1>3. DOMAIN r = 1 .. n + 1 /\ r[n + 1] = e /\ \A i \in 1 .. n : r[i] = q[i]
  <2>1. Len(r) = n + 1 /\ r[n + 1] = e /\ \A i \in 1 .. n : r[i] = q[i]
    BY <1>1, <1>2, AppendProperties
  <2>2. QED
    BY <2>1, LenProperties
<1>4. \A i : i \in 1 .. n + 1 <=> i \in 1 .. n \/ i = n + 1
  BY <1>1
<1>5. n + 1 \notin 1 .. n
  OBVIOUS
<1>6. ScanAt(r) = IF IsScan(e) THEN ScanAt(q) \cup {n + 1} ELSE ScanAt(q)
  <2>1. \A i : i \in ScanAt(r) <=> (i \in 1 .. n /\ IsScan(q[i])) \/ (i = n + 1 /\ IsScan(e))
    BY <1>3, <1>4, <1>5, Zenon DEF ScanAt
  <2>2. \A i : i \in ScanAt(q) <=> i \in 1 .. n /\ IsScan(q[i])
    BY <1>1, Zenon DEF ScanAt
  <2>3. QED
    BY <2>1, <2>2
<1>7. n + 1 \notin ScanAt(q)
  BY <1>1, <1>5 DEF ScanAt
<1>8. IsFiniteSet(ScanAt(q)) /\ Scans(q) \in Nat /\ Scans(q) = Cardinality(ScanAt(q))
      /\ Scans(r) = Cardinality(ScanAt(r))
  BY ScansNumber
<1>9. Cardinality(ScanAt(q) \cup {n + 1}) = Cardinality(ScanAt(q)) + 1
  BY <1>7, <1>8, FS_AddElement
<1>10. QED
  BY <1>2, <1>6, <1>8, <1>9

\* No messages, no SCANs.
LEMMA ScansEmpty == Scans(<<>>) = 0
<1>1. {i \in DOMAIN <<>> : IsScan(<<>>[i])} = {}
  OBVIOUS
<1>2. QED
  BY <1>1, FS_EmptySet DEF Scans

\* rest is what is left in cmd.  While the drain skips the payload of a message it
\* is what comes behind it.
Left(rest) ==
  /\ drain.state \in {"off", "header"} => Waiting("main", "cmd") \o pipe["cmd"] = Stream(rest)
  /\ drain.state = "payload" =>
       /\ recv["main"] = Idle
       /\ \E m \in Messages :
            /\ drain.skip = Size[m] - HeaderSize
            /\ pipe["cmd"] = Cells(m, HeaderSize + 1, Size[m]) \o Stream(rest)
  /\ drain.state = "done" => rest = <<>> /\ pipe["cmd"] = <<>> /\ recv["main"] = Idle

\* Of the messages that went in, so many were taken out by one or the other.
Counted(taken, rest) ==
  /\ sent["cmd"] = taken \o rest
  /\ drain.count + Scans(got["cmd"]) = Scans(taken)
  /\ drain.state = "off" => drain.count = 0
  /\ Left(rest)

CmdLine == ~torn["cmd"] => \E taken, rest \in Seq(Messages) : Counted(taken, rest)

CmdInv == Base /\ CmdLine /\ Known("main", "cmd")

\* An action that leaves cmd alone.
LEMMA CmdAlone ==
  ASSUME CmdLine, Known("main", "cmd"),
         pipe'["cmd"] = pipe["cmd"], sent'["cmd"] = sent["cmd"], got'["cmd"] = got["cmd"],
         torn'["cmd"] = torn["cmd"], recv'["main"] = recv["main"], drain' = drain
  PROVE  CmdLine' /\ Known("main", "cmd")'
<1>1. Waiting("main", "cmd")' = Waiting("main", "cmd")
  BY DEF Waiting
<1>2. Known("main", "cmd")'
  BY DEF Known
<1>3. ASSUME NEW rest \in Seq(Messages), Left(rest) PROVE Left(rest)'
  BY <1>1, <1>3 DEF Left
<1>4. ASSUME NEW taken \in Seq(Messages), NEW rest \in Seq(Messages), Counted(taken, rest)
      PROVE  Counted(taken, rest)'
  BY <1>3, <1>4 DEF Counted
<1>5. QED
  BY <1>2, <1>4 DEF CmdLine

\* The worker's main thread is idle and stays so.
LEMMA IdleKnows == recv["main"] = Idle => Known("main", "cmd")
BY IdleFrom DEF Known

\* Between two messages the worker has nothing of cmd.
LEMMA IdleWaits == recv["main"] = Idle => Waiting("main", "cmd") = <<>>
BY IdleFrom DEF Waiting

\* The types of what the drain works with.
LEMMA CmdTypes ==
  ASSUME Base
  PROVE  /\ pipe \in [Pipes -> Seq(Cell)] /\ sent \in [Pipes -> Seq(Messages)]
         /\ got \in [Pipes -> Seq(Messages \cup {Garbage})] /\ torn \in [Pipes -> BOOLEAN]
         /\ recv \in [Readers -> Reception] /\ todo \in [Threads -> Seq(Messages)]
         /\ "cmd" \in Pipes /\ "main" \in Readers /\ "cmd" # "none"
         /\ drain.state \in {"off", "header", "payload", "done"}
         /\ drain.count \in Nat /\ drain.skip \in Nat
BY DEF Base, PipesTyped, Pipes, Readers

\* At the start nothing was sent and nothing counted.
LEMMA InitCmd ==
  ASSUME Init
  PROVE  CmdLine /\ Known("main", "cmd")
<1>1. recv["main"] = Idle /\ pipe["cmd"] = <<>> /\ sent["cmd"] = <<>> /\ got["cmd"] = <<>>
      /\ drain.state = "off" /\ drain.count = 0
  BY DEF Init, Pipes, Readers, NoDrain
<1>2. PICK e \in Seq(Messages) : e = <<>>
  BY EmptySeq
<1>3. <<>> \o <<>> = <<>>
  OBVIOUS
<1>4. Left(e)
  BY <1>1, <1>2, <1>3, StreamEmpty, IdleWaits DEF Left
<1>5. Counted(e, e)
  BY <1>1, <1>2, <1>3, <1>4, ScansEmpty DEF Counted
<1>6. QED
  BY <1>1, <1>5, IdleKnows DEF CmdLine

-----------------------------------------------------------------------------
\* A write to cmd goes in as a whole.
LEMMA SendCmd ==
  ASSUME Fits("cmd"), CmdInv, NEW t \in Threads, Send(t)
  PROVE  CmdLine' /\ Known("main", "cmd")'
<1>1. Base /\ CmdLine /\ Known("main", "cmd")
  BY DEF CmdInv
<1>2. PICK m \in Messages, d \in Nat :
           /\ todo[t] # <<>> /\ m = Head(todo[t]) /\ PipeOf[m] \in WritesTo(t)
           /\ written[t] <= d /\ d <= Size[m]
           /\ Size[m] <= PipeBuf => written[t] = 0 /\ d = Size[m]
                                    /\ Len(pipe[PipeOf[m]]) + Size[m] <= Room
           /\ pipe' = [pipe EXCEPT ![PipeOf[m]] = pipe[PipeOf[m]] \o Cells(m, written[t] + 1, d)]
           /\ written' = [written EXCEPT ![t] = IF d = Size[m] THEN 0 ELSE d]
           /\ d = Size[m] => /\ todo' = [todo EXCEPT ![t] = Tail(todo[t])]
                             /\ sent' = [sent EXCEPT ![PipeOf[m]] = Append(sent[PipeOf[m]], m)]
           /\ d # Size[m] => todo' = todo /\ sent' = sent /\ PipeBuf < Size[m]
  BY <1>1, SendDoes
<1>3. UNCHANGED <<recv, drain, up, got, torn>>
  BY DEF Send
<1>4. pipe \in [Pipes -> Seq(Cell)] /\ sent \in [Pipes -> Seq(Messages)] /\ "cmd" \in Pipes
      /\ recv \in [Readers -> Reception] /\ "main" \in Readers
  BY <1>1, CmdTypes
<1>5. CASE PipeOf[m] # "cmd"
  <2>1. pipe'["cmd"] = pipe["cmd"] /\ sent'["cmd"] = sent["cmd"]
    BY <1>2, <1>4, <1>5
  <2>2. QED
    BY <1>1, <1>3, <2>1, CmdAlone
<1>6. CASE PipeOf[m] = "cmd"
  <2>1. written[t] = 0 /\ d = Size[m]
    BY <1>2, <1>6 DEF Fits
  <2>2. sent'["cmd"] = Append(sent["cmd"], m) /\ pipe'["cmd"] = pipe["cmd"] \o Cells(m, 1, Size[m])
    BY <1>2, <1>4, <1>6, <2>1
  <2>3. drain.state # "done"
    <3>1. t \in {"ipc", "master"}
      BY <1>2, <1>6 DEF WritesTo, Threads
    <3>2. (t = "master" => drain.state = "off") /\ (t = "ipc" => drain.state # "done")
      BY DEF Send, Sending
    <3>3. QED
      BY <3>1, <3>2
  <2>4. ASSUME NEW taken \in Seq(Messages), NEW rest \in Seq(Messages), Counted(taken, rest)
        PROVE  \E more \in Seq(Messages) : Counted(taken, more)'
    <3>1. PICK more \in Seq(Messages) : more = Append(rest, m)
      BY AppendProperties
    <3>2. PICK n \in Seq(Cell) : n = Cells(m, 1, Size[m])
      BY WholeCells
    <3>3. PICK s \in Seq(Cell) : s = Stream(rest)
      BY StreamType
    <3>4. PICK c \in Seq(Cell) : c = pipe["cmd"]
      BY <1>4
    <3>5. Stream(more) = s \o n
      BY <3>1, <3>2, <3>3, StreamAppend
    <3>6. Left(rest)
      BY <2>4 DEF Counted
    <3>7. Waiting("main", "cmd")' = Waiting("main", "cmd")
      BY <1>3 DEF Waiting
    <3>8. drain.state \in {"off", "header"} => Waiting("main", "cmd") \o pipe'["cmd"] = Stream(more)
      <4>1. SUFFICES ASSUME drain.state \in {"off", "header"}
                     PROVE  Waiting("main", "cmd") \o pipe'["cmd"] = Stream(more)
        OBVIOUS
      <4>2. PICK a \in Seq(Cell) : a = Waiting("main", "cmd")
        BY <1>1, <1>4, WaitingIs
      <4>3. a \o c = s
        BY <3>3, <3>4, <3>6, <4>1, <4>2 DEF Left
      <4>4. a \o (c \o n) = (a \o c) \o n
        BY CellsAssociate, Zenon
      <4>5. QED
        BY <2>2, <3>2, <3>4, <3>5, <4>2, <4>3, <4>4
    <3>9. ASSUME NEW x \in Messages, pipe["cmd"] = Cells(x, HeaderSize + 1, Size[x]) \o Stream(rest)
          PROVE  pipe'["cmd"] = Cells(x, HeaderSize + 1, Size[x]) \o Stream(more)
      <4>1. PICK y \in Seq(Cell) : y = Cells(x, HeaderSize + 1, Size[x])
        <5>1. Size[x] \in Nat /\ HeaderSize + 1 \in Nat /\ HeaderSize + 1 <= Size[x] + 1
          BY SizeIs
        <5>2. QED
          BY <5>1, CellsAre
      <4>2. (y \o s) \o n = y \o (s \o n)
        BY CellsAssociate, Zenon
      <4>3. QED
        BY <2>2, <3>2, <3>3, <3>5, <3>9, <4>1, <4>2
    <3>10. Left(more)'
      BY <1>3, <2>3, <3>6, <3>7, <3>8, <3>9 DEF Left
    <3>11. sent'["cmd"] = taken \o more
      <4>1. sent["cmd"] = taken \o rest
        BY <2>4 DEF Counted
      <4>2. Append(taken \o rest, m) = taken \o Append(rest, m)
        BY AppendJoin
      <4>3. QED
        BY <2>2, <3>1, <4>1, <4>2
    <3>12. drain'.count + Scans(got'["cmd"]) = Scans(taken) /\ (drain'.state = "off" => drain'.count = 0)
      BY <1>3, <2>4 DEF Counted
    <3>13. Counted(taken, more)'
      BY <3>10, <3>11, <3>12 DEF Counted
    <3>14. QED
      BY <3>13
  <2>5. CmdLine'
    BY <1>1, <1>3, <2>4 DEF CmdLine
  <2>6. Known("main", "cmd")'
    BY <1>1, <1>3 DEF Known
  <2>7. QED
    BY <2>5, <2>6
<1>7. QED
  BY <1>5, <1>6

\* A read of the worker moves cells from cmd to it.
LEMMA ReceiveCmd ==
  ASSUME CmdInv, NEW t \in Readers, StartReceive(t) \/ ReceiveMore(t)
  PROVE  CmdLine' /\ Known("main", "cmd")'
<1>1. Base /\ CmdLine /\ Known("main", "cmd")
  BY DEF CmdInv
<1>2. PICK q \in Pipes, r \in Reception, n \in Nat :
           /\ Takes(t, q, r, n)
           /\ pipe' = [pipe EXCEPT ![q] = SubSeq(pipe[q], n + 1, Len(pipe[q]))]
           /\ recv' = [recv EXCEPT ![t] = [r EXCEPT !.cells = r.cells \o SubSeq(pipe[q], 1, n)]]
           /\ torn' = [torn EXCEPT !["cmd"] = torn["cmd"] \/ (q = "cmd" /\ drain.state = "payload")]
           /\ UNCHANGED <<todo, written, drain, up, serving, sent, got>>
  BY <1>1, ReceiveDoes
<1>3. /\ pipe \in [Pipes -> Seq(Cell)] /\ torn \in [Pipes -> BOOLEAN]
      /\ recv \in [Readers -> Reception] /\ "cmd" \in Pipes /\ "main" \in Readers
      /\ drain.state \in {"off", "header", "payload", "done"}
  BY <1>1, CmdTypes
<1>4. CASE t # "main"
  <2>1. q # "cmd"
    BY <1>2, <1>4 DEF Takes, ReadsFrom, Readers
  <2>2. pipe'["cmd"] = pipe["cmd"] /\ torn'["cmd"] = torn["cmd"] /\ recv'["main"] = recv["main"]
    BY <1>2, <1>3, <1>4, <2>1
  <2>3. QED
    BY <1>1, <1>2, <2>2, CmdAlone
<1>5. CASE t = "main"
  <2>1. q = "cmd"
    BY <1>2, <1>5 DEF Takes, ReadsFrom
  <2>2. r.part = "payload" => r = recv["main"] /\ Len(r.cells) >= 1
    BY <1>1, <1>2, <1>5, TakesIs
  <2>3. /\ Waiting("main", "cmd")' \o pipe'["cmd"] = Waiting("main", "cmd") \o pipe["cmd"]
        /\ recv'["main"].from = "cmd" /\ recv'["main"].part = r.part /\ recv'["main"].need = r.need
        /\ Len(r.cells) >= 1 => MessageOf(recv'["main"].cells) = MessageOf(r.cells)
    <3>1. /\ Waiting(t, q)' \o pipe'[q] = Waiting(t, q) \o pipe[q]
          /\ recv'[t].from = q /\ recv'[t].part = r.part /\ recv'[t].need = r.need
          /\ Len(r.cells) >= 1 => MessageOf(recv'[t].cells) = MessageOf(r.cells)
          /\ recv'[t] # Idle
      BY <1>1, <1>2, TakesKeeps
    <3>2. QED
      BY <1>5, <2>1, <3>1
  <2>4. torn'["cmd"] = (torn["cmd"] \/ drain.state = "payload")
    BY <1>2, <1>3, <2>1
  <2>5. CmdLine'
    <3>1. SUFFICES ASSUME ~torn'["cmd"]
                   PROVE  \E taken, rest \in Seq(Messages) : Counted(taken, rest)'
      BY DEF CmdLine
    <3>2. ~torn["cmd"] /\ drain.state # "payload"
      BY <1>3, <2>4, <3>1
    <3>3. PICK taken \in Seq(Messages), rest \in Seq(Messages) : Counted(taken, rest)
      BY <1>1, <3>2 DEF CmdLine
    <3>4. pipe["cmd"] # <<>>
      <4>1. 1 <= n /\ n <= Len(pipe["cmd"])
        BY <1>2, <2>1 DEF Takes
      <4>2. QED
        BY <4>1
    <3>5. drain.state \in {"off", "header"}
      BY <1>3, <3>2, <3>3, <3>4 DEF Counted, Left
    <3>6. Left(rest)'
      BY <1>2, <2>3, <3>3, <3>5 DEF Counted, Left
    <3>7. Counted(taken, rest)'
      BY <1>2, <3>3, <3>6 DEF Counted
    <3>8. QED
      BY <3>7
  <2>6. Known("main", "cmd")'
    <3>1. SUFFICES ASSUME recv'["main"].part = "payload", ~torn'["cmd"]
                   PROVE  recv'["main"].need = Size[MessageOf(recv'["main"].cells)]
      BY DEF Known
    <3>2. r = recv["main"] /\ Len(r.cells) >= 1 /\ r.part = "payload" /\ r.from = "cmd" /\ ~torn["cmd"]
      BY <1>2, <1>3, <2>1, <2>2, <2>3, <2>4, <3>1 DEF Takes
    <3>3. recv["main"].need = Size[MessageOf(recv["main"].cells)]
      BY <1>1, <3>2 DEF Known
    <3>4. QED
      BY <2>3, <3>2, <3>3
  <2>7. QED
    BY <2>5, <2>6
<1>6. QED
  BY <1>4, <1>5

\* A receive of the worker that gives up is a torn pipe.
LEMMA GiveUpReceiveCmd ==
  ASSUME CmdInv, NEW t \in Readers, GiveUpReceive(t)
  PROVE  CmdLine' /\ Known("main", "cmd")'
<1>1. Base /\ CmdLine /\ Known("main", "cmd")
  BY DEF CmdInv
<1>2. /\ recv[t] # Idle
      /\ recv' = [recv EXCEPT ![t] = Idle] /\ torn' = [torn EXCEPT ![recv[t].from] = TRUE]
      /\ UNCHANGED <<pipe, todo, written, drain, up, sent, got>>
  BY DEF GiveUpReceive
<1>3. torn \in [Pipes -> BOOLEAN] /\ recv \in [Readers -> Reception] /\ "cmd" \in Pipes /\ "main" \in Readers
  BY <1>1, CmdTypes
<1>4. recv[t].from \in ReadsFrom(t)
  BY <1>1, <1>2 DEF Base, ReceptionOK
<1>5. CASE t # "main"
  <2>1. recv[t].from # "cmd"
    BY <1>4, <1>5 DEF ReadsFrom, Readers
  <2>2. torn'["cmd"] = torn["cmd"] /\ recv'["main"] = recv["main"]
    BY <1>2, <1>3, <1>5, <2>1
  <2>3. QED
    BY <1>1, <1>2, <2>2, CmdAlone
<1>6. CASE t = "main"
  <2>1. torn'["cmd"] = TRUE
    BY <1>2, <1>3, <1>4, <1>6 DEF ReadsFrom
  <2>2. QED
    BY <2>1 DEF CmdLine, Known
<1>7. QED
  BY <1>5, <1>6

\* The worker reads the length of the first command on its way.
LEMMA ParseHeaderCmd ==
  ASSUME CmdInv, NEW t \in Readers, ParseHeader(t)
  PROVE  CmdLine' /\ Known("main", "cmd")'
<1>1. Base /\ CmdLine /\ Known("main", "cmd")
  BY DEF CmdInv
<1>2. PICK x \in Reception :
           /\ ReceptionOK(x, t) /\ recv' = [recv EXCEPT ![t] = x]
           /\ recv[t].from \in ReadsFrom(t) /\ Len(recv[t].cells) = HeaderSize
           /\ x.from = recv[t].from /\ x.cells = recv[t].cells /\ x.part = "payload"
           /\ IsHeader(x.cells) => x.need = Size[MessageOf(x.cells)]
           /\ UNCHANGED <<pipe, todo, written, drain, up, sent, got, torn>>
  BY <1>1, ParseHeaderDoes
<1>3. /\ recv \in [Readers -> Reception] /\ "cmd" \in Pipes /\ "main" \in Readers
      /\ drain.state \in {"off", "header", "payload", "done"}
  BY <1>1, CmdTypes
<1>4. CASE t # "main"
  <2>1. recv'["main"] = recv["main"]
    BY <1>2, <1>3, <1>4
  <2>2. QED
    BY <1>1, <1>2, <2>1, CmdAlone
<1>5. CASE t = "main"
  <2>1. recv'["main"] = x /\ recv["main"].from = "cmd" /\ Len(recv["main"].cells) = HeaderSize
    BY <1>2, <1>3, <1>5 DEF ReadsFrom
  <2>2. recv["main"] # Idle
    BY <2>1, IdleFrom
  <2>3. Waiting("main", "cmd")' = Waiting("main", "cmd")
    BY <1>2, <1>5, <2>1 DEF Waiting
  <2>4. ASSUME NEW taken \in Seq(Messages), NEW rest \in Seq(Messages), Counted(taken, rest)
        PROVE  /\ Counted(taken, rest)'
               /\ Waiting("main", "cmd") \o pipe["cmd"] = Stream(rest)
    <3>1. Left(rest)
      BY <2>4 DEF Counted
    <3>2. drain.state \in {"off", "header"}
      BY <1>3, <2>2, <3>1 DEF Left
    <3>3. Left(rest)'
      BY <1>2, <2>3, <3>1, <3>2 DEF Left
    <3>4. Counted(taken, rest)'
      BY <1>2, <2>4, <3>3 DEF Counted
    <3>5. QED
      BY <3>1, <3>2, <3>4 DEF Left
  <2>5. CmdLine'
    BY <1>1, <1>2, <2>4 DEF CmdLine
  <2>6. Known("main", "cmd")'
    <3>1. SUFFICES ASSUME ~torn["cmd"] PROVE x.need = Size[MessageOf(x.cells)]
      BY <1>2, <2>1 DEF Known
    <3>2. PICK taken \in Seq(Messages), rest \in Seq(Messages) : Counted(taken, rest)
      BY <1>1, <3>1 DEF CmdLine
    <3>3. Waiting("main", "cmd") \o pipe["cmd"] = Stream(rest)
      BY <2>4, <3>2
    <3>4. PICK c \in Seq(Cell) : c = recv["main"].cells
      BY <1>3 DEF Reception
    <3>5. Len(c) = HeaderSize /\ Len(recv["main"].cells) >= HeaderSize
      BY <2>1, <3>4, SizeIs
    <3>6. Fronts(c, pipe["cmd"], rest, <<>>)
      BY <1>1, <2>1, <3>3, <3>4, <3>5, CommandIs
    <3>7. SubSeq(c, 1, HeaderSize) = c
      BY <3>5, SubSeqFull
    <3>8. QED
      BY <1>2, <1>5, <3>4, <3>6, <3>7 DEF Fronts
  <2>7. QED
    BY <2>5, <2>6
<1>6. QED
  BY <1>4, <1>5

\* A message is a sequence of one.
LEMMA OneElement == \A x \in Messages : <<x>> \in Seq(Messages)
OBVIOUS

\* One more at the end of what was taken.
LEMMA TakenGrows ==
  ASSUME NEW taken \in Seq(Messages), NEW more \in Seq(Messages), NEW x \in Messages
  PROVE  /\ Append(taken, x) \in Seq(Messages) /\ <<x>> \o more \in Seq(Messages)
         /\ taken \o (<<x>> \o more) = Append(taken, x) \o more
<1>1. PICK f \in Seq(Messages) : f = <<x>>
  BY OneElement
<1>2. f \o more \in Seq(Messages)
  BY ConcatProperties
<1>3. Append(taken, x) \in Seq(Messages)
  BY AppendProperties
<1>4. (taken \o f) \o more = taken \o (f \o more)
  BY ThreeJoined
<1>5. taken \o f = Append(taken, x)
  BY <1>1
<1>6. QED
  BY <1>1, <1>2, <1>3, <1>4, <1>5

\* The worker gets the first command on its way.
LEMMA DeliverCmd ==
  ASSUME CmdInv, NEW t \in Readers, Deliver(t)
  PROVE  CmdLine' /\ Known("main", "cmd")'
<1>1. Base /\ CmdLine /\ Known("main", "cmd")
  BY DEF CmdInv
<1>2. PICK h \in Seq(Messages \cup {Garbage}) :
           /\ recv[t].from \in ReadsFrom(t) /\ recv[t].from \in Pipes
           /\ recv[t].part = "payload" /\ Len(recv[t].cells) = recv[t].need
           /\ HeaderSize <= Len(recv[t].cells)
           /\ recv' = [recv EXCEPT ![t] = Idle]
           /\ got' = [got EXCEPT ![recv[t].from] = got[recv[t].from] \o h]
           /\ Whole(recv[t].cells) => h = <<MessageOf(recv[t].cells)>>
           /\ UNCHANGED <<pipe, todo, written, drain, up, sent, torn>>
  BY <1>1, DeliverDoes
<1>3. /\ recv \in [Readers -> Reception] /\ "cmd" \in Pipes /\ "main" \in Readers
      /\ drain.state \in {"off", "header", "payload", "done"} /\ drain.count \in Nat
      /\ got \in [Pipes -> Seq(Messages \cup {Garbage})] /\ pipe \in [Pipes -> Seq(Cell)]
  BY <1>1, CmdTypes
<1>4. CASE t # "main"
  <2>1. recv[t].from # "cmd"
    BY <1>2, <1>4 DEF ReadsFrom, Readers
  <2>2. recv'["main"] = recv["main"] /\ got'["cmd"] = got["cmd"]
    BY <1>2, <1>3, <1>4, <2>1
  <2>3. QED
    BY <1>1, <1>2, <2>2, CmdAlone
<1>5. CASE t = "main"
  <2>1. recv'["main"] = Idle /\ recv["main"].from = "cmd" /\ recv["main"].part = "payload"
    BY <1>2, <1>3, <1>5 DEF ReadsFrom
  <2>2. recv["main"] # Idle
    BY <2>1, IdleFrom
  <2>3. Known("main", "cmd")'
    BY <2>1, IdleFrom DEF Known
  <2>4. Waiting("main", "cmd")' = <<>>
    BY <2>1, IdleFrom DEF Waiting
  <2>5. ASSUME ~torn["cmd"] PROVE \E taken, rest \in Seq(Messages) : Counted(taken, rest)'
    <3>1. PICK taken \in Seq(Messages), rest \in Seq(Messages) : Counted(taken, rest)
      BY <1>1, <2>5 DEF CmdLine
    <3>2. drain.state \in {"off", "header"}
      BY <1>3, <2>2, <3>1 DEF Counted, Left
    <3>3. Waiting("main", "cmd") \o pipe["cmd"] = Stream(rest)
      BY <3>1, <3>2 DEF Counted, Left
    <3>4. PICK c \in Seq(Cell) : c = recv["main"].cells
      BY <1>3 DEF Reception
    <3>5. Len(recv["main"].cells) >= HeaderSize
      BY <1>2, <1>5, <3>4, SizeIs, LenProperties
    <3>6. Fronts(c, pipe["cmd"], rest, <<>>)
      BY <1>1, <2>1, <3>3, <3>4, <3>5, CommandIs
    <3>7. Len(c) = Size[MessageOf(c)]
      BY <1>1, <1>2, <1>5, <2>1, <2>5, <3>4 DEF Known
    <3>8. PICK x \in Messages : x = MessageOf(c)
      BY <3>6 DEF Fronts
    <3>9. PICK more \in Seq(Messages) : rest = <<x>> \o more /\ pipe["cmd"] = Stream(more) \o <<>>
      BY <3>6, <3>7, <3>8 DEF Fronts
    <3>10. c = Cells(MessageOf(c), 1, Len(c))
      BY <3>6, <3>7, <3>8, SizeIs DEF Fronts
    <3>11. h = <<x>>
      BY <1>2, <1>5, <3>4, <3>6, <3>8, <3>10 DEF Whole, Fronts
    <3>12. pipe["cmd"] = Stream(more) /\ <<>> \o pipe["cmd"] = pipe["cmd"]
      <4>1. Stream(more) \in Seq(Cell)
        BY StreamType
      <4>2. Stream(more) \o <<>> = Stream(more) /\ <<>> \o Stream(more) = Stream(more)
        BY <4>1, ConcatEmptySeq
      <4>3. QED
        BY <3>9, <4>2
    <3>13. Left(more)'
      BY <1>2, <2>4, <3>2, <3>12 DEF Left
    <3>14. PICK now \in Seq(Messages) : now = Append(taken, x)
      BY TakenGrows
    <3>15. sent'["cmd"] = now \o more
      <4>1. sent["cmd"] = taken \o (<<x>> \o more)
        BY <3>1, <3>9 DEF Counted
      <4>2. QED
        BY <1>2, <3>14, <4>1, TakenGrows
    <3>16. drain'.count + Scans(got'["cmd"]) = Scans(now)
      <4>1. PICK W : W = Messages \cup {Garbage}
        OBVIOUS
      <4>2. PICK g \in Seq(W) : g = got["cmd"]
        BY <1>3, <4>1
      <4>3. got'["cmd"] = Append(g, x)
        <5>1. got'["cmd"] = g \o <<x>>
          BY <1>2, <1>3, <1>5, <2>1, <3>11, <4>2
        <5>2. g \o <<x>> = Append(g, x)
          OBVIOUS
        <5>3. QED
          BY <5>1, <5>2
      <4>4. x \in W
        BY <4>1
      <4>5. Scans(Append(g, x)) = Scans(g) + (IF IsScan(x) THEN 1 ELSE 0) /\ Scans(g) \in Nat
        BY <4>4, ScansAppend, ScansNumber
      <4>6. Scans(now) = Scans(taken) + (IF IsScan(x) THEN 1 ELSE 0) /\ Scans(taken) \in Nat
        BY <3>14, ScansAppend, ScansNumber
      <4>7. drain.count + Scans(g) = Scans(taken)
        BY <3>1, <4>2 DEF Counted
      <4>8. drain' = drain
        BY <1>2
      <4>9. QED
        BY <1>3, <4>3, <4>5, <4>6, <4>7, <4>8
    <3>17. Counted(now, more)'
      BY <1>2, <3>1, <3>13, <3>15, <3>16 DEF Counted
    <3>18. QED
      BY <3>17
  <2>6. CmdLine'
    BY <1>2, <2>5 DEF CmdLine
  <2>7. QED
    BY <2>3, <2>6
<1>6. QED
  BY <1>4, <1>5

\* A drain that shares cmd with no one.
LEMMA Unshared ==
  ASSUME CmdInv, torn' = [torn EXCEPT !["cmd"] = torn["cmd"] \/ CmdShared], ~torn'["cmd"]
  PROVE  ~torn["cmd"] /\ recv["main"] = Idle
<1>1. torn \in [Pipes -> BOOLEAN] /\ "cmd" \in Pipes
  BY CmdTypes DEF CmdInv
<1>2. torn'["cmd"] = (torn["cmd"] \/ CmdShared)
  BY <1>1
<1>3. QED
  BY <1>2 DEF CmdShared

\* The reader's expectation is not the drain's.
LEMMA KnowsStill ==
  ASSUME CmdInv, torn' = [torn EXCEPT !["cmd"] = torn["cmd"] \/ CmdShared], recv' = recv
  PROVE  Known("main", "cmd")'
<1>1. SUFFICES ASSUME ~torn'["cmd"] PROVE Known("main", "cmd")'
  BY DEF Known
<1>2. recv["main"] = Idle
  BY <1>1, Unshared
<1>3. QED
  BY <1>2, IdleFrom DEF Known

\* The drain starts between two commands, or the pipe is torn.
LEMMA StartDrainCmd ==
  ASSUME CmdInv, StartDrain
  PROVE  CmdLine' /\ Known("main", "cmd")'
<1>1. /\ drain.state = "off" /\ drain' = [NoDrain EXCEPT !.state = "header"]
      /\ torn' = [torn EXCEPT !["cmd"] = torn["cmd"] \/ CmdShared]
      /\ UNCHANGED <<pipe, todo, written, recv, up, serving, sent, got>>
  BY DEF StartDrain
<1>2. Known("main", "cmd")'
  BY <1>1, KnowsStill
<1>3. drain'.state = "header" /\ drain'.count = 0
  BY <1>1 DEF NoDrain
<1>4. ASSUME ~torn'["cmd"] PROVE \E taken, rest \in Seq(Messages) : Counted(taken, rest)'
  <2>1. ~torn["cmd"]
    BY <1>1, <1>4, Unshared
  <2>2. PICK taken \in Seq(Messages), rest \in Seq(Messages) : Counted(taken, rest)
    BY <2>1 DEF CmdInv, CmdLine
  <2>3. Waiting("main", "cmd")' = Waiting("main", "cmd")
    BY <1>1 DEF Waiting
  <2>4. Left(rest)'
    BY <1>1, <1>3, <2>2, <2>3 DEF Counted, Left
  <2>5. Counted(taken, rest)'
    BY <1>1, <1>3, <2>2, <2>4 DEF Counted
  <2>6. QED
    BY <2>5
<1>5. QED
  BY <1>2, <1>4 DEF CmdLine

\* The drain counts the first command on its way, or finds nothing left.
LEMMA DrainHeaderCmd ==
  ASSUME CmdInv, DrainHeader
  PROVE  CmdLine' /\ Known("main", "cmd")'
<1>1. Base
  BY DEF CmdInv
<1>2. PICK n \in Nat, c \in Seq(Cell), q \in Seq(Cell) :
           /\ drain.state = "header" /\ n <= HeaderSize /\ n <= Len(pipe["cmd"])
           /\ n < HeaderSize => n = Len(pipe["cmd"])
           /\ c = SubSeq(pipe["cmd"], 1, n) /\ Len(c) = n /\ c \o q = pipe["cmd"]
           /\ pipe' = [pipe EXCEPT !["cmd"] = q]
           /\ n < HeaderSize => DrainTo("done", drain.count, drain.skip)
           /\ n = HeaderSize /\ IsHeader(c) =>
                DrainTo("payload", IF IsScan(MessageOf(c)) THEN drain.count + 1 ELSE drain.count,
                        Size[MessageOf(c)] - HeaderSize)
           /\ n = HeaderSize /\ ~IsHeader(c) => DrainTo("payload", drain.count, Room + 1)
           /\ torn' = [torn EXCEPT !["cmd"] = torn["cmd"] \/ CmdShared]
           /\ UNCHANGED <<todo, written, recv, up, serving, sent, got>>
  BY <1>1, DrainHeaderDoes
<1>3. Known("main", "cmd")'
  BY <1>2, KnowsStill
<1>4. pipe \in [Pipes -> Seq(Cell)] /\ "cmd" \in Pipes /\ drain.count \in Nat /\ drain.skip \in Nat
  BY <1>1, CmdTypes
<1>5. pipe'["cmd"] = q
  BY <1>2, <1>4
<1>6. ASSUME ~torn'["cmd"] PROVE \E taken, rest \in Seq(Messages) : Counted(taken, rest)'
  <2>1. ~torn["cmd"] /\ recv["main"] = Idle
    BY <1>2, <1>6, Unshared
  <2>2. PICK taken \in Seq(Messages), rest \in Seq(Messages) : Counted(taken, rest)
    BY <2>1 DEF CmdInv, CmdLine
  <2>3. c \o q = Stream(rest)
    <3>1. Waiting("main", "cmd") = <<>>
      BY <2>1, IdleWaits
    <3>2. <<>> \o pipe["cmd"] = pipe["cmd"]
      BY <1>4, ConcatEmptySeq
    <3>3. Waiting("main", "cmd") \o pipe["cmd"] = Stream(rest)
      BY <1>2, <2>2 DEF Counted, Left
    <3>4. QED
      BY <1>2, <3>1, <3>2, <3>3
  <2>4. Len(Stream(rest)) = n + Len(q) /\ Len(q) \in Nat
    BY <1>2, <2>3, ConcatProperties, LenProperties
  <2>5. CASE rest = <<>>
    <3>1. n = 0 /\ Len(q) = 0
      BY <2>4, <2>5, StreamEmpty
    <3>2. n < HeaderSize
      BY <3>1, SizeIs
    <3>3. q = <<>>
      BY <3>1, EmptySeq
    <3>4. drain'.state = "done" /\ drain'.count = drain.count
      BY <1>2, <3>2 DEF DrainTo
    <3>5. Left(rest)'
      BY <1>2, <1>5, <2>1, <2>5, <3>3, <3>4 DEF Left
    <3>6. Counted(taken, rest)'
      BY <1>2, <2>2, <3>4, <3>5 DEF Counted
    <3>7. QED
      BY <3>6
  <2>6. CASE rest # <<>>
    <3>1. PICK x \in Messages, more \in Seq(Messages) : rest = <<x>> \o more
      <4>1. Head(rest) \in Messages /\ Tail(rest) \in Seq(Messages)
        BY <2>6, HeadTailProperties
      <4>2. rest = <<Head(rest)>> \o Tail(rest)
        BY <2>6
      <4>3. QED
        BY <4>1, <4>2
    <3>2. PICK a \in Seq(Cell) : a = Cells(x, 1, HeaderSize)
      BY SizeIs, FirstCells
    <3>3. PICK b \in Seq(Cell) : b = Cells(x, HeaderSize + 1, Size[x])
      <4>1. Size[x] \in Nat /\ HeaderSize + 1 \in Nat /\ HeaderSize + 1 <= Size[x] + 1
        BY SizeIs
      <4>2. QED
        BY <4>1, CellsAre
    <3>4. a \o b = Cells(x, 1, Size[x])
      <4>1. 1 \in Nat /\ HeaderSize \in Nat /\ Size[x] \in Nat /\ 1 <= HeaderSize + 1 /\ HeaderSize <= Size[x]
        BY SizeIs
      <4>2. QED
        BY <3>2, <3>3, <4>1, CellsJoin
    <3>5. PICK s \in Seq(Cell) : s = Stream(more)
      BY StreamType
    <3>6. c \o q = (a \o b) \o s
      BY <2>3, <3>1, <3>4, <3>5, StreamFront
    <3>7. (a \o b) \o s = a \o (b \o s)
      BY CellsAssociate, Zenon
    <3>8. PICK v \in Seq(Cell) : v = b \o s
      BY ConcatProperties
    <3>9. c \o q = a \o v
      BY <3>6, <3>7, <3>8
    <3>10. Len(a) = HeaderSize
      BY <3>2, SizeIs, FirstCells
    <3>11. n = HeaderSize
      <4>1. Len(c \o q) = n + Len(q)
        BY <1>2, ConcatProperties
      <4>2. Len(a \o v) = HeaderSize + Len(v)
        BY <3>10, ConcatProperties
      <4>3. Len(v) \in Nat
        BY LenProperties
      <4>4. n + Len(q) = HeaderSize + Len(v)
        BY <3>9, <4>1, <4>2
      <4>5. pipe["cmd"] = c \o q
        BY <1>2
      <4>6. (n < HeaderSize => n = n + Len(q)) /\ n <= HeaderSize
        BY <1>2, <4>1, <4>5
      <4>7. HeaderSize \in Nat
        BY SizeIs
      <4>8. Len(q) \in Nat
        BY <2>4
      <4>9. PICK k \in Nat : k = Len(q)
        BY <4>8
      <4>10. PICK j \in Nat : j = Len(v)
        BY <4>3
      <4>11. n + k = HeaderSize + j /\ (n < HeaderSize => n = n + k) /\ n <= HeaderSize
        BY <4>4, <4>6, <4>9, <4>10
      <4>12. QED
        BY <4>7, <4>11
    <3>12. c = a /\ q = v
      <4>1. Len(c) = Len(a)
        BY <1>2, <3>10, <3>11
      <4>2. QED
        BY <3>9, <4>1, CutAlike
    <3>13. IsHeader(c) /\ MessageOf(c) = x
      <4>1. IsHeader(c)
        BY <3>2, <3>12 DEF IsHeader
      <4>2. 1 \in 1 .. HeaderSize
        BY SizeIs
      <4>3. a[1] = <<x, 1>>
        BY <3>2, <4>2, SizeIs, FirstCells
      <4>4. MessageOf(c) = x
        BY <3>12, <4>3 DEF MessageOf
      <4>5. QED
        BY <4>1, <4>4
    <3>14. DrainTo("payload", IF IsScan(x) THEN drain.count + 1 ELSE drain.count, Size[x] - HeaderSize)
      BY <1>2, <3>11, <3>13
    <3>15. /\ drain'.state = "payload" /\ drain'.skip = Size[x] - HeaderSize
           /\ drain'.count = IF IsScan(x) THEN drain.count + 1 ELSE drain.count
      BY <3>14 DEF DrainTo
    <3>16. pipe'["cmd"] = Cells(x, HeaderSize + 1, Size[x]) \o Stream(more)
      BY <1>5, <3>3, <3>5, <3>8, <3>12
    <3>17. Left(more)'
      BY <1>2, <2>1, <3>15, <3>16 DEF Left
    <3>18. PICK now \in Seq(Messages) : now = Append(taken, x)
      BY TakenGrows
    <3>19. sent'["cmd"] = now \o more
      <4>1. sent["cmd"] = taken \o (<<x>> \o more)
        BY <2>2, <3>1 DEF Counted
      <4>2. QED
        BY <1>2, <3>18, <4>1, TakenGrows
    <3>20. drain'.count + Scans(got'["cmd"]) = Scans(now)
      <4>1. Scans(now) = Scans(taken) + (IF IsScan(x) THEN 1 ELSE 0) /\ Scans(taken) \in Nat
        BY <3>18, ScansAppend, ScansNumber
      <4>2. Scans(got["cmd"]) \in Nat
        <5>1. PICK W : W = Messages \cup {Garbage}
          OBVIOUS
        <5>2. PICK g \in Seq(W) : g = got["cmd"]
          BY <1>1, <5>1, CmdTypes
        <5>3. QED
          BY <5>2, ScansNumber
      <4>3. drain.count + Scans(got["cmd"]) = Scans(taken)
        BY <2>2 DEF Counted
      <4>4. got' = got
        BY <1>2
      <4>5. QED
        BY <1>4, <3>15, <4>1, <4>2, <4>3, <4>4
    <3>21. Counted(now, more)'
      BY <3>15, <3>17, <3>19, <3>20 DEF Counted
    <3>22. QED
      BY <3>21
  <2>7. QED
    BY <2>5, <2>6
<1>7. QED
  BY <1>3, <1>6 DEF CmdLine

\* The drain skips the rest of the command it counted.
LEMMA DrainPayloadCmd ==
  ASSUME CmdInv, DrainPayload
  PROVE  CmdLine' /\ Known("main", "cmd")'
<1>1. Base
  BY DEF CmdInv
<1>2. PICK n \in Nat, q \in Seq(Cell) :
           /\ drain.state = "payload" /\ n <= drain.skip /\ n <= Len(pipe["cmd"])
           /\ n < drain.skip => n = Len(pipe["cmd"])
           /\ SubSeq(pipe["cmd"], 1, n) \in Seq(Cell) /\ Len(SubSeq(pipe["cmd"], 1, n)) = n
           /\ SubSeq(pipe["cmd"], 1, n) \o q = pipe["cmd"]
           /\ pipe' = [pipe EXCEPT !["cmd"] = q]
           /\ n = drain.skip => DrainTo("header", drain.count, 0)
           /\ n # drain.skip => \E k \in Nat, s \in {"header", "payload"} : DrainTo(s, drain.count, k)
           /\ torn' = [torn EXCEPT !["cmd"] = torn["cmd"] \/ CmdShared]
           /\ UNCHANGED <<todo, written, recv, up, serving, sent, got>>
  BY <1>1, DrainPayloadDoes
<1>3. Known("main", "cmd")'
  BY <1>2, KnowsStill
<1>4. pipe \in [Pipes -> Seq(Cell)] /\ "cmd" \in Pipes /\ drain.count \in Nat /\ drain.skip \in Nat
  BY <1>1, CmdTypes
<1>5. pipe'["cmd"] = q
  BY <1>2, <1>4
<1>6. ASSUME ~torn'["cmd"] PROVE \E taken, rest \in Seq(Messages) : Counted(taken, rest)'
  <2>1. ~torn["cmd"] /\ recv["main"] = Idle
    BY <1>2, <1>6, Unshared
  <2>2. PICK taken \in Seq(Messages), rest \in Seq(Messages) : Counted(taken, rest)
    BY <2>1 DEF CmdInv, CmdLine
  <2>3. PICK m \in Messages :
          drain.skip = Size[m] - HeaderSize
          /\ pipe["cmd"] = Cells(m, HeaderSize + 1, Size[m]) \o Stream(rest)
    BY <1>2, <2>2 DEF Counted, Left
  <2>4. PICK b \in Seq(Cell) : b = Cells(m, HeaderSize + 1, Size[m])
    <3>1. Size[m] \in Nat /\ HeaderSize + 1 \in Nat /\ HeaderSize + 1 <= Size[m] + 1
      BY SizeIs
    <3>2. QED
      BY <3>1, CellsAre
  <2>5. Len(b) = drain.skip
    <3>1. Size[m] \in Nat /\ HeaderSize \in Nat /\ HeaderSize + 1 \in Nat /\ HeaderSize + 1 <= Size[m] + 1
      BY SizeIs
    <3>2. Len(b) = Size[m] - (HeaderSize + 1) + 1
      BY <2>4, <3>1, CellsAre
    <3>3. QED
      BY <2>3, <3>1, <3>2
  <2>6. PICK s \in Seq(Cell) : s = Stream(rest)
    BY StreamType
  <2>7. PICK c \in Seq(Cell) : c = SubSeq(pipe["cmd"], 1, n) /\ Len(c) = n
    BY <1>2
  <2>8. c \o q = b \o s
    BY <1>2, <2>3, <2>4, <2>6, <2>7
  <2>9. n = drain.skip
    <3>1. Len(b \o s) = Len(b) + Len(s) /\ Len(s) \in Nat
      BY ConcatProperties, LenProperties
    <3>2. pipe["cmd"] = b \o s
      BY <2>3, <2>4, <2>6
    <3>3. QED
      BY <1>2, <1>4, <2>5, <3>1, <3>2
  <2>10. q = s
    BY <2>5, <2>7, <2>8, <2>9, CutAlike
  <2>11. drain'.state = "header" /\ drain'.count = drain.count
    BY <1>2, <2>9 DEF DrainTo
  <2>12. Waiting("main", "cmd")' \o pipe'["cmd"] = Stream(rest)
    <3>1. recv'["main"] = Idle
      BY <1>2, <2>1
    <3>2. Waiting("main", "cmd")' = <<>>
      BY <3>1, IdleFrom DEF Waiting
    <3>3. <<>> \o q = q
      BY ConcatEmptySeq
    <3>4. QED
      BY <1>5, <2>6, <2>10, <3>2, <3>3
  <2>13. Left(rest)'
    BY <2>11, <2>12 DEF Left
  <2>14. Counted(taken, rest)'
    BY <1>2, <2>2, <2>11, <2>13 DEF Counted
  <2>15. QED
    BY <2>14
<1>7. QED
  BY <1>3, <1>6 DEF CmdLine

\* The worker dies between two commands, or the pipe is torn.
LEMMA DieCmd ==
  ASSUME CmdInv, Die
  PROVE  CmdLine' /\ Known("main", "cmd")'
<1>1. recv' = [recv EXCEPT !["main"] = Idle]
      /\ torn' = [torn EXCEPT !["cmd"] = torn["cmd"] \/ recv["main"] # Idle]
      /\ UNCHANGED <<pipe, todo, written, drain, serving, sent, got>>
  BY DEF Die
<1>2. torn \in [Pipes -> BOOLEAN] /\ recv \in [Readers -> Reception] /\ "cmd" \in Pipes /\ "main" \in Readers
  BY CmdTypes DEF CmdInv
<1>3. recv'["main"] = Idle /\ torn'["cmd"] = (torn["cmd"] \/ recv["main"] # Idle)
  BY <1>1, <1>2
<1>4. CASE recv["main"] = Idle /\ ~torn["cmd"]
  <2>1. recv'["main"] = recv["main"] /\ torn'["cmd"] = torn["cmd"]
    BY <1>2, <1>3, <1>4
  <2>2. QED
    BY <1>1, <2>1, CmdAlone DEF CmdInv
<1>5. CASE ~(recv["main"] = Idle /\ ~torn["cmd"])
  BY <1>2, <1>3, <1>5 DEF CmdLine, Known
<1>6. QED
  BY <1>4, <1>5

\* Every step keeps the invariant of cmd.
LEMMA CmdInvKept ==
  ASSUME Fits("cmd"), CmdInv, [Next]_vars
  PROVE  CmdInv'
<1>1. Base /\ CmdLine /\ Known("main", "cmd")
  BY DEF CmdInv
<1>2. Base'
  BY <1>1, BaseKept
<1>3. ASSUME NEW t \in Threads, Send(t) PROVE CmdLine' /\ Known("main", "cmd")'
  BY <1>3, SendCmd
<1>4. ASSUME NEW t \in Threads, GiveUpSend(t) PROVE CmdLine' /\ Known("main", "cmd")'
  <2>1. UNCHANGED <<pipe, written, recv, drain, up, serving, sent, got, torn>>
    BY <1>4 DEF GiveUpSend
  <2>2. QED
    BY <1>1, <2>1, CmdAlone
<1>5. ASSUME NEW t \in Readers, Receive(t) \/ GiveUpReceive(t) PROVE CmdLine' /\ Known("main", "cmd")'
  BY <1>5, ReceiveCmd, ParseHeaderCmd, DeliverCmd, GiveUpReceiveCmd DEF Receive
<1>6. ASSUME Drain PROVE CmdLine' /\ Known("main", "cmd")'
  <2>1. CASE StartDrain
    BY <2>1, StartDrainCmd
  <2>2. CASE DrainHeader
    BY <2>2, DrainHeaderCmd
  <2>3. CASE DrainPayload
    BY <2>3, DrainPayloadCmd
  <2>4. QED
    BY <1>6, <2>1, <2>2, <2>3 DEF Drain
<1>7. ASSUME HangUp PROVE CmdLine' /\ Known("main", "cmd")'
  <2>1. recv' = [recv EXCEPT !["ipc"] = Idle]
        /\ UNCHANGED <<pipe, todo, written, drain, up, serving, sent, got, torn>>
    BY <1>7 DEF HangUp
  <2>2. recv'["main"] = recv["main"]
    <3>1. recv \in [Readers -> Reception] /\ "main" \in Readers
      BY <1>1, CmdTypes
    <3>2. QED
      BY <2>1, <3>1
  <2>3. QED
    BY <1>1, <2>1, <2>2, CmdAlone
<1>8. ASSUME UNCHANGED vars PROVE CmdLine' /\ Known("main", "cmd")'
  <2>1. pipe' = pipe /\ recv' = recv /\ drain' = drain /\ sent' = sent /\ got' = got /\ torn' = torn
    BY <1>8 DEF vars
  <2>2. QED
    BY <1>1, <2>1, CmdAlone
<1>9. QED
  BY <1>2, <1>3, <1>4, <1>5, <1>6, <1>7, <1>8, DieCmd DEF CmdInv, Next

\* When ipc_drain_and_count_tasks has read cmd to the end, the SCANs it counted and
\* those the worker received are all that were sent: pending_tasks loses what the
\* worker never got, and nothing else, unless someone was within a message.
THEOREM DrainCountsAll ==
  ASSUME Fits("cmd")
  PROVE  Spec => []DrainExact
<1>1. Init => CmdInv
  BY InitTyped, InitCmd DEF CmdInv
<1>2. CmdInv /\ [Next]_vars => CmdInv'
  BY CmdInvKept
<1>3. CmdInv => DrainExact
  <2>1. SUFFICES ASSUME CmdInv, drain.state = "done", ~torn["cmd"]
                 PROVE  drain.count + Scans(got["cmd"]) = Scans(sent["cmd"])
    BY DEF DrainExact
  <2>2. PICK taken \in Seq(Messages), rest \in Seq(Messages) : Counted(taken, rest)
    BY <2>1 DEF CmdInv, CmdLine
  <2>3. rest = <<>> /\ sent["cmd"] = taken \o rest
    BY <2>1, <2>2 DEF Counted, Left
  <2>4. taken \o <<>> = taken
    BY ConcatEmptySeq
  <2>5. QED
    BY <2>2, <2>3, <2>4 DEF Counted
<1>4. QED
  BY <1>1, <1>2, <1>3, PTL DEF Spec

-----------------------------------------------------------------------------
(* The queue: its ring never loses, overwrites or reorders a command, the  *)
(* IPC thread never sleeps over a command without a pending notification,  *)
(* and the queue implements the safety part of Channel.                    *)

USE CapacityAssumption, NamesAssumption

\* The inductive invariant: a delivered message is well typed because the ring
\* holds accepted messages, so none of the parts is inductive without RingOK.
QueueInv == TypeOK /\ RingOK /\ NoLostWakeup

-----------------------------------------------------------------------------
\* An index is its quotient times the capacity plus its slot.
LEMMA DivMod ==
  ASSUME NEW i \in Nat
  PROVE  /\ i \div Capacity \in Nat
         /\ SlotOf(i) \in 0 .. Capacity - 1
         /\ i = Capacity * (i \div Capacity) + SlotOf(i)
BY DEF SlotOf

\* Two indices less than one capacity apart use different slots: the mask never
\* makes an unread message and the one being written share a slot.
LEMMA SlotsDistinct ==
  ASSUME NEW i \in Nat, NEW j \in Nat, i < j, j - i < Capacity
  PROVE  SlotOf(i) # SlotOf(j)
<1> DEFINE q == i \div Capacity
           r == j \div Capacity
<1>1. /\ q \in Nat /\ r \in Nat
      /\ i = Capacity * q + SlotOf(i)
      /\ j = Capacity * r + SlotOf(j)
      /\ SlotOf(i) \in Int /\ SlotOf(j) \in Int
  <2>1. /\ i \div Capacity \in Nat
        /\ SlotOf(i) \in 0 .. Capacity - 1
        /\ i = Capacity * (i \div Capacity) + SlotOf(i)
    BY DivMod
  <2>2. /\ j \div Capacity \in Nat
        /\ SlotOf(j) \in 0 .. Capacity - 1
        /\ j = Capacity * (j \div Capacity) + SlotOf(j)
    BY DivMod
  <2>3. QED
    BY <2>1, <2>2
<1> SUFFICES ASSUME SlotOf(i) = SlotOf(j) PROVE FALSE
  OBVIOUS
<1> HIDE DEF q, r
<1>2. j - i = Capacity * r - Capacity * q
  BY <1>1
<1>3. Capacity * r - Capacity * q = Capacity * (r - q)
  BY <1>1
<1>4. r - q >= 1 => Capacity * (r - q) >= Capacity
  BY <1>1
<1>5. r - q <= 0 => Capacity * (r - q) <= 0
  BY <1>1
<1>6. QED
  BY <1>1, <1>2, <1>3, <1>4, <1>5

-----------------------------------------------------------------------------
(* One lemma per critical section of the mutex. *)

\* The critical section of a send keeps the ring and the types, and leaves a
\* notification owed.
LEMMA EnqueueKeepsRing ==
  ASSUME QueueInv, NEW t \in Senders, NEW m \in Commands, Enqueue(t, m),
         UNCHANGED <<head, delivered>>
  PROVE  /\ RingOK'
         /\ buffer' \in [0 .. Capacity - 1 -> Commands \cup {None}]
         /\ tail' \in Nat
         /\ accepted' \in Seq(Commands)
         /\ owed' \in SUBSET Senders
         /\ owed' # {}
<1>1. tail - head < Capacity /\ tail = Len(accepted) /\ SlotOf(tail) \in 0 .. Capacity - 1
  BY DivMod DEF QueueInv, TypeOK, RingOK, Enqueue, Full
<1>2. /\ buffer' \in [0 .. Capacity - 1 -> Commands \cup {None}]
      /\ buffer' = [buffer EXCEPT ![SlotOf(tail)] = m]
      /\ tail' = tail + 1
  BY <1>1 DEF QueueInv, TypeOK, Enqueue, Put
<1>3. /\ accepted' \in Seq(Commands)
      /\ Len(accepted') = Len(accepted) + 1
      /\ \A i \in 1 .. Len(accepted) : accepted'[i] = accepted[i]
      /\ accepted'[tail + 1] = m
  BY <1>1 DEF QueueInv, TypeOK, Enqueue, Put
<1>4. ASSUME NEW i \in head .. tail
      PROVE  buffer'[SlotOf(i)] = accepted'[i + 1]
  <2>1. CASE i = tail
    BY <1>1, <1>2, <1>3, <2>1 DEF QueueInv, TypeOK
  <2>2. CASE i # tail
    <3>1. i \in head .. tail - 1 /\ i \in Nat /\ i < tail /\ tail - i < Capacity
      BY <2>2, <1>1 DEF QueueInv, TypeOK
    <3>2. SlotOf(i) # SlotOf(tail) /\ SlotOf(i) \in 0 .. Capacity - 1
      BY <3>1, SlotsDistinct, DivMod DEF QueueInv, TypeOK
    <3>3. buffer'[SlotOf(i)] = buffer[SlotOf(i)]
      BY <1>2, <3>2 DEF QueueInv, TypeOK
    <3>4. i + 1 \in 1 .. Len(accepted)
      BY <1>1, <3>1
    <3>5. QED
      BY <3>1, <3>3, <3>4, <1>3 DEF QueueInv, RingOK
  <2>3. QED
    BY <2>1, <2>2
<1>5. RingOK'
  BY <1>1, <1>2, <1>3, <1>4 DEF QueueInv, TypeOK, RingOK
<1>6. owed' \in SUBSET Senders /\ owed' # {}
  BY DEF QueueInv, TypeOK, Enqueue, Put
<1>7. tail' \in Nat
  BY <1>2 DEF QueueInv, TypeOK
<1>8. QED
  BY <1>2, <1>3, <1>5, <1>6, <1>7

\* A recv hands out the oldest accepted message that was not delivered yet.
LEMMA RecvIsOldest ==
  ASSUME QueueInv, Recv
  PROVE  /\ Len(delivered) < Len(accepted)
         /\ accepted[Len(delivered) + 1] \in Commands
         /\ delivered' = Append(delivered, accepted[Len(delivered) + 1])
         /\ hand' = accepted[Len(delivered) + 1]
<1>1. head \in head .. tail - 1 /\ head = Len(delivered) /\ head < Len(accepted)
  BY DEF QueueInv, TypeOK, RingOK, Recv, Empty
<1>2. buffer[SlotOf(head)] = accepted[head + 1]
  BY <1>1 DEF QueueInv, RingOK
<1>3. QED
  BY <1>1, <1>2 DEF QueueInv, TypeOK, Recv, Take

-----------------------------------------------------------------------------
LEMMA QueueInitInv == QueueInit => QueueInv
BY DEF QueueInit, QueueInv, TypeOK, RingOK, NoLostWakeup, Empty

LEMMA QueueInvKept == QueueInv /\ [QueueNext]_queueVars => QueueInv'
<1> SUFFICES ASSUME QueueInv, [QueueNext]_queueVars PROVE QueueInv'
  OBVIOUS
<1>1. ASSUME NEW t \in Producers, NEW m \in Commands, SendCommand(t, m) PROVE QueueInv'
  <2>1. t \in Senders /\ Enqueue(t, m) /\ UNCHANGED <<head, efd, ipcPc, hand, delivered>>
    BY <1>1 DEF SendCommand, Senders
  <2>2. QED
    BY <2>1, EnqueueKeepsRing DEF QueueInv, TypeOK, NoLostWakeup
<1>2. ASSUME NEW t \in Senders, Notify(t) PROVE QueueInv'
  <2>1. TypeOK' /\ RingOK'
    BY <1>2 DEF QueueInv, TypeOK, RingOK, Notify
  <2>2. efd' > 0
    BY <1>2 DEF QueueInv, TypeOK, Notify
  <2>3. QED
    BY <2>1, <2>2 DEF QueueInv, NoLostWakeup
<1>3. CASE Recv
  <2>1. TypeOK'
    BY <1>3, RecvIsOldest DEF QueueInv, TypeOK, Recv, Take
  <2>2. Len(delivered') = Len(delivered) + 1
    BY <1>3, RecvIsOldest DEF QueueInv, TypeOK
  <2>3. RingOK'
    BY <1>3, <2>2, RecvIsOldest DEF QueueInv, TypeOK, RingOK, Recv, Take, Empty
  <2>4. NoLostWakeup'
    BY <1>3 DEF Recv, Take, IpcRuns, NoLostWakeup
  <2>5. QED
    BY <2>1, <2>3, <2>4 DEF QueueInv
<1>4. CASE PushBack
  <2>1. Ipc \in Senders /\ hand \in Commands /\ Enqueue(Ipc, hand)
    BY <1>4 DEF PushBack, Senders, QueueInv, TypeOK
  <2>2. UNCHANGED <<head, efd, ipcPc, delivered>> /\ hand' = None
    BY <1>4 DEF PushBack
  <2>3. QED
    BY <2>1, <2>2, EnqueueKeepsRing DEF QueueInv, TypeOK, NoLostWakeup
<1>5. CASE Handle
  BY <1>5 DEF Handle, QueueInv, TypeOK, RingOK, NoLostWakeup, Empty
<1>6. CASE DrainEnd
  BY <1>6 DEF DrainEnd, QueueInv, TypeOK, RingOK, NoLostWakeup, Empty
<1>7. CASE Wake
  BY <1>7 DEF Wake, QueueInv, TypeOK, RingOK, NoLostWakeup, Empty
<1>8. CASE Timeout
  BY <1>8 DEF Timeout, QueueInv, TypeOK, RingOK, NoLostWakeup, Empty
<1>9. CASE ClearOne
  BY <1>9 DEF ClearOne, IpcRuns, QueueInv, TypeOK, RingOK, NoLostWakeup, Empty
<1>10. CASE ClearEnd
  BY <1>10 DEF ClearEnd, QueueInv, TypeOK, RingOK, NoLostWakeup, Empty
<1>11. CASE UNCHANGED queueVars
  BY <1>11 DEF queueVars, QueueInv, TypeOK, RingOK, NoLostWakeup, Empty
<1>12. QED
  BY <1>1, <1>2, <1>3, <1>4, <1>5, <1>6, <1>7, <1>8, <1>9, <1>10, <1>11
  DEF QueueNext, IpcStep

\* The inductive invariant holds in every reachable state.
THEOREM QueueInvariant == QueueSafeSpec => []QueueInv
BY QueueInitInv, QueueInvKept, PTL DEF QueueSafeSpec

-----------------------------------------------------------------------------
\* Type correctness of the queue of msg_queue.c and of the loop that drains it.
THEOREM QueueIsTyped == QueueSafeSpec => []TypeOK
<1>1. QueueInv => TypeOK
  BY DEF QueueInv
<1>2. QED
  BY <1>1, QueueInvariant, PTL

\* msg_queue_send and msg_queue_recv never lose, overwrite, duplicate or reorder
\* an accepted command, whatever the capacity and the number of senders.
THEOREM RingCorrect == QueueSafeSpec => []RingOK
<1>1. QueueInv => RingOK
  BY DEF QueueInv
<1>2. QED
  BY <1>1, QueueInvariant, PTL

\* ipc_thread_loop never waits in epoll_wait over a queued command unless its
\* eventfd is readable or a sender is about to write it.
THEOREM WakeupNotLost == QueueSafeSpec => []NoLostWakeup
<1>1. QueueInv => NoLostWakeup
  BY DEF QueueInv
<1>2. QED
  BY <1>1, QueueInvariant, PTL

-----------------------------------------------------------------------------
\* Every step of the queue is a step of the channel or leaves it unchanged.
LEMMA QueueStep == QueueInv /\ [QueueNext]_queueVars => [Chan!Next]_(Chan!chanVars)
<1> SUFFICES ASSUME QueueInv, [QueueNext]_queueVars PROVE [Chan!Next]_(Chan!chanVars)
  OBVIOUS
<1>1. ASSUME NEW t \in Senders, NEW m \in Commands, Enqueue(t, m), delivered' = delivered
      PROVE  Chan!Next
  <2>1. Chan!Accept(m)
    BY <1>1 DEF QueueInv, TypeOK, RingOK, Enqueue, Put, Full, Chan!Accept
  <2>2. QED
    BY <2>1 DEF Chan!Next
<1>2. ASSUME NEW t \in Producers, NEW m \in Commands, SendCommand(t, m) PROVE Chan!Next
  BY <1>1, <1>2 DEF SendCommand, Senders
<1>3. CASE PushBack
  BY <1>1, <1>3 DEF PushBack, Senders, QueueInv, TypeOK
<1>4. CASE Recv
  <2>1. Chan!Deliver
    BY <1>4, RecvIsOldest DEF Recv, Take, Chan!Deliver
  <2>2. QED
    BY <2>1 DEF Chan!Next
<1>5. ASSUME NEW t \in Senders, Notify(t) PROVE UNCHANGED Chan!chanVars
  BY <1>5 DEF Notify, Chan!chanVars
<1>6. CASE Handle \/ DrainEnd \/ Wake \/ Timeout \/ ClearOne \/ ClearEnd
  BY <1>6 DEF Handle, DrainEnd, Wake, Timeout, ClearOne, ClearEnd, Chan!chanVars
<1>7. CASE UNCHANGED queueVars
  BY <1>7 DEF queueVars, Chan!chanVars
<1>8. QED
  BY <1>2, <1>3, <1>4, <1>5, <1>6, <1>7 DEF QueueNext, IpcStep

\* The ring buffer, its eventfd and the loop of the IPC thread implement the
\* bounded first-in first-out channel.
THEOREM QueueImplementsChannel == QueueSafeSpec => ChannelSpec
<1>1. QueueInit => Chan!Init
  BY DEF QueueInit, Chan!Init
<1>2. QED
  BY <1>1, QueueInvariant, QueueStep, PTL DEF QueueSafeSpec, ChannelSpec, Chan!Spec
=============================================================================
