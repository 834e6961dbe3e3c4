------------------------------ MODULE MsgQueue ------------------------------
(***************************************************************************)
(* The command queue of one IPC thread: the mutex-protected ring buffer of *)
(* src/ipc/msg_queue.c, its eventfd, the threads that send to it and the   *)
(* loop of src/ipc/ipc_thread.c that empties it.                           *)
(*                                                                         *)
(* Each critical section of q->mutex is one action.  The eventfd write of  *)
(* msg_queue_send happens after the unlock, so it is an action of its own, *)
(* and so is each read of msg_queue_drain_eventfd.  A send that finds the  *)
(* queue full changes nothing and is not an action.                        *)
(***************************************************************************)
EXTENDS Naturals, Sequences

CONSTANTS
  Commands,    \* contents of a command
  Producers,   \* threads that send: the master's main thread, the monitor
  Ipc,         \* the IPC thread: the consumer, and a sender (EAGAIN retry)
  Capacity,    \* slots of the ring (MSG_QUEUE_DEFAULT_CAPACITY)
  MaxSends,    \* bound of the model: messages accepted in a behaviour
  None         \* no message

ASSUME CapacityAssumption == Capacity \in Nat \ {0}
ASSUME BoundAssumption == MaxSends \in Nat
ASSUME NamesAssumption == Ipc \notin Producers /\ None \notin Commands

VARIABLES
  buffer,      \* q->buffer
  head, tail,  \* q->head, q->tail: they only grow, a slot is index mod Capacity
  efd,         \* counter of q->eventfd
  owed,        \* threads between the unlock and the eventfd write of a send
  ipcPc,       \* where the IPC thread is in its loop
  hand,        \* the command handle_cmd is working on
  accepted,    \* history: messages whose send returned true
  delivered    \* history: messages a recv handed out

queueVars == <<buffer, head, tail, efd, owed, ipcPc, hand, accepted, delivered>>

Senders == Producers \cup {Ipc}

\* q->buffer[i & mask]: the capacity is a power of two, the mask is the modulo.
SlotOf(i) == i % Capacity

Full == tail - head >= Capacity
Empty == head >= tail

-----------------------------------------------------------------------------
(* msg_queue_create *)
QueueInit ==
  /\ buffer = [i \in 0 .. Capacity - 1 |-> None]
  /\ head = 0
  /\ tail = 0
  /\ efd = 0
  /\ owed = {}
  /\ ipcPc = "top"
  /\ hand = None
  /\ accepted = <<>>
  /\ delivered = <<>>

\* What a send writes under q->mutex.
Put(t, m) ==
  /\ Len(accepted) < MaxSends
  /\ buffer' = [buffer EXCEPT ![SlotOf(tail)] = m]
  /\ tail' = tail + 1
  /\ owed' = owed \cup {t}
  /\ accepted' = Append(accepted, m)

\* MUTANT: the size test is off by one, the newest message overwrites the oldest.
EnqueueOffByOne(t, m) == tail - head <= Capacity /\ Put(t, m)

\* The critical section of a msg_queue_send that returns true.
Enqueue(t, m) == ~Full /\ Put(t, m)

SendCommand(t, m) ==
  /\ t \notin owed
  /\ Enqueue(t, m)
  /\ UNCHANGED <<head, efd, ipcPc, hand, delivered>>

\* MUTANT: a send that forgets the eventfd.
NotifyLost(t) ==
  /\ t \in owed
  /\ owed' = owed \ {t}
  /\ UNCHANGED <<efd, buffer, head, tail, ipcPc, hand, accepted, delivered>>

\* The eventfd write that ends a msg_queue_send.
Notify(t) ==
  /\ t \in owed
  /\ owed' = owed \ {t}
  /\ efd' = efd + 1
  /\ UNCHANGED <<buffer, head, tail, ipcPc, hand, accepted, delivered>>

-----------------------------------------------------------------------------
(* The IPC thread.  "top" is the drain at the head of the loop, "poll" is  *)
(* epoll_wait, "clear" and "recv" are the handler of the eventfd's event.  *)

IpcRuns(pcs) == ipcPc \in pcs /\ hand = None /\ Ipc \notin owed

\* What a recv does under q->mutex, reading index i.
Take(i) ==
  /\ IpcRuns({"top", "recv"})
  /\ hand' = buffer[SlotOf(i)]
  /\ delivered' = Append(delivered, buffer[SlotOf(i)])
  /\ head' = head + 1
  /\ UNCHANGED <<buffer, tail, efd, owed, ipcPc, accepted>>

\* MUTANT: a stack instead of a queue.
RecvNewest == ~Empty /\ Take(tail - 1)

\* A msg_queue_recv that returns true, in either drain loop.
Recv == ~Empty /\ Take(head)

\* handle_cmd deals with the command...
Handle ==
  /\ hand # None
  /\ hand' = None
  /\ UNCHANGED <<buffer, head, tail, efd, owed, ipcPc, accepted, delivered>>

\* ...or the worker's pipe answers EAGAIN and the command goes to the back of
\* the same queue (if that is full it is dropped, which is Handle).
PushBack ==
  /\ hand # None
  /\ Enqueue(Ipc, hand)
  /\ hand' = None
  /\ UNCHANGED <<head, efd, ipcPc, delivered>>

\* The recv that finds the queue empty ends a drain loop.  The rest of the
\* events and the heartbeat check do not touch the queue: from "recv" the loop
\* comes back to "top".
DrainEnd ==
  /\ IpcRuns({"top", "recv"})
  /\ Empty
  /\ ipcPc' = IF ipcPc = "top" THEN "poll" ELSE "top"
  /\ UNCHANGED <<buffer, head, tail, efd, owed, hand, accepted, delivered>>

\* epoll_wait reports the eventfd.
Wake ==
  /\ IpcRuns({"poll"})
  /\ efd > 0
  /\ ipcPc' = "clear"
  /\ UNCHANGED <<buffer, head, tail, efd, owed, hand, accepted, delivered>>

\* epoll_wait times out after 500 ms, or reports only the worker's pipes.
Timeout ==
  /\ IpcRuns({"poll"})
  /\ ipcPc' = "top"
  /\ UNCHANGED <<buffer, head, tail, efd, owed, hand, accepted, delivered>>

\* One read of the EFD_SEMAPHORE eventfd, and the one that answers EAGAIN.
ClearOne ==
  /\ IpcRuns({"clear"})
  /\ efd > 0
  /\ efd' = efd - 1
  /\ UNCHANGED <<buffer, head, tail, owed, ipcPc, hand, accepted, delivered>>

\* MUTANT: the handler clears the notifications and trusts the next one.
ClearEndToPoll ==
  /\ IpcRuns({"clear"})
  /\ efd = 0
  /\ ipcPc' = "poll"
  /\ UNCHANGED <<buffer, head, tail, efd, owed, hand, accepted, delivered>>

ClearEnd ==
  /\ IpcRuns({"clear"})
  /\ efd = 0
  /\ ipcPc' = "recv"
  /\ UNCHANGED <<buffer, head, tail, efd, owed, hand, accepted, delivered>>

-----------------------------------------------------------------------------
IpcStep == \/ Recv \/ Handle \/ PushBack \/ DrainEnd
           \/ Wake \/ ClearOne \/ ClearEnd

QueueNext ==
  \/ \E t \in Producers, m \in Commands : SendCommand(t, m)
  \/ \E t \in Senders : Notify(t)
  \/ IpcStep
  \/ Timeout

\* Every thread keeps running and its system calls return.  The 500 ms timeout
\* of epoll_wait gets no fairness: delivery must not need it.
QueueFairness ==
  /\ \A t \in Senders : WF_queueVars(Notify(t))
  /\ WF_queueVars(IpcStep)

QueueSafeSpec == QueueInit /\ [][QueueNext]_queueVars

QueueSpec == QueueSafeSpec /\ QueueFairness

-----------------------------------------------------------------------------
(* Type invariant. *)
TypeOK ==
  /\ buffer \in [0 .. Capacity - 1 -> Commands \cup {None}]
  /\ head \in Nat
  /\ tail \in Nat
  /\ efd \in Nat
  /\ owed \in SUBSET Senders
  /\ ipcPc \in {"top", "poll", "clear", "recv"}
  /\ hand \in Commands \cup {None}
  /\ accepted \in Seq(Commands)
  /\ delivered \in Seq(Commands)

\* The ring between head and tail holds exactly the accepted messages that were
\* not delivered yet, oldest first: no unread slot is ever overwritten and no
\* index runs past the other (msg_queue_send, msg_queue_recv).
RingOK ==
  /\ head = Len(delivered)
  /\ tail = Len(accepted)
  /\ head <= tail
  /\ tail - head <= Capacity
  /\ \A i \in head .. tail - 1 : buffer[SlotOf(i)] = accepted[i + 1]

\* A command in the queue is never left to the 500 ms timeout: while the IPC
\* thread sleeps in epoll_wait over a non-empty queue, the eventfd is readable
\* or a sender is about to write it (msg_queue_send against ipc_thread_loop).
NoLostWakeup ==
  ipcPc = "poll" /\ ~Empty => efd > 0 \/ owed # {}

\* The ring, the eventfd and the loop implement the bounded FIFO channel.
Chan == INSTANCE Channel WITH Messages <- Commands, sent <- accepted, rcvd <- delivered
ChannelSpec == Chan!Spec

\* Every accepted command reaches handle_cmd although nothing forces the
\* timeout of epoll_wait: the notifications alone suffice.  At most MaxSends are
\* accepted, so in the end all of them are delivered.
EventuallyDelivered == []<>(Len(delivered) = Len(accepted))
=============================================================================
