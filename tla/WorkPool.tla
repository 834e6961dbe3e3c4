----------------------------- MODULE WorkPool -----------------------------
(***************************************************************************)
(* What the bus expects of the thread pool (it is poolQ, working and       *)
(* completed of module Bus): batches are taken in the order they came,     *)
(* each by one thread, and all of them come back.  No thread sleeps, no    *)
(* mutex is held, nothing stops.                                           *)
(***************************************************************************)
EXTENDS Integers, Sequences

CONSTANTS
  Batch,     \* the batches
  NoBatch,   \* no batch
  Threads,   \* the threads of the pool
  Capacity   \* batches the work queue holds

VARIABLES
  queue,      \* submitted and not taken
  hand,       \* what each thread works on
  completed   \* done and not polled

poolVars == <<queue, hand, completed>>

PoolInit ==
  /\ queue = <<>> /\ completed = <<>>
  /\ hand = [t \in Threads |-> NoBatch]

PoolSubmit ==
  /\ Len(queue) < Capacity
  /\ \E b \in Batch : queue' = Append(queue, b)
  /\ UNCHANGED <<hand, completed>>

PoolTake(t) ==
  /\ hand[t] = NoBatch /\ queue # <<>>
  /\ hand' = [hand EXCEPT ![t] = Head(queue)]
  /\ queue' = Tail(queue)
  /\ UNCHANGED completed

PoolComplete(t) ==
  /\ hand[t] # NoBatch
  /\ completed' = Append(completed, hand[t])
  /\ hand' = [hand EXCEPT ![t] = NoBatch]
  /\ UNCHANGED queue

PoolPoll ==
  /\ completed # <<>> /\ completed' = Tail(completed)
  /\ UNCHANGED <<queue, hand>>

\* The owner frees the pool, with what it did not poll.
PoolFree ==
  /\ queue = <<>> /\ \A t \in Threads : hand[t] = NoBatch
  /\ completed' = <<>>
  /\ UNCHANGED <<queue, hand>>

PoolNext ==
  \/ PoolSubmit \/ PoolPoll \/ PoolFree
  \/ \E t \in Threads : PoolTake(t) \/ PoolComplete(t)

\* A batch is not left in the queue for ever, nor in a thread's hand.
PoolFairness ==
  /\ WF_poolVars(\E t \in Threads : PoolTake(t))
  /\ \A t \in Threads : WF_poolVars(PoolComplete(t))

PoolSpec == PoolInit /\ [][PoolNext]_poolVars /\ PoolFairness
PoolSafeSpec == PoolInit /\ [][PoolNext]_poolVars
=============================================================================
