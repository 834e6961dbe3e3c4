------------------------------ MODULE Channel ------------------------------
(***************************************************************************)
(* What the master thread and an IPC thread are promised by the queue of   *)
(* src/ipc/msg_queue.c: a bounded first-in first-out channel that neither  *)
(* loses, duplicates nor reorders an accepted message.  sent and rcvd are  *)
(* the histories of the messages whose send returned true and of those a   *)
(* recv handed out.                                                        *)
(***************************************************************************)
EXTENDS Naturals, Sequences

CONSTANTS Messages,   \* what a message may be
          Capacity    \* slots of the queue

VARIABLES sent, rcvd

chanVars == <<sent, rcvd>>

Init == sent = <<>> /\ rcvd = <<>>

\* A send that returns true.  (A send to a full channel returns false and
\* changes nothing: a stuttering step.)
Accept(m) == /\ Len(sent) - Len(rcvd) < Capacity
             /\ sent' = Append(sent, m)
             /\ UNCHANGED rcvd

\* A recv that returns true hands out the oldest message not yet received.
Deliver == /\ Len(rcvd) < Len(sent)
           /\ rcvd' = Append(rcvd, sent[Len(rcvd) + 1])
           /\ UNCHANGED sent

Next == Deliver \/ \E m \in Messages : Accept(m)

Spec == Init /\ [][Next]_chanVars
=============================================================================
