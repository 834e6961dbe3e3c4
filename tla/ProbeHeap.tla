----------------------------- MODULE ProbeHeap -----------------------------
(***************************************************************************)
(* The heap of probe tasks (src/scan/probe_scheduler.c): an array ordered  *)
(* by the time of the next probe, a parent never after its children.  Each *)
(* operation of the file runs under the mutex of the scheduler.            *)
(***************************************************************************)
EXTENDS Naturals, Integers, Sequences, SequencesExt

Swapped(h, i, j) == [h EXCEPT ![i] = h[j], ![j] = h[i]]

\* What the loops of heap_up and heap_down run through: the tasks in some order,
\* and the index of the one that moves.
Places(h) == [tasks : [DOMAIN h -> Range(h)], at : DOMAIN h]

HeapUp(h, i) ==
  LET up[s \in Places(h)] ==
        LET parent == s.at \div 2 IN
        IF s.at = 1 \/ s.tasks[parent].due <= s.tasks[s.at].due THEN s.tasks
        ELSE up[[tasks |-> Swapped(s.tasks, s.at, parent), at |-> parent]]
  IN up[[tasks |-> h, at |-> i]]

\* The earliest of a task and its two children.
Smallest(h, i) ==
  LET Earlier(a, b) == IF b <= Len(h) /\ h[b].due < h[a].due THEN b ELSE a IN
  Earlier(Earlier(i, 2 * i), 2 * i + 1)

HeapDown(h, i) ==
  LET down[s \in Places(h)] ==
        LET least == Smallest(s.tasks, s.at) IN
        IF least = s.at THEN s.tasks
        ELSE down[[tasks |-> Swapped(s.tasks, s.at, least), at |-> least]]
  IN down[[tasks |-> h, at |-> i]]

NewHeap == <<>>

\* probe_scheduler_destroy: the tasks are freed, whoever waits for them.
Destroyed == <<>>

\* probe_scheduler_push
Push(h, task) == HeapUp(Append(h, task), Len(h) + 1)

\* The last task takes the place of the one removed.
Without(h, i) ==
  IF i = Len(h) THEN Front(h)
  ELSE HeapDown(HeapUp([Front(h) EXCEPT ![i] = Last(h)], i), i)

\* probe_scheduler_remove_dev: the first task of the device in the array
RemoveDev(h, d) ==
  LET of == {i \in DOMAIN h : h[i].dev = d} IN
  IF of = {} THEN h ELSE Without(h, CHOOSE i \in of : \A j \in of : i <= j)

\* probe_scheduler_peek
Due(h) == h # <<>> /\ h[1].due <= 0
=============================================================================
