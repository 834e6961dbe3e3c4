----------------------------- MODULE FuseProofs -----------------------------
(***************************************************************************)
(* Theorems about the device fuse, for every archive, every number of      *)
(* devices, slots and tasks, and every bound: a dead device is watched, a  *)
(* directory that was skipped is not forgotten, pending_tasks is exact,    *)
(* and the array of probe tasks is a heap.                                 *)
(***************************************************************************)
EXTENDS DeviceFuse, SumProofs, SequenceTheorems

-----------------------------------------------------------------------------
(* Loops as recursive functions. *)

\* The equation of a loop, on some of its states: it stops in the states stop with
\* a result, and goes on from the others.
Loops(g, A, stop, result, next) ==
  g = [s \in A |-> IF s \in stop THEN result[s] ELSE g[next[s]]]

Low(P, size, m) == {s \in P : size[s] <= m}

\* A loop that is known to end from the states of size m is so from those of m + 1.
LEMMA LoopContinues ==
  ASSUME NEW P, NEW size \in [P -> Nat], NEW stop, NEW result, NEW next,
         \A s \in P \ stop : next[s] \in P /\ size[next[s]] < size[s],
         NEW m \in Nat, NEW h, Loops(h, Low(P, size, m), stop, result, next)
  PROVE  \E g : Loops(g, Low(P, size, m + 1), stop, result, next)
<1> DEFINE value(s) == IF s \in stop THEN result[s] ELSE h[next[s]]
<1>1. PICK g : g = [s \in Low(P, size, m + 1) |-> value(s)]
  OBVIOUS
<1>2. \A s \in Low(P, size, m) : s \in Low(P, size, m + 1)
  BY DEF Low
<1>3. \A s \in Low(P, size, m) : h[s] = value(s)
  BY DEF Loops
<1>4. \A s \in Low(P, size, m) : g[s] = h[s]
  <2> HIDE DEF value
  <2>1. QED
    BY <1>1, <1>2, <1>3
<1>5. \A s \in Low(P, size, m + 1) : s \notin stop => next[s] \in Low(P, size, m)
  BY DEF Low
<1>6. \A s \in Low(P, size, m + 1) : value(s) = IF s \in stop THEN result[s] ELSE g[next[s]]
  BY <1>4, <1>5
<1>7. Loops(g, Low(P, size, m + 1), stop, result, next)
  <2> HIDE DEF value
  <2>1. QED
    BY <1>1, <1>6 DEF Loops
<1>8. QED
  BY <1>7

\* A loop whose steps all get smaller is a function of the state it begins in.
LEMMA LoopExists ==
  ASSUME NEW P, NEW size \in [P -> Nat], NEW stop, NEW result, NEW next,
         \A s \in P \ stop : next[s] \in P /\ size[next[s]] < size[s],
         NEW n \in Nat, \A s \in P : size[s] <= n
  PROVE  \E g : Loops(g, P, stop, result, next)
<1> DEFINE T == {m \in Nat : \E g : Loops(g, Low(P, size, m), stop, result, next)}
<1>1. 0 \in T
  <2>1. PICK g : g = [s \in Low(P, size, 0) |-> result[s]]
    OBVIOUS
  <2>2. \A s \in Low(P, size, 0) : s \in stop
    BY DEF Low
  <2>3. Loops(g, Low(P, size, 0), stop, result, next)
    BY <2>1, <2>2 DEF Loops
  <2>4. QED
    BY <2>3
<1>2. \A m \in Nat : m \in T => m + 1 \in T
  BY LoopContinues
<1>3. n \in T
  <2> HIDE DEF T
  <2>1. ASSUME NEW m \in Nat, \A k \in Nat : k < m => k \in T PROVE m \in T
    <3>1. m # 0 => m - 1 \in Nat /\ m - 1 < m /\ (m - 1) + 1 = m
      OBVIOUS
    <3>2. QED
      BY <1>1, <1>2, <2>1, <3>1
  <2>2. QED
    BY <2>1, NumbersUpTo
<1>4. Low(P, size, n) = P
  BY DEF Low
<1>5. QED
  BY <1>3, <1>4

-----------------------------------------------------------------------------
(* The heap of probe tasks (heap_up, heap_down). *)

TaskSet == [dev : Devs, due : Int, status : {"probing", "condemned"}]

\* A parent is never after its children.
HeapOrder(h) == \A j \in 2 .. Len(h) : h[j \div 2].due <= h[j].due

\* So it is but for the task at i, which may be too early for its parent.
UpOrder(h, i) ==
  /\ \A j \in 2 .. Len(h) : j # i => h[j \div 2].due <= h[j].due
  /\ i > 1 => \A j \in 2 .. Len(h) : j \div 2 = i => h[i \div 2].due <= h[j].due

\* So it is but for the task at i, which may be too late for its children.
DownOrder(h, i) ==
  /\ \A j \in 2 .. Len(h) : j \div 2 # i => h[j \div 2].due <= h[j].due
  /\ i > 1 => \A j \in 2 .. Len(h) : j \div 2 = i => h[i \div 2].due <= h[j].due

\* The same tasks, in some order.
Reordered(a, h) ==
  a \in [1 .. Len(h) -> TaskSet] /\ a \in Seq(TaskSet) /\ Len(a) = Len(h) /\ Range(a) = Range(h)

\* An array of tasks is a sequence of its length.
LEMMA ArrayIsSeq ==
  ASSUME NEW X, NEW n \in Nat, NEW a \in [1 .. n -> X]
  PROVE  a \in Seq(X) /\ Len(a) = n
<1>1. a \in Seq(X)
  BY SeqDef
<1>2. Len(a) \in Nat /\ DOMAIN a = 1 .. Len(a) /\ DOMAIN a = 1 .. n
  BY <1>1, LenProperties
<1>3. 1 .. n = 1 .. Len(a) => n = Len(a)
  BY <1>2
<1>4. QED
  BY <1>1, <1>2, <1>3

\* swap_task moves two tasks and loses none.
LEMMA SwapReorders ==
  ASSUME NEW h \in Seq(TaskSet), NEW a, Reordered(a, h),
         NEW i \in 1 .. Len(h), NEW j \in 1 .. Len(h), i # j
  PROVE  /\ Reordered(Swapped(a, i, j), h)
         /\ Swapped(a, i, j)[i] = a[j] /\ Swapped(a, i, j)[j] = a[i]
         /\ \A k \in 1 .. Len(h) : k # i /\ k # j => Swapped(a, i, j)[k] = a[k]
<1> DEFINE b == Swapped(a, i, j)
<1>1. Len(h) \in Nat /\ a \in [1 .. Len(h) -> TaskSet] /\ Range(a) = Range(h)
  BY LenProperties DEF Reordered
<1>2. /\ b \in [1 .. Len(h) -> TaskSet] /\ b[i] = a[j] /\ b[j] = a[i]
      /\ \A k \in 1 .. Len(h) : k # i /\ k # j => b[k] = a[k]
  BY <1>1 DEF Swapped
<1> HIDE DEF b
<1>3. b \in Seq(TaskSet) /\ Len(b) = Len(h)
  BY <1>1, <1>2, ArrayIsSeq
<1>4. Range(b) \subseteq Range(a) /\ Range(a) \subseteq Range(b)
  <2>1. DOMAIN a = 1 .. Len(h) /\ DOMAIN b = 1 .. Len(h)
    BY <1>1, <1>2
  <2>2. \A k \in 1 .. Len(h) : b[k] \in {a[l] : l \in 1 .. Len(h)}
    BY <1>2
  <2>3. \A k \in 1 .. Len(h) : a[k] \in {b[l] : l \in 1 .. Len(h)}
    BY <1>2
  <2>4. QED
    BY <2>1, <2>2, <2>3 DEF Range
<1>5. QED
  BY <1>1, <1>2, <1>3, <1>4 DEF Reordered, b

\* An array is one of the orders of its tasks.
LEMMA ReorderedSelf ==
  ASSUME NEW h \in Seq(TaskSet)
  PROVE  Reordered(h, h) /\ Len(h) \in Nat /\ DOMAIN h = 1 .. Len(h)
BY LenProperties DEF Reordered

\* The places that the loops run through.
LEMMA PlaceOf ==
  ASSUME NEW h \in Seq(TaskSet), NEW a, Reordered(a, h), NEW i \in 1 .. Len(h)
  PROVE  [tasks |-> a, at |-> i] \in Places(h)
<1>1. DOMAIN h = 1 .. Len(h)
  BY ReorderedSelf
<1>2. a \in [1 .. Len(h) -> Range(h)]
  BY DEF Reordered, Range
<1>3. QED
  BY <1>1, <1>2 DEF Places

\* What a swap makes of a place is a place.
LEMMA SwappedPlace ==
  ASSUME NEW h \in Seq(TaskSet), NEW s \in Places(h), NEW j \in 1 .. Len(h)
  PROVE  [tasks |-> Swapped(s.tasks, s.at, j), at |-> j] \in Places(h)
<1>1. DOMAIN h = 1 .. Len(h)
  BY ReorderedSelf
<1>2. s.tasks \in [1 .. Len(h) -> Range(h)] /\ s.at \in 1 .. Len(h)
  BY <1>1 DEF Places
<1>3. Swapped(s.tasks, s.at, j) \in [1 .. Len(h) -> Range(h)]
  BY <1>2 DEF Swapped
<1>4. QED
  BY <1>1, <1>3 DEF Places

\* heap_up ends: its index gets smaller.
LEMMA HeapUpIsLoop ==
  ASSUME NEW h \in Seq(TaskSet)
  PROVE  \E up :
           /\ \A i \in 1 .. Len(h) : HeapUp(h, i) = up[[tasks |-> h, at |-> i]]
           /\ \A s \in Places(h) :
                up[s] = IF s.at = 1 \/ s.tasks[s.at \div 2].due <= s.tasks[s.at].due
                        THEN s.tasks
                        ELSE up[[tasks |-> Swapped(s.tasks, s.at, s.at \div 2),
                                 at    |-> s.at \div 2]]
<1> DEFINE P == Places(h)
           stops(s) == s.at = 1 \/ s.tasks[s.at \div 2].due <= s.tasks[s.at].due
           onward(s) == [tasks |-> Swapped(s.tasks, s.at, s.at \div 2), at |-> s.at \div 2]
           size == [s \in P |-> s.at]
           result == [s \in P |-> s.tasks]
           next == [s \in P |-> onward(s)]
           stop == {s \in P : stops(s)}
           Eq(g) == g = [s \in P |-> IF stops(s) THEN s.tasks ELSE g[onward(s)]]
<1>1. Len(h) \in Nat /\ DOMAIN h = 1 .. Len(h)
  BY ReorderedSelf
<1>2. \A s \in P : s.at \in 1 .. Len(h)
  BY <1>1 DEF Places
<1>3. size \in [P -> Nat] /\ \A s \in P : size[s] <= Len(h)
  BY <1>1, <1>2
<1>4. \A s \in P \ stop : next[s] \in P /\ size[next[s]] < size[s]
  <2>1. SUFFICES ASSUME NEW s \in P, s.at # 1
                 PROVE  onward(s) \in P /\ onward(s).at < s.at
    <3> HIDE DEF P, onward
    <3>1. QED
      OBVIOUS
  <2>2. s.at \div 2 \in 1 .. Len(h) /\ s.at \div 2 < s.at
    BY <1>1, <1>2, <2>1
  <2>3. QED
    BY <2>2, SwappedPlace
<1>5. \E g : Loops(g, P, stop, result, next)
  <2> HIDE DEF P, size, stop, result, next
  <2>1. QED
    BY <1>1, <1>3, <1>4, LoopExists
<1>6. \E g : Eq(g)
  <2>1. PICK g : Loops(g, P, stop, result, next)
    BY <1>5
  <2>2. \A s \in P : (IF s \in stop THEN result[s] ELSE g[next[s]])
                       = (IF stops(s) THEN s.tasks ELSE g[onward(s)])
    <3> HIDE DEF P, stops, onward
    <3>1. QED
      OBVIOUS
  <2>3. Eq(g)
    <3> HIDE DEF P, stop, result, next, stops, onward
    <3>1. QED
      BY <2>1, <2>2 DEF Loops
  <2>4. QED
    BY <2>3
<1> DEFINE up == CHOOSE g : Eq(g)
<1>7. Eq(up)
  <2> HIDE DEF Eq
  <2>1. QED
    BY <1>6
<1>8. \A i \in 1 .. Len(h) : HeapUp(h, i) = up[[tasks |-> h, at |-> i]]
  BY DEF HeapUp
<1>9. \A s \in P : up[s] = IF stops(s) THEN s.tasks ELSE up[onward(s)]
  <2> HIDE DEF P, stops, onward, up
  <2>1. QED
    BY <1>7
<1>10. QED
  <2> HIDE DEF up
  <2>1. QED
    BY <1>8, <1>9

\* The least of a task and its children is one of them.
LEMMA SmallestInArray ==
  ASSUME NEW X, NEW n \in Nat, NEW a \in [1 .. n -> X], NEW i \in 1 .. n
  PROVE  Smallest(a, i) \in 1 .. n /\ Smallest(a, i) \in {i, 2 * i, 2 * i + 1}
<1>1. Len(a) = n
  BY ArrayIsSeq
<1>2. QED
  BY <1>1 DEF Smallest

\* heap_down ends: its index gets larger, and the array has an end.
LEMMA HeapDownIsLoop ==
  ASSUME NEW h \in Seq(TaskSet)
  PROVE  \E down :
           /\ \A i \in 1 .. Len(h) : HeapDown(h, i) = down[[tasks |-> h, at |-> i]]
           /\ \A s \in Places(h) :
                down[s] = IF Smallest(s.tasks, s.at) = s.at THEN s.tasks
                          ELSE down[[tasks |-> Swapped(s.tasks, s.at, Smallest(s.tasks, s.at)),
                                     at    |-> Smallest(s.tasks, s.at)]]
<1> DEFINE P == Places(h)
           stops(s) == Smallest(s.tasks, s.at) = s.at
           onward(s) == [tasks |-> Swapped(s.tasks, s.at, Smallest(s.tasks, s.at)),
                         at    |-> Smallest(s.tasks, s.at)]
           size == [s \in P |-> Len(h) - s.at]
           result == [s \in P |-> s.tasks]
           next == [s \in P |-> onward(s)]
           stop == {s \in P : stops(s)}
           Eq(g) == g = [s \in P |-> IF stops(s) THEN s.tasks ELSE g[onward(s)]]
<1>1. Len(h) \in Nat /\ DOMAIN h = 1 .. Len(h)
  BY ReorderedSelf
<1>2. \A s \in P : s.at \in 1 .. Len(h) /\ s.tasks \in [1 .. Len(h) -> Range(h)]
  BY <1>1 DEF Places
<1>3. size \in [P -> Nat] /\ \A s \in P : size[s] <= Len(h)
  BY <1>1, <1>2
<1>4. \A s \in P \ stop : next[s] \in P /\ size[next[s]] < size[s]
  <2>1. SUFFICES ASSUME NEW s \in P, ~stops(s)
                 PROVE  onward(s) \in P /\ onward(s).at \in 1 .. Len(h) /\ onward(s).at > s.at
    <3> HIDE DEF P, onward, stops
    <3>1. QED
      BY <1>1, <1>2
  <2>2. /\ Smallest(s.tasks, s.at) \in 1 .. Len(h)
        /\ Smallest(s.tasks, s.at) \in {s.at, 2 * s.at, 2 * s.at + 1}
    BY <1>1, <1>2, SmallestInArray
  <2>3. Smallest(s.tasks, s.at) > s.at
    BY <1>1, <1>2, <2>1, <2>2
  <2>4. QED
    BY <2>2, <2>3, SwappedPlace
<1>5. \E g : Loops(g, P, stop, result, next)
  <2> HIDE DEF P, size, stop, result, next
  <2>1. QED
    BY <1>1, <1>3, <1>4, LoopExists
<1>6. \E g : Eq(g)
  <2>1. PICK g : Loops(g, P, stop, result, next)
    BY <1>5
  <2>2. \A s \in P : (IF s \in stop THEN result[s] ELSE g[next[s]])
                       = (IF stops(s) THEN s.tasks ELSE g[onward(s)])
    <3> HIDE DEF P, stops, onward
    <3>1. QED
      OBVIOUS
  <2>3. Eq(g)
    <3> HIDE DEF P, stop, result, next, stops, onward
    <3>1. QED
      BY <2>1, <2>2 DEF Loops
  <2>4. QED
    BY <2>3
<1> DEFINE down == CHOOSE g : Eq(g)
<1>7. Eq(down)
  <2> HIDE DEF Eq
  <2>1. QED
    BY <1>6
<1>8. \A i \in 1 .. Len(h) : HeapDown(h, i) = down[[tasks |-> h, at |-> i]]
  BY DEF HeapDown
<1>9. \A s \in P : down[s] = IF stops(s) THEN s.tasks ELSE down[onward(s)]
  <2> HIDE DEF P, stops, onward, down
  <2>1. QED
    BY <1>7
<1>10. QED
  <2> HIDE DEF down
  <2>1. QED
    BY <1>8, <1>9

-----------------------------------------------------------------------------
(* heap_up *)

\* Every task but the first has a parent before it.
LEMMA Parent ==
  ASSUME NEW j \in Nat, j >= 2
  PROVE  j \div 2 \in Nat /\ 1 <= j \div 2 /\ j \div 2 < j
OBVIOUS

\* A task that changes places with its parent may be too early for the next one.
LEMMA UpSwap ==
  ASSUME NEW h \in Seq(TaskSet), NEW a, Reordered(a, h), NEW i \in 2 .. Len(h),
         NEW p \in 1 .. Len(h), p = i \div 2, NEW b, b = Swapped(a, i, p),
         UpOrder(a, i), ~(a[p].due <= a[i].due)
  PROVE  Reordered(b, h) /\ UpOrder(b, p)
<1>1. Len(h) \in Nat /\ Len(a) = Len(h) /\ i \in 1 .. Len(h)
  BY ReorderedSelf DEF Reordered
<1>2. p < i
  BY <1>1, Parent
<1>3. /\ Reordered(b, h) /\ b[i] = a[p] /\ b[p] = a[i]
      /\ \A k \in 1 .. Len(h) : k # i /\ k # p => b[k] = a[k]
  BY <1>1, <1>2, SwapReorders
<1>4. /\ Len(b) = Len(h)
      /\ \A k \in 1 .. Len(h) : a[k].due \in Int
  BY <1>3 DEF Reordered, TaskSet
<1>5. /\ \A j \in 2 .. Len(h) : j # i => a[j \div 2].due <= a[j].due
      /\ \A j \in 2 .. Len(h) : j \div 2 = i => a[p].due <= a[j].due
      /\ a[i].due < a[p].due
  BY <1>1, <1>2, <1>4 DEF UpOrder
<1>6. ASSUME NEW j \in 2 .. Len(h), j # p, NEW q \in 1 .. Len(h), q = j \div 2
      PROVE  b[q].due <= b[j].due
  <2>1. q < j /\ j \in 1 .. Len(h)
    BY <1>1, <1>6, Parent
  <2>2. j = i => q = p
    BY <1>6
  <2>3. q = i => a[p].due <= a[j].due
    BY <1>5, <1>6
  <2>4. j # i => a[q].due <= a[j].due
    BY <1>5, <1>6
  <2>5. CASE j = i
    BY <1>2, <1>3, <1>4, <1>5, <2>2, <2>5
  <2>6. CASE j # i /\ q = p
    <3>1. b[q] = a[i] /\ b[j] = a[j]
      BY <1>3, <1>6, <2>1, <2>6
    <3>2. a[i].due \in Int /\ a[p].due \in Int /\ a[j].due \in Int
      BY <1>1, <1>4, <2>1
    <3>3. QED
      BY <1>5, <2>4, <2>6, <3>1, <3>2
  <2>7. CASE j # i /\ q = i
    BY <1>2, <1>3, <1>4, <1>6, <2>1, <2>3, <2>7
  <2>8. CASE j # i /\ q # p /\ q # i
    BY <1>3, <1>6, <2>1, <2>4, <2>8
  <2>9. QED
    BY <2>5, <2>6, <2>7, <2>8
<1>7. ASSUME p > 1, NEW j \in 2 .. Len(h), j \div 2 = p, NEW q \in 1 .. Len(h), q = p \div 2
      PROVE  b[q].due <= b[j].due
  <2>1. q < p /\ p \in 2 .. Len(h) /\ p < j /\ j \in 1 .. Len(h)
    BY <1>1, <1>7, Parent
  <2>2. a[q].due <= a[p].due
    BY <1>2, <1>5, <1>7, <2>1
  <2>3. j # i => a[p].due <= a[j].due
    BY <1>5, <1>7
  <2>4. b[q] = a[q]
    BY <1>2, <1>3, <2>1
  <2>5. CASE j = i
    BY <1>3, <2>2, <2>4, <2>5
  <2>6. CASE j # i
    <3>1. b[j] = a[j] /\ a[j].due \in Int /\ a[p].due \in Int /\ a[q].due \in Int
      BY <1>3, <1>4, <2>1, <2>6
    <3>2. QED
      BY <2>2, <2>3, <2>4, <2>6, <3>1
  <2>7. QED
    BY <2>5, <2>6
<1>8. UpOrder(b, p)
  <2>1. \A j \in 2 .. Len(h) : j \div 2 \in 1 .. Len(h)
    BY <1>1, Parent
  <2>2. p > 1 => p \div 2 \in 1 .. Len(h)
    BY <1>1, Parent
  <2>3. QED
    BY <1>4, <1>6, <1>7, <2>1, <2>2 DEF UpOrder
<1>9. QED
  BY <1>3, <1>8

\* heap_up makes a heap of an array in which one task may be too early.
LEMMA HeapUpWorks ==
  ASSUME NEW h \in Seq(TaskSet), NEW i \in 1 .. Len(h), UpOrder(h, i)
  PROVE  Reordered(HeapUp(h, i), h) /\ HeapOrder(HeapUp(h, i))
<1>1. Len(h) \in Nat /\ Reordered(h, h)
  BY ReorderedSelf
<1>2. PICK up :
        /\ \A k \in 1 .. Len(h) : HeapUp(h, k) = up[[tasks |-> h, at |-> k]]
        /\ \A s \in Places(h) :
             up[s] = IF s.at = 1 \/ s.tasks[s.at \div 2].due <= s.tasks[s.at].due
                     THEN s.tasks
                     ELSE up[[tasks |-> Swapped(s.tasks, s.at, s.at \div 2),
                              at    |-> s.at \div 2]]
  BY HeapUpIsLoop
<1> DEFINE good(a) == Reordered(a, h) /\ HeapOrder(a)
           T == {m \in Nat : \A a : m \in 1 .. Len(h) /\ Reordered(a, h) /\ UpOrder(a, m)
                                      => good(up[[tasks |-> a, at |-> m]])}
<1>3. ASSUME NEW m \in Nat, \A k \in Nat : k < m => k \in T PROVE m \in T
  <2>1. SUFFICES ASSUME NEW a, m \in 1 .. Len(h), Reordered(a, h), UpOrder(a, m)
                 PROVE  good(up[[tasks |-> a, at |-> m]])
    OBVIOUS
  <2>2. Len(a) = Len(h) /\ [tasks |-> a, at |-> m] \in Places(h)
    BY <2>1, PlaceOf DEF Reordered
  <2>3. up[[tasks |-> a, at |-> m]] =
          IF m = 1 \/ a[m \div 2].due <= a[m].due THEN a
          ELSE up[[tasks |-> Swapped(a, m, m \div 2), at |-> m \div 2]]
    BY <1>2, <2>2
  <2>4. CASE m = 1 \/ a[m \div 2].due <= a[m].due
    <3>1. HeapOrder(a)
      BY <1>1, <2>1, <2>2, <2>4 DEF UpOrder, HeapOrder
    <3>2. QED
      BY <2>1, <2>3, <2>4, <3>1
  <2>5. CASE ~(m = 1 \/ a[m \div 2].due <= a[m].due)
    <3>1. PICK p : p = m \div 2
      OBVIOUS
    <3>2. m \in 2 .. Len(h) /\ p \in 1 .. Len(h) /\ p < m /\ p \in Nat
      BY <1>1, <2>1, <2>5, <3>1, Parent
    <3>3. Reordered(Swapped(a, m, p), h) /\ UpOrder(Swapped(a, m, p), p)
      BY <2>1, <2>5, <3>1, <3>2, UpSwap
    <3>4. p \in T
      BY <1>3, <3>2
    <3> HIDE DEF good
    <3>5. QED
      BY <2>3, <2>5, <3>1, <3>2, <3>3, <3>4
  <2>6. QED
    BY <2>4, <2>5
<1>4. i \in T
  <2> HIDE DEF T
  <2>1. QED
    BY <1>1, <1>3, NumbersUpTo
<1>5. QED
  BY <1>1, <1>2, <1>4

-----------------------------------------------------------------------------
(* heap_down *)

\* What heap_down changes places with is the earliest of the task and its children.
LEMMA SmallestIsLeast ==
  ASSUME NEW n \in Nat, NEW a \in [1 .. n -> TaskSet], NEW i \in 1 .. n,
         NEW least, least = Smallest(a, i)
  PROVE  /\ least \in 1 .. n
         /\ a[least].due <= a[i].due
         /\ \A j \in 2 .. n : j \div 2 = i => a[least].due <= a[j].due
         /\ least # i => least \div 2 = i /\ least > i
<1>1. Len(a) = n
  BY ArrayIsSeq
<1>2. \A k \in 1 .. n : a[k].due \in Int
  BY DEF TaskSet
<1> DEFINE earlier(k, l) == IF l <= n /\ a[l].due < a[k].due THEN l ELSE k
<1>3. PICK k : k = earlier(i, 2 * i)
  OBVIOUS
<1>4. least = earlier(k, 2 * i + 1)
  BY <1>1, <1>3 DEF Smallest
<1>5. /\ k \in 1 .. n /\ a[k].due <= a[i].due
      /\ 2 * i <= n => a[k].due <= a[2 * i].due
      /\ k # i => k = 2 * i
  BY <1>2, <1>3
<1>6. /\ least \in 1 .. n /\ a[least].due <= a[k].due
      /\ 2 * i + 1 <= n => a[least].due <= a[2 * i + 1].due
      /\ least # k => least = 2 * i + 1
  BY <1>2, <1>4, <1>5
<1>7. a[least].due <= a[i].due
  BY <1>2, <1>5, <1>6
<1>8. \A j \in 2 .. n : j \div 2 = i => j = 2 * i \/ j = 2 * i + 1
  OBVIOUS
<1>9. 2 * i <= n => a[least].due <= a[2 * i].due
  <2>1. SUFFICES ASSUME 2 * i <= n PROVE a[least].due <= a[2 * i].due
    OBVIOUS
  <2>2. 2 * i \in 1 .. n
    BY <2>1
  <2>3. QED
    BY <1>2, <1>5, <1>6, <2>1, <2>2
<1>10. \A j \in 2 .. n : j \div 2 = i => a[least].due <= a[j].due
  BY <1>6, <1>8, <1>9
<1>11. least # i => least \div 2 = i /\ least > i
  <2>1. least # i => least = 2 * i \/ least = 2 * i + 1
    BY <1>5, <1>6
  <2>2. (2 * i) \div 2 = i /\ (2 * i + 1) \div 2 = i /\ 2 * i > i /\ 2 * i + 1 > i
    OBVIOUS
  <2>3. QED
    BY <2>1, <2>2
<1>12. QED
  BY <1>6, <1>7, <1>10, <1>11

\* A task that changes places with its earliest child may be too late for the next.
LEMMA DownSwap ==
  ASSUME NEW h \in Seq(TaskSet), NEW a, Reordered(a, h), NEW i \in 1 .. Len(h),
         NEW c, c = Smallest(a, i), c # i, NEW b, b = Swapped(a, i, c), DownOrder(a, i)
  PROVE  c \in 1 .. Len(h) /\ c > i /\ Reordered(b, h) /\ DownOrder(b, c)
<1>1. /\ Len(h) \in Nat /\ Len(a) = Len(h) /\ a \in [1 .. Len(h) -> TaskSet]
      /\ \A k \in 1 .. Len(h) : a[k].due \in Int
  BY ReorderedSelf DEF Reordered, TaskSet
<1>2. /\ c \in 1 .. Len(h) /\ c \div 2 = i /\ c > i /\ c >= 2
      /\ a[c].due <= a[i].due
      /\ \A j \in 2 .. Len(h) : j \div 2 = i => a[c].due <= a[j].due
  <2>1. /\ c \in 1 .. Len(h)
        /\ a[c].due <= a[i].due
        /\ \A j \in 2 .. Len(h) : j \div 2 = i => a[c].due <= a[j].due
        /\ c # i => c \div 2 = i /\ c > i
    BY <1>1, SmallestIsLeast
  <2>2. c > i /\ c >= 2
    BY <1>1, <2>1
  <2>3. QED
    BY <2>1, <2>2
<1>3. /\ Reordered(b, h) /\ b[i] = a[c] /\ b[c] = a[i]
      /\ \A k \in 1 .. Len(h) : k # i /\ k # c => b[k] = a[k]
  <2>1. c \in 1 .. Len(h)
    BY <1>2
  <2>2. QED
    BY <2>1, SwapReorders
<1>4. Len(b) = Len(h) /\ \A k \in 1 .. Len(h) : b[k].due \in Int
  BY <1>3 DEF Reordered, TaskSet
<1>5. /\ \A j \in 2 .. Len(h) : j \div 2 # i => a[j \div 2].due <= a[j].due
      /\ i > 1 => \A j \in 2 .. Len(h) : j \div 2 = i => a[i \div 2].due <= a[j].due
  BY <1>1 DEF DownOrder
<1>6. ASSUME NEW j \in 2 .. Len(h), NEW q \in 1 .. Len(h), q = j \div 2, q # c
      PROVE  b[q].due <= b[j].due
  <2>1. q < j /\ j \in 1 .. Len(h)
    BY <1>1, <1>6, Parent
  <2>2. q # i => a[q].due <= a[j].due
    BY <1>5, <1>6
  <2>3. CASE j = c
    BY <1>1, <1>2, <1>3, <1>6, <2>3
  <2>4. CASE j # c /\ q = i
    <3>1. b[q] = a[c] /\ b[j] = a[j]
      BY <1>3, <1>6, <2>1, <2>4
    <3>2. QED
      BY <1>2, <1>6, <2>4, <3>1
  <2>5. CASE j = i
    <3>1. b[j] = a[c] /\ b[q] = a[q] /\ i > 1
      BY <1>1, <1>2, <1>3, <1>6, <2>1, <2>5
    <3>2. a[q].due <= a[c].due
      BY <1>2, <1>5, <1>6, <2>5, <3>1
    <3>3. QED
      BY <3>1, <3>2
  <2>6. CASE j # c /\ j # i /\ q # i
    <3>1. b[q] = a[q] /\ b[j] = a[j]
      BY <1>3, <1>6, <2>1, <2>6
    <3>2. QED
      BY <2>2, <2>6, <3>1
  <2>7. QED
    BY <2>3, <2>4, <2>5, <2>6
<1>7. ASSUME NEW j \in 2 .. Len(h), j \div 2 = c
      PROVE  b[i].due <= b[j].due
  <2>1. c < j /\ j \in 1 .. Len(h)
    BY <1>1, <1>7, Parent
  <2>2. b[i] = a[c] /\ b[j] = a[j]
    BY <1>2, <1>3, <2>1
  <2>3. a[c].due <= a[j].due
    BY <1>2, <1>5, <1>7
  <2>4. QED
    BY <2>2, <2>3
<1>8. DownOrder(b, c)
  <2>1. \A j \in 2 .. Len(h) : j \div 2 \in 1 .. Len(h)
    BY <1>1, Parent
  <2>2. QED
    BY <1>2, <1>4, <1>6, <1>7, <2>1 DEF DownOrder
<1>9. QED
  BY <1>2, <1>3, <1>8

\* heap_down makes a heap of an array in which one task may be too late.
LEMMA HeapDownWorks ==
  ASSUME NEW h \in Seq(TaskSet), NEW i \in 1 .. Len(h), DownOrder(h, i)
  PROVE  Reordered(HeapDown(h, i), h) /\ HeapOrder(HeapDown(h, i))
<1>1. Len(h) \in Nat /\ Reordered(h, h)
  BY ReorderedSelf
<1>2. PICK down :
        /\ \A k \in 1 .. Len(h) : HeapDown(h, k) = down[[tasks |-> h, at |-> k]]
        /\ \A s \in Places(h) :
             down[s] = IF Smallest(s.tasks, s.at) = s.at THEN s.tasks
                       ELSE down[[tasks |-> Swapped(s.tasks, s.at, Smallest(s.tasks, s.at)),
                                  at    |-> Smallest(s.tasks, s.at)]]
  BY HeapDownIsLoop
<1> DEFINE good(a) == Reordered(a, h) /\ HeapOrder(a)
           T == {m \in Nat : \A a, k : k \in 1 .. Len(h) /\ Len(h) - k = m
                                       /\ Reordered(a, h) /\ DownOrder(a, k)
                                         => good(down[[tasks |-> a, at |-> k]])}
<1>3. ASSUME NEW m \in Nat, \A l \in Nat : l < m => l \in T PROVE m \in T
  <2>1. SUFFICES ASSUME NEW a, NEW k, k \in 1 .. Len(h), Len(h) - k = m,
                        Reordered(a, h), DownOrder(a, k)
                 PROVE  good(down[[tasks |-> a, at |-> k]])
    OBVIOUS
  <2>2. PICK c : c = Smallest(a, k)
    OBVIOUS
  <2>3. Len(a) = Len(h) /\ [tasks |-> a, at |-> k] \in Places(h)
    BY <2>1, PlaceOf DEF Reordered
  <2>4. down[[tasks |-> a, at |-> k]] =
          IF c = k THEN a ELSE down[[tasks |-> Swapped(a, k, c), at |-> c]]
    BY <1>2, <2>2, <2>3
  <2>5. CASE c = k
    <3>1. \A j \in 2 .. Len(h) : j \div 2 = k => a[k].due <= a[j].due
      <4>1. a \in [1 .. Len(h) -> TaskSet]
        BY <2>1 DEF Reordered
      <4>2. \A j \in 2 .. Len(h) : j \div 2 = k => a[c].due <= a[j].due
        BY <1>1, <2>1, <2>2, <4>1, SmallestIsLeast, ZenonT(60)
      <4>3. QED
        BY <2>5, <4>2
    <3>2. HeapOrder(a)
      BY <2>1, <2>3, <3>1 DEF DownOrder, HeapOrder
    <3>3. QED
      BY <2>1, <2>4, <2>5, <3>2
  <2>6. CASE c # k
    <3>1. c \in 1 .. Len(h) /\ c > k /\ Reordered(Swapped(a, k, c), h)
          /\ DownOrder(Swapped(a, k, c), c)
      BY <2>1, <2>2, <2>6, DownSwap
    <3>2. Len(h) - c \in Nat /\ Len(h) - c < m
      BY <1>1, <2>1, <3>1
    <3>3. Len(h) - c \in T
      BY <1>3, <3>2
    <3> HIDE DEF good
    <3>4. QED
      BY <2>4, <2>6, <3>1, <3>3
  <2>7. QED
    BY <2>5, <2>6
<1>4. Len(h) - i \in T
  <2> HIDE DEF T
  <2>1. QED
    BY <1>1, <1>3, NumbersUpTo
<1>5. good(down[[tasks |-> h, at |-> i]])
  <2> HIDE DEF good
  <2>1. QED
    BY <1>1, <1>4
<1>6. QED
  BY <1>2, <1>5

-----------------------------------------------------------------------------
(* The operations of the scheduler. *)

\* A task that is not too early stays where it is.
LEMMA HeapUpStays ==
  ASSUME NEW h \in Seq(TaskSet), NEW i \in 1 .. Len(h),
         i = 1 \/ h[i \div 2].due <= h[i].due
  PROVE  HeapUp(h, i) = h
<1>1. [tasks |-> h, at |-> i] \in Places(h)
  BY ReorderedSelf, PlaceOf
<1>2. PICK up :
        /\ \A k \in 1 .. Len(h) : HeapUp(h, k) = up[[tasks |-> h, at |-> k]]
        /\ \A s \in Places(h) :
             up[s] = IF s.at = 1 \/ s.tasks[s.at \div 2].due <= s.tasks[s.at].due
                     THEN s.tasks
                     ELSE up[[tasks |-> Swapped(s.tasks, s.at, s.at \div 2),
                              at    |-> s.at \div 2]]
  BY HeapUpIsLoop
<1>3. up[[tasks |-> h, at |-> i]] = h
  BY <1>1, <1>2
<1>4. QED
  BY <1>2, <1>3

\* A heap may be sifted down from anywhere.
LEMMA HeapIsDownOrdered ==
  ASSUME NEW h \in Seq(TaskSet), HeapOrder(h), NEW i \in 1 .. Len(h)
  PROVE  DownOrder(h, i)
<1>1. Len(h) \in Nat /\ \A k \in 1 .. Len(h) : h[k].due \in Int
  BY ReorderedSelf DEF Reordered, TaskSet
<1>2. ASSUME i > 1, NEW j \in 2 .. Len(h), j \div 2 = i, NEW q \in 1 .. Len(h), q = i \div 2
      PROVE  h[q].due <= h[j].due
  <2>1. i \in 2 .. Len(h) /\ j \in 1 .. Len(h)
    BY <1>1, <1>2
  <2>2. h[q].due <= h[i].due /\ h[i].due <= h[j].due
    BY <1>2, <2>1 DEF HeapOrder
  <2>3. h[q].due \in Int /\ h[i].due \in Int /\ h[j].due \in Int
    BY <1>1, <2>1
  <2>4. QED
    BY <2>2, <2>3
<1>3. i > 1 => i \div 2 \in 1 .. Len(h)
  BY <1>1, Parent
<1>4. QED
  BY <1>2, <1>3 DEF DownOrder, HeapOrder

\* A push adds its task and keeps the rest (probe_scheduler_push).
LEMMA PushWorks ==
  ASSUME NEW h \in Seq(TaskSet), HeapOrder(h), NEW task \in TaskSet
  PROVE  /\ Push(h, task) \in Seq(TaskSet) /\ HeapOrder(Push(h, task))
         /\ Range(Push(h, task)) = Range(h) \cup {task}
<1>1. PICK e : e = Append(h, task)
  OBVIOUS
<1>2. /\ e \in Seq(TaskSet) /\ Len(e) = Len(h) + 1
      /\ \A k \in 1 .. Len(h) : e[k] = h[k]
      /\ e[Len(h) + 1] = task
  BY <1>1, AppendProperties
<1>3. Len(h) \in Nat /\ DOMAIN h = 1 .. Len(h) /\ DOMAIN e = 1 .. Len(h) + 1
  BY <1>2, ReorderedSelf
<1>4. UpOrder(e, Len(e))
  <2>1. \A j \in 2 .. Len(e) : j # Len(e) => e[j \div 2].due <= e[j].due
    <3>1. SUFFICES ASSUME NEW j \in 2 .. Len(h) PROVE e[j \div 2].due <= e[j].due
      BY <1>2, <1>3
    <3>2. j \div 2 \in 1 .. Len(h) /\ j \in 1 .. Len(h)
      BY <1>3, Parent
    <3>3. QED
      BY <1>2, <3>2 DEF HeapOrder
  <2>2. \A j \in 2 .. Len(e) : j \div 2 # Len(e)
    BY <1>2, <1>3, Parent
  <2>3. QED
    BY <2>1, <2>2 DEF UpOrder
<1>5. Len(e) \in 1 .. Len(e)
  BY <1>2, <1>3
<1>6. Reordered(HeapUp(e, Len(e)), e) /\ HeapOrder(HeapUp(e, Len(e)))
  BY <1>2, <1>4, <1>5, HeapUpWorks
<1>7. Push(h, task) = HeapUp(e, Len(e))
  BY <1>1, <1>2 DEF Push
<1>8. Range(e) = Range(h) \cup {task}
  BY <1>2, <1>3 DEF Range
<1>9. QED
  BY <1>6, <1>7, <1>8 DEF Reordered

\* Taking a task out keeps the rest, and the order (probe_scheduler_remove_dev).
LEMMA WithoutWorks ==
  ASSUME NEW h \in Seq(TaskSet), HeapOrder(h), NEW i \in 1 .. Len(h)
  PROVE  /\ Without(h, i) \in Seq(TaskSet) /\ HeapOrder(Without(h, i))
         /\ \A k \in 1 .. Len(h) : k # i => h[k] \in Range(Without(h, i))
<1>1. /\ Len(h) \in Nat /\ Len(h) >= 1 /\ DOMAIN h = 1 .. Len(h)
      /\ \A k \in 1 .. Len(h) : h[k] \in TaskSet
  <2>1. Len(h) \in Nat /\ DOMAIN h = 1 .. Len(h) /\ h \in [1 .. Len(h) -> TaskSet]
    BY LenProperties
  <2>2. QED
    BY <2>1
<1>2. PICK n : n = Len(h) - 1
  OBVIOUS
<1>3. /\ n \in Nat
      /\ \A k \in 1 .. Len(h) : k \in 1 .. n \/ k = Len(h)
      /\ \A k \in 1 .. n : k \in 1 .. Len(h) /\ k # Len(h)
  <2>1. Len(h) \in Nat /\ Len(h) >= 1
    BY <1>1
  <2>2. QED
    BY <1>2, <2>1
<1>4. PICK f : f = Front(h)
  OBVIOUS
<1>5. /\ f \in Seq(TaskSet) /\ Len(f) = n /\ n \in Nat
      /\ \A k \in 1 .. n : f[k] = h[k]
  <2>1. \A k \in 1 .. n : h[k] \in TaskSet
    BY <1>1, <1>2
  <2>2. n \in Int /\ Front(h) = SubSeq(h, 1, n) /\ n \in Nat
    BY <1>1, <1>2 DEF Front
  <2>3. /\ SubSeq(h, 1, n) \in Seq(TaskSet)
        /\ Len(SubSeq(h, 1, n)) = IF 1 <= n THEN n - 1 + 1 ELSE 0
        /\ \A k \in 1 .. n - 1 + 1 : SubSeq(h, 1, n)[k] = h[1 + k - 1]
    BY <2>1, <2>2, SubSeqProperties
  <2>4. QED
    BY <1>4, <2>2, <2>3
<1>6. CASE i = Len(h)
  <2>1. Without(h, i) = f
    BY <1>4, <1>6 DEF Without
  <2>2. HeapOrder(f)
    <3>1. SUFFICES ASSUME NEW j \in 2 .. n PROVE f[j \div 2].due <= f[j].due
      BY <1>5 DEF HeapOrder
    <3>2. j \div 2 \in 1 .. n /\ j \in 1 .. n /\ j \in 2 .. Len(h)
      BY <1>1, <1>2, <1>5, Parent
    <3>3. QED
      BY <1>5, <3>2 DEF HeapOrder
  <2>3. DOMAIN f = 1 .. n
    BY <1>5, ReorderedSelf
  <2>4. \A k \in 1 .. Len(h) : k # i => k \in 1 .. n
    BY <1>3, <1>6
  <2>5. \A k \in 1 .. n : h[k] \in Range(f)
    BY <1>5, <2>3 DEF Range
  <2>6. QED
    BY <1>5, <2>1, <2>2, <2>4, <2>5
<1>7. CASE i # Len(h)
  <2>1. i \in 1 .. n
    BY <1>3, <1>7
  <2>2. PICK g : g = [f EXCEPT ![i] = Last(h)]
    OBVIOUS
  <2>3. /\ g \in Seq(TaskSet) /\ Len(g) = n /\ g[i] = h[Len(h)]
        /\ \A k \in 1 .. n : k # i => g[k] = h[k]
    <3>1. Last(h) = h[Len(h)] /\ Last(h) \in TaskSet
      BY <1>1 DEF Last
    <3>2. /\ g \in Seq(TaskSet) /\ Len(g) = n
          /\ \A k \in 1 .. n : g[k] = IF k = i THEN Last(h) ELSE f[k]
      BY <1>5, <2>1, <2>2, <3>1, ExceptSeq
    <3>3. QED
      BY <1>5, <2>1, <3>1, <3>2
  <2>4. PICK u : u = HeapUp(g, i)
    OBVIOUS
  <2>5. Without(h, i) = HeapDown(u, i)
    BY <1>4, <1>7, <2>2, <2>4 DEF Without
  <2>6. DOMAIN g = 1 .. n /\ \A k \in 1 .. n : g[k].due \in Int
    BY <2>3, ReorderedSelf DEF Reordered, TaskSet
  <2>7. \A k \in 1 .. Len(h) : k # i => h[k] \in Range(g)
    BY <1>3, <2>1, <2>3, <2>6 DEF Range
  \* Away from i the order is that of h.
  <2>8. \A j \in 2 .. n : j # i /\ j \div 2 # i => g[j \div 2].due <= g[j].due
    <3>1. SUFFICES ASSUME NEW j \in 2 .. n, j # i, NEW q \in 1 .. n, q = j \div 2, q # i
                   PROVE  g[q].due <= g[j].due
      <4>1. \A j \in 2 .. n : j \div 2 \in 1 .. n
        BY <1>5, Parent
      <4>2. QED
        BY <4>1
    <3>2. j \in 1 .. n /\ j \in 2 .. Len(h)
      BY <1>1, <1>2, <1>5
    <3>3. h[q].due <= h[j].due
      BY <3>1, <3>2 DEF HeapOrder
    <3>4. QED
      BY <2>3, <3>1, <3>2, <3>3
  \* What was above i is not after what was below it.
  <2>9. ASSUME i > 1, NEW j \in 2 .. n, j \div 2 = i, NEW q \in 1 .. n, q = i \div 2
        PROVE  g[q].due <= g[j].due
    <3>1. DownOrder(h, i)
      BY HeapIsDownOrdered
    <3>2. j \in 2 .. Len(h) /\ j \in 1 .. n /\ j # i /\ q # i
      BY <1>1, <1>2, <1>5, <2>1, <2>9, Parent
    <3>3. h[q].due <= h[j].due
      BY <2>9, <3>1, <3>2 DEF DownOrder
    <3>4. QED
      BY <2>3, <2>9, <3>2, <3>3
  <2>10. i > 1 => i \div 2 \in 1 .. n
    BY <1>5, <2>1, Parent
  <2>11. Reordered(u, g) /\ DownOrder(u, i)
    <3>1. CASE i = 1 \/ g[i \div 2].due <= g[i].due
      <4>1. u = g
        BY <2>1, <2>3, <2>4, <3>1, HeapUpStays
      <4>2. \A j \in 2 .. n : j = i => g[j \div 2].due <= g[j].due
        BY <3>1
      <4>3. \A j \in 2 .. n : j \div 2 # i => g[j \div 2].due <= g[j].due
        BY <2>8, <4>2
      <4>4. DownOrder(g, i)
        BY <2>3, <2>9, <2>10, <4>3 DEF DownOrder
      <4>5. QED
        BY <2>3, <4>1, <4>4, ReorderedSelf
    <3>2. CASE i > 1 /\ ~(g[i \div 2].due <= g[i].due)
      <4>1. PICK q \in 1 .. n : q = i \div 2
        BY <2>10, <3>2
      <4>2. \A j \in 2 .. n : j \div 2 = i => g[q].due <= g[j].due
        BY <2>9, <3>2, <4>1
      <4>3. g[i].due < g[q].due
        BY <2>1, <2>6, <3>2, <4>1
      <4>4. \A j \in 2 .. n : j \div 2 = i => g[i].due <= g[j].due
        <5>1. SUFFICES ASSUME NEW j \in 2 .. n, j \div 2 = i PROVE g[i].due <= g[j].due
          OBVIOUS
        <5>2. j \in 1 .. n
          BY <1>5
        <5>3. g[i].due \in Int /\ g[j].due \in Int /\ g[q].due \in Int
          BY <2>1, <2>6, <4>1, <5>2
        <5>4. g[q].due <= g[j].due
          BY <4>2, <5>1
        <5>5. QED
          BY <4>3, <5>3, <5>4
      <4>5. \A j \in 2 .. n : j # i => g[j \div 2].due <= g[j].due
        BY <2>8, <4>4
      <4>6. UpOrder(g, i)
        BY <2>3, <4>1, <4>2, <4>5 DEF UpOrder
      <4>7. Reordered(u, g) /\ HeapOrder(u)
        BY <2>1, <2>3, <2>4, <4>6, HeapUpWorks
      <4>8. DownOrder(u, i)
        BY <2>1, <2>3, <4>7, HeapIsDownOrdered DEF Reordered
      <4>9. QED
        BY <4>7, <4>8
    <3>3. i = 1 \/ i > 1
      BY <2>1, <1>5
    <3>4. QED
      BY <3>1, <3>2, <3>3
  <2>12. u \in Seq(TaskSet) /\ Len(u) = n /\ Range(u) = Range(g)
    BY <2>3, <2>11 DEF Reordered
  <2>13. Reordered(HeapDown(u, i), u) /\ HeapOrder(HeapDown(u, i))
    BY <2>1, <2>11, <2>12, HeapDownWorks
  <2>14. QED
    BY <2>5, <2>7, <2>12, <2>13 DEF Reordered
<1>8. QED
  BY <1>6, <1>7

\* remove_dev takes out at most one task, and only one of the device.
LEMMA RemoveDevWorks ==
  ASSUME NEW h \in Seq(TaskSet), HeapOrder(h), NEW d
  PROVE  /\ RemoveDev(h, d) \in Seq(TaskSet) /\ HeapOrder(RemoveDev(h, d))
         /\ \A t \in Range(h) : t.dev # d => t \in Range(RemoveDev(h, d))
<1> DEFINE of == {i \in DOMAIN h : h[i].dev = d}
           first == CHOOSE i \in of : \A j \in of : i <= j
<1>1. Len(h) \in Nat /\ DOMAIN h = 1 .. Len(h)
  BY ReorderedSelf
<1>2. CASE of = {}
  <2>1. RemoveDev(h, d) = h
    BY <1>2 DEF RemoveDev
  <2>2. QED
    BY <2>1
<1>3. CASE of # {}
  <2>1. RemoveDev(h, d) = Without(h, first)
    BY <1>3 DEF RemoveDev
  <2>2. first \in of
    <3>1. of \subseteq Nat
      BY <1>1
    <3> HIDE DEF of
    <3>2. \E i \in of : \A j \in of : i <= j
      BY <1>3, <3>1, LeastNumber
    <3>3. QED
      BY <3>2
  <2>3. first \in 1 .. Len(h) /\ h[first].dev = d
    BY <1>1, <2>2
  <2> HIDE DEF first, of
  <2>4. /\ Without(h, first) \in Seq(TaskSet) /\ HeapOrder(Without(h, first))
        /\ \A k \in 1 .. Len(h) : k # first => h[k] \in Range(Without(h, first))
    BY <2>3, WithoutWorks
  <2>5. \A t \in Range(h) : t.dev # d => t \in Range(Without(h, first))
    BY <1>1, <2>3, <2>4 DEF Range
  <2>6. QED
    BY <2>1, <2>4, <2>5
<1>4. QED
  BY <1>2, <1>3

\* The first task of a heap is its earliest (probe_scheduler_peek).
LEMMA FirstIsEarliest ==
  ASSUME NEW h \in Seq(TaskSet), HeapOrder(h), NEW i \in DOMAIN h
  PROVE  h[1].due <= h[i].due
<1>1. /\ Len(h) \in Nat /\ DOMAIN h = 1 .. Len(h)
      /\ \A k \in 1 .. Len(h) : h[k].due \in Int
  BY ReorderedSelf DEF Reordered, TaskSet
<1> DEFINE T == {k \in 1 .. Len(h) : ~(h[1].due <= h[k].due)}
<1>2. SUFFICES ASSUME T # {} PROVE FALSE
  BY <1>1
<1>3. PICK k \in T : \A l \in T : k <= l
  <2>1. T \subseteq Nat
    BY <1>1
  <2> HIDE DEF T
  <2>2. QED
    BY <1>2, <2>1, LeastNumber
<1>4. k \in 2 .. Len(h) /\ 1 \in 1 .. Len(h)
  BY <1>1, <1>3
<1>5. PICK q : q = k \div 2
  OBVIOUS
<1>6. q \in 1 .. Len(h) /\ q < k
  BY <1>1, <1>4, <1>5, Parent
<1>7. h[1].due <= h[q].due
  BY <1>3, <1>6
<1>8. h[q].due <= h[k].due
  BY <1>4, <1>5 DEF HeapOrder
<1>9. QED
  BY <1>1, <1>3, <1>4, <1>6, <1>7, <1>8

-----------------------------------------------------------------------------
(* pending_tasks. *)

\* The program has ended, or has freed the queues.
Ended == mpc \in {"freed", "over", "crashed"}

\* The monitor thread has counted a SCAN that no queue has.
Sending == IF mon \in {"send", "uncount"} THEN 1 ELSE 0

\* The counter with the types it needs: an inductive invariant.
CountInv ==
  /\ turn \in Slots /\ cmdQ \in [Slots -> Nat] /\ atWork \in Nat /\ pending \in Int
  /\ ~Ended => pending = Total(cmdQ, Slots) + atWork + Sending

\* The slots are numbered from 0.
LEMMA SlotNumbers ==
  /\ IsFiniteSet(Slots) /\ 0 \in Slots /\ Slots \subseteq Nat
  /\ \A s \in Slots : (s + 1) % Cardinality(Slots) \in Slots
<1>1. IsFiniteSet(Slots) /\ Slots # {} /\ Slots = 0 .. Cardinality(Slots) - 1
  BY FuseAssumption
<1>2. PICK n \in Nat : n = Cardinality(Slots)
  BY <1>1, FS_CardinalityType
<1>3. n # 0 /\ Slots = 0 .. n - 1
  BY <1>1, <1>2
<1>4. \A s \in 0 .. n - 1 : (s + 1) % n \in 0 .. n - 1
  BY <1>3
<1>5. 0 \in Slots /\ Slots \subseteq Nat
  BY <1>3
<1>6. \A s \in Slots : (s + 1) % Cardinality(Slots) \in Slots
  BY <1>2, <1>3, <1>4
<1>7. QED
  BY <1>1, <1>5, <1>6

\* A step that leaves the queues and the counter alone.
LEMMA CountFrame ==
  ASSUME CountInv, UNCHANGED <<cmdQ, atWork, pending>>, turn' \in Slots,
         Sending' = Sending \/ Ended', Ended => Ended'
  PROVE  CountInv'
BY DEF CountInv

\* A SCAN more or less in a queue.
LEMMA QueueChange ==
  ASSUME CountInv, NEW s \in Slots, NEW v \in Nat, NEW e, e = [cmdQ EXCEPT ![s] = v]
  PROVE  /\ cmdQ[s] \in Nat /\ Total(cmdQ, Slots) \in Nat
         /\ e \in [Slots -> Nat]
         /\ Total(e, Slots) = Total(cmdQ, Slots) - cmdQ[s] + v
<1>1. cmdQ \in [Slots -> Nat] /\ IsFiniteSet(Slots)
  BY SlotNumbers DEF CountInv
<1>2. /\ cmdQ[s] \in Nat /\ e \in [Slots -> Nat]
      /\ e[s] = v /\ \A x \in Slots : x # s => e[x] = cmdQ[x]
  BY <1>1
<1>3. Total(cmdQ, Slots) \in Nat /\ Total(e, Slots) = Total(cmdQ, Slots) - cmdQ[s] + e[s]
  <2>1. PICK f \in [Slots -> Nat] : f = cmdQ
    BY <1>1
  <2>2. PICK g \in [Slots -> Nat] : g = e
    BY <1>2
  <2>3. \A x \in Slots : x # s => g[x] = f[x]
    BY <1>2, <2>1, <2>2
  <2>4. Total(f, Slots) \in Nat /\ Total(g, Slots) = Total(f, Slots) - f[s] + g[s]
    BY ONLY <1>1, <2>3, TotalUpdate, f \in [Slots -> Nat], g \in [Slots -> Nat], s \in Slots
  <2>5. QED
    BY <2>1, <2>2, <2>4
<1>4. QED
  BY <1>2, <1>3

\* Every queue is empty at first.
LEMMA CountInitInvariant == Init => CountInv
<1> SUFFICES ASSUME Init PROVE CountInv
  OBVIOUS
<1>1. PICK g : Sums(g, cmdQ, SUBSET Slots) /\ Total(cmdQ, Slots) = g[Slots]
  BY SlotNumbers, TotalIsSum
<1>2. cmdQ = [s \in Slots |-> 0]
  BY DEF Init
<1>3. 0 \in Slots /\ cmdQ \in [Slots -> Nat] /\ \A s \in Slots : cmdQ[s] = 0
  BY <1>2, SlotNumbers
<1>4. g[Slots] = cmdQ[0]
  <2>1. PICK f \in [Slots -> Nat] : f = cmdQ
    BY <1>3
  <2>2. IsFiniteSet(Slots) /\ \A x \in Slots : x # 0 => f[x] = 0
    BY <1>3, <2>1, SlotNumbers
  <2>3. g[Slots] = f[0]
    BY ONLY <1>1, <1>3, <2>1, <2>2, SumsOnly
  <2>4. QED
    BY <2>1, <2>3
<1>5. Total(cmdQ, Slots) = 0
  BY <1>1, <1>3, <1>4
<1>6. QED
  BY <1>2, <1>5, SlotNumbers DEF Init, CountInv, Sending

\* One SCAN more in a queue.
LEMMA OneMore ==
  ASSUME CountInv, NEW s \in Slots, cmdQ' = [cmdQ EXCEPT ![s] = @ + 1]
  PROVE  /\ cmdQ' \in [Slots -> Nat] /\ Total(cmdQ, Slots) \in Nat
         /\ Total(cmdQ', Slots) = Total(cmdQ, Slots) + 1
<1>1. cmdQ \in [Slots -> Nat] /\ cmdQ[s] \in Nat
  BY DEF CountInv
<1>2. PICK v \in Nat : v = cmdQ[s] + 1
  BY <1>1
<1>3. cmdQ' = [cmdQ EXCEPT ![s] = v]
  BY <1>2
<1>4. /\ Total(cmdQ, Slots) \in Nat /\ cmdQ' \in [Slots -> Nat]
      /\ Total(cmdQ', Slots) = Total(cmdQ, Slots) - cmdQ[s] + v
  BY <1>3, QueueChange
<1>5. QED
  BY <1>1, <1>2, <1>4

\* One SCAN less in a queue.
LEMMA OneLess ==
  ASSUME CountInv, NEW s \in Slots, cmdQ[s] > 0, cmdQ' = [cmdQ EXCEPT ![s] = @ - 1]
  PROVE  /\ cmdQ' \in [Slots -> Nat] /\ Total(cmdQ, Slots) \in Nat
         /\ Total(cmdQ', Slots) = Total(cmdQ, Slots) - 1
<1>1. cmdQ \in [Slots -> Nat] /\ cmdQ[s] \in Nat
  BY DEF CountInv
<1>2. PICK v \in Nat : v = cmdQ[s] - 1
  BY <1>1
<1>3. cmdQ' = [cmdQ EXCEPT ![s] = v]
  BY <1>2
<1>4. /\ Total(cmdQ, Slots) \in Nat /\ cmdQ' \in [Slots -> Nat]
      /\ Total(cmdQ', Slots) = Total(cmdQ, Slots) - cmdQ[s] + v
  BY <1>3, QueueChange
<1>5. QED
  BY <1>1, <1>2, <1>4

\* The steps that count, send, take or finish a SCAN.
LEMMA CountingKeeps ==
  ASSUME CountInv,
         \/ Seed \/ Finish \/ \E s \in Slots : DispatchLost(s) \/ Take(s)
         \/ CountTask \/ Requeue \/ RequeueFull \/ UncountTask
  PROVE  CountInv'
<1>1. CASE Seed
  <2>1. CASE cmdQ[0] < QueueCap
    <3>1. /\ cmdQ' = [cmdQ EXCEPT ![0] = @ + 1] /\ pending' = pending + 1
          /\ mpc = "restore" /\ mpc' = "loop"
          /\ turn' = turn /\ mon' = mon /\ atWork' = atWork
      BY <1>1, <2>1 DEF Seed, monVars
    <3>2. /\ cmdQ' \in [Slots -> Nat] /\ Total(cmdQ, Slots) \in Nat
          /\ Total(cmdQ', Slots) = Total(cmdQ, Slots) + 1
      BY <3>1, SlotNumbers, OneMore
    <3>3. QED
      BY <3>1, <3>2 DEF CountInv, Ended, Sending
  <2>2. CASE ~(cmdQ[0] < QueueCap)
    BY <1>1, <2>2 DEF Seed, monVars, CountInv, Ended
  <2>3. QED
    BY <2>1, <2>2
<1>2. CASE Finish
  <2>1. Total(cmdQ, Slots) \in Nat
    BY SlotNumbers, TotalUpdate DEF CountInv
  <2>2. QED
    BY <1>2, <2>1 DEF Finish, monVars, CountInv, Ended, Sending
<1>3. ASSUME NEW s \in Slots, DispatchLost(s) PROVE CountInv'
  <2>1. /\ cmdQ' \in [Slots -> Nat] /\ Total(cmdQ, Slots) \in Nat
        /\ Total(cmdQ', Slots) = Total(cmdQ, Slots) + 1
    BY <1>3, OneMore DEF DispatchLost
  <2>2. QED
    BY <1>3, <2>1 DEF DispatchLost, monVars, CountInv, Ended, Sending
<1>4. ASSUME NEW s \in Slots, Take(s) PROVE CountInv'
  <2>1. /\ cmdQ' \in [Slots -> Nat] /\ Total(cmdQ, Slots) \in Nat
        /\ Total(cmdQ', Slots) = Total(cmdQ, Slots) - 1
    BY <1>4, OneLess DEF Take
  <2>2. QED
    BY <1>4, <2>1 DEF Take, monVars, CountInv, Ended, Sending
<1>5. CASE CountTask
  <2>1. Total(cmdQ, Slots) \in Nat
    BY SlotNumbers, TotalUpdate DEF CountInv
  <2>2. QED
    BY <1>5, <2>1 DEF CountTask, CountInv, Ended, Sending
<1>6. CASE Requeue
  <2>1. /\ cmdQ' \in [Slots -> Nat] /\ Total(cmdQ, Slots) \in Nat
        /\ Total(cmdQ', Slots) = Total(cmdQ, Slots) + 1
    BY <1>6, OneMore DEF Requeue, CountInv
  <2>2. turn' \in Slots
    BY <1>6, SlotNumbers DEF Requeue, NextTurn, CountInv
  <2>3. QED
    BY <1>6, <2>1, <2>2 DEF Requeue, CountInv, Ended, Sending
<1>7. CASE RequeueFull
  <2>1. turn' \in Slots
    BY <1>7, SlotNumbers DEF RequeueFull, NextTurn, CountInv
  <2>2. QED
    BY <1>7, <2>1, CountFrame DEF RequeueFull, Ended, Sending, taskVars
<1>8. CASE UncountTask
  <2>1. Total(cmdQ, Slots) \in Nat
    BY SlotNumbers, TotalUpdate DEF CountInv
  <2>2. QED
    BY <1>8, <2>1 DEF UncountTask, Uncounted, CountInv, Ended, Sending
<1>9. QED
  BY <1>1, <1>2, <1>3, <1>4, <1>5, <1>6, <1>7, <1>8

\* Every other step leaves the counter right.
LEMMA CountStepInvariant == CountInv /\ [Next]_vars => CountInv'
<1> SUFFICES ASSUME CountInv, [Next]_vars PROVE CountInv'
  OBVIOUS
<1>1. CASE \/ Seed \/ Finish \/ \E s \in Slots : DispatchLost(s) \/ Take(s)
           \/ CountTask \/ Requeue \/ RequeueFull \/ UncountTask
  BY <1>1, CountingKeeps
<1>2. turn \in Slots
  BY DEF CountInv
<1>3. CASE UNCHANGED vars
  BY <1>2, <1>3, CountFrame DEF vars, taskVars, monVars, Sending, Ended
<1>4. CASE RestoreAppend \/ RestoreMark \/ RestorePush
  BY <1>2, <1>4, CountFrame
     DEF RestoreAppend, RestoreMark, RestorePush, taskVars, monVars, Sending, Ended
<1>5. CASE ReapAny \/ StopLoop \/ FreeQueues \/ JoinMonitor
  BY <1>2, <1>5, CountFrame
     DEF ReapAny, StopLoop, FreeQueues, JoinMonitor, taskVars, monVars, Sending, Ended
<1>6. CASE Tick \/ \E how \in {"exited", "killed"} : ChildEnds(how)
  BY <1>2, <1>6, CountFrame DEF Tick, ChildEnds, taskVars, monVars, Sending, Ended
<1>7. CASE Peek \/ Probe \/ ReapKilled \/ ReapNothing \/ ReapExited
  BY <1>2, <1>7, CountFrame
     DEF Peek, Probe, ReapKilled, ReapNothing, ReapExited, taskVars, Sending, Ended
<1>8. CASE Pass \/ RequeueEnd
  BY <1>2, <1>8, CountFrame DEF Pass, RequeueEnd, taskVars, Sending, Ended
<1>9. CASE LoseTask
  BY <1>2, <1>9, CountFrame DEF LoseTask, Sending, Ended
<1>10. CASE RequeueFreed
  BY <1>2, <1>10, CountFrame DEF RequeueFreed, taskVars, Sending, Ended
<1>11. QED
  BY <1>1, <1>3, <1>4, <1>5, <1>6, <1>7, <1>8, <1>9, <1>10
     DEF Next, Restore, Loop, MonitorStep, RequeueStep

\* With a second thread that gives out tasks pending_tasks is exact: it is 0 only
\* when no SCAN is queued, at work or being sent (spbin_requeue_recovered, Seed).
THEOREM TasksAreCounted == Spec => []TasksCounted
<1>1. CountInv => TasksCounted
  BY DEF CountInv, TasksCounted, Ended, Sending, Total
<1>2. QED
  BY <1>1, CountInitInvariant, CountStepInvariant, PTL DEF Spec

-----------------------------------------------------------------------------
(* What a dead device waits for. *)

HasTask(h, d) == \E t \in Range(h) : t.dev = d

\* Other threads do not push: the device of the directory being restored.
ToBePushed(d) == step = "push" /\ archive[count].dev = d

WatchTypes ==
  /\ archive \in Seq(Skipped) /\ count \in 0 .. Len(archive)
  /\ step \in {"append", "mark", "push"} /\ (step # "append" => count >= 1)
  /\ heap \in Seq(TaskSet) /\ HeapOrder(heap)
  /\ probe \in [dev : Devs \cup {None},
                child : {"none", "running", "exited", "killed", "reaped"}]

Requeueing == mon \in {"requeue", "send", "uncount", "lose"}

\* The monitor thread between its steps.
MonitorPlace ==
  /\ mon \in {"idle", "peeked"} \/ Requeueing
  /\ mon = "idle" => probe = NoProbe \/ (probe.dev \in Devs /\ probe.child # "none")
  /\ mon = "peeked" => probe = NoProbe /\ at \in Devs
  /\ Requeueing => probe.dev \in Devs /\ probe.child = "none" /\ at \in 1 .. count + 1
  /\ mon \in {"send", "uncount", "lose"} => at <= count
  /\ probe.child = "reaped" => probe.dev \in unwatched

DeadWatched == \A d \in Devs \ unwatched : StateOf(d) = "dead" => Watched(d)

\* A device that is marked dead again while its directories go back has a task.
DeadAgain ==
  Requeueing /\ StateOf(probe.dev) = "dead" /\ probe.dev \notin unwatched =>
    HasTask(heap, probe.dev) \/ ToBePushed(probe.dev)

\* The directories that spbin_requeue_recovered has passed went back.
PassedWentBack ==
  Requeueing /\ ~Ended =>
    \A i \in 1 .. count : i < at /\ GoesBack(i) => i \in requeued

\* NothingForgotten, for one directory.
Excused(i) ==
  \/ archive[i].status = "condemned" \/ archive[i].dev \in unwatched \/ i \in requeued
  \/ Ended
  \/ i = count /\ step \in {"mark", "push"}

AllKept == \A i \in 1 .. count : Excused(i) \/ Watched(archive[i].dev)

\* An inductive invariant.
WatchInv ==
  WatchTypes /\ MonitorPlace /\ DeadWatched /\ DeadAgain /\ PassedWentBack /\ AllKept

\* A device is watched by a task, by the probe or by the thread that is restoring.
LEMMA WatchedBy ==
  /\ \A d : Watched(d) <=> \/ HasTask(heap, d) \/ probe.dev = d
                           \/ (mon = "peeked" /\ at = d) \/ ToBePushed(d)
  /\ \A d : Watched(d)' <=> \/ HasTask(heap', d) \/ probe'.dev = d
                            \/ (mon' = "peeked" /\ at' = d) \/ ToBePushed(d)'
<1>1. \A h, d : HasTask(h, d) <=> \E i \in DOMAIN h : h[i].dev = d
  BY DEF HasTask, Range
<1>2. QED
  BY <1>1 DEF Watched, ToBePushed

\* The directories in memory are records.
LEMMA RestoredDirs ==
  ASSUME WatchTypes
  PROVE  /\ count \in Nat /\ \A i \in 1 .. count : archive[i] \in Skipped
         /\ \A i \in 1 .. count : archive[i].dev \in Devs
<1>1. Len(archive) \in Nat /\ \A i \in 1 .. Len(archive) : archive[i] \in Skipped
  BY LenProperties, ElementOfSeq DEF WatchTypes
<1>2. count \in Nat /\ \A i \in 1 .. count : archive[i] \in Skipped
  BY <1>1 DEF WatchTypes
<1>3. QED
  BY <1>2 DEF Skipped

LEMMA PushHas ==
  ASSUME NEW h \in Seq(TaskSet), HeapOrder(h), NEW task \in TaskSet, NEW d,
         HasTask(h, d) \/ task.dev = d
  PROVE  HasTask(Push(h, task), d)
BY PushWorks DEF HasTask

LEMMA RemoveHas ==
  ASSUME NEW h \in Seq(TaskSet), HeapOrder(h), NEW d, NEW x, x # d, HasTask(h, x)
  PROVE  HasTask(RemoveDev(h, d), x)
BY RemoveDevWorks DEF HasTask

\* Time passes for all tasks alike.
LEMMA TickWorks ==
  ASSUME NEW h \in Seq(TaskSet), HeapOrder(h),
         NEW g, g = [i \in DOMAIN h |->
                       [h[i] EXCEPT !.due = IF @ > -Late THEN @ - 1 ELSE @]]
  PROVE  g \in Seq(TaskSet) /\ HeapOrder(g) /\ \A d : HasTask(h, d) => HasTask(g, d)
<1>1. Len(h) \in Nat /\ DOMAIN h = 1 .. Len(h) /\ \A k \in 1 .. Len(h) : h[k] \in TaskSet
  BY ReorderedSelf DEF Reordered
<1>2. \A k \in 1 .. Len(h) :
        /\ g[k] \in TaskSet /\ g[k].dev = h[k].dev
        /\ g[k].due = IF h[k].due > -Late THEN h[k].due - 1 ELSE h[k].due
  <2>1. SUFFICES ASSUME NEW k \in 1 .. Len(h)
                 PROVE  /\ g[k] \in TaskSet /\ g[k].dev = h[k].dev
                        /\ g[k].due = IF h[k].due > -Late THEN h[k].due - 1 ELSE h[k].due
    OBVIOUS
  <2>2. h[k] \in TaskSet /\ h[k].due \in Int /\ Late \in Nat
    BY <1>1, FuseAssumption DEF TaskSet
  <2>3. PICK due \in Int : due = IF h[k].due > -Late THEN h[k].due - 1 ELSE h[k].due
    BY <2>2
  <2>4. g[k] = [h[k] EXCEPT !.due = due]
    BY <1>1, <2>3
  <2>5. QED
    BY <2>2, <2>3, <2>4 DEF TaskSet
<1>3. g \in Seq(TaskSet) /\ Len(g) = Len(h)
  <2>1. g \in [1 .. Len(h) -> TaskSet]
    BY <1>1, <1>2
  <2>2. QED
    BY <1>1, <2>1, ArrayIsSeq
<1>4. HeapOrder(g)
  <2>1. SUFFICES ASSUME NEW j \in 2 .. Len(h) PROVE g[j \div 2].due <= g[j].due
    BY <1>3 DEF HeapOrder
  <2>2. PICK q : q = j \div 2
    OBVIOUS
  <2>3. q \in 1 .. Len(h) /\ j \in 1 .. Len(h)
    BY <1>1, <2>2, Parent
  <2>4. h[q].due <= h[j].due /\ h[q].due \in Int /\ h[j].due \in Int
    BY <1>1, <2>2, <2>3 DEF HeapOrder, TaskSet
  <2>5. g[q].due <= g[j].due
    BY <1>2, <2>3, <2>4, FuseAssumption
  <2>6. QED
    BY <2>2, <2>5
<1>5. \A d : HasTask(h, d) => HasTask(g, d)
  BY <1>1, <1>2, <1>3, ZenonT(60) DEF HasTask, Range
<1>6. QED
  BY <1>3, <1>4, <1>5

\* Marking a device changes its state only, and to dead only when that is asked.
LEMMA MarkedState ==
  ASSUME NEW d, NEW new, state' = Marked(d, new), NEW x, StateOf(x)' = "dead"
  PROVE  IF x = d THEN new = "dead" ELSE StateOf(x) = "dead"
<1>1. x \in DOMAIN state' /\ state'[x] = "dead"
  BY DEF StateOf, Tracked
<1>2. state[x] = "dead" /\ x \in DOMAIN state => StateOf(x) = "dead"
  BY DEF StateOf, Tracked
<1>3. CASE state' = [y \in DOMAIN state \cup {d} |-> IF y = d THEN new ELSE state[y]]
  <2>1. x \in DOMAIN state \cup {d} /\ state'[x] = IF x = d THEN new ELSE state[x]
    BY <1>1, <1>3
  <2>2. QED
    BY <1>1, <1>2, <2>1
<1>4. CASE d \notin DOMAIN state /\ state' = state
  BY <1>1, <1>2, <1>4
<1>5. QED
  BY <1>3, <1>4 DEF Marked, Tracked

\* A step that forgets no device and marks none dead.
LEMMA StillWatched ==
  ASSUME WatchInv, UNCHANGED restoreVars, Ended => Ended',
         requeued \subseteq requeued', unwatched \subseteq unwatched',
         \A d \in Devs : StateOf(d)' = "dead" => StateOf(d) = "dead",
         \A d \in Devs \ unwatched' : Watched(d) => Watched(d)'
  PROVE  DeadWatched' /\ AllKept'
<1>1. DeadWatched'
  BY DEF WatchInv, DeadWatched
<1>2. AllKept'
  <2>1. SUFFICES ASSUME NEW i \in 1 .. count', ~Excused(i)' PROVE Watched(archive[i].dev)'
    BY DEF AllKept, restoreVars
  <2>2. i \in 1 .. count /\ archive' = archive /\ count' = count /\ step' = step
    BY DEF restoreVars
  <2>3. ~Excused(i) /\ archive[i].dev \notin unwatched'
    BY <2>1, <2>2 DEF Excused
  <2>4. Watched(archive[i].dev) /\ archive[i].dev \in Devs
    BY <2>2, <2>3, RestoredDirs DEF WatchInv, AllKept
  <2>5. PICK d \in Devs : d = archive[i].dev
    BY <2>4
  <2>6. Watched(d)'
    BY <2>3, <2>4, <2>5
  <2>7. QED
    BY <2>2, <2>5, <2>6 DEF Watched
<1>3. QED
  BY <1>1, <1>2

\* Steps that touch neither the restore, nor the fuse, nor the monitor thread.
LEMMA WatchFrame ==
  ASSUME WatchInv, UNCHANGED <<restoreVars, fuseVars, probe, mon, at, history>>, Ended => Ended'
  PROVE  WatchInv'
<1>1. DeadWatched' /\ AllKept'
  <2>1. \A d : StateOf(d)' = StateOf(d)
    BY DEF StateOf, Tracked, fuseVars
  <2>2. \A d : Watched(d)' <=> Watched(d)
    BY DEF Watched, fuseVars, restoreVars
  <2>3. QED
    BY <2>1, <2>2, StillWatched DEF history
<1>2. WatchTypes' /\ MonitorPlace'
  BY DEF WatchInv, WatchTypes, MonitorPlace, Requeueing, restoreVars, fuseVars, history
<1>3. DeadAgain'
  BY DEF WatchInv, DeadAgain, Requeueing, ToBePushed, StateOf, Tracked, restoreVars,
         fuseVars, history
<1>4. PassedWentBack'
  BY DEF WatchInv, PassedWentBack, Requeueing, GoesBack, restoreVars, history
<1>5. QED
  BY <1>1, <1>2, <1>3, <1>4 DEF WatchInv

\* The restore: a directory is in memory, then its device is marked, then the
\* device has a task.
LEMMA RestoreKeeps ==
  ASSUME WatchInv, RestoreAppend \/ RestoreMark \/ RestorePush
  PROVE  WatchInv'
<1>1. /\ count \in Nat /\ archive' = archive /\ mpc' = mpc
      /\ probe' = probe /\ mon' = mon /\ at' = at
      /\ requeued' = requeued /\ unwatched' = unwatched
  BY RestoredDirs
     DEF WatchInv, RestoreAppend, RestoreMark, RestorePush, monVars, history
<1>2. CASE RestoreAppend
  <2>1. /\ count' = count + 1 /\ step' = "mark" /\ step = "append" /\ count < Len(archive)
        /\ state' = state /\ heap' = heap
    BY <1>2 DEF RestoreAppend, fuseVars
  <2>2. WatchTypes'
    BY <1>1, <2>1, LenProperties DEF WatchInv, WatchTypes
  <2>3. MonitorPlace'
    BY <1>1, <2>1 DEF WatchInv, MonitorPlace, Requeueing
  <2>4. \A d : StateOf(d)' = StateOf(d) /\ (Watched(d) => Watched(d)')
    BY <1>1, <2>1 DEF StateOf, Tracked, Watched
  <2>5. DeadWatched'
    BY <1>1, <2>4 DEF WatchInv, DeadWatched
  <2>6. DeadAgain'
    BY <1>1, <2>1, <2>4 DEF WatchInv, DeadAgain, Requeueing, ToBePushed
  <2>7. PassedWentBack'
    BY <1>1, <2>1 DEF WatchInv, PassedWentBack, MonitorPlace, Requeueing, GoesBack, Ended
  <2>8. AllKept'
    <3>1. SUFFICES ASSUME NEW i \in 1 .. count + 1
                   PROVE  Excused(i)' \/ Watched(archive[i].dev)'
      BY <1>1, <2>1 DEF AllKept
    <3>2. CASE i = count + 1
      BY <2>1, <3>2 DEF Excused
    <3>3. CASE i \in 1 .. count
      BY <1>1, <2>1, <2>4, <3>3 DEF WatchInv, AllKept, Excused, Ended
    <3>4. QED
      BY <1>1, <3>2, <3>3
  <2>9. QED
    BY <2>2, <2>3, <2>5, <2>6, <2>7, <2>8 DEF WatchInv
<1>3. ASSUME RestoreMark PROVE WatchInv'
  <2>1. /\ count' = count /\ heap' = heap /\ step = "mark"
        /\ \/ /\ archive[count].status = "condemned" /\ step' = "append"
              /\ state' = Marked(archive[count].dev, "condemned")
           \/ /\ archive[count].status # "condemned" /\ step' = "push"
              /\ state' = Marked(archive[count].dev, "dead")
    BY <1>3 DEF RestoreMark, MarkDead, MarkCondemned
  <2>2. WatchTypes'
    BY <1>1, <2>1 DEF WatchInv, WatchTypes
  <2>3. MonitorPlace' /\ PassedWentBack'
    BY <1>1, <2>1 DEF WatchInv, MonitorPlace, PassedWentBack, Requeueing, GoesBack, Ended
  <2>4. \A d : StateOf(d)' = "dead" => StateOf(d) = "dead" \/ ToBePushed(d)'
    <3>1. SUFFICES ASSUME NEW d, StateOf(d)' = "dead"
                   PROVE  StateOf(d) = "dead" \/ ToBePushed(d)'
      OBVIOUS
    <3>2. CASE state' = Marked(archive[count].dev, "condemned")
      BY <3>1, <3>2, MarkedState
    <3>3. CASE step' = "push" /\ state' = Marked(archive[count].dev, "dead")
      BY <1>1, <2>1, <3>1, <3>3, MarkedState DEF ToBePushed
    <3>4. QED
      BY <2>1, <3>2, <3>3
  <2>5. \A d : Watched(d) \/ ToBePushed(d)' => Watched(d)'
    BY <1>1, <2>1 DEF Watched, ToBePushed
  <2>6. DeadWatched'
    BY <1>1, <2>4, <2>5 DEF WatchInv, DeadWatched
  <2>7. DeadAgain'
    BY <1>1, <2>1, <2>4 DEF WatchInv, DeadAgain, Requeueing, ToBePushed
  <2>8. AllKept'
    <3>1. SUFFICES ASSUME NEW i \in 1 .. count PROVE Excused(i)' \/ Watched(archive[i].dev)'
      BY <1>1, <2>1 DEF AllKept
    <3>2. CASE i = count
      BY <1>1, <2>1, <3>2 DEF Excused
    <3>3. CASE i # count
      BY <1>1, <2>1, <2>5, <3>1, <3>3 DEF WatchInv, AllKept, Excused, Ended
    <3>4. QED
      BY <3>2, <3>3
  <2>9. QED
    BY <2>2, <2>3, <2>6, <2>7, <2>8 DEF WatchInv
<1>4. ASSUME RestorePush PROVE WatchInv'
  <2>1. PICK e : e = archive[count]
    OBVIOUS
  <2>2. PICK t : t = Task(e.dev, e.interval, e.status)
    OBVIOUS
  <2>3. /\ count' = count /\ state' = state /\ step = "push" /\ step' = "append"
        /\ heap' = Push(heap, t)
    BY <1>4, <2>1, <2>2 DEF RestorePush, PushRestored
  <2>4. /\ heap \in Seq(TaskSet) /\ HeapOrder(heap) /\ count \in 1 .. count
        /\ e \in Skipped
    BY <1>1, <2>1, <2>3, RestoredDirs DEF WatchInv, WatchTypes
  <2>5. t \in TaskSet /\ t.dev = e.dev
    BY <2>2, <2>4 DEF Skipped, TaskSet, Task
  <2>6. WatchTypes'
    <3>1. heap' \in Seq(TaskSet) /\ HeapOrder(heap')
      BY <2>3, <2>4, <2>5, PushWorks
    <3>2. QED
      BY <1>1, <2>3, <3>1 DEF WatchInv, WatchTypes
  <2>7. MonitorPlace' /\ PassedWentBack'
    BY <1>1, <2>3 DEF WatchInv, MonitorPlace, PassedWentBack, Requeueing, GoesBack, Ended
  <2>8. \A d : HasTask(heap, d) \/ ToBePushed(d) => HasTask(heap', d)
    BY <2>1, <2>3, <2>4, <2>5, PushHas DEF ToBePushed
  <2>9. \A d : StateOf(d)' = StateOf(d) /\ (Watched(d) => Watched(d)')
    BY <1>1, <2>3, <2>8, WatchedBy DEF StateOf, Tracked
  <2>10. DeadWatched'
    BY <1>1, <2>9 DEF WatchInv, DeadWatched
  <2>11. DeadAgain'
    BY <1>1, <2>3, <2>8, <2>9 DEF WatchInv, DeadAgain, Requeueing
  <2>12. AllKept'
    <3>1. SUFFICES ASSUME NEW i \in 1 .. count PROVE Excused(i)' \/ Watched(archive[i].dev)'
      BY <1>1, <2>3 DEF AllKept
    <3>2. CASE i = count
      BY <1>1, <2>1, <2>3, <2>8, <3>2, WatchedBy DEF ToBePushed
    <3>3. CASE i # count
      BY <1>1, <2>3, <2>9, <3>1, <3>3 DEF WatchInv, AllKept, Excused, Ended
    <3>4. QED
      BY <3>2, <3>3
  <2>13. QED
    BY <2>6, <2>7, <2>10, <2>11, <2>12 DEF WatchInv
<1>5. QED
  BY <1>2, <1>3, <1>4

\* The main thread frees what the monitor thread used: nothing is dead, or waits.
LEMMA DestroyKeeps ==
  ASSUME WatchInv, DestroyFuse, Ended', UNCHANGED <<restoreVars, monVars, history>>
  PROVE  WatchInv'
<1>1. heap' = <<>> /\ state' = <<>>
  BY DEF DestroyFuse, Destroyed, ManagerDestroyed
<1>2. <<>> \in Seq(TaskSet) /\ Len(<<>>) = 0 /\ HeapOrder(<<>>)
  BY DEF HeapOrder
<1>3. WatchTypes'
  BY <1>1, <1>2 DEF WatchInv, WatchTypes, restoreVars, monVars
<1>4. MonitorPlace'
  BY DEF WatchInv, MonitorPlace, Requeueing, restoreVars, monVars, history
<1>5. \A d : StateOf(d)' # "dead"
  BY <1>1 DEF StateOf, Tracked
<1>6. DeadWatched' /\ DeadAgain'
  BY <1>5 DEF DeadWatched, DeadAgain
<1>7. PassedWentBack' /\ AllKept'
  BY DEF PassedWentBack, AllKept, Excused
<1>8. QED
  BY <1>3, <1>4, <1>6, <1>7 DEF WatchInv

\* A probe ends, and whoever waits for it reaps it.
LEMMA ProbeEndKeeps ==
  ASSUME WatchInv,
         ReapAny \/ ReapNothing \/ \E how \in {"exited", "killed"} : ChildEnds(how)
  PROVE  WatchInv'
<1>1. /\ restoreVars' = restoreVars /\ mpc' = mpc /\ state' = state /\ heap' = heap
      /\ mon' = mon /\ at' = at /\ requeued' = requeued
      /\ unwatched \subseteq unwatched'
  BY DEF ReapAny, ReapNothing, ChildEnds, fuseVars, history
<1>2. /\ probe'.dev = probe.dev \/ probe.dev \in unwatched'
      /\ probe' \in [dev : Devs \cup {None},
                     child : {"none", "running", "exited", "killed", "reaped"}]
      /\ MonitorPlace'
  <2>1. probe \in [dev : Devs \cup {None},
                   child : {"none", "running", "exited", "killed", "reaped"}]
    BY DEF WatchInv, WatchTypes
  <2>2. CASE ReapAny
    BY <1>1, <2>1, <2>2
       DEF ReapAny, WatchInv, MonitorPlace, Requeueing, NoProbe, restoreVars
  <2>3. CASE ReapNothing
    BY <1>1, <2>1, <2>3
       DEF ReapNothing, WatchInv, MonitorPlace, Requeueing, NoProbe, history
  <2>4. CASE \E how \in {"exited", "killed"} : ChildEnds(how)
    BY <1>1, <2>1, <2>4
       DEF ChildEnds, WatchInv, MonitorPlace, Requeueing, NoProbe, history
  <2>5. QED
    BY <2>2, <2>3, <2>4
<1>3. WatchTypes'
  BY <1>1, <1>2 DEF WatchInv, WatchTypes, restoreVars
<1>4. mon' = "idle" /\ ~Requeueing'
  BY <1>1 DEF ReapAny, ReapNothing, ChildEnds, WatchInv, MonitorPlace, Requeueing, NoProbe
<1>5. DeadAgain' /\ PassedWentBack'
  BY <1>4 DEF DeadAgain, PassedWentBack
<1>6. \A d : StateOf(d)' = StateOf(d)
  BY <1>1 DEF StateOf, Tracked
<1>7. \A d \in Devs \ unwatched' : Watched(d) => Watched(d)'
  BY <1>1, <1>2 DEF Watched, restoreVars
<1>8. DeadWatched' /\ AllKept'
  <2>1. Ended => Ended'
    BY <1>1 DEF Ended
  <2>2. QED
    BY <1>1, <1>6, <1>7, <2>1, StillWatched
<1>9. QED
  BY <1>2, <1>3, <1>5, <1>8 DEF WatchInv

\* Time passes.
LEMMA TickKeeps ==
  ASSUME WatchInv, Tick
  PROVE  WatchInv'
<1>1. /\ restoreVars' = restoreVars /\ mpc' = mpc /\ state' = state
      /\ probe' = probe /\ mon' = mon /\ at' = at
      /\ requeued' = requeued /\ unwatched' = unwatched
  BY DEF Tick, monVars, history
<1>2. /\ heap' \in Seq(TaskSet) /\ HeapOrder(heap')
      /\ \A d : HasTask(heap, d) => HasTask(heap', d)
  <2>1. heap \in Seq(TaskSet) /\ HeapOrder(heap)
    BY DEF WatchInv, WatchTypes
  <2>2. QED
    BY <2>1, TickWorks DEF Tick
<1>3. WatchTypes' /\ MonitorPlace'
  BY <1>1, <1>2 DEF WatchInv, WatchTypes, MonitorPlace, Requeueing, restoreVars
<1>4. \A d : StateOf(d)' = StateOf(d) /\ ToBePushed(d)' = ToBePushed(d)
  BY <1>1 DEF StateOf, Tracked, ToBePushed, restoreVars
<1>5. DeadAgain' /\ PassedWentBack'
  BY <1>1, <1>2, <1>4
     DEF WatchInv, DeadAgain, PassedWentBack, Requeueing, GoesBack, Ended, restoreVars
<1>6. \A d : Watched(d) => Watched(d)'
  BY <1>1, <1>2, <1>4, WatchedBy
<1>7. DeadWatched' /\ AllKept'
  <2>1. Ended => Ended'
    BY <1>1 DEF Ended
  <2>2. QED
    BY <1>1, <1>4, <1>6, <2>1, StillWatched
<1>8. QED
  BY <1>3, <1>5, <1>7 DEF WatchInv

\* Between peek and fork the device is known to the monitor thread only; a probe
\* that is not forked leaves its device unwatched.
LEMMA ProbingKeeps ==
  ASSUME WatchInv, Peek \/ Probe \/ ReapKilled
  PROVE  WatchInv'
<1>1. /\ restoreVars' = restoreVars /\ mpc' = mpc /\ state' = state
      /\ requeued' = requeued /\ unwatched \subseteq unwatched'
      /\ mon' \in {"idle", "peeked"} /\ ~Requeueing'
  BY DEF Peek, Probe, ReapKilled, fuseVars, history, Requeueing
<1>2. heap \in Seq(TaskSet) /\ HeapOrder(heap)
  BY DEF WatchInv, WatchTypes
<1>3. /\ heap' \in Seq(TaskSet) /\ HeapOrder(heap')
      /\ MonitorPlace'
      /\ probe' \in [dev : Devs \cup {None},
                     child : {"none", "running", "exited", "killed", "reaped"}]
      /\ \A d \in Devs \ unwatched' : Watched(d) => Watched(d)'
  <2>1. CASE Peek
    <3>1. /\ heap' = heap /\ heap # <<>> /\ at' = heap[1].dev /\ mon' = "peeked"
          /\ mon = "idle" /\ probe = NoProbe /\ probe' = probe
      BY <2>1 DEF Peek, Due, fuseVars
    <3>2. heap[1] \in TaskSet
      BY <1>2, <3>1, EmptySeq, LenProperties, ElementOfSeq
    <3>3. at' \in Devs
      BY <3>1, <3>2 DEF TaskSet
    <3>4. MonitorPlace'
      BY <3>1, <3>3 DEF MonitorPlace, Requeueing, NoProbe
    <3>5. \A d : ToBePushed(d)' = ToBePushed(d)
      BY <1>1 DEF ToBePushed, restoreVars
    <3>6. \A d \in Devs : Watched(d) => Watched(d)'
      BY <3>1, <3>5, WatchedBy
    <3>7. QED
      BY <1>2, <3>1, <3>4, <3>6 DEF WatchInv, WatchTypes
  <2>2. CASE Probe
    <3>1. /\ mon = "peeked" /\ mon' = "idle" /\ heap' = RemoveDev(heap, at)
          /\ probe = NoProbe /\ at \in Devs /\ at' = None
          /\ \/ probe' = [dev |-> at, child |-> "running"]
             \/ probe' = NoProbe /\ at \in unwatched'
      BY <2>2 DEF Probe, WatchInv, MonitorPlace
    <3>2. heap' \in Seq(TaskSet) /\ HeapOrder(heap')
      BY <1>2, <3>1, RemoveDevWorks
    <3>3. MonitorPlace'
      BY <3>1 DEF MonitorPlace, Requeueing, NoProbe
    <3>4. \A d : ToBePushed(d)' = ToBePushed(d)
      BY <1>1 DEF ToBePushed, restoreVars
    <3>5. \A d : d # at /\ HasTask(heap, d) => HasTask(heap', d)
      BY <1>2, <3>1, RemoveHas
    <3>6. probe.dev = None /\ None \notin Devs
      BY <3>1, FuseAssumption DEF NoProbe
    <3>7. \A d \in Devs \ unwatched' : Watched(d) => Watched(d)'
      BY <3>1, <3>4, <3>5, <3>6, WatchedBy
    <3>8. QED
      BY <3>1, <3>2, <3>3, <3>7 DEF NoProbe
  <2>3. CASE ReapKilled
    <3>1. PICK t : t = Task(probe.dev, Initial, "probing")
      OBVIOUS
    <3>2. /\ mon = "idle" /\ mon' = "idle" /\ probe.child = "killed" /\ probe' = NoProbe
          /\ heap' = Push(heap, t)
      BY <2>3, <3>1 DEF ReapKilled, Repeated
    <3>3. probe.dev \in Devs
      BY <3>2 DEF WatchInv, MonitorPlace, NoProbe
    <3>4. t \in TaskSet /\ t.dev = probe.dev
      BY <3>1, <3>3, FuseAssumption DEF TaskSet, Task
    <3>5. heap' \in Seq(TaskSet) /\ HeapOrder(heap')
      BY <1>2, <3>2, <3>4, PushWorks
    <3>6. MonitorPlace'
      BY <3>2 DEF MonitorPlace, Requeueing, NoProbe
    <3>7. \A d : HasTask(heap, d) \/ probe.dev = d => HasTask(heap', d)
      BY <1>2, <3>2, <3>4, PushHas
    <3>8. \A d : ToBePushed(d)' = ToBePushed(d)
      BY <1>1 DEF ToBePushed, restoreVars
    <3>9. \A d : Watched(d) => Watched(d)'
      BY <3>2, <3>7, <3>8, WatchedBy
    <3>10. QED
      BY <3>2, <3>5, <3>6, <3>9 DEF NoProbe
  <2>4. QED
    BY <2>1, <2>2, <2>3
<1>4. WatchTypes'
  BY <1>1, <1>3 DEF WatchInv, WatchTypes, restoreVars
<1>5. DeadAgain' /\ PassedWentBack'
  BY <1>1 DEF DeadAgain, PassedWentBack
<1>6. DeadWatched' /\ AllKept'
  <2>1. \A d : StateOf(d)' = StateOf(d)
    BY <1>1 DEF StateOf, Tracked
  <2>2. Ended => Ended'
    BY <1>1 DEF Ended
  <2>3. QED
    BY <1>1, <1>3, <2>1, <2>2, StillWatched
<1>7. QED
  BY <1>3, <1>4, <1>5, <1>6 DEF WatchInv

\* A device that answered is no longer dead; its directories go back.
LEMMA AnswerKeeps ==
  ASSUME WatchInv, ReapExited
  PROVE  WatchInv'
<1>1. /\ restoreVars' = restoreVars /\ mpc' = mpc /\ heap' = heap /\ mon = "idle"
      /\ requeued' = requeued /\ unwatched' = unwatched /\ probe.child = "exited"
      /\ mon' = "requeue" /\ at' = 1 /\ state' = Marked(probe.dev, "normal")
      /\ probe' = [probe EXCEPT !.child = "none"]
  BY DEF ReapExited, MarkAlive, history
<1>2. /\ probe \in [dev : Devs \cup {None},
                    child : {"none", "running", "exited", "killed", "reaped"}]
      /\ probe.dev \in Devs /\ count \in Nat
  BY <1>1, RestoredDirs DEF WatchInv, WatchTypes, MonitorPlace, NoProbe
<1>3. /\ probe'.dev = probe.dev /\ probe'.child = "none"
      /\ probe' \in [dev : Devs \cup {None},
                     child : {"none", "running", "exited", "killed", "reaped"}]
  BY <1>1, <1>2
<1>4. WatchTypes'
  BY <1>1, <1>3 DEF WatchInv, WatchTypes, restoreVars
<1>5. MonitorPlace'
  BY <1>1, <1>2, <1>3 DEF WatchInv, WatchTypes, MonitorPlace, Requeueing, restoreVars
<1>6. \A d : StateOf(d)' = "dead" => d # probe.dev /\ StateOf(d) = "dead"
  BY <1>1, MarkedState
<1>7. DeadAgain'
  BY <1>3, <1>6 DEF DeadAgain
<1>8. PassedWentBack'
  BY <1>1, <1>2 DEF PassedWentBack, restoreVars
<1>9. \A d : ToBePushed(d)' = ToBePushed(d)
  BY <1>1 DEF ToBePushed, restoreVars
<1>10. \A d : Watched(d) => Watched(d)'
  BY <1>1, <1>3, <1>9, WatchedBy
<1>11. DeadWatched' /\ AllKept'
  <2>1. Ended => Ended'
    BY <1>1 DEF Ended
  <2>2. QED
    BY <1>1, <1>6, <1>10, <2>1, StillWatched
<1>12. QED
  BY <1>4, <1>5, <1>7, <1>8, <1>11 DEF WatchInv

\* spbin_requeue_recovered: what it passes went back, or is for another device.
LEMMA RequeueKeeps ==
  ASSUME WatchInv,
         \/ Pass \/ CountTask \/ Requeue \/ RequeueFull \/ UncountTask \/ LoseTask
         \/ RequeueFreed
  PROVE  WatchInv'
<1>1. /\ restoreVars' = restoreVars /\ state' = state /\ heap' = heap /\ probe' = probe
      /\ Requeueing /\ Requeueing' /\ (Ended => Ended')
      /\ unwatched' = unwatched /\ requeued \subseteq requeued'
  BY DEF Pass, CountTask, Requeue, RequeueFull, UncountTask, LoseTask, RequeueFreed,
         fuseVars, history, Requeueing, Ended
<1>2. count \in Nat /\ at \in 1 .. count + 1 /\ probe.dev \in Devs
      /\ count' = count /\ archive' = archive
  BY <1>1, RestoredDirs DEF WatchInv, MonitorPlace, restoreVars
<1>3. \/ /\ at' = at /\ at <= count
      \/ /\ at' = at /\ mon' = mon
      \/ /\ at' = at + 1 /\ at <= count /\ mon' = "requeue"
         /\ GoesBack(at) => at \in requeued' \/ Ended'
  BY DEF Pass, CountTask, Requeue, RequeueFull, UncountTask, LoseTask, RequeueFreed,
         WatchInv, MonitorPlace, Ended
<1>4. WatchTypes'
  BY <1>1 DEF WatchInv, WatchTypes, restoreVars
<1>5. MonitorPlace'
  BY <1>1, <1>2, <1>3 DEF WatchInv, MonitorPlace, Requeueing
<1>6. \A d : StateOf(d)' = StateOf(d) /\ ToBePushed(d)' = ToBePushed(d)
  BY <1>1 DEF StateOf, Tracked, ToBePushed, restoreVars
<1>7. DeadAgain'
  BY <1>1, <1>6 DEF WatchInv, DeadAgain
<1>8. PassedWentBack'
  <2>1. SUFFICES ASSUME ~Ended', NEW i \in 1 .. count, i < at', GoesBack(i)
                 PROVE  i \in requeued'
    BY <1>1, <1>2 DEF PassedWentBack, GoesBack
  <2>2. CASE i < at
    BY <1>1, <2>1, <2>2 DEF WatchInv, PassedWentBack
  <2>3. CASE i = at
    BY <1>2, <1>3, <2>1, <2>3
  <2>4. QED
    BY <1>2, <1>3, <2>1, <2>2, <2>3
<1>9. \A d : Watched(d) => Watched(d)'
  BY <1>1, <1>6, WatchedBy DEF Requeueing
<1>10. DeadWatched' /\ AllKept'
  BY <1>1, <1>6, <1>9, StillWatched
<1>11. QED
  BY <1>4, <1>5, <1>7, <1>8, <1>10 DEF WatchInv

\* When all directories are passed the device needs no watch: it is not dead, or
\* it has another task.
LEMMA RequeueEndKeeps ==
  ASSUME WatchInv, RequeueEnd
  PROVE  WatchInv'
<1>1. /\ restoreVars' = restoreVars /\ state' = state /\ heap' = heap /\ mpc' = mpc
      /\ requeued' = requeued /\ unwatched' = unwatched /\ mon = "requeue" /\ at > count
      /\ mon' = "idle" /\ probe' = NoProbe
  BY DEF RequeueEnd, history
<1>2. count \in Nat /\ count' = count /\ archive' = archive /\ step' = step
      /\ at \in 1 .. count + 1
  BY <1>1, RestoredDirs DEF WatchInv, MonitorPlace, Requeueing, restoreVars
<1>3. WatchTypes' /\ MonitorPlace'
  BY <1>1 DEF WatchInv, WatchTypes, MonitorPlace, Requeueing, NoProbe, restoreVars
<1>4. DeadAgain' /\ PassedWentBack'
  BY <1>1 DEF DeadAgain, PassedWentBack, Requeueing
<1>5. \A d : StateOf(d)' = StateOf(d) /\ ToBePushed(d)' = ToBePushed(d)
  BY <1>1, <1>2 DEF StateOf, Tracked, ToBePushed
<1>6. \A d : Watched(d) /\ d # probe.dev => Watched(d)'
  BY <1>1, <1>5, WatchedBy
<1>7. DeadWatched'
  <2>1. SUFFICES ASSUME NEW d \in Devs \ unwatched, StateOf(d) = "dead"
                 PROVE  Watched(d)'
    BY <1>1, <1>5 DEF DeadWatched
  <2>2. CASE d = probe.dev
    <3>1. HasTask(heap, d) \/ ToBePushed(d)
      BY <1>1, <2>1, <2>2 DEF WatchInv, DeadAgain, Requeueing
    <3>2. QED
      BY <1>1, <1>5, <3>1, WatchedBy
  <2>3. CASE d # probe.dev
    BY <1>6, <2>1, <2>3 DEF WatchInv, DeadWatched
  <2>4. QED
    BY <2>2, <2>3
<1>8. AllKept'
  <2>1. SUFFICES ASSUME NEW i \in 1 .. count, ~Excused(i) PROVE Watched(archive[i].dev)'
    BY <1>1, <1>2 DEF AllKept, Excused, Ended
  <2>2. PICK d : d = archive[i].dev
    OBVIOUS
  <2>3. Watched(d)
    BY <2>1, <2>2 DEF WatchInv, AllKept
  <2>4. d # probe.dev
    BY <1>1, <1>2, <2>1, <2>2
       DEF WatchInv, PassedWentBack, Requeueing, GoesBack, Excused
  <2>5. Watched(d)'
    BY <1>6, <2>3, <2>4
  <2>6. QED
    BY <1>2, <2>2, <2>5 DEF Watched
<1>9. QED
  BY <1>3, <1>4, <1>7, <1>8 DEF WatchInv

-----------------------------------------------------------------------------
LEMMA WatchInitInvariant == Init => WatchInv
<1> SUFFICES ASSUME Init PROVE WatchInv
  OBVIOUS
<1>1. <<>> \in Seq(TaskSet) /\ Len(<<>>) = 0 /\ HeapOrder(<<>>)
  BY DEF HeapOrder
<1>2. WatchTypes
  BY <1>1, FuseAssumption, LenProperties DEF Init, WatchTypes, NewHeap, NoProbe
<1>3. MonitorPlace /\ DeadAgain /\ PassedWentBack /\ AllKept
  BY DEF Init, MonitorPlace, DeadAgain, PassedWentBack, AllKept, Requeueing, NoProbe
<1>4. DeadWatched
  BY DEF Init, DeadWatched, StateOf, Tracked, NewManager
<1>5. QED
  BY <1>2, <1>3, <1>4 DEF WatchInv

\* Every step keeps the watch.
LEMMA WatchStepInvariant == WatchInv /\ [Next]_vars => WatchInv'
<1> SUFFICES ASSUME WatchInv, [Next]_vars PROVE WatchInv'
  OBVIOUS
<1>1. CASE \/ UNCHANGED vars \/ Finish \/ StopLoop \/ FreeQueues
           \/ \E s \in Slots : DispatchLost(s) \/ Take(s)
  <2>1. UNCHANGED <<restoreVars, fuseVars, probe, mon, at, history>> /\ (Ended => Ended')
    BY <1>1 DEF vars, monVars, Finish, StopLoop, FreeQueues, DispatchLost, Take, Ended
  <2>2. QED
    BY <2>1, WatchFrame
<1>2. CASE RestoreAppend \/ RestoreMark \/ RestorePush
  BY <1>2, RestoreKeeps
<1>3. CASE Seed
  <2>1. CASE cmdQ[0] < QueueCap
    <3>1. UNCHANGED <<restoreVars, fuseVars, probe, mon, at, history>> /\ (Ended => Ended')
      BY <1>3, <2>1 DEF Seed, monVars, Ended
    <3>2. QED
      BY <3>1, WatchFrame
  <2>2. CASE ~(cmdQ[0] < QueueCap)
    BY <1>3, <2>2, DestroyKeeps DEF Seed, Ended
  <2>3. QED
    BY <2>1, <2>2
<1>4. CASE JoinMonitor
  BY <1>4, DestroyKeeps DEF JoinMonitor, Ended
<1>5. CASE ReapAny \/ ReapNothing \/ \E how \in {"exited", "killed"} : ChildEnds(how)
  BY <1>5, ProbeEndKeeps
<1>6. CASE Tick
  BY <1>6, TickKeeps
<1>7. CASE Peek \/ Probe \/ ReapKilled
  BY <1>7, ProbingKeeps
<1>8. CASE ReapExited
  BY <1>8, AnswerKeeps
<1>9. CASE \/ Pass \/ CountTask \/ Requeue \/ RequeueFull \/ UncountTask \/ LoseTask
           \/ RequeueFreed
  BY <1>9, RequeueKeeps
<1>10. CASE RequeueEnd
  BY <1>10, RequeueEndKeeps
<1>11. QED
  BY <1>1, <1>2, <1>3, <1>4, <1>5, <1>6, <1>7, <1>8, <1>9, <1>10
     DEF Next, Restore, Loop, MonitorStep, RequeueStep

\* A dead device has a task, a probe or a thread about to give it one, whatever the
\* restore, the monitor thread and the reaping main loop do to it, and the task that
\* probe_scheduler_peek returns is the earliest.
THEOREM DeadDevicesAreWatched == Spec => []DeadIsWatched
<1>1. WatchInv => DeadIsWatched
  <2>1. SUFFICES ASSUME WatchInv PROVE DeadIsWatched
    OBVIOUS
  <2>2. \A i \in DOMAIN heap : heap[1].due <= heap[i].due
    BY <2>1, FirstIsEarliest DEF WatchInv, WatchTypes
  <2>3. QED
    BY <2>1, <2>2 DEF WatchInv, DeadWatched, DeadIsWatched
<1>2. QED
  BY <1>1, WatchInitInvariant, WatchStepInvariant, PTL DEF Spec

\* A directory that an earlier run skipped was put into a command queue or lost_tasks,
\* or something that will do so is on its way: the restore, a task, a probe or the
\* monitor thread (parse_spbin_buffer, reap_probes, spbin_requeue_recovered).
THEOREM NoDirectoryIsForgotten == Spec => []NothingForgotten
<1>1. WatchInv => NothingForgotten
  BY DEF WatchInv, AllKept, Excused, NothingForgotten, Ended
<1>2. QED
  BY <1>1, WatchInitInvariant, WatchStepInvariant, PTL DEF Spec
=============================================================================
