--------------------------- MODULE SessionProofs ---------------------------
(***************************************************************************)
(* Theorems about the progress files, for every tree, any number of runs   *)
(* with any command lines on the same files, and a kill between any two    *)
(* steps: no run lists a path twice, no file of an earlier run hides a     *)
(* path that no batch has listed, --clean leaves no file that it reaches,  *)
(* the targets of two runs are kept apart, a run that starts afresh lists  *)
(* its whole target, and at every moment of a rotation the files hold the  *)
(* listing.                                                                *)
(***************************************************************************)
EXTENDS Session, SumProofs

\* The names of the tree.
Names == UNION {Range(Entries[d]) : d \in Dirs}

-----------------------------------------------------------------------------
(* Sequences and what is in them. *)

LEMMA AppendHas ==
  ASSUME NEW S, NEW s \in Seq(S), NEW x \in S
  PROVE  /\ Append(s, x) \in Seq(S)
         /\ Range(Append(s, x)) = Range(s) \cup {x}
         /\ IsInjective(s) /\ x \notin Range(s) => IsInjective(Append(s, x))
<1>1. /\ Append(s, x) \in Seq(S) /\ Len(s) \in Nat
      /\ DOMAIN s = 1 .. Len(s) /\ DOMAIN Append(s, x) = 1 .. Len(s) + 1
      /\ \A i \in 1 .. Len(s) : Append(s, x)[i] = s[i]
      /\ Append(s, x)[Len(s) + 1] = x
  BY AppendProperties, LenProperties
<1>2. PICK n \in Nat : n = Len(s)
  BY <1>1
<1>t. PICK t : t = Append(s, x)
  OBVIOUS
<1>3. /\ DOMAIN s = 1 .. n /\ DOMAIN t = 1 .. n + 1
      /\ \A i \in 1 .. n : t[i] = s[i]
      /\ t[n + 1] = x
  BY <1>1, <1>2, <1>t
<1>4. \A i \in 1 .. n + 1 : i = n + 1 \/ i \in 1 .. n
  OBVIOUS
<1>5. n + 1 \in 1 .. n + 1 /\ \A i \in 1 .. n : i \in 1 .. n + 1
  OBVIOUS
<1>6. Range(t) = Range(s) \cup {x}
  BY <1>3, <1>4, <1>5 DEF Range
<1>7. ASSUME IsInjective(s), x \notin Range(s) PROVE IsInjective(t)
  BY <1>3, <1>4, <1>7 DEF Range, IsInjective
<1>8. QED
  BY <1>1, <1>t, <1>6, <1>7

LEMMA TailHas ==
  ASSUME NEW S, NEW s \in Seq(S), s # <<>>
  PROVE  /\ Head(s) \in S /\ Tail(s) \in Seq(S)
         /\ Range(s) = {Head(s)} \cup Range(Tail(s))
         /\ IsInjective(s) => IsInjective(Tail(s)) /\ Head(s) \notin Range(Tail(s))
<1>1. /\ Head(s) \in S /\ Tail(s) \in Seq(S) /\ Len(s) \in Nat /\ Len(s) # 0
      /\ DOMAIN s = 1 .. Len(s) /\ DOMAIN Tail(s) = 1 .. Len(s) - 1
      /\ \A i \in 1 .. Len(s) - 1 : Tail(s)[i] = s[i + 1]
      /\ s[1] = Head(s)
  <2>1. Len(s) \in Nat \ {0} /\ DOMAIN s = 1 .. Len(s)
    BY EmptySeq, LenProperties
  <2>2. /\ Head(s) \in S /\ Tail(s) \in Seq(S) /\ Len(Tail(s)) = Len(s) - 1
        /\ \A i \in 1 .. Len(Tail(s)) : Tail(s)[i] = s[i + 1]
    BY HeadTailProperties
  <2>3. DOMAIN Tail(s) = 1 .. Len(Tail(s))
    BY <2>2, LenProperties
  <2>4. s[1] = Head(s)
    OBVIOUS
  <2>5. QED
    BY <2>1, <2>2, <2>3, <2>4
<1>2. PICK n \in Nat : n = Len(s) - 1
  <2>1. Len(s) \in Nat \ {0}
    BY EmptySeq
  <2>2. QED
    BY <2>1
<1>t. PICK t : t = Tail(s)
  OBVIOUS
<1>h. PICK h : h = Head(s)
  OBVIOUS
<1>3. /\ DOMAIN s = 1 .. n + 1 /\ DOMAIN t = 1 .. n
      /\ \A i \in 1 .. n : t[i] = s[i + 1]
      /\ s[1] = h
  BY <1>1, <1>2, <1>t, <1>h
<1>4. \A i \in 1 .. n + 1 : i = 1 \/ (i - 1 \in 1 .. n /\ s[i] = t[i - 1])
  BY <1>3
<1>5. 1 \in 1 .. n + 1 /\ \A i \in 1 .. n : i + 1 \in 1 .. n + 1 /\ i + 1 # 1
  OBVIOUS
<1>6. Range(s) = {h} \cup Range(t)
  <2>1. \A y \in Range(s) : y = h \/ y \in Range(t)
    BY <1>3, <1>4 DEF Range
  <2>2. h \in Range(s)
    BY <1>3, <1>5 DEF Range
  <2>3. \A y \in Range(t) : y \in Range(s)
    BY <1>3, <1>5 DEF Range
  <2>4. QED
    BY <2>1, <2>2, <2>3
<1>7. ASSUME IsInjective(s) PROVE IsInjective(t) /\ h \notin Range(t)
  <2>1. \A i, j \in 1 .. n : t[i] = t[j] => i = j
    <3>1. \A i, j \in 1 .. n : t[i] = t[j] => i + 1 = j + 1
      BY <1>3, <1>5, <1>7 DEF IsInjective
    <3>2. QED
      BY <3>1
  <2>2. QED
    BY <1>3, <1>5, <1>7, <2>1 DEF Range, IsInjective
<1>8. QED
  BY <1>1, <1>t, <1>h, <1>6, <1>7

-----------------------------------------------------------------------------
(* The batch that visited_set lets through. *)

Keeps(kept, e, known, n) ==
  kept = [i \in 0 .. n |->
            IF i = 0 THEN <<>>
            ELSE IF e[i] \in known THEN kept[i - 1]
            ELSE Append(kept[i - 1], e[i])]

LEMMA KeepsExists ==
  ASSUME NEW e, NEW known
  PROVE  \A n \in Nat : \E kept : Keeps(kept, e, known, n)
<1> DEFINE T == {n \in Nat : \E kept : Keeps(kept, e, known, n)}
           next(kept, i) == IF e[i] \in known THEN kept[i - 1]
                            ELSE Append(kept[i - 1], e[i])
<1>1. 0 \in T
  <2>1. Keeps([i \in 0 .. 0 |-> <<>>], e, known, 0)
    BY DEF Keeps
  <2>2. QED
    BY <2>1
<1>2. ASSUME NEW n \in T PROVE n + 1 \in T
  <2>1. PICK kept : Keeps(kept, e, known, n)
    OBVIOUS
  <2>2. PICK new : new = [i \in 0 .. n + 1 |-> IF i = 0 THEN <<>> ELSE next(kept, i)]
    OBVIOUS
  <2>3. kept = [i \in 0 .. n |-> IF i = 0 THEN <<>> ELSE next(kept, i)]
    BY <2>1 DEF Keeps
  <2>4. \A i \in 0 .. n : new[i] = kept[i]
    <3> HIDE DEF next
    <3>1. \A i \in 0 .. n : i \in 0 .. n + 1
      OBVIOUS
    <3>2. QED
      BY <2>2, <2>3, <3>1
  <2>5. \A i \in 0 .. n + 1 : i # 0 => next(new, i) = next(kept, i)
    <3>1. \A i \in 0 .. n + 1 : i # 0 => i - 1 \in 0 .. n
      OBVIOUS
    <3>2. QED
      BY <2>4, <3>1
  <2>6. new = [i \in 0 .. n + 1 |-> IF i = 0 THEN <<>> ELSE next(new, i)]
    <3> HIDE DEF next
    <3>1. QED
      BY <2>2, <2>5
  <2>7. Keeps(new, e, known, n + 1)
    BY <2>6 DEF Keeps
  <2>8. QED
    BY <2>7
<1>3. \A n \in Nat : n \in T
  <2> HIDE DEF T
  <2>1. ASSUME NEW m \in Nat, \A k \in Nat : k < m => k \in T PROVE m \in T
    <3>1. m # 0 => m - 1 \in Nat /\ m - 1 < m /\ (m - 1) + 1 = m
      OBVIOUS
    <3>2. QED
      BY <1>1, <1>2, <2>1, <3>1
  <2>2. QED
    BY <2>1, NumbersUpTo
<1>4. QED
  BY <1>3

\* What the loop has kept after i entries.
KeptSoFar(S, kept, e, known, i) ==
  /\ kept[i] \in Seq(S) /\ IsInjective(kept[i])
  /\ Range(kept[i]) = {e[j] : j \in 1 .. i} \ known

\* So far the loop keeps what was unknown, once each.
LEMMA KeepsUnknown ==
  ASSUME NEW S, NEW e \in Seq(S), IsInjective(e), NEW known,
         NEW kept, Keeps(kept, e, known, Len(e))
  PROVE  KeptSoFar(S, kept, e, known, Len(e))
<1> DEFINE P(i) == /\ kept[i] \in Seq(S) /\ IsInjective(kept[i])
                   /\ Range(kept[i]) = {e[j] : j \in 1 .. i} \ known
           T == {i \in Nat : i \in 0 .. Len(e) => P(i)}
<1>1. Len(e) \in Nat /\ DOMAIN e = 1 .. Len(e) /\ \A i \in 1 .. Len(e) : e[i] \in S
  BY LenProperties, ElementOfSeq
<1>2. /\ kept[0] = <<>>
      /\ \A i \in 1 .. Len(e) : kept[i] = IF e[i] \in known THEN kept[i - 1]
                                          ELSE Append(kept[i - 1], e[i])
  <2>1. PICK n \in Nat : n = Len(e)
    BY <1>1
  <2>2. 0 \in 0 .. n /\ \A i \in 1 .. n : i \in 0 .. n /\ i # 0
    BY <2>1
  <2>3. QED
    BY <2>1, <2>2 DEF Keeps
<1>3. P(0)
  BY <1>2, EmptySeq DEF IsInjective, Range
<1>4. ASSUME NEW i \in 1 .. Len(e), P(i - 1) PROVE P(i)
  <2>1. PICK k : k = kept[i - 1]
    OBVIOUS
  <2>2. k \in Seq(S) /\ IsInjective(k) /\ Range(k) = {e[j] : j \in 1 .. i - 1} \ known
    BY <1>4, <2>1
  <2>3. {e[j] : j \in 1 .. i} = {e[j] : j \in 1 .. i - 1} \cup {e[i]}
    <3>1. \A j \in 1 .. i : j \in 1 .. i - 1 \/ j = i
      BY <1>1
    <3>2. \A j \in 1 .. i - 1 : j \in 1 .. i
      BY <1>1
    <3>3. i \in 1 .. i
      BY <1>1
    <3>4. QED
      BY <3>1, <3>2, <3>3
  <2>4. CASE e[i] \in known
    BY <1>2, <2>1, <2>2, <2>3, <2>4
  <2>5. CASE e[i] \notin known
    <3>1. kept[i] = Append(k, e[i])
      BY <1>2, <2>1, <2>5
    <3>2. e[i] \notin {e[j] : j \in 1 .. i - 1}
      <4>1. \A j \in 1 .. i - 1 : j \in DOMAIN e /\ j # i
        BY <1>1
      <4>2. i \in DOMAIN e
        BY <1>1
      <4>3. QED
        BY <4>1, <4>2 DEF IsInjective
    <3>3. e[i] \in S /\ e[i] \notin Range(k)
      BY <1>1, <2>2, <3>2
    <3>4. /\ Append(k, e[i]) \in Seq(S) /\ IsInjective(Append(k, e[i]))
          /\ Range(Append(k, e[i])) = Range(k) \cup {e[i]}
      BY <2>2, <3>3, AppendHas
    <3>5. QED
      BY <2>2, <2>3, <2>5, <3>1, <3>4
  <2>6. QED
    BY <2>4, <2>5
<1>5. \A i \in Nat : i \in T
  <2>1. ASSUME NEW m \in Nat, \A k \in Nat : k < m => k \in T PROVE m \in T
    <3>1. SUFFICES ASSUME m \in 0 .. Len(e) PROVE P(m)
      OBVIOUS
    <3>2. CASE m = 0
      BY <1>3, <3>2
    <3>3. CASE m # 0
      <4>1. m \in 1 .. Len(e) /\ m - 1 \in Nat /\ m - 1 < m /\ m - 1 \in 0 .. Len(e)
        BY <1>1, <3>1, <3>3
      <4>2. P(m - 1)
        BY <2>1, <4>1
      <4>3. QED
        BY <1>4, <4>1, <4>2
    <3>4. QED
      BY <3>2, <3>3
  <2> HIDE DEF T
  <2>2. QED
    BY <2>1, NumbersUpTo
<1>6. P(Len(e))
  <2> HIDE DEF P
  <2>1. Len(e) \in Nat /\ Len(e) \in 0 .. Len(e)
    BY <1>1
  <2>2. QED
    BY <1>5, <2>1
<1>7. QED
  BY <1>6 DEF KeptSoFar

\* A batch that was just deduplicated has new paths only, once each, and all of them.
LEMMA FreshWorks ==
  ASSUME NEW d \in Dirs
  PROVE  /\ Fresh(d) \in Seq(Names) /\ IsInjective(Fresh(d))
         /\ Range(Fresh(d)) = Range(Entries[d]) \ visited
<1> DEFINE e == Entries[d]
           kept == CHOOSE kept : Keeps(kept, e, visited, Len(e))
<1>1. e \in Seq(Names) /\ IsInjective(e)
  <2>1. e \in Seq(Range(e)) /\ IsInjective(e)
    BY EntriesAssumption DEF Dirs
  <2>2. Range(e) \subseteq Names
    BY DEF Names
  <2>3. QED
    BY <2>1, <2>2, SeqMonotonic
<1>2. Len(e) \in Nat /\ DOMAIN e = 1 .. Len(e)
  BY <1>1, LenProperties
<1>3. Keeps(kept, e, visited, Len(e))
  BY <1>2, KeepsExists
<1>4. Fresh(d) = kept[Len(e)]
  BY DEF Fresh, Keeps
<1>5. Range(e) = {e[j] : j \in 1 .. Len(e)}
  BY <1>2 DEF Range
<1>6. QED
  <2> HIDE DEF e, kept
  <2>1. KeptSoFar(Names, kept, e, visited, Len(e))
    BY <1>1, <1>3, KeepsUnknown
  <2>2. QED
    BY <1>4, <1>5, <2>1 DEF e, KeptSoFar

-----------------------------------------------------------------------------
(* What a run lists. *)

\* What the main thread does before the scan.
Before ==
  {"off", "load", "wipe-index", "wipe-slices", "wipe-archive", "wipe-config",
   "wipe-fpbin", "confirm", "save", "write", "begin"}

\* Where it may be with a batch half done.
InBatchPlaces ==
  {"batch", "flush", "seal", "retire", "unlink", "reopen", "index", "end", "fpseal",
   "fpindex"}

ListTypes ==
  /\ out \in Seq(Names)
  /\ DOMAIN scan = {"todo", "ready", "rest", "sent"} /\ scan.rest \in Seq(Names)

\* What a run lists is in visited_set, and so is what it is about to list, which
\* has not been listed before.  The rest of a batch is there only while it is
\* worked on.
OnceInv ==
  /\ ListTypes
  /\ IsInjective(out) /\ IsInjective(scan.rest)
  /\ Range(out) \cap Range(scan.rest) = {}
  /\ mpc \notin Before => Range(out) \cup Range(scan.rest) \subseteq visited
  /\ mpc \in Before \ {"off"} => out = <<>>
  /\ scan.rest # <<>> => mpc \in InBatchPlaces

\* The main thread goes on without a batch.
LEMMA OnceFrame ==
  ASSUME OnceInv, out' = out, scan'.rest = scan.rest, DOMAIN scan' = DOMAIN scan,
         visited \subseteq visited',
         mpc' \notin Before => mpc \notin Before,
         mpc' \in Before \ {"off"} => mpc \in Before \ {"off"},
         mpc \in InBatchPlaces /\ scan.rest # <<>> => mpc' \in InBatchPlaces
  PROVE  OnceInv'
BY DEF OnceInv, ListTypes

LEMMA NothingListed ==
  <<>> \in Seq(Names) /\ IsInjective(<<>>) /\ Range(<<>>) = {}
<1>1. <<>> \in Seq(Names) /\ DOMAIN <<>> = {}
  BY EmptySeq
<1>2. QED
  BY <1>1 DEF IsInjective, Range

\* A process that is gone works on no batch.
LEMMA OnceGone ==
  ASSUME OnceInv, Gone
  PROVE  OnceInv'
BY NothingListed DEF OnceInv, ListTypes, Gone, NoScan, Before

LEMMA OnceOpening ==
  ASSUME OnceInv, Opening
  PROVE  OnceInv'
<1>1. CASE Begin
  <2>1. out' = out /\ mpc = "begin" /\ scan' = [NoScan EXCEPT !.todo = {cfg.path}]
    BY <1>1 DEF Begin
  <2>2. scan'.rest = <<>> /\ DOMAIN scan' = {"todo", "ready", "rest", "sent"}
    BY <2>1 DEF NoScan
  <2>3. out = <<>> /\ mpc' \in {"promote", "drain"}
    BY <1>1, <2>1 DEF OnceInv, Before, Begin, Restore, Afresh
  <2>4. QED
    BY <2>1, <2>2, <2>3, NothingListed DEF OnceInv, ListTypes, Before
<1>2. CASE \E here, next \in Before \ {"off"} : At(here, next)
  <2>1. UNCHANGED <<out, scan, visited>> /\ mpc \in Before \ {"off"} /\ mpc' \in Before \ {"off"}
    BY <1>2 DEF At, unscanned
  <2>2. mpc \notin InBatchPlaces
    BY <2>1 DEF Before, InBatchPlaces
  <2>3. QED
    BY <2>1, <2>2, OnceFrame
<1>3. Begin \/ \E here, next \in Before \ {"off"} : At(here, next)
  BY DEF Opening, WipeIndex, WipeSlice, WipeArchive, WipeConfig, WipeFpbin, LoadConfig,
         Confirm, Truncate, WriteConfig, Before
<1>4. QED
  BY <1>1, <1>2, <1>3

LEMMA OnceLaunch ==
  ASSUME OnceInv, NEW launch \in Launches, Launch(launch)
  PROVE  OnceInv'
<1>1. /\ out' = <<>> /\ scan' = scan /\ mpc = "off" /\ mpc' \in {"wipe-index", "load"}
  BY DEF Launch, unscanned
<1>2. scan.rest = <<>>
  BY <1>1 DEF OnceInv, InBatchPlaces
<1>3. QED
  BY <1>1, <1>2, NothingListed DEF OnceInv, ListTypes, Before

\* A batch, and the entries of one.
LEMMA OnceTake ==
  ASSUME OnceInv, NEW d \in Dirs, TakeBatch(d), UNCHANGED history
  PROVE  OnceInv'
<1>1. /\ mpc = "drain" /\ mpc' = "batch" /\ out' = out
      /\ scan' = [scan EXCEPT !.ready = @ \ {d}, !.rest = Fresh(d)]
      /\ visited' = visited \cup Range(Entries[d])
  BY DEF TakeBatch
<1>2. scan'.rest = Fresh(d) /\ DOMAIN scan' = DOMAIN scan
  BY <1>1 DEF OnceInv, ListTypes
<1>3. Range(out) \subseteq visited
  BY <1>1 DEF OnceInv, Before
<1>4. QED
  BY <1>1, <1>2, <1>3, FreshWorks DEF OnceInv, ListTypes, Before, InBatchPlaces

\* The next entry leaves the batch.
LEMMA RestWorks ==
  ASSUME OnceInv, InBatch
  PROVE  /\ NextEntry \in Names /\ NextEntry \in visited /\ NextEntry \notin Range(out)
         /\ Tail(scan.rest) \in Seq(Names) /\ IsInjective(Tail(scan.rest))
         /\ Range(scan.rest) = {NextEntry} \cup Range(Tail(scan.rest))
         /\ NextEntry \notin Range(Tail(scan.rest))
         /\ Rest.rest = Tail(scan.rest) /\ DOMAIN Rest = DOMAIN scan
<1>1. scan.rest \in Seq(Names) /\ scan.rest # <<>> /\ IsInjective(scan.rest)
  BY DEF OnceInv, ListTypes, InBatch
<1>2. /\ NextEntry \in Names
      /\ Tail(scan.rest) \in Seq(Names) /\ IsInjective(Tail(scan.rest))
      /\ Range(scan.rest) = {NextEntry} \cup Range(Tail(scan.rest))
      /\ NextEntry \notin Range(Tail(scan.rest))
  BY <1>1, TailHas DEF NextEntry
<1>3. Rest.rest = Tail(scan.rest) /\ DOMAIN Rest = DOMAIN scan
  BY DEF Rest, OnceInv, ListTypes
<1>4. NextEntry \in visited /\ NextEntry \notin Range(out)
  BY <1>2 DEF OnceInv, InBatch, Before
<1>5. QED
  BY <1>2, <1>3, <1>4

LEMMA OnceEntry ==
  ASSUME OnceInv, InBatch, scan'.rest = Tail(scan.rest), DOMAIN scan' = DOMAIN scan,
         out' = out \/ out' = Append(out, NextEntry),
         visited' = visited, mpc' \in {"batch", "fpseal"}
  PROVE  OnceInv'
<1>1. /\ NextEntry \in Names /\ NextEntry \in visited /\ NextEntry \notin Range(out)
      /\ Tail(scan.rest) \in Seq(Names) /\ IsInjective(Tail(scan.rest))
      /\ Range(scan.rest) = {NextEntry} \cup Range(Tail(scan.rest))
      /\ NextEntry \notin Range(Tail(scan.rest))
  BY RestWorks
<1>2. /\ out' \in Seq(Names) /\ IsInjective(out')
      /\ Range(out') \subseteq Range(out) \cup {NextEntry}
  <2>1. out \in Seq(Names) /\ IsInjective(out)
    BY DEF OnceInv, ListTypes
  <2>2. /\ Append(out, NextEntry) \in Seq(Names) /\ IsInjective(Append(out, NextEntry))
        /\ Range(Append(out, NextEntry)) = Range(out) \cup {NextEntry}
    BY <1>1, <2>1, AppendHas
  <2>3. QED
    BY <2>1, <2>2
<1>3. /\ Range(out) \cap Range(scan.rest) = {}
      /\ Range(out) \cup Range(scan.rest) \subseteq visited
      /\ DOMAIN scan = {"todo", "ready", "rest", "sent"}
  BY DEF OnceInv, ListTypes, InBatch, Before
<1>4. QED
  BY <1>1, <1>2, <1>3 DEF OnceInv, ListTypes, Before, InBatchPlaces

LEMMA OnceBatch ==
  ASSUME OnceInv, Batch \/ ListOnly \/ Loop, UNCHANGED history
  PROVE  OnceInv'
<1>1. CASE \E d \in Dirs : TakeBatch(d)
  BY <1>1, OnceTake
<1>2. CASE DirKept \/ DirWaits \/ Recorded \/ Listed
  <2>1. InBatch /\ visited' = visited /\ mpc' \in {"batch", "fpseal"}
    BY <1>2 DEF DirKept, DirWaits, Recorded, Listed, InBatch, FpAppend, FpKeep, FpSpill
  <2>2. /\ out' = out \/ out' = Append(out, NextEntry)
        /\ scan'.rest = Rest.rest /\ DOMAIN scan' = DOMAIN Rest
    <3>1. DOMAIN Rest = {"todo", "ready", "rest", "sent"}
      BY <2>1, RestWorks DEF OnceInv, ListTypes
    <3>2. QED
      BY <1>2, <3>1 DEF DirKept, DirWaits, Recorded, Listed
  <2>3. QED
    BY <2>1, <2>2, RestWorks, OnceEntry
<1>3. CASE BatchFull \/ BatchEnd \/ ((FpSeal \/ FpIndex) /\ UNCHANGED <<scan, out, visited>>)
           \/ Loop
  <2>1. /\ out' = out /\ scan'.rest = scan.rest /\ DOMAIN scan' = DOMAIN scan
        /\ visited' = visited
    BY <1>3 DEF BatchFull, BatchEnd, Loop, DrainEnd, Check, OnceInv, ListTypes
  <2>2. /\ mpc \notin Before /\ mpc' \notin Before
        /\ mpc \in InBatchPlaces /\ scan.rest # <<>> => mpc' \in InBatchPlaces
    BY <1>3 DEF BatchFull, BatchEnd, FpSeal, FpIndex, Loop, DrainEnd, Check, InBatch,
                Before, InBatchPlaces
  <2>3. QED
    BY <2>1, <2>2, OnceFrame
<1>4. QED
  BY <1>1, <1>2, <1>3 DEF Batch, ListOnly

\* The progress files, and stdio.
LEMMA OnceFiles ==
  ASSUME OnceInv,
         \/ (FinishClean \/ Store) /\ UNCHANGED <<visited, fpb, promo, run, handed, waited>>
         \/ Pump
         \/ Stdio
         \/ \E d \in Dirs : ScanDone(d)
  PROVE  OnceInv'
<1>1. /\ out' = out /\ scan'.rest = scan.rest /\ DOMAIN scan' = DOMAIN scan
      /\ visited \subseteq visited'
  BY DEF FinishClean, Store, Pump, PumpEnd, PumpRow, PumpNext, PromoteSeal, Rename, Verify,
         Cleanup, Adopt, Stdio, ScanDone, OnceInv, ListTypes
<1>2. \/ mpc' = mpc
      \/ /\ mpc \notin Before /\ mpc' \notin Before
         /\ mpc \in InBatchPlaces /\ scan.rest # <<>> => mpc' \in InBatchPlaces
  <2>1. CASE FinishClean \/ Store
    BY <2>1 DEF FinishClean, Store, OpenSlice, RecordRow, FlushEnd, Seal, Retire, Unlink,
                Reopen, UpdateIndex, FinalStep, AfterSeal, Before, InBatchPlaces
  <2>2. CASE Pump
    BY <2>2 DEF Pump, PumpEnd, PumpRow, PumpNext, PromoteSeal, Rename, Verify, Cleanup,
                Adopt, Before, InBatchPlaces
  <2>3. CASE Stdio \/ \E d \in Dirs : ScanDone(d)
    BY <2>3 DEF Stdio, WriteBack, FpWriteBack, ScanDone
  <2>4. QED
    BY <2>1, <2>2, <2>3
<1>3. QED
  BY <1>1, <1>2, OnceFrame

LEMMA OnceStep == OnceInv /\ [SessionNext]_sessionVars => OnceInv'
<1> SUFFICES ASSUME OnceInv, [SessionNext]_sessionVars PROVE OnceInv'
  OBVIOUS
<1>1. CASE \E launch \in Launches : Launch(launch)
  BY <1>1, OnceLaunch
<1>2. CASE Opening
  BY <1>2, OnceOpening
<1>3. CASE Scanning
  BY <1>3, OnceFiles, OnceBatch DEF Scanning
<1>4. CASE Finish \/ Leave \/ Kill
  BY <1>4, OnceGone DEF Finish, Leave, Kill, Crash
<1>5. CASE Background
  BY <1>5, OnceFiles DEF Background
<1>6. CASE UNCHANGED sessionVars
  BY <1>6, OnceFrame DEF sessionVars, vars
<1>7. QED
  BY <1>1, <1>2, <1>3, <1>4, <1>5, <1>6 DEF SessionNext

LEMMA OnceInit == SessionInit => OnceInv
BY NothingListed DEF SessionInit, Init, NoScan, OnceInv, ListTypes, Before

\* No run lists a path twice, whatever it resumed from and however many runs before
\* it were killed.
THEOREM ListedOnce == SessionSpec => []ListedOncePerRun
<1>1. OnceInv => ListedOncePerRun
  BY DEF OnceInv, ListedOncePerRun
<1>2. QED
  BY <1>1, OnceInit, OnceStep, PTL DEF SessionSpec

-----------------------------------------------------------------------------
(* What is in the files. *)

FileOf(S) == [rows : Seq(S), sealed : BOOLEAN]
Numbers == {D \in SUBSET Nat : IsFiniteSet(D)}
FilesOf(S) == UNION {[D -> FileOf(S)] : D \in Numbers}
Position == [index : Nat, lines : Nat]
DiskOf(S) ==
  [slices : FilesOf(S), fp : FilesOf(S), archive : Seq(Seq(S) \cup {Torn}),
   idx : Position \cup {NoIndex}, fpidx : Position \cup {NoIndex}]
WriterOf(S) == [index : Nat, lines : Nat, open : BOOLEAN, buf : Seq(S)]
PumpOf(S) ==
  [state : {"OLD", "NEW", "DONE"}, slice : Nat, pos : Nat, open : BOOLEAN,
   rows : Seq(S), cut : BOOLEAN]
FpOf(S) == [index : Nat, lines : Nat, open : BOOLEAN, mem : Seq(S), buf : Seq(S)]

\* The rows in files, in the buffers of stdio and in memory.
StoredOf(S) ==
  /\ disk \in DiskOf(S) /\ w \in WriterOf(S) /\ recBatch \in Seq(S)
  /\ pump \in PumpOf(S) /\ fpb \in FpOf(S)
  /\ promo \in [start : Nat, next : Nat]

LEMMA FilesHave ==
  ASSUME NEW S, NEW f \in FilesOf(S)
  PROVE  /\ DOMAIN f \in SUBSET Nat /\ IsFiniteSet(DOMAIN f)
         /\ \A i \in DOMAIN f : f[i] \in FileOf(S)
BY DEF FilesOf, Numbers

LEMMA FilesAre ==
  ASSUME NEW S, NEW f, NEW D \in SUBSET Nat, IsFiniteSet(D), f \in [D -> FileOf(S)]
  PROVE  f \in FilesOf(S)
BY DEF FilesOf, Numbers

LEMMA PutHas ==
  ASSUME NEW S, NEW f \in FilesOf(S), NEW i \in Nat, NEW file \in FileOf(S)
  PROVE  Put(f, i, file) \in FilesOf(S) /\ DOMAIN Put(f, i, file) = {i} \cup DOMAIN f
<1>1. PICK D : D = DOMAIN f
  OBVIOUS
<1>2. PICK E : E = {i} \cup D
  OBVIOUS
<1>3. D \in SUBSET Nat /\ IsFiniteSet(D) /\ \A j \in D : f[j] \in FileOf(S)
  BY <1>1, FilesHave
<1>4. E \in SUBSET Nat /\ IsFiniteSet(E)
  BY <1>2, <1>3, FS_AddElement
<1>5. Put(f, i, file) = [j \in E |-> IF j = i THEN file ELSE f[j]]
  BY <1>1, <1>2 DEF Put
<1>6. Put(f, i, file) \in [E -> FileOf(S)]
  BY <1>2, <1>3, <1>5
<1>7. QED
  BY <1>1, <1>2, <1>4, <1>5, <1>6, FilesAre

LEMMA CutHas ==
  ASSUME NEW S, NEW f \in FilesOf(S), NEW E \in SUBSET DOMAIN f
  PROVE  Restrict(f, E) \in FilesOf(S) /\ DOMAIN Restrict(f, E) = E
<1>1. PICK D : D = DOMAIN f
  OBVIOUS
<1>2. D \in SUBSET Nat /\ IsFiniteSet(D) /\ \A j \in D : f[j] \in FileOf(S)
  BY <1>1, FilesHave
<1>3. E \in SUBSET Nat /\ IsFiniteSet(E)
  BY <1>1, <1>2, FS_Subset
<1>4. Restrict(f, E) \in [E -> FileOf(S)]
  BY <1>1, <1>2 DEF Restrict
<1>5. QED
  BY <1>3, <1>4, FilesAre DEF Restrict

LEMMA NoFilesHave == \A S : NoFiles \in FilesOf(S)
<1>1. SUFFICES ASSUME NEW S PROVE NoFiles \in FilesOf(S)
  OBVIOUS
<1>2. NoFiles \in [{} -> FileOf(S)]
  BY DEF NoFiles
<1>3. QED
  BY <1>2, FS_EmptySet, FilesAre

\* A file with these rows.
LEMMA FileHas ==
  ASSUME NEW S, NEW rows \in Seq(S), NEW sealed \in BOOLEAN
  PROVE  File(rows, sealed) \in FileOf(S)
BY DEF File, FileOf

\* The changes of the files.
LEMMA SlicePut ==
  ASSUME NEW S, NEW d \in DiskOf(S), NEW i \in Nat, NEW file \in FileOf(S)
  PROVE  /\ WithSlice(d, i, file) \in DiskOf(S)
         /\ DOMAIN WithSlice(d, i, file).slices = {i} \cup DOMAIN d.slices
         /\ WithSlice(d, i, file).fp = d.fp
<1>1. d.slices \in FilesOf(S)
  BY DEF DiskOf
<1>2. /\ Put(d.slices, i, file) \in FilesOf(S)
      /\ DOMAIN Put(d.slices, i, file) = {i} \cup DOMAIN d.slices
  BY <1>1, PutHas
<1>3. QED
  BY <1>2 DEF DiskOf, WithSlice

LEMMA FpPut ==
  ASSUME NEW S, NEW d \in DiskOf(S), NEW i \in Nat, NEW file \in FileOf(S)
  PROVE  /\ WithFp(d, i, file) \in DiskOf(S)
         /\ DOMAIN WithFp(d, i, file).fp = {i} \cup DOMAIN d.fp
         /\ WithFp(d, i, file).slices = d.slices
<1>1. d.fp \in FilesOf(S)
  BY DEF DiskOf
<1>2. /\ Put(d.fp, i, file) \in FilesOf(S)
      /\ DOMAIN Put(d.fp, i, file) = {i} \cup DOMAIN d.fp
  BY <1>1, PutHas
<1>3. QED
  BY <1>2 DEF DiskOf, WithFp

LEMMA DiskCuts ==
  ASSUME NEW S, NEW d \in DiskOf(S), NEW i
  PROVE  /\ WithoutSlice(d, i) \in DiskOf(S) /\ WithoutSlice(d, i).fp = d.fp
         /\ [d EXCEPT !.fp = Restrict(@, DOMAIN @ \ {i})] \in DiskOf(S)
         /\ [d EXCEPT !.fp = Restrict(@, DOMAIN @ \ {i})].slices = d.slices
         /\ \A n : WithoutFp(d, n) \in DiskOf(S) /\ WithoutFp(d, n).slices = d.slices
<1>1. d.slices \in FilesOf(S) /\ d.fp \in FilesOf(S)
  BY DEF DiskOf
<1>2. /\ Restrict(d.slices, DOMAIN d.slices \ {i}) \in FilesOf(S)
      /\ Restrict(d.fp, DOMAIN d.fp \ {i}) \in FilesOf(S)
      /\ \A n : Restrict(d.fp, {j \in DOMAIN d.fp : j >= n}) \in FilesOf(S)
  BY <1>1, CutHas
<1>3. QED
  BY <1>2 DEF DiskOf, WithoutSlice, WithoutFp

\* Rows that are in a file are in a larger set.
LEMMA FilesGrow ==
  ASSUME NEW S, NEW T, S \subseteq T
  PROVE  FilesOf(S) \subseteq FilesOf(T) /\ Seq(S) \subseteq Seq(T)
<1>1. Seq(S) \subseteq Seq(T)
  BY SeqMonotonic
<1>2. FileOf(S) \subseteq FileOf(T)
  BY <1>1 DEF FileOf
<1>3. ASSUME NEW f \in FilesOf(S) PROVE f \in FilesOf(T)
  <2>1. PICK D \in Numbers : f \in [D -> FileOf(S)]
    BY <1>3 DEF FilesOf
  <2>2. f \in [D -> FileOf(T)]
    BY <1>2, <2>1
  <2>3. QED
    BY <2>2 DEF FilesOf
<1>4. QED
  BY <1>1, <1>3

LEMMA StoredGrows ==
  ASSUME NEW S, NEW T, S \subseteq T, StoredOf(S)
  PROVE  StoredOf(T)
<1>1. FilesOf(S) \subseteq FilesOf(T) /\ Seq(S) \subseteq Seq(T)
  BY FilesGrow
<1>2. Seq(Seq(S) \cup {Torn}) \subseteq Seq(Seq(T) \cup {Torn})
  <2>1. Seq(S) \cup {Torn} \subseteq Seq(T) \cup {Torn}
    BY <1>1
  <2>2. QED
    BY <2>1, SeqMonotonic
<1>3. disk \in DiskOf(T)
  BY <1>1, <1>2 DEF StoredOf, DiskOf
<1>4. QED
  BY <1>1, <1>3 DEF StoredOf, WriterOf, PumpOf, FpOf

\* A finite set of numbers has a largest one.
LEMMA LargestNumber ==
  ASSUME NEW D \in SUBSET Nat, IsFiniteSet(D), D # {}
  PROVE  Max(D) \in D
<1> DEFINE T == {B \in SUBSET D : B # {} => \E m \in B : \A y \in B : y <= m}
<1>1. {} \in T
  OBVIOUS
<1>2. ASSUME NEW B \in SUBSET D, B # {}, B \ {CHOOSE x \in B : TRUE} \in T PROVE B \in T
  <2>1. PICK x \in B : x = CHOOSE y \in B : TRUE
    BY <1>2
  <2>2. PICK C \in SUBSET D : C = B \ {x}
    BY <2>1
  <2>3. C \in T /\ B = C \cup {x} /\ x \in Nat
    BY <1>2, <2>1, <2>2
  <2>4. CASE C = {}
    BY <2>3, <2>4
  <2>5. CASE C # {}
    <3>1. PICK m \in C : \A y \in C : y <= m
      BY <2>3, <2>5
    <3>2. CASE x <= m
      <4>1. m \in B /\ \A y \in B : y <= m
        BY <2>3, <3>1, <3>2
      <4>2. QED
        BY <4>1
    <3>3. CASE ~(x <= m)
      <4>1. m \in Nat /\ m <= x /\ x <= x
        BY <2>3, <3>3
      <4>2. \A y \in C : y \in Nat /\ y <= x
        BY <2>3, <3>1, <4>1
      <4>3. x \in B /\ \A y \in B : y <= x
        BY <2>3, <4>1, <4>2
      <4>4. QED
        BY <4>3
    <3>4. QED
      BY <3>2, <3>3
  <2>6. QED
    BY <2>4, <2>5
<1>3. D \in T
  <2> HIDE DEF T
  <2>1. \A B \in SUBSET D : B \in T
    BY <1>1, <1>2, SubsetInduction
  <2>2. QED
    BY <2>1
<1>4. \E m \in D : \A y \in D : m >= y
  BY <1>3
<1>5. QED
  BY <1>4 DEF Max

LEMMA SmallestNumber ==
  ASSUME NEW D \in SUBSET Nat, D # {}
  PROVE  Min(D) \in D
BY LeastNumber DEF Min

-----------------------------------------------------------------------------
(* The main thread and the open files. *)

\* Where a slice is open, and where it is there.
WriterPlace ==
  /\ mpc \in Before => ~w.open
  /\ w.open => w.index \in DOMAIN disk.slices
  /\ mpc = "seal" => w.open
  /\ mpc \in {"retire", "unlink", "reopen"} => ~w.open
  /\ mpc \in {"retire", "unlink"} => w.index \in DOMAIN disk.slices

\* The same of the fpbin files and of the promotion.
FpPlace ==
  /\ mpc \in Before \cup {"rename", "cleanup"} => ~fpb.open
  /\ fpb.open => fpb.index \in DOMAIN disk.fp
  /\ fpb.mem # <<>> \/ mpc = "fpseal" => fpb.open
  /\ mpc \in {"cleanup", "adopt"} => promo.start \in DOMAIN disk.slices

FileInv(S) == StoredOf(S) /\ WriterPlace /\ FpPlace

\* The places that say something of the open files.
Marked ==
  Before \cup {"seal", "retire", "unlink", "reopen", "rename", "cleanup", "adopt", "fpseal"}

fileVars == <<disk, w, recBatch, pump, fpb, promo>>

LEMMA FileFrame ==
  ASSUME NEW S, FileInv(S), UNCHANGED fileVars,
         \/ mpc' = mpc \/ mpc' \notin Marked
         \/ (mpc \in Before /\ mpc' \in Before)
         \/ (mpc' = "seal" /\ w.open)
  PROVE  FileInv(S)'
BY DEF FileInv, StoredOf, WriterPlace, FpPlace, Marked, Before, fileVars

\* The row buffers of a state.
LEMMA SliceRows ==
  ASSUME NEW S, StoredOf(S)
  PROVE  /\ DOMAIN disk.slices \in SUBSET Nat /\ IsFiniteSet(DOMAIN disk.slices)
         /\ \A i \in DOMAIN disk.slices : /\ disk.slices[i] \in FileOf(S)
                                         /\ disk.slices[i].rows \in Seq(S)
         /\ \A i \in DOMAIN disk.fp : /\ disk.fp[i] \in FileOf(S)
                                     /\ disk.fp[i].rows \in Seq(S)
<1>1. disk.slices \in FilesOf(S) /\ disk.fp \in FilesOf(S)
  BY DEF StoredOf, DiskOf
<1>2. /\ DOMAIN disk.slices \in SUBSET Nat /\ IsFiniteSet(DOMAIN disk.slices)
      /\ \A i \in DOMAIN disk.slices : disk.slices[i] \in FileOf(S)
      /\ \A i \in DOMAIN disk.fp : disk.fp[i] \in FileOf(S)
  BY <1>1, FilesHave
<1>3. QED
  BY <1>2 DEF FileOf

\* The pump, when a slice is written or opened.
LEMMA PumpKept ==
  ASSUME NEW S, pump \in PumpOf(S), NEW i, NEW rows \in Seq(S), NEW cut \in BOOLEAN,
         PumpSees(i, rows, cut)
  PROVE  pump' \in PumpOf(S)
BY DEF PumpSees, PumpOf

LEMMA PumpOpens ==
  ASSUME NEW S, StoredOf(S), NEW i \in DOMAIN disk.slices, NEW pos \in Nat,
         NEW state \in {"OLD", "NEW", "DONE"}
  PROVE  PumpFrom(i, pos, state) \in PumpOf(S)
BY SliceRows DEF PumpFrom, PumpOf

LEMMA NoneHave ==
  ASSUME NEW S
  PROVE  /\ <<>> \in Seq(S) /\ NoPump \in PumpOf(S) /\ NoFp \in FpOf(S)
         /\ NoWriter \in WriterOf(S) /\ NewBatch \in Seq(S)
         /\ NoPromo \in [start : Nat, next : Nat]
<1>1. <<>> \in Seq(S)
  BY EmptySeq
<1>2. QED
  <2>1. NoPump \in PumpOf(S)
    BY <1>1 DEF NoPump, PumpOf
  <2>2. NoFp \in FpOf(S)
    BY <1>1 DEF NoFp, FpOf
  <2>3. NoWriter \in WriterOf(S)
    BY <1>1 DEF NoWriter, WriterOf
  <2>4. QED
    BY <1>1, <2>1, <2>2, <2>3 DEF NewBatch, NoPromo

-----------------------------------------------------------------------------
(* The main thread records: ProgressStore. *)

\* A slice is opened.
LEMMA FileOpens ==
  ASSUME NEW S, FileInv(S), NEW i \in Nat, OpenForWriting(i)
  PROVE  /\ disk' \in DiskOf(S) /\ pump' \in PumpOf(S)
         /\ DOMAIN disk'.slices = {i} \cup DOMAIN disk.slices /\ disk'.fp = disk.fp
<1>1. <<>> \in Seq(S) /\ disk \in DiskOf(S) /\ pump \in PumpOf(S)
  BY EmptySeq DEF FileInv, StoredOf
<1>2. PICK file \in FileOf(S) : file = File(<<>>, FALSE)
  BY <1>1, FileHas
<1>3. /\ disk' \in DiskOf(S)
      /\ DOMAIN disk'.slices = {i} \cup DOMAIN disk.slices /\ disk'.fp = disk.fp
  <2>1. disk' = WithSlice(disk, i, file)
    BY <1>2 DEF OpenForWriting
  <2>2. QED
    BY <1>1, <2>1, SlicePut
<1>4. (pump.pos > 0) \in BOOLEAN /\ PumpSees(i, <<>>, pump.pos > 0)
  BY DEF OpenForWriting
<1>5. pump' \in PumpOf(S)
  BY <1>1, <1>4, PumpKept
<1>6. QED
  BY <1>3, <1>5

\* The slice that is written gets other rows.
LEMMA SliceWritten ==
  ASSUME NEW S, FileInv(S), w.open, NEW rows \in Seq(S), NEW sealed \in BOOLEAN,
         disk' = WithSlice(disk, w.index, File(rows, sealed)),
         PumpSees(w.index, rows, FALSE)
  PROVE  /\ disk' \in DiskOf(S) /\ pump' \in PumpOf(S)
         /\ DOMAIN disk'.slices = DOMAIN disk.slices /\ disk'.fp = disk.fp
<1>1. /\ w.index \in Nat /\ w.index \in DOMAIN disk.slices
      /\ disk \in DiskOf(S) /\ pump \in PumpOf(S)
  BY DEF FileInv, StoredOf, WriterPlace, WriterOf
<1>2. PICK file \in FileOf(S) : file = File(rows, sealed)
  BY FileHas
<1>3. /\ disk' \in DiskOf(S)
      /\ DOMAIN disk'.slices = {w.index} \cup DOMAIN disk.slices /\ disk'.fp = disk.fp
  <2>1. PICK i \in Nat : i = w.index
    BY <1>1
  <2>2. disk' = WithSlice(disk, i, file)
    BY <1>2, <2>1
  <2>3. /\ WithSlice(disk, i, file) \in DiskOf(S)
        /\ DOMAIN WithSlice(disk, i, file).slices = {i} \cup DOMAIN disk.slices
        /\ WithSlice(disk, i, file).fp = disk.fp
    BY <1>1, SlicePut
  <2>4. QED
    BY <2>1, <2>2, <2>3
<1>4. pump' \in PumpOf(S)
  BY <1>1, PumpKept
<1>5. QED
  BY <1>1, <1>3, <1>4

LEMMA StoreKeepsFiles ==
  ASSUME NEW S, FileInv(S), FinishClean \/ Store, UNCHANGED <<fpb, promo>>
  PROVE  FileInv(S)'
<1>1. /\ disk \in DiskOf(S) /\ w \in WriterOf(S) /\ recBatch \in Seq(S)
      /\ pump \in PumpOf(S) /\ fpb \in FpOf(S) /\ promo \in [start : Nat, next : Nat]
  BY DEF FileInv, StoredOf
<1>2. recBatch # <<>> => Head(recBatch) \in S /\ Tail(recBatch) \in Seq(S)
  BY <1>1, TailHas
<1>3. w.index \in Nat /\ w.lines \in Nat /\ w.buf \in Seq(S) /\ w.index + 1 \in Nat
  BY <1>1 DEF WriterOf
<1>4. CASE OpenSlice
  <2>1. /\ disk' \in DiskOf(S) /\ pump' \in PumpOf(S)
        /\ DOMAIN disk'.slices = {w.index} \cup DOMAIN disk.slices /\ disk'.fp = disk.fp
    BY <1>3, <1>4, FileOpens DEF OpenSlice
  <2>2. w' \in WriterOf(S) /\ w'.index = w.index
    BY <1>1, <1>4 DEF OpenSlice, WriterOf
  <2>3. StoredOf(S)'
    BY <1>1, <1>4, <2>1, <2>2 DEF OpenSlice, StoredOf
  <2>4. QED
    BY <1>4, <2>1, <2>2, <2>3 DEF OpenSlice, FileInv, WriterPlace, FpPlace, Before
<1>5. CASE RecordRow
  <2>1. Append(w.buf, Head(recBatch)) \in Seq(S) /\ w.lines + 1 \in Nat
    BY <1>2, <1>3, <1>5, AppendProperties DEF RecordRow
  <2>2. w' \in WriterOf(S) /\ w'.index = w.index /\ w'.open = w.open
    BY <1>1, <1>5, <2>1 DEF RecordRow, WriterOf
  <2>3. recBatch' \in Seq(S)
    BY <1>1, <1>2, <1>5 DEF RecordRow
  <2>4. StoredOf(S)'
    BY <1>1, <1>5, <2>2, <2>3 DEF RecordRow, StoredOf
  <2>5. QED
    BY <1>5, <2>2, <2>4 DEF RecordRow, FileInv, WriterPlace, FpPlace, Before
<1>6. CASE FlushEnd
  <2>1. UNCHANGED fileVars
    BY <1>6 DEF FlushEnd, storeVars, fileVars
  <2>2. mpc' \notin Marked \/ (mpc' = "seal" /\ w.open)
    BY <1>6 DEF FlushEnd, FinalStep, Marked, Before
  <2>3. QED
    BY <2>1, <2>2, FileFrame
<1>7. CASE Seal
  <2>1. PICK rows \in Seq(S) : rows = disk.slices[w.index].rows \o w.buf
    <3>1. disk.slices[w.index].rows \in Seq(S)
      BY <1>7, SliceRows DEF Seal, FileInv, WriterPlace
    <3>2. QED
      BY <1>3, <3>1, ConcatProperties
  <2>2. w.open
    BY <1>7 DEF Seal, FileInv, WriterPlace
  <2>3. /\ disk' \in DiskOf(S) /\ pump' \in PumpOf(S)
        /\ DOMAIN disk'.slices = DOMAIN disk.slices /\ disk'.fp = disk.fp
    BY <1>7, <2>1, <2>2, SliceWritten DEF Seal
  <2>4. w' \in WriterOf(S) /\ w'.index = w.index /\ w'.open = FALSE
    BY <1>1, <1>7, EmptySeq DEF Seal, WriterOf
  <2>5. StoredOf(S)'
    BY <1>1, <1>7, <2>3, <2>4 DEF Seal, StoredOf
  <2>6. QED
    BY <1>7, <2>2, <2>3, <2>4, <2>5
       DEF Seal, AfterSeal, FileInv, WriterPlace, FpPlace, Before
<1>8. CASE Retire
  <2>1. w.index \in DOMAIN disk.slices
    BY <1>8 DEF Retire, FileInv, WriterPlace
  <2>2. disk.slices[w.index].rows \in Seq(S) \cup {Torn}
    BY <2>1, SliceRows DEF FileInv
  <2>3. Append(disk.archive, disk.slices[w.index].rows) \in Seq(Seq(S) \cup {Torn})
    <3>1. disk.archive \in Seq(Seq(S) \cup {Torn})
      BY <1>1 DEF DiskOf
    <3>2. QED
      BY <2>2, <3>1, AppendProperties
  <2>4. disk' \in DiskOf(S) /\ disk'.slices = disk.slices /\ disk'.fp = disk.fp
    BY <1>1, <1>8, <2>3 DEF Retire, DiskOf
  <2>5. StoredOf(S)'
    BY <1>1, <1>8, <2>4 DEF Retire, StoredOf
  <2>6. QED
    BY <1>8, <2>1, <2>4, <2>5 DEF Retire, FileInv, WriterPlace, FpPlace, Before
<1>9. CASE Unlink
  <2>1. disk' \in DiskOf(S) /\ disk'.fp = disk.fp
    BY <1>1, <1>9, DiskCuts DEF Unlink
  <2>2. StoredOf(S)'
    BY <1>1, <1>9, <2>1 DEF Unlink, StoredOf
  <2>3. QED
    BY <1>9, <2>1, <2>2 DEF Unlink, FileInv, WriterPlace, FpPlace, Before
<1>10. CASE Reopen
  <2>1. /\ disk' \in DiskOf(S) /\ pump' \in PumpOf(S)
        /\ DOMAIN disk'.slices = {w.index + 1} \cup DOMAIN disk.slices /\ disk'.fp = disk.fp
    BY <1>3, <1>10, FileOpens DEF Reopen
  <2>2. w' \in WriterOf(S) /\ w'.index = w.index + 1
    BY <1>3, <1>10, EmptySeq DEF Reopen, WriterOf
  <2>3. StoredOf(S)'
    BY <1>1, <1>10, <2>1, <2>2 DEF Reopen, StoredOf
  <2>4. QED
    BY <1>10, <2>1, <2>2, <2>3 DEF Reopen, FileInv, WriterPlace, FpPlace, Before
<1>11. CASE UpdateIndex
  <2>1. disk' \in DiskOf(S) /\ disk'.slices = disk.slices /\ disk'.fp = disk.fp
    BY <1>1, <1>3, <1>11 DEF UpdateIndex, DiskOf, Position
  <2>2. recBatch' \in Seq(S)
    BY <1>2, <1>11, EmptySeq DEF UpdateIndex, Finishing, NewBatch
  <2>3. StoredOf(S)'
    BY <1>1, <1>11, <2>1, <2>2 DEF UpdateIndex, StoredOf
  <2>4. QED
    BY <1>11, <2>1, <2>3 DEF UpdateIndex, FileInv, WriterPlace, FpPlace, Before
<1>12. CASE FinishClean
  <2>1. UNCHANGED fileVars /\ mpc' \notin Marked
    BY <1>12 DEF FinishClean, fileVars, Marked, Before
  <2>2. QED
    BY <2>1, FileFrame
<1>13. QED
  BY <1>4, <1>5, <1>6, <1>7, <1>8, <1>9, <1>10, <1>11, <1>12 DEF Store

\* stdio writes back.
LEMMA StdioKeepsFiles ==
  ASSUME NEW S, FileInv(S), Stdio
  PROVE  FileInv(S)'
<1>1. /\ disk \in DiskOf(S) /\ w \in WriterOf(S) /\ recBatch \in Seq(S)
      /\ pump \in PumpOf(S) /\ fpb \in FpOf(S) /\ promo \in [start : Nat, next : Nat]
  BY DEF FileInv, StoredOf
<1>2. CASE WriteBack /\ UNCHANGED <<fpb, promo>>
  <2>1. w.open /\ w.buf # <<>> /\ w.buf \in Seq(S) /\ w.index \in DOMAIN disk.slices
    BY <1>1, <1>2 DEF WriteBack, WriterOf, FileInv, WriterPlace
  <2>2. Head(w.buf) \in S /\ Tail(w.buf) \in Seq(S)
    BY <2>1, TailHas
  <2>3. PICK rows \in Seq(S) : rows = Append(disk.slices[w.index].rows, Head(w.buf))
    <3>1. disk.slices[w.index].rows \in Seq(S)
      BY <2>1, SliceRows DEF FileInv
    <3>2. QED
      BY <2>2, <3>1, AppendProperties
  <2>4. /\ disk' \in DiskOf(S) /\ pump' \in PumpOf(S)
        /\ DOMAIN disk'.slices = DOMAIN disk.slices /\ disk'.fp = disk.fp
    BY <1>2, <2>1, <2>3, SliceWritten DEF WriteBack
  <2>5. w' \in WriterOf(S) /\ w'.index = w.index /\ w'.open = w.open
    BY <1>1, <1>2, <2>2 DEF WriteBack, WriterOf
  <2>6. StoredOf(S)'
    BY <1>1, <1>2, <2>4, <2>5 DEF WriteBack, StoredOf
  <2>7. QED
    BY <1>2, <2>4, <2>5, <2>6 DEF WriteBack, FileInv, WriterPlace, FpPlace
<1>3. CASE FpWriteBack /\ UNCHANGED <<w, recBatch, pump, promo>>
  <2>1. fpb.open /\ fpb.buf # <<>> /\ fpb.buf \in Seq(S) /\ fpb.index \in DOMAIN disk.fp
    BY <1>1, <1>3 DEF FpWriteBack, FpOf, FileInv, FpPlace
  <2>2. Head(fpb.buf) \in S /\ Tail(fpb.buf) \in Seq(S)
    BY <2>1, TailHas
  <2>3. Append(disk.fp[fpb.index].rows, Head(fpb.buf)) \in Seq(S)
    <3>1. disk.fp[fpb.index].rows \in Seq(S)
      BY <2>1, SliceRows DEF FileInv
    <3>2. QED
      BY <2>2, <3>1, AppendProperties
  <2>4. /\ disk' \in DiskOf(S) /\ disk'.slices = disk.slices
        /\ DOMAIN disk'.fp = {fpb.index} \cup DOMAIN disk.fp
    <3>1. PICK file \in FileOf(S) :
            file = File(Append(disk.fp[fpb.index].rows, Head(fpb.buf)), FALSE)
      BY <2>3, FileHas
    <3>2. disk' = WithFp(disk, fpb.index, file) /\ fpb.index \in Nat
      BY <1>1, <1>3, <3>1 DEF FpWriteBack, FpOf
    <3>3. QED
      BY <1>1, <3>2, FpPut
  <2>5. fpb' \in FpOf(S) /\ fpb'.index = fpb.index /\ fpb'.open = fpb.open
        /\ fpb'.mem = fpb.mem
    BY <1>1, <1>3, <2>2 DEF FpWriteBack, FpOf
  <2>6. StoredOf(S)'
    BY <1>1, <1>3, <2>4, <2>5 DEF FpWriteBack, StoredOf
  <2>7. QED
    BY <1>3, <2>4, <2>5, <2>6 DEF FpWriteBack, FileInv, WriterPlace, FpPlace
<1>4. QED
  BY <1>2, <1>3 DEF Stdio

-----------------------------------------------------------------------------
(* The pump and the promotion: ProgressPump. *)

LEMMA PumpKeepsFiles ==
  ASSUME NEW S, FileInv(S), Pump
  PROVE  FileInv(S)'
<1>1. /\ disk \in DiskOf(S) /\ w \in WriterOf(S) /\ recBatch \in Seq(S)
      /\ pump \in PumpOf(S) /\ fpb \in FpOf(S) /\ promo \in [start : Nat, next : Nat]
  BY DEF FileInv, StoredOf
<1>2. CASE PumpEnd
  <2>1. UNCHANGED fileVars /\ mpc' \notin Marked
    BY <1>2 DEF PumpEnd, fileVars, Marked, Before
  <2>2. QED
    BY <2>1, FileFrame
<1>3. CASE PumpRow
  <2>1. pump' \in PumpOf(S)
    <3>1. pump' = [pump EXCEPT !.pos = @ + 1]
      BY <1>3 DEF PumpRow
    <3>2. \A p \in PumpOf(S) : [p EXCEPT !.pos = @ + 1] \in PumpOf(S)
      BY DEF PumpOf
    <3>3. QED
      BY <1>1, <3>1, <3>2
  <2>2. UNCHANGED <<mpc, disk, w, recBatch, fpb, promo>>
    BY <1>3 DEF PumpRow
  <2>3. QED
    BY <2>1, <2>2 DEF FileInv, StoredOf, WriterPlace, FpPlace
<1>4. CASE PumpNext
  <2>1. pump.state \in {"OLD", "NEW", "DONE"}
    BY <1>1 DEF PumpOf
  <2>2. Later # {} => Min(Later) \in DOMAIN disk.slices
    <3>1. Later \subseteq DOMAIN disk.slices /\ Later \in SUBSET Nat
      BY SliceRows DEF Later, FileInv
    <3>2. QED
      BY <3>1, SmallestNumber
  <2>3. Later # {} => PumpFrom(Min(Later), 0, pump.state) \in PumpOf(S)
    BY <2>1, <2>2, PumpOpens DEF FileInv
  <2>4. NoPump \in PumpOf(S) /\ [NoPump EXCEPT !.state = pump.state] \in PumpOf(S)
    BY <2>1, NoneHave DEF PumpOf
  <2>5. pump' \in PumpOf(S)
    BY <1>4, <2>3, <2>4 DEF PumpNext
  <2>6. mpc' \in {"check", "promote"}
    BY <1>4 DEF PumpNext
  <2>7. QED
    BY <1>1, <1>4, <2>5, <2>6 DEF PumpNext, FileInv, StoredOf, WriterPlace, FpPlace, Before
<1>5. CASE PromoteSeal
  <2>1. fpb.mem \in Seq(S) /\ fpb.buf \in Seq(S) /\ fpb.lines \in Nat /\ fpb.index \in Nat
    BY <1>1 DEF FpOf
  <2>2. disk' \in DiskOf(S) /\ disk'.slices = disk.slices
    <3>1. CASE fpb.open
      <4>1. disk.fp[fpb.index].rows \in Seq(S)
        BY <3>1, SliceRows DEF FileInv, FpPlace
      <4>2. disk.fp[fpb.index].rows \o fpb.buf \o fpb.mem \in Seq(S)
        BY <2>1, <4>1, ConcatProperties
      <4>3. PICK file \in FileOf(S) :
              file = File(disk.fp[fpb.index].rows \o fpb.buf \o fpb.mem, TRUE)
        BY <4>2, FileHas
      <4>4. PICK i \in Nat : i = fpb.index
        BY <2>1
      <4>5. disk' = WithFp(disk, i, file)
        BY <1>5, <3>1, <4>3, <4>4 DEF PromoteSeal
      <4>6. WithFp(disk, i, file) \in DiskOf(S) /\ WithFp(disk, i, file).slices = disk.slices
        BY <1>1, FpPut
      <4>7. QED
        BY <4>5, <4>6
    <3>2. QED
      BY <1>1, <1>5, <3>1 DEF PromoteSeal
  <2>3. /\ fpb' \in FpOf(S) /\ fpb'.open = FALSE /\ fpb'.mem = <<>>
    <3>1. Len(fpb.mem) \in Nat /\ <<>> \in Seq(S)
      BY <2>1, LenProperties, EmptySeq
    <3>2. FpCleared \in FpOf(S) /\ FpCleared.mem = <<>>
      BY <1>1, <3>1 DEF FpCleared, FpOf
    <3>3. FpCleared.lines + Len(fpb.mem) \in Nat
      BY <3>1, <3>2 DEF FpOf
    <3>4. QED
      BY <1>5, <3>1, <3>2, <3>3 DEF PromoteSeal, FpOf
  <2>4. promo' \in [start : Nat, next : Nat]
    <3>1. /\ DOMAIN disk.slices \in SUBSET Nat /\ IsFiniteSet(DOMAIN disk.slices)
          /\ Met(0) \subseteq DOMAIN disk.slices
      BY SliceRows DEF FileInv, Met
    <3>m. Met(0) \cup {0} \in SUBSET Nat /\ IsFiniteSet(Met(0) \cup {0})
      BY <3>1, FS_Subset, FS_AddElement
    <3>2. MaxSlice \in Nat
      BY <3>m, LargestNumber DEF MaxSlice
    <3>3. QED
      BY <1>5, <3>2 DEF PromoteSeal
  <2>5. StoredOf(S)'
    BY <1>1, <1>5, <2>2, <2>3, <2>4 DEF PromoteSeal, StoredOf
  <2>6. QED
    BY <1>5, <2>2, <2>3, <2>5 DEF PromoteSeal, FileInv, WriterPlace, FpPlace, Before
<1>6. CASE Rename
  <2>1. promo.start \in Nat /\ promo.next \in Nat /\ promo.start + promo.next \in Nat
    BY <1>1
  <2>2. CASE promo.next \in DOMAIN disk.fp
    <3>1. PICK file \in FileOf(S) : file = disk.fp[promo.next]
      BY <2>2, SliceRows DEF FileInv
    <3>i. PICK i \in Nat : i = promo.start + promo.next
      BY <2>1
    <3>d. disk \in DiskOf(S)
      BY <1>1
    <3>2. PICK d \in DiskOf(S) : d = WithSlice(disk, i, file)
      BY <3>d, SlicePut
    <3>3. DOMAIN disk.slices \subseteq DOMAIN d.slices
      BY <3>d, <3>2, SlicePut
    <3>4. disk' = [d EXCEPT !.fp = Restrict(@, DOMAIN @ \ {promo.next})]
      BY <1>6, <2>2, <3>1, <3>i, <3>2 DEF Rename
    <3>5. disk' \in DiskOf(S) /\ disk'.slices = d.slices
      BY <3>4, DiskCuts
    <3>6. promo' \in [start : Nat, next : Nat] /\ ~fpb.open /\ mpc' = "rename"
      BY <1>1, <1>6 DEF Rename, FileInv, FpPlace
    <3>7. QED
      BY <1>1, <1>6, <3>3, <3>5, <3>6
         DEF Rename, FileInv, StoredOf, WriterPlace, FpPlace, Before
  <2>3. CASE promo.next \notin DOMAIN disk.fp
    <3>1. promo' \in [start : Nat, next : Nat] /\ disk' = disk /\ mpc' = "rename"
      BY <1>1, <1>6, <2>3 DEF Rename
    <3>2. QED
      BY <1>1, <1>6, <3>1 DEF Rename, FileInv, StoredOf, WriterPlace, FpPlace, Before
  <2>4. QED
    BY <2>2, <2>3
<1>7. CASE Verify
  <2>1. pump' \in PumpOf(S)
    BY <1>1, <1>7, NoneHave DEF Verify
  <2>2. ~fpb.open
    BY <1>7 DEF Verify, FileInv, FpPlace
  <2>3. Verified => promo.start \in DOMAIN disk.slices
    <3>1. PICK n \in Nat, m \in Nat : n = promo.start /\ m = fpb.index
      BY <1>1 DEF FpOf
    <3>2. n \in n .. n + (m + 1) - 1
      OBVIOUS
    <3>3. promo.start \in Promoted
      BY <3>1, <3>2 DEF Promoted, FpTotal
    <3>4. QED
      BY <3>3 DEF Verified
  <2>4. QED
    BY <1>1, <1>7, <2>1, <2>2, <2>3
       DEF Verify, FileInv, StoredOf, WriterPlace, FpPlace, Before
<1>8. CASE Cleanup
  <2>1. disk' \in DiskOf(S) /\ disk'.slices = disk.slices
    BY <1>1, <1>8, DiskCuts DEF Cleanup
  <2>2. ~fpb.open /\ promo.start \in DOMAIN disk.slices
    BY <1>8 DEF Cleanup, FileInv, FpPlace
  <2>3. QED
    BY <1>1, <1>8, <2>1, <2>2 DEF Cleanup, FileInv, StoredOf, WriterPlace, FpPlace, Before
<1>9. CASE Adopt
  <2>1. disk' \in DiskOf(S) /\ disk'.fp = disk.fp
    <3>1. CASE w.open
      <4>1. disk.slices[w.index].rows \in Seq(S) /\ w.buf \in Seq(S) /\ w.index \in Nat
        BY <1>1, <3>1, SliceRows DEF FileInv, WriterPlace, WriterOf
      <4>2. disk.slices[w.index].rows \o w.buf \in Seq(S)
        BY <4>1, ConcatProperties
      <4>3. PICK file \in FileOf(S) : file = File(disk.slices[w.index].rows \o w.buf, FALSE)
        BY <4>2, FileHas
      <4>4. disk' = WithSlice(disk, w.index, file)
        BY <1>9, <3>1, <4>3 DEF Adopt
      <4>5. QED
        BY <1>1, <4>1, <4>4, SlicePut
    <3>2. QED
      BY <1>1, <1>9, <3>1 DEF Adopt
  <2>2. pump' \in PumpOf(S)
    <3>1. promo.start \in DOMAIN disk.slices
      BY <1>9 DEF Adopt, FileInv, FpPlace
    <3>2. PumpFrom(promo.start, 0, "NEW") \in PumpOf(S)
      BY <3>1, PumpOpens DEF FileInv
    <3>3. QED
      BY <1>9, <3>2 DEF Adopt
  <2>3. w' \in WriterOf(S) /\ ~w'.open
    <3>1. promo.start + FpTotal \in Nat
      BY <1>1 DEF FpOf, FpTotal
    <3>2. QED
      BY <1>9, <3>1, EmptySeq DEF Adopt, WriterOf
  <2>4. QED
    BY <1>1, <1>9, <2>1, <2>2, <2>3
       DEF Adopt, FileInv, StoredOf, WriterPlace, FpPlace, Before
<1>10. QED
  BY <1>2, <1>3, <1>4, <1>5, <1>6, <1>7, <1>8, <1>9 DEF Pump

-----------------------------------------------------------------------------
(* A batch: ProgressRun. *)

\* fpbin_append.
LEMMA FpAppendKeeps ==
  ASSUME NEW S, FileInv(S), NEW d \in S, mpc = "batch", FpAppend(d),
         UNCHANGED <<w, recBatch, pump, promo>>
  PROVE  FileInv(S)'
<1>1. /\ disk \in DiskOf(S) /\ fpb \in FpOf(S)
      /\ fpb.mem \in Seq(S) /\ fpb.buf \in Seq(S) /\ fpb.index \in Nat /\ fpb.lines \in Nat
      /\ fpb.open \in BOOLEAN
  BY DEF FileInv, StoredOf, FpOf
<1>2. Append(fpb.mem, d) \in Seq(S) /\ Len(fpb.mem) \in Nat
  BY <1>1, AppendProperties, LenProperties
<1>3. CASE FpKeep(d)
  <2>1. /\ disk' \in DiskOf(S) /\ disk'.slices = disk.slices
        /\ fpb.index \in DOMAIN disk'.fp
    <3>1. CASE fpb.open
      BY <1>1, <1>3, <3>1 DEF FpKeep, FpOpened, FileInv, FpPlace
    <3>2. CASE ~fpb.open
      <4>1. PICK file \in FileOf(S) : file = File(<<>>, FALSE)
        BY EmptySeq, FileHas
      <4>2. PICK i \in Nat : i = fpb.index
        BY <1>1
      <4>3. disk' = WithFp(disk, i, file)
        BY <1>3, <3>2, <4>1, <4>2 DEF FpKeep, FpOpened
      <4>4. /\ WithFp(disk, i, file) \in DiskOf(S)
            /\ DOMAIN WithFp(disk, i, file).fp = {i} \cup DOMAIN disk.fp
            /\ WithFp(disk, i, file).slices = disk.slices
        <5>1. disk \in DiskOf(S)
          BY <1>1
        <5>2. QED
          BY <5>1, FpPut
      <4>5. QED
        BY <4>2, <4>3, <4>4
    <3>3. QED
      BY <1>1, <3>1, <3>2
  <2>2. fpb' \in FpOf(S) /\ fpb'.open /\ fpb'.index = fpb.index
    BY <1>1, <1>2, <1>3 DEF FpKeep, FpOf
  <2>3. StoredOf(S)'
    BY <2>1, <2>2 DEF FileInv, StoredOf
  <2>4. QED
    BY <1>3, <2>1, <2>2, <2>3 DEF FpKeep, FileInv, WriterPlace, FpPlace, Before
<1>4. CASE FpSpill(d)
  <2>1. fpb.buf \o Append(fpb.mem, d) \in Seq(S) /\ <<>> \in Seq(S)
    BY <1>1, <1>2, ConcatProperties, EmptySeq
  <2>2. fpb.lines + Len(fpb.mem) + 1 \in Nat
    BY <1>1, <1>2
  <2>3. /\ fpb' \in FpOf(S) /\ fpb'.open = fpb.open /\ fpb'.index = fpb.index
        /\ fpb'.mem = <<>>
    BY <1>1, <1>4, <2>1, <2>2 DEF FpSpill, FpOf
  <2>4. fpb.open
    <3>1. fpb.mem # <<>>
      <4>1. Len(fpb.mem) # 0
        BY <1>2, <1>4, BatchAssumption DEF FpSpill
      <4>2. QED
        BY <4>1, EmptySeq
    <3>2. QED
      BY <3>1 DEF FileInv, FpPlace
  <2>5. disk' = disk /\ mpc' \in {"batch", "fpseal"}
    BY <1>4 DEF FpSpill
  <2>6. StoredOf(S)'
    BY <2>3, <2>5 DEF FileInv, StoredOf
  <2>7. QED
    BY <2>3, <2>4, <2>5, <2>6 DEF FileInv, WriterPlace, FpPlace, Before
<1>5. QED
  BY <1>3, <1>4 DEF FpAppend

\* fpbin_rotate_slice.
LEMMA FpRotateKeeps ==
  ASSUME NEW S, FileInv(S), FpSeal \/ FpIndex, UNCHANGED <<w, recBatch, pump, promo>>
  PROVE  FileInv(S)'
<1>1. /\ disk \in DiskOf(S) /\ fpb \in FpOf(S)
      /\ fpb.buf \in Seq(S) /\ fpb.index \in Nat /\ fpb.lines \in Nat
  BY DEF FileInv, StoredOf, FpOf
<1>2. CASE FpSeal
  <2>1. fpb.open /\ disk.fp[fpb.index].rows \in Seq(S)
    BY <1>2, SliceRows DEF FpSeal, FileInv, FpPlace
  <2>2. disk.fp[fpb.index].rows \o fpb.buf \in Seq(S) /\ <<>> \in Seq(S)
    BY <1>1, <2>1, ConcatProperties, EmptySeq
  <2>3. PICK full \in FileOf(S) : full = File(disk.fp[fpb.index].rows \o fpb.buf, TRUE)
    BY <2>2, FileHas
  <2>4. PICK file \in FileOf(S) : file = File(<<>>, FALSE)
    BY <2>2, FileHas
  <2>5. PICK i \in Nat : i = fpb.index
    BY <1>1
  <2>6. PICK j \in Nat : j = i + 1
    OBVIOUS
  <2>7. PICK d \in DiskOf(S) : d = WithFp(disk, i, full) /\ d.slices = disk.slices
    <3>1. disk \in DiskOf(S)
      BY <1>1
    <3>2. WithFp(disk, i, full) \in DiskOf(S) /\ WithFp(disk, i, full).slices = disk.slices
      BY <3>1, FpPut
    <3>3. QED
      BY <3>2
  <2>9. /\ WithFp(d, j, file) \in DiskOf(S)
        /\ DOMAIN WithFp(d, j, file).fp = {j} \cup DOMAIN d.fp
        /\ WithFp(d, j, file).slices = d.slices
    BY FpPut
  <2>10. disk' = WithFp(d, j, file)
    BY <1>2, <2>3, <2>4, <2>5, <2>6, <2>7 DEF FpSeal
  <2>11. fpb' \in FpOf(S) /\ fpb'.open /\ fpb'.index = j
    BY <1>1, <1>2, <2>1, <2>2, <2>5, <2>6 DEF FpSeal, FpOf
  <2>12. StoredOf(S)'
    BY <2>9, <2>10, <2>11 DEF FileInv, StoredOf
  <2>13. QED
    BY <1>2, <2>7, <2>9, <2>10, <2>11, <2>12
       DEF FpSeal, FileInv, WriterPlace, FpPlace, Before
<1>3. CASE FpIndex
  <2>1. disk' \in DiskOf(S) /\ disk'.slices = disk.slices /\ disk'.fp = disk.fp
    BY <1>1, <1>3 DEF FpIndex, DiskOf, Position
  <2>2. StoredOf(S)'
    BY <1>3, <2>1 DEF FpIndex, FileInv, StoredOf
  <2>3. QED
    BY <1>3, <2>1, <2>2 DEF FpIndex, FileInv, WriterPlace, FpPlace, Before
<1>4. QED
  BY <1>2, <1>3

LEMMA BatchKeepsFiles ==
  ASSUME NEW S, FileInv(S), Batch \/ ListOnly \/ Loop,
         DirKept \/ Recorded => NextEntry \in S
  PROVE  FileInv(S)'
<1>1. CASE DirKept
  BY <1>1, FpAppendKeeps DEF DirKept, InBatch
<1>2. CASE Recorded
  <2>1. recBatch \in Seq(S) /\ NextEntry \in S
    BY <1>2 DEF Recorded, FileInv, StoredOf
  <2>2. recBatch' \in Seq(S)
    BY <1>2, <2>1, AppendProperties DEF Recorded
  <2>3. QED
    BY <1>2, <2>2 DEF Recorded, FileInv, StoredOf, WriterPlace, FpPlace
<1>3. CASE (FpSeal \/ FpIndex) /\ UNCHANGED <<w, recBatch, pump, promo>>
  BY <1>3, FpRotateKeeps
<1>4. CASE \/ \E d \in Dirs : TakeBatch(d)
           \/ DirWaits \/ Listed \/ BatchFull \/ BatchEnd \/ Loop
  <2>1. UNCHANGED fileVars
    BY <1>4 DEF TakeBatch, DirWaits, Listed, BatchFull, BatchEnd, Loop, fileVars
  <2>2. mpc' = mpc \/ mpc' \notin Marked
    BY <1>4 DEF TakeBatch, DirWaits, Listed, BatchFull, BatchEnd, Loop, DrainEnd, Check,
                Marked, Before
  <2>3. QED
    BY <2>1, <2>2, FileFrame
<1>5. QED
  BY <1>1, <1>2, <1>3, <1>4 DEF Batch, ListOnly

-----------------------------------------------------------------------------
(* The start and the end of a run: Session. *)

\* A process that is gone has no file open.
LEMMA GoneKeepsFiles ==
  ASSUME NEW S, FileInv(S), Gone, disk' \in DiskOf(S)
  PROVE  FileInv(S)'
<1>1. /\ NoPump \in PumpOf(S) /\ NoFp \in FpOf(S)
      /\ NoWriter \in WriterOf(S) /\ NewBatch \in Seq(S)
      /\ NoPromo \in [start : Nat, next : Nat]
  BY NoneHave
<1>2. StoredOf(S)'
  BY <1>1 DEF Gone, StoredOf
<1>3. ~w'.open /\ ~fpb'.open /\ fpb'.mem = <<>> /\ mpc' = "off"
  BY DEF Gone, NoWriter, NoFp
<1>4. QED
  BY <1>2, <1>3 DEF FileInv, WriterPlace, FpPlace, Before

LEMMA EndKeepsFiles ==
  ASSUME NEW S, FileInv(S), Finish \/ Leave \/ Kill
  PROVE  FileInv(S)'
<1>1. disk \in DiskOf(S)
  BY DEF FileInv, StoredOf
<1>2. [disk EXCEPT !.archive = Append(@, Torn)] \in DiskOf(S)
  <2>1. disk.archive \in Seq(Seq(S) \cup {Torn})
    BY <1>1 DEF DiskOf
  <2>2. Append(disk.archive, Torn) \in Seq(Seq(S) \cup {Torn})
    BY <2>1, AppendProperties
  <2>3. QED
    BY <1>1, <2>2 DEF DiskOf
<1>3. Gone /\ disk' \in DiskOf(S)
  BY <1>1, <1>2 DEF Finish, Leave, Kill, Crash
<1>4. QED
  BY <1>3, GoneKeepsFiles

LEMMA LaunchKeepsFiles ==
  ASSUME NEW S, FileInv(S), NEW launch \in Launches, Launch(launch)
  PROVE  FileInv(S)'
<1>1. UNCHANGED fileVars /\ mpc \in Before /\ mpc' \in Before
  BY DEF Launch, unscanned, fileVars, Before
<1>2. QED
  BY <1>1, FileFrame

\* The files of earlier runs are removed one after the other.
LEMMA WipeKeepsFiles ==
  ASSUME NEW S, FileInv(S), NEW here \in Before, NEW next \in Before, At(here, next),
         disk' \in DiskOf(S)
  PROVE  FileInv(S)'
<1>1. UNCHANGED <<w, recBatch, pump, fpb, promo>> /\ mpc \in Before /\ mpc' \in Before
  BY DEF At, unscanned
<1>2. ~w.open /\ ~fpb.open /\ fpb.mem = <<>>
  BY <1>1 DEF FileInv, WriterPlace, FpPlace
<1>3. mpc' \notin {"seal", "retire", "unlink", "reopen", "fpseal", "cleanup", "adopt"}
  BY <1>1 DEF Before
<1>4. StoredOf(S)'
  BY <1>1 DEF FileInv, StoredOf
<1>5. QED
  BY <1>1, <1>2, <1>3, <1>4 DEF FileInv, WriterPlace, FpPlace

\* restore_progress.
LEMMA RestoreKeepsFiles ==
  ASSUME NEW S, FileInv(S), mpc = "begin", Restore, promo' = promo
  PROVE  FileInv(S)'
<1>1. disk \in DiskOf(S) /\ promo \in [start : Nat, next : Nat]
  BY DEF FileInv, StoredOf
<1>2. /\ disk.idx = NoIndex \/ disk.idx \in Position
      /\ disk.fpidx = NoIndex \/ disk.fpidx \in Position
  BY <1>1 DEF DiskOf
<1>3. w' \in WriterOf(S) /\ ~w'.open
  <2>1. LoadedIndex \in Position /\ <<>> \in Seq(S)
    BY <1>2, EmptySeq DEF LoadedIndex, Position
  <2>2. QED
    BY <2>1 DEF Restore, WriterOf, Position
<1>4. fpb' \in FpOf(S) /\ ~fpb'.open /\ fpb'.mem = <<>>
  <2>1. NoFp \in FpOf(S) /\ ~NoFp.open /\ NoFp.mem = <<>>
    BY NoneHave DEF NoFp
  <2>2. Residual => disk.fpidx.index \in Nat /\ disk.fpidx.lines \in Nat
    BY <1>2 DEF Residual, Position
  <2>3. QED
    BY <2>1, <2>2 DEF Restore, FpOf
<1>5. disk' \in DiskOf(S)
  <2>1. WithoutFp(disk, FpReach) \in DiskOf(S)
    BY <1>1, DiskCuts
  <2>2. QED
    BY <1>1, <2>1 DEF Restore
<1>6. RestoredPump \in PumpOf(S)
  <2>1. PumpFirst \in PumpOf(S) /\ NoPump \in PumpOf(S)
    <3>1. 0 \in DOMAIN disk.slices => PumpFrom(0, 0, "OLD") \in PumpOf(S)
      BY PumpOpens DEF FileInv
    <3>2. QED
      BY <3>1, NoneHave DEF PumpFirst
  <2>2. ASSUME disk.idx # NoIndex, disk.idx.index \in DOMAIN disk.slices
        PROVE  PumpFrom(disk.idx.index,
                        Min({disk.idx.lines, Len(disk.slices[disk.idx.index].rows)}), "OLD")
                 \in PumpOf(S)
    <3>1. disk.idx.lines \in Nat /\ Len(disk.slices[disk.idx.index].rows) \in Nat
      BY <1>2, <2>2, SliceRows, LenProperties DEF Position, FileInv
    <3>2. PICK pos \in Nat :
            pos = Min({disk.idx.lines, Len(disk.slices[disk.idx.index].rows)})
      BY <3>1, SmallestNumber
    <3>3. QED
      BY <2>2, <3>2, PumpOpens DEF FileInv
  <2>3. CASE disk.idx = NoIndex
    <3>1. Blocks > 1 \/ Blocks <= 1
      <4>1. Cardinality(Met(0)) \in Nat
        <5>1. IsFiniteSet(DOMAIN disk.slices) /\ Met(0) \subseteq DOMAIN disk.slices
          BY SliceRows DEF FileInv, Met
        <5>2. QED
          BY <5>1, FS_Subset, FS_CardinalityType
      <4>2. Len(disk.archive) \in Nat
        BY <1>1, LenProperties DEF DiskOf
      <4>3. QED
        BY <4>1, <4>2 DEF Blocks
    <3>2. QED
      BY <2>1, <2>3, <3>1 DEF RestoredPump
  <2>4. CASE disk.idx # NoIndex
    <3>1. RestoredPump =
            IF /\ disk.idx.index \in DOMAIN disk.slices
               /\ \/ disk.idx.lines < Len(disk.slices[disk.idx.index].rows)
                  \/ Sealed(disk.idx.index)
            THEN PumpFrom(disk.idx.index,
                          Min({disk.idx.lines, Len(disk.slices[disk.idx.index].rows)}),
                          "OLD")
            ELSE PumpFirst
      BY <2>4 DEF RestoredPump
    <3>2. QED
      BY <2>1, <2>2, <2>4, <3>1
  <2>5. QED
    BY <2>3, <2>4
<1>7. pump' \in PumpOf(S) /\ recBatch' \in Seq(S) /\ mpc' \in {"promote", "drain"}
  BY <1>6, NoneHave DEF Restore
<1>8. StoredOf(S)'
  BY <1>1, <1>3, <1>4, <1>5, <1>7 DEF StoredOf
<1>9. QED
  BY <1>3, <1>4, <1>7, <1>8 DEF FileInv, WriterPlace, FpPlace, Before

LEMMA OpeningKeepsFiles ==
  ASSUME NEW S, FileInv(S), Opening
  PROVE  FileInv(S)'
<1>1. disk \in DiskOf(S) /\ promo \in [start : Nat, next : Nat]
  BY DEF FileInv, StoredOf
<1>2. CASE WipeIndex \/ WipeSlice \/ WipeArchive \/ WipeFpbin
  <2>1. [disk EXCEPT !.idx = NoIndex] \in DiskOf(S)
    BY <1>1 DEF DiskOf
  <2>2. [disk EXCEPT !.archive = <<>>] \in DiskOf(S)
    BY <1>1, EmptySeq DEF DiskOf
  <2>3. WithoutFp(disk, FpReach) \in DiskOf(S) /\ \A i : WithoutSlice(disk, i) \in DiskOf(S)
    BY <1>1, DiskCuts
  <2>4. disk' \in DiskOf(S)
    BY <1>1, <1>2, <2>1, <2>2, <2>3 DEF WipeIndex, WipeSlice, WipeArchive, WipeFpbin
  <2>5. \E here, next \in Before : At(here, next)
    BY <1>2 DEF WipeIndex, WipeSlice, WipeArchive, WipeFpbin, Before
  <2>6. QED
    BY <2>4, <2>5, WipeKeepsFiles
<1>3. CASE WipeConfig \/ LoadConfig \/ Confirm \/ Truncate \/ WriteConfig
  <2>1. disk' = disk
    BY <1>3 DEF WipeConfig, LoadConfig, Confirm, Truncate, WriteConfig
  <2>2. \E here, next \in Before : At(here, next)
    BY <1>3 DEF WipeConfig, LoadConfig, Confirm, Truncate, WriteConfig, Before
  <2>3. QED
    BY <1>1, <2>1, <2>2, WipeKeepsFiles
<1>4. CASE Begin
  <2>1. mpc = "begin" /\ promo' = promo /\ (Restore \/ Afresh)
    BY <1>4 DEF Begin
  <2>2. CASE Afresh
    <3>1. /\ NoPump \in PumpOf(S) /\ NoFp \in FpOf(S)
          /\ NoWriter \in WriterOf(S) /\ NewBatch \in Seq(S)
      BY NoneHave
    <3>2. StoredOf(S)'
      BY <1>1, <2>1, <2>2, <3>1 DEF Afresh, StoredOf
    <3>3. ~w'.open /\ ~fpb'.open /\ fpb'.mem = <<>> /\ mpc' = "drain"
      BY <2>2 DEF Afresh, NoWriter, NoFp
    <3>4. QED
      BY <3>2, <3>3 DEF FileInv, WriterPlace, FpPlace, Before
  <2>3. QED
    BY <2>1, <2>2, RestoreKeepsFiles
<1>5. QED
  BY <1>2, <1>3, <1>4 DEF Opening

-----------------------------------------------------------------------------
(* What the files hide from the list. *)

\* What some run has put into out_batch: it is recorded after that.
Seen == handed \cup Range(out)

\* What visited_set hides was put into out_batch, is about to be, or had to wait.
KnownInv ==
  /\ FileInv(Seen)
  /\ HiddenWasHandedOn

\* restore_progress reads rows of the files.
LEMMA LoadedIsStored ==
  ASSUME NEW S, StoredOf(S)
  PROVE  Loaded \subseteq S
<1>1. ArchiveRows \subseteq S
  <2>1. SUFFICES ASSUME NEW i \in DOMAIN disk.archive, \A k \in 1 .. i : disk.archive[k] # Torn
                 PROVE  Range(disk.archive[i]) \subseteq S
    BY DEF ArchiveRows
  <2>2. disk.archive \in Seq(Seq(S) \cup {Torn})
    BY DEF StoredOf, DiskOf
  <2>3. i \in 1 .. Len(disk.archive) /\ Len(disk.archive) \in Nat
    BY <2>1, <2>2, LenProperties
  <2>4. disk.archive[i] \in Seq(S) \cup {Torn}
    BY <2>2, <2>3, ElementOfSeq
  <2>5. i \in 1 .. i
    BY <2>3
  <2>6. disk.archive[i] \in Seq(S)
    BY <2>1, <2>4, <2>5
  <2>7. QED
    BY <2>6, RangeOfSeq
<1>2. \A i \in DOMAIN disk.slices : Range(disk.slices[i].rows) \subseteq S
  BY SliceRows, RangeOfSeq
<1>3. ASSUME NEW i \in DOMAIN disk.slices, NEW n \in Nat
      PROVE  RowsUpTo(i, n) \subseteq S
  <2>1. PICK rows \in Seq(S) : rows = disk.slices[i].rows
    BY SliceRows
  <2>2. CASE n = 0 \/ n > Len(rows)
    BY <1>2, <2>1, <2>2 DEF RowsUpTo
  <2>3. CASE ~(n = 0 \/ n > Len(rows))
    <3>1. Len(rows) \in Nat /\ \A k \in 1 .. Len(rows) : rows[k] \in S
      BY LenProperties, ElementOfSeq
    <3>2. \A k \in 1 .. n : rows[k] \in S
      BY <2>3, <3>1
    <3>3. SubSeq(rows, 1, n) \in Seq(S)
      BY <3>2, SubSeqProperties
    <3>4. QED
      BY <2>1, <2>3, <3>3, RangeOfSeq DEF RowsUpTo
  <2>4. QED
    BY <2>2, <2>3
<1>4. \A i \in DOMAIN disk.slices : RowCount(i) \in Nat
  BY SliceRows, LenProperties DEF RowCount
<1>5. disk.idx # NoIndex => disk.idx.lines \in Nat
  BY DEF StoredOf, DiskOf, Position
<1> DEFINE there == Met(LoadedIndex.index + 1)
<1>t. there \subseteq DOMAIN disk.slices
  BY DEF Met
<1>6. RowsOf(there) \subseteq S
  BY <1>2, <1>t DEF RowsOf
<1>7. CASE disk.idx = NoIndex
  <2>1. Blocks > 1 \/ Blocks <= 1
    <3>1. IsFiniteSet(Met(0))
      <4>1. IsFiniteSet(DOMAIN disk.slices) /\ Met(0) \subseteq DOMAIN disk.slices
        BY SliceRows DEF Met
      <4>2. QED
        BY <4>1, FS_Subset
    <3>2. Cardinality(Met(0)) \in Nat
      BY <3>1, FS_CardinalityType
    <3>3. Len(disk.archive) \in Nat
      BY LenProperties DEF StoredOf, DiskOf
    <3>4. QED
      BY <3>2, <3>3 DEF Blocks
  <2>2. Loaded = ArchiveRows \/ Loaded = ArchiveRows \cup RowsOf(there)
    BY <1>7, <2>1 DEF Loaded
  <2>3. QED
    <3> HIDE DEF there
    <3>1. QED
      BY <1>1, <1>6, <2>2
<1>8. CASE disk.idx # NoIndex
  <2> DEFINE before == UNION {RowsUpTo(i, RowCount(i)) :
                                i \in {j \in there : j < disk.idx.index}}
             current == UNION {RowsUpTo(i, disk.idx.lines) :
                                 i \in there \cap {disk.idx.index}}
  <2>1. Loaded = ArchiveRows \cup (before \cup current)
    BY <1>8 DEF Loaded
  <2>2. \A i \in DOMAIN disk.slices :
          RowsUpTo(i, RowCount(i)) \subseteq S /\ RowsUpTo(i, disk.idx.lines) \subseteq S
    BY <1>3, <1>4, <1>5, <1>8
  <2>3. before \subseteq S
    BY <1>t, <2>2
  <2>4. current \subseteq S
    BY <1>t, <2>2
  <2>5. QED
    <3> HIDE DEF before, current
    <3>1. QED
      BY <1>1, <2>1, <2>3, <2>4
<1>9. QED
  BY <1>7, <1>8

\* A run lists more and more, and nothing is taken from what the runs before it listed.
LEMMA SeenGrows ==
  ASSUME OnceInv, [SessionNext]_sessionVars
  PROVE  /\ Seen \subseteq Seen'
         /\ DirKept \/ Recorded => NextEntry \in Seen'
<1>1. out \in Seq(Names)
  BY DEF OnceInv, ListTypes
<1>2. CASE InBatch /\ out' = Append(out, NextEntry) /\ handed' = handed
  <2>1. NextEntry \in Names
    BY <1>2, RestWorks
  <2>2. Range(out') = Range(out) \cup {NextEntry}
    BY <1>1, <1>2, <2>1, AppendHas
  <2>3. QED
    BY <1>2, <2>2 DEF Seen
<1>3. CASE \E launch \in Launches : Launch(launch)
  <2>1. handed' = handed \cup Range(out) /\ mpc = "off"
    BY <1>3 DEF Launch
  <2>2. ~(DirKept \/ Recorded)
    BY <2>1 DEF DirKept, Recorded, InBatch
  <2>3. QED
    BY <2>1, <2>2 DEF Seen
<1>4. CASE Scanning
  <2>1. CASE DirKept \/ Recorded \/ Listed
    <3>1. handed' = handed
      BY <1>4 DEF Scanning, history
    <3>2. QED
      BY <1>2, <2>1, <3>1 DEF DirKept, Recorded, Listed
  <2>2. CASE ~(DirKept \/ Recorded \/ Listed)
    <3>1. out' = out /\ handed' = handed
      BY <1>4, <2>2 DEF Scanning, history, FinishClean, Store, Pump, Batch, ListOnly, Loop,
                        TakeBatch, DirWaits, BatchFull, BatchEnd
    <3>2. QED
      BY <2>2, <3>1 DEF Seen
  <2>3. QED
    BY <2>1, <2>2
<1>5. CASE Opening \/ Finish \/ Leave \/ Kill \/ Background \/ UNCHANGED sessionVars
  <2>1. out' = out /\ handed' = handed
    BY <1>5 DEF Opening, At, WipeIndex, WipeSlice, WipeArchive, WipeConfig, WipeFpbin,
                LoadConfig, Confirm, Truncate, WriteConfig, Begin, Finish, Leave, Kill, Crash,
                Gone, Background, Stdio, ScanDone, history, sessionVars, vars
  <2>2. DirKept \/ Recorded => InBatch /\ out' = Append(out, NextEntry)
    BY DEF DirKept, Recorded
  <2>3. QED
    BY <1>2, <2>1, <2>2 DEF Seen
<1>6. QED
  BY <1>3, <1>4, <1>5 DEF SessionNext

LEMMA FilesStep ==
  ASSUME NEW S, FileInv(S), [SessionNext]_sessionVars, DirKept \/ Recorded => NextEntry \in S
  PROVE  FileInv(S)'
<1>1. CASE \E launch \in Launches : Launch(launch)
  BY <1>1, LaunchKeepsFiles
<1>2. CASE Opening
  BY <1>2, OpeningKeepsFiles
<1>3. CASE Scanning
  <2>1. CASE (FinishClean \/ Store) /\ UNCHANGED <<fpb, promo>>
    BY <2>1, StoreKeepsFiles
  <2>2. CASE Pump
    BY <2>2, PumpKeepsFiles
  <2>3. CASE Batch \/ ListOnly \/ Loop
    BY <2>3, BatchKeepsFiles
  <2>4. QED
    BY <1>3, <2>1, <2>2, <2>3 DEF Scanning
<1>4. CASE Finish \/ Leave \/ Kill
  BY <1>4, EndKeepsFiles
<1>5. CASE Background
  <2>1. CASE Stdio
    BY <2>1, StdioKeepsFiles
  <2>2. CASE \E d \in Dirs : ScanDone(d)
    <3>1. UNCHANGED fileVars /\ mpc' = mpc
      BY <2>2 DEF ScanDone, fileVars
    <3>2. QED
      BY <3>1, FileFrame
  <2>3. QED
    BY <1>5, <2>1, <2>2 DEF Background
<1>6. CASE UNCHANGED sessionVars
  <2>1. UNCHANGED fileVars /\ mpc' = mpc
    BY <1>6 DEF sessionVars, vars, fileVars
  <2>2. QED
    BY <2>1, FileFrame
<1>7. QED
  BY <1>1, <1>2, <1>3, <1>4, <1>5, <1>6 DEF SessionNext

LEMMA HiddenStep ==
  ASSUME OnceInv, KnownInv, [SessionNext]_sessionVars
  PROVE  HiddenWasHandedOn'
<1>1. CASE \E launch \in Launches : Launch(launch)
  <2>1. /\ mpc = "off" /\ handed' = handed \cup Range(out) /\ UNCHANGED <<scan, visited, waited>>
    BY <1>1 DEF Launch, unscanned
  <2>2. QED
    BY <2>1 DEF KnownInv, HiddenWasHandedOn
<1>2. CASE Begin
  <2>1. visited' = Loaded \/ visited' = {}
    BY <1>2 DEF Begin, Restore, Afresh
  <2>2. Loaded \subseteq Seen
    BY LoadedIsStored DEF KnownInv, FileInv
  <2>3. UNCHANGED <<out, handed>>
    BY <1>2 DEF Begin
  <2>4. QED
    BY <2>1, <2>2, <2>3 DEF HiddenWasHandedOn, Seen
<1>3. CASE \E d \in Dirs : TakeBatch(d) /\ UNCHANGED history
  <2>1. PICK d \in Dirs : TakeBatch(d) /\ UNCHANGED history
    BY <1>3
  <2>2. /\ UNCHANGED <<out, handed, waited>> /\ mpc = "drain"
        /\ visited' = visited \cup Range(Entries[d]) /\ scan'.rest = Fresh(d)
    BY <2>1 DEF TakeBatch, history, OnceInv, ListTypes
  <2>3. scan.rest = <<>>
    BY <2>2 DEF OnceInv, InBatchPlaces
  <2>4. Range(Fresh(d)) = Range(Entries[d]) \ visited /\ Range(scan.rest) = {}
    BY <2>3, FreshWorks, NothingListed
  <2>5. QED
    BY <2>2, <2>4 DEF KnownInv, HiddenWasHandedOn
<1>4. CASE (DirKept \/ DirWaits \/ Recorded \/ Listed) /\ UNCHANGED history
  <2>1. /\ NextEntry \in Names /\ out \in Seq(Names)
        /\ Range(scan.rest) = {NextEntry} \cup Range(Tail(scan.rest))
        /\ Rest.rest = Tail(scan.rest) /\ DOMAIN Rest = {"todo", "ready", "rest", "sent"}
    BY <1>4, RestWorks DEF DirKept, DirWaits, Recorded, Listed, OnceInv, ListTypes
  <2>2. /\ visited' = visited /\ handed' = handed /\ scan'.rest = Tail(scan.rest)
        /\ \/ out' = Append(out, NextEntry) /\ waited' = waited
           \/ out' = out /\ waited' = waited \cup {NextEntry}
    BY <1>4, <2>1 DEF DirKept, DirWaits, Recorded, Listed, history
  <2>3. Range(Append(out, NextEntry)) = Range(out) \cup {NextEntry}
    BY <2>1, AppendHas
  <2>4. QED
    BY <2>1, <2>2, <2>3 DEF KnownInv, HiddenWasHandedOn
<1>5. CASE PumpRow /\ UNCHANGED <<out, handed, waited>>
  <2>1. PICK pos \in Nat, rows \in Seq(Seen) : pos = pump.pos /\ rows = pump.rows
    BY DEF KnownInv, FileInv, StoredOf, PumpOf
  <2>2. pos + 1 \in 1 .. Len(rows)
    BY <1>5, <2>1, LenProperties DEF PumpRow
  <2>3. rows[pos + 1] \in Seen
    BY <2>1, <2>2, ElementOfSeq
  <2>4. visited' = visited \cup {rows[pos + 1]} /\ scan'.rest = scan.rest
    BY <1>5, <2>1 DEF PumpRow, OnceInv, ListTypes
  <2>5. QED
    BY <1>5, <2>3, <2>4 DEF KnownInv, HiddenWasHandedOn, Seen
<1>6. CASE Finish \/ Leave \/ Kill
  BY <1>6 DEF Finish, Leave, Kill, Crash, Gone, HiddenWasHandedOn
<1>7. CASE UNCHANGED <<visited, out, handed, waited>> /\ scan'.rest = scan.rest
  BY <1>7 DEF KnownInv, HiddenWasHandedOn
<1>8. CASE Opening
  BY <1>2, <1>7, <1>8 DEF Opening, At, unscanned, WipeIndex, WipeSlice, WipeArchive,
                          WipeConfig, WipeFpbin, LoadConfig, Confirm, Truncate, WriteConfig
<1>9. CASE Scanning
  <2>1. CASE (FinishClean \/ Store) /\ UNCHANGED <<visited, fpb, promo, run, handed, waited>>
    BY <1>7, <2>1 DEF FinishClean, Store
  <2>2. CASE Pump /\ UNCHANGED <<run, handed, waited>>
    BY <1>5, <1>7, <2>2 DEF Pump, PumpEnd, PumpNext, PromoteSeal, Rename, Verify, Cleanup, Adopt
  <2>3. CASE (Batch \/ ListOnly \/ Loop) /\ UNCHANGED history
    <3>1. CASE BatchFull \/ BatchEnd \/ Loop
               \/ ((FpSeal \/ FpIndex) /\ UNCHANGED <<scan, out, visited, waited>>)
      <4>1. UNCHANGED <<visited, out, handed, waited>> /\ scan'.rest = scan.rest
        BY <2>3, <3>1 DEF BatchFull, BatchEnd, Loop, DrainEnd, Check, history, OnceInv, ListTypes
      <4>2. QED
        BY <1>7, <4>1
    <3>2. QED
      BY <1>3, <1>4, <2>3, <3>1 DEF Batch, ListOnly
  <2>4. QED
    BY <1>9, <2>1, <2>2, <2>3 DEF Scanning
<1>10. CASE Background
  <2>1. UNCHANGED <<visited, out, handed, waited>> /\ scan'.rest = scan.rest
    BY <1>10 DEF Background, Stdio, ScanDone, history, OnceInv, ListTypes
  <2>2. QED
    BY <1>7, <2>1
<1>11. CASE UNCHANGED sessionVars
  BY <1>7, <1>11 DEF sessionVars, vars
<1>12. QED
  BY <1>1, <1>6, <1>8, <1>9, <1>10, <1>11 DEF SessionNext

LEMMA KnownStep == OnceInv /\ KnownInv /\ [SessionNext]_sessionVars => KnownInv'
<1> SUFFICES ASSUME OnceInv, KnownInv, [SessionNext]_sessionVars PROVE KnownInv'
  OBVIOUS
<1>1. PICK S : S = Seen'
  OBVIOUS
<1>2. Seen \subseteq S /\ (DirKept \/ Recorded => NextEntry \in S)
  BY <1>1, SeenGrows
<1>3. FileInv(S)
  <2>1. StoredOf(S)
    BY <1>2, StoredGrows DEF KnownInv, FileInv
  <2>2. QED
    BY <2>1 DEF KnownInv, FileInv
<1>4. FileInv(S)'
  BY <1>2, <1>3, FilesStep
<1>5. FileInv(Seen)'
  BY <1>1, <1>4 DEF FileInv, StoredOf
<1>6. QED
  BY <1>5, HiddenStep DEF KnownInv

LEMMA KnownInit == SessionInit => KnownInv
<1> SUFFICES ASSUME SessionInit PROVE KnownInv
  OBVIOUS
<1>1. PICK S : S = Seen
  OBVIOUS
<1>2. NoDisk \in DiskOf(S)
  BY NoFilesHave, EmptySeq DEF NoDisk, DiskOf
<1>3. StoredOf(S)
  BY <1>2, NoneHave DEF SessionInit, Init, StoredOf
<1>4. WriterPlace /\ FpPlace
  BY DEF SessionInit, Init, WriterPlace, FpPlace, NoWriter, NoFp
<1>5. HiddenWasHandedOn
  BY DEF SessionInit, Init, HiddenWasHandedOn
<1>6. QED
  BY <1>1, <1>3, <1>4, <1>5 DEF KnownInv, FileInv

\* What visited_set hides was put into out_batch by some run, is about to be, or had to
\* wait: after no kill, and with no option of a later run, do the files hold a path that
\* was never handed on to the output.
THEOREM OnlyHandedOnIsHidden == SessionSpec => []HiddenWasHandedOn
<1>1. KnownInv => HiddenWasHandedOn
  BY DEF KnownInv
<1>2. OnceInv /\ KnownInv /\ [SessionNext]_sessionVars => (OnceInv /\ KnownInv)'
  BY OnceStep, KnownStep
<1>3. QED
  BY <1>1, <1>2, OnceInit, KnownInit, PTL DEF SessionSpec

-----------------------------------------------------------------------------
(* The command line, and a run with --clean. *)

ConfigOf ==
  [path : Dirs, continue_mode : BOOLEAN, runone : BOOLEAN, clean : BOOLEAN,
   archive : BOOLEAN, skip : BOOLEAN]

\* Before the scan there is nothing of it.
Unscanned ==
  mpc \in Before =>
    /\ scan = NoScan /\ w = NoWriter /\ recBatch = NewBatch /\ pump = NoPump
    /\ visited = {} /\ fpb = NoFp /\ promo = NoPromo

\* A run that has ended is gone, and the options are those of a command line.
OptionsInv ==
  /\ cfg \in ConfigOf /\ conf \in (SUBSET ConfigLines) \cup {NoConfig}
  /\ ended => mpc = "off"
  /\ mpc \in {"save", "write"} => ~cfg.clean
  /\ mpc \in {"wipe-archive", "wipe-config"} => cfg.clean
  /\ Unscanned

LEMMA OptionsInit == SessionInit => OptionsInv
<1> SUFFICES ASSUME SessionInit PROVE OptionsInv
  OBVIOUS
<1>1. InitConfig \in ConfigOf
  BY EntriesAssumption DEF InitConfig, ConfigOf, Dirs
<1>2. QED
  BY <1>1 DEF SessionInit, Init, OptionsInv, Unscanned

\* The places of the main thread that may follow one after the scan.
LEMMA ScanStays ==
  ASSUME Scanning
  PROVE  mpc \notin Before /\ mpc' \notin Before
BY DEF Scanning, FinishClean, Store, OpenSlice, RecordRow, FlushEnd, Seal, Retire, Unlink,
       Reopen, UpdateIndex, FinalStep, AfterSeal, Pump, PumpEnd, PumpRow, PumpNext,
       PromoteSeal, Rename, Verify, Cleanup, Adopt, Batch, ListOnly, Loop, DrainEnd, Check,
       TakeBatch, DirKept, DirWaits, Recorded, Listed, BatchFull, BatchEnd, FpAppend, FpKeep,
       FpSpill, FpSeal, FpIndex, InBatch, Before

LEMMA OptionsStep ==
  ASSUME OnceInv, KnownInv, OptionsInv, [SessionNext]_sessionVars
  PROVE  OptionsInv'
<1>1. CASE \E launch \in Launches : Launch(launch)
  <2>1. PICK launch \in Launches : Launch(launch)
    BY <1>1
  <2>2. Parsed(launch) \in ConfigOf
    <3>1. InitConfig \in ConfigOf
      BY EntriesAssumption DEF InitConfig, ConfigOf, Dirs
    <3>2. \A path \in Dirs, b1, b2, b3, b4, b5 \in BOOLEAN :
            [InitConfig EXCEPT !.path = path, !.continue_mode = b1, !.runone = b2,
                               !.clean = b3, !.archive = b4, !.skip = b5] \in ConfigOf
      BY <3>1 DEF ConfigOf
    <3>3. /\ (launch.given \cap {"continue", "resume-from"} # {}) \in BOOLEAN
          /\ ("runone" \in launch.given) \in BOOLEAN /\ ("clean" \in launch.given) \in BOOLEAN
          /\ ("archive" \in launch.given) \in BOOLEAN
          /\ ("skip-interval" \in launch.given) \in BOOLEAN
          /\ launch.path \in Dirs
      BY LaunchAssumption
    <3>4. QED
      BY <3>2, <3>3, ZenonT(40) DEF Parsed
  <2>3. mpc' \in {"wipe-index", "load"} /\ mpc = "off"
    BY <2>1 DEF Launch
  <2>4. QED
    BY <2>1, <2>2, <2>3 DEF Launch, OptionsInv, Unscanned, unscanned, Before
<1>2. CASE Begin
  <2>1. mpc' \in {"promote", "drain"} /\ mpc = "begin"
    BY <1>2 DEF Begin, Restore, Afresh
  <2>2. QED
    BY <1>2, <2>1 DEF Begin, OptionsInv, Unscanned, Before
<1>3. CASE Opening /\ ~Begin
  <2>1. UNCHANGED unscanned /\ mpc \in Before \ {"off"} /\ mpc' \in Before \ {"off"}
        /\ ended' = ended
    BY <1>3 DEF Opening, At, WipeIndex, WipeSlice, WipeArchive, WipeConfig, WipeFpbin,
                LoadConfig, Confirm, Truncate, WriteConfig, Before
  <2>2. Unscanned' /\ (ended' => mpc' = "off")
    BY <2>1 DEF OptionsInv, Unscanned, unscanned, Before
  <2>3. CASE UNCHANGED <<cfg, conf>> /\ (mpc' \in {"save", "write"} => ~cfg.clean)
              /\ (mpc' \in {"wipe-archive", "wipe-config"} => cfg.clean)
    BY <2>1, <2>2, <2>3 DEF OptionsInv
  <2>4. cfg \in ConfigOf /\ conf \in (SUBSET ConfigLines) \cup {NoConfig} /\ Lines \subseteq ConfigLines
    BY DEF OptionsInv, Lines
  <2>5. CASE WipeIndex \/ WipeSlice \/ WipeArchive
    BY <2>3, <2>5 DEF WipeIndex, WipeSlice, WipeArchive, At, OptionsInv
  <2>6. CASE WipeConfig
    BY <2>1, <2>2, <2>4, <2>6 DEF WipeConfig, At, OptionsInv
  <2>7. CASE WipeFpbin \/ LoadConfig
    <3>1. cfg' \in ConfigOf /\ conf' = conf /\ mpc' \in {"confirm", "load"}
      BY <2>4, <2>7 DEF WipeFpbin, LoadConfig, At, ConfigOf
    <3>2. QED
      BY <2>1, <2>2, <2>4, <3>1 DEF OptionsInv
  <2>8. CASE Confirm
    BY <2>3, <2>8 DEF Confirm, At
  <2>9. CASE Truncate \/ WriteConfig
    <3>1. conf' \in SUBSET ConfigLines /\ cfg' = cfg /\ ~cfg.clean /\ mpc' \in {"write", "begin"}
      BY <2>4, <2>9 DEF Truncate, WriteConfig, At, ConfigOf, ConfigLines, OptionsInv
    <3>2. QED
      BY <2>1, <2>2, <2>4, <3>1 DEF OptionsInv
  <2>10. QED
    BY <1>3, <2>5, <2>6, <2>7, <2>8, <2>9 DEF Opening
<1>4. CASE Scanning
  <2>1. mpc \notin Before /\ mpc' \notin Before
    BY <1>4, ScanStays
  <2>2. ended' = ended /\ UNCHANGED <<cfg, conf>>
    BY <1>4 DEF Scanning, history, FinishClean, Store, Pump
  <2>3. QED
    BY <2>1, <2>2 DEF OptionsInv, Unscanned, Before
<1>5. CASE Finish
  <2>1. conf' \in (SUBSET ConfigLines) \cup {NoConfig}
    BY <1>5 DEF Finish, Lines, ConfigLines, OptionsInv
  <2>2. QED
    BY <1>5, <2>1 DEF Finish, Gone, OptionsInv, Unscanned
<1>6. CASE Leave \/ Kill
  <2>1. InitConfig \in ConfigOf
    BY EntriesAssumption DEF InitConfig, ConfigOf, Dirs
  <2>2. QED
    BY <1>6, <2>1 DEF Leave, Kill, Crash, Gone, OptionsInv, Unscanned
<1>7. CASE Background
  <2>1. UNCHANGED <<mpc, cfg, conf, ended>>
    BY <1>7 DEF Background, Stdio, ScanDone, WriteBack, FpWriteBack, history
  <2>2. CASE mpc \notin Before
    BY <2>1, <2>2 DEF OptionsInv, Unscanned, Before
  <2>3. CASE mpc \in Before
    <3>1. scan.todo = {} /\ ~w.open /\ ~fpb.open
      BY <2>3 DEF OptionsInv, Unscanned, NoScan, NoWriter, NoFp
    <3>2. QED
      BY <1>7, <3>1 DEF Background, Stdio, ScanDone, WriteBack, FpWriteBack
  <2>4. QED
    BY <2>2, <2>3
<1>8. CASE UNCHANGED sessionVars
  BY <1>8 DEF OptionsInv, Unscanned, sessionVars, vars
<1>9. QED
  BY <1>1, <1>2, <1>3, <1>4, <1>5, <1>6, <1>7, <1>8 DEF SessionNext, Opening

\* Where the main thread of a run with --clean may be once everything is deleted.
Swept ==
  {"load", "confirm", "begin", "drain", "batch", "pump", "check", "flush", "index", "end"}

\* It has no progress files to write to.
NothingKept ==
  /\ ~cfg.continue_mode
  /\ w = NoWriter /\ recBatch = NewBatch /\ pump = NoPump /\ fpb = NoFp

FarSlices == \A i \in DOMAIN disk.slices : i > WipeReach

OnlyFar ==
  /\ disk.idx = NoIndex /\ disk.fpidx = NoIndex /\ disk.archive = <<>>
  /\ FarSlices
  /\ \A i \in DOMAIN disk.fp : i >= FpReach

\* A run with --clean deletes one kind of file after the other, but for what it does
\* not reach, and from then on it keeps nothing.
CleanInv ==
  cfg.clean =>
    /\ mpc \in {"wipe-slices", "wipe-archive", "wipe-config", "wipe-fpbin"} =>
         disk.idx = NoIndex
    /\ mpc \in {"wipe-archive", "wipe-config", "wipe-fpbin"} => FarSlices
    /\ mpc \in {"wipe-config", "wipe-fpbin"} => disk.archive = <<>>
    /\ mpc = "wipe-fpbin" => conf = NoConfig
    /\ mpc \in Swept => NothingKept
    /\ mpc \in Swept \/ ended => OnlyFar /\ conf = NoConfig
    /\ mpc \in Swept \cup {"off", "wipe-index", "wipe-slices", "wipe-archive",
                           "wipe-config", "wipe-fpbin"}

LEMMA CleanInit == SessionInit => CleanInv
BY DEF SessionInit, Init, InitConfig, CleanInv

LEMMA NothingIsWritten ==
  ASSUME CleanInv, cfg.clean, mpc \in Swept, Scanning
  PROVE  /\ mpc' \in Swept
         /\ UNCHANGED <<disk, conf, cfg, w, recBatch, pump, fpb>>
<1>1. NothingKept
  BY DEF CleanInv
<1>2. ~w.open /\ recBatch = <<>> /\ ~pump.open /\ ~fpb.open /\ ~cfg.continue_mode
  BY <1>1 DEF NothingKept, NoWriter, NewBatch, NoPump, NoFp
<1>3. UNCHANGED <<cfg, conf>>
  BY DEF Scanning
<1>4. CASE FinishClean /\ UNCHANGED fpb
  BY <1>3, <1>4 DEF Scanning, FinishClean, Swept
<1>5. CASE Store /\ ~(cfg.clean /\ mpc = "index") /\ UNCHANGED fpb
  <2>1. FlushEnd
    BY <1>2, <1>5 DEF Store, OpenSlice, RecordRow, Seal, Retire, Unlink, Reopen,
                      UpdateIndex, Swept
  <2>2. mpc' \in {"batch", "index"} /\ UNCHANGED <<storeVars, pump>>
    BY <1>2, <2>1 DEF FlushEnd, FinalStep
  <2>3. QED
    BY <1>3, <1>5, <2>2 DEF storeVars, Swept
<1>6. CASE Pump
  BY <1>2, <1>3, <1>6 DEF Pump, PumpEnd, PumpFull, PumpRow, PumpNext, PromoteSeal, Rename,
                          Verify, Cleanup, Adopt, Swept
<1>7. CASE ListOnly \/ Loop
  BY <1>3, <1>7 DEF ListOnly, TakeBatch, DirWaits, Listed, BatchEnd, Loop, DrainEnd, Check,
                    InBatch, Swept
<1>8. QED
  BY <1>2, <1>4, <1>5, <1>6, <1>7 DEF Scanning

LEMMA CleanStep ==
  ASSUME KnownInv, OptionsInv, CleanInv, [SessionNext]_sessionVars
  PROVE  CleanInv'
<1>1. CASE \E launch \in Launches : Launch(launch)
  <2>1. /\ ~ended' /\ mpc' \in {"wipe-index", "load"}
        /\ cfg'.clean => mpc' = "wipe-index"
    BY <1>1 DEF Launch
  <2>2. QED
    BY <2>1 DEF CleanInv, Swept
<1>2. CASE Opening /\ cfg.clean
  <2>1. PICK S : S = Seen
    OBVIOUS
  <2>2. disk \in DiskOf(S) /\ cfg \in ConfigOf
    BY <2>1 DEF KnownInv, FileInv, StoredOf, OptionsInv
  <2>3. ended' = FALSE /\ ended = FALSE /\ ~(mpc \in {"save", "write"})
    BY <1>2 DEF OptionsInv, Opening, At, WipeIndex, WipeSlice, WipeArchive, WipeConfig,
                WipeFpbin, LoadConfig, Confirm, Truncate, WriteConfig, Begin
  <2>4. CASE WipeIndex
    BY <1>2, <2>2, <2>3, <2>4 DEF WipeIndex, At, CleanInv, Swept, DiskOf
  <2>5. CASE WipeSlice
    <3>1. mpc = "wipe-slices" /\ disk.idx = NoIndex /\ cfg' = cfg /\ conf' = conf
      BY <1>2, <2>5 DEF WipeSlice, At, CleanInv
    <3>2. CASE {i \in DOMAIN disk.slices : i <= WipeReach} = {}
      <4>1. FarSlices
        <5>1. DOMAIN disk.slices \in SUBSET Nat
          BY SliceRows DEF KnownInv, FileInv
        <5>2. QED
          BY <3>2, <5>1, WipeAssumption DEF FarSlices
      <4>2. mpc' = "wipe-archive" /\ disk' = disk
        BY <1>2, <2>5, <3>2 DEF WipeSlice, At
      <4>3. FarSlices'
        BY <4>1, <4>2 DEF FarSlices
      <4>4. QED
        BY <1>2, <2>3, <3>1, <4>2, <4>3 DEF CleanInv, Swept
    <3>3. CASE {i \in DOMAIN disk.slices : i <= WipeReach} # {}
      <4>1. mpc' = "wipe-slices" /\ disk'.idx = disk.idx
        BY <1>2, <2>2, <2>5, <3>3 DEF WipeSlice, WithoutSlice, At, DiskOf
      <4>2. QED
        BY <1>2, <2>3, <3>1, <4>1 DEF CleanInv, Swept
    <3>4. QED
      BY <3>2, <3>3
  <2>6. CASE WipeArchive \/ WipeConfig
    BY <1>2, <2>2, <2>3, <2>6 DEF WipeArchive, WipeConfig, At, CleanInv, FarSlices,
                                    Swept, DiskOf
  <2>7. CASE WipeFpbin
    <3>1. /\ mpc = "wipe-fpbin" /\ mpc' \in {"confirm", "load"} /\ conf' = conf
          /\ disk' = WithoutFp(disk, FpReach) /\ cfg' = [cfg EXCEPT !.continue_mode = FALSE]
          /\ UNCHANGED <<w, recBatch, pump, fpb>>
      BY <2>7 DEF WipeFpbin, At, unscanned
    <3>2. disk.idx = NoIndex /\ FarSlices /\ disk.archive = <<>> /\ conf = NoConfig
      BY <1>2, <3>1 DEF CleanInv
    <3>3. OnlyFar'
      <4>1. /\ disk'.idx = disk.idx /\ disk'.slices = disk.slices
            /\ disk'.archive = disk.archive /\ disk'.fpidx = NoIndex
            /\ disk'.fp = Restrict(disk.fp, {i \in DOMAIN disk.fp : i >= FpReach})
        BY <2>2, <3>1 DEF DiskOf, WithoutFp
      <4>2. DOMAIN disk'.fp = {i \in DOMAIN disk.fp : i >= FpReach}
        BY <4>1 DEF Restrict
      <4>3. QED
        BY <3>2, <4>1, <4>2 DEF OnlyFar, FarSlices
    <3>4. ~cfg'.continue_mode
      BY <2>2, <3>1 DEF ConfigOf
    <3>5. NothingKept'
      BY <3>1, <3>4 DEF NothingKept, OptionsInv, Unscanned, Before
    <3>6. QED
      BY <2>3, <3>1, <3>2, <3>3, <3>5 DEF CleanInv, Swept
  <2>8. CASE LoadConfig \/ Confirm
    <3>1. mpc \in {"load", "confirm"} /\ NothingKept /\ OnlyFar /\ conf = NoConfig
      BY <1>2, <2>8 DEF LoadConfig, Confirm, At, CleanInv, Swept
    <3>2. /\ mpc' \in {"confirm", "begin"}
          /\ UNCHANGED <<disk, conf, w, recBatch, pump, fpb>>
      BY <1>2, <2>8 DEF LoadConfig, Confirm, At, unscanned
    <3>3. ~cfg'.continue_mode
      BY <2>2, <2>8, <3>1 DEF LoadConfig, Confirm, Lines, NothingKept, ConfigOf
    <3>4. QED
      BY <2>3, <3>1, <3>2, <3>3 DEF CleanInv, NothingKept, OnlyFar, FarSlices, Swept
  <2>9. CASE Begin
    <3>1. NothingKept /\ OnlyFar /\ conf = NoConfig
      BY <1>2, <2>9 DEF Begin, CleanInv, Swept
    <3>2. Afresh /\ cfg' = cfg /\ conf' = conf
      BY <2>9, <3>1 DEF Begin, NothingKept
    <3>3. QED
      BY <2>3, <3>1, <3>2 DEF Afresh, CleanInv, NothingKept, OnlyFar, FarSlices, Swept
  <2>10. QED
    BY <1>2, <2>3, <2>4, <2>5, <2>6, <2>7, <2>8, <2>9 DEF Opening, Truncate, WriteConfig, At
<1>3. CASE Opening /\ ~cfg.clean
  <2>1. cfg \in ConfigOf
    BY DEF OptionsInv
  <2>2. ~cfg'.clean
    BY <1>3, <2>1 DEF Opening, At, WipeIndex, WipeSlice, WipeArchive, WipeConfig, WipeFpbin,
                      LoadConfig, Confirm, Truncate, WriteConfig, Begin, ConfigOf
  <2>3. QED
    BY <2>2 DEF CleanInv
<1>4. CASE Scanning
  <2>1. mpc \notin Before /\ mpc' \notin Before /\ cfg' = cfg
    BY <1>4, ScanStays DEF Scanning
  <2>2. CASE cfg.clean
    <3>1. mpc \in Swept
      BY <2>1, <2>2 DEF CleanInv, Before
    <3>2. QED
      BY <1>4, <2>1, <2>2, <3>1, NothingIsWritten DEF CleanInv, NothingKept, OnlyFar, FarSlices, Before
  <2>3. QED
    BY <2>1, <2>2 DEF CleanInv
<1>5. CASE Finish
  BY <1>5 DEF Finish, Gone, CleanInv, OnlyFar, FarSlices, Swept
<1>6. CASE Leave \/ Kill
  BY <1>6 DEF Leave, Kill, InitConfig, CleanInv
<1>7. CASE Background
  <2>1. UNCHANGED <<mpc, cfg, conf, ended>>
    BY <1>7 DEF Background, Stdio, ScanDone, WriteBack, FpWriteBack, history
  <2>2. CASE cfg.clean
    <3>1. w = NoWriter /\ fpb = NoFp
      BY <2>2 DEF CleanInv, Swept, NothingKept, OptionsInv, Unscanned, Before
    <3>2. ~w.open /\ ~fpb.open
      BY <3>1 DEF NoWriter, NoFp
    <3>3. UNCHANGED <<disk, w, recBatch, pump, fpb>>
      BY <1>7, <3>2 DEF Background, Stdio, ScanDone, WriteBack, FpWriteBack
    <3>4. QED
      BY <2>1, <3>3 DEF CleanInv, NothingKept, OnlyFar, FarSlices
  <2>3. QED
    BY <2>1, <2>2 DEF CleanInv
<1>8. CASE UNCHANGED sessionVars
  BY <1>8 DEF CleanInv, NothingKept, OnlyFar, FarSlices, sessionVars, vars
<1>9. QED
  BY <1>1, <1>2, <1>3, <1>4, <1>5, <1>6, <1>7, <1>8 DEF SessionNext

\* After a run with --clean no progress file is there but slices above WipeReach and
\* fpbin files from FpReach on, whatever the runs before it left and wherever they were
\* killed.
THEOREM CleanedUp == SessionSpec => []CleanLeavesOnlyFar
<1>1. OptionsInv /\ CleanInv => CleanLeavesOnlyFar
  BY DEF CleanInv, OnlyFar, FarSlices, CleanLeavesOnlyFar
<1>2. OnceInv /\ KnownInv /\ OptionsInv /\ CleanInv /\ [SessionNext]_sessionVars =>
        (OnceInv /\ KnownInv /\ OptionsInv /\ CleanInv)'
  BY OnceStep, KnownStep, OptionsStep, CleanStep
<1>3. QED
  BY <1>1, <1>2, OnceInit, KnownInit, OptionsInit, CleanInit, PTL DEF SessionSpec

-----------------------------------------------------------------------------
(* What is below a directory. *)

Inside(d) == Range(Entries[d])

\* A set with everything in its directories.
Closed(X) == \A d \in X \cap Dirs : Inside(d) \subseteq X

\* What every closed set has that has the entries of d.
Reached(d) ==
  {x \in Names : \A X \in SUBSET Names : Inside(d) \subseteq X /\ Closed(X) => x \in X}

LEMMA ReachedWorks ==
  ASSUME NEW d \in Dirs
  PROVE  Reached(d) = Inside(d) \cup (UNION {Reached(e) : e \in Inside(d) \cap Dirs})
<1> DEFINE R == Inside(d) \cup (UNION {Reached(e) : e \in Inside(d) \cap Dirs})
<1>1. \A e \in Dirs : Inside(e) \subseteq Names
  BY DEF Inside, Names
<1>2. \A e \in Dirs : Inside(e) \subseteq Reached(e) /\ Closed(Reached(e)) /\ Reached(e) \subseteq Names
  <2> SUFFICES ASSUME NEW e \in Dirs
               PROVE  Inside(e) \subseteq Reached(e) /\ Closed(Reached(e)) /\ Reached(e) \subseteq Names
    OBVIOUS
  <2>1. Inside(e) \subseteq Reached(e) /\ Reached(e) \subseteq Names
    BY <1>1 DEF Reached
  <2>2. ASSUME NEW f \in Reached(e) \cap Dirs, NEW x \in Inside(f) PROVE x \in Reached(e)
    <3>1. x \in Names
      BY <1>1, <2>2
    <3>2. ASSUME NEW X \in SUBSET Names, Inside(e) \subseteq X, Closed(X) PROVE x \in X
      <4>1. f \in X
        BY <2>2, <3>2 DEF Reached
      <4>2. QED
        BY <2>2, <3>2, <4>1 DEF Closed
    <3>3. QED
      BY <3>1, <3>2 DEF Reached
  <2>3. QED
    BY <2>1, <2>2 DEF Closed
<1>3. R \subseteq Reached(d)
  <2>1. ASSUME NEW e \in Inside(d) \cap Dirs PROVE Reached(e) \subseteq Reached(d)
    <3>1. Inside(e) \subseteq Reached(d) /\ Closed(Reached(d)) /\ Reached(d) \in SUBSET Names
      BY <1>2, <2>1 DEF Closed
    <3>2. QED
      BY <3>1 DEF Reached
  <2>2. QED
    BY <1>2, <2>1
<1>4. Reached(d) \subseteq R
  <2>1. R \in SUBSET Names
    BY <1>1, <1>2
  <2>2. Closed(R)
    <3>1. ASSUME NEW f \in R \cap Dirs PROVE Inside(f) \subseteq R
      <4>1. CASE f \in Inside(d)
        BY <1>2, <3>1, <4>1
      <4>2. CASE \E e \in Inside(d) \cap Dirs : f \in Reached(e)
        <5>1. PICK e \in Inside(d) \cap Dirs : f \in Reached(e)
          BY <4>2
        <5>2. Inside(f) \subseteq Reached(e)
          BY <1>2, <3>1, <5>1 DEF Closed
        <5>3. QED
          BY <5>1, <5>2
      <4>3. QED
        BY <3>1, <4>1, <4>2
    <3>2. QED
      BY <3>1 DEF Closed
  <2>3. QED
    <3> HIDE DEF R
    <3>1. Inside(d) \subseteq R
      BY DEF R
    <3>2. QED
      BY <2>1, <2>2, <3>1 DEF Reached
<1>5. QED
  BY <1>3, <1>4

\* Below is what its equation says.
LEMMA BelowIs ==
  ASSUME NEW d \in Dirs
  PROVE  Below[d] = Inside(d) \cup (UNION {Below[e] : e \in Inside(d) \cap Dirs})
<1> DEFINE Of(f) == [c \in Dirs |-> Range(Entries[c]) \cup
                                      (UNION {f[e] : e \in Range(Entries[c]) \cap Dirs})]
           reached == [c \in Dirs |-> Reached(c)]
<1>1. reached = Of(reached)
  <2>1. ASSUME NEW c \in Dirs PROVE reached[c] = Of(reached)[c]
    <3>1. \A e \in Inside(c) \cap Dirs : reached[e] = Reached(e)
      OBVIOUS
    <3>2. {reached[e] : e \in Inside(c) \cap Dirs} = {Reached(e) : e \in Inside(c) \cap Dirs}
      BY <3>1
    <3>3. QED
      BY <3>2, ReachedWorks DEF Inside
  <2>2. QED
    BY <2>1
<1>2. Below = CHOOSE f : f = Of(f)
  BY DEF Below
<1>3. Below = Of(Below)
  <2> HIDE DEF Of, reached
  <2>1. QED
    BY <1>1, <1>2
<1>4. QED
  BY <1>3 DEF Inside

TargetOf(d) == Below[d] \cup {d}

\* What is in a target is in it with all that it holds, as no directory is below itself.
LEMMA TargetClosed ==
  ASSUME NEW d \in Dirs
  PROVE  Closed(TargetOf(d))
<1> DEFINE D == {c \in Dirs : ~Closed(TargetOf(c))}
<1>1. ASSUME D # {} PROVE FALSE
  <2>1. D \in SUBSET Dirs
    OBVIOUS
  <2>2. PICK c \in D : Inside(c) \cap D = {}
    BY <1>1, <2>1, TreeAssumption DEF Inside, Dirs
  <2>3. PICK e \in TargetOf(c) \cap Dirs : ~(Inside(e) \subseteq TargetOf(c))
    BY <2>2 DEF Closed
  <2>4. \A b \in Inside(c) \cap Dirs : Below[b] \subseteq Below[c]
    BY <2>2, BelowIs
  <2>5. Inside(c) \subseteq Below[c]
    BY <2>2, BelowIs
  <2>6. CASE e \in {c} \cup Inside(c)
    <3>1. Inside(e) \subseteq Below[e]
      BY <2>3, BelowIs
    <3>2. QED
      BY <2>3, <2>4, <2>5, <2>6, <3>1 DEF TargetOf
  <2>7. CASE \E b \in Inside(c) \cap Dirs : e \in Below[b]
    <3>1. PICK b \in Inside(c) \cap Dirs : e \in Below[b]
      BY <2>7
    <3>2. Closed(TargetOf(b))
      BY <2>2, <3>1
    <3>3. Inside(e) \subseteq TargetOf(b)
      BY <2>3, <3>1, <3>2 DEF Closed, TargetOf
    <3>4. TargetOf(b) \subseteq TargetOf(c)
      BY <2>4, <2>5, <3>1 DEF TargetOf
    <3>5. QED
      BY <2>3, <3>3, <3>4
  <2>8. e = c \/ e \in Below[c]
    BY <2>3 DEF TargetOf
  <2>9. Below[c] = Inside(c) \cup (UNION {Below[b] : b \in Inside(c) \cap Dirs})
    BY <2>2, BelowIs
  <2>10. QED
    BY <2>6, <2>7, <2>8, <2>9
<1>2. QED
  BY <1>1

\* A closed set that has a directory has its whole target.
LEMMA TargetLeast ==
  ASSUME NEW X, Closed(X), NEW d \in X \cap Dirs
  PROVE  TargetOf(d) \subseteq X
<1> DEFINE D == {c \in X \cap Dirs : ~(Below[c] \subseteq X)}
<1>1. ASSUME D # {} PROVE FALSE
  <2>1. D \in SUBSET Dirs
    OBVIOUS
  <2>2. PICK c \in D : Inside(c) \cap D = {}
    BY <1>1, <2>1, TreeAssumption DEF Inside, Dirs
  <2>3. Inside(c) \subseteq X
    BY <2>2 DEF Closed
  <2>4. \A b \in Inside(c) \cap Dirs : Below[b] \subseteq X
    BY <2>2, <2>3
  <2>5. Below[c] = Inside(c) \cup (UNION {Below[b] : b \in Inside(c) \cap Dirs})
    BY <2>2, BelowIs
  <2>6. Below[c] \subseteq X
    BY <2>3, <2>4, <2>5
  <2>7. QED
    BY <2>2, <2>6
<1>2. QED
  BY <1>1 DEF TargetOf

-----------------------------------------------------------------------------
(* One target for each configuration file. *)

\* All that a scan knows of is in T.
ScanIn(T) ==
  /\ Range(out) \subseteq T /\ visited \subseteq T /\ Range(scan.rest) \subseteq T
  /\ scan.todo \subseteq T /\ scan.ready \subseteq T

LEMMA ScanInStep ==
  ASSUME NEW T, OnceInv, StoredOf(T), Closed(T), ScanIn(T), Scanning
  PROVE  ScanIn(T)'
<1>1. DOMAIN scan = {"todo", "ready", "rest", "sent"} /\ out \in Seq(Names)
  BY DEF OnceInv, ListTypes
<1>2. CASE UNCHANGED <<out, visited>> /\ scan'.rest = scan.rest /\ scan'.todo = scan.todo
           /\ scan'.ready = scan.ready
  BY <1>2 DEF ScanIn
<1>3. CASE (FinishClean \/ Store) /\ UNCHANGED visited
  BY <1>2, <1>3 DEF FinishClean, Store, Scanning
<1>4. CASE PumpRow /\ out' = out
  <2>1. PICK pos \in Nat, rows \in Seq(T) : pos = pump.pos /\ rows = pump.rows
    BY DEF StoredOf, PumpOf
  <2>2. pos + 1 \in 1 .. Len(rows)
    BY <1>4, <2>1, LenProperties DEF PumpRow
  <2>3. rows[pos + 1] \in T
    BY <2>1, <2>2, ElementOfSeq
  <2>4. /\ visited' = visited \cup {rows[pos + 1]} /\ scan'.rest = scan.rest
        /\ scan'.ready = scan.ready /\ scan'.todo \subseteq scan.todo \cup {rows[pos + 1]}
    BY <1>1, <1>4, <2>1 DEF PumpRow
  <2>5. QED
    BY <1>4, <2>3, <2>4 DEF ScanIn
<1>5. CASE Pump
  BY <1>2, <1>4, <1>5 DEF Pump, PumpEnd, PumpNext, PromoteSeal, Rename, Verify, Cleanup, Adopt
<1>6. CASE \E d \in Dirs : TakeBatch(d)
  <2>1. PICK d \in Dirs : TakeBatch(d)
    BY <1>6
  <2>2. /\ d \in scan.ready /\ visited' = visited \cup Range(Entries[d]) /\ out' = out
        /\ scan'.rest = Fresh(d) /\ scan'.todo = scan.todo /\ scan'.ready \subseteq scan.ready
    BY <1>1, <2>1 DEF TakeBatch
  <2>3. Inside(d) \subseteq T
    BY <2>2 DEF ScanIn, Closed
  <2>4. QED
    BY <2>2, <2>3, FreshWorks DEF ScanIn, Inside
<1>7. CASE DirKept \/ DirWaits \/ Recorded \/ Listed
  <2>1. /\ InBatch /\ visited' = visited /\ scan'.rest = Tail(scan.rest)
        /\ scan'.ready = scan.ready /\ scan'.todo \subseteq scan.todo \cup {NextEntry}
        /\ out' = out \/ out' = Append(out, NextEntry)
    BY <1>1, <1>7 DEF DirKept, DirWaits, Recorded, Listed, Rest
  <2>2. NextEntry \in Names /\ Range(scan.rest) = {NextEntry} \cup Range(Tail(scan.rest))
    BY <2>1, RestWorks
  <2>3. Range(Append(out, NextEntry)) = Range(out) \cup {NextEntry}
    BY <1>1, <2>2, AppendHas
  <2>4. QED
    BY <2>1, <2>2, <2>3 DEF ScanIn
<1>8. CASE BatchFull \/ BatchEnd \/ Loop
           \/ ((FpSeal \/ FpIndex) /\ UNCHANGED <<scan, out, visited>>)
  <2>1. UNCHANGED <<out, visited>> /\ scan'.rest = scan.rest /\ scan'.todo = scan.todo
        /\ scan'.ready = scan.ready
    BY <1>1, <1>8 DEF BatchFull, BatchEnd, Loop, DrainEnd, Check
  <2>2. QED
    BY <1>2, <2>1
<1>9. QED
  BY <1>3, <1>5, <1>6, <1>7, <1>8 DEF Scanning, Batch, ListOnly

Path(p) == <<"path", p>>

\* Whose rows may be there: those of the target in the configuration file, or of the one
\* about to be written into it.
Allowed ==
  IF mpc = "write" THEN TargetOf(cfg.path)
  ELSE UNION {TargetOf(p) : p \in {q \in Dirs : Path(q) \in Lines}}

LEMMA EmptyFiles ==
  ASSUME NEW S, NEW files \in FilesOf(S), DOMAIN files = {}
  PROVE  files = NoFiles
<1>1. PICK D \in Numbers : files \in [D -> FileOf(S)]
  BY DEF FilesOf
<1>2. D = {}
  BY <1>1
<1>3. QED
  BY <1>1, <1>2 DEF NoFiles

\* The last of the files to be deleted are still there, when nothing says whose.
LastWipe == cfg.clean /\ mpc = "wipe-fpbin"

\* Until something is lost a configuration file names one target.  Nothing is stored of
\* another, a run that has passed the check has this one, and scans nothing else.
TargetInv ==
  ~loose =>
    /\ ~LastWipe => StoredOf(Allowed)
    /\ LastWipe => ~OutOfReach
    /\ conf # NoConfig /\ mpc # "write" =>
         \E p \in Dirs : Path(p) \in conf /\ \A q \in Dirs : Path(q) \in conf => q = p
    /\ mpc \in {"confirm", "save"} /\ ~cfg.runone /\ conf # NoConfig => Path(cfg.path) \in conf
    /\ mpc = "begin" \/ mpc \notin Before => cfg.clean \/ Path(cfg.path) \in Lines
    /\ mpc \notin Before => ScanIn(TargetOf(cfg.path))

LEMMA AllowedIs ==
  ASSUME TargetInv, OptionsInv, ~loose, mpc # "write", Path(cfg.path) \in Lines
  PROVE  Allowed = TargetOf(cfg.path)
<1>1. conf # NoConfig /\ Lines = conf /\ cfg.path \in Dirs
  BY DEF Lines, OptionsInv, ConfigOf
<1>2. \A q \in Dirs : Path(q) \in Lines <=> q = cfg.path
  BY <1>1 DEF TargetInv
<1>3. {q \in Dirs : Path(q) \in Lines} = {cfg.path}
  BY <1>1, <1>2
<1>4. QED
  BY <1>3 DEF Allowed

LEMMA NobodysRows ==
  ASSUME conf = NoConfig, mpc # "write"
  PROVE  Allowed = {}
BY DEF Allowed, Lines

LEMMA TargetInit == SessionInit => TargetInv
<1> SUFFICES ASSUME SessionInit PROVE TargetInv
  OBVIOUS
<1>1. Allowed = {}
  BY NobodysRows DEF SessionInit, Init
<1>2. PICK S : S = {}
  OBVIOUS
<1>3. NoDisk \in DiskOf(S)
  BY NoFilesHave, EmptySeq DEF NoDisk, DiskOf
<1>4. StoredOf(S)
  BY <1>3, NoneHave DEF SessionInit, Init, StoredOf
<1>5. QED
  BY <1>1, <1>2, <1>4 DEF SessionInit, Init, TargetInv, LastWipe, Before

\* Nothing is there to be stored before the scan.
LEMMA FilesKept ==
  ASSUME NEW S, OnceInv, KnownInv, StoredOf(S), [SessionNext]_sessionVars,
         mpc # "batch" \/ mpc' = "off" \/ scan'.rest = scan.rest
  PROVE  StoredOf(S)'
<1>1. FileInv(S)
  BY DEF KnownInv, FileInv
<1>2. ~(DirKept \/ Recorded)
  <2>1. CASE mpc # "batch"
    BY <2>1 DEF DirKept, Recorded, InBatch
  <2>2. CASE mpc' = "off"
    BY <2>2 DEF DirKept, Recorded, InBatch, FpAppend, FpKeep, FpSpill
  <2>3. CASE scan'.rest = scan.rest /\ InBatch
    <3>1. scan.rest # Tail(scan.rest)
      BY <2>3, RestWorks
    <3>2. DOMAIN scan = {"todo", "ready", "rest", "sent"}
      BY DEF OnceInv, ListTypes
    <3>3. QED
      BY <2>3, <3>1, <3>2 DEF DirKept, Recorded, Rest
  <2>4. QED
    BY <2>1, <2>2, <2>3 DEF DirKept, Recorded
<1>3. FileInv(S)'
  BY <1>1, <1>2, FilesStep
<1>4. QED
  BY <1>3 DEF FileInv

LEMMA TargetOpening ==
  ASSUME OnceInv, KnownInv, OptionsInv, CleanInv, TargetInv, CleanInv', OptionsInv',
         Opening, ~loose'
  PROVE  TargetInv'
<1>1. ~loose /\ cfg \in ConfigOf /\ mpc \in Before
  <2>1. ~loose
    BY DEF Opening, WipeIndex, WipeSlice, WipeArchive, WipeConfig, WipeFpbin, LoadConfig,
           Confirm, Truncate, WriteConfig, Begin
  <2>2. mpc \in Before
    BY DEF Opening, At, WipeIndex, WipeSlice, WipeArchive, WipeConfig, WipeFpbin,
           LoadConfig, Confirm, Truncate, WriteConfig, Begin, Before
  <2>3. QED
    BY <2>1, <2>2 DEF OptionsInv
<1>2. [SessionNext]_sessionVars /\ mpc # "batch"
  BY <1>1 DEF SessionNext, Before
<1>3. ASSUME UNCHANGED <<conf, cfg>>, mpc # "write", mpc' # "write", ~LastWipe,
             ~LastWipe', mpc' \in Before, mpc' \notin {"confirm", "save", "begin"}
      PROVE  TargetInv'
  <2>1. PICK S : S = Allowed
    OBVIOUS
  <2>2. StoredOf(S) /\ S = Allowed'
    BY <1>1, <1>3, <2>1 DEF TargetInv, Allowed, Lines
  <2>3. StoredOf(S)'
    BY <1>2, <2>2, FilesKept
  <2>4. StoredOf(Allowed)'
    BY <2>2, <2>3 DEF StoredOf
  <2>5. QED
    BY <1>1, <1>3, <2>4 DEF TargetInv
<1>4. CASE WipeIndex \/ WipeSlice \/ WipeArchive
  BY <1>3, <1>4 DEF WipeIndex, WipeSlice, WipeArchive, At, LastWipe, Before
<1>5. CASE WipeConfig
  <2>1. LastWipe' /\ conf' = NoConfig /\ ~OutOfReach'
    BY <1>5 DEF WipeConfig, At, LastWipe, OptionsInv, OutOfReach
  <2>2. QED
    BY <2>1 DEF TargetInv, LastWipe, Before
<1>6. CASE WipeFpbin
  <2>1. /\ mpc = "wipe-fpbin" /\ mpc' = (IF cfg.runone THEN "confirm" ELSE "load")
        /\ conf' = conf /\ cfg' = [cfg EXCEPT !.continue_mode = FALSE]
    BY <1>6 DEF WipeFpbin, At
  <2>2. cfg'.path = cfg.path /\ cfg'.runone = cfg.runone /\ cfg'.clean = cfg.clean
    BY <1>1, <2>1 DEF ConfigOf
  <2>3. PICK S : S = Allowed
    OBVIOUS
  <2>4. S = Allowed'
    BY <2>1, <2>3 DEF Allowed, Lines
  <2>5. StoredOf(S)'
    <3>1. CASE cfg.clean
      <4>1. mpc' \in Swept
        BY <2>1 DEF Swept
      <4>2. NothingKept' /\ disk' = NoDisk /\ conf' = NoConfig
        <5>1. NothingKept' /\ OnlyFar' /\ conf' = NoConfig
          BY <2>2, <3>1, <4>1 DEF CleanInv
        <5>2. ~OutOfReach /\ disk' = WithoutFp(disk, FpReach)
          BY <1>1, <1>6, <2>1, <3>1 DEF TargetInv, LastWipe, WipeFpbin
        <5>3. PICK T : T = Seen
          OBVIOUS
        <5>4. disk \in DiskOf(T) /\ disk' \in DiskOf(T)
          BY <5>2, <5>3, DiskCuts DEF KnownInv, FileInv, StoredOf
        <5>5. DOMAIN disk'.slices = {}
          <6>1. disk'.slices = disk.slices /\ DOMAIN disk.slices \in SUBSET Nat
            BY <5>2, <5>4, DiskCuts, SliceRows DEF KnownInv, FileInv
          <6>2. QED
            BY <5>1, <5>2, <6>1 DEF OnlyFar, FarSlices, OutOfReach
        <5>6. DOMAIN disk'.fp = {}
          <6>1. disk'.fp = Restrict(disk.fp, {i \in DOMAIN disk.fp : i >= FpReach})
            BY <5>2, <5>4 DEF WithoutFp, DiskOf
          <6>2. QED
            BY <5>2, <6>1 DEF OutOfReach, Restrict
        <5>7. disk'.slices = NoFiles /\ disk'.fp = NoFiles
          BY <5>4, <5>5, <5>6, EmptyFiles DEF DiskOf
        <5>8. QED
          BY <5>1, <5>4, <5>7 DEF OnlyFar, DiskOf, NoDisk
      <4>3. promo' \in [start : Nat, next : Nat]
        <5>1. PICK T : T = Seen
          OBVIOUS
        <5>2. StoredOf(T)'
          BY <1>2, <5>1, FilesKept DEF KnownInv, FileInv
        <5>3. QED
          BY <5>2 DEF StoredOf
      <4>4. NoDisk \in DiskOf(S)
        BY NoFilesHave, EmptySeq DEF NoDisk, DiskOf
      <4>5. QED
        BY <4>2, <4>3, <4>4, NoneHave DEF NothingKept, StoredOf
    <3>2. CASE ~cfg.clean
      BY <1>1, <1>2, <2>3, <3>2, FilesKept DEF TargetInv, LastWipe
    <3>3. QED
      BY <3>1, <3>2
  <2>6. StoredOf(Allowed)'
    BY <2>4, <2>5 DEF StoredOf
  <2>7. QED
    BY <1>1, <2>1, <2>2, <2>6 DEF TargetInv, LastWipe, Before
<1>7. CASE LoadConfig
  <2>1. /\ mpc = "load" /\ mpc' = "confirm" /\ conf' = conf /\ Agrees
        /\ cfg'.path = cfg.path
    BY <1>1, <1>7 DEF LoadConfig, At, ConfigOf
  <2>2. PICK S : S = Allowed
    OBVIOUS
  <2>3. StoredOf(S) /\ S = Allowed'
    BY <1>1, <2>1, <2>2 DEF TargetInv, Allowed, Lines, LastWipe
  <2>4. StoredOf(S)'
    BY <1>2, <2>3, FilesKept
  <2>5. StoredOf(Allowed)'
    BY <2>3, <2>4 DEF StoredOf
  <2>6. ASSUME conf # NoConfig PROVE Path(cfg.path) \in conf
    <3>1. PICK p \in Dirs : Path(p) \in conf
      BY <1>1, <2>1, <2>6 DEF TargetInv
    <3>2. Path(p)[1] = "path" /\ Path(p)[2] = p
      BY DEF Path
    <3>3. p = cfg.path
      BY <2>1, <2>6, <3>1, <3>2 DEF Agrees, Lines
    <3>4. QED
      BY <3>1, <3>3
  <2>7. QED
    BY <1>1, <2>1, <2>5, <2>6 DEF TargetInv, LastWipe, Before
<1>8. CASE Confirm
  <2>1. /\ mpc = "confirm" /\ mpc' \in {"save", "begin"} /\ conf' = conf /\ cfg' = cfg
    BY <1>8 DEF Confirm, At
  <2>2. PICK S : S = Allowed
    OBVIOUS
  <2>3. StoredOf(S) /\ S = Allowed'
    BY <1>1, <2>1, <2>2 DEF TargetInv, Allowed, Lines, LastWipe
  <2>4. StoredOf(S)'
    BY <1>2, <2>3, FilesKept
  <2>5. StoredOf(Allowed)'
    BY <2>3, <2>4 DEF StoredOf
  <2>6. mpc' = "begin" => cfg.clean \/ (conf # NoConfig /\ ~cfg.runone)
    BY <1>8 DEF Confirm, At, History
  <2>7. QED
    BY <1>1, <2>1, <2>5, <2>6 DEF TargetInv, LastWipe, Before, Lines
<1>9. CASE Truncate
  <2>1. /\ mpc = "save" /\ mpc' = "write" /\ cfg' = cfg /\ (cfg.runone => conf = NoConfig)
    BY <1>9 DEF Truncate, At
  <2>2. PICK S : S = TargetOf(cfg.path)
    OBVIOUS
  <2>3. StoredOf(S)
    <3>1. CASE conf = NoConfig
      <4>1. Allowed = {}
        BY <2>1, <3>1, NobodysRows
      <4>2. PICK T : T = Allowed
        OBVIOUS
      <4>3. StoredOf(T) /\ T \subseteq S
        BY <1>1, <2>1, <4>1, <4>2 DEF TargetInv, LastWipe
      <4>4. QED
        BY <4>3, StoredGrows
    <3>2. CASE conf # NoConfig
      <4>1. Path(cfg.path) \in Lines
        BY <1>1, <2>1, <3>2 DEF TargetInv, Lines
      <4>2. Allowed = S
        BY <1>1, <2>1, <2>2, <4>1, AllowedIs
      <4>3. QED
        BY <1>1, <2>1, <4>2 DEF TargetInv, LastWipe
    <3>3. QED
      BY <3>1, <3>2
  <2>4. StoredOf(S)'
    BY <1>2, <2>1, <2>3, FilesKept
  <2>5. Allowed' = S
    BY <2>1, <2>2 DEF Allowed
  <2>6. StoredOf(Allowed)'
    BY <2>4, <2>5 DEF StoredOf
  <2>7. QED
    BY <2>1, <2>6 DEF TargetInv, LastWipe, Before
<1>10. CASE WriteConfig
  <2>1. /\ mpc = "write" /\ mpc' = "begin" /\ cfg' = cfg
        /\ conf' = {Path(cfg.path), <<"archive", cfg.archive>>, <<"status", "Running">>}
    BY <1>10 DEF WriteConfig, At, Path
  <2>2. cfg.path \in Dirs
    BY <1>1 DEF ConfigOf
  <2>3. \A q : Path(q) \in conf' <=> q = cfg.path
    BY <2>1 DEF Path
  <2>4. conf' # NoConfig /\ Lines' = conf'
    <3>1. conf' \subseteq ConfigLines
      BY <1>1, <2>1, <2>2 DEF ConfigOf, ConfigLines, Path
    <3>2. QED
      BY <3>1, NoConfigAssumption DEF Lines
  <2>5. PICK S : S = Allowed
    OBVIOUS
  <2>6. S = TargetOf(cfg.path) /\ StoredOf(S)
    BY <1>1, <2>1, <2>5 DEF TargetInv, LastWipe, Allowed
  <2>7. StoredOf(S)'
    BY <1>2, <2>6, FilesKept
  <2>8. {q \in Dirs : Path(q) \in conf'} = {cfg.path}
    BY <2>2, <2>3
  <2>9. Allowed' = S
    BY <2>1, <2>4, <2>6, <2>8 DEF Allowed
  <2>10. StoredOf(Allowed)'
    BY <2>7, <2>9 DEF StoredOf
  <2>11. QED
    BY <2>1, <2>2, <2>3, <2>4, <2>10 DEF TargetInv, LastWipe, Before
<1>11. CASE Begin
  <2>1. /\ mpc = "begin" /\ mpc' \in {"promote", "drain"} /\ conf' = conf /\ cfg' = cfg
        /\ scan' = [NoScan EXCEPT !.todo = {cfg.path}] /\ out' = out
        /\ visited' \in {Loaded, {}}
    BY <1>11 DEF Begin, Restore, Afresh
  <2>2. PICK S : S = Allowed
    OBVIOUS
  <2>3. StoredOf(S) /\ S = Allowed'
    BY <1>1, <2>1, <2>2 DEF TargetInv, Allowed, Lines, LastWipe
  <2>4. StoredOf(S)'
    BY <1>2, <2>1, <2>3, FilesKept
  <2>5. StoredOf(Allowed)'
    BY <2>3, <2>4 DEF StoredOf
  <2>6. S \subseteq TargetOf(cfg.path)
    <3>1. CASE cfg.clean
      <4>1. conf = NoConfig
        BY <2>1, <3>1 DEF CleanInv, Swept
      <4>2. QED
        BY <2>1, <2>2, <4>1, NobodysRows
    <3>2. CASE Path(cfg.path) \in Lines
      BY <1>1, <2>1, <2>2, <3>2, AllowedIs
    <3>3. QED
      BY <1>1, <2>1, <3>1, <3>2 DEF TargetInv
  <2>7. Loaded \subseteq S
    BY <2>3, LoadedIsStored
  <2>8. ScanIn(TargetOf(cfg.path))'
    <3>1. out = <<>>
      BY <2>1 DEF OnceInv, Before
    <3>2. /\ scan'.rest = <<>> /\ scan'.todo = {cfg.path} /\ scan'.ready = {}
      BY <2>1 DEF NoScan
    <3>3. QED
      BY <2>1, <2>6, <2>7, <3>1, <3>2, NothingListed DEF ScanIn, TargetOf
  <2>9. QED
    BY <1>1, <2>1, <2>5, <2>8 DEF TargetInv, LastWipe, Before, Lines
<1>12. QED
  BY <1>4, <1>5, <1>6, <1>7, <1>8, <1>9, <1>10, <1>11 DEF Opening

LEMMA TargetScanning ==
  ASSUME OnceInv, KnownInv, OptionsInv, CleanInv, TargetInv, Scanning, ~loose'
  PROVE  TargetInv'
<1>1. /\ ~loose /\ UNCHANGED <<cfg, conf>> /\ mpc \notin Before /\ mpc' \notin Before
      /\ cfg.path \in Dirs
  BY ScanStays DEF Scanning, OptionsInv, ConfigOf
<1>2. PICK T : T = TargetOf(cfg.path)
  OBVIOUS
<1>3. PICK S : S = Allowed
  OBVIOUS
<1>4. StoredOf(S) /\ S = Allowed'
  BY <1>1, <1>3 DEF TargetInv, LastWipe, Allowed, Lines, Before
<1>5. ScanIn(T) /\ Closed(T)
  BY <1>1, <1>2, TargetClosed DEF TargetInv
<1>6. S \subseteq T
  <2>1. CASE cfg.clean
    <3>1. conf = NoConfig
      BY <1>1, <2>1 DEF CleanInv, Before
    <3>2. QED
      BY <1>1, <1>3, <3>1, NobodysRows DEF Before
  <2>2. CASE Path(cfg.path) \in Lines
    BY <1>1, <1>2, <1>3, <2>2, AllowedIs DEF Before
  <2>3. QED
    BY <1>1, <2>1, <2>2 DEF TargetInv
<1>7. ScanIn(T)'
  <2>1. StoredOf(T)
    BY <1>4, <1>6, StoredGrows
  <2>2. QED
    BY <1>5, <2>1, ScanInStep
<1>8. StoredOf(S)'
  <2>1. CASE DirKept \/ Recorded
    <3>1. ~cfg.clean
      <4>1. ASSUME cfg.clean PROVE FALSE
        <5>1. NothingKept /\ ~cfg.continue_mode
          BY <1>1, <4>1 DEF CleanInv, NothingKept, Before
        <5>2. CASE DirKept
          BY <5>1, <5>2 DEF NothingKept, DirKept, NoPump
        <5>3. CASE Recorded
          <6>1. recBatch = <<>> /\ recBatch' = Append(recBatch, NextEntry) /\ NextEntry \in Names
            BY <5>1, <5>3, RestWorks DEF NothingKept, NewBatch, Recorded
          <6>2. mpc \in Swept
            BY <1>1, <4>1 DEF CleanInv, Before
          <6>3. recBatch' = recBatch
            BY <4>1, <6>2, NothingIsWritten
          <6>4. QED
            BY <6>1, <6>3
        <5>4. QED
          BY <2>1, <5>2, <5>3
      <4>2. QED
        BY <4>1
    <3>2. S = T
      BY <1>1, <1>2, <1>3, <3>1, AllowedIs DEF TargetInv, Before
    <3>3. NextEntry \in T
      BY <1>5, <2>1, RestWorks DEF DirKept, Recorded, ScanIn
    <3>4. FileInv(S)
      BY <1>4 DEF KnownInv, FileInv
    <3>5. [SessionNext]_sessionVars
      BY DEF SessionNext
    <3>6. FileInv(S)'
      BY <3>2, <3>3, <3>4, <3>5, FilesStep
    <3>7. QED
      BY <3>6 DEF FileInv
  <2>2. CASE ~(DirKept \/ Recorded)
    <3>4. FileInv(S)
      BY <1>4 DEF KnownInv, FileInv
    <3>5. [SessionNext]_sessionVars
      BY DEF SessionNext
    <3>6. FileInv(S)'
      BY <2>2, <3>4, <3>5, FilesStep
    <3>7. QED
      BY <3>6 DEF FileInv
  <2>3. QED
    BY <2>1, <2>2
<1>9. StoredOf(Allowed)'
  BY <1>4, <1>8 DEF StoredOf
<1>10. ScanIn(TargetOf(cfg.path))'
  BY <1>1, <1>2, <1>7 DEF ScanIn
<1>11. QED
  BY <1>1, <1>9, <1>10 DEF TargetInv, LastWipe, Before, Lines

LEMMA TargetStep ==
  ASSUME OnceInv, KnownInv, OptionsInv, CleanInv, TargetInv, CleanInv', OptionsInv',
         [SessionNext]_sessionVars
  PROVE  TargetInv'
<1> SUFFICES ASSUME ~loose' PROVE TargetInv'
  BY DEF TargetInv
<1>1. ASSUME ~loose, mpc # "write", mpc' # "write", ~LastWipe,
             mpc # "batch" \/ mpc' = "off" \/ scan'.rest = scan.rest,
             {q \in Dirs : Path(q) \in Lines} = {q \in Dirs : Path(q) \in Lines'}
      PROVE  StoredOf(Allowed)'
  <2>1. PICK S : S = Allowed
    OBVIOUS
  <2>2. StoredOf(S) /\ S = Allowed'
    BY <1>1, <2>1 DEF TargetInv, Allowed
  <2>3. StoredOf(S)'
    BY <1>1, <2>2, FilesKept
  <2>4. QED
    BY <2>2, <2>3 DEF StoredOf
<1>2. CASE \E launch \in Launches : Launch(launch)
  <2>1. /\ mpc = "off" /\ mpc' \in {"wipe-index", "load"} /\ conf' = conf /\ loose' = loose
    BY <1>2 DEF Launch
  <2>2. StoredOf(Allowed)'
    BY <1>1, <2>1 DEF LastWipe, Lines
  <2>3. QED
    BY <2>1, <2>2 DEF TargetInv, LastWipe, Before
<1>3. CASE Opening
  BY <1>3, TargetOpening
<1>4. CASE Scanning
  BY <1>4, TargetScanning
<1>5. CASE Finish
  <2>1. /\ mpc = "end" /\ mpc' = "off" /\ cfg' = cfg /\ loose' = loose
        /\ conf' = IF cfg.clean THEN conf ELSE Lines \cup {<<"status", "Success">>}
    BY <1>5 DEF Finish, Gone
  <2>2. CASE cfg.clean
    <3>1. StoredOf(Allowed)'
      BY <1>1, <2>1, <2>2 DEF LastWipe, Lines
    <3>2. QED
      BY <2>1, <2>2, <3>1 DEF TargetInv, LastWipe, Before
  <2>3. CASE ~cfg.clean
    <3>1. conf # NoConfig /\ Lines = conf
      BY <2>1, <2>3 DEF TargetInv, Lines, Before
    <3>2. conf' = conf \cup {<<"status", "Success">>} /\ conf' # NoConfig /\ Lines' = conf'
      <4>1. conf' = conf \cup {<<"status", "Success">>} /\ conf' \subseteq ConfigLines
        BY <2>1, <2>3, <3>1 DEF OptionsInv, ConfigLines
      <4>2. QED
        BY <4>1, NoConfigAssumption DEF Lines
    <3>3. \A q : Path(q) \in conf' <=> Path(q) \in conf
      BY <3>2 DEF Path
    <3>4. StoredOf(Allowed)'
      BY <1>1, <2>1, <3>1, <3>2, <3>3 DEF LastWipe
    <3>5. QED
      BY <2>1, <3>1, <3>3, <3>4 DEF TargetInv, LastWipe, Before
  <2>4. QED
    BY <2>2, <2>3
<1>6. CASE Leave \/ Kill
  <2>1. mpc' = "off" /\ conf' = conf
    BY <1>6 DEF Leave, Kill, Crash, Gone
  <2>2. ~loose /\ mpc # "write" /\ ~LastWipe
    <3>1. CASE Leave
      BY <3>1 DEF Leave, Refuse, LastWipe
    <3>2. CASE Kill
      BY <3>2 DEF Kill, LastWipe
    <3>3. QED
      BY <1>6, <3>1, <3>2
  <2>3. StoredOf(Allowed)'
    BY <1>1, <2>1, <2>2 DEF Lines
  <2>4. QED
    BY <2>1, <2>2, <2>3 DEF TargetInv, LastWipe, Before
<1>7. CASE Background
  <2>1. UNCHANGED <<mpc, cfg, conf, loose, out, visited>>
    BY <1>7 DEF Background, Stdio, ScanDone, WriteBack, FpWriteBack
  <2>2. scan'.rest = scan.rest /\ scan'.todo \subseteq scan.todo
        /\ scan'.ready \subseteq scan.ready \cup scan.todo
    BY <1>7, ZenonT(60) DEF Background, Stdio, ScanDone, OnceInv, ListTypes
  <2>3. mpc \notin Before => ScanIn(TargetOf(cfg.path))'
    BY <2>1, <2>2, SMTT(30) DEF TargetInv, ScanIn
  <2>4. PICK S : S = Allowed
    OBVIOUS
  <2>5. S = Allowed'
    BY <2>1, <2>4 DEF Allowed, Lines
  <2>6. ~LastWipe => StoredOf(S)'
    BY <2>1, <2>2, <2>4, FilesKept DEF TargetInv
  <2>7. ~LastWipe' => StoredOf(Allowed)'
    BY <2>1, <2>5, <2>6 DEF StoredOf, LastWipe
  <2>8. LastWipe' => ~OutOfReach'
    <3>1. SUFFICES ASSUME LastWipe PROVE ~OutOfReach'
      BY <2>1 DEF LastWipe
    <3>2. ~w.open /\ ~fpb.open
      BY <3>1 DEF LastWipe, OptionsInv, Unscanned, Before, NoWriter, NoFp
    <3>3. disk' = disk
      BY <1>7, <3>2 DEF Background, Stdio, ScanDone, WriteBack, FpWriteBack
    <3>4. ~loose
      BY <2>1
    <3>5. QED
      BY <3>1, <3>3, <3>4 DEF TargetInv, OutOfReach
  <2>9. QED
    BY <2>1, <2>3, <2>7, <2>8, SMTT(30) DEF TargetInv, Lines
<1>8. CASE UNCHANGED sessionVars
  <2>1. StoredOf(Allowed)' <=> StoredOf(Allowed)
    BY <1>8 DEF sessionVars, vars, StoredOf, Allowed, Lines
  <2>2. QED
    BY <1>8, <2>1 DEF sessionVars, vars, TargetInv, ScanIn, Lines, LastWipe,
                        OutOfReach
<1>9. QED
  BY <1>2, <1>3, <1>4, <1>5, <1>6, <1>7, <1>8 DEF SessionNext

\* A run lists and takes for known only what is below its target, whatever targets the
\* runs before it had and wherever they were killed; --runone, two moments at which a
\* kill leaves rows without a name, and files out of the reach of --clean apart.
THEOREM TargetsKeptApart == SessionSpec => []TargetsApart
<1>1. OnceInv /\ OptionsInv /\ TargetInv => TargetsApart
  <2> SUFFICES ASSUME OnceInv, OptionsInv, TargetInv, mpc # "off", ~loose
               PROVE  Range(out) \cup visited \subseteq TargetOf(cfg.path)
    BY DEF TargetsApart, TargetOf
  <2>1. CASE mpc \in Before
    BY <2>1, NothingListed DEF OnceInv, OptionsInv, Unscanned
  <2>2. CASE mpc \notin Before
    BY <2>2 DEF TargetInv, ScanIn
  <2>3. QED
    BY <2>1, <2>2
<1>2. OnceInv /\ KnownInv /\ OptionsInv /\ CleanInv /\ TargetInv /\ [SessionNext]_sessionVars =>
        (OnceInv /\ KnownInv /\ OptionsInv /\ CleanInv /\ TargetInv)'
  BY OnceStep, KnownStep, OptionsStep, CleanStep, TargetStep
<1>3. QED
  BY <1>1, <1>2, OnceInit, KnownInit, OptionsInit, CleanInit, TargetInit, PTL DEF SessionSpec

-----------------------------------------------------------------------------
(* A run that starts afresh lists its whole target. *)

Rotation == {"seal", "retire", "unlink", "reopen", "index", "end"}

\* In the middle of a batch a rotation has a row in hand, so that it goes back to it.
RotationInv == mpc \in Rotation /\ scan.rest # <<>> => mpc # "end" /\ recBatch # NewBatch

FreshPlaces == {"drain", "batch", "pump", "check", "flush"} \cup Rotation

\* Every directory that is known is waiting to be scanned or in a worker's hands, or is
\* about to be handed out, or all it holds is known; and at the end there is nothing to
\* be scanned.
Spread ==
  /\ mpc \in FreshPlaces /\ pump = NoPump
  /\ visited \subseteq Range(out) \cup Range(scan.rest) \cup waited
  /\ \A d \in (visited \cup {cfg.path}) \cap Dirs :
       d \in scan.todo \cup scan.ready \cup Range(scan.rest) \/ Inside(d) \subseteq visited
  /\ mpc \in {"flush"} \cup Rotation /\ scan.rest = <<>> => scan.todo = {} /\ scan.ready = {}

FreshInv ==
  /\ RotationInv
  /\ ~resumed /\ mpc \notin Before => Spread
  /\ AfreshComplete

LEMMA FreshInit == SessionInit => FreshInv
BY DEF SessionInit, Init, FreshInv, RotationInv, Rotation, AfreshComplete, Before

LEMMA RotationStep ==
  ASSUME OnceInv, OptionsInv, CleanInv, RotationInv, [SessionNext]_sessionVars
  PROVE  RotationInv'
<1>d. DOMAIN scan = {"todo", "ready", "rest", "sent"}
  BY DEF OnceInv, ListTypes
<1>1. CASE mpc' \notin Rotation
  BY <1>1 DEF RotationInv
<1>2. CASE Scanning /\ mpc' \in Rotation
  <2>1. CASE FinishClean
    <3>1. mpc = "index" /\ scan' = scan /\ recBatch = NewBatch
      BY <2>1 DEF FinishClean, CleanInv, Swept, NothingKept
    <3>2. scan'.rest = <<>>
      BY <3>1 DEF RotationInv, Rotation
    <3>3. QED
      BY <3>2 DEF RotationInv
  <2>2. CASE Store
    <3>1. scan' = scan
      BY <2>2 DEF Store
    <3>2. CASE FlushEnd
      BY <1>2, <3>1, <3>2 DEF FlushEnd, RotationInv, Rotation
    <3>3. CASE OpenSlice \/ RecordRow
      BY <1>2, <3>1, <3>3 DEF OpenSlice, RecordRow, RotationInv, Rotation, NewBatch
    <3>4. CASE Seal \/ Retire \/ Unlink \/ Reopen
      BY <1>2, <3>1, <3>4 DEF Seal, Retire, Unlink, Reopen, AfterSeal, RotationInv, Rotation
    <3>5. CASE UpdateIndex
      BY <1>2, <3>1, <3>5 DEF UpdateIndex, RotationInv, Rotation, Finishing
    <3>6. QED
      BY <2>2, <3>2, <3>3, <3>4, <3>5 DEF Store
  <2>3. CASE Pump \/ Batch \/ ListOnly \/ Loop
    BY <1>2, <2>3 DEF Pump, PumpEnd, PumpRow, PumpNext, PromoteSeal, Rename, Verify, Cleanup,
          Adopt, Batch, ListOnly, Loop, DrainEnd, Check, TakeBatch, DirKept, DirWaits,
          Recorded, Listed, BatchFull, BatchEnd, FpAppend, FpKeep, FpSpill, FpSeal, FpIndex,
          InBatch, Rotation
  <2>4. QED
    BY <1>2, <2>1, <2>2, <2>3 DEF Scanning
<1>3. CASE \E launch \in Launches : Launch(launch)
  BY <1>3 DEF Launch, RotationInv, Rotation
<1>4. CASE Opening
  BY <1>4 DEF Opening, At, WipeIndex, WipeSlice, WipeArchive, WipeConfig, WipeFpbin,
          LoadConfig, Confirm, Truncate, WriteConfig, Begin, Restore, Afresh, RotationInv,
          Rotation
<1>5. CASE Finish \/ Leave \/ Kill
  BY <1>5 DEF Finish, Leave, Kill, Crash, Gone, RotationInv, Rotation
<1>6. CASE Background
  <2>1. mpc' = mpc /\ recBatch' = recBatch
    BY <1>6 DEF Background, Stdio, ScanDone, WriteBack, FpWriteBack
  <2>2. scan'.rest = scan.rest
    BY <1>d, <1>6 DEF Background, Stdio, ScanDone
  <2>3. QED
    BY <2>1, <2>2 DEF RotationInv
<1>7. CASE UNCHANGED sessionVars
  BY <1>7 DEF sessionVars, vars, RotationInv
<1>8. QED
  BY <1>1, <1>2, <1>3, <1>4, <1>5, <1>6, <1>7 DEF SessionNext

LEMMA SpreadStep ==
  ASSUME OnceInv, OptionsInv, Spread, Scanning, mpc \notin Before, ~resumed
  PROVE  Spread'
<1>d. DOMAIN scan = {"todo", "ready", "rest", "sent"} /\ out \in Seq(Names) /\ cfg' = cfg
  BY DEF OnceInv, ListTypes, Scanning
<1>p. pump = NoPump /\ ~pump.open /\ pump.state # "OLD" /\ mpc \in FreshPlaces
  BY DEF Spread, NoPump
<1>1. ASSUME UNCHANGED <<out, visited, waited, pump>>, scan'.rest = scan.rest,
             scan'.todo = scan.todo, scan'.ready = scan.ready, mpc' \in FreshPlaces,
             mpc' \in {"flush"} \cup Rotation /\ scan.rest = <<>> =>
               mpc \in {"flush"} \cup Rotation \/ (scan.todo = {} /\ scan.ready = {})
      PROVE  Spread'
  BY <1>1, <1>d DEF Spread
<1>2. CASE FinishClean /\ UNCHANGED <<visited, waited>>
  BY <1>1, <1>2 DEF FinishClean, FreshPlaces, Rotation
<1>3. CASE Store /\ UNCHANGED <<visited, waited>>
  <2>1. pump' = pump /\ UNCHANGED <<scan, out>>
    BY <1>3, <1>p DEF Store, OpenSlice, RecordRow, FlushEnd, Seal, Retire, Unlink, Reopen,
                      UpdateIndex, OpenForWriting, PumpSees
  <2>2. /\ mpc \in {"flush"} \cup Rotation
        /\ mpc' \in {"flush", "batch"} \cup Rotation
    BY <1>3 DEF Store, OpenSlice, RecordRow, FlushEnd, Seal, Retire, Unlink, Reopen,
                UpdateIndex, FinalStep, AfterSeal, Rotation
  <2>3. QED
    BY <1>1, <1>3, <2>1, <2>2 DEF FreshPlaces
<1>4. CASE Pump /\ waited' = waited
  <2>1. PumpEnd
    BY <1>p, <1>4 DEF Pump, PumpRow, PumpNext, PumpFull, PromoteSeal, Rename, Verify, Cleanup,
                      Adopt, FreshPlaces, Rotation
  <2>2. QED
    BY <1>1, <1>4, <2>1 DEF PumpEnd, Pump, FreshPlaces, Rotation
<1>5. CASE \E d \in Dirs : TakeBatch(d)
  <2>1. PICK d \in Dirs : TakeBatch(d)
    BY <1>5
  <2>2. /\ mpc = "drain" /\ mpc' = "batch" /\ UNCHANGED <<out, pump, waited>>
        /\ visited' = visited \cup Inside(d) /\ scan'.rest = Fresh(d)
        /\ scan'.todo = scan.todo /\ scan'.ready = scan.ready \ {d}
    BY <1>d, <2>1 DEF TakeBatch, Inside
  <2>3. scan.rest = <<>> /\ Range(scan.rest) = {}
    BY <2>2, NothingListed DEF OnceInv, InBatchPlaces
  <2>4. Range(Fresh(d)) = Inside(d) \ visited
    BY FreshWorks DEF Inside
  <2>5. visited' \subseteq Range(out) \cup Range(scan'.rest) \cup waited
    BY <2>2, <2>3, <2>4 DEF Spread
  <2>6. ASSUME NEW e \in (visited' \cup {cfg.path}) \cap Dirs
        PROVE  \/ e \in scan'.todo \cup scan'.ready \cup Range(scan'.rest)
               \/ Inside(e) \subseteq visited'
    <3>1. CASE e = d
      BY <2>2, <3>1
    <3>2. CASE e \in Inside(d) \ visited
      BY <2>2, <2>4, <3>2
    <3>3. CASE e # d /\ e \in visited \cup {cfg.path}
      BY <2>2, <2>3, <2>6, <3>3 DEF Spread
    <3>4. QED
      BY <2>2, <2>6, <3>1, <3>2, <3>3
  <2>7. QED
    BY <1>d, <2>2, <2>5, <2>6 DEF Spread, FreshPlaces, Rotation
<1>6. CASE DirWaits \/ Recorded \/ Listed
  <2>1. /\ InBatch /\ visited' = visited /\ mpc' = mpc /\ pump' = pump
        /\ scan'.rest = Tail(scan.rest) /\ scan'.ready = scan.ready
        /\ scan'.todo = scan.todo \cup ({NextEntry} \cap Dirs)
        /\ \/ out' = Append(out, NextEntry) /\ waited' = waited
           \/ out' = out /\ waited' = waited \cup {NextEntry}
    BY <1>d, <1>6 DEF DirWaits, Recorded, Listed, Rest
  <2>2. NextEntry \in Names /\ Range(scan.rest) = {NextEntry} \cup Range(Tail(scan.rest))
    BY <2>1, RestWorks
  <2>3. Range(Append(out, NextEntry)) = Range(out) \cup {NextEntry}
    BY <1>d, <2>2, AppendHas
  <2>4. visited' \subseteq Range(out') \cup Range(scan'.rest) \cup waited'
    BY <2>1, <2>2, <2>3 DEF Spread
  <2>5. \A e \in (visited' \cup {cfg.path}) \cap Dirs :
          \/ e \in scan'.todo \cup scan'.ready \cup Range(scan'.rest)
          \/ Inside(e) \subseteq visited'
    BY <2>1, <2>2 DEF Spread
  <2>6. QED
    BY <1>d, <1>p, <2>1, <2>4, <2>5 DEF Spread, InBatch, Rotation
<1>7. CASE BatchFull \/ BatchEnd
  BY <1>1, <1>7 DEF BatchFull, BatchEnd, InBatch, FreshPlaces, Rotation
<1>8. CASE Loop
  <2>1. UNCHANGED <<out, visited, waited, pump>> /\ scan'.rest = scan.rest
        /\ scan'.todo = scan.todo /\ scan'.ready = scan.ready
    BY <1>d, <1>8 DEF Loop, DrainEnd, Check
  <2>2. /\ mpc' \in {"pump", "flush", "drain"}
        /\ mpc' = "flush" => scan.todo = {} /\ scan.ready = {}
    BY <1>8 DEF Loop, DrainEnd, Check
  <2>3. QED
    BY <1>1, <2>1, <2>2 DEF FreshPlaces, Rotation
<1>9. ~(DirKept \/ FpSeal \/ FpIndex)
  BY <1>p DEF DirKept, FpSeal, FpIndex, FreshPlaces, Rotation
<1>10. QED
  BY <1>2, <1>3, <1>4, <1>5, <1>6, <1>7, <1>8, <1>9 DEF Scanning, Batch, ListOnly

LEMMA AllIsSpread ==
  ASSUME OptionsInv, RotationInv, Spread, mpc = "end"
  PROVE  Below[cfg.path] \subseteq Range(out) \cup waited
<1>1. scan.rest = <<>> /\ scan.todo = {} /\ scan.ready = {} /\ Range(scan.rest) = {}
  BY NothingListed DEF RotationInv, Rotation, Spread
<1>2. visited \subseteq Range(out) \cup waited
  BY <1>1 DEF Spread
<1>3. cfg.path \in Dirs
  BY DEF OptionsInv, ConfigOf
<1>4. \A d \in (visited \cup {cfg.path}) \cap Dirs : Inside(d) \subseteq visited
  BY <1>1 DEF Spread
<1>5. PICK X : X = visited
  OBVIOUS
<1>6. Closed(X) /\ Inside(cfg.path) \subseteq X
  BY <1>3, <1>4, <1>5 DEF Closed
<1>7. \A e \in Inside(cfg.path) \cap Dirs : Below[e] \subseteq X
  BY <1>6, TargetLeast DEF TargetOf
<1>8. Below[cfg.path] \subseteq X
  BY <1>3, <1>6, <1>7, BelowIs
<1>9. QED
  BY <1>2, <1>5, <1>8

LEMMA FreshStep ==
  ASSUME OnceInv, KnownInv, OptionsInv, CleanInv, FreshInv, [SessionNext]_sessionVars
  PROVE  FreshInv'
<1>r. RotationInv /\ RotationInv'
  BY RotationStep DEF FreshInv
<1>1. CASE \E launch \in Launches : Launch(launch)
  BY <1>1, <1>r DEF Launch, FreshInv, AfreshComplete, Before
<1>2. CASE Opening
  <2>1. ended' = FALSE
    BY <1>2 DEF OptionsInv, Opening, At, WipeIndex, WipeSlice, WipeArchive, WipeConfig,
                WipeFpbin, LoadConfig, Confirm, Truncate, WriteConfig, Begin
  <2>2. CASE Begin /\ ~resumed'
    <3>1. /\ visited' = {} /\ pump' = NoPump /\ mpc' = "drain" /\ cfg' = cfg
          /\ scan' = [NoScan EXCEPT !.todo = {cfg.path}]
      BY <2>2 DEF Begin, Afresh
    <3>2. scan'.todo = {cfg.path}
      BY <3>1 DEF NoScan
    <3>3. Spread'
      BY <3>1, <3>2 DEF Spread, FreshPlaces, Rotation
    <3>4. QED
      BY <1>r, <2>1, <3>3 DEF FreshInv, AfreshComplete
  <2>3. CASE Begin /\ resumed'
    BY <1>r, <2>1, <2>3 DEF FreshInv, AfreshComplete
  <2>4. CASE ~Begin
    <3>1. mpc' \in Before
      BY <1>2, <2>4 DEF Opening, At, WipeIndex, WipeSlice, WipeArchive, WipeConfig, WipeFpbin,
            LoadConfig, Confirm, Truncate, WriteConfig, Before
    <3>2. QED
      BY <1>r, <2>1, <3>1 DEF FreshInv, AfreshComplete
  <2>5. QED
    BY <2>2, <2>3, <2>4
<1>3. CASE Scanning
  <2>1. mpc \notin Before /\ mpc' \notin Before /\ resumed' = resumed
    BY <1>3, ScanStays DEF Scanning
  <2>2. ended' = ended /\ ~ended
    BY <1>3, <2>1 DEF Scanning, history, FinishClean, Store, Pump, OptionsInv, Before
  <2>3. ~resumed => Spread'
    BY <1>3, <2>1, SpreadStep DEF FreshInv
  <2>4. QED
    BY <1>r, <2>1, <2>2, <2>3 DEF FreshInv, AfreshComplete
<1>4. CASE Finish
  <2>1. mpc = "end" /\ mpc' = "off" /\ UNCHANGED <<out, waited, cfg, resumed>>
    BY <1>4 DEF Finish, Gone
  <2>2. ~resumed => Below[cfg.path] \subseteq Range(out) \cup waited
    BY <1>r, <2>1, AllIsSpread DEF FreshInv, Before
  <2>3. QED
    BY <1>r, <2>1, <2>2 DEF FreshInv, AfreshComplete, Before
<1>5. CASE Leave \/ Kill
  <2>1. mpc' = "off" /\ ~ended'
    BY <1>5 DEF Leave, Refuse, Kill, Crash, Gone, OptionsInv
  <2>2. QED
    BY <1>r, <2>1 DEF FreshInv, AfreshComplete, Before
<1>6. CASE Background
  <2>1. UNCHANGED <<mpc, cfg, resumed, out, visited, waited, ended>>
    BY <1>6 DEF Background, Stdio, ScanDone, WriteBack, FpWriteBack, history
  <2>2. DOMAIN scan = {"todo", "ready", "rest", "sent"}
    BY DEF OnceInv, ListTypes
  <2>3. scan'.rest = scan.rest /\ scan'.todo \cup scan'.ready = scan.todo \cup scan.ready
        /\ (scan.todo = {} => scan' = scan)
    BY <1>6, <2>2 DEF Background, Stdio, ScanDone
  <2>4. pump = NoPump => pump' = pump
    <3>1. pump = NoPump => ~pump.open
      BY DEF NoPump
    <3>2. pump' = pump \/ (WriteBack /\ pump.open)
      BY <1>6 DEF Background, Stdio, ScanDone, WriteBack, PumpSees
    <3>3. QED
      BY <3>1, <3>2
  <2>5. ~resumed /\ mpc \notin Before => Spread'
    <3>1. SUFFICES ASSUME Spread PROVE Spread'
      BY DEF FreshInv
    <3>2. \A d \in Dirs : d \in scan.todo \cup scan.ready \cup Range(scan.rest) =>
                         d \in scan'.todo \cup scan'.ready \cup Range(scan'.rest)
      BY <2>3
    <3>3. QED
      BY <2>1, <2>3, <2>4, <3>1, <3>2 DEF Spread
  <2>6. QED
    BY <1>r, <2>1, <2>5 DEF FreshInv, AfreshComplete
<1>7. CASE UNCHANGED sessionVars
  BY <1>7, <1>r DEF sessionVars, vars, FreshInv, Spread, AfreshComplete
<1>8. QED
  BY <1>1, <1>2, <1>3, <1>4, <1>5, <1>6, <1>7 DEF SessionNext

\* A run that did not resume - the first one, --runone, --clean, or one with a
\* reference - has listed all there is below its target when it ends, but for the
\* directories that had to wait.
THEOREM AfreshListsAll == SessionSpec => []AfreshComplete
<1>1. FreshInv => AfreshComplete
  BY DEF FreshInv
<1>2. OnceInv /\ KnownInv /\ OptionsInv /\ CleanInv /\ FreshInv /\ [SessionNext]_sessionVars =>
        (OnceInv /\ KnownInv /\ OptionsInv /\ CleanInv /\ FreshInv)'
  BY OnceStep, KnownStep, OptionsStep, CleanStep, FreshStep
<1>3. QED
  BY <1>1, <1>2, OnceInit, KnownInit, OptionsInit, CleanInit, FreshInit, PTL DEF SessionSpec

-----------------------------------------------------------------------------
(* The first run with an archive. *)

LEMMA ShiftOne ==
  ASSUME NEW S, NEW s \in Seq(S), NEW t \in Seq(S), t # <<>>
  PROVE  s \o t = Append(s, Head(t)) \o Tail(t)
<1>1. Head(t) \in S /\ Tail(t) \in Seq(S) /\ <<Head(t)>> \in Seq(S)
  BY TailHas
<1>2. t = <<Head(t)>> \o Tail(t)
  BY <1>1, HeadTailProperties
<1>3. Append(s, Head(t)) = s \o <<Head(t)>>
  BY <1>1, AppendIsConcat
<1>4. s \o (<<Head(t)>> \o Tail(t)) = (s \o <<Head(t)>>) \o Tail(t)
  BY <1>1, ConcatAssociative
<1>5. QED
  BY <1>2, <1>3, <1>4

LEMMA AppendLast ==
  ASSUME NEW s \in Seq(Names), NEW t \in Seq(Names), NEW x \in Names
  PROVE  Append(s \o t, x) = s \o Append(t, x)
<1>1. <<x>> \in Seq(Names) /\ s \o t \in Seq(Names)
  BY ConcatProperties
<1>2. Append(s \o t, x) = (s \o t) \o <<x>> /\ Append(t, x) = t \o <<x>>
  BY <1>1, AppendIsConcat
<1>3. QED
  BY <1>1, <1>2, ConcatAssociative

LEMMA ShiftLast ==
  ASSUME NEW s \in Seq(Names), NEW t \in Seq(Names), NEW u \in Seq(Names), u # <<>>
  PROVE  (s \o t) \o u = (s \o Append(t, Head(u))) \o Tail(u)
<1>1. PICK x \in Names : x = Head(u)
  BY TailHas
<1>2. Append(s \o t, x) = s \o Append(t, x)
  BY AppendLast
<1>3. PICK st \in Seq(Names) : st = s \o t
  BY ConcatProperties
<1>4. st \o u = Append(st, Head(u)) \o Tail(u)
  BY ShiftOne
<1>5. QED
  BY <1>1, <1>2, <1>3, <1>4

\* No file has a row that is not in the tree.
NamesInv == FileInv(Names)

LEMMA NamesInit == SessionInit => NamesInv
<1> SUFFICES ASSUME SessionInit PROVE NamesInv
  OBVIOUS
<1>1. NoDisk \in DiskOf(Names)
  BY NoFilesHave, EmptySeq DEF NoDisk, DiskOf
<1>2. StoredOf(Names)
  BY <1>1, NoneHave DEF SessionInit, Init, StoredOf
<1>3. QED
  BY <1>2 DEF SessionInit, Init, NamesInv, FileInv, WriterPlace, FpPlace, NoWriter, NoFp

LEMMA NamesStep ==
  ASSUME OnceInv, NamesInv, [SessionNext]_sessionVars
  PROVE  NamesInv'
<1>1. DirKept \/ Recorded => NextEntry \in Names
  BY RestWorks DEF DirKept, Recorded
<1>2. QED
  BY <1>1, FilesStep DEF NamesInv

Archived == FlattenSeq(disk.archive)

InSlice ==
  IF w.index \in DOMAIN disk.slices /\ mpc # "unlink" THEN disk.slices[w.index].rows ELSE <<>>

InHand ==
  IF mpc \in {"batch", "drain", "pump", "check", "flush"} \/ Finishing
  THEN recBatch ELSE Tail(recBatch)

\* Where each row of the listing is, in order.
Recording ==
  /\ mpc \in FreshPlaces \cup {"off"} /\ pump = NoPump
  /\ disk.archive \in Seq(Seq(Names))
  /\ DOMAIN disk.slices = IF w.open \/ mpc \in {"retire", "unlink"} THEN {w.index} ELSE {}
  /\ ~w.open => w.buf = <<>>
  /\ mpc = "off" => w = NoWriter
  /\ mpc \in {"off", "end"} => Finishing /\ ~w.open
  /\ mpc = "index" /\ Finishing => ~w.open
  /\ mpc = "reopen" => ~Finishing
  /\ out = Archived \o InSlice \o w.buf \o InHand

\* The first run, with -c and an archive.
FirstRun == run = 1 /\ cfg.continue_mode /\ archiving

\* It finds no file, and then records what it lists.
RecordInv ==
  /\ run \in Nat
  /\ run = 0 => mpc = "off" /\ ~ended
  /\ run = 0 \/ (run = 1 /\ mpc \in Before \ {"off"}) => disk = NoDisk
  /\ FirstRun /\ (mpc \notin Before \/ ended) => Recording

LEMMA RecordInit == SessionInit => RecordInv
BY DEF SessionInit, Init, RecordInv, FirstRun, Before

LEMMA RecordTypes ==
  ASSUME StoredOf(Names), Recording
  PROVE  /\ Archived \in Seq(Names) /\ InSlice \in Seq(Names) /\ w.buf \in Seq(Names)
         /\ recBatch \in Seq(Names) /\ InHand \in Seq(Names)
         /\ Archived \o InSlice \in Seq(Names)
         /\ Archived \o InSlice \o w.buf \in Seq(Names)
<1>1. Archived \in Seq(Names)
  BY FlattenType DEF Recording, Archived
<1>2. InSlice \in Seq(Names)
  BY SliceRows, EmptySeq DEF InSlice
<1>3. w.buf \in Seq(Names) /\ recBatch \in Seq(Names)
  BY DEF StoredOf, WriterOf
<1>4. InHand \in Seq(Names)
  BY <1>3, TailHas DEF InHand, Finishing, NewBatch
<1>5. Archived \o InSlice \in Seq(Names)
  BY <1>1, <1>2, ConcatProperties
<1>6. Archived \o InSlice \o w.buf \in Seq(Names)
  BY <1>3, <1>5, ConcatProperties
<1>7. QED
  BY <1>1, <1>2, <1>3, <1>4, <1>5, <1>6

\* Nothing is done to the files.
LEMMA RecordFrame ==
  ASSUME Recording, UNCHANGED <<out, w, recBatch, pump>>,
         disk'.archive = disk.archive, disk'.slices = disk.slices,
         \/ mpc' = mpc
         \/ /\ mpc \in {"batch", "drain", "pump", "check", "flush"}
            /\ mpc' \in {"batch", "drain", "pump", "check", "flush"}
  PROVE  Recording'
<1>1. Archived' = Archived /\ InSlice' = InSlice /\ InHand' = InHand
  BY DEF Archived, InSlice, InHand, Finishing
<1>2. QED
  BY <1>1 DEF Recording, FreshPlaces, Finishing, Rotation

LEMMA RecordStore ==
  ASSUME NamesInv, NamesInv', Recording, Store, archiving, out' = out
  PROVE  Recording'
<1>t. /\ disk \in DiskOf(Names) /\ w \in WriterOf(Names) /\ recBatch \in Seq(Names)
      /\ StoredOf(Names) /\ WriterPlace
  BY DEF NamesInv, FileInv, StoredOf
<1>s. /\ Archived \in Seq(Names) /\ InSlice \in Seq(Names) /\ w.buf \in Seq(Names)
      /\ InHand \in Seq(Names) /\ Archived \o InSlice \in Seq(Names)
      /\ Archived \o InSlice \o w.buf \in Seq(Names)
  BY <1>t, RecordTypes
<1>p. pump = NoPump /\ pump' = pump
  BY DEF Recording, Store, OpenSlice, RecordRow, FlushEnd, Seal, Retire, Unlink, Reopen,
         UpdateIndex, OpenForWriting, PumpSees, NoPump
<1>e. <<>> \in Seq(Names) /\ DOMAIN <<>> = {}
  BY EmptySeq
<1>1. CASE OpenSlice
  <2>1. /\ mpc = "flush" /\ mpc' = mpc /\ recBatch' = recBatch /\ ~w.open
        /\ w' = [w EXCEPT !.open = TRUE] /\ disk' = WithSlice(disk, w.index, File(<<>>, FALSE))
    BY <1>1 DEF OpenSlice, OpenForWriting
  <2>2. PICK i \in Nat, file \in FileOf(Names) : i = w.index /\ file = File(<<>>, FALSE)
    BY <1>t, <1>e DEF WriterOf, FileOf, File
  <2>3. disk'.slices = Put(disk.slices, i, file) /\ disk'.archive = disk.archive
    BY <1>t, <2>1, <2>2 DEF WithSlice, DiskOf
  <2>4. DOMAIN disk.slices = {} /\ w'.index = i /\ w'.open /\ w'.buf = w.buf
    BY <1>t, <2>1, <2>2 DEF Recording, WriterOf
  <2>5. DOMAIN disk'.slices = {i} /\ disk'.slices[i] = file
    BY <2>3, <2>4 DEF Put
  <2>6. InSlice = <<>> /\ InSlice' = <<>>
    BY <2>1, <2>2, <2>4, <2>5 DEF InSlice, File
  <2>7. Archived' = Archived /\ InHand' = InHand
    BY <2>1, <2>3 DEF Archived, InHand, Finishing
  <2>8. QED
    BY <1>p, <2>1, <2>3, <2>4, <2>5, <2>6, <2>7 DEF Recording, FreshPlaces, Rotation
<1>2. CASE RecordRow
  <2>1. /\ mpc = "flush" /\ recBatch # <<>> /\ w.open /\ disk' = disk
        /\ w' = [w EXCEPT !.lines = @ + 1, !.buf = Append(@, Head(recBatch))]
        /\ \/ mpc' = "seal" /\ recBatch' = recBatch
           \/ mpc' = "flush" /\ recBatch' = Tail(recBatch)
    BY <1>2 DEF RecordRow
  <2>2. w'.buf = Append(w.buf, Head(recBatch)) /\ w'.open /\ w'.index = w.index
    BY <1>t, <2>1 DEF WriterOf
  <2>3. InHand = recBatch /\ InHand' = Tail(recBatch)
    BY <2>1 DEF InHand, Finishing, NewBatch
  <2>4. InSlice' = InSlice /\ Archived' = Archived
    BY <2>1, <2>2 DEF InSlice, Archived
  <2>5. (Archived \o InSlice \o w.buf) \o recBatch =
          (Archived \o InSlice \o Append(w.buf, Head(recBatch))) \o Tail(recBatch)
    <3>1. PICK a \in Seq(Names), b \in Seq(Names), u \in Seq(Names) :
            a = Archived \o InSlice /\ b = w.buf /\ u = recBatch
      BY <1>s, <1>t
    <3>2. u # <<>>
      BY <2>1, <3>1
    <3>3. (a \o b) \o u = (a \o Append(b, Head(u))) \o Tail(u)
      BY <3>2, ShiftLast
    <3>4. QED
      BY <3>1, <3>3
  <2>6. out' = Archived' \o InSlice' \o w'.buf \o InHand'
    BY <2>2, <2>3, <2>4, <2>5 DEF Recording
  <2>7. QED
    BY <1>p, <2>1, <2>2, <2>6 DEF Recording, FreshPlaces, Rotation
<1>3. CASE FlushEnd
  <2>1. /\ mpc = "flush" /\ Finishing /\ UNCHANGED <<disk, w, recBatch>>
        /\ mpc' \in {"batch", "seal", "index"}
        /\ mpc' = "index" => ~w.open
    BY <1>3 DEF FlushEnd, FinalStep, storeVars, Finishing
  <2>2. InSlice' = InSlice /\ Archived' = Archived /\ InHand' = InHand
    BY <2>1 DEF InSlice, Archived, InHand, Finishing
  <2>3. QED
    BY <1>p, <2>1, <2>2 DEF Recording, FreshPlaces, Rotation, Finishing
<1>4. CASE Seal
  <2>1. /\ mpc = "seal" /\ mpc' = "retire" /\ recBatch' = recBatch
        /\ disk' = WithSlice(disk, w.index, File(disk.slices[w.index].rows \o w.buf, TRUE))
        /\ w' = [w EXCEPT !.open = FALSE, !.buf = <<>>]
    BY <1>4 DEF Seal, AfterSeal
  <2>2. w.open /\ w.index \in DOMAIN disk.slices /\ DOMAIN disk.slices = {w.index}
    BY <1>t, <2>1 DEF WriterPlace, Recording
  <2>3. InSlice = disk.slices[w.index].rows
    BY <2>1, <2>2 DEF InSlice
  <2>4. PICK i, file : i = w.index /\ file = File(InSlice \o w.buf, TRUE)
    OBVIOUS
  <2>5. disk'.slices = Put(disk.slices, i, file) /\ disk'.archive = disk.archive
    BY <1>t, <2>1, <2>3, <2>4 DEF WithSlice, DiskOf
  <2>6. w'.index = i /\ ~w'.open /\ w'.buf = <<>>
    BY <1>t, <2>1, <2>4 DEF WriterOf
  <2>7. DOMAIN disk'.slices = {i} /\ disk'.slices[i] = file
    BY <2>2, <2>4, <2>5 DEF Put
  <2>8. InSlice' = InSlice \o w.buf
    <3>1. mpc' # "unlink" /\ w'.index = i /\ i \in DOMAIN disk'.slices
      BY <2>1, <2>6, <2>7
    <3>2. InSlice' = disk'.slices[i].rows
      BY <3>1 DEF InSlice
    <3>3. file.rows = InSlice \o w.buf
      BY <2>4 DEF File
    <3>4. QED
      BY <2>7, <3>2, <3>3
  <2>9. Archived' = Archived /\ InHand' = InHand
    BY <2>1, <2>5 DEF Archived, InHand, Finishing
  <2>10. (Archived \o InSlice) \o w.buf = (Archived \o (InSlice \o w.buf)) \o <<>>
    <3>1. PICK a \in Seq(Names), b \in Seq(Names), c \in Seq(Names) :
            a = Archived /\ b = InSlice /\ c = w.buf
      BY <1>s
    <3>2. (a \o b) \o c = a \o (b \o c)
      BY ConcatAssociative
    <3>3. b \o c \in Seq(Names)
      BY ConcatProperties
    <3>4. a \o (b \o c) \in Seq(Names)
      BY <3>3, ConcatProperties
    <3>5. (a \o (b \o c)) \o <<>> = a \o (b \o c)
      BY <3>4, ConcatEmptySeq
    <3>6. QED
      BY <3>1, <3>2, <3>5
  <2>11. QED
    BY <1>p, <2>1, <2>5, <2>6, <2>7, <2>8, <2>9, <2>10 DEF Recording, FreshPlaces, Rotation
<1>5. CASE Retire
  <2>1. /\ mpc = "retire" /\ mpc' = "unlink" /\ UNCHANGED <<w, recBatch>>
        /\ disk' = [disk EXCEPT !.archive = Append(@, disk.slices[w.index].rows)]
    BY <1>5 DEF Retire
  <2>2. ~w.open /\ w.buf = <<>> /\ w.index \in DOMAIN disk.slices
    BY <1>t, <2>1 DEF WriterPlace, Recording
  <2>3. disk'.archive = Append(disk.archive, InSlice) /\ disk'.slices = disk.slices
    BY <1>t, <2>1, <2>2 DEF DiskOf, InSlice
  <2>4. PICK P : P = Seq(Names)
    OBVIOUS
  <2>5. disk.archive \in Seq(P) /\ InSlice \in P
    BY <1>s, <2>4 DEF Recording
  <2>6. Archived' = Archived \o InSlice /\ disk'.archive \in Seq(P)
    <3>1. PICK ss \in Seq(P), t \in P : ss = disk.archive /\ t = InSlice
      BY <2>5
    <3>2. FlattenSeq(Append(ss, t)) = FlattenSeq(ss) \o t
      BY <2>4, FlattenAppend
    <3>3. Append(ss, t) \in Seq(P)
      BY AppendProperties
    <3>4. QED
      BY <2>3, <3>1, <3>2, <3>3 DEF Archived
  <2>7. InSlice' = <<>> /\ InHand' = InHand
    BY <2>1 DEF InSlice, InHand, Finishing
  <2>8. (Archived \o InSlice) \o <<>> = ((Archived \o InSlice) \o <<>>) \o <<>>
    BY <1>s, ConcatEmptySeq
  <2>9. QED
    BY <1>p, <2>1, <2>2, <2>3, <2>4, <2>6, <2>7, <2>8 DEF Recording, FreshPlaces, Rotation
<1>6. CASE Unlink
  <2>1. /\ mpc = "unlink" /\ UNCHANGED <<w, recBatch>> /\ disk' = WithoutSlice(disk, w.index)
        /\ mpc' = IF Finishing THEN "index" ELSE "reopen"
    BY <1>6 DEF Unlink
  <2>2. ~w.open /\ DOMAIN disk.slices = {w.index}
    BY <1>t, <2>1 DEF WriterPlace, Recording
  <2>3. disk'.archive = disk.archive /\ DOMAIN disk'.slices = {}
    BY <1>t, <2>1, <2>2 DEF WithoutSlice, DiskOf, Restrict
  <2>4. InSlice = <<>> /\ InSlice' = <<>> /\ Archived' = Archived /\ InHand' = InHand
    BY <2>1, <2>3 DEF InSlice, Archived, InHand, Finishing
  <2>5. QED
    BY <1>p, <2>1, <2>2, <2>3, <2>4 DEF Recording, FreshPlaces, Rotation, Finishing
<1>7. CASE Reopen
  <2>1. /\ mpc = "reopen" /\ mpc' = "index" /\ recBatch' = recBatch
        /\ w' = [index |-> w.index + 1, lines |-> 0, open |-> TRUE, buf |-> <<>>]
        /\ disk' = WithSlice(disk, w.index + 1, File(<<>>, FALSE))
    BY <1>7 DEF Reopen, OpenForWriting
  <2>2. ~w.open /\ w.buf = <<>> /\ DOMAIN disk.slices = {} /\ ~Finishing
    BY <1>t, <2>1 DEF WriterPlace, Recording
  <2>3. PICK i, file : i = w.index + 1 /\ file = File(<<>>, FALSE)
    OBVIOUS
  <2>4. disk'.slices = Put(disk.slices, i, file) /\ disk'.archive = disk.archive
    BY <1>t, <2>1, <2>3 DEF WithSlice, DiskOf
  <2>5. DOMAIN disk'.slices = {i} /\ disk'.slices[i] = file
    BY <2>2, <2>4 DEF Put
  <2>6. InSlice = <<>> /\ InSlice' = <<>>
    BY <2>1, <2>2, <2>3, <2>5 DEF InSlice, File
  <2>7. Archived' = Archived /\ InHand' = InHand
    BY <2>1, <2>4 DEF Archived, InHand, Finishing
  <2>8. QED
    BY <1>p, <2>1, <2>2, <2>3, <2>4, <2>5, <2>6, <2>7
       DEF Recording, FreshPlaces, Rotation, Finishing
<1>8. CASE UpdateIndex
  <2>1. /\ mpc = "index" /\ w' = w
        /\ disk' = [disk EXCEPT !.idx = [index |-> w.index, lines |-> w.lines]]
        /\ \/ Finishing /\ recBatch' = recBatch /\ mpc' = "end"
           \/ ~Finishing /\ recBatch' = Tail(recBatch) /\ mpc' = "flush"
    BY <1>8 DEF UpdateIndex, Finishing
  <2>2. disk'.archive = disk.archive /\ disk'.slices = disk.slices
    BY <1>t, <2>1 DEF DiskOf
  <2>3. InSlice' = InSlice /\ Archived' = Archived
    BY <2>1, <2>2 DEF InSlice, Archived
  <2>4. InHand' = InHand
    <3>1. CASE Finishing
      BY <2>1, <3>1 DEF InHand, Finishing
    <3>2. CASE ~Finishing
      <4>1. InHand = Tail(recBatch)
        BY <2>1, <3>2 DEF InHand
      <4>2. InHand' = Tail(recBatch)
        BY <2>1, <3>2 DEF InHand
      <4>3. QED
        BY <4>1, <4>2
    <3>3. QED
      BY <3>1, <3>2
  <2>5. QED
    BY <1>p, <2>1, <2>2, <2>3, <2>4 DEF Recording, FreshPlaces, Rotation, Finishing
<1>9. QED
  BY <1>1, <1>2, <1>3, <1>4, <1>5, <1>6, <1>7, <1>8 DEF Store

\* An entry is recorded behind what is in hand.
LEMMA RecordAppends ==
  ASSUME NamesInv, OnceInv, Recording, Recorded
  PROVE  Recording'
<1>t. StoredOf(Names) /\ NextEntry \in Names
  BY RestWorks DEF NamesInv, FileInv, Recorded
<1>s. /\ Archived \o InSlice \o w.buf \in Seq(Names) /\ InHand \in Seq(Names)
  BY <1>t, RecordTypes
<1>1. /\ mpc = "batch" /\ UNCHANGED <<mpc, disk, w, pump>>
      /\ out' = Append(out, NextEntry) /\ recBatch' = Append(recBatch, NextEntry)
  BY DEF Recorded, InBatch
<1>2. InHand = recBatch /\ InHand' = Append(InHand, NextEntry)
  BY <1>1 DEF InHand
<1>3. Archived' = Archived /\ InSlice' = InSlice
  BY <1>1 DEF Archived, InSlice
<1>4. Append((Archived \o InSlice \o w.buf) \o InHand, NextEntry) =
        (Archived \o InSlice \o w.buf) \o Append(InHand, NextEntry)
  <2>1. PICK a \in Seq(Names) : a = Archived \o InSlice \o w.buf
    BY <1>s
  <2>2. PICK b \in Seq(Names) : b = InHand
    BY <1>s
  <2>3. PICK x \in Names : x = NextEntry
    BY <1>t
  <2>4. Append(a \o b, x) = a \o Append(b, x)
    BY AppendLast
  <2>5. QED
    BY <2>1, <2>2, <2>3, <2>4
<1>5. QED
  BY <1>1, <1>2, <1>3, <1>4 DEF Recording

\* A row goes from the buffer to the file.
LEMMA RecordWritten ==
  ASSUME NamesInv, Recording, WriteBack, out' = out
  PROVE  Recording'
<1>t. disk \in DiskOf(Names) /\ w \in WriterOf(Names) /\ StoredOf(Names) /\ WriterPlace
  BY DEF NamesInv, FileInv, StoredOf
<1>s. Archived \in Seq(Names) /\ InSlice \in Seq(Names) /\ w.buf \in Seq(Names)
  BY <1>t, RecordTypes
<1>1. /\ w.open /\ w.buf # <<>> /\ UNCHANGED <<mpc, recBatch>>
      /\ w' = [w EXCEPT !.buf = Tail(@)]
      /\ disk' = WithSlice(disk, w.index,
                           File(Append(disk.slices[w.index].rows, Head(w.buf)), FALSE))
  BY DEF WriteBack
<1>p. pump = NoPump /\ pump' = pump
  BY DEF Recording, WriteBack, PumpSees, NoPump
<1>2. DOMAIN disk.slices = {w.index} /\ mpc \notin {"unlink", "off", "end"}
  BY <1>t, <1>1 DEF WriterPlace, Recording
<1>3. InSlice = disk.slices[w.index].rows
  BY <1>2 DEF InSlice
<1>4. PICK i, file : i = w.index /\ file = File(Append(InSlice, Head(w.buf)), FALSE)
  OBVIOUS
<1>5. disk'.slices = Put(disk.slices, i, file) /\ disk'.archive = disk.archive
  BY <1>t, <1>1, <1>3, <1>4 DEF WithSlice, DiskOf
<1>6. w'.index = i /\ w'.open /\ w'.buf = Tail(w.buf)
  BY <1>t, <1>1, <1>4 DEF WriterOf
<1>7. DOMAIN disk'.slices = {i} /\ disk'.slices[i] = file
  BY <1>2, <1>4, <1>5 DEF Put
<1>8. InSlice' = Append(InSlice, Head(w.buf))
  <2>1. mpc' # "unlink" /\ w'.index = i /\ i \in DOMAIN disk'.slices
    BY <1>1, <1>2, <1>6, <1>7
  <2>2. InSlice' = disk'.slices[i].rows
    BY <2>1 DEF InSlice
  <2>3. file.rows = Append(InSlice, Head(w.buf))
    BY <1>4 DEF File
  <2>4. QED
    BY <1>7, <2>2, <2>3
<1>9. Archived' = Archived /\ InHand' = InHand
  BY <1>1, <1>5 DEF Archived, InHand, Finishing
<1>10. (Archived \o InSlice) \o w.buf =
         (Archived \o Append(InSlice, Head(w.buf))) \o Tail(w.buf)
  <2>1. PICK a \in Seq(Names), b \in Seq(Names), u \in Seq(Names) :
          a = Archived /\ b = InSlice /\ u = w.buf
    BY <1>s
  <2>2. u # <<>>
    BY <1>1, <2>1
  <2>3. (a \o b) \o u = (a \o Append(b, Head(u))) \o Tail(u)
    BY <2>2, ShiftLast
  <2>4. QED
    BY <2>1, <2>3
<1>11. out' = Archived' \o InSlice' \o w'.buf \o InHand'
  BY <1>6, <1>8, <1>9, <1>10 DEF Recording
<1>12. QED
  BY <1>p, <1>1, <1>2, <1>4, <1>5, <1>6, <1>7, <1>11 DEF Recording, Finishing

LEMMA RecordScanning ==
  ASSUME OnceInv, NamesInv, NamesInv', OptionsInv, CleanInv, Recording, FirstRun, Scanning
  PROVE  Recording'
<1>p. pump = NoPump /\ ~pump.open /\ pump.state # "OLD" /\ mpc \in FreshPlaces \cup {"off"}
  BY DEF Recording, NoPump
<1>c. cfg.continue_mode /\ archiving
  BY DEF FirstRun
<1>d. mpc \notin Before
  BY ScanStays
<1>1. ~FinishClean
  BY <1>c DEF FinishClean, CleanInv, Swept, NothingKept
<1>2. CASE Store
  BY <1>2, <1>c, RecordStore DEF Store
<1>3. CASE Pump
  <2>1. PumpEnd /\ out' = out
    BY <1>p, <1>3 DEF Pump, PumpRow, PumpNext, PumpFull, PromoteSeal, Rename, Verify, Cleanup,
                      Adopt, FreshPlaces, Rotation
  <2>2. QED
    BY <2>1, RecordFrame DEF PumpEnd
<1>4. CASE Batch
  <2>1. CASE Recorded
    BY <2>1, RecordAppends
  <2>2. CASE (\E d \in Dirs : TakeBatch(d)) \/ DirWaits \/ BatchFull \/ BatchEnd
    BY <2>2, RecordFrame DEF TakeBatch, DirWaits, BatchFull, BatchEnd, InBatch
  <2>3. ~(DirKept \/ FpSeal \/ FpIndex)
    BY <1>p DEF DirKept, FpSeal, FpIndex, FreshPlaces, Rotation
  <2>4. QED
    BY <1>4, <2>1, <2>2, <2>3 DEF Batch
<1>5. CASE Loop
  BY <1>5, RecordFrame DEF Loop, DrainEnd, Check
<1>6. QED
  BY <1>c, <1>1, <1>2, <1>3, <1>4, <1>5 DEF Scanning

\* The first run finds no file.
LEMMA RecordOpening ==
  ASSUME OnceInv, OptionsInv, RecordInv, Opening
  PROVE  RecordInv'
<1>1. /\ run' = run /\ archiving' = archiving /\ ended' = FALSE
      /\ mpc \in Before \ {"off"} /\ run # 0 /\ out' = out
  BY DEF RecordInv, OptionsInv, Opening, At, WipeIndex, WipeSlice, WipeArchive, WipeConfig,
         WipeFpbin, LoadConfig, Confirm, Truncate, WriteConfig, Begin, Before
<1>d. DOMAIN NoFiles = {}
  BY DEF NoFiles
<1>2. CASE ~Begin
  <2>1. mpc' \in Before \ {"off"}
    BY <1>2 DEF Opening, At, WipeIndex, WipeSlice, WipeArchive, WipeConfig, WipeFpbin,
                LoadConfig, Confirm, Truncate, WriteConfig, Before
  <2>2. ASSUME disk = NoDisk PROVE disk' = NoDisk
    <3>1. DOMAIN disk.slices = {}
      BY <1>d, <2>2 DEF NoDisk
    <3>2. CASE WipeIndex \/ WipeArchive
      BY <2>2, <3>2 DEF WipeIndex, WipeArchive, NoDisk
    <3>3. CASE WipeFpbin
      <4>1. Restrict(NoFiles, {i \in DOMAIN NoFiles : i >= FpReach}) = NoFiles
        BY <1>d DEF Restrict, NoFiles
      <4>2. QED
        BY <2>2, <3>3, <4>1 DEF WipeFpbin, WithoutFp, NoDisk
    <3>4. CASE WipeSlice
      BY <2>2, <3>1, <3>4 DEF WipeSlice
    <3>5. CASE WipeConfig \/ LoadConfig \/ Confirm \/ Truncate \/ WriteConfig
      BY <2>2, <3>5 DEF WipeConfig, LoadConfig, Confirm, Truncate, WriteConfig
    <3>6. QED
      BY <1>2, <3>2, <3>3, <3>4, <3>5 DEF Opening
  <2>3. QED
    BY <1>1, <2>1, <2>2 DEF RecordInv
<1>3. CASE Begin
  <2>1. mpc = "begin" /\ mpc' \notin Before
    BY <1>3 DEF Begin, Restore, Afresh, Before
  <2>2. ASSUME run = 1 PROVE Recording'
    <3>1. disk = NoDisk
      BY <1>1, <2>2 DEF RecordInv
    <3>2. /\ disk.idx = NoIndex /\ DOMAIN disk.slices = {} /\ disk.archive = <<>>
      BY <1>d, <3>1 DEF NoDisk
    <3>3. Blocks = 0
      <4>1. Met(0) = {} /\ Cardinality(Met(0)) = 0
        BY <3>2, FS_EmptySet DEF Met
      <4>2. Len(disk.archive) = 0
        BY <3>2
      <4>3. QED
        BY <4>1, <4>2 DEF Blocks
    <3>4. /\ w' = NoWriter /\ recBatch' = NewBatch /\ pump' = NoPump
          /\ mpc' = "drain" /\ disk' = disk
      <4>1. CASE Afresh
        BY <4>1 DEF Afresh
      <4>2. CASE Restore
        <5>1. ~Residual /\ ~(disk.idx = NoIndex /\ Blocks > 1)
          BY <3>2, <3>3 DEF Residual
        <5>2. RestoredPump = NoPump
          BY <3>2, <3>3, <5>1 DEF RestoredPump
        <5>3. w' = NoWriter
          BY <3>2, <4>2 DEF Restore, LoadedIndex, NoWriter
        <5>4. QED
          BY <3>2, <4>2, <5>1, <5>2, <5>3 DEF Restore
      <4>3. QED
        BY <1>3, <4>1, <4>2 DEF Begin
    <3>5. out' = <<>> /\ Archived' = <<>> /\ InSlice' = <<>> /\ w'.buf = <<>> /\ InHand' = <<>>
      <4>1. out' = <<>>
        BY <1>1 DEF OnceInv
      <4>2. Archived' = <<>>
        BY <3>2, <3>4 DEF Archived, FlattenSeq
      <4>3. QED
        BY <3>2, <3>4, <4>1, <4>2 DEF InSlice, InHand, NoWriter, NewBatch
    <3>6. <<>> \o <<>> = <<>> /\ <<>> \in Seq(Seq(Names))
      BY EmptySeq, ConcatEmptySeq
    <3>7. QED
      BY <3>2, <3>4, <3>5, <3>6
         DEF Recording, FreshPlaces, Rotation, NoWriter, Finishing
  <2>3. QED
    BY <1>1, <2>1, <2>2 DEF RecordInv, FirstRun, Before
<1>4. QED
  BY <1>2, <1>3

LEMMA RecordStep ==
  ASSUME OnceInv, NamesInv, NamesInv', OptionsInv, OptionsInv', CleanInv, RecordInv,
         [SessionNext]_sessionVars
  PROVE  RecordInv'
<1>1. CASE \E launch \in Launches : Launch(launch)
  <2>1. /\ mpc = "off" /\ run' = run + 1 /\ ~ended' /\ disk' = disk
        /\ mpc' \in {"wipe-index", "load"}
    BY <1>1 DEF Launch
  <2>2. QED
    BY <2>1 DEF RecordInv, Before
<1>2. CASE Opening
  BY <1>2, RecordOpening
<1>3. CASE Scanning
  <2>1. mpc \notin Before /\ mpc' \notin Before
    BY <1>3, ScanStays
  <2>2. run' = run /\ cfg' = cfg /\ archiving' = archiving
    BY <1>3 DEF Scanning, history, FinishClean, Store, Pump
  <2>3. FirstRun => Recording'
    BY <1>3, <2>1, RecordScanning DEF RecordInv
  <2>4. QED
    BY <2>1, <2>2, <2>3 DEF RecordInv, FirstRun, Before
<1>4. CASE Finish
  <2>1. /\ mpc = "end" /\ mpc' = "off" /\ UNCHANGED <<disk, cfg, archiving, run, out>>
        /\ w' = NoWriter /\ recBatch' = NewBatch /\ pump' = NoPump
    BY <1>4 DEF Finish, Gone
  <2>2. run # 0
    BY <2>1 DEF RecordInv
  <2>3. ASSUME FirstRun PROVE Recording'
    <3>1. Recording
      BY <2>1, <2>3 DEF RecordInv, Before
    <3>2. Finishing /\ ~w.open /\ w.buf = <<>> /\ DOMAIN disk.slices = {} /\ recBatch = NewBatch
      BY <2>1, <3>1 DEF Recording, Finishing
    <3>3. ~w'.open /\ w'.buf = <<>> /\ recBatch' = recBatch /\ Finishing'
      BY <2>1, <3>2 DEF NoWriter, Finishing
    <3>4. Archived' = Archived /\ InSlice' = InSlice /\ InHand' = InHand
      BY <2>1, <3>2, <3>3 DEF Archived, InSlice, InHand
    <3>5. QED
      BY <2>1, <3>1, <3>2, <3>3, <3>4 DEF Recording
  <2>4. QED
    BY <2>1, <2>2, <2>3 DEF RecordInv, FirstRun, Before
<1>5. CASE Leave \/ Kill
  <2>1. mpc # "off" /\ mpc' = "off" /\ run' = run /\ ~archiving'
    BY <1>5 DEF Leave, Refuse, Kill, Crash, Gone
  <2>2. QED
    BY <2>1 DEF RecordInv, FirstRun
<1>6. CASE Background
  <2>1. UNCHANGED <<mpc, run, cfg, archiving, ended, out>>
    BY <1>6 DEF Background, Stdio, ScanDone, WriteBack, FpWriteBack, history
  <2>2. CASE mpc \in Before /\ ~ended
    <3>1. ~w.open /\ ~fpb.open
      BY <2>2 DEF OptionsInv, Unscanned, NoWriter, NoFp
    <3>2. disk' = disk
      BY <1>6, <3>1 DEF Background, Stdio, ScanDone, WriteBack, FpWriteBack
    <3>3. QED
      BY <2>1, <2>2, <3>2 DEF RecordInv
  <2>3. CASE mpc \notin Before \/ ended
    <3>1. mpc \notin Before \ {"off"} /\ run # 0
      BY <2>3 DEF OptionsInv, RecordInv, Before
    <3>2. ASSUME FirstRun PROVE Recording'
      <4>1. Recording
        BY <2>3, <3>2 DEF RecordInv
      <4>2. CASE WriteBack
        BY <2>1, <4>1, <4>2, RecordWritten
      <4>3. CASE ~WriteBack
        <5>1. UNCHANGED <<w, recBatch, pump>>
          BY <1>6, <4>3 DEF Background, Stdio, ScanDone, FpWriteBack
        <5>2. disk'.archive = disk.archive /\ disk'.slices = disk.slices
          <6>1. disk \in DiskOf(Names)
            BY DEF NamesInv, FileInv, StoredOf
          <6>2. CASE FpWriteBack
            BY <6>1, <6>2 DEF FpWriteBack, WithFp, DiskOf
          <6>3. CASE ~FpWriteBack
            BY <1>6, <4>3, <6>3 DEF Background, Stdio, ScanDone
          <6>4. QED
            BY <6>2, <6>3
        <5>3. QED
          BY <2>1, <4>1, <5>1, <5>2, RecordFrame
      <4>4. QED
        BY <4>2, <4>3
    <3>3. QED
      BY <2>1, <3>1, <3>2 DEF RecordInv, FirstRun
  <2>4. QED
    BY <2>2, <2>3
<1>7. CASE UNCHANGED sessionVars
  <2>1. UNCHANGED <<mpc, run, cfg, archiving, ended, out, disk, w, recBatch, pump>>
    BY <1>7 DEF sessionVars, vars
  <2>2. Recording => Recording'
    BY <2>1, RecordFrame
  <2>3. QED
    BY <2>1, <2>2 DEF RecordInv, FirstRun
<1>8. QED
  BY <1>1, <1>2, <1>3, <1>4, <1>5, <1>6, <1>7 DEF SessionNext

\* At every moment of the first run with -c and an archive, the files and what is still
\* in memory hold what it has listed, in order and without a gap.
THEOREM RecordIsKept == SessionSpec => []RecordIsListing
<1>1. OnceInv /\ OptionsInv /\ RecordInv => RecordIsListing
  <2> SUFFICES ASSUME OnceInv, OptionsInv, RecordInv, FirstRun, mpc # "off" \/ ended
               PROVE  out = Archived \o InSlice \o w.buf \o InHand
    BY DEF RecordIsListing, FirstRun, Archived, InSlice, InHand
  <2>1. CASE mpc \notin Before \/ ended
    BY <2>1 DEF RecordInv, Recording
  <2>2. CASE mpc \in Before \ {"off"}
    <3>1. disk = NoDisk /\ out = <<>> /\ w = NoWriter /\ recBatch = <<>>
      BY <2>2 DEF RecordInv, FirstRun, OnceInv, OptionsInv, Unscanned, NewBatch
    <3>2. disk.archive = <<>> /\ DOMAIN disk.slices = {} /\ w.buf = <<>>
      BY <3>1 DEF NoDisk, NoFiles, NoWriter
    <3>3. Archived = <<>> /\ InSlice = <<>> /\ InHand = <<>>
      BY <3>1, <3>2 DEF Archived, FlattenSeq, InSlice, InHand, Finishing, NewBatch
    <3>4. <<>> \o <<>> = <<>>
      BY EmptySeq, ConcatEmptySeq
    <3>5. QED
      BY <3>1, <3>2, <3>3, <3>4
  <2>3. QED
    BY <2>1, <2>2 DEF Before
<1>2. OnceInv /\ NamesInv /\ KnownInv /\ OptionsInv /\ CleanInv /\ RecordInv
        /\ [SessionNext]_sessionVars =>
          (OnceInv /\ NamesInv /\ KnownInv /\ OptionsInv /\ CleanInv /\ RecordInv)'
  BY OnceStep, NamesStep, KnownStep, OptionsStep, CleanStep, RecordStep
<1>3. QED
  BY <1>1, <1>2, OnceInit, NamesInit, KnownInit, OptionsInit, CleanInit, RecordInit, PTL
     DEF SessionSpec
=============================================================================
