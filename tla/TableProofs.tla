---------------------------- MODULE TableProofs ----------------------------
(***************************************************************************)
(* Theorems about the two tables of fingerprints with linear probing.      *)
(*                                                                         *)
(* A shard of the fingerprint set, for every capacity, probe limit, hash   *)
(* function and set of fingerprints: it never grows, a probe finds exactly *)
(* what is stored, and it is a set with bounded room.                      *)
(*                                                                         *)
(* The reference map, for every size of the tables, every hash function    *)
(* and all rows: what a worker trusts in half-incremental mode is what was *)
(* recorded; full tables make it trust less, never something else; and     *)
(* while both tables have room, nothing that was recorded is ever missed.  *)
(***************************************************************************)
EXTENDS ReferenceIndex, FingerprintShard, Integers, FiniteSetTheorems, TLAPS

USE HashAssumption, FreeAssumption, CapacityAssumption, ProbeLimitAssumption

\* The inductive invariant: that the capacity stays what it was rests on the
\* count being the number of occupied slots, and that on the types.
IInv == ShardTypeOK /\ capacity = Capacity /\ ProbeOK /\ CountOK

-----------------------------------------------------------------------------
(* Arithmetic of the probe. *)

\* Every probe looks at a slot of the table.
LEMMA PosInTable ==
  ASSUME NEW f \in Fingerprints, NEW i \in Nat
  PROVE  Pos(Capacity, f, i) \in 0 .. Capacity - 1
<1>1. HashOf[f] + i \in Nat
  OBVIOUS
<1>2. QED
  BY <1>1 DEF Pos

\* Numbers less than c apart have different remainders.
LEMMA RemaindersDiffer ==
  ASSUME NEW c \in Nat \ {0}, NEW x \in Nat, NEW y \in Nat, x < y, y - x < c
  PROVE  x % c # y % c
<1> DEFINE q == x \div c
           r == y \div c
<1>1. /\ q \in Int /\ r \in Int
      /\ x % c \in Int /\ y % c \in Int
      /\ x = c * q + (x % c)
      /\ y = c * r + (y % c)
  OBVIOUS
<1> SUFFICES ASSUME x % c = y % c PROVE FALSE
  OBVIOUS
<1> HIDE DEF q, r
<1>2. y - x = c * r - c * q
  BY <1>1
<1>3. c * r - c * q = c * (r - q)
  BY <1>1
<1>4. r - q >= 1 => c * (r - q) >= c
  BY <1>1
<1>5. r - q <= 0 => c * (r - q) <= 0
  BY <1>1
<1>6. QED
  BY <1>1, <1>2, <1>3, <1>4, <1>5

\* One round of the probe never looks at a slot twice.
LEMMA ProbesDiffer ==
  ASSUME NEW f \in Fingerprints, NEW i \in 0 .. Capacity - 1, NEW j \in 0 .. Capacity - 1,
         i < j
  PROVE  Pos(Capacity, f, i) # Pos(Capacity, f, j)
<1>1. /\ HashOf[f] + i \in Nat /\ HashOf[f] + j \in Nat
      /\ HashOf[f] + i < HashOf[f] + j
      /\ (HashOf[f] + j) - (HashOf[f] + i) < Capacity
  OBVIOUS
<1>2. QED
  BY <1>1, RemaindersDiffer DEF Pos

-----------------------------------------------------------------------------
(* What the invariant says of the table. *)

\* The occupied slots are finitely many, and not more than the table has.
LEMMA OccupiedFinite ==
  ASSUME IInv
  PROVE  IsFiniteSet(Occupied) /\ Cardinality(Occupied) \in Nat /\ count <= Capacity
<1>1. IsFiniteSet(0 .. Capacity - 1) /\ Cardinality(0 .. Capacity - 1) = Capacity
  BY FS_Interval
<1>2. Occupied \in SUBSET (0 .. Capacity - 1)
  BY DEF IInv, Occupied
<1>3. IsFiniteSet(Occupied) /\ Cardinality(Occupied) <= Capacity
  BY <1>1, <1>2, FS_Subset
<1>4. QED
  BY <1>3, FS_CardinalityType DEF IInv, CountOK

\* The growth rule is never met: an insert probes the table it found.
LEMMA NoGrowth ==
  ASSUME IInv
  PROVE  Grown.cap = Capacity /\ Grown.table = table
<1>1. count \in Nat /\ count <= Capacity
  BY OccupiedFinite DEF IInv, ShardTypeOK
<1>2. ~MustGrow(count, capacity)
  BY <1>1 DEF MustGrow, IInv
<1>3. QED
  BY <1>2 DEF Grown, IInv

\* Two slots never hold the same fingerprint.
LEMMA NoDuplicate ==
  ASSUME IInv, NEW p \in Occupied, NEW q \in Occupied, table[p] = table[q]
  PROVE  p = q
<1>1. PICK i \in 0 .. Capacity - 1 :
        p = Pos(Capacity, table[p], i) /\ Found(table, Capacity, table[p], i)
  BY DEF IInv, ProbeOK
<1>2. PICK j \in 0 .. Capacity - 1 :
        q = Pos(Capacity, table[q], j) /\ Found(table, Capacity, table[q], j)
  BY DEF IInv, ProbeOK
<1>3. ~(i < j) /\ ~(j < i)
  BY <1>1, <1>2 DEF Found
<1>4. QED
  BY <1>1, <1>2, <1>3

\* Hence count is the number of fingerprints stored.
LEMMA StoredCount ==
  ASSUME IInv
  PROVE  IsFiniteSet(Stored) /\ Cardinality(Stored) = Cardinality(Occupied)
<1> DEFINE at == [p \in Occupied |-> table[p]]
<1>1. at \in Bijection(Occupied, Stored)
  <2>1. at \in [Occupied -> Stored]
    BY DEF Occupied, Stored
  <2>2. \A p, q \in Occupied : at[p] = at[q] => p = q
    BY NoDuplicate
  <2>3. \A f \in Stored : \E p \in Occupied : at[p] = f
    BY DEF Occupied, Stored
  <2>4. QED
    BY <2>1, <2>2, <2>3 DEF Bijection, Injection, Surjection, IsInjective
<1>2. ExistsBijection(Occupied, Stored)
  BY <1>1 DEF ExistsBijection
<1>3. QED
  BY <1>2, OccupiedFinite, FS_Bijection

\* A fingerprint that is stored is where its probe ends.
LEMMA StoredIsFound ==
  ASSUME IInv, NEW f \in Stored
  PROVE  \E i \in 0 .. Capacity - 1 :
           i < ProbeLimit /\ Found(table, Capacity, f, i) /\ table[Pos(Capacity, f, i)] = f
<1>1. PICK p \in Occupied : table[p] = f
  BY DEF Stored, Occupied
<1>2. QED
  BY <1>1 DEF IInv, ProbeOK

-----------------------------------------------------------------------------
(* The three outcomes of an insert. *)

\* A new fingerprint goes into a free slot, and every other keeps its probe.
LEMMA NewKeeps ==
  ASSUME IInv, NEW f \in Fingerprints, InsertNew(f)
  PROVE  /\ IInv'
         /\ f \notin Stored
         /\ Cardinality(Stored) < Capacity
         /\ Stored' = Stored \cup {f}
         /\ answer' = [of |-> f, exists |-> FALSE]
<1>1. PICK i \in 0 .. Capacity - 1 :
        /\ i < ProbeLimit
        /\ Found(table, Capacity, f, i)
        /\ table[Pos(Capacity, f, i)] = Free
        /\ table' = [table EXCEPT ![Pos(Capacity, f, i)] = f]
        /\ capacity' = Capacity
        /\ count' = count + 1
        /\ Answer(f, FALSE)
  BY NoGrowth DEF InsertNew
<1> DEFINE q == Pos(Capacity, f, i)
<1>2. q \in 0 .. Capacity - 1 /\ q \notin Occupied
  BY <1>1, PosInTable DEF Occupied, IInv
<1>3. /\ table' \in [0 .. Capacity - 1 -> Fingerprints \cup {Free}]
      /\ table'[q] = f
      /\ \A p \in 0 .. Capacity - 1 : p # q => table'[p] = table[p]
  BY <1>1, <1>2 DEF IInv, ShardTypeOK
<1>4. Occupied' = Occupied \cup {q}
  BY <1>1, <1>2, <1>3 DEF Occupied, IInv
<1>5. Cardinality(Occupied') = count + 1 /\ count + 1 <= Capacity
  <2>1. IsFiniteSet(Occupied) /\ Cardinality(Occupied) = count
    BY OccupiedFinite DEF IInv, CountOK
  <2>2. Cardinality(Occupied') = count + 1
    BY <1>2, <1>4, <2>1, FS_AddElement
  <2>3. Occupied' \in SUBSET (0 .. Capacity - 1)
    BY <1>2, <1>4 DEF Occupied, IInv
  <2>4. IsFiniteSet(0 .. Capacity - 1) /\ Cardinality(0 .. Capacity - 1) = Capacity
    BY FS_Interval
  <2>5. QED
    BY <2>2, <2>3, <2>4, FS_Subset
<1>6. ShardTypeOK' /\ CountOK' /\ capacity' = Capacity
  BY <1>1, <1>3, <1>5 DEF ShardTypeOK, IInv, CountOK, Answer
<1>7. f \notin Stored
  <2>1. SUFFICES ASSUME f \in Stored PROVE FALSE
    OBVIOUS
  <2>2. PICK j \in 0 .. Capacity - 1 :
          Found(table, Capacity, f, j) /\ table[Pos(Capacity, f, j)] = f
    BY <2>1, StoredIsFound
  <2>3. ~(i < j) /\ ~(j < i)
    BY <1>1, <2>2 DEF Found
  <2>4. QED
    BY <1>1, <2>2, <2>3
<1>8. ProbeOK'
  <2>1. SUFFICES ASSUME NEW p \in Occupied'
                 PROVE  \E j \in 0 .. Capacity - 1 :
                          /\ j < ProbeLimit
                          /\ p = Pos(Capacity, table'[p], j)
                          /\ Found(table', Capacity, table'[p], j)
    BY <1>1 DEF ProbeOK
  <2>2. CASE p = q
    <3>1. \A j \in 0 .. i - 1 : Pos(Capacity, f, j) # q /\ Pos(Capacity, f, j) \in 0 .. Capacity - 1
      BY <1>1, PosInTable DEF Found, Stops
    <3>2. Found(table', Capacity, f, i)
      BY <1>1, <1>3, <3>1 DEF Found, Stops
    <3>3. QED
      BY <1>1, <1>3, <2>2, <3>2
  <2>3. CASE p # q
    <3>1. p \in Occupied /\ table'[p] = table[p] /\ table[p] \in Fingerprints
      BY <1>3, <1>4, <2>3 DEF Occupied, IInv, ShardTypeOK
    <3>2. PICK j \in 0 .. Capacity - 1 :
            /\ j < ProbeLimit
            /\ p = Pos(Capacity, table[p], j)
            /\ Found(table, Capacity, table[p], j)
      BY <3>1 DEF IInv, ProbeOK
    <3>3. \A k \in 0 .. j - 1 : /\ Pos(Capacity, table[p], k) # q
                               /\ Pos(Capacity, table[p], k) \in 0 .. Capacity - 1
      BY <1>1, <3>1, <3>2, PosInTable DEF Found, Stops
    <3>4. Found(table', Capacity, table[p], j)
      BY <1>3, <2>3, <3>1, <3>2, <3>3 DEF Found, Stops
    <3>5. QED
      BY <3>1, <3>2, <3>4
  <2>4. QED
    BY <2>2, <2>3
<1>9. Stored' = Stored \cup {f}
  BY <1>1, <1>2, <1>3 DEF Stored, IInv
<1>10. Cardinality(Stored) < Capacity
  BY <1>5, StoredCount, OccupiedFinite DEF IInv, CountOK
<1>11. QED
  BY <1>1, <1>6, <1>7, <1>8, <1>9, <1>10 DEF IInv, Answer

\* A fingerprint that is there is found, and nothing changes.
LEMMA KnownKeeps ==
  ASSUME IInv, NEW f \in Fingerprints, InsertKnown(f)
  PROVE  /\ IInv'
         /\ f \in Stored
         /\ Stored' = Stored
         /\ answer' = [of |-> f, exists |-> TRUE]
<1>1. PICK i \in 0 .. Capacity - 1 : table[Pos(Capacity, f, i)] = f
  BY NoGrowth DEF InsertKnown
<1>2. UNCHANGED <<table, capacity, count>> /\ Answer(f, TRUE)
  BY NoGrowth DEF InsertKnown, IInv
<1>3. f \in Stored
  BY <1>1, PosInTable DEF Stored, IInv
<1>4. IInv'
  BY <1>2 DEF IInv, ShardTypeOK, ProbeOK, CountOK, Occupied, Answer
<1>5. QED
  BY <1>2, <1>3, <1>4 DEF Stored, Answer

\* An insert fails only when the slots it probed hold other fingerprints, as
\* many as the table or the probe limit allows.
LEMMA FailsKeeps ==
  ASSUME IInv, NEW f \in Fingerprints, InsertFails(f)
  PROVE  /\ IInv'
         /\ f \notin Stored
         /\ Cardinality(Stored) >= (IF Capacity <= ProbeLimit THEN Capacity ELSE ProbeLimit)
         /\ Stored' = Stored
         /\ answer' = [of |-> f, exists |-> FALSE]
<1> DEFINE n == IF Capacity <= ProbeLimit THEN Capacity ELSE ProbeLimit
<1>1. \A i \in 0 .. n - 1 : ~Stops(table, Capacity, f, i)
  BY NoGrowth DEF InsertFails
<1>2. UNCHANGED <<table, capacity, count>> /\ Answer(f, FALSE)
  BY NoGrowth DEF InsertFails, IInv
<1>3. IInv'
  BY <1>2 DEF IInv, ShardTypeOK, ProbeOK, CountOK, Occupied, Answer
<1>4. f \notin Stored
  BY <1>1, StoredIsFound DEF Found
<1>5. Cardinality(Stored) >= n
  <2> DEFINE at == [i \in 0 .. n - 1 |-> Pos(Capacity, f, i)]
  <2>1. at \in [0 .. n - 1 -> Occupied]
    BY <1>1, PosInTable DEF Occupied, Stops, IInv
  <2>2. \A i, j \in 0 .. n - 1 : at[i] = at[j] => i = j
    <3>1. SUFFICES ASSUME NEW i \in 0 .. n - 1, NEW j \in 0 .. n - 1, at[i] = at[j]
                   PROVE  i = j
      OBVIOUS
    <3>2. i \in 0 .. Capacity - 1 /\ j \in 0 .. Capacity - 1
      OBVIOUS
    <3>3. Pos(Capacity, f, i) = Pos(Capacity, f, j)
      BY <3>1
    <3>4. ~(i < j) /\ ~(j < i)
      BY <3>2, <3>3, ProbesDiffer
    <3>5. QED
      BY <3>2, <3>4
  <2>3. at \in Injection(0 .. n - 1, Occupied)
    BY <2>1, <2>2 DEF Injection, IsInjective
  <2>4. Cardinality(0 .. n - 1) <= Cardinality(Occupied)
    BY <2>3, OccupiedFinite, FS_Injection
  <2>5. Cardinality(0 .. n - 1) = n
    BY FS_Interval
  <2>6. QED
    BY <2>4, <2>5, StoredCount
<1>6. QED
  BY <1>2, <1>3, <1>4, <1>5 DEF Stored, Answer

-----------------------------------------------------------------------------
(* The theorems. *)

\* The abstract module counts as this one does.
LEMMA SameCardinality == \A S : BoundedSet!Cardinality(S) = Cardinality(S)
BY DEF BoundedSet!Cardinality, Cardinality

\* An empty shard.
LEMMA InitInvariant == ShardInit => IInv
<1> SUFFICES ASSUME ShardInit PROVE IInv
  OBVIOUS
<1>1. Occupied = {}
  BY DEF ShardInit, Occupied, EmptyTable
<1>2. ShardTypeOK /\ capacity = Capacity
  BY DEF ShardInit, ShardTypeOK, EmptyTable
<1>3. ProbeOK /\ CountOK
  BY <1>1, FS_EmptySet DEF ProbeOK, CountOK, ShardInit
<1>4. QED
  BY <1>2, <1>3 DEF IInv

\* Every insert keeps the invariant.
LEMMA StepInvariant == IInv /\ [ShardNext]_shardVars => IInv'
<1> SUFFICES ASSUME IInv, [ShardNext]_shardVars PROVE IInv'
  OBVIOUS
<1>1. CASE UNCHANGED shardVars
  BY <1>1 DEF shardVars, IInv, ShardTypeOK, ProbeOK, CountOK, Occupied
<1>2. CASE ShardNext
  BY <1>2, NewKeeps, KnownKeeps, FailsKeeps DEF ShardNext, Insert
<1>3. QED
  BY <1>1, <1>2

\* The inductive invariant holds of every behaviour of a shard
\* (fp_shard_insert_internal).
THEOREM ShardInvariant == ShardSpec => []IInv
<1>1. QED
  BY InitInvariant, StepInvariant, PTL DEF ShardSpec

\* Every variable of a shard keeps its type; count stays within the capacity.
THEOREM ShardTypeCorrect == ShardSpec => []ShardTypeOK
<1>1. IInv => ShardTypeOK
  BY DEF IInv
<1>2. QED
  BY <1>1, ShardInvariant, PTL

\* The probe for a stored fingerprint always ends at its slot: nothing stored
\* is ever missed or stored twice (fp_set_contains, fp_set_insert).
THEOREM ProbeCorrect == ShardSpec => []ProbeOK
<1>1. IInv => ProbeOK
  BY DEF IInv
<1>2. QED
  BY <1>1, ShardInvariant, PTL

\* No shard ever grows, whatever its capacity: the growth code is dead.
THEOREM CapacityFixed == ShardSpec => NeverGrows
<1>1. IInv /\ IInv' /\ [ShardNext]_shardVars => [capacity' = capacity]_shardVars
  BY DEF IInv
<1>2. QED
  BY <1>1, ShardInvariant, PTL DEF ShardSpec, NeverGrows

\* A shard implements a set that has room for Capacity members and may refuse
\* new ones from min(Capacity, ProbeLimit) members on (fp_set_insert).
THEOREM ShardImplementsBoundedSet == ShardSpec => BoundedSetSpec
<1>1. ShardInit => BoundedSet!Init
  BY DEF ShardInit, BoundedSet!Init, Stored, EmptyTable
<1>2. IInv /\ [ShardNext]_shardVars => [BoundedSet!Next]_<<Stored, answer>>
  <2> SUFFICES ASSUME IInv, [ShardNext]_shardVars PROVE [BoundedSet!Next]_<<Stored, answer>>
    OBVIOUS
  <2>1. CASE UNCHANGED shardVars
    BY <2>1 DEF shardVars, Stored
  <2>2. ASSUME NEW f \in Fingerprints, Insert(f) PROVE BoundedSet!Next
    <3>1. CASE InsertKnown(f)
      BY <3>1, KnownKeeps DEF BoundedSet!Next, BoundedSet!Insert, BoundedSet!Known
    <3>2. CASE InsertNew(f)
      BY <3>2, NewKeeps, SameCardinality DEF BoundedSet!Next, BoundedSet!Insert, BoundedSet!Added
    <3>3. CASE InsertFails(f)
      BY <3>3, FailsKeeps, SameCardinality DEF BoundedSet!Next, BoundedSet!Insert, BoundedSet!Refused
    <3>4. QED
      BY <2>2, <3>1, <3>2, <3>3 DEF Insert
  <2>3. QED
    BY <2>1, <2>2 DEF ShardNext
<1>3. QED
  BY <1>1, <1>2, ShardInvariant, PTL DEF ShardSpec, BoundedSetSpec, BoundedSet!Spec

-----------------------------------------------------------------------------
(* The reference map. *)

USE MapCapacityAssumption, NoRowAssumption

Held == {p \in 0 .. MapCapacity - 1 : keys[p] # Free}

MapTypes ==
  /\ mapCap = MapCapacity
  /\ keys \in [0 .. MapCapacity - 1 -> Fingerprints \cup {Free}]
  /\ rows \in [0 .. MapCapacity - 1 -> Rows \cup {NoRow}]
  /\ recorded \in [Fingerprints -> Rows \cup {NoRow}]

\* The map does not grow either, because its count is that of its slots.
MapCount == mapCount = Cardinality(Held)

\* The slot of a fingerprint has the last row loaded for it.  That a second
\* slot would hold an older one is ruled out by the probe: it ends at the first.
MapRows ==
  \A p \in Held :
    /\ rows[p] = recorded[keys[p]]
    /\ \E i \in 0 .. MapCapacity - 1 :
         p = Pos(MapCapacity, keys[p], i) /\ Found(keys, MapCapacity, keys[p], i)

\* Until the fork no worker trusts anything.
NoVerdictYet == phase = "load" => verdict = NoAnswer

\* The inductive invariant.
IndexInv == MapTypes /\ MapCount /\ MapRows /\ NoVerdictYet /\ TrustIsRecorded

-----------------------------------------------------------------------------
\* Every probe looks at a slot of the map.
LEMMA MapPosInTable ==
  ASSUME NEW f \in Fingerprints, NEW i \in Nat
  PROVE  Pos(MapCapacity, f, i) \in 0 .. MapCapacity - 1
<1>1. HashOf[f] + i \in Nat
  OBVIOUS
<1>2. QED
  BY <1>1 DEF Pos

\* The slots in use are finitely many, and not more than the map has.
LEMMA HeldFinite ==
  ASSUME IndexInv
  PROVE  IsFiniteSet(Held) /\ Cardinality(Held) \in Nat /\ mapCount <= MapCapacity
<1>1. IsFiniteSet(0 .. MapCapacity - 1) /\ Cardinality(0 .. MapCapacity - 1) = MapCapacity
  BY FS_Interval
<1>2. Held \in SUBSET (0 .. MapCapacity - 1)
  BY DEF Held
<1>3. QED
  BY <1>1, <1>2, FS_Subset, FS_CardinalityType DEF IndexInv, MapCount

\* The growth rule of the map is never met.
LEMMA MapNoGrowth ==
  ASSUME IndexInv
  PROVE  MapGrown.cap = MapCapacity /\ MapGrown.keys = keys /\ MapGrown.rows = rows
<1>1. mapCount \in Nat /\ mapCount <= MapCapacity /\ mapCap = MapCapacity
  BY HeldFinite DEF IndexInv, MapCount, MapTypes
<1>2. ~MustGrow(mapCount, mapCap)
  BY <1>1 DEF MustGrow
<1>3. QED
  BY <1>1, <1>2 DEF MapGrown

\* A lookup that finds the fingerprint returns the row recorded for it.
LEMMA LookupIsRecorded ==
  ASSUME IndexInv, NEW f \in Fingerprints, Contains(keys, MapCapacity, f)
  PROVE  Lookup(f) = recorded[f]
<1>1. mapCap = MapCapacity
  BY DEF IndexInv, MapTypes
<1>2. Contains(keys, MapCapacity, f)
  OBVIOUS
<1>3. PICK i \in 0 .. MapCapacity - 1 :
        Found(keys, MapCapacity, f, i) /\ keys[Pos(MapCapacity, f, i)] = f
  BY <1>2 DEF Contains
<1>4. Pos(MapCapacity, f, i) \in Held
  BY <1>3, MapPosInTable DEF Held
<1>5. \A j \in 0 .. MapCapacity - 1 : Found(keys, MapCapacity, f, j) => j = i
  <2>1. \A j \in 0 .. MapCapacity - 1 :
          Found(keys, MapCapacity, f, j) => ~(i < j) /\ ~(j < i)
    BY <1>3 DEF Found
  <2>2. QED
    BY <2>1
<1> DEFINE At(p) == \E j \in 0 .. MapCapacity - 1 :
                      Found(keys, MapCapacity, f, j) /\ p = Pos(MapCapacity, f, j)
<1>6. (CHOOSE p \in 0 .. MapCapacity - 1 : At(p)) = Pos(MapCapacity, f, i)
  <2>1. \A p \in 0 .. MapCapacity - 1 : At(p) <=> p = Pos(MapCapacity, f, i)
    BY <1>3, <1>5
  <2>2. Pos(MapCapacity, f, i) \in 0 .. MapCapacity - 1
    BY MapPosInTable
  <2> HIDE DEF At
  <2>3. QED
    BY <2>1, <2>2
<1>7. Lookup(f) = rows[Pos(MapCapacity, f, i)]
  BY <1>1, <1>2, <1>6 DEF Lookup
<1>8. QED
  BY <1>3, <1>4, <1>7 DEF IndexInv, MapRows

\* The mode that is made up for a type is one that is recorded with that type.
LEMMA ModeRoundTrip ==
  ASSUME NEW type \in Types
  PROVE  DtOf[DtToMode(type)] = type
BY RowsAssumption DEF Types, DtOf, DtToMode

-----------------------------------------------------------------------------
(* Loading a row. *)

\* A row that replaces another is the last one of its fingerprint, and of no
\* other.
LEMMA UpdateKeeps ==
  ASSUME IndexInv, NEW f \in Fingerprints, NEW row \in Rows, MapUpdate(f, row),
         recorded' = [recorded EXCEPT ![f] = row]
  PROVE  MapTypes' /\ MapCount' /\ MapRows'
<1>1. PICK i \in 0 .. MapCapacity - 1 :
        /\ Found(keys, MapCapacity, f, i)
        /\ keys[Pos(MapCapacity, f, i)] = f
        /\ rows' = [rows EXCEPT ![Pos(MapCapacity, f, i)] = row]
        /\ keys' = keys /\ mapCap' = MapCapacity
        /\ mapCount' = mapCount
  BY MapNoGrowth DEF MapUpdate
<1> DEFINE q == Pos(MapCapacity, f, i)
<1>2. q \in 0 .. MapCapacity - 1 /\ q \in Held
  BY <1>1, MapPosInTable DEF Held
<1>3. Held' = Held
  BY <1>1 DEF Held
<1>4. MapTypes' /\ MapCount'
  BY <1>1, <1>2, <1>3 DEF IndexInv, MapTypes, MapCount
<1>5. \A p \in Held : keys[p] = f => p = q
  <2>1. SUFFICES ASSUME NEW p \in Held, keys[p] = f PROVE p = q
    OBVIOUS
  <2>2. PICK j \in 0 .. MapCapacity - 1 :
          p = Pos(MapCapacity, f, j) /\ Found(keys, MapCapacity, f, j)
    BY <2>1 DEF IndexInv, MapRows
  <2>3. ~(i < j) /\ ~(j < i)
    BY <1>1, <2>2 DEF Found
  <2>4. QED
    BY <2>2, <2>3
<1>6. \A p \in Held : rows'[p] = recorded'[keys[p]]
  <2>1. SUFFICES ASSUME NEW p \in Held PROVE rows'[p] = recorded'[keys[p]]
    OBVIOUS
  <2>2. p \in 0 .. MapCapacity - 1 /\ keys[p] \in Fingerprints
    BY DEF Held, IndexInv, MapTypes
  <2>3. rows \in [0 .. MapCapacity - 1 -> Rows \cup {NoRow}]
        /\ recorded \in [Fingerprints -> Rows \cup {NoRow}]
    BY DEF IndexInv, MapTypes
  <2>4. CASE p = q
    BY <1>1, <2>2, <2>3, <2>4
  <2>5. CASE p # q
    BY <1>1, <1>5, <2>2, <2>3, <2>5 DEF IndexInv, MapRows
  <2>6. QED
    BY <2>4, <2>5
<1>7. MapRows'
  BY <1>1, <1>3, <1>6 DEF IndexInv, MapRows
<1>8. QED
  BY <1>4, <1>7

\* A row that is added takes a free slot, at which its probe ends.
LEMMA AddKeeps ==
  ASSUME IndexInv, NEW f \in Fingerprints, NEW row \in Rows, MapAdd(f, row),
         recorded' = [recorded EXCEPT ![f] = row]
  PROVE  MapTypes' /\ MapCount' /\ MapRows'
<1>1. PICK i \in 0 .. MapCapacity - 1 :
        /\ Found(keys, MapCapacity, f, i)
        /\ keys[Pos(MapCapacity, f, i)] = Free
        /\ keys' = [keys EXCEPT ![Pos(MapCapacity, f, i)] = f]
        /\ rows' = [rows EXCEPT ![Pos(MapCapacity, f, i)] = row]
        /\ mapCap' = MapCapacity
        /\ mapCount' = mapCount + 1
  BY MapNoGrowth DEF MapAdd
<1> DEFINE q == Pos(MapCapacity, f, i)
<1>2. q \in 0 .. MapCapacity - 1 /\ q \notin Held
  BY <1>1, MapPosInTable DEF Held
<1>3. /\ keys' \in [0 .. MapCapacity - 1 -> Fingerprints \cup {Free}]
      /\ rows' \in [0 .. MapCapacity - 1 -> Rows \cup {NoRow}]
      /\ keys'[q] = f /\ rows'[q] = row
      /\ \A p \in 0 .. MapCapacity - 1 : p # q => keys'[p] = keys[p] /\ rows'[p] = rows[p]
  BY <1>1, <1>2 DEF IndexInv, MapTypes
<1>4. Held' = Held \cup {q}
  BY <1>2, <1>3 DEF Held
<1>5. MapTypes' /\ MapCount'
  <2>1. MapTypes'
    BY <1>1, <1>3 DEF IndexInv, MapTypes
  <2>2. Cardinality(Held') = Cardinality(Held) + 1
    BY <1>2, <1>4, HeldFinite, FS_AddElement
  <2>3. QED
    BY <1>1, <2>1, <2>2 DEF IndexInv, MapCount
<1>6. \A p \in Held : keys[p] \in Fingerprints /\ keys[p] # f
  <2>1. SUFFICES ASSUME NEW p \in Held, keys[p] = f PROVE FALSE
    BY DEF Held, IndexInv, MapTypes
  <2>2. PICK j \in 0 .. MapCapacity - 1 :
          p = Pos(MapCapacity, f, j) /\ Found(keys, MapCapacity, f, j)
    BY <2>1 DEF IndexInv, MapRows
  <2>3. ~(i < j) /\ ~(j < i)
    BY <1>1, <2>1, <2>2 DEF Found, Stops
  <2>4. QED
    BY <1>1, <2>1, <2>2, <2>3
<1>7. MapRows'
  <2>1. SUFFICES ASSUME NEW p \in Held'
                 PROVE  /\ rows'[p] = recorded'[keys'[p]]
                        /\ \E j \in 0 .. MapCapacity - 1 :
                             /\ p = Pos(MapCapacity, keys'[p], j)
                             /\ Found(keys', MapCapacity, keys'[p], j)
    BY DEF MapRows
  <2>2. recorded \in [Fingerprints -> Rows \cup {NoRow}]
    BY DEF IndexInv, MapTypes
  <2>3. CASE p = q
    <3>1. \A j \in 0 .. i - 1 : /\ Pos(MapCapacity, f, j) # q
                               /\ Pos(MapCapacity, f, j) \in 0 .. MapCapacity - 1
      BY <1>1, MapPosInTable DEF Found, Stops
    <3>2. Found(keys', MapCapacity, f, i)
      BY <1>1, <1>3, <3>1 DEF Found, Stops
    <3>3. QED
      BY <1>3, <2>2, <2>3, <3>2
  <2>4. CASE p # q
    <3>1. p \in Held /\ keys'[p] = keys[p] /\ rows'[p] = rows[p] /\ keys[p] # f
          /\ keys[p] \in Fingerprints
      BY <1>3, <1>4, <1>6, <2>4 DEF Held
    <3>2. PICK j \in 0 .. MapCapacity - 1 :
            /\ p = Pos(MapCapacity, keys[p], j)
            /\ Found(keys, MapCapacity, keys[p], j)
      BY <3>1 DEF IndexInv, MapRows
    <3>3. \A k \in 0 .. j - 1 : /\ Pos(MapCapacity, keys[p], k) # q
                               /\ Pos(MapCapacity, keys[p], k) \in 0 .. MapCapacity - 1
      BY <1>1, <3>1, <3>2, MapPosInTable DEF Found, Stops
    <3>4. Found(keys', MapCapacity, keys[p], j)
      BY <1>3, <2>4, <3>1, <3>2, <3>3 DEF Found, Stops
    <3>5. rows'[p] = recorded'[keys'[p]]
      BY <2>2, <3>1 DEF IndexInv, MapRows
    <3>6. QED
      BY <3>1, <3>2, <3>4, <3>5
  <2>5. QED
    BY <2>3, <2>4
<1>8. QED
  BY <1>5, <1>7

\* A row that is dropped belongs to a fingerprint that the full map does not
\* hold, so no lookup can return an older row for it.
LEMMA DropKeeps ==
  ASSUME IndexInv, NEW f \in Fingerprints, NEW row \in Rows, MapDrop(f, row),
         recorded' = [recorded EXCEPT ![f] = row]
  PROVE  MapTypes' /\ MapCount' /\ MapRows'
<1>1. UNCHANGED mapVars /\ \A i \in 0 .. MapCapacity - 1 : ~Stops(keys, MapCapacity, f, i)
  <2>1. mapCap = MapCapacity
    BY DEF IndexInv, MapTypes
  <2>2. keys' = keys /\ rows' = rows /\ mapCap' = MapCapacity /\ mapCount' = mapCount
    BY MapNoGrowth DEF MapDrop
  <2>3. \A i \in 0 .. MapCapacity - 1 : ~Stops(keys, MapCapacity, f, i)
    BY MapNoGrowth DEF MapDrop
  <2>4. QED
    BY <2>1, <2>2, <2>3 DEF mapVars
<1>2. MapTypes' /\ MapCount' /\ Held' = Held
  BY <1>1 DEF mapVars, IndexInv, MapTypes, MapCount, Held
<1>3. \A p \in Held : keys[p] \in Fingerprints /\ keys[p] # f
  BY <1>1 DEF Held, Found, IndexInv, MapTypes, MapRows
<1>4. MapRows'
  BY <1>1, <1>2, <1>3 DEF mapVars, IndexInv, MapTypes, MapRows
<1>5. QED
  BY <1>2, <1>4

-----------------------------------------------------------------------------
\* An empty index.
LEMMA IndexInitInvariant == Init => IndexInv
<1> SUFFICES ASSUME Init PROVE IndexInv
  OBVIOUS
<1>1. Held = {}
  BY DEF Init, MapInit, Held, EmptyTable
<1>2. MapTypes
  BY DEF Init, MapInit, MapTypes, EmptyTable
<1>3. MapCount /\ MapRows
  BY <1>1, FS_EmptySet DEF Init, MapInit, MapCount, MapRows
<1>4. NoVerdictYet /\ TrustIsRecorded
  BY DEF Init, NoVerdictYet, TrustIsRecorded
<1>5. QED
  BY <1>2, <1>3, <1>4 DEF IndexInv

\* A row is loaded before any worker runs.
LEMMA LoadKeeps ==
  ASSUME IndexInv, NEW f \in Fingerprints, NEW row \in Rows, LoadRow(f, row)
  PROVE  IndexInv'
<1>1. recorded' = [recorded EXCEPT ![f] = row] /\ MapInsert(f, row)
  BY DEF LoadRow
<1>2. MapTypes' /\ MapCount' /\ MapRows'
  BY <1>1, UpdateKeeps, AddKeeps, DropKeeps DEF MapInsert
<1>3. verdict' = NoAnswer
  BY DEF LoadRow, IndexInv, NoVerdictYet
<1>4. QED
  BY <1>2, <1>3 DEF IndexInv, NoVerdictYet, TrustIsRecorded

\* After the fork both tables stay as they are.
LEMMA ReadOnlyKeeps ==
  ASSUME IndexInv, UNCHANGED <<mapVars, recorded>>
  PROVE  MapTypes' /\ MapCount' /\ MapRows'
BY DEF mapVars, IndexInv, MapTypes, MapCount, MapRows, Held

\* A verdict is taken from the map.
LEMMA TrustKeeps ==
  ASSUME IndexInv, NEW f \in Fingerprints, NEW type \in Types, TryBlindTrust(f, type)
  PROVE  IndexInv'
<1>1. MapTypes' /\ MapCount' /\ MapRows'
  BY ReadOnlyKeeps DEF TryBlindTrust
<1>2. phase' = "scan" /\ recorded' = recorded
  BY DEF TryBlindTrust
<1>3. /\ verdict'.of = f /\ verdict'.type = type /\ verdict'.mode = DtToMode(type)
      /\ verdict'.row = IF Trusted(f, type) THEN Lookup(f) ELSE NoRow
  BY DEF TryBlindTrust
<1>4. TrustIsRecorded'
  <2>1. SUFFICES ASSUME verdict'.row # NoRow
                 PROVE  /\ recorded'[verdict'.of] = verdict'.row
                        /\ DtOf[verdict'.mode] = verdict'.row.type
                        /\ verdict'.row.type = verdict'.type
                        /\ Old(verdict'.row)
    BY DEF TrustIsRecorded, Old
  <2>2. Trusted(f, type) /\ verdict'.row = Lookup(f)
    BY <1>3, <2>1
  <2>3. recorded[f] = Lookup(f)
    <3>1. mapCap = MapCapacity /\ Lookup(f) # NoRow
      BY <2>2 DEF Trusted, IndexInv, MapTypes
    <3>2. Contains(keys, MapCapacity, f)
      BY <3>1 DEF Lookup
    <3>3. QED
      BY <3>2, LookupIsRecorded
  <2>4. QED
    BY <1>2, <1>3, <2>2, <2>3, ModeRoundTrip DEF Trusted
<1>5. QED
  BY <1>1, <1>2, <1>4 DEF IndexInv, NoVerdictYet

\* Every step keeps the invariant.
LEMMA IndexStepInvariant == IndexInv /\ [Next]_indexVars => IndexInv'
<1> SUFFICES ASSUME IndexInv, [Next]_indexVars PROVE IndexInv'
  OBVIOUS
<1>1. CASE UNCHANGED indexVars
  <2>1. MapTypes' /\ MapCount' /\ MapRows'
    BY <1>1, ReadOnlyKeeps DEF indexVars
  <2>2. QED
    BY <1>1, <2>1 DEF indexVars, IndexInv, NoVerdictYet, TrustIsRecorded, Old
<1>2. CASE Fork
  <2>1. MapTypes' /\ MapCount' /\ MapRows'
    BY <1>2, ReadOnlyKeeps DEF Fork
  <2>2. QED
    BY <1>2, <2>1 DEF Fork, IndexInv, NoVerdictYet, TrustIsRecorded, Old
<1>3. CASE RestoreProgressToMemory
  BY <1>3, LoadKeeps DEF RestoreProgressToMemory
<1>4. CASE \E f \in Fingerprints, type \in Types : TryBlindTrust(f, type)
  BY <1>4, TrustKeeps
<1>5. QED
  BY <1>1, <1>2, <1>3, <1>4 DEF Next

\* A worker never trusts a row other than the last one recorded for the entry it
\* meets (try_blind_trust, ref_map_insert).
THEOREM TrustCorrect == Spec => []TrustIsRecorded
<1>1. IndexInv => TrustIsRecorded
  BY DEF IndexInv
<1>2. QED
  BY <1>1, IndexInitInvariant, IndexStepInvariant, PTL DEF Spec
-----------------------------------------------------------------------------
(* While the tables have room, nothing recorded is missed. *)

\* What was loaded fits into both tables, and into the probes of the set.
Fits == \A n \in {Capacity, MapCapacity, ProbeLimit} : Cardinality(seen) <= n

\* The set and the map hold nothing but what was loaded, and each fingerprint
\* that was loaded has a row recorded.
SeenRecorded ==
  /\ IsFiniteSet(seen) /\ seen \subseteq Fingerprints
  /\ \A f \in Fingerprints : recorded[f] # NoRow => f \in seen
  /\ Stored \subseteq seen
  /\ \A p \in Held : keys[p] \in seen

\* Until they are full both hold all of it.
NothingMissing ==
  Fits => \A f \in seen : f \in Stored /\ \E p \in Held : keys[p] = f

\* The inductive invariant: that of the map, that of the set, and how the two
\* agree on what is known.
KnownInv == IndexInv /\ IInv /\ SeenRecorded /\ NothingMissing /\ OldRowsTrusted

\* Two slots of the map never have the same fingerprint.
LEMMA MapNoDuplicate ==
  ASSUME IndexInv, NEW p \in Held, NEW q \in Held, keys[p] = keys[q]
  PROVE  p = q
<1>1. PICK i \in 0 .. MapCapacity - 1 :
        p = Pos(MapCapacity, keys[p], i) /\ Found(keys, MapCapacity, keys[p], i)
  BY DEF IndexInv, MapRows
<1>2. PICK j \in 0 .. MapCapacity - 1 :
        q = Pos(MapCapacity, keys[q], j) /\ Found(keys, MapCapacity, keys[q], j)
  BY DEF IndexInv, MapRows
<1>3. ~(i < j) /\ ~(j < i)
  BY <1>1, <1>2 DEF Found
<1>4. QED
  BY <1>1, <1>2, <1>3

\* A key of the map is found by the probe.
LEMMA HeldIsFound ==
  ASSUME IndexInv, NEW p \in Held
  PROVE  /\ Contains(keys, MapCapacity, keys[p])
         /\ \E i \in 0 .. MapCapacity - 1 : Stops(keys, MapCapacity, keys[p], i)
<1>1. PICK i \in 0 .. MapCapacity - 1 :
        p = Pos(MapCapacity, keys[p], i) /\ Found(keys, MapCapacity, keys[p], i)
  BY DEF IndexInv, MapRows
<1>2. QED
  BY <1>1 DEF Contains, Found

\* A probe that goes through the whole map has looked at every slot once: all of
\* them are taken, by as many fingerprints.
LEMMA DropMeansFull ==
  ASSUME IndexInv, SeenRecorded, NEW f \in Fingerprints,
         \A i \in 0 .. MapCapacity - 1 : ~Stops(keys, MapCapacity, f, i)
  PROVE  Cardinality(seen) >= MapCapacity
<1> DEFINE at == [i \in 0 .. MapCapacity - 1 |-> keys[Pos(MapCapacity, f, i)]]
<1>1. \A i \in 0 .. MapCapacity - 1 : Pos(MapCapacity, f, i) \in Held
  BY MapPosInTable DEF Stops, Held
<1>2. at \in [0 .. MapCapacity - 1 -> seen]
  BY <1>1 DEF SeenRecorded
<1>3. \A i, j \in 0 .. MapCapacity - 1 : at[i] = at[j] => i = j
  <2>1. SUFFICES ASSUME NEW i \in 0 .. MapCapacity - 1, NEW j \in 0 .. MapCapacity - 1,
                        at[i] = at[j]
                 PROVE  i = j
    OBVIOUS
  <2>2. Pos(MapCapacity, f, i) = Pos(MapCapacity, f, j)
    BY <1>1, <2>1, MapNoDuplicate
  <2>3. HashOf[f] + i \in Nat /\ HashOf[f] + j \in Nat
    OBVIOUS
  <2>4. (HashOf[f] + i) % MapCapacity = (HashOf[f] + j) % MapCapacity
    BY <2>2 DEF Pos
  <2>5. i < j => (HashOf[f] + j) - (HashOf[f] + i) < MapCapacity
                 /\ HashOf[f] + i < HashOf[f] + j
    OBVIOUS
  <2>6. j < i => (HashOf[f] + i) - (HashOf[f] + j) < MapCapacity
                 /\ HashOf[f] + j < HashOf[f] + i
    OBVIOUS
  <2>7. ~(i < j) /\ ~(j < i)
    BY <2>3, <2>4, <2>5, <2>6, RemaindersDiffer
  <2>8. QED
    BY <2>7
<1>4. at \in Injection(0 .. MapCapacity - 1, seen)
  BY <1>2, <1>3 DEF Injection, IsInjective
<1>5. Cardinality(0 .. MapCapacity - 1) <= Cardinality(seen)
  <2>1. IsFiniteSet(seen)
    BY DEF SeenRecorded
  <2> HIDE DEF at
  <2>2. QED
    BY <1>4, <2>1, FS_Injection
<1>6. QED
  BY <1>5, FS_Interval

\* An insert into the set: the fingerprint is in it from then on, unless the set
\* is full, and it loses none.
LEMMA InsertStores ==
  ASSUME KnownInv, NEW f \in Fingerprints, Insert(f)
  PROVE  /\ IInv' /\ seen' = seen \cup {f}
         /\ Stored' = Stored \/ Stored' = Stored \cup {f}
         /\ f \in Stored' \/
              (f \notin Stored /\ ~(Cardinality(seen) < Capacity /\ Cardinality(seen) < ProbeLimit))
<1>1. IInv /\ IsFiniteSet(seen) /\ Stored \subseteq seen
  BY DEF KnownInv, SeenRecorded
<1>2. seen' = seen \cup {f}
  BY DEF Insert, InsertKnown, InsertNew, InsertFails, Answer
<1>3. CASE InsertKnown(f)
  BY <1>1, <1>2, <1>3, KnownKeeps
<1>4. CASE InsertNew(f)
  BY <1>1, <1>2, <1>4, NewKeeps
<1>5. CASE InsertFails(f)
  <2>1. /\ IInv' /\ f \notin Stored /\ Stored' = Stored
        /\ Cardinality(Stored) >= (IF Capacity <= ProbeLimit THEN Capacity ELSE ProbeLimit)
    BY <1>1, <1>5, FailsKeeps
  <2>2. Cardinality(Stored) <= Cardinality(seen)
    BY <1>1, FS_Subset
  <2>3. Cardinality(Stored) \in Nat /\ Cardinality(seen) \in Nat
    BY <1>1, FS_Subset, FS_CardinalityType
  <2>4. Cardinality(Stored) >= Capacity \/ Cardinality(Stored) >= ProbeLimit
    BY <2>1
  <2>5. ~(Cardinality(seen) < Capacity /\ Cardinality(seen) < ProbeLimit)
    BY <2>2, <2>3, <2>4
  <2>6. QED
    BY <1>2, <2>1, <2>5
<1>6. QED
  BY <1>3, <1>4, <1>5 DEF Insert

\* So with a row in the map.
LEMMA MapInsertStores ==
  ASSUME KnownInv, NEW f \in Fingerprints, NEW row \in Rows, MapInsert(f, row)
  PROVE  /\ \A p \in Held' : (p \in Held /\ keys'[p] = keys[p]) \/ keys'[p] = f
         /\ \A p \in Held : p \in Held' /\ keys'[p] = keys[p]
         /\ (\E p \in Held' : keys'[p] = f) \/
              ((\A p \in Held : keys[p] # f) /\ ~(Cardinality(seen) < MapCapacity))
<1>1. IndexInv /\ SeenRecorded
  BY DEF KnownInv
<1>2. /\ mapCap = MapCapacity
      /\ keys \in [0 .. MapCapacity - 1 -> Fingerprints \cup {Free}]
  BY <1>1 DEF IndexInv, MapTypes
<1>3. CASE MapUpdate(f, row)
  <2>1. PICK i \in 0 .. MapCapacity - 1 :
          keys[Pos(MapCapacity, f, i)] = f /\ keys' = keys
    BY <1>1, <1>3, MapNoGrowth DEF MapUpdate
  <2>2. Held' = Held /\ Pos(MapCapacity, f, i) \in Held
    BY <2>1, MapPosInTable DEF Held
  <2>3. QED
    BY <2>1, <2>2
<1>4. CASE MapAdd(f, row)
  <2>1. PICK i \in 0 .. MapCapacity - 1 :
          /\ keys[Pos(MapCapacity, f, i)] = Free
          /\ keys' = [keys EXCEPT ![Pos(MapCapacity, f, i)] = f]
    BY <1>1, <1>4, MapNoGrowth DEF MapAdd
  <2> DEFINE q == Pos(MapCapacity, f, i)
  <2>2. q \in 0 .. MapCapacity - 1 /\ q \notin Held
    BY <2>1, MapPosInTable DEF Held
  <2>3. keys'[q] = f /\ \A p \in 0 .. MapCapacity - 1 : p # q => keys'[p] = keys[p]
    BY <1>2, <2>1, <2>2
  <2>4. Held' = Held \cup {q}
    BY <2>2, <2>3 DEF Held
  <2>5. Held \subseteq 0 .. MapCapacity - 1
    BY DEF Held
  <2> HIDE DEF q
  <2>6. QED
    BY <2>2, <2>3, <2>4, <2>5
<1>5. CASE MapDrop(f, row)
  <2>1. keys' = keys /\ \A i \in 0 .. MapCapacity - 1 : ~Stops(keys, MapCapacity, f, i)
    BY <1>1, <1>5, MapNoGrowth DEF MapDrop
  <2>2. Held' = Held
    BY <2>1 DEF Held
  <2>3. \A p \in Held : keys[p] # f
    BY <1>1, <2>1, HeldIsFound
  <2>4. Cardinality(seen) >= MapCapacity /\ Cardinality(seen) \in Nat
    BY <1>1, <2>1, DropMeansFull, FS_CardinalityType DEF SeenRecorded
  <2>5. QED
    BY <2>1, <2>2, <2>3, <2>4
<1>6. QED
  BY <1>3, <1>4, <1>5 DEF MapInsert

\* Loading a row keeps both tables complete as long as they have room.
LEMMA LoadKeepsKnown ==
  ASSUME KnownInv, NEW f \in Fingerprints, NEW row \in Rows, LoadRow(f, row)
  PROVE  KnownInv'
<1>1. Insert(f) /\ MapInsert(f, row) /\ recorded' = [recorded EXCEPT ![f] = row]
  BY DEF LoadRow
<1>2. IndexInv'
  BY LoadKeeps DEF KnownInv
<1>3. /\ IInv' /\ seen' = seen \cup {f}
      /\ Stored \subseteq Stored' /\ Stored' \subseteq Stored \cup {f}
      /\ f \in Stored' \/
           (f \notin Stored /\ ~(Cardinality(seen) < Capacity /\ Cardinality(seen) < ProbeLimit))
  BY <1>1, InsertStores
<1>4. /\ \A p \in Held' : (p \in Held /\ keys'[p] = keys[p]) \/ keys'[p] = f
      /\ \A p \in Held : p \in Held' /\ keys'[p] = keys[p]
      /\ (\E p \in Held' : keys'[p] = f) \/
           ((\A p \in Held : keys[p] # f) /\ ~(Cardinality(seen) < MapCapacity))
  BY <1>1, MapInsertStores
<1>5. SeenRecorded /\ NothingMissing
  BY DEF KnownInv
<1>6. IsFiniteSet(seen')
  BY <1>3, <1>5, FS_AddElement DEF SeenRecorded
<1>7. SeenRecorded'
  <2>1. recorded \in [Fingerprints -> Rows \cup {NoRow}]
    BY DEF KnownInv, IndexInv, MapTypes
  <2>2. seen' \subseteq Fingerprints /\ Stored' \subseteq seen'
    BY <1>3, <1>5 DEF SeenRecorded
  <2>3. \A g \in Fingerprints : recorded'[g] # NoRow => g \in seen'
    BY <1>1, <1>3, <1>5, <2>1 DEF SeenRecorded
  <2>4. \A p \in Held' : keys'[p] \in seen'
    BY <1>3, <1>4, <1>5 DEF SeenRecorded
  <2>5. QED
    BY <1>6, <2>2, <2>3, <2>4 DEF SeenRecorded
<1>8. NothingMissing'
  <2>1. SUFFICES ASSUME Fits'
                 PROVE  \A g \in seen' : g \in Stored' /\ \E p \in Held' : keys'[p] = g
    BY DEF NothingMissing
  <2>2. /\ Cardinality(seen') <= Capacity /\ Cardinality(seen') <= MapCapacity
        /\ Cardinality(seen') <= ProbeLimit
    BY <2>1 DEF Fits
  <2>3. Cardinality(seen) \in Nat /\ MapCapacity \in Nat
    BY <1>5, FS_CardinalityType DEF SeenRecorded
  <2>4. f \notin seen => Cardinality(seen') = Cardinality(seen) + 1
    BY <1>3, <1>5, FS_AddElement DEF SeenRecorded
  <2>5. f \in seen => Cardinality(seen') = Cardinality(seen)
    BY <1>3
  <2>6. /\ Cardinality(seen) <= Capacity /\ Cardinality(seen) <= MapCapacity
        /\ Cardinality(seen) <= ProbeLimit
    <3>1. CASE f \in seen
      BY <2>2, <2>5, <3>1
    <3>2. CASE f \notin seen
      BY <2>2, <2>3, <2>4, <3>2
    <3>3. QED
      BY <3>1, <3>2
  <2>7. Fits
    BY <2>6 DEF Fits
  <2>8. \A g \in seen : g \in Stored /\ \E p \in Held : keys[p] = g
    BY <1>5, <2>7 DEF NothingMissing
  <2>9. f \notin seen => /\ Cardinality(seen) < Capacity /\ Cardinality(seen) < MapCapacity
                        /\ Cardinality(seen) < ProbeLimit
    BY <2>2, <2>3, <2>4
  <2>10. f \in Stored'
    BY <1>3, <2>8, <2>9
  <2>11. \E p \in Held' : keys'[p] = f
    <3>1. CASE f \in seen
      BY <1>4, <2>8, <3>1
    <3>2. CASE f \notin seen
      BY <1>4, <2>9, <3>2
    <3>3. QED
      BY <3>1, <3>2
  <2>12. \A g \in seen : g \in Stored' /\ \E p \in Held' : keys'[p] = g
    <3>1. SUFFICES ASSUME NEW g \in seen
                   PROVE  g \in Stored' /\ \E p \in Held' : keys'[p] = g
      OBVIOUS
    <3>2. PICK p \in Held : keys[p] = g
      BY <2>8
    <3>3. p \in Held' /\ keys'[p] = g
      BY <1>4, <3>2
    <3>4. g \in Stored'
      BY <1>3, <2>8
    <3>5. QED
      BY <3>3, <3>4
  <2>13. QED
    BY <1>3, <2>10, <2>11, <2>12
<1>9. OldRowsTrusted'
  <2>1. verdict' = NoAnswer
    BY DEF LoadRow, KnownInv, IndexInv, NoVerdictYet
  <2>2. QED
    BY <2>1 DEF OldRowsTrusted
<1>10. QED
  BY <1>2, <1>3, <1>7, <1>8, <1>9 DEF KnownInv

\* After the fork both tables stay complete.
LEMMA ReadOnlyKeepsKnown ==
  ASSUME KnownInv, UNCHANGED <<shardVars, mapVars, recorded>>
  PROVE  IInv' /\ SeenRecorded' /\ NothingMissing'
<1>1. IInv /\ SeenRecorded /\ NothingMissing
  BY DEF KnownInv
<1>2. /\ table' = table /\ capacity' = capacity /\ count' = count /\ answer' = answer
      /\ seen' = seen /\ keys' = keys /\ recorded' = recorded
  BY DEF shardVars, mapVars
<1>3. IInv'
  BY <1>1, <1>2 DEF IInv, ShardTypeOK, ProbeOK, CountOK, Occupied
<1>4. Stored' = Stored /\ Held' = Held /\ (Fits' <=> Fits)
  BY <1>2 DEF Stored, Held, Fits
<1>5. QED
  BY <1>1, <1>2, <1>3, <1>4 DEF SeenRecorded, NothingMissing

\* A worker that does not trust has a reason other than a full table.
LEMMA TrustKeepsKnown ==
  ASSUME KnownInv, NEW f \in Fingerprints, NEW type \in Types, TryBlindTrust(f, type)
  PROVE  KnownInv'
<1>1. IndexInv'
  BY TrustKeeps DEF KnownInv
<1>2. UNCHANGED <<shardVars, mapVars, recorded>>
  BY DEF TryBlindTrust
<1>3. IInv' /\ SeenRecorded' /\ NothingMissing'
  BY <1>2, ReadOnlyKeepsKnown
<1>4. OldRowsTrusted'
  <2>1. SUFFICES ASSUME Fits, verdict'.row = NoRow, recorded[f] # NoRow
                 PROVE  \/ recorded[f].type # type \/ recorded[f].type = "DT_UNKNOWN"
                        \/ ~Old(recorded[f])
    <3>1. verdict'.of = f /\ verdict'.type = type /\ seen' = seen /\ recorded' = recorded
      BY <1>2 DEF TryBlindTrust, shardVars
    <3>2. QED
      BY <3>1 DEF OldRowsTrusted, Fits, Old
  <2>2. f \in seen /\ IInv /\ IndexInv
    BY <2>1 DEF KnownInv, SeenRecorded
  <2>3. f \in Stored /\ \E p \in Held : keys[p] = f
    BY <2>1, <2>2 DEF KnownInv, NothingMissing
  <2>4. Contains(table, capacity, f)
    BY <2>2, <2>3, StoredIsFound DEF Contains, IInv
  <2>5. Lookup(f) = recorded[f]
    BY <2>2, <2>3, HeldIsFound, LookupIsRecorded
  <2>6. ~Trusted(f, type)
    BY <2>1, <2>5 DEF TryBlindTrust
  <2>7. QED
    BY <2>1, <2>4, <2>5, <2>6 DEF Trusted
<1>5. QED
  BY <1>1, <1>3, <1>4 DEF KnownInv

\* An empty index misses nothing.
LEMMA KnownInitInvariant == Init => KnownInv
<1> SUFFICES ASSUME Init PROVE KnownInv
  OBVIOUS
<1>1. IndexInv /\ IInv
  BY IndexInitInvariant, InitInvariant DEF Init
<1>2. Stored = {} /\ Held = {} /\ seen = {}
  BY DEF Init, ShardInit, MapInit, Stored, Held, EmptyTable
<1>3. SeenRecorded
  BY <1>2, FS_EmptySet DEF SeenRecorded, Init
<1>4. NothingMissing /\ OldRowsTrusted
  BY <1>2 DEF NothingMissing, OldRowsTrusted, Init
<1>5. QED
  BY <1>1, <1>3, <1>4 DEF KnownInv

\* Every step keeps it.
LEMMA KnownStepInvariant == KnownInv /\ [Next]_indexVars => KnownInv'
<1> SUFFICES ASSUME KnownInv, [Next]_indexVars PROVE KnownInv'
  OBVIOUS
<1>1. IndexInv'
  BY IndexStepInvariant DEF KnownInv
<1>2. CASE Fork \/ UNCHANGED indexVars
  <2>1. /\ UNCHANGED <<shardVars, mapVars, recorded>> /\ verdict' = verdict
        /\ seen' = seen /\ recorded' = recorded
    BY <1>2 DEF Fork, indexVars, shardVars
  <2>2. IInv' /\ SeenRecorded' /\ NothingMissing'
    BY <2>1, ReadOnlyKeepsKnown
  <2>3. OldRowsTrusted'
    BY <2>1 DEF KnownInv, OldRowsTrusted, Old
  <2>4. QED
    BY <1>1, <2>2, <2>3 DEF KnownInv
<1>3. CASE RestoreProgressToMemory
  BY <1>3, LoadKeepsKnown DEF RestoreProgressToMemory
<1>4. CASE \E f \in Fingerprints, type \in Types : TryBlindTrust(f, type)
  BY <1>4, TrustKeepsKnown
<1>5. QED
  BY <1>2, <1>3, <1>4 DEF Next

\* The set and the map never disagree on what is known while it fits: an old row
\* of the type that readdir gives is always trusted (try_blind_trust,
\* fp_set_contains, ref_map_lookup).
THEOREM OldRowsAreTrusted == Spec => []OldRowsTrusted
<1>1. KnownInv => OldRowsTrusted
  BY DEF KnownInv
<1>2. QED
  BY <1>1, KnownInitInvariant, KnownStepInvariant, PTL DEF Spec
=============================================================================
