-------------------------- MODULE FingerprintShard --------------------------
(***************************************************************************)
(* One shard of a FingerprintSet (src/scan/fingerprint_set.c).  Its mutex  *)
(* makes every insert and lookup one step, whatever thread calls; shards   *)
(* share nothing, so a set is 64 of them.                                  *)
(***************************************************************************)
EXTENDS FpTable, FiniteSets

CONSTANTS
  Capacity,       \* of a new shard
  ShardCount,     \* FP_SHARD_COUNT (64)
  ProbeLimit,     \* PROBE_LIMIT
  NoAnswer        \* before the first insert

ASSUME CapacityAssumption == Capacity \in Nat \ {0}
\* fp_set_create: twice the files that are expected, shared out.
NewCapacity == AtLeast((EstimatedFiles * 2 + ShardCount - 1) \div ShardCount)
ASSUME CreationAssumption == Capacity = NewCapacity

ASSUME ProbeLimitAssumption == ProbeLimit \in Nat \ {0}

VARIABLES
  table, capacity, count,   \* of the shard; tombstones is always 0
  answer,                   \* of the last fp_set_insert, with its argument
  seen                      \* history: every fingerprint handed to fp_set_insert

shardVars == <<table, capacity, count, answer, seen>>

ShardInit ==
  /\ table = EmptyTable(Capacity)
  /\ capacity = Capacity
  /\ count = 0
  /\ answer = NoAnswer
  /\ seen = {}

\* What the probe of an insert runs on: the table, grown when the rule says so.
Grown ==
  LET grows == MustGrow(count, capacity) IN
  [cap   |-> IF grows THEN 2 * capacity ELSE capacity,
   table |-> IF grows THEN Rehashed(table, capacity) ELSE table]

\* fp_set_insert returns `exists', which a failed probe leaves FALSE.
Answer(f, exists) ==
  /\ answer' = [of |-> f, exists |-> exists]
  /\ seen' = seen \cup {f}

InsertKnown(f) ==
  LET g == Grown IN
  \E i \in 0 .. g.cap - 1 :
    /\ i < ProbeLimit
    /\ Found(g.table, g.cap, f, i)
    /\ g.table[Pos(g.cap, f, i)] = f
    /\ table' = g.table /\ capacity' = g.cap
    /\ UNCHANGED count
    /\ Answer(f, TRUE)

\* MUTANT: the home slot is taken without a look at what is there.
InsertAtHome(f) ==
  /\ ~Contains(table, capacity, f)
  /\ table' = [table EXCEPT ![Pos(capacity, f, 0)] = f]
  /\ count' = count + 1
  /\ UNCHANGED capacity
  /\ Answer(f, FALSE)

InsertNew(f) ==
  LET g == Grown IN
  \E i \in 0 .. g.cap - 1 :
    /\ i < ProbeLimit
    /\ Found(g.table, g.cap, f, i)
    /\ g.table[Pos(g.cap, f, i)] = Free
    /\ table' = [g.table EXCEPT ![Pos(g.cap, f, i)] = f]
    /\ capacity' = g.cap
    /\ count' = count + 1
    /\ Answer(f, FALSE)

\* The probe ran through the table, or into its limit: log_fatal, which only
\* logs, and false.
InsertFails(f) ==
  LET g == Grown IN
  /\ \A i \in 0 .. g.cap - 1 : i < ProbeLimit => ~Stops(g.table, g.cap, f, i)
  /\ table' = g.table /\ capacity' = g.cap
  /\ UNCHANGED count
  /\ Answer(f, FALSE)

Insert(f) == InsertKnown(f) \/ InsertNew(f) \/ InsertFails(f)

ShardNext == \E f \in Fingerprints : Insert(f)

ShardSpec == ShardInit /\ [][ShardNext]_shardVars

-----------------------------------------------------------------------------
Stored == {table[p] : p \in 0 .. capacity - 1} \ {Free}
Occupied == {p \in 0 .. capacity - 1 : table[p] # Free}

\* Type invariant of a shard.
ShardTypeOK ==
  /\ capacity \in Nat \ {0}
  /\ table \in [0 .. capacity - 1 -> Fingerprints \cup {Free}]
  /\ count \in 0 .. capacity
  /\ answer \in [of : Fingerprints, exists : BOOLEAN] \cup {NoAnswer}
  /\ seen \subseteq Fingerprints

\* The probe for a stored fingerprint ends at its slot, within the limit: no
\* free slot cuts it off, and no second copy comes first
\* (fp_shard_insert_internal, fp_set_contains).
ProbeOK ==
  \A p \in Occupied :
    \E i \in 0 .. capacity - 1 :
      /\ i < ProbeLimit
      /\ p = Pos(capacity, table[p], i)
      /\ Found(table, capacity, table[p], i)

\* count is the number of occupied slots, so the growth rule sees the real load
\* (fp_shard_insert_internal).
CountOK == count = Cardinality(Occupied)

\* The growth rule count*2 >= capacity*3 asks for a load of 1.5, which no open
\* table reaches: the capacity of fp_set_create is the capacity for ever.
NeverGrows == [][capacity' = capacity]_shardVars

\* A fingerprint that was handed to fp_set_insert is in the set from then on:
\* false means that it was inserted, and a table that fills up grows
\* (fingerprint_set.c:105, 247).
InsertedIsStored == answer # NoAnswer => answer.of \in Stored

\* The set that a shard is instead: one with room for `Capacity' members.
BoundedSet == INSTANCE BoundedSet WITH
  Elements <- Fingerprints, Room <- Capacity,
  Limit <- IF Capacity <= ProbeLimit THEN Capacity ELSE ProbeLimit,
  members <- Stored

\* Threads that insert and look up at the same time see a set that is exact up
\* to its limit; beyond it, where InsertedIsStored fails, it still loses no
\* member and calls nothing a member that is none (fp_set_insert).
BoundedSetSpec == BoundedSet!Spec
=============================================================================
