---------------------------- MODULE ReferenceMap ----------------------------
(***************************************************************************)
(* The reference map (src/scan/reference_map.c): fingerprint to the mtime  *)
(* and type recorded for it.  Filled by one thread, read by the workers    *)
(* after the fork; the same table and growth rule as a fingerprint shard,  *)
(* without a limit on probes.                                              *)
(***************************************************************************)
EXTENDS FpTable

CONSTANTS
  Rows,         \* what is recorded: [mtime, type]
  NoRow,
  MapCapacity   \* of a new map

ASSUME MapCapacityAssumption == MapCapacity \in Nat \ {0}
\* ref_map_create: twice the files that are expected.
NewMapCapacity == AtLeast(EstimatedFiles * 2)
ASSUME MapCreationAssumption == MapCapacity = NewMapCapacity

ASSUME NoRowAssumption == NoRow \notin Rows

VARIABLES
  keys, rows,       \* map->entries by position: fingerprint, and its row
  mapCap, mapCount

mapVars == <<keys, rows, mapCap, mapCount>>

MapInit ==
  /\ keys = EmptyTable(MapCapacity)
  /\ rows = [p \in 0 .. MapCapacity - 1 |-> NoRow]
  /\ mapCap = MapCapacity
  /\ mapCount = 0

\* ref_map_lookup: the row, or NoRow for NULL.
Lookup(f) ==
  IF Contains(keys, mapCap, f)
  THEN rows[CHOOSE p \in 0 .. mapCap - 1 :
              \E i \in 0 .. mapCap - 1 : Found(keys, mapCap, f, i) /\ p = Pos(mapCap, f, i)]
  ELSE NoRow

\* The table the insert probes, grown when the rule says so; rows move with
\* their keys.
MapGrown ==
  IF MustGrow(mapCount, mapCap)
  THEN LET ks == Rehashed(keys, mapCap) IN
       [cap |-> 2 * mapCap, keys |-> ks,
        rows |-> [p \in 0 .. 2 * mapCap - 1 |-> IF ks[p] = Free THEN NoRow ELSE Lookup(ks[p])]]
  ELSE [cap |-> mapCap, keys |-> keys, rows |-> rows]

\* MUTANT: a fingerprint that is already there keeps its first row.
MapUpdateKeepsOld(f, row) ==
  /\ Contains(keys, mapCap, f)
  /\ UNCHANGED mapVars

MapUpdate(f, row) ==
  LET g == MapGrown IN
  \E i \in 0 .. g.cap - 1 :
    /\ Found(g.keys, g.cap, f, i)
    /\ g.keys[Pos(g.cap, f, i)] = f
    /\ rows' = [g.rows EXCEPT ![Pos(g.cap, f, i)] = row]
    /\ keys' = g.keys /\ mapCap' = g.cap
    /\ UNCHANGED mapCount

MapAdd(f, row) ==
  LET g == MapGrown IN
  \E i \in 0 .. g.cap - 1 :
    /\ Found(g.keys, g.cap, f, i)
    /\ g.keys[Pos(g.cap, f, i)] = Free
    /\ keys' = [g.keys EXCEPT ![Pos(g.cap, f, i)] = f]
    /\ rows' = [g.rows EXCEPT ![Pos(g.cap, f, i)] = row]
    /\ mapCap' = g.cap
    /\ mapCount' = mapCount + 1

\* The probe ran through the whole map: nothing is stored and nothing is said.
MapDrop(f, row) ==
  LET g == MapGrown IN
  /\ \A i \in 0 .. g.cap - 1 : ~Stops(g.keys, g.cap, f, i)
  /\ keys' = g.keys /\ rows' = g.rows /\ mapCap' = g.cap
  /\ UNCHANGED mapCount

MapInsert(f, row) == MapUpdate(f, row) \/ MapAdd(f, row) \/ MapDrop(f, row)
=============================================================================
