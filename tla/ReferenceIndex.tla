--------------------------- MODULE ReferenceIndex ---------------------------
(***************************************************************************)
(* Half-incremental mode: the master loads the rows of the last complete   *)
(* scan into a fingerprint set and a reference map                         *)
(* (parse_pbin_buffer), forks the workers, and a worker trusts an old row  *)
(* instead of calling lstat (try_blind_trust).                             *)
(***************************************************************************)
EXTENDS FingerprintShard, ReferenceMap, FileTypes, Integers

CONSTANTS
  Now,            \* time(NULL) of the worker
  SkipInterval    \* cfg->skip_interval

ASSUME TimesAssumption == Now \in Nat /\ SkipInterval \in Int

VARIABLES
  phase,      \* "load" in the master, "scan" in the workers after the fork
  recorded,   \* history: the last row loaded for a fingerprint
  verdict     \* of the last try_blind_trust

indexVars == <<shardVars, mapVars, phase, recorded, verdict>>

Types == {r.type : r \in Rows}
ASSUME RowsAssumption == \A r \in Rows : \E mode \in DOMAIN DtOf : r.type = DtOf[mode]

Init ==
  /\ ShardInit /\ MapInit
  /\ phase = "load"
  /\ recorded = [f \in Fingerprints |-> NoRow]
  /\ verdict = NoAnswer

\* One record of parse_pbin_buffer.
LoadRow(f, row) ==
  /\ phase = "load"
  /\ Insert(f)
  /\ MapInsert(f, row)
  /\ recorded' = [recorded EXCEPT ![f] = row]
  /\ UNCHANGED <<phase, verdict>>

\* worker_set_context and the fork of the workers: both tables are read-only
\* from here on.
Fork ==
  /\ phase = "load"
  /\ phase' = "scan"
  /\ UNCHANGED <<shardVars, mapVars, recorded, verdict>>

\* restore_progress_to_memory: the rows of the archive, then those of the slices.
RestoreProgressToMemory == \E f \in Fingerprints, row \in Rows : LoadRow(f, row)

Old(row) == SkipInterval > 0 /\ Now - row.mtime > SkipInterval

\* The conditions of try_blind_trust for an entry of the type that readdir gives.
Trusted(f, type) ==
  /\ type # "DT_UNKNOWN"
  /\ Contains(table, capacity, f)
  /\ Lookup(f) # NoRow
  /\ Lookup(f).type = type
  /\ Old(Lookup(f))

\* MUTANT: a hit in the fingerprint set is trusted whatever its type.
TrustedAnyType(f, type) ==
  /\ phase = "scan"
  /\ verdict' = [of |-> f, type |-> type, mode |-> DtToMode(type),
                 row |-> IF Contains(table, capacity, f) THEN Lookup(f) ELSE NoRow]
  /\ UNCHANGED <<shardVars, mapVars, phase, recorded>>

\* A worker meets f with that type: it reuses the row and makes the mode up
\* from the type, or calls lstat (NoRow).
TryBlindTrust(f, type) ==
  /\ phase = "scan"
  /\ verdict' = [of |-> f, type |-> type, mode |-> DtToMode(type),
                 row |-> IF Trusted(f, type) THEN Lookup(f) ELSE NoRow]
  /\ UNCHANGED <<shardVars, mapVars, phase, recorded>>

Next ==
  \/ RestoreProgressToMemory
  \/ Fork
  \/ \E f \in Fingerprints, type \in Types : TryBlindTrust(f, type)

Spec == Init /\ [][Next]_indexVars

-----------------------------------------------------------------------------
\* What a worker trusts is the last row loaded for the very entry, of the type
\* readdir gives and old enough, also when the tables are full and rows were
\* dropped, and it is listed, and recorded again, as what it was
\* (try_blind_trust, ref_map_insert, dt_to_mode, mode_to_dtype).
TrustIsRecorded ==
  verdict # NoAnswer /\ verdict.row # NoRow =>
    /\ recorded[verdict.of] = verdict.row
    /\ DtOf[verdict.mode] = verdict.row.type
    /\ verdict.row.type = verdict.type
    /\ Old(verdict.row)

\* While every fingerprint loaded fits into both tables, an old row of the known
\* type is always trusted: the set and the map never disagree on what is known.
OldRowsTrusted ==
  LET fits == \A n \in {Capacity, MapCapacity, ProbeLimit} : Cardinality(seen) <= n IN
  fits /\ verdict # NoAnswer /\ verdict.row = NoRow =>
    LET row == recorded[verdict.of] IN
    row # NoRow => row.type # verdict.type \/ row.type = "DT_UNKNOWN" \/ ~Old(row)
=============================================================================
