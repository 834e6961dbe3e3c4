------------------------------ MODULE FpTable -------------------------------
(***************************************************************************)
(* Open addressing with linear probing, as fingerprint_set.c and           *)
(* reference_map.c do it.  A table is a function from positions to         *)
(* fingerprints or Free; slots are never freed, so there are no tombstones.*)
(***************************************************************************)
EXTENDS Naturals

CONSTANTS
  Fingerprints,   \* what fp_compute may return
  HashOf,         \* splitmix64 of a fingerprint
  EstimatedFiles, \* cfg.estimated_files
  MinCapacity,    \* the least of any table (16)
  Free            \* an empty slot (meta = 0)

ASSUME HashAssumption == HashOf \in [Fingerprints -> Nat]
ASSUME FreeAssumption == Free \notin Fingerprints

\* The least power of two that is not below n.
NextPow2(n) ==
  CHOOSE p \in {2 ^ k : k \in 0 .. n} :
    p >= n /\ \A k \in 0 .. n : 2 ^ k >= n => 2 ^ k >= p

AtLeast(n) == IF NextPow2(n) < MinCapacity THEN MinCapacity ELSE NextPow2(n)

EmptyTable(cap) == [p \in 0 .. cap - 1 |-> Free]

\* The position of the i-th probe.  The capacity is a power of two, so the mask
\* is a remainder.
Pos(cap, f, i) == (HashOf[f] + i) % cap

\* A probe for f stops at a free slot and at f itself.
Stops(t, cap, f, i) == t[Pos(cap, f, i)] \in {Free, f}

\* The probe for f ends at its i-th step.
Found(t, cap, f, i) ==
  /\ Stops(t, cap, f, i)
  /\ \A j \in 0 .. i - 1 : ~Stops(t, cap, f, j)

\* The lookup finds f: fp_set_contains, ref_map_lookup.
Contains(t, cap, f) ==
  \E i \in 0 .. cap - 1 : Found(t, cap, f, i) /\ t[Pos(cap, f, i)] = f

\* The growth rule of both tables.
MustGrow(n, cap) == n * 2 >= cap * 3

\* f in a table that is known to have room for it.
Placed(t, cap, f) ==
  [p \in 0 .. cap - 1 |->
     IF \E i \in 0 .. cap - 1 : Found(t, cap, f, i) /\ p = Pos(cap, f, i) THEN f ELSE t[p]]

\* The table of twice the size, every entry inserted again in the order of the
\* positions.
Rehashed(t, cap) ==
  LET upTo[n \in 0 .. cap] ==
        IF n = 0 THEN EmptyTable(2 * cap)
        ELSE IF t[n - 1] = Free THEN upTo[n - 1]
        ELSE Placed(upTo[n - 1], 2 * cap, t[n - 1])
  IN upTo[cap]
=============================================================================
