--------------------------- MODULE ProgressResume ---------------------------
(***************************************************************************)
(* restore_progress (src/output/progress_archive.c) at the start of a run, *)
(* and the fpbin files (progress_io.c) that keep the directories found     *)
(* while old slices are pumped.  Nobody lists the directory of the files:  *)
(* slices are searched for by number until too many in a row are missing.  *)
(***************************************************************************)
EXTENDS ProgressStore, FiniteSetsExt

CONSTANTS
  Root,       \* the target path
  Entries,    \* Entries[d]: what the directory d holds
  BatchSize,  \* cfg.batch_size, of the pump
  Watermark,  \* FPBIN_MEM_WATERMARK
  SearchGap,  \* slices in a row that may be missing: 50
  FpReach     \* numbers of fpbin files that are tried: 1000

\* A directory has every name once.
ASSUME EntriesAssumption ==
  /\ Root \in DOMAIN Entries
  /\ \A d \in DOMAIN Entries :
       Entries[d] \in Seq(Range(Entries[d])) /\ IsInjective(Entries[d])
\* However deep, no directory is below itself.
ASSUME TreeAssumption ==
  \A D \in SUBSET DOMAIN Entries :
    D # {} => \E d \in D : Range(Entries[d]) \cap D = {}
ASSUME BatchAssumption == BatchSize \in Nat \ {0} /\ Watermark \in Nat \ {0}
ASSUME SearchAssumption == SearchGap \in Nat /\ FpReach \in Nat

VARIABLES
  visited,  \* visited_set
  fpb       \* fpbin_*: index, lines, open, mem, its buffer

Dirs == DOMAIN Entries

NoFiles == [i \in {} |-> File(<<>>, FALSE)]

\* The files of a progress_base, none of them there.
NoDisk == [slices |-> NoFiles, fp |-> NoFiles, archive |-> <<>>,
           idx |-> NoIndex, fpidx |-> NoIndex]

\* The index of fpbin is deleted, and its files below a number.
WithoutFp(d, n) ==
  [d EXCEPT !.fp = Restrict(@, {i \in DOMAIN @ : i >= n}), !.fpidx = NoIndex]

NoPump == [state |-> "DONE", slice |-> 0, pos |-> 0, open |-> FALSE,
           rows |-> <<>>, cut |-> FALSE]

NoFp == [index |-> 0, lines |-> 0, open |-> FALSE, mem |-> <<>>, buf |-> <<>>]

(***************************************************************************)
(* restore_progress                                                        *)
(***************************************************************************)

\* iterate_archive gives up at a block that was cut short.
ArchiveRows ==
  UNION {Range(disk.archive[i]) :
           i \in {j \in DOMAIN disk.archive :
                    \A k \in 1 .. j : disk.archive[k] # Torn}}

\* read_pbin_footer finds one that verifies.
Sealed(i) == disk.slices[i].sealed

RowsOf(indices) == UNION {Range(disk.slices[i].rows) : i \in indices}

\* A limit of 0 rows is none.
RowsUpTo(i, n) ==
  LET rows == disk.slices[i].rows IN
  IF n = 0 \/ n > Len(rows) THEN Range(rows) ELSE Range(SubSeq(rows, 1, n))

\* get_slice_row_count: the footer, or else the draft index.
RowCount(i) == IF Sealed(i) THEN Len(disk.slices[i].rows) ELSE 0

\* The slices met by a search that may give up from the slice "first" on.
Met(first) ==
  {i \in DOMAIN disk.slices :
     \A s \in SearchGap .. i :
       s >= first => (s - SearchGap .. s) \cap DOMAIN disk.slices # {}}

Blocks == Cardinality(Met(0)) + Len(disk.archive)

\* load_progress_index
LoadedIndex ==
  IF disk.idx = NoIndex THEN [index |-> 0, lines |-> 0] ELSE disk.idx

\* What goes into visited_set.
Loaded ==
  LET there == Met(LoadedIndex.index + 1) IN
  ArchiveRows \cup
  CASE disk.idx = NoIndex /\ Blocks > 1 -> {}
    [] disk.idx = NoIndex /\ Blocks <= 1 -> RowsOf(there)
    [] OTHER -> (UNION {RowsUpTo(i, RowCount(i)) :
                          i \in {j \in there : j < disk.idx.index}}) \cup
                (UNION {RowsUpTo(i, disk.idx.lines) :
                          i \in there \cap {disk.idx.index}})

PumpFrom(i, pos, state) ==
  [state |-> state, slice |-> i, pos |-> pos, open |-> TRUE,
   rows |-> disk.slices[i].rows, cut |-> FALSE]

PumpFirst == IF 0 \in DOMAIN disk.slices THEN PumpFrom(0, 0, "OLD") ELSE NoPump

\* The rest of the slice of the index (a footer counts as a rest), or else
\* slice 0.
RestoredPump ==
  LET i == disk.idx.index
      n == disk.idx.lines
      file == disk.slices[i]
  IN CASE disk.idx = NoIndex /\ Blocks > 1 -> PumpFirst
       [] disk.idx = NoIndex /\ Blocks <= 1 -> NoPump
       [] OTHER ->
            IF i \in DOMAIN disk.slices /\ (n < Len(file.rows) \/ Sealed(i))
            THEN PumpFrom(i, Min({n, Len(file.rows)}), "OLD")
            ELSE PumpFirst

\* Files of fpbin that a promotion has left behind.
Residual ==
  disk.idx # NoIndex /\ disk.fpidx # NoIndex /\ \E i \in DOMAIN disk.fp : i < FpReach

Restore ==
  /\ visited' = Loaded
  /\ w' = [index |-> LoadedIndex.index, lines |-> LoadedIndex.lines,
           open |-> FALSE, buf |-> <<>>]
  /\ recBatch' = NewBatch
  /\ IF Residual
     THEN /\ fpb' = [NoFp EXCEPT !.index = disk.fpidx.index,
                                 !.lines = disk.fpidx.lines]
          /\ pump' = NoPump
          /\ mpc' = "promote"
          /\ UNCHANGED disk
     ELSE /\ fpb' = NoFp
          /\ pump' = RestoredPump
          /\ mpc' = "drain"
          /\ disk' = IF disk.idx = NoIndex THEN disk ELSE WithoutFp(disk, FpReach)

(***************************************************************************)
(* fpbin_append                                                            *)
(***************************************************************************)
WithFp(d, i, file) == [d EXCEPT !.fp = Put(@, i, file)]

FpOpened == IF fpb.open THEN disk ELSE WithFp(disk, fpb.index, File(<<>>, FALSE))

FpKeep(d) ==
  /\ Len(fpb.mem) < Watermark
  /\ disk' = FpOpened
  /\ fpb' = [fpb EXCEPT !.open = TRUE, !.mem = Append(@, d),
                        !.lines = IF fpb.open THEN @ ELSE 0]
  /\ UNCHANGED mpc

FpSpill(d) ==
  /\ Len(fpb.mem) >= Watermark
  /\ LET lines == fpb.lines + Len(fpb.mem) + 1 IN
       /\ fpb' = [fpb EXCEPT !.mem = <<>>, !.lines = lines,
                             !.buf = @ \o Append(fpb.mem, d)]
       /\ mpc' = IF lines >= SliceLines THEN "fpseal" ELSE mpc
  /\ UNCHANGED disk

FpAppend(d) == FpKeep(d) \/ FpSpill(d)

\* fpbin_rotate_slice: footer, next slice, and then the index.
FpSeal ==
  /\ mpc = "fpseal"
  /\ disk' = WithFp(WithFp(disk, fpb.index,
                           File(disk.fp[fpb.index].rows \o fpb.buf, TRUE)),
                    fpb.index + 1, File(<<>>, FALSE))
  /\ fpb' = [fpb EXCEPT !.index = @ + 1, !.lines = 0, !.buf = <<>>]
  /\ mpc' = "fpindex"

FpIndex ==
  /\ mpc = "fpindex"
  /\ disk' = [disk EXCEPT !.fpidx = [index |-> fpb.index, lines |-> fpb.lines]]
  /\ mpc' = "batch"
  /\ UNCHANGED fpb

FpWriteBack ==
  /\ fpb.open /\ fpb.buf # <<>>
  /\ disk' = WithFp(disk, fpb.index,
                    File(Append(disk.fp[fpb.index].rows, Head(fpb.buf)), FALSE))
  /\ fpb' = [fpb EXCEPT !.buf = Tail(@)]
  /\ UNCHANGED mpc
=============================================================================
