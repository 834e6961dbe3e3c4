---------------------------- MODULE ProgressPump ----------------------------
(***************************************************************************)
(* pump_pbin_batch hands out the directories of old slices again, at most  *)
(* BatchSize in a turn, and promote_fpbin_to_pbin makes slices of the      *)
(* fpbin files once the old ones are read (src/output/progress_archive.c). *)
(* A row stands for more than a stdio buffer: nothing is read ahead.       *)
(***************************************************************************)
EXTENDS ProgressResume

VARIABLE promo  \* promote_fpbin_to_pbin: pbin_start_idx, the next to rename

NoPromo == [start |-> 0, next |-> 0]

(***************************************************************************)
(* pump_pbin_batch                                                         *)
(***************************************************************************)
PumpFull == ~pump.open \/ scan.sent = BatchSize

PumpEnd ==
  /\ mpc = "pump" /\ PumpFull
  /\ mpc' = "check"
  /\ UNCHANGED <<disk, scan, w, recBatch, pump, visited, fpb, promo>>

PumpRow ==
  /\ mpc = "pump" /\ ~PumpFull /\ pump.pos < Len(pump.rows)
  /\ LET row == pump.rows[pump.pos + 1] IN
       /\ visited' = visited \cup {row}
       /\ scan' = IF row \in Dirs
                  THEN [scan EXCEPT !.todo = @ \cup {row}, !.sent = @ + 1]
                  ELSE scan
  /\ pump' = [pump EXCEPT !.pos = @ + 1]
  /\ UNCHANGED <<mpc, disk, w, recBatch, fpb, promo>>

\* After a slice was emptied below the pump any read may fail.
Consumed == pump.pos >= Len(pump.rows) \/ pump.cut

Later == (pump.slice + 1 .. pump.slice + SearchGap + 1) \cap DOMAIN disk.slices

\* MUTANT: the pump opens the slice it has read.
PumpSame ==
  /\ mpc = "pump" /\ ~PumpFull /\ Consumed
  /\ mpc' = "check"
  /\ pump' = PumpFrom(pump.slice, 0, pump.state)
  /\ UNCHANGED <<disk, scan, w, recBatch, visited, fpb, promo>>

\* on_pbin_slice_consumed: the next slice, or the promotion, or the end.
PumpNext ==
  /\ mpc = "pump" /\ ~PumpFull /\ Consumed
  /\ IF Later # {}
     THEN pump' = PumpFrom(Min(Later), 0, pump.state) /\ mpc' = "check"
     ELSE IF fpb.open
          THEN pump' = [NoPump EXCEPT !.state = pump.state] /\ mpc' = "promote"
          ELSE pump' = NoPump /\ mpc' = "check"
  /\ UNCHANGED <<disk, scan, w, recBatch, visited, fpb, promo>>

(***************************************************************************)
(* promote_fpbin_to_pbin                                                   *)
(***************************************************************************)
FpTotal == fpb.index + 1

\* find_max_pbin_index
MaxSlice == Max(Met(0) \cup {0})

\* fpbin_clear_mem
FpCleared == [fpb EXCEPT !.mem = <<>>]

\* The last fpbin slice gets what is in memory, and its footer.
PromoteSeal ==
  /\ mpc = "promote"
  /\ IF fpb.open
     THEN LET rows == disk.fp[fpb.index].rows \o fpb.buf \o fpb.mem IN
            disk' = WithFp(disk, fpb.index, File(rows, TRUE))
     ELSE UNCHANGED disk
  /\ fpb' = [FpCleared EXCEPT !.lines = @ + Len(fpb.mem), !.open = FALSE,
                              !.buf = <<>>]
  /\ promo' = [start |-> MaxSlice + 1, next |-> 0]
  /\ mpc' = "rename"
  /\ UNCHANGED <<scan, w, recBatch, pump, visited>>

\* A file that is not there is only logged.
Rename ==
  /\ mpc = "rename" /\ promo.next < FpTotal
  /\ disk' = IF promo.next \in DOMAIN disk.fp
             THEN [WithSlice(disk, promo.start + promo.next, disk.fp[promo.next])
                     EXCEPT !.fp = Restrict(@, DOMAIN @ \ {promo.next})]
             ELSE disk
  /\ promo' = [promo EXCEPT !.next = @ + 1]
  /\ UNCHANGED <<mpc, scan, w, recBatch, pump, visited, fpb>>

Promoted == promo.start .. promo.start + FpTotal - 1

Verified == Promoted \subseteq {i \in DOMAIN disk.slices : Sealed(i)}

\* When a footer is missing, the index of fpbin is left for the next run.
Verify ==
  /\ mpc = "rename" /\ promo.next = FpTotal
  /\ mpc' = IF Verified THEN "cleanup" ELSE "check"
  /\ pump' = IF Verified THEN pump ELSE NoPump
  /\ UNCHANGED <<disk, scan, w, recBatch, visited, fpb, promo>>

\* Ten more files than there should be.
Cleanup ==
  /\ mpc = "cleanup"
  /\ disk' = WithoutFp(disk, FpTotal + 10)
  /\ mpc' = "adopt"
  /\ UNCHANGED <<scan, w, recBatch, pump, visited, fpb, promo>>

\* The pump goes to the promoted slices, and writing continues behind them.
Adopt ==
  /\ mpc = "adopt"
  /\ disk' = IF w.open
             THEN WithSlice(disk, w.index,
                            File(disk.slices[w.index].rows \o w.buf, FALSE))
             ELSE disk
  /\ pump' = PumpFrom(promo.start, 0, "NEW")
  /\ w' = [index |-> promo.start + FpTotal, lines |-> 0, open |-> FALSE,
           buf |-> <<>>]
  /\ mpc' = "check"
  /\ UNCHANGED <<scan, recBatch, visited, fpb, promo>>

Pump ==
  /\ \/ PumpEnd \/ PumpRow \/ PumpNext
     \/ PromoteSeal \/ Rename \/ Verify \/ Cleanup \/ Adopt
  /\ UNCHANGED <<archiving, ended, out>>
=============================================================================
