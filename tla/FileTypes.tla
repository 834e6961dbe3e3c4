----------------------------- MODULE FileTypes -----------------------------
(***************************************************************************)
(* The type of a file as stat gives it in the mode, and as readdir and the *)
(* recorded rows give it (d_type).  NONE is a mode without a type, 0.      *)
(***************************************************************************)

\* mode_to_dtype
DtOf == [REG |-> "DT_REG", DIR |-> "DT_DIR", LNK |-> "DT_LNK", CHR |-> "DT_CHR",
         BLK |-> "DT_BLK", FIFO |-> "DT_FIFO", SOCK |-> "DT_SOCK", NONE |-> "DT_UNKNOWN"]

\* dt_to_mode: how a worker makes up the mode of an entry it did not look at.
DtToMode(dt) ==
  CASE dt = "DT_REG" -> "REG" [] dt = "DT_DIR" -> "DIR" [] dt = "DT_LNK" -> "LNK"
    [] dt = "DT_CHR" -> "CHR" [] dt = "DT_BLK" -> "BLK" [] dt = "DT_FIFO" -> "FIFO"
    [] dt = "DT_SOCK" -> "SOCK" [] OTHER -> "NONE"
=============================================================================
