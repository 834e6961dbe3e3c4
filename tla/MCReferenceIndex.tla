-------------------------- MODULE MCReferenceIndex --------------------------
(* Five fingerprints that clash in tables of four slots. *)
EXTENDS ReferenceIndex, TLC

CONSTANTS a, b, c, d, e

MCHash == a :> 0 @@ b :> 4 @@ c :> 1 @@ d :> 3 @@ e :> 2

MCRows == {[mtime |-> 0, type |-> "DT_REG"], [mtime |-> 9, type |-> "DT_REG"],
           [mtime |-> 0, type |-> "DT_UNKNOWN"]}
=============================================================================
