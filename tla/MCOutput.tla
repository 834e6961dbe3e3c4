------------------------------ MODULE MCOutput ------------------------------
(***************************************************************************)
(* Three rows, and two more in the second run.                             *)
(***************************************************************************)
EXTENDS OutputRun

Rows == 1 .. 5
Growing == <<<<1, 2, 3>>, <<1, 2, 3, 4, 5>>>>
=============================================================================
