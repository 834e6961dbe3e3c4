----------------------------- MODULE RowStream -----------------------------
(***************************************************************************)
(* What the async writer promises to the main thread: the rows that were   *)
(* submitted are printed in that order, each once, and it closes only with *)
(* all of them printed.                                                    *)
(***************************************************************************)
EXTENDS Naturals, Sequences

CONSTANT Row

VARIABLES submitted, printed, closed

streamVars == <<submitted, printed, closed>>

StreamInit == submitted = <<>> /\ printed = <<>> /\ closed = FALSE

Submit ==
  /\ ~closed
  /\ submitted' \in Seq(Row)
  /\ Len(submitted) <= Len(submitted')
  /\ SubSeq(submitted', 1, Len(submitted)) = submitted
  /\ UNCHANGED <<printed, closed>>

Emit ==
  /\ Len(printed) < Len(submitted)
  /\ printed' = Append(printed, submitted[Len(printed) + 1])
  /\ UNCHANGED <<submitted, closed>>

Close ==
  /\ ~closed /\ printed = submitted
  /\ closed' = TRUE
  /\ UNCHANGED <<submitted, printed>>

\* A new writer, after the process of the last one ended or was killed.
Renew == submitted' = <<>> /\ printed' = <<>> /\ closed' = FALSE

StreamNext == Submit \/ Emit \/ Close \/ Renew

StreamSpec == StreamInit /\ [][StreamNext]_streamVars
=============================================================================
