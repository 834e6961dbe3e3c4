----------------------------- MODULE MCSession -----------------------------
(***************************************************************************)
(* Two targets, one of them with a directory.                              *)
(***************************************************************************)
EXTENDS Session

Tree == [root |-> <<"a", "b">>, a |-> <<"f">>, b |-> <<>>, other |-> <<"h">>]

\* The command lines of the user: the root with each way to treat its history,
\* and the other target on the same files.
CommandLines ==
  [path : {"root"},
   given : {{}, {"continue"}, {"continue", "archive"}, {"runone", "archive"},
            {"clean"}, {"continue", "skip-interval"}}]
  \cup [path : {"other"}, given : {{"continue"}, {"runone"}}]

\* The same command line every time.
SameAgain == [path : {"root"}, given : {{"continue"}}]
=============================================================================
