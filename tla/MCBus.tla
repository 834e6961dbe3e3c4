------------------------------- MODULE MCBus -------------------------------
(* Small trees for WorkerBus. *)
EXTENDS WorkerBus

CONSTANTS root, dir1, dir2, file1, file2

\* One directory under another.
ShortChain ==
  root :> << <<dir1>> >> @@ dir1 :> << <<>> >>

\* Two directories at once, with a file in each.
Fork ==
  root :> << <<dir1, dir2>> >> @@ dir1 :> << <<file1>> >> @@ dir2 :> << <<file2>> >>

\* The root's listing in two batches, and a file in each.
Flat ==
  root :> << <<dir1>>, <<file1>> >> @@ dir1 :> << <<>> >>
=============================================================================
