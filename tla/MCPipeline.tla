---------------------------- MODULE MCPipeline ----------------------------
(* Runs for Pipeline: each is about one of the hard things. *)
EXTENDS Pipeline

Perm(bits, special) == [type |-> "REG", perm |-> bits, special |-> special]

Attr(answer, flags) == [answer |-> answer, flags |-> flags]

File(path, dev, ino) ==
  [path |-> path, dev |-> dev, ino |-> ino, mode |-> Perm({1, 2, 4, 7}, {}),
   uid |-> 0, gid |-> 0, size |-> 5, mtime |-> 7, atime |-> 8, ctime |-> 9,
   attr |-> Attr("error", {})]

Dir(path, dev, ino) == [File(path, dev, ino) EXCEPT !.mode.type = "DIR"]

Names == [id \in 0 .. 2 |-> IF id = 0 THEN "root" ELSE "none"]
Nobody == [id \in {} |-> "none"]

\* A run with the default format, where nothing goes wrong.
Plain(batches) ==
  [batches |-> batches, row |-> [csv |-> FALSE, quote |-> FALSE, switches |-> {}],
   format |-> <<>>, includeDir |-> FALSE, continueMode |-> FALSE, pumpingOld |-> FALSE,
   printDir |-> FALSE, output |-> "stdout", opens |-> TRUE, single |-> <<>>,
   dead |-> {}, mayFail |-> FALSE, wakes |-> FALSE, names |-> Names,
   renamed |-> Nobody, watched |-> FALSE]

a == File(<<"a">>, 1, 11)
b == File(<<"b">>, 1, 12)
c == File(<<"c">>, 2, 13)
d == Dir(<<"d">>, 1, 14)

\* The same entries in several batches, looked up by two threads and by main.
Twice == [Plain(<< <<a, b>>, <<b, a>>, <<a>> >>) EXCEPT !.wakes = TRUE]

\* A device recovers while its entries are looked up; no thread can be had.
Dying == [Plain(<< <<c, a>>, <<c>> >>) EXCEPT !.dead = {2}, !.mayFail = TRUE]

\* Directories, and a batch beyond the limit.
Tree == [Plain(<< <<d, a, b, c>> >>) EXCEPT
           !.includeDir = TRUE, !.continueMode = TRUE, !.printDir = TRUE,
           !.output = "file"]

\* A directory that comes twice, and no file to name it in.
NamedTwice == [Plain(<< <<d>>, <<d>> >>) EXCEPT
             !.printDir = TRUE, !.output = "file", !.opens = FALSE]

\* A target that is a file.
Single == [Plain(<<>>) EXCEPT !.single = <<a>>]
OldTree == [Tree EXCEPT !.pumpingOld = TRUE, !.includeDir = FALSE, !.output = "split"]

\* Paths with every character that a format or CSV gives a meaning, modes with
\* special bits, and owners that are renamed and share a bucket.
Odd == << [File(<<Quote, ",", Quote>>, 1, 11) EXCEPT !.uid = 2, !.mode = Perm({1, 3, 6}, {3, 6, 9})],
          [File(<<Quote, Quote, EndOfLine, "%">>, 1, 12) EXCEPT !.mode = Perm({4, 9}, {9})],
          [File(<<>>, 2, 13) EXCEPT !.uid = 2, !.mode.type = "SOCK"] >>
Csv == [Plain(<<Odd>>) EXCEPT !.row.csv = TRUE, !.renamed = (0 :> "toor" @@ 2 :> "daemon")]

\* A format with a letter that means nothing and a % at its end; files with and
\* without attributes, on more devices than the cache holds.
Mixed == << [File(<<"a">>, 1, 11) EXCEPT !.attr = Attr("flags", {5, 13})],
            [File(<<"b">>, 1, 12) EXCEPT !.attr.answer = "notty"],
            [File(<<"c">>, 1, 13) EXCEPT !.attr = Attr("flags", {1})],
            [File(<<"e">>, 2, 15) EXCEPT !.attr.answer = "notty"],
            [File(<<"f">>, 2, 16) EXCEPT !.attr.answer = "denied"] >>
Custom == [Plain(<<SubSeq(Mixed, 1, 3)>>) EXCEPT
             !.format = <<"x", "y", "%", "%", "%", "X", ",", "%", "p", "%">>,
             !.row.quote = TRUE]
Switched == [Plain(<< <<Mixed[2], Mixed[4], Mixed[5]>> >>) EXCEPT
               !.row.switches = {"X", "u", "s"}, !.renamed = 0 :> "toor"]

\* The panel is on while the counters grow.
Watched == [Plain(<< <<a>> >>) EXCEPT !.watched = TRUE]

MCInputs ==
  {Twice, Dying, Tree, OldTree, Csv, Custom, Switched, Watched, Single, NamedTwice}
=============================================================================
