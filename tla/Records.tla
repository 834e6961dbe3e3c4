----------------------------- MODULE Records -----------------------------
(***************************************************************************)
(* The two binary formats in which paths travel: the payload of a BATCH    *)
(* message (send_batch of src/scan/worker_scanner.c, parse_batch of        *)
(* src/scan/batch_processor.c), and the rows of a slice, with the footer   *)
(* that seals it (src/output/progress_io.c, progress_archive.c).           *)
(*                                                                         *)
(* A file or a message is a sequence of cells.  The path of a row takes    *)
(* one cell for each of its characters; a length and the metadata have a   *)
(* fixed width, so that a file can also be cut in the middle of them.      *)
(***************************************************************************)
EXTENDS FileTypes, Integers, SequencesExt

CONSTANTS
  LengthWidth,   \* sizeof(size_t); of a BATCH, sizeof(uint32_t)
  MetaWidth,     \* dev, ino, mtime and d_type; of a BATCH, sizeof(struct stat)
  FooterWidth,   \* sizeof(PbinFooter)
  MaxPathLength  \* MAX_PATH_LENGTH

ASSUME WidthAssumption ==
  /\ LengthWidth \in Nat \ {0} /\ MetaWidth \in Nat \ {0}
  /\ FooterWidth \in Nat /\ FooterWidth >= LengthWidth
  /\ MaxPathLength \in Nat /\ FooterWidth <= MaxPathLength

\* The cells of a field of fixed width.
Fixed(field, value, width) == [k \in 1 .. width |-> [field |-> field, value |-> value, at |-> k]]

PathCells(path) == [k \in DOMAIN path |-> [field |-> "path", value |-> path[k], at |-> 1]]

\* One row: the length of its path, the path, the metadata.
RowCells(path, meta) ==
  Fixed("length", Len(path), LengthWidth) \o PathCells(path)
    \o Fixed("meta", meta, MetaWidth)

\* The number that the cells after pos hold as a length: a footer's magic is
\* a very large one.
LengthAt(cells, pos) ==
  IF cells[pos + 1].field = "length" THEN cells[pos + 1].value ELSE MaxPathLength + 1

Fits(cells, end) == end <= Len(cells)

\* The row whose length field is after pos.
RowAt(cells, pos) ==
  LET start == pos + LengthWidth
      end == start + LengthAt(cells, pos) IN
  [path |-> [k \in 1 .. LengthAt(cells, pos) |-> cells[start + k].value],
   meta |-> cells[end + 1].value]

After(cells, pos) == pos + LengthWidth + LengthAt(cells, pos) + MetaWidth

-----------------------------------------------------------------------------
\* The type a recorded row stands for; it knows nothing of the permissions.
TypeOf(dt) == CHOOSE type \in DOMAIN DtOf : DtOf[type] = dt

\* write_pbin_record
PbinRow(e) ==
  RowCells(e.path, [dev |-> e.dev, ino |-> e.ino, mtime |-> e.mtime,
                    dt |-> DtOf[e.mode.type]])

\* write_pbin_footer
Footer(rows) == Fixed("footer", rows, FooterWidth)

\* MUTANT: only the path has to be there, not the metadata after it.
WholeRowUnchecked(cells, pos) ==
  /\ Fits(cells, pos + LengthWidth)
  /\ Fits(cells, After(cells, pos) - MetaWidth + 1)

\* parse_pbin_buffer goes on to another row.
WholeRow(cells, pos) ==
  /\ Fits(cells, pos + LengthWidth)
  /\ Fits(cells, After(cells, pos))

\* parse_pbin_buffer, of a slice that was read into memory.
ParseBuffer(cells) ==
  LET rows[pos \in Nat] ==
        IF WholeRow(cells, pos) THEN <<RowAt(cells, pos)>> \o rows[After(cells, pos)]
        ELSE <<>>
  IN rows[0]

\* read_next_pbin_record: the fields are read one after the other.
NextRow(cells, pos) ==
  /\ Fits(cells, pos + LengthWidth)
  /\ LengthAt(cells, pos) <= MaxPathLength
  /\ Fits(cells, pos + LengthWidth + LengthAt(cells, pos))
  /\ Fits(cells, After(cells, pos))

\* The rows the pump gets from an open slice.
ReadRows(cells) ==
  LET rows[pos \in Nat] ==
        IF NextRow(cells, pos)
        THEN LET r == RowAt(cells, pos) IN
             <<[path |-> r.path, dir |-> TypeOf(r.meta.dt) = "DIR"]>>
               \o rows[After(cells, pos)]
        ELSE <<>>
  IN rows[0]

-----------------------------------------------------------------------------
\* send_batch: the number of entries, then a row for each.
BatchPayload(entries) ==
  Fixed("count", Len(entries), LengthWidth)
    \o FlattenSeq([k \in DOMAIN entries |-> RowCells(entries[k].path, entries[k])])

\* parse_batch: the entries, or a refusal when one of them does not fit.
ParseBatch(payload) ==
  LET count == payload[1].value
      entries[k \in 0 .. count] ==
        IF k = 0 THEN [ok |-> TRUE, pos |-> LengthWidth, seq |-> <<>>]
        ELSE LET last == entries[k - 1] IN
          IF last.ok /\ WholeRow(payload, last.pos)
          THEN LET r == RowAt(payload, last.pos) IN
               [ok |-> TRUE, pos |-> After(payload, last.pos),
                seq |-> Append(last.seq, [r.meta EXCEPT !.path = r.path])]
          ELSE [last EXCEPT !.ok = FALSE]
  IN IF Fits(payload, LengthWidth) THEN entries[count]
     ELSE [ok |-> FALSE, pos |-> 0, seq |-> <<>>]
=============================================================================
