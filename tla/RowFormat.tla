---------------------------- MODULE RowFormat ----------------------------
(***************************************************************************)
(* How a row of the output is made: the format string is compiled into     *)
(* segments once (src/output/output_format.c), and every row is printed    *)
(* from the segments (src/output/output.c).  A text is the sequence of its *)
(* characters, of which only %, the quote, the separators, the letters     *)
(* after a % and the end of a line are told apart; a number or a name is   *)
(* one character.                                                          *)
(***************************************************************************)
EXTENDS Integers, SequencesExt

Quote == "\""
EndOfLine == "\n"

\* FormatType, FMT_TEXT apart: the letter after the %.
Letters == {"p", "s", "u", "g", "U", "G", "m", "a", "c", "t", "i", "o", "O", "X"}

\* %a, %b, ... with a separator between them.
Listed(letters, separator) ==
  FlattenSeq([k \in DOMAIN letters |->
    (IF k = 1 THEN <<>> ELSE <<separator>>) \o <<"%", letters[k]>>])

CsvLetters == <<"i", "p", "s", "u", "g", "U", "G", "o", "O", "t", "m", "c">>
Switches == <<"s", "u", "g", "m", "a", "c", "o", "i", "X">>

\* The format when there is no -F: row.switches are the metadata switches.
DefaultFormat(row) ==
  IF row.csv THEN Listed(CsvLetters, ",")
  ELSE IF row.switches = {} THEN Listed(<<"p", "s", "m">>, "|")
  ELSE Listed(<<"p">> \o FlattenSeq([k \in DOMAIN Switches |->
                IF Switches[k] \in row.switches THEN <<Switches[k]>> ELSE <<>>]), "|")

Segment(field, text) == [field |-> field, text |-> text]
Text(chars) == Segment("text", chars)

\* One character of the format.  last says what came before it: a % that
\* waits for its letter, plain text that goes on, or neither.
CompileChar(state, char) ==
  IF state.last = "percent" THEN
    [last |-> "none",
     segments |-> Append(state.segments,
       IF char \in Letters THEN Segment(char, <<>>) ELSE Text(<<"%", char>>))]
  ELSE IF char = "%" THEN [state EXCEPT !.last = "percent"]
  ELSE IF state.last = "text" THEN
    [state EXCEPT !.segments[Len(state.segments)].text = Append(@, char)]
  ELSE [last |-> "text", segments |-> Append(state.segments, Text(<<char>>))]

\* precompile_format: a % at the end of the format is dropped.
Precompile(format) ==
  FoldLeft(CompileChar, [last |-> "none", segments |-> <<>>], format).segments

\* MUTANT: a quote inside is not doubled.
CsvFieldRaw(value) == <<Quote>> \o value \o <<Quote>>

\* print_csv_field
CsvField(value) ==
  <<Quote>>
  \o FlattenSeq([k \in DOMAIN value |->
       IF value[k] = Quote THEN <<Quote, Quote>> ELSE <<value[k]>>])
  \o <<Quote>>

Field(row, value) ==
  IF row.csv THEN CsvField(value)
  ELSE IF row.quote THEN <<Quote>> \o value \o <<Quote>>
  ELSE value

\* print_to_stream: values gives the text of every letter.
PrintToStream(row, segments, values) ==
  FlattenSeq([k \in DOMAIN segments |->
    IF segments[k].field = "text" THEN segments[k].text
    ELSE Field(row, values[segments[k].field])])
  \o <<EndOfLine>>
=============================================================================
