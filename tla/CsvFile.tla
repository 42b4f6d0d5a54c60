------------------------------- MODULE CsvFile -------------------------------
(***************************************************************************)
(* storage/storage.c: how a row becomes a line of a CSV file and how a     *)
(* line is read back.  A file is a text; an offset is the position of a    *)
(* piece in it, counted from 1.  Lines are shorter than the readers'       *)
(* buffer (Engine has the longer ones), and a carriage return stands only  *)
(* at the end of a line, where strip_line_endings takes it.                *)
(***************************************************************************)
EXTENDS SqlText

\* Mutant of Escape: commas need no quotes.
EscapeQuotesOnly(value) ==
  IF value = <<>> THEN <<DoubleQuote, DoubleQuote>>
  ELSE IF DoubleQuote \notin ToSet(value) THEN value
  ELSE <<DoubleQuote>>
       \o FlattenSeq([i \in DOMAIN value |->
                        IF value[i] = DoubleQuote
                        THEN <<DoubleQuote, DoubleQuote>> ELSE <<value[i]>>])
       \o <<DoubleQuote>>

\* csv_escape_field.
Escape(value) ==
  IF value = <<>> THEN <<DoubleQuote, DoubleQuote>>
  ELSE IF ToSet(value) \cap {DoubleQuote, Comma, "newline"} = {} THEN value
  ELSE <<DoubleQuote>>
       \o FlattenSeq([i \in DOMAIN value |->
                        IF value[i] = DoubleQuote
                        THEN <<DoubleQuote, DoubleQuote>> ELSE <<value[i]>>])
       \o <<DoubleQuote>>

\* The line that append_row_csv writes for a row.
RowLine(values) ==
  FlattenSeq([i \in DOMAIN values |->
                (IF i = 1 THEN <<>> ELSE <<Comma>>) \o Escape(values[i])])

(* csv_parse_line.  Its mode says where the current field is: not begun    *)
(* ("start"), "plain", inside quotes ("quoted"), just past a quote inside  *)
(* them ("quote"), past the closing one ("closed"), or "error".            *)
FieldStart == [mode |-> "start", buffer |-> <<>>, fields |-> <<>>]

EndField(reader, field) ==
  [mode |-> "start", buffer |-> <<>>, fields |-> Append(reader.fields, field)]

Take(reader, mode, piece) ==
  [reader EXCEPT !.mode = mode, !.buffer = Append(@, piece)]

\* Only blanks and a comma may follow a quoted field; the blanks belong to it.
PastClose(reader, piece) ==
  CASE piece = Comma -> EndField(reader, reader.buffer)
    [] piece = Blank -> Take(reader, "closed", piece)
    [] OTHER -> [reader EXCEPT !.mode = "error"]

ReadPiece(reader, piece) ==
  CASE reader.mode = "quoted" ->
         IF piece = DoubleQuote THEN [reader EXCEPT !.mode = "quote"]
         ELSE Take(reader, "quoted", piece)
    [] reader.mode = "quote" ->
         IF piece = DoubleQuote THEN Take(reader, "quoted", piece)
         ELSE PastClose(reader, piece)
    [] reader.mode = "closed" -> PastClose(reader, piece)
    [] reader.mode \in {"start", "plain"} ->
         IF piece = Comma THEN EndField(reader, Trim(reader.buffer))
         ELSE IF reader.mode = "start" /\ piece = DoubleQuote
         THEN [reader EXCEPT !.mode = "quoted"]
         ELSE Take(reader, "plain", piece)
    [] reader.mode = "error" -> reader

\* csv_parse_line at the end of the line.
ParseLine(line) ==
  LET reader == Run(ReadPiece, FieldStart, line)
  IN  CASE reader.mode \in {"error", "quoted"} -> [ok |-> FALSE, fields |-> <<>>]
        [] reader.mode \in {"quote", "closed"} ->
             [ok |-> TRUE, fields |-> Append(reader.fields, reader.buffer)]
        [] reader.mode \in {"start", "plain"} ->
             [ok |-> TRUE, fields |-> Append(reader.fields, Trim(reader.buffer))]

\* Where fgets finds the lines of a file to start.
LineStarts(file) ==
  {i \in DOMAIN file : i = 1 \/ file[i - 1] = "newline"}

\* The line at an offset, as fgets and strip_line_endings return it.
LineAt(file, offset) ==
  LET end == SelectInSubSeq(file, offset, Len(file), LAMBDA p : p = "newline")
  IN  SubSeq(file, offset, IF end = 0 THEN Len(file) ELSE end - 1)

\* The offsets of the rows: the header and empty lines are skipped by
\* scan_rows_csv and by the loop of execute_select.
RowStarts(file) ==
  InOrder(Len(file), {i \in LineStarts(file) \ {1} : LineAt(file, i) # <<>>})

HeaderOf(file) == LineAt(file, 1)

RowsOf(file) == LET starts == RowStarts(file)
                IN  [n \in DOMAIN starts |-> ParseLine(LineAt(file, starts[n]))]

\* Mutant of AppendStart: a missing end of line is not supplied.
AppendStartUnended(file) == Len(file) + 1

\* append_row_csv supplies the end of the last line if it is missing ...
AppendStart(file) ==
  IF file # <<>> /\ Last(file) # "newline" THEN Len(file) + 2 ELSE Len(file) + 1

\* Mutant of AppendRow: the row stays in the buffer.
AppendRowUnflushed(file, values) == file

\* ... and writes the row, without an end of line.
AppendRow(file, values) ==
  file \o (IF AppendStart(file) = Len(file) + 2 THEN <<"newline">> ELSE <<>>)
       \o RowLine(values)
=============================================================================
