------------------------------- MODULE Schema -------------------------------
(***************************************************************************)
(* storage/schema.c: from the table name of a statement to its meta file,  *)
(* its columns and its storage name.                                       *)
(*                                                                         *)
(* A meta file has a kind: "file", "directory", or "denied" when it cannot *)
(* be opened.  Its lines that are not blank are a key and a value; a line  *)
(* without '=' has key "none".  order is the order in which readdir        *)
(* returns the names of the meta files.                                    *)
(***************************************************************************)
EXTENDS CsvFile

NoSchema(status) == [status |-> status, storage |-> "none", columns |-> <<>>]

\* file_declares_table.
Declares(meta, name) ==
  \E i \in DOMAIN meta.lines :
    meta.lines[i].key = "table" /\ meta.lines[i].value = <<name>>

\* Mutant of Stops: the search ends at a meta file that declares another table.
StopsAnywhere(meta, name) == TRUE

\* The search of the directory ends at a meta file that declares the table, and
\* also at one that is no regular file or cannot be opened.
Stops(meta, name) == meta.kind # "file" \/ Declares(meta, name)

\* find_schema_path: <<status, meta file>>.  fopen also opens a directory.
FindSchemaPath(metas, order, name) ==
  LET stop == SelectInSeq(order, LAMBDA m : Stops(metas[m], name))
  IN  CASE name \in DOMAIN metas ->
             IF metas[name].kind = "denied" THEN <<"io", "none">>
             ELSE <<"ok", name>>
        [] name \notin DOMAIN metas /\ stop = 0 -> <<"schema", "none">>
        [] name \notin DOMAIN metas /\ stop # 0 ->
             IF metas[order[stop]].kind = "file" THEN <<"ok", order[stop]>>
             ELSE <<"io", "none">>

\* The value of the last line with a key, as load_schema keeps it; a directory
\* has no lines.
LastValue(meta, key) ==
  LET lines == IF meta.kind = "file" THEN meta.lines ELSE <<>>
      i == SelectLastInSeq(lines, LAMBDA l : l.key = key)
  IN  IF i = 0 THEN [ok |-> FALSE, value |-> <<>>]
      ELSE [ok |-> TRUE, value |-> lines[i].value]

\* Every line has a key, table and columns are there, the column list parses
\* (also one that a later one replaces), and no column is called id.
MetaValid(meta) ==
  /\ \A i \in DOMAIN meta.lines :
       /\ meta.lines[i].key # "none"
       /\ meta.lines[i].key = "columns" => ParseLine(meta.lines[i].value).ok
  /\ LastValue(meta, "table").ok
  /\ LastValue(meta, "columns").ok
  /\ <<"id">> \notin ToSet(ParseLine(LastValue(meta, "columns").value).fields)

\* validate_csv_header: <<status of opening and reading, status of comparing>>.
HeaderStatus(csv, storage, columns) ==
  IF storage \notin DOMAIN csv \/ csv[storage] = <<>> THEN "io"
  ELSE LET header == ParseLine(HeaderOf(csv[storage]))
       IN  IF header.ok /\ header.fields = columns THEN "ok" ELSE "schema"

\* load_schema; its messages are told apart as classify_schema_load_error does:
\* "io" for a file that cannot be opened or is empty, "schema" for the rest.
LoadSchema(metas, order, csv, name) ==
  LET found == FindSchemaPath(metas, order, name)
      storage == found[2]
      meta == metas[storage]
      columns == ParseLine(LastValue(meta, "columns").value).fields
      header == HeaderStatus(csv, storage, columns)
  IN  IF found[1] # "ok" THEN NoSchema(found[1])
      ELSE IF \/ ~MetaValid(meta)
              \/ LastValue(meta, "table").value # <<name>> /\ storage # name
      THEN NoSchema("schema")
      ELSE IF header # "ok" THEN NoSchema(header)
      ELSE [status |-> "ok", storage |-> storage, columns |-> columns]

\* schema_find_column: 0 if there is none.
FindColumn(schema, column) ==
  SelectInSeq(schema.columns, LAMBDA c : c = column)
=============================================================================
