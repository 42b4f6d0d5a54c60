----------------------------- MODULE SqlSession -----------------------------
(***************************************************************************)
(* One statement after another through the lexer, the parser, the schema   *)
(* loader and the executor, as execute_sql_text of the command line        *)
(* program and sql_engine_adapter_execute of the server run them.          *)
(*                                                                         *)
(* Engine has the same requests running concurrently, with the locks and   *)
(* the failures of writing and of allocating; here one request runs at a   *)
(* time and what it says, and what the files say, is taken apart.          *)
(***************************************************************************)
EXTENDS SqlParser, Schema

VARIABLES
  catalog,   \* the meta files, the order of readdir, the unwritable CSV files
  csv,       \* csv[s]: the text of the CSV file with storage name s
  rows,      \* history: what the CSV files say, row by row
  index,     \* index[s]: the table index of s
  stage,     \* what the request being run does next
  text,      \* its text,
  tokens,    \* its tokens,
  statement, \* the statement they are,
  schema,    \* and the schema of its table
  reply,     \* the last SqlEngineAdapterResult or ExecResult
  overrun    \* selected_indexes has been written past its end

request == <<text, tokens, statement, schema>>
files == <<catalog, csv, rows>>
sessionVars == <<files, index, stage, request, reply, overrun>>

ClientErrors ==
  {"INVALID_SQL_ARGUMENT", "PAYLOAD_TOO_LARGE", "SQL_LEX_ERROR",
   "SQL_PARSE_ERROR", "UNSUPPORTED_SQL"}

ServerErrors ==
  {"STORAGE_IO_ERROR", "SCHEMA_LOAD_ERROR", "INDEX_REBUILD_ERROR",
   "ENGINE_EXECUTION_ERROR"}

NotLoaded == [loaded |-> FALSE, offsets |-> <<>>]
Failed(code) == [code |-> code, rows |-> <<>>, affected |-> 0]
Succeeded(returned, affected) ==
  [code |-> "OK", rows |-> returned, affected |-> affected]

Contents(texts) ==
  [s \in DOMAIN texts |-> IF texts[s] = <<>> THEN <<>> ELSE RowsOf(texts[s])]

SessionInit(initialCatalog, initialCsv) ==
  /\ catalog = initialCatalog
  /\ csv = initialCsv
  /\ rows = Contents(initialCsv)
  /\ index = [s \in DOMAIN initialCsv |-> NotLoaded]
  /\ stage = "idle"
  /\ text = <<>> /\ tokens = <<>>
  /\ statement = NoStatement /\ schema = NoSchema("none")
  /\ reply = Failed("none")
  /\ overrun = FALSE

Finish(result) == stage' = "idle" /\ reply' = result

-----------------------------------------------------------------------------
(* From a text to a statement and its table. *)

\* The checks before lex_sql; limit 0 is no limit.
Accept(sql, blanks, limit) ==
  /\ stage = "idle"
  /\ text' = sql
  /\ CASE AllIn(sql, blanks) -> Finish(Failed("INVALID_SQL_ARGUMENT"))
       [] ~AllIn(sql, blanks) /\ limit > 0 /\ Len(sql) > limit ->
            Finish(Failed("PAYLOAD_TOO_LARGE"))
       [] OTHER -> stage' = "lex" /\ UNCHANGED reply
  /\ UNCHANGED <<files, index, tokens, statement, schema, overrun>>

LexText ==
  /\ stage = "lex"
  /\ tokens' = Lex(text).tokens
  /\ IF Lex(text).ok THEN stage' = "parse" /\ UNCHANGED reply
     ELSE Finish(Failed("SQL_LEX_ERROR"))
  /\ UNCHANGED <<files, index, text, statement, schema, overrun>>

ParseTokens ==
  LET result == Parse(tokens)
  IN  /\ stage = "parse"
      /\ statement' = result.statement
      /\ IF result.at = "done" THEN stage' = "schema" /\ UNCHANGED reply
         ELSE Finish(Failed(IF result.at = "unsupported" THEN "UNSUPPORTED_SQL"
                            ELSE "SQL_PARSE_ERROR"))
      /\ UNCHANGED <<files, index, text, tokens, schema, overrun>>

LoadTable ==
  /\ stage = "schema"
  /\ schema' = LoadSchema(catalog.metas, catalog.order, csv, statement.table[1])
  /\ IF schema'.status = "ok" THEN stage' = "execute" /\ UNCHANGED reply
     ELSE Finish(Failed(IF schema'.status = "io" THEN "STORAGE_IO_ERROR"
                        ELSE "SCHEMA_LOAD_ERROR"))
  /\ UNCHANGED <<files, index, text, tokens, statement, overrun>>

-----------------------------------------------------------------------------
(* Running it. *)

Storage == schema.storage
File == csv[Storage]

\* A request for rows by id.
ById == /\ statement.kind = "select" /\ statement.hasWhere
        /\ statement.whereColumn = <<"id">>

\* Mutant of ExecutionError: how the request looks for its row comes first.
ExecutionErrorByPath(cause) ==
  CASE ById -> "INDEX_REBUILD_ERROR"
    [] ~ById /\ cause = "argument" -> "INVALID_SQL_ARGUMENT"
    [] ~ById /\ cause = "open" -> "STORAGE_IO_ERROR"
    [] OTHER -> "ENGINE_EXECUTION_ERROR"

\* classify_execution_error.
ExecutionError(cause) ==
  CASE cause = "argument" -> "INVALID_SQL_ARGUMENT"
    [] cause = "open" -> "STORAGE_IO_ERROR"
    [] cause = "row" ->
         IF ById THEN "INDEX_REBUILD_ERROR" ELSE "ENGINE_EXECUTION_ERROR"

FinishFailed(cause) == Finish(Failed(ExecutionError(cause)))

\* ensure_loaded: the index that a request works with.  A line that does not
\* parse ends the scan; the number of its fields is not looked at.
Loadable == \A n \in DOMAIN RowsOf(File) : RowsOf(File)[n].ok

Loaded ==
  IF index[Storage].loaded THEN index[Storage]
  ELSE [loaded |-> TRUE, offsets |-> RowStarts(File)]

CanLoad == index[Storage].loaded \/ Loadable

\* validate_insert_columns.
InsertRefused ==
  Len(statement.columns) = Len(statement.values) =>
    \E i \in DOMAIN statement.columns :
      \/ statement.columns[i] = <<"id">>
      \/ FindColumn(schema, statement.columns[i]) = 0
      \/ "newline" \in ToSet(statement.values[i])

\* build_insert_row: a column that is named twice, or the row.
NamedTwice ==
  \E i, j \in DOMAIN statement.columns :
    i # j /\ FindColumn(schema, statement.columns[i])
               = FindColumn(schema, statement.columns[j])

InsertedRow ==
  [c \in DOMAIN schema.columns |->
     LET i == SelectInSeq(statement.columns, LAMBDA n : FindColumn(schema, n) = c)
     IN  IF i = 0 THEN <<>> ELSE statement.values[i]]

\* execute_insert up to the append.
InsertFails ==
  /\ stage = "execute" /\ statement.kind = "insert"
  /\ \/ InsertRefused /\ FinishFailed("argument") /\ UNCHANGED index
     \/ ~InsertRefused /\ ~CanLoad /\ FinishFailed("row") /\ UNCHANGED index
     \/ /\ ~InsertRefused /\ CanLoad
        /\ NamedTwice \/ Storage \in catalog.readOnly
        /\ index' = [index EXCEPT ![Storage] = Loaded]
        /\ FinishFailed(IF NamedTwice THEN "argument" ELSE "open")
  /\ UNCHANGED <<files, request, overrun>>

\* execute_insert: append_row_csv, then table_index_register_row.
InsertRow ==
  LET written == [csv EXCEPT ![Storage] = AppendRow(@, InsertedRow)]
  IN  /\ stage = "execute" /\ statement.kind = "insert"
      /\ ~InsertRefused /\ CanLoad /\ ~NamedTwice
      /\ Storage \notin catalog.readOnly
      /\ csv' = written
      /\ rows' = Contents(written)
      /\ index' = [index EXCEPT ![Storage] =
                     [Loaded EXCEPT !.offsets = Append(@, AppendStart(File))]]
      /\ Finish(Succeeded(<<>>, 1))
      /\ UNCHANGED <<catalog, request, overrun>>

\* build_select_indexes: the columns listed, those written to selected_indexes
\* before the first unknown one, and whether they are more than it holds.
Listed == IF statement.all THEN schema.columns ELSE statement.columns
KnownColumn(c) == c = <<"id">> \/ FindColumn(schema, c) # 0
FirstUnknown == SelectInSeq(Listed, LAMBDA c : ~KnownColumn(c))
Written == IF FirstUnknown = 0 THEN Len(Listed) ELSE FirstUnknown - 1
Overruns == Written > Len(schema.columns)

\* resolve_where_index and the check of an id.
WhereRefused ==
  statement.hasWhere /\ IF ById THEN ParseInt(statement.whereValue) = NotInt
                        ELSE FindColumn(schema, statement.whereColumn) = 0

SelectRefused == FirstUnknown # 0 \/ WhereRefused

\* select_row_buffer_push.
SelectedRow(fields, id) ==
  [c \in DOMAIN Listed |->
     IF Listed[c] = <<"id">> THEN <<ToString(id)>>
     ELSE fields[FindColumn(schema, Listed[c])]]

WholeRow(row) == row.ok /\ Len(row.fields) = Len(schema.columns)

SelectFails ==
  /\ stage = "execute" /\ statement.kind = "select" /\ SelectRefused
  /\ FinishFailed("argument")
  /\ overrun' = (overrun \/ Overruns)
  /\ UNCHANGED <<files, index, request>>

\* execute_index_select.
ExecuteIndexSelect ==
  LET id == ParseInt(statement.whereValue)
      line == LineAt(File, Loaded.offsets[id])
      row == ParseLine(line)
  IN  /\ stage = "execute" /\ ById /\ ~SelectRefused
      /\ \/ ~CanLoad /\ FinishFailed("row") /\ UNCHANGED index
         \/ /\ CanLoad
            /\ index' = [index EXCEPT ![Storage] = Loaded]
            /\ CASE id \notin DOMAIN Loaded.offsets -> Finish(Succeeded(<<>>, 0))
                 [] id \in DOMAIN Loaded.offsets /\ line # <<>> /\ WholeRow(row) ->
                      Finish(Succeeded(<<SelectedRow(row.fields, id)>>, 1))
                 [] OTHER -> FinishFailed("row")
      /\ overrun' = (overrun \/ Overruns)
      /\ UNCHANGED <<files, request>>

\* execute_select without an id: all rows are read before any is returned.
ExecuteScan ==
  LET read == RowsOf(File)
      hits == InOrder(Len(read), {n \in DOMAIN read : statement.hasWhere =>
                read[n].fields[FindColumn(schema, statement.whereColumn)]
                  = statement.whereValue})
  IN  /\ stage = "execute" /\ statement.kind = "select" /\ ~ById /\ ~SelectRefused
      /\ IF \E n \in DOMAIN read : ~WholeRow(read[n]) THEN FinishFailed("row")
         ELSE Finish(Succeeded([i \in DOMAIN hits |->
                                  SelectedRow(read[hits[i]].fields, hits[i])],
                               Len(hits)))
      /\ overrun' = (overrun \/ Overruns)
      /\ UNCHANGED <<files, index, request>>

RunRequest ==
  \/ LexText \/ ParseTokens \/ LoadTable
  \/ InsertFails \/ InsertRow
  \/ SelectFails \/ ExecuteIndexSelect \/ ExecuteScan

\* A write past the end of selected_indexes is undefined: the request goes on
\* as if nothing had happened, or the allocator ends the process.
Abort ==
  /\ overrun /\ stage # "aborted"
  /\ stage' = "aborted"
  /\ UNCHANGED <<files, index, request, reply, overrun>>

\* The process is ended and started again; the files stay.
Restart ==
  /\ stage' = "idle"
  /\ index' = [s \in DOMAIN csv |-> NotLoaded]
  /\ text' = <<>> /\ tokens' = <<>>
  /\ statement' = NoStatement /\ schema' = NoSchema("none")
  /\ reply' = Failed("none")
  /\ overrun' = FALSE
  /\ UNCHANGED files
=============================================================================
