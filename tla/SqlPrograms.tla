----------------------------- MODULE SqlPrograms -----------------------------
(***************************************************************************)
(* The two programs that run SQL one statement at a time.                  *)
(*                                                                         *)
(* app/main.c, the command line program: one statement from its arguments, *)
(* a file or standard input, or a dialogue in which every line is a        *)
(* statement or the path of a file with one.  And the server, reduced to   *)
(* the requests of one client after another: sql_engine_adapter_execute.   *)
(*                                                                         *)
(* A program is a record: its front ("server" or "cli"); the meta files    *)
(* and CSV files it finds; requests[n], which texts the nth request of the *)
(* server may have; and for the command line program its arguments, its    *)
(* standard input, whether that is a terminal and whether reading it       *)
(* fails, and paths, the files an argument or a line may name, each with   *)
(* its kind: "file", "denied", "directory" or "special" (a pipe).          *)
(***************************************************************************)
EXTENDS SqlSession

CONSTANTS
  Programs,       \* the programs of an instance
  RequestTexts,   \* RequestTexts[r]: the texts of requests of kind r
  SqlLengthLimit, \* config->sql_length_limit
  LineMax,        \* what fgets takes of a line, sizeof(line) - 1
  NameMax,        \* the longest file name that stat takes
  MaxRestarts     \* how often the server is ended and started again

ASSUME BoundsAssumption ==
  /\ SqlLengthLimit \in Nat /\ MaxRestarts \in Nat
  /\ LineMax \in Nat \ {0} /\ NameMax \in Nat \ {0}

\* What a program finds: files and arguments are texts, and readdir returns the
\* name of every meta file once.
IsProgram(p) ==
  LET metas == p.catalog.metas
  IN  /\ p.csv \in [DOMAIN p.csv -> Seq(Pieces)]
      /\ \A s \in DOMAIN p.csv : IsText(p.csv[s])
      /\ p.requests \in Seq(STRING)
      /\ \A i \in DOMAIN p.requests : \A sql \in RequestTexts[p.requests[i]] :
           IsText(sql)
      /\ p.args \in Seq(Seq(Pieces))
      /\ \A i \in DOMAIN p.args : IsText(p.args[i])
      /\ IsText(p.stdin)
      /\ \A f \in DOMAIN p.paths : IsText(p.paths[f].text)
      /\ IsFiniteSet(DOMAIN metas)
      /\ p.catalog.order \in SetToSeqs(DOMAIN metas)
      /\ \A m \in DOMAIN metas :
           metas[m].lines \in Seq([key : STRING, value : Seq(Pieces)])

ASSUME ProgramAssumption == \A p \in Programs : IsProgram(p)

VARIABLES
  program,  \* the program and its surroundings
  phase,    \* where main is: start, once, repl, run, ended; or serving
  input,    \* what is left of standard input
  hadError, \* had_error of run_repl
  exit,     \* the exit status, "none" before the end
  outcomes, \* history: did each statement, or what should be one, succeed
  sent,     \* how many requests the server has had
  restarts  \* how often it has been started again

frontVars == <<program, phase, input, hadError, exit, outcomes, sent, restarts>>
vars == <<sessionVars, frontVars>>

Init ==
  /\ program \in Programs
  /\ SessionInit(program.catalog, program.csv)
  /\ phase = IF program.front = "server" THEN "serving" ELSE "start"
  /\ input = program.stdin
  /\ hadError = FALSE /\ exit = "none" /\ outcomes = <<>>
  /\ sent = 0 /\ restarts = 0

Step == RunRequest /\ UNCHANGED frontVars

-----------------------------------------------------------------------------
(* The server. *)

\* The white space of is_blank_sql.
BlankSql == {Blank, "newline"}

Request ==
  /\ phase = "serving" /\ sent < Len(program.requests)
  /\ \E sql \in RequestTexts[program.requests[sent + 1]] :
       Accept(sql, BlankSql, SqlLengthLimit)
  /\ sent' = sent + 1
  /\ UNCHANGED <<program, phase, input, hadError, exit, outcomes, restarts>>

ServerRestarts ==
  /\ phase = "serving" /\ restarts < MaxRestarts
  /\ Restart
  /\ restarts' = restarts + 1
  /\ UNCHANGED <<program, phase, input, hadError, exit, outcomes, sent>>

-----------------------------------------------------------------------------
(* Where the command line program finds its SQL. *)

Sql(sql) == [kind |-> "sql", text |-> sql]
NoSql == [kind |-> "error", text |-> <<>>]
Help == [kind |-> "help", text |-> <<>>]

KindOf(path) ==
  IF path \in DOMAIN program.paths THEN program.paths[path].kind ELSE "missing"

\* read_entire_file; reading a directory fails, as does seeking in a pipe.
ReadEntireFile(path) ==
  IF KindOf(path) = "file" THEN Sql(program.paths[path].text) ELSE NoSql

\* read_stream.
ReadStream == IF program.broken THEN NoSql ELSE Sql(program.stdin)

\* load_sql_from_argument with resolve_bare_argument_file: a text that names no
\* file is SQL, unless stat fails because it is too long for a name.
LoadSqlFromArgument(value) ==
  CASE KindOf(value) \in {"file", "denied"} -> ReadEntireFile(value)
    [] KindOf(value) \in {"directory", "special"} -> NoSql
    [] OTHER -> IF Len(value) > NameMax THEN NoSql ELSE Sql(value)

\* join_arguments_as_sql.
JoinArguments(args) ==
  IF args = <<>> THEN NoSql
  ELSE Sql(FlattenSeq([i \in DOMAIN args |->
                         (IF i = 1 THEN <<>> ELSE <<Blank>>) \o args[i]]))

Dash == <<"-">>

\* load_noninteractive_sql.
LoadNoninteractiveSql(args) ==
  LET first == args[1]
  IN  CASE args = <<>> -> ReadStream
        [] args # <<>> /\ first \in {<<"-", "h">>, <<"-", "-", "help">>} -> Help
        [] args # <<>> /\ first \in {<<"-", "e">>, <<"-", "-", "execute">>} ->
             JoinArguments(Tail(args))
        [] args # <<>> /\ first \in {<<"-", "f">>, <<"-", "-", "file">>} ->
             (CASE Len(args) = 1 -> NoSql
                [] Len(args) > 1 /\ args[2] = Dash -> ReadStream
                [] Len(args) > 2 /\ args[2] # Dash -> NoSql
                [] OTHER -> ReadEntireFile(args[2]))
        [] OTHER ->
             (CASE first # <<>> /\ first[1] = "-" /\ first # Dash -> NoSql
                [] args = <<Dash>> -> ReadStream
                [] Len(args) = 1 /\ (first = <<>> \/ first[1] # "-") ->
                     LoadSqlFromArgument(first)
                [] OTHER -> JoinArguments(args))

-----------------------------------------------------------------------------
(* main and run_repl. *)

\* execution_runtime_reset on every way out of main.
Exit(status) ==
  /\ phase' = "ended"
  /\ exit' = status
  /\ index' = [s \in DOMAIN csv |-> NotLoaded]
  /\ UNCHANGED <<files, stage, request, reply, overrun>>

Interactive == program.args = <<>> /\ program.interactive

StartRepl ==
  /\ phase = "start" /\ Interactive
  /\ phase' = "repl"
  /\ UNCHANGED <<sessionVars, program, input, hadError, exit, outcomes, sent, restarts>>

\* main without a terminal, up to execute_sql_text.
StartOnce ==
  LET sql == LoadNoninteractiveSql(program.args)
  IN  /\ phase = "start" /\ ~Interactive
      /\ \/ sql.kind = "sql" /\ Accept(sql.text, Spaces, 0) /\ phase' = "once"
            /\ UNCHANGED <<exit, outcomes>>
         \/ sql.kind = "help" /\ Exit("success") /\ UNCHANGED outcomes
         \/ sql.kind = "error" /\ Exit("failure") /\ outcomes' = <<FALSE>>
      /\ UNCHANGED <<program, input, hadError, sent, restarts>>

EndOnce ==
  /\ phase = "once" /\ stage = "idle"
  /\ outcomes' = <<reply.code = "OK">>
  /\ Exit(IF reply.code = "OK" THEN "success" ELSE "failure")
  /\ UNCHANGED <<program, input, hadError, sent, restarts>>

\* What fgets takes of the input: a line, or as much of it as the buffer holds.
LineLength ==
  LET end == SelectInSeq(input, LAMBDA p : p = "newline")
      length == IF end = 0 THEN Len(input) ELSE end
  IN  IF length > LineMax THEN LineMax ELSE length

RestOfInput == SubSeq(input, LineLength + 1, Len(input))

\* run_repl at the end of the input, or when reading fails.
ReplEnds ==
  /\ phase = "repl" /\ input = <<>>
  /\ Exit(IF program.broken \/ hadError THEN "failure" ELSE "success")
  /\ outcomes' = IF program.broken THEN Append(outcomes, FALSE) ELSE outcomes
  /\ UNCHANGED <<program, input, hadError, sent, restarts>>

ExitCommands == {<<".", "exit">>, <<".", "quit">>, <<"exit">>, <<"quit">>}
HelpCommands == {<<".", "help">>, <<"help">>}

\* run_repl with one more line.
ReplLine ==
  LET line == Trim(SubSeq(input, 1, LineLength))
      sql == LoadSqlFromArgument(line)
  IN  /\ phase = "repl" /\ input # <<>>
      /\ input' = RestOfInput
      /\ CASE line = <<>> \/ line \in HelpCommands ->
                UNCHANGED <<sessionVars, phase, hadError, exit, outcomes>>
           [] line \in ExitCommands ->
                Exit(IF hadError THEN "failure" ELSE "success") /\ UNCHANGED <<hadError, outcomes>>
           [] OTHER ->
                \/ /\ sql.kind = "error"
                   /\ hadError' = TRUE
                   /\ outcomes' = Append(outcomes, FALSE)
                   /\ UNCHANGED <<sessionVars, phase, exit>>
                \/ /\ sql.kind = "sql"
                   /\ Accept(sql.text, Spaces, 0) /\ phase' = "run"
                   /\ UNCHANGED <<hadError, exit, outcomes>>
      /\ UNCHANGED <<program, sent, restarts>>

\* Mutant of HadError: only the last statement counts.
HadErrorLast(ok) == ~ok

HadError(ok) == hadError \/ ~ok

\* execute_argument_or_sql returns to run_repl.
ReplResult ==
  /\ phase = "run" /\ stage = "idle"
  /\ hadError' = HadError(reply.code = "OK")
  /\ outcomes' = Append(outcomes, reply.code = "OK")
  /\ phase' = "repl"
  /\ UNCHANGED <<sessionVars, program, input, exit, sent, restarts>>

ProcessAborts ==
  /\ phase # "ended"
  /\ Abort
  /\ \/ phase = "serving" /\ UNCHANGED <<phase, exit>>
     \/ phase # "serving" /\ phase' = "ended" /\ exit' = "signal"
  /\ UNCHANGED <<program, input, hadError, outcomes, sent, restarts>>

-----------------------------------------------------------------------------
Next ==
  \/ Request \/ Step \/ ServerRestarts \/ ProcessAborts
  \/ StartRepl \/ StartOnce \/ EndOnce
  \/ ReplEnds \/ ReplLine \/ ReplResult

Spec == Init /\ [][Next]_vars

-----------------------------------------------------------------------------
(* Properties. *)

\* Every variable has its type: tokens and files are texts, the index of a table
\* has only offsets inside its file, as read_row_at_offset needs for fseek.
TypeOK ==
  /\ phase \in {"serving", "start", "once", "repl", "run", "ended"}
  /\ stage \in {"idle", "lex", "parse", "schema", "execute", "aborted"}
  /\ exit \in {"none", "success", "failure", "signal"}
  /\ hadError \in BOOLEAN /\ overrun \in BOOLEAN
  /\ \A i \in DOMAIN outcomes : outcomes[i] \in BOOLEAN
  /\ sent \in 0 .. Len(program.requests)
  /\ restarts \in 0 .. MaxRestarts
  /\ reply.code \in ClientErrors \cup ServerErrors \cup {"OK", "none"}
  /\ IsText(text)
  /\ \A i \in DOMAIN tokens :
       tokens[i].type \in TokenTypes /\ IsText(tokens[i].text)
  /\ rows = Contents(csv)
  /\ DOMAIN index = DOMAIN csv
  /\ \A s \in DOMAIN csv :
       /\ IsText(csv[s])
       /\ index[s].loaded \in BOOLEAN
       /\ ToSet(index[s].offsets) \subseteq DOMAIN csv[s]

\* Every literal of a statement that is about to run was closed in its text, and
\* its tokens spell the text exactly: lex_string neither ends a literal early,
\* nor runs on into what follows it, nor drops a doubled quote.
LiteralsIntact ==
  stage \in {"schema", "execute"} =>
    LiteralsClosed(text) /\ SpelledAll(Front(tokens)) = Squeezed(text)

\* parse_statement accepts the sentences of the grammar and nothing else, and a
\* statement that runs is the only one its tokens can be read as.
GrammarExact ==
  /\ stage \in {"schema", "execute"} => Readings(tokens) = {statement}
  /\ stage = "idle" /\ reply.code \in {"SQL_PARSE_ERROR", "UNSUPPORTED_SQL"} =>
       Readings(tokens) = {}

\* The loaded index of a table has the offset of every row of its file, in the
\* order of the rows, and no other: after an append behind a line without an end,
\* across empty lines, after a restart, and when an INSERT failed halfway.
OffsetsAreRowStarts ==
  \A s \in DOMAIN index :
    index[s].loaded => index[s].offsets = RowStarts(csv[s])

\* A meta file that describes a table, with a CSV file that has its columns.
Sound(m) ==
  LET meta == catalog.metas[m]
  IN  /\ meta.kind = "file" /\ MetaValid(meta)
      /\ \E i \in DOMAIN meta.lines : \A j \in DOMAIN meta.lines :
           meta.lines[j].key = "table" <=> j = i
      /\ HeaderStatus(csv, m, ParseLine(LastValue(meta, "columns").value).fields)
           = "ok"

Declared(name) ==
  \/ name \in DOMAIN catalog.metas
  \/ \E m \in DOMAIN catalog.metas : Declares(catalog.metas[m], name)

\* The meta files an error about the schema may be due to: the one named after the
\* table, or else the first that declares it, and those before it, in the order of
\* the directory, that cannot be read.
Suspects(name) ==
  LET metas == catalog.metas
      order == catalog.order
      Says(i) == Declares(metas[order[i]], name)
  IN  IF name \in DOMAIN metas THEN {name}
      ELSE {order[i] : i \in {j \in DOMAIN order :
                               /\ Says(j) \/ metas[order[j]].kind # "file"
                               /\ \A k \in 1 .. j - 1 : ~Says(k)}}

\* When all meta files are readable and no two of them declare the same table,
\* the order in which readdir returns them decides nothing.
ResolutionOrderFree ==
  LET metas == catalog.metas
      name == statement.table[1]
  IN  /\ stage = "schema"
      /\ \A m \in DOMAIN metas : metas[m].kind = "file"
      /\ \A m, n \in DOMAIN metas :
           Declares(metas[m], name) /\ Declares(metas[n], name) => m = n
      => \A order \in SetToSeqs(DOMAIN metas) :
           LoadSchema(metas, order, csv, name)
             = LoadSchema(metas, catalog.order, csv, name)

Rows ==
  INSTANCE TableRows WITH
    pending <- IF stage # "execute" THEN <<>>
               ELSE <<[statement |-> statement, storage |-> Storage,
                       columns |-> schema.columns,
                       readOnly |-> Storage \in catalog.readOnly]>>,
    answer <- reply

\* Running a statement does to the tables, and answers, what TableRows says: an
\* INSERT adds the one row it spells, whatever its values contain, a SELECT
\* returns the rows that match, by scan or by index, and a refusal has a reason
\* and changes nothing.
ImplementsTableRows == Rows!Spec

\* The code of an error puts the blame where it belongs: on the request only if
\* the statement does not fit its table, on the server only if a file of the table
\* is damaged, missing or not writable, or the search for it met an unreadable one:
\* a broken meta file of another table is no excuse.
BlameIsTruthful ==
  LET columns == schema.columns
      damaged == \E n \in DOMAIN rows[Storage] :
                   ~Rows!Whole(rows[Storage][n], columns)
  IN  stage = "idle" =>
        /\ reply.code = "INVALID_SQL_ARGUMENT" =>
             AllIn(text, Spaces) \/ ~Rows!Valid(statement, columns)
        /\ reply.code \in {"INDEX_REBUILD_ERROR", "ENGINE_EXECUTION_ERROR"} =>
             damaged
        /\ reply.code \in {"STORAGE_IO_ERROR", "SCHEMA_LOAD_ERROR"} =>
             \/ ~Declared(statement.table[1])
             \/ \E m \in Suspects(statement.table[1]) : ~Sound(m)
             \/ statement.kind = "insert" /\ Storage \in catalog.readOnly

\* The command line program reports success exactly if every statement it was
\* given succeeded, in a dialogue also the early ones, and it never reports
\* success without having run the one it was started for.
ExitStatusTruthful ==
  phase = "ended" /\ exit # "signal" =>
    /\ exit = "success" <=> FALSE \notin ToSet(outcomes)
    /\ \/ Len(outcomes) = 1
       \/ Interactive
       \/ LoadNoninteractiveSql(program.args).kind = "help"

\* selected_indexes holds the column list of the statement.
SelectListFits == ~overrun
=============================================================================
