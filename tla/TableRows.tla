------------------------------ MODULE TableRows ------------------------------
(***************************************************************************)
(* What running SQL statements one at a time promises about the tables: no *)
(* files, no offsets, no index.  A table is a sequence of rows; a row is   *)
(* what its text says, and ok is FALSE for one that says nothing.          *)
(***************************************************************************)
EXTENDS SqlText

VARIABLES rows,    \* rows[s]: the rows of table s
          pending, \* the statement being run, with its table: none or one
          answer   \* the last answer

vars == <<rows, pending, answer>>

IdColumn == <<"id">>

\* The column that a name stands for: the first one of that name.
ColumnOf(columns, name) == SelectInSeq(columns, LAMBDA c : c = name)

\* A statement that fits a table with these columns.
ValidInsert(statement, columns) ==
  /\ Len(statement.columns) = Len(statement.values)
  /\ ToSet(statement.columns) \subseteq ToSet(columns)
  /\ Cardinality(ToSet(statement.columns)) = Len(statement.columns)
  /\ \A i \in DOMAIN statement.values :
       "newline" \notin ToSet(statement.values[i])

ValidSelect(statement, columns) ==
  LET named == ToSet(columns) \cup {IdColumn}
  IN  /\ statement.all \/ ToSet(statement.columns) \subseteq named
      /\ statement.hasWhere =>
           /\ statement.whereColumn \in named
           /\ statement.whereColumn = IdColumn =>
                ParseInt(statement.whereValue) # NotInt

Valid(statement, columns) ==
  IF statement.kind = "insert" THEN ValidInsert(statement, columns)
  ELSE ValidSelect(statement, columns)

\* A row that has a field for every column.
Whole(row, columns) == row.ok /\ Len(row.fields) = Len(columns)

\* The field of row n of a table in a column; its id is its position.
Field(table, columns, n, column) ==
  IF column = IdColumn THEN <<ToString(n)>>
  ELSE table[n].fields[ColumnOf(columns, column)]

\* The positions of the rows that a SELECT is about.
Chosen(statement, table, columns) ==
  InOrder(Len(table), {n \in DOMAIN table :
    CASE ~statement.hasWhere -> TRUE
      [] statement.hasWhere /\ statement.whereColumn = IdColumn ->
           n = ParseInt(statement.whereValue)
      [] OTHER -> Field(table, columns, n, statement.whereColumn)
                    = statement.whereValue})

-----------------------------------------------------------------------------
Init == pending = <<>>

Ask == pending = <<>> /\ pending' # <<>> /\ UNCHANGED <<rows, answer>>

\* An answer without a statement: the text was none that can be run, or the
\* process has started again and has answered nothing yet.
Reject ==
  /\ pending = <<>>
  /\ answer'.code # "OK"
  /\ UNCHANGED <<rows, pending>>

\* The row goes to the end of the table; the columns that are not named are
\* empty.  The blanks around a value may be lost.
Insert ==
  LET now == pending[1]
      given == now.statement
      new == Last(rows'[now.storage])
  IN  /\ pending # <<>> /\ given.kind = "insert"
      /\ ValidInsert(given, now.columns)
      /\ rows'[now.storage] # <<>>
      /\ rows' = [rows EXCEPT ![now.storage] = Append(@, new)]
      /\ Whole(new, now.columns)
      /\ \A c \in DOMAIN now.columns :
           LET i == SelectInSeq(given.columns, LAMBDA n : ColumnOf(now.columns, n) = c)
           IN  Trim(new.fields[c]) = IF i = 0 THEN <<>> ELSE Trim(given.values[i])
      /\ answer' = [code |-> "OK", rows |-> <<>>, affected |-> 1]
      /\ pending' = <<>>

\* The columns asked for, in their order, of the rows asked for, in theirs.
Select ==
  LET now == pending[1]
      asked == now.statement
      table == rows[now.storage]
      listed == IF asked.all THEN now.columns ELSE asked.columns
      chosen == Chosen(asked, table, now.columns)
  IN  /\ pending # <<>> /\ asked.kind = "select"
      /\ ValidSelect(asked, now.columns)
      /\ \A n \in DOMAIN table :
           \/ Whole(table[n], now.columns)
           \/ asked.hasWhere /\ asked.whereColumn = IdColumn /\ n \notin ToSet(chosen)
      /\ answer' = [code |-> "OK", affected |-> Len(chosen),
                    rows |-> [i \in DOMAIN chosen |->
                                [c \in DOMAIN listed |->
                                   Field(table, now.columns, chosen[i], listed[c])]]]
      /\ pending' = <<>>
      /\ UNCHANGED rows

\* A statement is refused only for what it says or for what the table is.
Refuse ==
  LET now == pending[1]
  IN  /\ pending # <<>>
      /\ \/ ~Valid(now.statement, now.columns)
         \/ now.readOnly /\ now.statement.kind = "insert"
         \/ \E n \in DOMAIN rows[now.storage] :
              ~Whole(rows[now.storage][n], now.columns)
      /\ answer'.code # "OK"
      /\ pending' = <<>>
      /\ UNCHANGED rows

\* The process ends before it has answered.
Lose ==
  /\ pending # <<>> /\ pending' = <<>>
  /\ answer' = answer \/ answer'.code # "OK"
  /\ UNCHANGED rows

Next == Ask \/ Reject \/ Insert \/ Select \/ Refuse \/ Lose

Spec == Init /\ [][Next]_vars
=============================================================================
