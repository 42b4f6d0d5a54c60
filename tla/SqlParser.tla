------------------------------ MODULE SqlParser ------------------------------
(***************************************************************************)
(* sql/parser.c: a sequence of tokens becomes an INSERT or a SELECT, or an *)
(* error.                                                                  *)
(*                                                                         *)
(* The parser never looks past the current token, so its functions are an  *)
(* automaton over the tokens.  A rule <<at, on, to, field>> says: at place *)
(* at, a token that matches on is consumed, its text goes to a field of    *)
(* the statement ("none" for no field), and the parser goes on at place to.*)
(***************************************************************************)
EXTENDS SqlLexer

Keywords == {"INSERT", "INTO", "VALUES", "SELECT", "FROM", "WHERE", "AND", "OR"}

ASSUME KeywordAssumption == Keywords \subseteq Words \ NumberWords

\* expect_keyword: a keyword is an identifier, compared without its case.
IsKeyword(token, keyword) ==
  token.type = "identifier" /\ Upper[token.text[1]] = keyword

ValueTypes == {"string", "number", "identifier"}

\* match_type, expect_type, expect_keyword, and the token tests of
\* parse_identifier, parse_value_list and parse_condition_value.
Matches(token, on) ==
  \/ on \in Keywords /\ IsKeyword(token, on)
  \/ on = "value" /\ token.type \in ValueTypes
  \/ on \in TokenTypes /\ token.type = on

\* parse_insert, with parse_identifier_list and parse_value_list.
InsertRules ==
  { <<"start",      "INSERT",     "into",       "insert">>,
    <<"into",       "INTO",       "table",      "none">>,
    <<"table",      "identifier", "columns",    "table">>,
    <<"columns",    "(",          "column",     "none">>,
    <<"column",     "identifier", "pastColumn", "columns">>,
    <<"pastColumn", Comma,        "column",     "none">>,
    <<"pastColumn", ")",          "values",     "none">>,
    <<"values",     "VALUES",     "tuple",      "none">>,
    <<"tuple",      "(",          "value",      "none">>,
    <<"value",      "value",      "pastValue",  "values">>,
    <<"pastValue",  Comma,        "value",      "none">>,
    <<"pastValue",  ")",          "close",      "none">> }

\* parse_select, with parse_identifier_list and parse_condition_value.
SelectRules ==
  { <<"start",        "SELECT",     "select",       "select">>,
    <<"select",       "*",          "from",         "all">>,
    <<"select",       "identifier", "pastSelected", "columns">>,
    <<"pastSelected", Comma,        "selected",     "none">>,
    <<"selected",     "identifier", "pastSelected", "columns">>,
    <<"pastSelected", "FROM",       "source",       "none">>,
    <<"from",         "FROM",       "source",       "none">>,
    <<"source",       "identifier", "where",        "table">>,
    <<"where",        "WHERE",      "operand",      "none">>,
    <<"operand",      "identifier", "equals",       "whereColumn">>,
    <<"equals",       "=",          "literal",      "none">>,
    <<"literal",      "value",      "connector",    "whereValue">> }

\* Mutant of EndRules: what follows the semicolon is not looked at.
EndRulesAnyRest ==
  { <<"where", Semicolon, "done", "none">>, <<"connector", Semicolon, "done", "none">>,
    <<"close", Semicolon, "done", "none">> }

\* The end of parse_statement: a semicolon and nothing after it.
EndRules ==
  { <<"where", Semicolon, "end", "none">>, <<"connector", Semicolon, "end", "none">>,
    <<"close", Semicolon, "end", "none">>, <<"end", "end", "done", "none">> }

Rules == InsertRules \cup SelectRules \cup EndRules

NoStatement ==
  [kind |-> "none", all |-> FALSE, table |-> <<>>, columns |-> <<>>,
   values |-> <<>>, hasWhere |-> FALSE, whereColumn |-> <<>>,
   whereValue |-> <<>>]

\* The InsertStatement or SelectStatement with one more token in it.
Store(statement, field, text) ==
  CASE field \in {"insert", "select"} -> [statement EXCEPT !.kind = field]
    [] field = "all" -> [statement EXCEPT !.all = TRUE]
    [] field = "table" -> [statement EXCEPT !.table = text]
    [] field = "columns" -> [statement EXCEPT !.columns = Append(@, text)]
    [] field = "values" -> [statement EXCEPT !.values = Append(@, text)]
    [] field = "whereColumn" -> [statement EXCEPT !.whereColumn = text]
    [] field = "whereValue" ->
         [statement EXCEPT !.whereValue = text, !.hasWhere = TRUE]
    [] field = "none" -> statement

\* A statement that starts otherwise, or goes on with AND or OR after its
\* condition (reject_unsupported_where_connector), is unsupported; the adapter
\* tells the two messages from the other ones.
Failure(at, token) ==
  IF \/ at = "start"
     \/ at = "connector" /\ (IsKeyword(token, "AND") \/ IsKeyword(token, "OR"))
  THEN "unsupported" ELSE "error"

ParseToken(parser, token) ==
  LET rules == {r \in Rules : r[1] = parser.at /\ Matches(token, r[2])}
      rule == CHOOSE r \in rules : TRUE
  IN  IF parser.at \in {"unsupported", "error", "done"} THEN parser
      ELSE IF rules = {}
      THEN [at |-> Failure(parser.at, token), statement |-> NoStatement]
      ELSE [at |-> rule[3],
            statement |-> Store(parser.statement, rule[4], token.text)]

\* parse_statement.
Parse(tokens) ==
  Run(ParseToken, [at |-> "start", statement |-> NoStatement], tokens)

-----------------------------------------------------------------------------
(* Reference: the sentences of the grammar by the positions of their       *)
(* tokens, and the statements a sequence of tokens can be read as.         *)

\* n entries of some types from position first on, with commas between them.
ListAt(tokens, first, n, types) ==
  /\ \A i \in 0 .. n - 1 : tokens[first + 2 * i].type \in types
  /\ \A i \in 1 .. n - 1 : tokens[first + 2 * i - 1].type = Comma

Texts(tokens, first, n) == [i \in 1 .. n |-> tokens[first + 2 * (i - 1)].text]

TypesAt(tokens, first, types) ==
  \A i \in DOMAIN types : tokens[first + i - 1].type = types[i]

\* INSERT INTO t ( n columns ) VALUES ( m values ) ;
InsertReadings(tokens) ==
  { [NoStatement EXCEPT !.kind = "insert", !.table = tokens[3].text,
                        !.columns = Texts(tokens, 5, s[1]),
                        !.values = Texts(tokens, 7 + 2 * s[1], s[2])] :
    s \in {t \in (1 .. Len(tokens)) \X (1 .. Len(tokens)) :
             LET n == t[1]
                 m == t[2] IN
             /\ Len(tokens) = 8 + 2 * n + 2 * m
             /\ IsKeyword(tokens[1], "INSERT")
             /\ IsKeyword(tokens[2], "INTO")
             /\ TypesAt(tokens, 3, <<"identifier", "(">>)
             /\ ListAt(tokens, 5, n, {"identifier"})
             /\ tokens[4 + 2 * n].type = ")"
             /\ IsKeyword(tokens[5 + 2 * n], "VALUES")
             /\ tokens[6 + 2 * n].type = "("
             /\ ListAt(tokens, 7 + 2 * n, m, ValueTypes)
             /\ TypesAt(tokens, 6 + 2 * n + 2 * m, <<")", Semicolon, "end">>)} }

\* SELECT * FROM t, or SELECT n columns FROM t; then ; or WHERE c = v ;
SelectReadings(tokens) ==
  { [NoStatement EXCEPT
       !.kind = "select", !.all = s[1] = 0,
       !.columns = Texts(tokens, 2, s[1]),
       !.table = tokens[s[2] + 1].text, !.hasWhere = s[3],
       !.whereColumn = IF s[3] THEN tokens[s[2] + 3].text ELSE <<>>,
       !.whereValue = IF s[3] THEN tokens[s[2] + 5].text ELSE <<>>] :
    s \in {t \in (0 .. Len(tokens)) \X (1 .. Len(tokens)) \X BOOLEAN :
             LET n == t[1]
                 from == t[2]
                 where == t[3] IN
             /\ from = (IF n = 0 THEN 3 ELSE 2 * n + 1)
             /\ Len(tokens) = from + (IF where THEN 7 ELSE 3)
             /\ IsKeyword(tokens[1], "SELECT")
             /\ IF n = 0 THEN tokens[2].type = "*"
                ELSE ListAt(tokens, 2, n, {"identifier"})
             /\ IsKeyword(tokens[from], "FROM")
             /\ tokens[from + 1].type = "identifier"
             /\ where => /\ IsKeyword(tokens[from + 2], "WHERE")
                         /\ TypesAt(tokens, from + 3, <<"identifier", "=">>)
                         /\ tokens[from + 5].type \in ValueTypes
             /\ TypesAt(tokens, Len(tokens) - 1, <<Semicolon, "end">>)} }

Readings(tokens) == InsertReadings(tokens) \cup SelectReadings(tokens)
=============================================================================
