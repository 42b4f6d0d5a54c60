---------------------------- MODULE MCSqlPrograms ----------------------------
(* Instances of SqlPrograms for TLC: words, files, texts and programs. *)
EXTENDS SqlPrograms

MCNumberWords == {"1", "2", "3x", "99999999999"}

MCWords ==
  Keywords \cup MCNumberWords \cup
  {"select", "t", "u", "v", "w", "a", "b", "id", "x", "y",
   "q", "e", "f", "h", "execute", "file", "exit", "quit", "help"}

MCUpper == [w \in MCWords |-> IF w = "select" THEN "SELECT" ELSE w]

\* 99999999999 does not fit an int.
MCIntOf == [w \in MCNumberWords |->
              CASE w = "1" -> 1 [] w = "2" -> 2 [] OTHER -> NotInt]

-----------------------------------------------------------------------------
(* Texts. *)

Joined(texts) ==
  FlattenSeq([i \in DOMAIN texts |-> (IF i = 1 THEN <<>> ELSE <<",">>) \o texts[i]])

Literal(value) == <<"'">> \o value \o <<"'">>

InsertText(table, columns, values) ==
  <<"INSERT", " ", "INTO", " ", table, "(">> \o Joined(columns)
    \o <<")", "VALUES", "(">> \o Joined(values) \o <<")", ";">>

SelectText(list, table, where) ==
  <<"SELECT", " ">> \o list \o <<" ", "FROM", " ", table>>
    \o (IF where = <<>> THEN <<>> ELSE <<" ", "WHERE", " ">> \o where) \o <<";">>

A == <<"a">>
B == <<"b">>
Id == <<"id">>
X == <<"x">>
Star == <<"*">>

\* Values that a CSV line must quote, that it does not keep, and others.
Values ==
  { <<>>, X, <<"x", ",", "y">>, <<DoubleQuote>>, <<" ", "x", " ">>,
    <<DoubleQuote, ",", "x">>, <<"x", "'", "'">>, <<"x", "newline">>, <<"'", "'">> }

InsertTexts ==
  {InsertText("u", <<A, B>>, <<Literal(v), X>>) : v \in Values}
  \cup { InsertText("t", <<B>>, <<Literal(<<"y">>)>>),
         InsertText("t", <<A, B>>, <<X>>),
         InsertText("t", <<A, Id>>, <<X, X>>),
         InsertText("t", <<A, <<"y">> >>, <<X, X>>),
         InsertText("t", <<A, A>>, <<X, X>>),
         InsertText("v", <<A>>, <<Literal(<<" ">>)>>) }

SelectTexts ==
  { SelectText(Star, "t", <<>>), SelectText(Star, "v", <<>>),
    SelectText(Joined(<<B, Id>>), "u", <<"a", "=", "x">>),
    SelectText(Joined(<<Id, A>>), "t", <<"id", "=", "1">>),
    SelectText(Star, "t", <<"id", "=", "2">>),
    SelectText(B, "t", <<"id", "=", "3x">>),
    SelectText(B, "t", <<"id", "=", "'", " ", "-", "1", "'">>),
    SelectText(B, "t", <<"id", "=", "99999999999">>),
    SelectText(B, "t", <<"b", "=", "'", "'">>),
    SelectText(B, "t", <<"y", "=", "x">>),
    SelectText(<<"y">>, "t", <<>>),
    SelectText(Joined(<<A, B, Id>>), "t", <<>>) }

\* A text with one piece added, left out or replaced.
EditPieces ==
  { "INSERT", "VALUES", "AND", "select", "1", "x", "*", "=", ",", "(", ")", ";",
    " ", "newline", "formfeed", "'", DoubleQuote, "-" }

Edits(sql) ==
  LET cut(i, j, middle) == SubSeq(sql, 1, i) \o middle \o SubSeq(sql, j, Len(sql))
  IN  {t \in { cut(i - 1, i + 1, <<>>) : i \in DOMAIN sql }
            \cup { cut(i, i + 1, <<p>>) : i \in 0 .. Len(sql), p \in EditPieces }
            \cup { cut(i - 1, i + 1, <<p>>) : i \in DOMAIN sql, p \in EditPieces } :
         IsText(t)}

EditedTexts ==
  UNION {Edits(sql) : sql \in
    { InsertText("t", <<A, B>>, <<Literal(<<"x", "'", "'", ",">>), <<"1">> >>),
      InsertText("t", <<A>>, <<Literal(<<>>)>>),
      SelectText(Joined(<<A, Id>>), "u", <<"a", "=", "'", "x", "'">>),
      SelectText(Star, "t", <<"id", "=", "1">>),
      SelectText(Joined(<<A, B, Id>>), "t", <<>>) }}
  \cup { <<>>, <<" ", "newline">>, <<"formfeed">>, <<"'">>, <<"'", "'", "'">>,
         SelectText(Star, "t", <<"id", "=", "1", " ", "AND", " ", "a", "=", "x">>),
         SelectText(Joined([i \in 1 .. 20 |-> A]), "t", <<>>) }

-----------------------------------------------------------------------------
(* Files. *)

Line(key, value) == [key |-> key, value |-> value]
Meta(lines) == [kind |-> "file", lines |-> lines]
Other(kind) == [kind |-> kind, lines |-> <<>>]

\* The meta file t declares table u, MetaTwice with a column twice; v declares itself.
MetaT == Meta(<<Line("table", <<"u">>), Line("columns", <<"a", ",", " ", "b">>)>>)
MetaTwice == Meta(<<Line("table", <<"u">>), Line("columns", <<"a", ",", "a">>)>>)
MetaV == Meta(<<Line("other", X), Line("table", <<"v">>), Line("columns", A)>>)

Catalog(t, v, order) ==
  [metas |-> [m \in {"t", "v"} |-> IF m = "t" THEN t ELSE v],
   order |-> order, readOnly |-> {}]

Orders == {<<"t", "v">>, <<"v", "t">>}

GoodCatalog == Catalog(MetaT, MetaV, <<"v", "t">>)

Header == <<"a", ",", "b", "newline">>

CsvV == <<"a", "newline">>

GoodFiles ==
  { <<"a", ",", "b">>, Header,
    Header \o <<"x", ",", "y", "newline", "newline", DoubleQuote, ",", DoubleQuote,
                " ", ",", " ", "x", " ">>,
    Header \o <<",", "newline", "newline">> }

BadFiles ==
  { Header \o <<"x", ",", "y", "newline", "x", "newline">>,
    Header \o <<"x", "newline", "x", ",", "y">>,
    Header \o <<"x", ",", "y", "newline", DoubleQuote, "x", ",", "y", "newline">>,
    Header \o <<DoubleQuote, "x", DoubleQuote, "y", ",", "x">> }

Csv(t) == [s \in {"t", "v"} |-> IF s = "t" THEN t ELSE CsvV]

-----------------------------------------------------------------------------
(* Programs. *)

Server(catalogOf, csvOf, requests) ==
  [front |-> "server", catalog |-> catalogOf, csv |-> csvOf, requests |-> requests,
   args |-> <<>>, stdin |-> <<>>, interactive |-> FALSE, broken |-> FALSE,
   paths |-> <<>>]

TextPrograms == {Server(GoodCatalog, Csv(Header \o <<"x", ",", "y">>), <<"edited">>)}

FilePrograms ==
  {Server(GoodCatalog, Csv(f), <<"insert", "select">>) : f \in GoodFiles \cup BadFiles}
  \cup {Server(GoodCatalog, Csv(f), <<"insert", "insert", "select">>) :
          f \in {<<"a", ",", "b">>}}

OneSelect == {Server(GoodCatalog, Csv(Header), <<"select">>)}

\* What may be wrong with a meta file or its neighbour.
OddMetas ==
  { Other("directory"), Other("denied"), MetaV,
    Meta(<<Line("table", <<"u">>), Line("table", <<"w">>), Line("columns", A)>>),
    Meta(<<Line("table", <<"u">>), Line("columns", A)>>),
    Meta(<<Line("table", <<"v">>), Line("columns", <<"a", ",", "id">>)>>),
    Meta(<<Line("table", <<"v">>), Line("columns", <<DoubleQuote, "a">>)>>),
    Meta(<<Line("none", A), Line("table", <<"v">>), Line("columns", A)>>),
    Meta(<<Line("table", <<"v">>)>>) }

NameTexts ==
  {SelectText(Star, name, <<>>) : name \in {"t", "u", "v", "w"}}
  \cup {InsertText("u", <<A>>, <<X>>), InsertText("v", <<A>>, <<X>>)}

CatalogPrograms ==
  {Server(Catalog(MetaT, v, order), Csv(Header), <<"names", "names">>) :
     v \in OddMetas, order \in Orders}
  \cup {Server(Catalog(v, MetaV, order), Csv(Header), <<"names">>) :
          v \in OddMetas, order \in Orders}
  \cup {Server(GoodCatalog, Csv(f), <<"names">>) :
          f \in {<<>>, <<"a">>, <<"b", ",", "a">>, <<DoubleQuote, "a", ",", "b">>}}
  \cup {Server(GoodCatalog, [s \in {"v"} |-> CsvV], <<"names">>),
        Server([GoodCatalog EXCEPT !.readOnly = {"t"}], Csv(Header),
               <<"names", "names">>),
        Server(Catalog(MetaTwice, MetaV, <<"v", "t">>), Csv(<<"a", ",", "a">>),
               <<"names", "names">>)}

\* Files that arguments and lines may name.
PathTexts ==
  [p \in {<<"q">>, <<"x">>, <<"y">>, <<"w">>} |->
     CASE p = <<"q">> -> [kind |-> "file", text |-> InsertText("t", <<A>>, <<X>>)]
       [] p = <<"x">> -> [kind |-> "directory", text |-> <<>>]
       [] p = <<"y">> -> [kind |-> "special", text |-> <<>>]
       [] p = <<"w">> -> [kind |-> "denied", text |-> <<>>]]

Cli(args, stdin, interactive, broken) ==
  [front |-> "cli", catalog |-> GoodCatalog, csv |-> Csv(Header),
   requests |-> <<>>, args |-> args, stdin |-> stdin,
   interactive |-> interactive, broken |-> broken, paths |-> PathTexts]

SelectAll == SelectText(Star, "t", <<>>)
SelectLong == SelectText(Joined(<<Id, A, B>>), "t", <<"a", "=", "x">>)

Arguments ==
  { <<"-">>, <<"-", "e">>, <<"-", "-", "execute">>, <<"-", "f">>,
    <<"-", "-", "file">>, <<"-", "h">>, <<"-", "-", "help">>, <<"-", "x">>,
    <<>>, <<"q">>, <<"x">>, <<"y">>, <<"w">>, <<"v">>, SelectAll, SelectLong,
    <<"SELECT", " ", "*">>, <<"FROM", " ", "t", ";">> }

ArgumentPrograms ==
  {Cli(args, SelectAll, interactive, broken) :
     args \in {<<>>} \cup {<<a>> : a \in Arguments}
              \cup {<<a, b>> : a \in Arguments, b \in Arguments},
     interactive \in BOOLEAN, broken \in BOOLEAN}
  \cup {Cli(<<a, <<"SELECT", " ", "*">>, <<"FROM", " ", "t", ";">> >>, <<>>, FALSE, FALSE) :
          a \in Arguments}

\* A dialogue of three lines, the last one possibly without its end.
Lines ==
  { <<>>, <<" ", " ">>, <<"exit">>, <<".", "quit">>, <<" ", "help">>, <<"q">>, <<"x">>,
    <<"w">>, SelectAll, <<"SELECT">>, SelectLong,
    SelectText(Star, "t", <<"id", "=", "1">>) \o [i \in 1 .. 20 |-> " "] \o SelectAll }

Dialogues ==
  {Cli(<<>>, l1 \o <<"newline">> \o l2 \o <<"newline">> \o l3, TRUE, broken) :
     l1 \in Lines, l2 \in Lines, l3 \in Lines, broken \in BOOLEAN}

MCRequestTexts ==
  [r \in {"edited", "insert", "select", "names"} |->
     CASE r = "edited" -> EditedTexts
       [] r = "insert" -> InsertTexts
       [] r = "select" -> SelectTexts
       [] r = "names" -> NameTexts]

AllPrograms ==
  TextPrograms \cup FilePrograms \cup CatalogPrograms \cup ArgumentPrograms
    \cup Dialogues
=============================================================================
