------------------------------ MODULE SqlLexer ------------------------------
(***************************************************************************)
(* sql/lexer.c: a SQL text becomes a sequence of tokens, or an error.      *)
(*                                                                         *)
(* The loop of lex_sql is an automaton over the pieces of the text.  Its   *)
(* mode is "between" tokens, in a "string" literal, just past a "quote"    *)
(* inside one, which ends it unless a second quote follows, or "error".    *)
(***************************************************************************)
EXTENDS SqlText

\* push_token; an identifier or a number is one word, a string is a text.
Token(type, text) == [type |-> type, text |-> text]

TokenTypes == {"identifier", "string", "number", "end"} \cup Symbols

LexStart == [mode |-> "between", buffer |-> <<>>, tokens |-> <<>>]

Push(lexer, type, text) ==
  [mode |-> "between", buffer |-> <<>>,
   tokens |-> Append(lexer.tokens, Token(type, text))]

\* lex_sql between two tokens, and lex_word: the first character of a word
\* decides whether it is a number.
Between(lexer, piece) ==
  CASE piece \in Spaces -> lexer
    [] piece \in NumberWords -> Push(lexer, "number", <<piece>>)
    [] piece \in Words \ NumberWords -> Push(lexer, "identifier", <<piece>>)
    [] piece \in Symbols -> Push(lexer, piece, <<piece>>)
    [] piece = Quote -> [lexer EXCEPT !.mode = "string"]
    [] OTHER -> [lexer EXCEPT !.mode = "error"]

Collect(lexer, piece) ==
  [lexer EXCEPT !.mode = "string", !.buffer = Append(@, piece)]

\* Mutant of PastQuote: the two quotes are skipped and none is kept.
PastQuoteDropped(lexer, piece) ==
  IF piece = Quote THEN [lexer EXCEPT !.mode = "string"]
  ELSE Between(Push(lexer, "string", lexer.buffer), piece)

\* lex_string: two quotes in a literal stand for one, a single one ends it.
PastQuote(lexer, piece) ==
  IF piece = Quote THEN Collect(lexer, Quote)
  ELSE Between(Push(lexer, "string", lexer.buffer), piece)

LexPiece(lexer, piece) ==
  CASE lexer.mode = "between" -> Between(lexer, piece)
    [] lexer.mode = "string" /\ piece = Quote -> [lexer EXCEPT !.mode = "quote"]
    [] lexer.mode = "string" /\ piece # Quote -> Collect(lexer, piece)
    [] lexer.mode = "quote" -> PastQuote(lexer, piece)
    [] lexer.mode = "error" -> lexer

\* The end of the text.  A literal counts as closed if the last character of
\* the text is a quote: also when that quote opens it, or is the second of two.
LexEnd(lexer, text) ==
  CASE lexer.mode = "quote" -> Push(lexer, "string", lexer.buffer)
    [] lexer.mode = "string" /\ Last(text) = Quote ->
         Push(lexer, "string", lexer.buffer)
    [] lexer.mode = "string" /\ Last(text) # Quote ->
         [lexer EXCEPT !.mode = "error"]
    [] OTHER -> lexer

\* lex_sql.
Lex(text) ==
  LET lexer == LexEnd(Run(LexPiece, LexStart, text), text)
  IN  IF lexer.mode = "error" THEN [ok |-> FALSE, tokens |-> <<>>]
      ELSE [ok |-> TRUE, tokens |-> Append(lexer.tokens, Token("end", <<>>))]

-----------------------------------------------------------------------------
(* Reference: what the tokens of a text are, without an automaton. *)

QuotesBefore(text, n) == Cardinality({i \in 1 .. n - 1 : text[i] = Quote})

\* A piece is inside a literal if an odd number of quotes precedes it.
Inside(text, n) == QuotesBefore(text, n) % 2 = 1

\* The text without the white space outside its literals.
Squeezed(text) ==
  LET kept == InOrder(Len(text), {n \in DOMAIN text :
                                    text[n] \notin Spaces \/ Inside(text, n)})
  IN  [i \in DOMAIN kept |-> text[kept[i]]]

\* A literal with its quotes doubled.
Spelled(token) ==
  IF token.type # "string" THEN token.text
  ELSE <<Quote>>
       \o FlattenSeq([i \in DOMAIN token.text |->
                        IF token.text[i] = Quote THEN <<Quote, Quote>>
                        ELSE <<token.text[i]>>])
       \o <<Quote>>

SpelledAll(tokens) == FlattenSeq([i \in DOMAIN tokens |-> Spelled(tokens[i])])

\* Every literal of the text is closed.
LiteralsClosed(text) == ~Inside(text, Len(text) + 1)
=============================================================================
