------------------------------- MODULE SqlText -------------------------------
(***************************************************************************)
(* Text as the SQL front end and the CSV storage take it apart.            *)
(*                                                                         *)
(* A text is a sequence of pieces.  A word is a whole run of identifier    *)
(* characters (letters, digits, '_' and bytes above 0x7F), every other     *)
(* piece is one character: white space, a symbol of SQL, a single or a     *)
(* double quote, or a character that no rule of the lexer takes.  No code  *)
(* modelled here looks inside a word, except for its first character (does *)
(* it start a number), its case, and its value as an integer.              *)
(***************************************************************************)
EXTENDS Integers, SequencesExt

CONSTANTS
  Words,       \* the words of an instance
  NumberWords, \* those whose first character is a digit
  Upper,       \* Upper[w]: w with its letters in upper case
  IntOf,       \* IntOf[w]: the int that strtol reads from a number word
  NotInt       \* ... or that it reads none, or one out of range

Quote == "'"
DoubleQuote == "\""
Comma == ","
Semicolon == ";"
Symbols == {"*", "=", Comma, "(", ")", Semicolon}

\* A space or a tab; the end of a line; a form feed or a vertical tab.
Blank == " "
Spaces == {Blank, "newline", "formfeed"}

\* Characters that belong to no token, and a point and a sign among them.
Others == {DoubleQuote, "-", "."}

ASSUME TextAssumption ==
  /\ NumberWords \subseteq Words
  /\ Words \cap (Symbols \cup Spaces \cup Others \cup {Quote}) = {}
  /\ Upper \in [Words -> Words]
  /\ NotInt \notin Int
  /\ IntOf \in [NumberWords -> Int \cup {NotInt}]

Pieces == Words \cup Symbols \cup Spaces \cup Others \cup {Quote}

\* Runs of identifier characters are whole: no two words meet in a text.
IsText(text) ==
  /\ text \in Seq(Pieces)
  /\ \A i \in 1 .. Len(text) - 1 : ~(text[i] \in Words /\ text[i + 1] \in Words)

\* A loop over a text: what it has computed after the last piece.
Run(Step(_, _), start, text) ==
  LET state[i \in 0 .. Len(text)] ==
        IF i = 0 THEN start ELSE Step(state[i - 1], text[i])
  IN  state[Len(text)]

\* The positions 1 .. n that are in a set, in their order.
InOrder(n, positions) ==
  LET listed[i \in 0 .. n] ==
        IF i = 0 THEN <<>>
        ELSE IF i \in positions THEN Append(listed[i - 1], i) ELSE listed[i - 1]
  IN  listed[n]

AllIn(text, pieces) == \A i \in DOMAIN text : text[i] \in pieces

\* trim_whitespace.
Trim(text) ==
  IF AllIn(text, Spaces) THEN <<>>
  ELSE SubSeq(text, SelectInSeq(text, LAMBDA p : p \notin Spaces),
              SelectLastInSeq(text, LAMBDA p : p \notin Spaces))

\* parse_int_strict: strtol skips white space and takes a sign, and nothing
\* may follow the digits.
ParseInt(text) ==
  LET first == SelectInSeq(text, LAMBDA p : p \notin Spaces)
      digits == IF first = 0 THEN <<>> ELSE SubSeq(text, first, Len(text))
  IN  IF Len(digits) = 1 /\ digits[1] \in NumberWords THEN IntOf[digits[1]]
      ELSE IF /\ Len(digits) = 2 /\ digits[1] = "-"
              /\ digits[2] \in NumberWords /\ IntOf[digits[2]] # NotInt
           THEN -IntOf[digits[2]]
           ELSE NotInt
=============================================================================
