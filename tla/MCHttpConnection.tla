-------------------------- MODULE MCHttpConnection --------------------------
(***************************************************************************)
(* Requests for TLC: each differs in one aspect from a query that the API  *)
(* accepts, so that every check of the code decides some of them, at its   *)
(* limit and one beyond it.                                                *)
(***************************************************************************)
EXTENDS HttpConnection

Object == <<"open", "sql", "colon", "text", "close">>

Query ==
  [head |-> 3, ended |-> TRUE, wellFormed |-> TRUE, coding |-> <<>>,
   type |-> <<"json", "utf8">>, length |-> 5, method |-> "POST",
   path |-> "/query", body |-> Object]

WithBody(body) == [Query EXCEPT !.body = body, !.length = Len(body)]

Heads == {[Query EXCEPT !.head = n, !.ended = e] : n \in 2 .. 5, e \in BOOLEAN}

Codings ==
  {[Query EXCEPT !.coding = c] :
     c \in {<<"chunked">>, <<"gzip">>, <<"gzip", "chunked">>, <<"gzip", "gzip">>}}

Types ==
  {[Query EXCEPT !.type = t] :
     t \in {<<>>, <<"json">>, <<"plain">>, <<"json", "latin1">>,
            <<"json", "utf8", "utf8">>, <<"json", "utf8", "latin1">>}}

\* Declared lengths that are wrong, short, exact, and longer than the body.
Lengths == {[Query EXCEPT !.length = n] : n \in {Absent, Malformed, 0, 4, 6, 10}}

Routes ==
  {[Query EXCEPT !.method = m, !.path = p, !.length = n] :
     m \in {"GET", "POST"}, p \in {"/", "/health", "/query", "/other"},
     n \in {Absent, 5}}

\* One token of an object replaced, one left out, one more at the end.
Edits(body) ==
  {ReplaceAt(body, i, t) : i \in DOMAIN body, t \in JsonTokens} \cup
  {RemoveAt(body, i) : i \in DOMAIN body} \cup
  {Append(body, t) : t \in JsonTokens}

OtherObjects ==
  {<<"open", "text", "colon", "scalar", "comma", "sql", "colon", "text", "close">>,
   <<"open", "sql", "colon", "text", "comma", "sql", "colon", "scalar", "close">>,
   <<"open", "sql", "colon", "text", "comma", "text", "colon", "text", "comma", "close">>,
   <<"open", "sql", "colon", "text", "comma", "close">>,
   <<"open", "close">>}

AllRequests ==
  Heads \cup Codings \cup Types \cup Lengths \cup Routes
    \cup {[Query EXCEPT !.wellFormed = FALSE]}
    \cup {WithBody(body) : body \in Edits(Object) \cup OtherObjects}

\* Requests whose headers strtok splits, for two workers at once.
TwoTypes ==
  {[Query EXCEPT !.type = t, !.length = 1, !.body = <<"other">>, !.head = 1] :
     t \in {<<"json">>, <<"json", "latin1">>}}
=============================================================================
