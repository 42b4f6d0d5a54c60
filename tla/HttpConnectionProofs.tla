------------------------ MODULE HttpConnectionProofs ------------------------
(***************************************************************************)
(* Proofs about HttpConnection, for any requests, any limits and any       *)
(* number of connections.                                                  *)
(*                                                                         *)
(* First what extract_sql_field computes for every body: induction over    *)
(* the tokens it has read.                                                 *)
(***************************************************************************)
EXTENDS HttpConnection, NumberFacts, SequenceTheorems, TLAPS

-----------------------------------------------------------------------------
(* extract_sql_field. *)

\* The states of the scanner after 0 .. n tokens of a body.
IsScan(f, body, n) ==
  f = [i \in 0 .. n |-> IF i = 0 THEN JsonStart ELSE JsonNext(f[i - 1], body[i])]

\* The recursive definition of the scan has a solution.
LEMMA ScanExists ==
  ASSUME NEW body, NEW n \in Nat
  PROVE  \E f : IsScan(f, body, n)
<1> DEFINE T == {k \in 0 .. n : \E f : IsScan(f, body, k)}
<1>1. 0 \in T
  <2> DEFINE g == [i \in 0 .. 0 |-> JsonStart]
  <2>1. IsScan(g, body, 0)
    BY DEF IsScan
  <2> QED
    BY <2>1
<1>2. ASSUME NEW k \in 1 .. n, k - 1 \in T
      PROVE  k \in T
  <2>1. PICK f : IsScan(f, body, k - 1)
    BY <1>2
  <2> DEFINE g == [i \in 0 .. k |->
                     IF i < k THEN f[i] ELSE JsonNext(f[k - 1], body[k])]
  <2>2. ASSUME NEW i \in 0 .. k
        PROVE  g[i] = IF i = 0 THEN JsonStart ELSE JsonNext(g[i - 1], body[i])
    <3>1. CASE i = k
      BY <3>1
    <3>2. CASE i < k
      <4>1. f[i] = IF i = 0 THEN JsonStart ELSE JsonNext(f[i - 1], body[i])
        BY <2>1, <3>2 DEF IsScan
      <4> QED
        BY <4>1, <3>2
    <3> QED
      BY <3>1, <3>2
  <2>3. IsScan(g, body, k)
    <3>1. g = [i \in 0 .. k |-> g[i]]
      OBVIOUS
    <3> HIDE DEF g
    <3> QED
      BY <3>1, <2>2 DEF IsScan
  <2> QED
    BY <2>3
<1> HIDE DEF T
<1>3. \A k \in 0 .. n : k \in T
  BY <1>1, <1>2, InductionTo
<1> QED
  BY <1>3 DEF T

(* The first i tokens begin an object that is still open; or are one that  *)
(* has just been closed.                                                   *)
OpenAt(body, i) ==
  i >= 1 /\ body[1] = "open" /\ \A j \in 2 .. i : body[j] \in KindAt(body, j)
ClosedAt(body, i) ==
  OpenAt(body, i - 1) /\ body[i] = "close" /\ i % 4 \in {1, 2}

\* A key "sql" and its value are among the first i tokens.
FoundAt(body, i) == \E j \in 2 .. i - 2 : j % 4 = 2 /\ body[j] = "sql"

ScanStates ==
  [at : {"object", "key", "colon", "value", "after", "end", "error"},
   sql : BOOLEAN, found : BOOLEAN]

\* What the scanner knows after i tokens.
ScanAt(s, body, i) ==
  /\ s \in ScanStates
  /\ i = 0 => s = JsonStart
  /\ i > 0 /\ OpenAt(body, i) =>
       /\ i % 4 = 1 => s.at = "key"
       /\ i % 4 = 2 => s.at = "colon" /\ (s.sql <=> body[i] = "sql")
       /\ i % 4 = 3 => s.at = "value" /\ (s.sql <=> body[i - 1] = "sql")
       /\ i % 4 = 0 => s.at = "after"
       /\ s.found <=> FoundAt(body, i)
  /\ i > 0 /\ ClosedAt(body, i) => s.at = "end" /\ (s.found <=> FoundAt(body, i - 1))
  /\ i > 0 /\ ~OpenAt(body, i) /\ ~ClosedAt(body, i) => s.at = "error"

\* The positions of an object go round by four.
LEMMA RoundByFour ==
  ASSUME NEW i \in Nat, i >= 1
  PROVE  /\ i % 4 \in {0, 1, 2, 3}
         /\ (i - 1) % 4 = IF i % 4 = 0 THEN 3 ELSE (i % 4) - 1
         /\ i >= 4 => ((i - 2) % 4 = 2 <=> i % 4 = 0)
         /\ i < 4 => i % 4 = i
OBVIOUS

\* A closing brace is at no position inside an object.
LEMMA NeverClose == \A body, i : "close" \notin KindAt(body, i)
<1> SUFFICES ASSUME NEW body, NEW i
             PROVE  "close" \notin KindAt(body, i)
  OBVIOUS
<1>1. KindAt(body, i) \in {{"sql", "text"}, {"colon"}, {"sql", "text", "scalar"}, {"comma"}}
  BY DEF KindAt
<1> QED
  BY <1>1

\* A key "sql" is found with its value.
LEMMA FoundNext ==
  ASSUME NEW body, NEW i \in Nat, i >= 2
  PROVE  FoundAt(body, i) <=> FoundAt(body, i - 1) \/ (i % 4 = 0 /\ body[i - 2] = "sql")
<1>1. ASSUME FoundAt(body, i)
      PROVE  FoundAt(body, i - 1) \/ (i % 4 = 0 /\ body[i - 2] = "sql")
  <2>1. PICK j \in 2 .. i - 2 : j % 4 = 2 /\ body[j] = "sql"
    BY <1>1 DEF FoundAt
  <2>2. CASE j = i - 2
    BY <2>1, <2>2, RoundByFour
  <2>3. CASE j # i - 2
    BY <2>1, <2>3 DEF FoundAt
  <2> QED
    BY <2>2, <2>3
<1>2. ASSUME FoundAt(body, i - 1)
      PROVE  FoundAt(body, i)
  BY <1>2 DEF FoundAt
<1>3. ASSUME i % 4 = 0, body[i - 2] = "sql"
      PROVE  FoundAt(body, i)
  <2>1. i >= 4 /\ (i - 2) % 4 = 2
    BY <1>3, RoundByFour
  <2>2. i - 2 \in 2 .. i - 2
    BY <2>1
  <2> QED
    BY <2>1, <2>2, <1>3 DEF FoundAt
<1> QED
  BY <1>1, <1>2, <1>3

\* What one token does, by what was expected.
LEMMA TokenStep ==
  ASSUME NEW s \in ScanStates, NEW t \in JsonTokens
  PROVE  LET n == JsonNext(s, t)
         IN /\ n \in ScanStates
            /\ n.found <=> s.found \/ (s.at = "value" /\ t \in {"sql", "text"} /\ s.sql)
            /\ s.at = "object" => n.at = IF t = "open" THEN "key" ELSE "error"
            /\ s.at = "key" =>
                 /\ t \in {"sql", "text"} => n.at = "colon" /\ (n.sql <=> t = "sql")
                 /\ t = "close" => n.at = "end"
                 /\ t \notin {"sql", "text", "close"} => n.at = "error"
            /\ s.at = "colon" =>
                 /\ n.at = IF t = "colon" THEN "value" ELSE "error"
                 /\ n.sql <=> s.sql
            /\ s.at = "value" =>
                 n.at = IF t \in {"sql", "text"} \/ (t = "scalar" /\ ~s.sql)
                        THEN "after" ELSE "error"
            /\ s.at = "after" =>
                 n.at = CASE t = "comma" -> "key" [] t = "close" -> "end" [] OTHER -> "error"
            /\ s.at \in {"end", "error"} => n.at = "error"
BY DEF ScanStates, JsonTokens, JsonNext

\* One more token leaves the scanner with what it should know.
LEMMA ScanStep ==
  ASSUME NEW body \in Seq(JsonTokens), NEW i \in 1 .. Len(body), NEW s,
         ScanAt(s, body, i - 1)
  PROVE  ScanAt(JsonNext(s, body[i]), body, i)
<1> DEFINE t == body[i]
           n == JsonNext(s, t)
<1>1. t \in JsonTokens /\ s \in ScanStates
  BY DEF ScanAt
<1>2. i \in Nat /\ i >= 1
  OBVIOUS
<1>3. n \in ScanStates
  BY <1>1, TokenStep
<1>4. CASE i = 1
  <2>1. s.at = "object" /\ ~s.found
    BY <1>4 DEF ScanAt, JsonStart
  <2>2. OpenAt(body, i) <=> t = "open"
    BY <1>4 DEF OpenAt
  <2>3. ~ClosedAt(body, i) /\ ~FoundAt(body, i)
    BY <1>4 DEF ClosedAt, OpenAt, FoundAt
  <2>4. n.at = (IF t = "open" THEN "key" ELSE "error") /\ ~n.found
    BY <1>1, <2>1, TokenStep
  <2> HIDE DEF n, t
  <2> QED
    BY <1>3, <1>4, <2>2, <2>3, <2>4 DEF ScanAt, n, t
<1>5. CASE i > 1 /\ OpenAt(body, i - 1)
  <2>1. OpenAt(body, i) <=> t \in KindAt(body, i)
    BY <1>5 DEF OpenAt
  <2>2. ClosedAt(body, i) <=> t = "close" /\ i % 4 \in {1, 2}
    BY <1>5 DEF ClosedAt
  <2>3. FoundAt(body, i) <=> FoundAt(body, i - 1) \/ (i % 4 = 0 /\ body[i - 2] = "sql")
    BY <1>5, FoundNext
  <2>4. s.found <=> FoundAt(body, i - 1)
    BY <1>5 DEF ScanAt
  <2>5. i % 4 \in {0, 1, 2, 3} /\ (i - 1) % 4 = IF i % 4 = 0 THEN 3 ELSE (i % 4) - 1
    BY <1>2, RoundByFour
  <2>6. CASE i % 4 = 2
    <3>1. s.at = "key"
      BY <1>5, <2>5, <2>6 DEF ScanAt
    <3>2. OpenAt(body, i) <=> t \in {"sql", "text"}
      BY <2>1, <2>6 DEF KindAt
    <3>3. /\ t \in {"sql", "text"} => n.at = "colon" /\ (n.sql <=> t = "sql")
          /\ t = "close" => n.at = "end"
          /\ t \notin {"sql", "text", "close"} => n.at = "error"
          /\ n.found <=> s.found
      BY <1>1, <3>1, TokenStep
    <3> HIDE DEF n, t
    <3> QED
      BY <1>3, <1>5, <2>2, <2>3, <2>4, <2>6, <3>2, <3>3 DEF ScanAt, n, t
  <2>7. CASE i % 4 = 3
    <3>1. s.at = "colon" /\ (s.sql <=> body[i - 1] = "sql")
      BY <1>5, <2>5, <2>7 DEF ScanAt
    <3>2. OpenAt(body, i) <=> t = "colon"
      BY <2>1, <2>7 DEF KindAt
    <3>3. /\ n.at = IF t = "colon" THEN "value" ELSE "error"
          /\ n.sql <=> s.sql
          /\ n.found <=> s.found
      BY <1>1, <3>1, TokenStep
    <3> HIDE DEF n, t
    <3> QED
      BY <1>3, <1>5, <2>2, <2>3, <2>4, <2>7, <3>1, <3>2, <3>3 DEF ScanAt, n, t
  <2>8. CASE i % 4 = 0
    <3>1. s.at = "value" /\ (s.sql <=> body[i - 1 - 1] = "sql")
      BY <1>5, <2>5, <2>8 DEF ScanAt
    <3>2. i - 1 - 1 = i - 2
      OBVIOUS
    <3>3. s.sql <=> body[i - 2] = "sql"
      BY <3>1, <3>2
    <3>4. OpenAt(body, i) <=> t \in {"sql", "text"} \/ (t = "scalar" /\ ~s.sql)
      BY <1>1, <2>1, <2>8, <3>3 DEF KindAt
    <3>5. /\ n.at = IF t \in {"sql", "text"} \/ (t = "scalar" /\ ~s.sql)
                    THEN "after" ELSE "error"
          /\ n.found <=> s.found \/ (t \in {"sql", "text"} /\ s.sql)
      BY <1>1, <3>1, TokenStep
    <3>6. OpenAt(body, i) => (n.found <=> FoundAt(body, i))
      BY <2>3, <2>4, <2>8, <3>3, <3>4, <3>5
    <3> HIDE DEF n, t
    <3> QED
      BY <1>3, <1>5, <2>2, <2>8, <3>4, <3>5, <3>6 DEF ScanAt, n, t
  <2>9. CASE i % 4 = 1
    <3>1. s.at = "after"
      BY <1>5, <2>5, <2>9 DEF ScanAt
    <3>2. OpenAt(body, i) <=> t = "comma"
      BY <2>1, <2>9 DEF KindAt
    <3>3. /\ n.at = CASE t = "comma" -> "key" [] t = "close" -> "end" [] OTHER -> "error"
          /\ n.found <=> s.found
      BY <1>1, <3>1, TokenStep
    <3> HIDE DEF n, t
    <3> QED
      BY <1>3, <1>5, <2>2, <2>3, <2>4, <2>9, <3>2, <3>3 DEF ScanAt, n, t
  <2> QED
    BY <2>5, <2>6, <2>7, <2>8, <2>9
<1>6. CASE i > 1 /\ ~OpenAt(body, i - 1)
  <2>1. s.at \in {"end", "error"}
    BY <1>6 DEF ScanAt
  <2>2. ~OpenAt(body, i) /\ ~ClosedAt(body, i)
    BY <1>6 DEF OpenAt, ClosedAt
  <2>3. n.at = "error"
    BY <1>1, <2>1, TokenStep
  <2> QED
    BY <1>3, <1>6, <2>2, <2>3 DEF ScanAt
<1> QED
  BY <1>4, <1>5, <1>6

(* extract_sql_field accepts the objects of the reference grammar that     *)
(* have a key "sql", and tells the others apart, for every body.           *)
THEOREM ExtractIsExact ==
  ASSUME NEW body \in Seq(JsonTokens)
  PROVE  ExtractSqlField(body) =
           IF ~IsObject(body) THEN "INVALID_JSON"
           ELSE IF ~HasSql(body) THEN "MISSING_SQL_FIELD" ELSE "NONE"
<1> DEFINE len == Len(body)
           scan == CHOOSE f : IsScan(f, body, len)
           s == scan[len]
<1>1. len \in Nat
  OBVIOUS
<1>2. IsScan(scan, body, len)
  BY <1>1, ScanExists
<1>3. ExtractSqlField(body) =
        IF s.at # "end" THEN "INVALID_JSON"
        ELSE IF ~s.found THEN "MISSING_SQL_FIELD" ELSE "NONE"
  BY DEF ExtractSqlField, IsScan
<1> HIDE DEF scan
<1>4. \A i \in 0 .. len : ScanAt(scan[i], body, i)
  <2> DEFINE T == {i \in 0 .. len : ScanAt(scan[i], body, i)}
  <2>1. 0 \in T
    <3>1. scan[0] = JsonStart
      BY <1>1, <1>2 DEF IsScan
    <3>2. ~FoundAt(body, 0) /\ JsonStart \in ScanStates
      BY DEF FoundAt, JsonStart, ScanStates
    <3> QED
      BY <1>1, <3>1, <3>2 DEF ScanAt
  <2>2. ASSUME NEW i \in 1 .. len, i - 1 \in T
        PROVE  i \in T
    <3>1. scan[i] = JsonNext(scan[i - 1], body[i])
      BY <1>1, <1>2 DEF IsScan
    <3> QED
      BY <2>2, <3>1, ScanStep
  <2> HIDE DEF T
  <2>3. \A i \in 0 .. len : i \in T
    BY <1>1, <2>1, <2>2, InductionTo
  <2> QED
    BY <2>3 DEF T
<1>5. ScanAt(s, body, len)
  BY <1>1, <1>4
<1>6. IsObject(body) <=> len > 0 /\ ClosedAt(body, len)
  BY DEF IsObject, ClosedAt, OpenAt
<1>7. s.at = "end" <=> IsObject(body)
  <2>1. CASE len = 0
    BY <1>5, <1>6, <2>1 DEF ScanAt, JsonStart
  <2>2. CASE len > 0 /\ OpenAt(body, len)
    <3>1. len % 4 \in {0, 1, 2, 3}
      BY <1>1, <2>2, RoundByFour
    <3>2. s.at # "end"
      BY <1>5, <2>2, <3>1 DEF ScanAt
    <3>3. body[len] # "close"
      <4>1. CASE len = 1
        <5>1. body[1] = "open"
          BY <2>2 DEF OpenAt
        <5> QED
          BY <4>1, <5>1
      <4>2. CASE len > 1
        <5>1. body[len] \in KindAt(body, len)
          BY <1>1, <2>2, <4>2 DEF OpenAt
        <5>2. "close" \notin KindAt(body, len)
          BY NeverClose
        <5> QED
          BY <5>1, <5>2
      <4> HIDE DEF len
      <4>3. len > 0
        BY <2>2
      <4>4. len = 1 \/ len > 1
        BY <1>1, <4>3
      <4> QED
        BY <4>1, <4>2, <4>4
    <3> QED
      BY <3>2, <3>3 DEF IsObject
  <2>3. CASE len > 0 /\ ~OpenAt(body, len)
    BY <1>5, <1>6, <2>3 DEF ScanAt
  <2> QED
    BY <1>1, <2>1, <2>2, <2>3
<1>8. IsObject(body) => (s.found <=> HasSql(body))
  <2> SUFFICES ASSUME IsObject(body)
               PROVE  s.found <=> HasSql(body)
    OBVIOUS
  <2>1. len >= 2 /\ len % 4 \in {1, 2}
    BY DEF IsObject
  <2>2. s.found <=> FoundAt(body, len - 1)
    BY <1>5, <1>6 DEF ScanAt
  <2>3. \A i \in 2 .. len - 1 : i % 4 = 2 => i \in 2 .. len - 3
    BY <2>1
  <2>4. \A i \in 2 .. len - 1 - 2 : i \in 2 .. len - 1
    BY <1>1
  <2> QED
    BY <2>1, <2>2, <2>3, <2>4 DEF FoundAt, HasSql
<1> QED
  BY <1>3, <1>7, <1>8

-----------------------------------------------------------------------------
(* One connection. *)

Tokens == {"chunked", "gzip", "json", "plain", "utf8", "latin1"}

Connections ==
  [step : Steps, request : Requests \cup {NoRequest}, sent : Nat,
   client : {"open", "finished", "gone"}, total : 0 .. HeaderLimit,
   got : 0 .. BodyLimit, seen : BOOLEAN, routed : BOOLEAN, executed : BOOLEAN,
   answer : Codes, out : 0 .. Whole, oom : BOOLEAN]

StrtokPositions ==
  [owner : Workers \cup {"none"}, header : {"coding", "type"},
   rest : Seq(Tokens), live : BOOLEAN]

\* Steps that follow each check of the request.
Executing == {"execute"}
Extracting == Executing \cup {"extract"}
JsonTyped == Extracting \cup {"typeNext"}
IsQuery == JsonTyped \cup {"type"}
Routing == IsQuery \cup {"route"}
Uncoded == Routing \cup {"length", "body"}
Formed == Uncoded \cup {"coding", "codingNext"}
HeadRead == Formed \cup {"parse"}

\* What each check has established of a connection that is past it.
ReadInv(c) ==
  /\ c.sent <= Size(c.request)
  /\ c.total + c.got <= c.sent
  /\ c.step = "header" => c.got = 0 /\ (c.request.ended => c.total < c.request.head)
  /\ c.step \in HeadRead =>
       c.request.ended /\ c.total = c.request.head /\ c.request.head <= HeaderLimit
  /\ c.step \in Formed => c.request.wellFormed
  /\ c.step \in {"parse", "coding", "codingNext", "length"} => c.got = 0
  /\ c.step = "coding" => c.request.coding # <<>>
  /\ c.step = "body" => c.request.length \in 1 .. BodyLimit /\ c.got < c.request.length
  /\ c.step \in Routing =>
       /\ c.request.length # Malformed /\ c.request.length <= BodyLimit
       /\ c.got = Wanted(c.request)
  /\ c.step \in IsQuery =>
       /\ c.request.path = "/query" /\ c.request.method = "POST"
       /\ c.request.length # Absent /\ c.request.type # <<>>
  /\ c.step \in JsonTyped => Head(c.request.type) = "json"
  /\ c.step \in Executing => IsObject(BodyOf(c.request)) /\ HasSql(BodyOf(c.request))

\* What is known of a request whose SQL is executed, however many workers
\* split headers at the time.
WholeQuery(r, n) ==
  /\ r.ended /\ r.wellFormed /\ r.head <= HeaderLimit
  /\ r.length \in 0 .. BodyLimit /\ r.head + r.length <= n
  /\ r.path = "/query" /\ r.method = "POST"
  /\ r.type # <<>> /\ Head(r.type) = "json"
  /\ IsObject(BodyOf(r)) /\ HasSql(BodyOf(r))

\* The response: how much of it is out.
AnswerInv(c) ==
  /\ c.step \notin {"send", "sendBody", "close"} => ~c.executed /\ ~c.oom
  /\ c.step # "sendBody" /\ c.step # "close" => c.out <= AnswerHead
  /\ c.executed => WholeQuery(c.request, c.sent)
  /\ c.step = "close" /\ c.client # "gone" /\ ~c.oom => c.out = Whole

ConnInv ==
  /\ served \in 0 .. MaxConnections
  /\ strtok \in StrtokPositions
  /\ conn \in [Workers -> Connections]
  /\ \A w \in Workers : ReadInv(conn[w]) /\ AnswerInv(conn[w])

\* The step sets, one in the next.
LEMMA StepSets ==
  /\ HeadRead = {"parse", "coding", "codingNext", "length", "body", "route", "type",
                 "typeNext", "extract", "execute"}
  /\ Formed = HeadRead \ {"parse"}
  /\ Uncoded = {"length", "body", "route", "type", "typeNext", "extract", "execute"}
  /\ Routing = {"route", "type", "typeNext", "extract", "execute"}
  /\ IsQuery = {"type", "typeNext", "extract", "execute"}
  /\ JsonTyped = {"typeNext", "extract", "execute"}
  /\ Extracting = {"extract", "execute"} /\ Executing = {"execute"}
BY DEF HeadRead, Formed, Uncoded, Routing, IsQuery, JsonTyped, Extracting, Executing

\* Every connection has a request as clients send them.
LEMMA RequestTypes ==
  ASSUME NEW r \in Requests \cup {NoRequest}
  PROVE  IsRequest(r) /\ Len(r.body) \in Nat
<1>1. IsRequest(NoRequest)
  BY DEF IsRequest, NoRequest, Absent, Malformed
<1>2. IsRequest(r)
  BY <1>1, RequestAssumption
<1> QED
  BY <1>2 DEF IsRequest

\* The numbers of a connection.
LEMMA ConnectionTypes ==
  ASSUME NEW c \in Connections
  PROVE  /\ IsRequest(c.request) /\ Len(c.request.body) \in Nat
         /\ c.request.head \in Nat /\ c.request.length \in Int
         /\ Size(c.request) \in Nat /\ c.sent \in Nat /\ c.total \in Nat
         /\ c.total <= HeaderLimit /\ c.got \in Nat /\ c.got <= BodyLimit
<1>1. c.request \in Requests \cup {NoRequest}
  BY DEF Connections
<1>2. IsRequest(c.request) /\ Len(c.request.body) \in Nat
  BY <1>1, RequestTypes
<1>3. c.request.head \in Nat /\ c.request.length \in Int
  BY <1>2 DEF IsRequest, Absent, Malformed
<1>4. c.sent \in Nat /\ c.total \in 0 .. HeaderLimit /\ c.got \in 0 .. BodyLimit
  BY DEF Connections
<1>5. Size(c.request) \in Nat
  BY <1>2, <1>3 DEF Size
<1> QED
  BY <1>2, <1>3, <1>4, <1>5, LimitAssumption

\* A step of worker w leaves it with a connection that has its invariant.
Keeps(w) ==
  \E c \in Connections : conn' = [conn EXCEPT ![w] = c] /\ ReadInv(c) /\ AnswerInv(c)

\* The worker refuses the request.
LEMMA AnswerKeeps ==
  ASSUME ConnInv, NEW w \in Workers, conn[w].step \in HeadRead \cup {"header"},
         NEW code \in Codes, Answer(w, code)
  PROVE  Keeps(w)
<1> DEFINE c == conn[w]
           d == [c EXCEPT !.step = "send", !.answer = code]
<1>1. c \in Connections /\ ReadInv(c) /\ AnswerInv(c)
  BY DEF ConnInv
<1>2. d \in Connections
  BY <1>1 DEF Connections, Steps
<1>3. conn' = [conn EXCEPT ![w] = d]
  BY <1>1 DEF Answer, Connections, ConnInv
<1>4. /\ d.step = "send" /\ d.request = c.request /\ d.sent = c.sent /\ d.total = c.total
      /\ d.got = c.got /\ d.executed = c.executed /\ d.out = c.out
  BY <1>1 DEF Connections
<1> HIDE DEF d
<1>5. ReadInv(d)
  BY <1>1, <1>4, StepSets DEF ReadInv
<1>6. AnswerInv(d)
  BY <1>1, <1>4, StepSets DEF AnswerInv
<1> QED
  BY <1>2, <1>3, <1>5, <1>6 DEF Keeps

\* The worker goes on to the next check, which needs what the last ones found.
LEMMA GotoKeeps ==
  ASSUME ConnInv, NEW w \in Workers, conn[w].step \in HeadRead, NEW next \in HeadRead,
         Goto(w, next), ReadInv([conn[w] EXCEPT !.step = next])
  PROVE  Keeps(w)
<1> DEFINE c == conn[w]
           d == [c EXCEPT !.step = next]
<1>1. c \in Connections /\ AnswerInv(c)
  BY DEF ConnInv
<1>2. d \in Connections
  BY <1>1, StepSets DEF Connections, Steps
<1>3. conn' = [conn EXCEPT ![w] = d]
  BY <1>1 DEF Goto, Connections, ConnInv
<1>4. /\ d.step = next /\ d.request = c.request /\ d.sent = c.sent
      /\ d.executed = c.executed /\ d.out = c.out /\ d.oom = c.oom
  BY <1>1 DEF Connections
<1>5. ReadInv(d)
  OBVIOUS
<1> HIDE DEF d
<1>6. AnswerInv(d)
  BY <1>1, <1>4, StepSets DEF AnswerInv
<1> QED
  BY <1>2, <1>3, <1>5, <1>6 DEF Keeps

\* The request has been read.
LEMMA ReadKeeps ==
  ASSUME ConnInv, NEW w \in Workers, conn[w].step \in {"length", "body"},
         NEW got \in 0 .. BodyLimit, Read(w, got),
         conn[w].request.length # Malformed, conn[w].request.length <= BodyLimit,
         got = Wanted(conn[w].request), conn[w].total + got <= conn[w].sent
  PROVE  Keeps(w)
<1> DEFINE c == conn[w]
           d == [c EXCEPT !.step = "route", !.routed = TRUE, !.got = got]
<1>1. c \in Connections /\ ReadInv(c) /\ AnswerInv(c)
  BY DEF ConnInv
<1>2. d \in Connections
  BY <1>1 DEF Connections, Steps
<1>3. conn' = [conn EXCEPT ![w] = d]
  BY <1>1 DEF Read, Connections, ConnInv
<1>4. /\ d.step = "route" /\ d.request = c.request /\ d.sent = c.sent /\ d.total = c.total
      /\ d.got = got /\ d.executed = c.executed /\ d.out = c.out /\ d.oom = c.oom
  BY <1>1 DEF Connections
<1> HIDE DEF d
<1>5. ReadInv(d)
  BY <1>1, <1>4, StepSets DEF ReadInv
<1>6. AnswerInv(d)
  BY <1>1, <1>4, StepSets DEF AnswerInv
<1> QED
  BY <1>2, <1>3, <1>5, <1>6 DEF Keeps

\* What more the client sends does not make a whole query less whole.
LEMMA WholeQueryLater ==
  ASSUME NEW r, r.head \in Nat, NEW n \in Nat, NEW m \in Nat, n <= m, WholeQuery(r, n)
  PROVE  WholeQuery(r, m)
<1>1. r.length \in Nat /\ r.head + r.length <= n
  BY LimitAssumption DEF WholeQuery
<1>2. r.head + r.length <= m
  BY <1>1
<1> QED
  BY <1>2 DEF WholeQuery

\* The client and the connection.
LEMMA ClientKeeps ==
  ASSUME ConnInv, NEW w \in Workers,
         Connect(w) \/ ClientStep(w) \/ ClientLeave(w) \/ CloseClient(w)
  PROVE  Keeps(w)
<1> DEFINE c == conn[w]
<1>1. c \in Connections /\ ReadInv(c) /\ AnswerInv(c)
  BY DEF ConnInv
<1>2. \A r \in Requests \cup {NoRequest} : IsRequest(r) /\ Size(r) \in Nat
  BY RequestTypes DEF Size, IsRequest
<1>3. ASSUME NEW r \in Requests \cup {NoRequest}, NEW step \in {"idle", "header"},
             conn' = [conn EXCEPT ![w] = Fresh(step, r)]
      PROVE  Keeps(w)
  <2> DEFINE d == Fresh(step, r)
  <2>1. d \in Connections
    BY <1>1, LimitAssumption DEF Connections, Fresh, Steps, Codes, Whole, AnswerHead, AnswerBody
  <2>2. /\ d.step = step /\ d.request = r /\ d.sent = 0 /\ d.total = 0 /\ d.got = 0
        /\ d.executed = FALSE /\ d.out = 0 /\ d.oom = FALSE
    BY DEF Fresh
  <2> HIDE DEF d
  <2>3. ReadInv(d)
    BY <1>2, <2>2, StepSets DEF ReadInv, IsRequest
  <2>4. AnswerInv(d)
    BY <2>2, StepSets DEF AnswerInv, AnswerHead
  <2> QED
    BY <1>3, <2>1, <2>3, <2>4 DEF Keeps, d
<1>4. CASE Connect(w)
  BY <1>3, <1>4 DEF Connect
<1>5. CASE CloseClient(w)
  BY <1>3, <1>5 DEF CloseClient
<1>6. CASE ClientSend(w)
  <2> DEFINE d == [c EXCEPT !.sent = @ + 1]
  <2>1. d \in Connections
    BY <1>1 DEF Connections
  <2>2. conn' = [conn EXCEPT ![w] = d]
    BY <1>1, <1>6 DEF ClientSend, Connections, ConnInv
  <2>3. /\ d.step = c.step /\ d.request = c.request /\ d.sent = c.sent + 1
        /\ d.total = c.total /\ d.got = c.got /\ d.executed = c.executed
        /\ d.out = c.out /\ d.oom = c.oom /\ d.client = c.client
    BY <1>1 DEF Connections
  <2>4. /\ c.sent < Size(c.request) /\ Size(c.request) \in Nat /\ c.sent \in Nat
        /\ c.total \in Nat /\ c.got \in Nat /\ IsRequest(c.request)
    BY <1>1, <1>2, <1>6, LimitAssumption DEF ClientSend, Connections
  <2> HIDE DEF d
  <2>5. ReadInv(d)
    BY <1>1, <2>3, <2>4 DEF ReadInv
  <2>6. WholeQuery(c.request, c.sent) => WholeQuery(d.request, d.sent)
    BY <2>3, <2>4, WholeQueryLater DEF IsRequest
  <2>7. AnswerInv(d)
    BY <1>1, <2>3, <2>6 DEF AnswerInv
  <2> QED
    BY <2>1, <2>2, <2>5, <2>7 DEF Keeps
<1>7. ASSUME NEW client \in {"finished", "gone"}, c.client # "gone",
             conn' = [conn EXCEPT ![w].client = client]
      PROVE  Keeps(w)
  <2> DEFINE d == [c EXCEPT !.client = client]
  <2>1. d \in Connections
    BY <1>1 DEF Connections
  <2>2. conn' = [conn EXCEPT ![w] = d]
    BY <1>1, <1>7 DEF Connections, ConnInv
  <2>3. /\ d.step = c.step /\ d.request = c.request /\ d.sent = c.sent
        /\ d.total = c.total /\ d.got = c.got /\ d.executed = c.executed
        /\ d.out = c.out /\ d.oom = c.oom
    BY <1>1 DEF Connections
  <2> HIDE DEF d
  <2>4. ReadInv(d)
    BY <1>1, <2>3 DEF ReadInv
  <2>5. AnswerInv(d)
    BY <1>1, <1>7, <2>3 DEF AnswerInv
  <2> QED
    BY <2>1, <2>2, <2>4, <2>5 DEF Keeps
<1>8. CASE ClientFinish(w)
  BY <1>7, <1>8 DEF ClientFinish
<1>9. CASE ClientLeave(w)
  BY <1>7, <1>9 DEF ClientLeave
<1> QED
  BY <1>4, <1>5, <1>6, <1>8, <1>9 DEF ClientStep

\* Reading and parsing the header section.
LEMMA HeaderKeeps ==
  ASSUME ConnInv, NEW w \in Workers,
         \/ RecvHeaderByte(w) \/ RecvHeaderEnds(w) \/ HeaderTooLarge(w)
         \/ ParseHeader(w) \/ CodingFirst(w)
  PROVE  Keeps(w)
<1> DEFINE c == conn[w]
<1>1. c \in Connections /\ ReadInv(c) /\ AnswerInv(c)
  BY DEF ConnInv
<1>2. /\ IsRequest(c.request) /\ c.request.head \in Nat /\ c.sent \in Nat
      /\ c.total \in Nat /\ c.total <= HeaderLimit /\ c.got \in Nat
  BY <1>1, ConnectionTypes
<1>3. {"INVALID_CONTENT_LENGTH", "HEADER_TOO_LARGE", "CHUNKED_NOT_SUPPORTED"} \subseteq Codes
  BY DEF Codes
<1>4. CASE RecvHeaderByte(w)
  <2> DEFINE complete == c.request.ended /\ c.total + 1 = c.request.head
             next == IF complete THEN "parse" ELSE c.step
             d == [c EXCEPT !.total = @ + 1, !.step = next]
  <2>1. c.step = "header" /\ c.total < HeaderLimit /\ c.sent - c.total - c.got > 0
    BY <1>4 DEF RecvHeaderByte, Local, HeaderRoom, Unread
  <2>2. d \in Connections
    <3>1. next \in Steps /\ c.total + 1 \in 0 .. HeaderLimit
      BY <1>2, <2>1, LimitAssumption DEF Steps
    <3> HIDE DEF next
    <3> QED
      BY <1>1, <3>1 DEF Connections
  <2>3. conn' = [conn EXCEPT ![w] = d]
    BY <1>1, <1>4 DEF RecvHeaderByte, Connections, ConnInv
  <2>4. /\ d.step = (IF complete THEN "parse" ELSE "header") /\ d.request = c.request
        /\ d.sent = c.sent /\ d.total = c.total + 1 /\ d.got = c.got
        /\ d.executed = c.executed /\ d.out = c.out /\ d.oom = c.oom
    BY <1>1, <2>1 DEF Connections
  <2> HIDE DEF d
  <2>5. ReadInv(d)
    BY <1>1, <1>2, <2>1, <2>4, StepSets, LimitAssumption DEF ReadInv
  <2>6. AnswerInv(d)
    BY <1>1, <2>1, <2>4, StepSets DEF AnswerInv
  <2> QED
    BY <2>2, <2>3, <2>5, <2>6 DEF Keeps
<1>5. CASE RecvHeaderEnds(w) \/ HeaderTooLarge(w)
  BY <1>3, <1>5, AnswerKeeps DEF RecvHeaderEnds, HeaderTooLarge, Local
<1>6. CASE ParseHeader(w)
  <2>1. c.step = "parse"
    BY <1>6 DEF ParseHeader, Local
  <2>2. CASE ~c.request.wellFormed
    BY <1>3, <1>6, <2>1, <2>2, StepSets, AnswerKeeps DEF ParseHeader
  <2>3. CASE c.request.wellFormed
    <3> DEFINE next == IF c.request.coding = <<>> THEN "length" ELSE "coding"
               d == [c EXCEPT !.step = next]
    <3>1. Goto(w, next) /\ next \in HeadRead
      BY <1>6, <2>3, StepSets DEF ParseHeader
    <3>2. /\ d.step = next /\ d.request = c.request /\ d.sent = c.sent
          /\ d.total = c.total /\ d.got = c.got
      BY <1>1 DEF Connections
    <3> HIDE DEF d
    <3>3. ReadInv(d)
      BY <1>1, <2>1, <2>3, <3>2, StepSets DEF ReadInv
    <3> HIDE DEF next
    <3> QED
      BY <2>1, <3>1, <3>3, StepSets, GotoKeeps DEF d
  <2> QED
    BY <2>2, <2>3
<1>7. CASE CodingFirst(w)
  <2>1. c.step = "coding"
    BY <1>7 DEF CodingFirst
  <2>2. CASE Answer(w, "CHUNKED_NOT_SUPPORTED")
    BY <1>3, <2>1, <2>2, StepSets, AnswerKeeps
  <2>3. CASE Goto(w, "codingNext")
    <3> DEFINE d == [c EXCEPT !.step = "codingNext"]
    <3>1. /\ d.step = "codingNext" /\ d.request = c.request /\ d.sent = c.sent
          /\ d.total = c.total /\ d.got = c.got
      BY <1>1 DEF Connections
    <3> HIDE DEF d
    <3>2. ReadInv(d)
      BY <1>1, <2>1, <3>1, StepSets DEF ReadInv
    <3> QED
      BY <2>1, <2>3, <3>2, StepSets, GotoKeeps DEF d
  <2> QED
    BY <1>7, <2>2, <2>3 DEF CodingFirst
<1> QED
  BY <1>4, <1>5, <1>6, <1>7

\* The bytes of the body that have been read are the body the reference sees.
LEMMA BodyRead ==
  ASSUME NEW c \in Connections, ReadInv(c), c.step \in Routing
  PROVE  /\ SubSeq(c.request.body, 1, c.got) = BodyOf(c.request)
         /\ BodyOf(c.request) \in Seq(JsonTokens)
<1> DEFINE r == c.request
<1>1. /\ IsRequest(r) /\ Len(r.body) \in Nat /\ r.body \in Seq(JsonTokens)
      /\ r.head \in Nat /\ c.got \in Nat
  BY RequestTypes, LimitAssumption DEF Connections, IsRequest
<1>2. c.got = Wanted(r) /\ c.total = r.head
  BY StepSets DEF ReadInv
<1>3. c.got <= Len(r.body)
  <2>1. c.sent <= r.head + Len(r.body) /\ r.head + c.got <= c.sent /\ c.sent \in Nat
    BY <1>2 DEF ReadInv, Size, Connections
  <2> QED
    BY <1>1, <2>1
<1>4. SubSeq(r.body, 1, c.got) = BodyOf(r)
  BY <1>1, <1>2, <1>3 DEF BodyOf
<1>5. SubSeq(r.body, 1, c.got) \in Seq(JsonTokens)
  BY <1>1, <1>3
<1> QED
  BY <1>4, <1>5

\* The other headers and the body.
LEMMA BodyKeeps ==
  ASSUME ConnInv, NEW w \in Workers,
         CodingNext(w) \/ CheckLength(w) \/ RecvBody(w) \/ RecvBodyEnds(w)
  PROVE  Keeps(w)
<1> DEFINE c == conn[w]
           r == c.request
<1>1. c \in Connections /\ ReadInv(c) /\ AnswerInv(c)
  BY DEF ConnInv
<1>2. /\ IsRequest(r) /\ c.sent \in Nat /\ c.total \in Nat /\ c.got \in Nat
      /\ r.length \in Int
  BY <1>1, ConnectionTypes
<1>3. {"INVALID_CONTENT_LENGTH", "PAYLOAD_TOO_LARGE", "CHUNKED_NOT_SUPPORTED"} \subseteq Codes
  BY DEF Codes
<1>4. ASSUME NEW next \in {"length", "body"}, Goto(w, next),
             c.step \in {"codingNext", "length"},
             next = "body" => r.length \in 1 .. BodyLimit
      PROVE  Keeps(w)
  <2> DEFINE d == [c EXCEPT !.step = next]
  <2>1. /\ d.step = next /\ d.request = c.request /\ d.sent = c.sent
        /\ d.total = c.total /\ d.got = c.got
    BY <1>1 DEF Connections
  <2> HIDE DEF d
  <2>2. ReadInv(d)
    BY <1>1, <1>4, <2>1, StepSets DEF ReadInv
  <2> QED
    BY <1>4, <2>2, StepSets, GotoKeeps DEF d
<1>5. CASE CodingNext(w)
  <2>1. c.step = "codingNext"
    BY <1>5 DEF CodingNext
  <2>2. CASE Answer(w, "CHUNKED_NOT_SUPPORTED")
    BY <1>3, <2>1, <2>2, StepSets, AnswerKeeps
  <2>3. CASE Goto(w, "length")
    BY <1>4, <2>1, <2>3
  <2>4. CASE UNCHANGED conn
    BY <1>1, <2>4 DEF Keeps, ConnInv
  <2> QED
    BY <1>5, <2>2, <2>3, <2>4 DEF CodingNext
<1>6. CASE CheckLength(w)
  <2>1. c.step = "length" /\ c.got = 0 /\ c.total <= c.sent
    BY <1>1, <1>2, <1>6 DEF CheckLength, Local, ReadInv
  <2>2. CASE r.length = Malformed
    BY <1>3, <1>6, <2>1, <2>2, StepSets, AnswerKeeps DEF CheckLength
  <2>3. CASE r.length \in {Absent, 0}
    <3>1. Read(w, 0) /\ r.length # Malformed /\ r.length <= BodyLimit /\ Wanted(r) = 0
      BY <1>6, <2>3, LimitAssumption DEF CheckLength, Absent, Malformed, Wanted
    <3>2. 0 \in 0 .. BodyLimit /\ c.total + 0 <= c.sent
      BY <1>2, <2>1, LimitAssumption
    <3> QED
      BY <2>1, <3>1, <3>2, ReadKeeps
  <2>4. CASE r.length \notin {Malformed, Absent, 0} /\ ~BodyFits(r)
    BY <1>3, <1>6, <2>1, <2>4, StepSets, AnswerKeeps DEF CheckLength
  <2>5. CASE r.length \notin {Malformed, Absent, 0} /\ BodyFits(r)
    <3>1. Goto(w, "body")
      BY <1>6, <2>5 DEF CheckLength
    <3>2. r.length \in 1 .. BodyLimit
      BY <1>2, <2>5, LimitAssumption DEF BodyFits, Absent, Malformed, IsRequest
    <3> QED
      BY <1>4, <2>1, <3>1, <3>2
  <2> QED
    BY <2>2, <2>3, <2>4, <2>5
<1>7. CASE RecvBody(w)
  <2>1. PICK n \in 1 .. Unread(c) :
          /\ c.got + n <= r.length
          /\ IF c.got + n = r.length THEN Read(w, c.got + n)
             ELSE conn' = [conn EXCEPT ![w].got = c.got + n]
    BY <1>7 DEF RecvBody
  <2> DEFINE got == c.got + n
  <2>2. /\ c.step = "body" /\ r.length \in 1 .. BodyLimit /\ n \in Nat
        /\ got \in 0 .. BodyLimit /\ c.total + got <= c.sent
    BY <1>1, <1>2, <1>7, <2>1, StepSets, LimitAssumption DEF RecvBody, Local, ReadInv, Unread
  <2>3. CASE got = r.length
    <3>1. got = Wanted(r) /\ r.length # Malformed /\ r.length <= BodyLimit
      BY <2>2, <2>3 DEF Wanted, Malformed
    <3> QED
      BY <2>1, <2>2, <2>3, <3>1, ReadKeeps
  <2>4. CASE got # r.length
    <3> DEFINE d == [c EXCEPT !.got = got]
    <3>1. d \in Connections
      BY <1>1, <2>2 DEF Connections
    <3>2. conn' = [conn EXCEPT ![w] = d]
      BY <1>1, <2>1, <2>4 DEF Connections, ConnInv
    <3>3. /\ d.step = c.step /\ d.request = c.request /\ d.sent = c.sent
          /\ d.total = c.total /\ d.got = got /\ d.executed = c.executed
          /\ d.out = c.out /\ d.oom = c.oom
      BY <1>1 DEF Connections
    <3>4. got < r.length
      BY <1>2, <2>1, <2>2, <2>4
    <3> HIDE DEF d, got
    <3>5. ReadInv(d)
      BY <1>1, <2>2, <3>3, <3>4, StepSets DEF ReadInv
    <3>6. AnswerInv(d)
      BY <1>1, <2>2, <3>3 DEF AnswerInv
    <3> QED
      BY <3>1, <3>2, <3>5, <3>6 DEF Keeps
  <2> QED
    BY <2>3, <2>4
<1>8. CASE RecvBodyEnds(w)
  BY <1>3, <1>8, StepSets, AnswerKeeps DEF RecvBodyEnds, Local
<1> QED
  BY <1>5, <1>6, <1>7, <1>8

\* The router and the handlers.
LEMMA HandlerKeeps ==
  ASSUME ConnInv, NEW w \in Workers,
         Route(w) \/ TypeFirst(w) \/ TypeNext(w) \/ Extract(w) \/ Execute(w)
  PROVE  Keeps(w)
<1> DEFINE c == conn[w]
           r == c.request
<1>1. c \in Connections /\ ReadInv(c) /\ AnswerInv(c)
  BY DEF ConnInv
<1>2. /\ IsRequest(r) /\ c.sent \in Nat /\ c.total \in Nat /\ c.got \in Nat
      /\ r.length \in Int
  BY <1>1, ConnectionTypes
<1>3. {"NOT_FOUND", "METHOD_NOT_ALLOWED", "INVALID_JSON", "NONE", "INVALID_CONTENT_TYPE",
       "CONTENT_LENGTH_REQUIRED", "MISSING_SQL_FIELD"} \subseteq Codes
  BY DEF Codes
<1>4. ASSUME NEW code \in {"NOT_FOUND", "METHOD_NOT_ALLOWED", "INVALID_JSON", "NONE",
                           "INVALID_CONTENT_TYPE", "CONTENT_LENGTH_REQUIRED",
                           "MISSING_SQL_FIELD"},
             Answer(w, code), c.step \in Routing
      PROVE  Keeps(w)
  BY <1>3, <1>4, StepSets, AnswerKeeps
<1>5. ASSUME NEW next \in {"type", "typeNext", "extract", "execute"}, Goto(w, next),
             c.step \in Routing,
             c.step = "route" =>
               /\ next = "type" /\ r.path = "/query" /\ r.method = "POST"
               /\ r.length # Absent /\ r.type # <<>>,
             c.step = "type" => next = "typeNext" /\ Head(r.type) = "json",
             c.step = "typeNext" => next \in {"typeNext", "extract"},
             c.step \in Extracting =>
               next = "execute" /\ IsObject(BodyOf(r)) /\ HasSql(BodyOf(r))
      PROVE  Keeps(w)
  <2> DEFINE d == [c EXCEPT !.step = next]
  <2>1. /\ d.step = next /\ d.request = c.request /\ d.sent = c.sent
        /\ d.total = c.total /\ d.got = c.got
    BY <1>1 DEF Connections
  <2> HIDE DEF d
  <2>2. ReadInv(d)
    BY <1>1, <1>5, <2>1, StepSets DEF ReadInv
  <2> QED
    BY <1>5, <2>2, StepSets, GotoKeeps DEF d
<1>6. CASE Route(w)
  <2>1. c.step = "route"
    BY <1>6 DEF Route, Local
  <2>2. CASE r.path = "/other" \/ r.method # MethodOf(r.path)
    BY <1>4, <1>6, <2>1, <2>2, StepSets DEF Route
  <2>3. CASE r.path # "/other" /\ r.method = MethodOf(r.path) /\ r.path = "/query"
    <3>1. HandleQuery(w) /\ r.method = "POST"
      BY <1>6, <2>3 DEF Route, MethodOf
    <3>2. CASE r.length = Absent \/ r.type = <<>>
      BY <1>4, <2>1, <3>1, <3>2, StepSets DEF HandleQuery
    <3>3. CASE r.length # Absent /\ r.type # <<>>
      BY <1>5, <2>1, <2>3, <3>1, <3>3, StepSets DEF HandleQuery
    <3> QED
      BY <3>2, <3>3
  <2>4. CASE r.path # "/other" /\ r.method = MethodOf(r.path) /\ r.path # "/query"
    BY <1>4, <1>6, <2>1, <2>4, StepSets DEF Route, HandleGet
  <2> QED
    BY <2>2, <2>3, <2>4
<1>7. CASE TypeFirst(w)
  <2>1. c.step = "type"
    BY <1>7 DEF TypeFirst
  <2>2. CASE Head(r.type) = "json"
    BY <1>5, <1>7, <2>1, <2>2, StepSets DEF TypeFirst
  <2>3. CASE Head(r.type) # "json"
    BY <1>4, <1>7, <2>1, <2>3, StepSets DEF TypeFirst
  <2> QED
    BY <2>2, <2>3
<1>8. CASE TypeNext(w)
  <2>1. c.step = "typeNext"
    BY <1>8 DEF TypeNext
  <2>2. CASE Goto(w, "extract")
    BY <1>5, <2>1, <2>2, StepSets
  <2>3. CASE Answer(w, "INVALID_CONTENT_TYPE")
    BY <1>4, <2>1, <2>3, StepSets
  <2>4. CASE conn' = [conn EXCEPT ![w].seen = TRUE]
    <3> DEFINE d == [c EXCEPT !.seen = TRUE]
    <3>1. d \in Connections
      BY <1>1 DEF Connections
    <3>2. conn' = [conn EXCEPT ![w] = d]
      BY <1>1, <2>4 DEF Connections, ConnInv
    <3>3. /\ d.step = c.step /\ d.request = c.request /\ d.sent = c.sent
          /\ d.total = c.total /\ d.got = c.got /\ d.executed = c.executed
          /\ d.out = c.out /\ d.oom = c.oom
      BY <1>1 DEF Connections
    <3> HIDE DEF d
    <3>4. ReadInv(d)
      BY <1>1, <3>3 DEF ReadInv
    <3>5. AnswerInv(d)
      BY <1>1, <2>1, <3>3 DEF AnswerInv
    <3> QED
      BY <3>1, <3>2, <3>4, <3>5 DEF Keeps
  <2> QED
    BY <1>8, <2>2, <2>3, <2>4 DEF TypeNext
<1>9. CASE Extract(w)
  <2>1. c.step = "extract"
    BY <1>9 DEF Extract, Local
  <2>2. ExtractSqlField(SubSeq(r.body, 1, c.got)) =
          IF ~IsObject(BodyOf(r)) THEN "INVALID_JSON"
          ELSE IF ~HasSql(BodyOf(r)) THEN "MISSING_SQL_FIELD" ELSE "NONE"
    BY <1>1, <2>1, StepSets, BodyRead, ExtractIsExact
  <2>3. CASE IsObject(BodyOf(r)) /\ HasSql(BodyOf(r))
    <3>1. Goto(w, "execute")
      BY <1>9, <2>2, <2>3 DEF Extract
    <3> QED
      BY <1>5, <2>1, <2>3, <3>1, StepSets
  <2>4. CASE ~(IsObject(BodyOf(r)) /\ HasSql(BodyOf(r)))
    <3>1. Answer(w, "INVALID_JSON") \/ Answer(w, "MISSING_SQL_FIELD")
      BY <1>9, <2>2, <2>4 DEF Extract
    <3> QED
      BY <1>4, <2>1, <3>1, StepSets
  <2> QED
    BY <2>3, <2>4
<1>10. CASE Execute(w)
  <2>1. PICK result \in EngineResults :
          conn' = [conn EXCEPT ![w].step = "send", ![w].answer = result,
                               ![w].executed = TRUE]
    BY <1>10 DEF Execute
  <2> DEFINE d == [c EXCEPT !.step = "send", !.answer = result, !.executed = TRUE]
  <2>2. result \in Codes
    BY DEF EngineResults, Codes
  <2>3. d \in Connections
    BY <1>1, <2>2 DEF Connections, Steps
  <2>4. conn' = [conn EXCEPT ![w] = d]
    BY <1>1, <2>1 DEF Connections, ConnInv
  <2>5. /\ d.step = "send" /\ d.request = c.request /\ d.sent = c.sent
        /\ d.total = c.total /\ d.got = c.got /\ d.out = c.out
    BY <1>1 DEF Connections
  <2> HIDE DEF d
  <2>6. ReadInv(d)
    BY <1>1, <2>5, StepSets DEF ReadInv
  <2>7. c.step = "execute"
    BY <1>10 DEF Execute, Local
  <2>8. r.length \in 0 .. BodyLimit /\ r.head + r.length <= c.sent
    BY <1>1, <1>2, <2>7, StepSets, LimitAssumption
       DEF ReadInv, Wanted, IsRequest, Absent, Malformed
  <2>9. WholeQuery(d.request, d.sent)
    BY <1>1, <2>5, <2>7, <2>8, StepSets DEF WholeQuery, ReadInv
  <2>10. AnswerInv(d)
    BY <1>1, <2>5, <2>7, <2>9 DEF AnswerInv
  <2> QED
    BY <2>3, <2>4, <2>6, <2>10 DEF Keeps
<1> QED
  BY <1>6, <1>7, <1>8, <1>9, <1>10

\* Memory and the response.
LEMMA ResponseKeeps ==
  ASSUME ConnInv, NEW w \in Workers,
         \/ OutOfMemory(w) \/ ResponseOutOfMemory(w)
         \/ SendHead(w) \/ SendBody(w) \/ SendFails(w)
  PROVE  Keeps(w)
<1> DEFINE c == conn[w]
<1>1. c \in Connections /\ ReadInv(c) /\ AnswerInv(c)
  BY DEF ConnInv
<1>2. ASSUME NEW step \in {"send", "sendBody", "close"}, NEW code \in Codes,
             NEW out \in 0 .. Whole, NEW oom \in BOOLEAN,
             conn' = [conn EXCEPT ![w] = [c EXCEPT !.step = step, !.answer = code,
                                                   !.out = out, !.oom = oom]],
             step = "send" => out <= AnswerHead,
             step = "close" /\ c.client # "gone" /\ ~oom => out = Whole
      PROVE  Keeps(w)
  <2> DEFINE d == [c EXCEPT !.step = step, !.answer = code, !.out = out, !.oom = oom]
  <2>1. d \in Connections
    BY <1>1 DEF Connections, Steps
  <2>2. /\ d.step = step /\ d.request = c.request /\ d.sent = c.sent
        /\ d.total = c.total /\ d.got = c.got /\ d.executed = c.executed
        /\ d.out = out /\ d.oom = oom /\ d.client = c.client
    BY <1>1 DEF Connections
  <2> HIDE DEF d
  <2>3. ReadInv(d)
    BY <1>1, <2>2, StepSets DEF ReadInv
  <2>4. AnswerInv(d)
    BY <1>1, <1>2, <2>2 DEF AnswerInv
  <2> QED
    BY <1>2, <2>1, <2>3, <2>4 DEF Keeps, d
<1>3. /\ c.answer \in Codes /\ c.out \in 0 .. Whole /\ c.oom \in BOOLEAN
      /\ {"INTERNAL_ERROR", "INVALID_CONTENT_TYPE", "INVALID_JSON"} \subseteq Codes
  BY <1>1 DEF Connections, Codes
<1>4. CASE OutOfMemory(w)
  <2>1. PICK code \in MemoryErrors(c) :
          conn' = [conn EXCEPT ![w].step = "send", ![w].answer = code, ![w].oom = TRUE]
    BY <1>4 DEF OutOfMemory
  <2>2. code \in {"INTERNAL_ERROR", "INVALID_CONTENT_TYPE", "INVALID_JSON"}
        /\ c.step \notin {"sendBody", "close"}
    BY DEF MemoryErrors
  <2>3. conn' = [conn EXCEPT ![w] = [c EXCEPT !.step = "send", !.answer = code,
                                              !.out = c.out, !.oom = TRUE]]
    BY <1>1, <2>1 DEF Connections, ConnInv
  <2>4. c.out <= AnswerHead
    BY <1>1, <2>2 DEF AnswerInv
  <2> QED
    BY <1>2, <1>3, <2>2, <2>3, <2>4
<1>5. CASE ResponseOutOfMemory(w)
  <2>1. c.step = "send" /\ c.out <= AnswerHead
    BY <1>1, <1>5 DEF ResponseOutOfMemory, Local, AnswerInv
  <2>2. CASE conn' = [conn EXCEPT ![w].answer = "INTERNAL_ERROR", ![w].oom = TRUE]
    <3>1. conn' = [conn EXCEPT ![w] = [c EXCEPT !.step = "send", !.answer = "INTERNAL_ERROR",
                                                !.out = c.out, !.oom = TRUE]]
      BY <1>1, <2>1, <2>2 DEF Connections, ConnInv
    <3> QED
      BY <1>2, <1>3, <2>1, <3>1
  <2>3. CASE conn' = [conn EXCEPT ![w].step = "close", ![w].oom = TRUE]
    <3>1. conn' = [conn EXCEPT ![w] = [c EXCEPT !.step = "close", !.answer = c.answer,
                                                !.out = c.out, !.oom = TRUE]]
      BY <1>1, <2>3 DEF Connections, ConnInv
    <3> QED
      BY <1>2, <1>3, <3>1
  <2> QED
    BY <1>5, <2>2, <2>3 DEF ResponseOutOfMemory
<1>6. ASSUME NEW end \in {AnswerHead, Whole}, NEW next \in {"sendBody", "close"},
             c.step \in {"send", "sendBody"}, SendPart(w, end, next),
             c.step = "send" => end = AnswerHead,
             next = "close" => end = Whole
      PROVE  Keeps(w)
  <2>1. PICK out \in c.out + 1 .. end :
          conn' = [conn EXCEPT ![w].out = out,
                               ![w].step = IF PartSent(out, end) THEN next ELSE @]
    BY <1>6 DEF SendPart
  <2> DEFINE step == IF PartSent(out, end) THEN next ELSE c.step
  <2>2. conn' = [conn EXCEPT ![w] = [c EXCEPT !.step = step, !.answer = c.answer,
                                              !.out = out, !.oom = c.oom]]
    BY <1>1, <2>1 DEF Connections, ConnInv
  <2>3. out \in 0 .. Whole /\ out <= end /\ step \in {"send", "sendBody", "close"}
    BY <1>3, <1>6 DEF Whole, AnswerHead, AnswerBody
  <2>4. (step = "send" => out <= AnswerHead) /\ (step = "close" => out = Whole)
    BY <1>6, <2>3 DEF PartSent
  <2> HIDE DEF step
  <2> QED
    BY <1>2, <1>3, <2>2, <2>3, <2>4
<1>7. CASE SendHead(w)
  BY <1>6, <1>7 DEF SendHead, Local
<1>8. CASE SendBody(w)
  BY <1>6, <1>8 DEF SendBody, Local
<1>9. CASE SendFails(w)
  <2>1. conn' = [conn EXCEPT ![w] = [c EXCEPT !.step = "close", !.answer = c.answer,
                                              !.out = c.out, !.oom = c.oom]]
    BY <1>1, <1>9 DEF SendFails, Goto, Connections, ConnInv
  <2> QED
    BY <1>2, <1>3, <1>9, <2>1 DEF SendFails
<1> QED
  BY <1>4, <1>5, <1>7, <1>8, <1>9

\* strtok keeps to tokens of headers.
LEMMA StrtokTypes ==
  ASSUME ConnInv, NEW w \in Workers, WorkerStep(w)
  PROVE  strtok' \in StrtokPositions
<1>1. strtok \in StrtokPositions
  BY DEF ConnInv
<1>2. conn[w] \in Connections /\ ReadInv(conn[w])
  BY DEF ConnInv
<1>3. /\ conn[w].request.coding \in Seq(Tokens) /\ conn[w].request.type \in Seq(Tokens)
  <2>1. IsRequest(conn[w].request)
    BY <1>2, ConnectionTypes
  <2> QED
    BY <2>1 DEF IsRequest, Tokens
<1>4. ASSUME NEW header \in {"coding", "type"}, NEW freed \in BOOLEAN,
             StrtokNext(w, header, freed)
      PROVE  strtok' \in StrtokPositions
  <2> DEFINE rest == IF strtok.rest = <<>> \/ strtok.header # header THEN <<>>
                     ELSE Tail(strtok.rest)
             live == strtok.live /\ ~(freed /\ strtok.owner = w)
  <2>1. rest \in Seq(Tokens)
    BY <1>1 DEF StrtokPositions
  <2>2. live \in BOOLEAN
    OBVIOUS
  <2>3. strtok' = [strtok EXCEPT !.rest = rest, !.live = live]
    BY <1>1, <1>4 DEF StrtokNext, StrtokPositions
  <2> HIDE DEF rest, live
  <2> QED
    BY <1>1, <2>1, <2>2, <2>3 DEF StrtokPositions
<1>5. CASE CodingFirst(w)
  <2>1. conn[w].request.coding # <<>>
    BY <1>2, <1>5 DEF CodingFirst, ReadInv
  <2>2. Tail(conn[w].request.coding) \in Seq(Tokens)
    BY <1>3, <2>1
  <2> QED
    BY <1>5, <2>2 DEF CodingFirst, StrtokFirst, StrtokPositions
<1>6. CASE TypeFirst(w)
  <2>1. conn[w].request.type # <<>>
    BY <1>2, <1>6, StepSets DEF TypeFirst, ReadInv
  <2>2. Tail(conn[w].request.type) \in Seq(Tokens)
    BY <1>3, <2>1
  <2> QED
    BY <1>6, <2>2 DEF TypeFirst, StrtokFirst, StrtokPositions
<1>7. CASE CodingNext(w)
  BY <1>4, <1>7 DEF CodingNext
<1>8. CASE TypeNext(w)
  BY <1>4, <1>8 DEF TypeNext
<1>9. CASE UNCHANGED strtok
  BY <1>1, <1>9
<1> QED
  BY <1>5, <1>6, <1>7, <1>8, <1>9
     DEF WorkerStep, Local, RecvHeaderByte, RecvHeaderEnds, HeaderTooLarge, ParseHeader,
         CheckLength, RecvBody, RecvBodyEnds, Route, Extract, Execute, OutOfMemory,
         ResponseOutOfMemory, SendHead, SendBody, SendFails, CloseClient

\* No step of a worker breaks the invariant of its own connection.
LEMMA WorkerKeeps ==
  ASSUME ConnInv, NEW w \in Workers, WorkerStep(w)
  PROVE  Keeps(w) /\ UNCHANGED served
<1>1. Keeps(w)
  BY ClientKeeps, HeaderKeeps, BodyKeeps, HandlerKeeps, ResponseKeeps DEF WorkerStep
<1>2. UNCHANGED served
  BY DEF WorkerStep, Local, RecvHeaderByte, RecvHeaderEnds, HeaderTooLarge, ParseHeader,
         CheckLength, RecvBody, RecvBodyEnds, Route, Extract, Execute, OutOfMemory,
         ResponseOutOfMemory, SendHead, SendBody, SendFails, CloseClient,
         CodingFirst, CodingNext, TypeFirst, TypeNext
<1> QED
  BY <1>1, <1>2

\* An idle connection satisfies the invariant.
LEMMA ConnInit == Init => ConnInv
<1> SUFFICES ASSUME Init PROVE ConnInv
  OBVIOUS
<1> DEFINE c == Fresh("idle", NoRequest)
<1>1. c \in Connections
  BY LimitAssumption
     DEF Connections, Fresh, Steps, Codes, Whole, AnswerHead, AnswerBody
<1>2. /\ c.step = "idle" /\ c.request = NoRequest /\ c.sent = 0 /\ c.total = 0 /\ c.got = 0
      /\ c.executed = FALSE /\ c.out = 0 /\ c.oom = FALSE
  BY DEF Fresh
<1>3. conn = [w \in Workers |-> c]
  BY DEF Init
<1> HIDE DEF c
<1>4. ReadInv(c)
  <2>1. Size(NoRequest) = 1
    BY DEF Size, NoRequest
  <2> QED
    BY <1>2, <2>1, StepSets DEF ReadInv
<1>5. AnswerInv(c)
  BY <1>2 DEF AnswerInv, AnswerHead
<1>6. strtok \in StrtokPositions /\ served \in 0 .. MaxConnections
  BY LimitAssumption DEF Init, NoPosition, StrtokPositions
<1> QED
  BY <1>1, <1>3, <1>4, <1>5, <1>6 DEF ConnInv

\* A step changes one connection, so the invariant of the others stays.
LEMMA ConnNext == ConnInv /\ [Next]_vars => ConnInv'
<1> SUFFICES ASSUME ConnInv, [Next]_vars PROVE ConnInv'
  OBVIOUS
<1>1. ASSUME NEW w \in Workers, Keeps(w), strtok' \in StrtokPositions,
             served' \in 0 .. MaxConnections
      PROVE  ConnInv'
  <2>1. PICK c \in Connections :
          conn' = [conn EXCEPT ![w] = c] /\ ReadInv(c) /\ AnswerInv(c)
    BY <1>1 DEF Keeps
  <2>2. \A v \in Workers : conn'[v] \in {conn[v], c}
    BY <2>1 DEF ConnInv
  <2>3. \A v \in Workers : ReadInv(conn'[v]) /\ AnswerInv(conn'[v])
    BY <2>1, <2>2 DEF ConnInv
  <2>4. conn' \in [Workers -> Connections]
    BY <2>1 DEF ConnInv
  <2> QED
    BY <1>1, <2>3, <2>4 DEF ConnInv
<1>2. ASSUME NEW w \in Workers, WorkerStep(w)
      PROVE  ConnInv'
  BY <1>1, <1>2, WorkerKeeps, StrtokTypes DEF ConnInv
<1>3. ASSUME NEW w \in Workers, Connect(w) \/ ClientStep(w) \/ ClientLeave(w)
      PROVE  ConnInv'
  <2>1. Keeps(w)
    BY <1>3, ClientKeeps
  <2>2. UNCHANGED strtok /\ served' \in 0 .. MaxConnections
    BY <1>3, LimitAssumption
       DEF ConnInv, Connect, ClientStep, ClientSend, ClientFinish, ClientLeave
  <2> QED
    BY <1>1, <2>1, <2>2 DEF ConnInv
<1>4. CASE UNCHANGED vars
  BY <1>4 DEF vars, ConnInv, Keeps
<1> QED
  BY <1>2, <1>3, <1>4 DEF Next, Idle

\* The invariant of connections holds throughout.
LEMMA ConnInvariant == Spec => []ConnInv
BY ConnInit, ConnNext, PTL DEF Spec

(* Type correctness for any number of workers, any requests and any        *)
(* limits: what is read of a header section or a body never exceeds the    *)
(* buffer that http_read_request has allocated for it.                     *)
THEOREM TypeCorrect == Spec => []TypeOK
<1>1. ConnInv => TypeOK
  <2> SUFFICES ASSUME ConnInv PROVE TypeOK
    OBVIOUS
  <2>1. ASSUME NEW w \in Workers
        PROVE  conn[w] \in Connections /\ conn[w].sent \in 0 .. Size(conn[w].request)
    <3>1. conn[w] \in Connections /\ ReadInv(conn[w])
      BY DEF ConnInv
    <3>2. Size(conn[w].request) \in Nat /\ conn[w].sent \in Nat
      BY <3>1, ConnectionTypes
    <3> QED
      BY <3>1, <3>2 DEF ReadInv
  <2>2. /\ served \in 0 .. MaxConnections /\ strtok.owner \in Workers \cup {"none"}
        /\ strtok.live \in BOOLEAN /\ strtok.header \in {"coding", "type"}
    BY DEF ConnInv, StrtokPositions
  <2> QED
    BY <2>1, <2>2 DEF TypeOK, Connections
<1> QED
  BY <1>1, ConnInvariant, PTL

(* A client that is still there has been sent one whole response when the  *)
(* worker closes the connection, for any number of workers: send_all and   *)
(* http_response_send leave no part of it behind.                          *)
THEOREM ResponsesAreWhole == Spec => []AnsweredWhole
<1>1. ConnInv => AnsweredWhole
  BY DEF ConnInv, AnswerInv, AnsweredWhole
<1> QED
  BY <1>1, ConnInvariant, PTL

(* SQL reaches the engine only from a whole query, for any number of       *)
(* workers: a header section and a body within their limits, of which      *)
(* every announced byte has come, with the right method, path and media    *)
(* type and an object with a key "sql", with or without a last comma, in   *)
(* the announced part of the body.  Only the later parts of                *)
(* Transfer-Encoding and Content-Type are left out: other workers may move *)
(* the position of strtok while they are split.                            *)
SqlFromWholeQueries ==
  \A w \in Workers : conn[w].executed => WholeQuery(conn[w].request, conn[w].sent)

(* SqlFromWholeQueries holds for any number of workers, any requests and   *)
(* any limits, also when clients leave or memory is short.                 *)
THEOREM ExecutesWholeQueries == Spec => []SqlFromWholeQueries
<1>1. ConnInv => SqlFromWholeQueries
  BY DEF ConnInv, AnswerInv, SqlFromWholeQueries
<1> QED
  BY <1>1, ConnInvariant, PTL

-----------------------------------------------------------------------------
(***************************************************************************)
(* With one worker every answer is the verdict on the request, for any     *)
(* requests and limits, and only accepted requests are executed: nobody    *)
(* else moves the position of strtok between two calls.  With two workers  *)
(* the same properties fail (run shared_tokenizer).                        *)
(***************************************************************************)
\* The answer of connection c is the verdict on n bytes.
AnswersFor(c, n) ==
  IF Verdict(c.request, n) = "execute" THEN c.executed
  ELSE c.answer = Verdict(c.request, n)

JsonTypes == {<<"json">>, <<"json", "utf8">>}

(* The header parts that have been split off passed their check; the rest  *)
(* is where the position p of strtok is.                                   *)
TokenInv(c, p) ==
  /\ c.step \in {"idle", "header", "parse", "coding", "codingNext", "length", "body",
                 "route", "type"} => ~c.seen
  /\ c.step = "codingNext" =>
       /\ p.live /\ p.header = "coding"
       /\ "chunked" \in ToSet(c.request.coding) <=> "chunked" \in ToSet(p.rest)
  /\ c.step \in Uncoded => "chunked" \notin ToSet(c.request.coding)
  /\ c.step = "typeNext" =>
       LET split == IF c.seen THEN 2 ELSE 1
       IN /\ p.live /\ p.header = "type"
          /\ Len(c.request.type) = Len(p.rest) + split
          /\ \A i \in 1 .. Len(p.rest) : p.rest[i] = c.request.type[i + split]
          /\ c.seen => c.request.type[2] = "utf8"
  /\ c.step \in Extracting => c.request.type \in JsonTypes

(* The answer fits what the client has sent, and goes on fitting if the    *)
(* client is still sending.                                                *)
VerdictInv(c) ==
  /\ c.executed => \A n \in c.sent .. Size(c.request) : Verdict(c.request, n) = "execute"
  /\ c.step \in {"send", "sendBody"} /\ c.client # "gone" /\ ~c.oom =>
       /\ AnswersFor(c, c.sent)
       /\ c.client = "open" => \A n \in c.sent .. Size(c.request) : AnswersFor(c, n)

SoleInv == \A w \in Workers : TokenInv(conn[w], strtok) /\ VerdictInv(conn[w])

-----------------------------------------------------------------------------
(* Sequences of header parts. *)

\* What strtok leaves after its first token.
LEMMA ToSetTail ==
  ASSUME NEW s \in Seq(Tokens), s # <<>>
  PROVE  \A x : x \in ToSet(s) <=> x = Head(s) \/ x \in ToSet(Tail(s))
<1>1. /\ Len(s) \in Nat \ {0} /\ DOMAIN s = 1 .. Len(s) /\ Head(s) = s[1]
      /\ Tail(s) \in Seq(Tokens) /\ Len(Tail(s)) = Len(s) - 1
      /\ DOMAIN Tail(s) = 1 .. Len(Tail(s))
      /\ \A i \in 1 .. Len(Tail(s)) : Tail(s)[i] = s[i + 1]
  BY HeadTailProperties, LenProperties, EmptySeq
<1>2. ASSUME NEW x, x \in ToSet(s)
      PROVE  x = Head(s) \/ x \in ToSet(Tail(s))
  <2>1. PICK i \in 1 .. Len(s) : x = s[i]
    BY <1>1, <1>2 DEF ToSet
  <2>2. CASE i = 1
    BY <1>1, <2>1, <2>2
  <2>3. CASE i > 1
    <3>1. i - 1 \in DOMAIN Tail(s) /\ Tail(s)[i - 1] = s[i - 1 + 1] /\ i - 1 + 1 = i
      BY <1>1, <2>3
    <3>2. Tail(s)[i - 1] = x
      BY <2>1, <3>1
    <3> QED
      BY <3>1, <3>2 DEF ToSet
  <2> QED
    BY <1>1, <2>2, <2>3
<1>3. ASSUME NEW x, x = Head(s) \/ x \in ToSet(Tail(s))
      PROVE  x \in ToSet(s)
  <2>1. CASE x = Head(s)
    <3>1. 1 \in DOMAIN s /\ x = s[1]
      BY <1>1, <2>1
    <3> QED
      BY <3>1 DEF ToSet
  <2>2. CASE x \in ToSet(Tail(s))
    <3>1. PICK i \in 1 .. Len(Tail(s)) : x = Tail(s)[i]
      BY <1>1, <2>2 DEF ToSet
    <3>2. i + 1 \in DOMAIN s /\ x = s[i + 1]
      BY <1>1, <3>1
    <3> QED
      BY <3>2 DEF ToSet
  <2> QED
    BY <1>3, <2>1, <2>2
<1> QED
  BY <1>2, <1>3

\* No token is left at the end.
LEMMA ToSetEmpty == ToSet(<<>>) = {}
BY DEF ToSet

\* A media type that means JSON, by its tokens.
LEMMA JsonTypesByParts ==
  ASSUME NEW t \in Seq(Tokens)
  PROVE  t \in JsonTypes <=>
           \/ Len(t) = 1 /\ t[1] = "json"
           \/ Len(t) = 2 /\ t[1] = "json" /\ t[2] = "utf8"
<1>1. <<"json">> \in Seq(Tokens) /\ <<"json", "utf8">> \in Seq(Tokens)
  BY DEF Tokens
<1>2. ASSUME Len(t) = 1, t[1] = "json"
      PROVE  t = <<"json">>
  BY <1>1, <1>2, SeqEqual
<1>3. ASSUME Len(t) = 2, t[1] = "json", t[2] = "utf8"
      PROVE  t = <<"json", "utf8">>
  <2>1. Len(<<"json", "utf8">>) = 2
    OBVIOUS
  <2>2. \A i \in 1 .. 2 : t[i] = <<"json", "utf8">>[i]
    BY <1>3
  <2> QED
    BY <1>1, <1>3, <2>1, <2>2, SeqEqual
<1> QED
  BY <1>2, <1>3 DEF JsonTypes

-----------------------------------------------------------------------------
(* Verdicts. *)

\* The header section does not end within what may be read of it.
LEMMA HeadVerdicts ==
  ASSUME NEW r, IsRequest(r), NEW n \in Nat, r.ended => n < r.head \/ r.head > HeaderLimit
  PROVE  Verdict(r, n) = IF n < HeaderLimit THEN "INVALID_CONTENT_LENGTH"
                         ELSE "HEADER_TOO_LARGE"
<1>1. r.head \in Nat /\ HeaderLimit \in Nat
  BY LimitAssumption DEF IsRequest
<1> QED
  BY <1>1 DEF Verdict, HeadVerdict

\* Once the header section has been read, more bytes do not change the verdict
\* of the checks that follow.
LEMMA LaterVerdicts ==
  ASSUME NEW c \in Connections, ReadInv(c), c.step \in HeadRead,
         NEW n \in c.sent .. Size(c.request)
  PROVE  LET r == c.request
             chunked == "chunked" \in ToSet(r.coding)
         IN /\ ~r.wellFormed => Verdict(r, n) = "INVALID_CONTENT_LENGTH"
            /\ r.wellFormed /\ chunked => Verdict(r, n) = "CHUNKED_NOT_SUPPORTED"
            /\ r.wellFormed /\ ~chunked =>
                 /\ r.length = Malformed => Verdict(r, n) = "INVALID_CONTENT_LENGTH"
                 /\ r.length > BodyLimit => Verdict(r, n) = "PAYLOAD_TOO_LARGE"
            /\ c.step \in Routing /\ ~chunked => Verdict(r, n) = RouteVerdict(c.request)
<1> DEFINE r == c.request
<1>1. /\ r.head \in Nat /\ r.length \in Int /\ c.sent \in Nat /\ c.total \in Nat
      /\ c.got \in Nat /\ Size(r) \in Nat /\ BodyLimit \in Nat /\ HeaderLimit \in Nat
  BY ConnectionTypes, LimitAssumption
<1>2. r.ended /\ c.total = r.head /\ r.head <= HeaderLimit /\ c.total + c.got <= c.sent
  BY DEF ReadInv
<1>3. n \in Nat /\ n >= r.head + c.got /\ n >= r.head
  BY <1>1, <1>2
<1>4. ~r.wellFormed => Verdict(r, n) = "INVALID_CONTENT_LENGTH"
  BY <1>1, <1>2, <1>3 DEF Verdict, HeadVerdict
<1>5. r.wellFormed /\ "chunked" \in ToSet(r.coding) => Verdict(r, n) = "CHUNKED_NOT_SUPPORTED"
  BY <1>1, <1>2, <1>3 DEF Verdict, HeadVerdict
<1>6. r.wellFormed /\ "chunked" \notin ToSet(r.coding) /\ r.length = Malformed
        => Verdict(r, n) = "INVALID_CONTENT_LENGTH"
  BY <1>1, <1>2, <1>3 DEF Verdict, HeadVerdict
<1>7. r.wellFormed /\ "chunked" \notin ToSet(r.coding) /\ r.length > BodyLimit
        => Verdict(r, n) = "PAYLOAD_TOO_LARGE"
  BY <1>1, <1>2, <1>3 DEF Verdict, HeadVerdict, Malformed
<1>8. c.step \in Routing /\ "chunked" \notin ToSet(r.coding) => Verdict(r, n) = RouteVerdict(r)
  <2> SUFFICES ASSUME c.step \in Routing, "chunked" \notin ToSet(r.coding)
               PROVE  Verdict(r, n) = RouteVerdict(r)
    OBVIOUS
  <2>1. r.wellFormed /\ r.length # Malformed /\ ~(r.length > BodyLimit) /\ c.got = Wanted(r)
    BY <1>1, StepSets DEF ReadInv
  <2>2. ~(n < r.head + Wanted(r)) /\ ~(n < r.head)
    BY <1>1, <1>3, <2>1
  <2>3. HeadVerdict(r, n) = "route"
    BY <1>2, <2>1, <2>2 DEF HeadVerdict
  <2> QED
    BY <2>3 DEF Verdict
<1> QED
  BY <1>4, <1>5, <1>6, <1>7, <1>8

-----------------------------------------------------------------------------
(* The steps of the only worker. *)

Settles(w) ==
  \E d : conn' = [conn EXCEPT ![w] = d] /\ TokenInv(d, strtok') /\ VerdictInv(d)

\* An answer that is already the verdict on the request settles it.
LEMMA AnswerSettles ==
  ASSUME ConnInv, NEW w \in Workers, conn[w].step \in HeadRead \cup {"header"},
         NEW code, code # "execute", Answer(w, code),
         conn[w].client # "gone" => Verdict(conn[w].request, conn[w].sent) = code,
         conn[w].client = "open" =>
           \A n \in conn[w].sent .. Size(conn[w].request) : Verdict(conn[w].request, n) = code
  PROVE  Settles(w)
<1> DEFINE c == conn[w]
           d == [c EXCEPT !.step = "send", !.answer = code]
<1>1. c \in Connections /\ AnswerInv(c)
  BY DEF ConnInv
<1>2. conn' = [conn EXCEPT ![w] = d]
  BY <1>1 DEF Answer, Connections, ConnInv
<1>3. /\ d.step = "send" /\ d.request = c.request /\ d.sent = c.sent /\ d.client = c.client
      /\ d.executed = c.executed /\ d.answer = code
  BY <1>1 DEF Connections
<1>4. ~c.executed
  BY <1>1, StepSets DEF AnswerInv
<1> HIDE DEF d
<1>5. TokenInv(d, strtok')
  BY <1>3, StepSets DEF TokenInv
<1>6. VerdictInv(d)
  BY <1>3, <1>4 DEF VerdictInv, AnswersFor
<1> QED
  BY <1>2, <1>5, <1>6 DEF Settles

\* The verdict that later bytes do not change.
LEMMA AnswerSettlesLater ==
  ASSUME ConnInv, NEW w \in Workers, conn[w].step \in HeadRead \cup {"header"},
         NEW code, code # "execute", Answer(w, code),
         \A n \in conn[w].sent .. Size(conn[w].request) : Verdict(conn[w].request, n) = code
  PROVE  Settles(w)
<1>1. conn[w] \in Connections /\ ReadInv(conn[w])
  BY DEF ConnInv
<1>2. conn[w].sent \in conn[w].sent .. Size(conn[w].request)
  BY <1>1, ConnectionTypes DEF ReadInv
<1> QED
  BY <1>2, AnswerSettles

\* A step from one check to the next leaves the verdict open.
LEMMA GotoSettles ==
  ASSUME ConnInv, NEW w \in Workers, conn[w].step \in HeadRead, NEW next \in HeadRead,
         Goto(w, next), TokenInv([conn[w] EXCEPT !.step = next], strtok')
  PROVE  Settles(w)
<1> DEFINE c == conn[w]
           d == [c EXCEPT !.step = next]
<1>1. c \in Connections /\ AnswerInv(c)
  BY DEF ConnInv
<1>2. conn' = [conn EXCEPT ![w] = d]
  BY <1>1 DEF Goto, Connections, ConnInv
<1>3. d.step = next /\ d.executed = c.executed
  BY <1>1 DEF Connections
<1>4. ~c.executed
  BY <1>1, StepSets DEF AnswerInv
<1>5. TokenInv(d, strtok')
  OBVIOUS
<1> HIDE DEF d
<1>6. VerdictInv(d)
  BY <1>3, <1>4, StepSets DEF VerdictInv
<1> QED
  BY <1>2, <1>5, <1>6 DEF Settles

\* Changes that leave step, request and position alone, before the answer.
LEMMA WorkSettles ==
  ASSUME ConnInv, NEW w \in Workers, NEW d, conn' = [conn EXCEPT ![w] = d],
         conn[w].step \in HeadRead \cup {"header"},
         d.step \in HeadRead \cup {"header"}, d.executed = conn[w].executed,
         TokenInv(d, strtok')
  PROVE  Settles(w)
<1>1. conn[w] \in Connections /\ AnswerInv(conn[w])
  BY DEF ConnInv
<1>2. ~d.executed
  BY <1>1, StepSets DEF AnswerInv
<1>3. VerdictInv(d)
  BY <1>2, StepSets DEF VerdictInv
<1> QED
  BY <1>3 DEF Settles

\* The client.
LEMMA ClientSettles ==
  ASSUME ConnInv, SoleInv, NEW w \in Workers,
         Connect(w) \/ ClientStep(w) \/ ClientLeave(w) \/ CloseClient(w)
  PROVE  Settles(w)
<1> DEFINE c == conn[w]
<1>1. c \in Connections /\ ReadInv(c) /\ TokenInv(c, strtok) /\ VerdictInv(c)
  BY DEF ConnInv, SoleInv
<1>2. strtok' = strtok
  BY DEF Connect, ClientStep, ClientSend, ClientFinish, ClientLeave, CloseClient, Local
<1>3. ASSUME NEW r, NEW step \in {"idle", "header"},
             conn' = [conn EXCEPT ![w] = Fresh(step, r)]
      PROVE  Settles(w)
  <2> DEFINE d == Fresh(step, r)
  <2>1. d.step = step /\ d.executed = FALSE /\ d.seen = FALSE
    BY DEF Fresh
  <2> HIDE DEF d
  <2>2. TokenInv(d, strtok') /\ VerdictInv(d)
    BY <2>1, StepSets DEF TokenInv, VerdictInv
  <2> QED
    BY <1>3, <2>2 DEF Settles, d
<1>4. CASE Connect(w)
  BY <1>3, <1>4 DEF Connect
<1>5. CASE CloseClient(w)
  BY <1>3, <1>5 DEF CloseClient
<1>6. CASE ClientSend(w)
  <2> DEFINE d == [c EXCEPT !.sent = @ + 1]
  <2>1. conn' = [conn EXCEPT ![w] = d]
    BY <1>1, <1>6 DEF ClientSend, Connections, ConnInv
  <2>2. /\ d.step = c.step /\ d.request = c.request /\ d.sent = c.sent + 1
        /\ d.executed = c.executed /\ d.answer = c.answer /\ d.oom = c.oom
        /\ d.client = c.client /\ d.seen = c.seen
    BY <1>1 DEF Connections
  <2>3. /\ c.client = "open" /\ c.sent < Size(c.request) /\ c.sent \in Nat
        /\ Size(c.request) \in Nat
    BY <1>1, <1>6, ConnectionTypes DEF ClientSend
  <2> HIDE DEF d
  <2>4. TokenInv(d, strtok')
    BY <1>1, <1>2, <2>2 DEF TokenInv
  <2>5. \A n \in d.sent .. Size(d.request) :
          n \in c.sent .. Size(c.request) /\ (AnswersFor(d, n) <=> AnswersFor(c, n))
    BY <2>2, <2>3 DEF AnswersFor
  <2>6. d.sent \in d.sent .. Size(d.request)
    BY <2>2, <2>3
  <2>7. VerdictInv(d)
    BY <1>1, <2>2, <2>3, <2>5, <2>6 DEF VerdictInv
  <2> QED
    BY <2>1, <2>4, <2>7 DEF Settles
<1>7. ASSUME NEW client \in {"finished", "gone"}, c.client # "gone",
             conn' = [conn EXCEPT ![w].client = client]
      PROVE  Settles(w)
  <2> DEFINE d == [c EXCEPT !.client = client]
  <2>1. conn' = [conn EXCEPT ![w] = d]
    BY <1>1, <1>7 DEF Connections, ConnInv
  <2>2. /\ d.step = c.step /\ d.request = c.request /\ d.sent = c.sent
        /\ d.executed = c.executed /\ d.answer = c.answer /\ d.oom = c.oom
        /\ d.client = client /\ d.seen = c.seen
    BY <1>1 DEF Connections
  <2> HIDE DEF d
  <2>3. TokenInv(d, strtok')
    BY <1>1, <1>2, <2>2 DEF TokenInv
  <2>4. VerdictInv(d)
    BY <1>1, <1>7, <2>2 DEF VerdictInv, AnswersFor
  <2> QED
    BY <2>1, <2>3, <2>4 DEF Settles
<1>8. CASE ClientFinish(w)
  BY <1>7, <1>8 DEF ClientFinish
<1>9. CASE ClientLeave(w)
  BY <1>7, <1>9 DEF ClientLeave
<1> QED
  BY <1>4, <1>5, <1>6, <1>8, <1>9 DEF ClientStep

\* The header section and the length.
LEMMA HeaderSettles ==
  ASSUME ConnInv, SoleInv, NEW w \in Workers,
         \/ RecvHeaderByte(w) \/ RecvHeaderEnds(w) \/ HeaderTooLarge(w)
         \/ ParseHeader(w) \/ CheckLength(w) \/ RecvBody(w) \/ RecvBodyEnds(w)
  PROVE  Settles(w)
<1> DEFINE c == conn[w]
           r == c.request
<1>1. c \in Connections /\ ReadInv(c) /\ TokenInv(c, strtok)
  BY DEF ConnInv, SoleInv
<1>2. strtok' = strtok
  BY DEF RecvHeaderByte, RecvHeaderEnds, HeaderTooLarge, ParseHeader, CheckLength,
         RecvBody, RecvBodyEnds, Local
<1>3. /\ IsRequest(r) /\ r.head \in Nat /\ r.length \in Int /\ c.sent \in Nat
      /\ c.total \in Nat /\ c.got \in Nat /\ Size(r) \in Nat /\ HeaderLimit \in Nat
      /\ BodyLimit \in Nat
  BY <1>1, ConnectionTypes, LimitAssumption
<1>4. CASE RecvHeaderByte(w)
  <2> DEFINE next == IF r.ended /\ c.total + 1 = r.head THEN "parse" ELSE c.step
             d == [c EXCEPT !.total = @ + 1, !.step = next]
  <2>1. conn' = [conn EXCEPT ![w] = d] /\ c.step = "header"
    BY <1>1, <1>4 DEF RecvHeaderByte, Local, Connections, ConnInv
  <2>2. d.step \in {"header", "parse"} /\ d.executed = c.executed /\ d.seen = c.seen
    BY <1>1, <2>1 DEF Connections
  <2> HIDE DEF d
  <2>3. TokenInv(d, strtok')
    BY <1>1, <2>1, <2>2, StepSets DEF TokenInv
  <2> QED
    BY <2>1, <2>2, <2>3, StepSets, WorkSettles
<1>5. CASE RecvHeaderEnds(w)
  <2>1. /\ c.step = "header" /\ c.total < HeaderLimit /\ StreamEnded(c)
        /\ Answer(w, "INVALID_CONTENT_LENGTH")
    BY <1>5 DEF RecvHeaderEnds, Local, HeaderRoom
  <2>2. c.got = 0 /\ (r.ended => c.total < r.head)
    BY <1>1, <2>1 DEF ReadInv
  <2>3. c.client # "open" /\ (c.client # "gone" => c.sent = c.total)
    BY <1>3, <2>1, <2>2 DEF StreamEnded, Unread
  <2>4. c.client # "gone" => Verdict(r, c.sent) = "INVALID_CONTENT_LENGTH"
    BY <1>3, <2>1, <2>2, <2>3, HeadVerdicts
  <2> QED
    BY <2>1, <2>3, <2>4, AnswerSettles
<1>6. CASE HeaderTooLarge(w)
  <2>1. c.step = "header" /\ ~(c.total < HeaderLimit) /\ Answer(w, "HEADER_TOO_LARGE")
    BY <1>6 DEF HeaderTooLarge, Local, HeaderRoom
  <2>2. c.got = 0 /\ (r.ended => c.total < r.head) /\ c.total + c.got <= c.sent
    BY <1>1, <2>1 DEF ReadInv
  <2>3. ASSUME NEW n \in c.sent .. Size(r)
        PROVE  Verdict(r, n) = "HEADER_TOO_LARGE"
    <3>1. n \in Nat /\ ~(n < HeaderLimit) /\ (r.ended => r.head > HeaderLimit)
      BY <1>3, <2>1, <2>2
    <3> QED
      BY <1>3, <3>1, HeadVerdicts
  <2> QED
    BY <2>1, <2>3, AnswerSettlesLater
<1>7. CASE ParseHeader(w)
  <2>1. c.step = "parse" /\ c.step \in HeadRead
    BY <1>7, StepSets DEF ParseHeader, Local
  <2>2. CASE ~r.wellFormed
    <3>1. \A n \in c.sent .. Size(r) : Verdict(r, n) = "INVALID_CONTENT_LENGTH"
      BY <1>1, <2>1, <2>2, LaterVerdicts
    <3> QED
      BY <1>7, <2>1, <2>2, <3>1, AnswerSettlesLater DEF ParseHeader
  <2>3. CASE r.wellFormed
    <3> DEFINE next == IF r.coding = <<>> THEN "length" ELSE "coding"
               d == [c EXCEPT !.step = next]
    <3>1. Goto(w, next) /\ next \in HeadRead
      BY <1>7, <2>3, StepSets DEF ParseHeader
    <3>2. d.step = next /\ d.request = r /\ d.seen = c.seen
      BY <1>1 DEF Connections
    <3> HIDE DEF d
    <3>3. TokenInv(d, strtok')
      BY <1>1, <2>1, <3>2, StepSets, ToSetEmpty DEF TokenInv
    <3> HIDE DEF next
    <3> QED
      BY <2>1, <3>1, <3>3, GotoSettles DEF d
  <2> QED
    BY <2>2, <2>3
<1>8. ASSUME NEW d, conn' = [conn EXCEPT ![w] = d], c.step \in {"length", "body"},
             d.step \in {"length", "body", "route"}, d.executed = c.executed,
             d.request = r, d.seen = c.seen
      PROVE  Settles(w)
  <2>1. TokenInv(d, strtok')
    BY <1>1, <1>8, StepSets DEF TokenInv
  <2> QED
    BY <1>8, <2>1, StepSets, WorkSettles
<1>9. CASE CheckLength(w)
  <2>1. /\ c.step = "length" /\ c.step \in HeadRead /\ r.wellFormed
        /\ "chunked" \notin ToSet(r.coding)
    BY <1>1, <1>9, StepSets DEF CheckLength, Local, ReadInv, TokenInv
  <2>2. CASE Answer(w, "INVALID_CONTENT_LENGTH") /\ r.length = Malformed
    <3>1. \A n \in c.sent .. Size(r) : Verdict(r, n) = "INVALID_CONTENT_LENGTH"
      BY <1>1, <2>1, <2>2, LaterVerdicts
    <3> QED
      BY <2>1, <2>2, <3>1, AnswerSettlesLater
  <2>3. CASE Answer(w, "PAYLOAD_TOO_LARGE") /\ r.length > BodyLimit
    <3>1. \A n \in c.sent .. Size(r) : Verdict(r, n) = "PAYLOAD_TOO_LARGE"
      BY <1>1, <2>1, <2>3, LaterVerdicts
    <3> QED
      BY <2>1, <2>3, <3>1, AnswerSettlesLater
  <2>4. CASE Read(w, 0)
    <3> DEFINE d == [c EXCEPT !.step = "route", !.routed = TRUE, !.got = 0]
    <3>1. conn' = [conn EXCEPT ![w] = d]
      BY <1>1, <2>4 DEF Read, Connections, ConnInv
    <3>2. d.step = "route" /\ d.executed = c.executed /\ d.request = r /\ d.seen = c.seen
      BY <1>1 DEF Connections
    <3> HIDE DEF d
    <3> QED
      BY <1>8, <2>1, <3>1, <3>2
  <2>5. CASE Goto(w, "body")
    <3> DEFINE d == [c EXCEPT !.step = "body"]
    <3>1. conn' = [conn EXCEPT ![w] = d]
      BY <1>1, <2>5 DEF Goto, Connections, ConnInv
    <3>2. d.step = "body" /\ d.executed = c.executed /\ d.request = r /\ d.seen = c.seen
      BY <1>1 DEF Connections
    <3> HIDE DEF d
    <3> QED
      BY <1>8, <2>1, <3>1, <3>2
  <2>6. ~BodyFits(r) => r.length > BodyLimit
    BY <1>3 DEF BodyFits
  <2> QED
    BY <1>9, <2>2, <2>3, <2>4, <2>5, <2>6 DEF CheckLength
<1>10. CASE RecvBody(w)
  <2>1. PICK n \in 1 .. Unread(c) :
          IF c.got + n = r.length THEN Read(w, c.got + n)
          ELSE conn' = [conn EXCEPT ![w].got = c.got + n]
    BY <1>10 DEF RecvBody
  <2>2. c.step = "body"
    BY <1>10 DEF RecvBody, Local
  <2>3. CASE Read(w, c.got + n)
    <3> DEFINE d == [c EXCEPT !.step = "route", !.routed = TRUE, !.got = c.got + n]
    <3>1. conn' = [conn EXCEPT ![w] = d]
      BY <1>1, <2>3 DEF Read, Connections, ConnInv
    <3>2. d.step = "route" /\ d.executed = c.executed /\ d.request = r /\ d.seen = c.seen
      BY <1>1 DEF Connections
    <3> HIDE DEF d
    <3> QED
      BY <1>8, <2>2, <3>1, <3>2
  <2>4. CASE conn' = [conn EXCEPT ![w].got = c.got + n]
    <3> DEFINE d == [c EXCEPT !.got = c.got + n]
    <3>1. conn' = [conn EXCEPT ![w] = d]
      BY <1>1, <2>4 DEF Connections, ConnInv
    <3>2. d.step = c.step /\ d.executed = c.executed /\ d.request = r /\ d.seen = c.seen
      BY <1>1 DEF Connections
    <3> HIDE DEF d
    <3> QED
      BY <1>8, <2>2, <3>1, <3>2
  <2> QED
    BY <2>1, <2>3, <2>4
<1>11. CASE RecvBodyEnds(w)
  <2>1. c.step = "body" /\ StreamEnded(c) /\ Answer(w, "INVALID_CONTENT_LENGTH")
    BY <1>11 DEF RecvBodyEnds, Local
  <2>2. /\ r.ended /\ r.wellFormed /\ c.total = r.head /\ r.head <= HeaderLimit
        /\ r.length \in 1 .. BodyLimit /\ c.got < r.length
        /\ "chunked" \notin ToSet(r.coding)
    BY <1>1, <2>1, StepSets DEF ReadInv, TokenInv
  <2>3. c.client # "open" /\ (c.client # "gone" => c.sent = r.head + c.got)
    BY <1>3, <2>1, <2>2 DEF StreamEnded, Unread
  <2>4. ASSUME c.client # "gone"
        PROVE  Verdict(r, c.sent) = "INVALID_CONTENT_LENGTH"
    <3>1. /\ Wanted(r) = r.length /\ c.sent < r.head + Wanted(r) /\ ~(c.sent < r.head)
          /\ r.length # Malformed /\ ~(r.length > BodyLimit)
      BY <1>3, <2>2, <2>3, <2>4 DEF Wanted, Malformed
    <3> QED
      BY <2>2, <3>1 DEF Verdict, HeadVerdict
  <2> QED
    BY <2>1, <2>3, <2>4, StepSets, AnswerSettles
<1> QED
  BY <1>4, <1>5, <1>6, <1>7, <1>9, <1>10, <1>11

\* Transfer-Encoding: nobody moves the position between the calls.
LEMMA CodingSettles ==
  ASSUME ConnInv, SoleInv, NEW w \in Workers, CodingFirst(w) \/ CodingNext(w)
  PROVE  Settles(w)
<1> DEFINE c == conn[w]
           r == c.request
<1>1. c \in Connections /\ ReadInv(c) /\ TokenInv(c, strtok)
  BY DEF ConnInv, SoleInv
<1>2. strtok \in StrtokPositions /\ strtok.rest \in Seq(Tokens)
  BY DEF ConnInv, StrtokPositions
<1>3. r.coding \in Seq(Tokens)
  <2>1. IsRequest(r)
    BY <1>1, ConnectionTypes
  <2> QED
    BY <2>1 DEF IsRequest, Tokens
<1>4. c.step \in {"coding", "codingNext"} /\ c.step \in HeadRead /\ r.wellFormed /\ ~c.seen
  BY <1>1, StepSets DEF CodingFirst, CodingNext, ReadInv, TokenInv
<1>5. ASSUME "chunked" \in ToSet(r.coding), Answer(w, "CHUNKED_NOT_SUPPORTED")
      PROVE  Settles(w)
  <2>1. \A n \in c.sent .. Size(r) : Verdict(r, n) = "CHUNKED_NOT_SUPPORTED"
    BY <1>1, <1>4, <1>5, LaterVerdicts
  <2> QED
    BY <1>4, <1>5, <2>1, AnswerSettlesLater
<1>6. CASE CodingFirst(w)
  <2>1. r.coding # <<>>
    BY <1>1, <1>6 DEF CodingFirst, ReadInv
  <2>2. "chunked" \in ToSet(r.coding) <=>
          "chunked" = Head(r.coding) \/ "chunked" \in ToSet(Tail(r.coding))
    BY <1>3, <2>1, ToSetTail
  <2>3. CASE Head(r.coding) = "chunked"
    BY <1>5, <1>6, <2>2, <2>3 DEF CodingFirst
  <2>4. CASE Head(r.coding) # "chunked"
    <3> DEFINE d == [c EXCEPT !.step = "codingNext"]
    <3>1. Goto(w, "codingNext") /\ strtok'.live /\ strtok'.header = "coding"
          /\ strtok'.rest = Tail(r.coding)
      BY <1>6, <2>4 DEF CodingFirst, StrtokFirst
    <3>2. d.step = "codingNext" /\ d.request = r /\ d.seen = c.seen
      BY <1>1 DEF Connections
    <3> HIDE DEF d
    <3>3. TokenInv(d, strtok')
      BY <1>4, <2>2, <2>4, <3>1, <3>2, StepSets DEF TokenInv
    <3> QED
      BY <1>4, <3>1, <3>3, StepSets, GotoSettles DEF d
  <2> QED
    BY <2>3, <2>4
<1>7. CASE CodingNext(w)
  <2>1. PICK token \in NextTokens("coding") :
          /\ StrtokNext(w, "coding", token = <<>> \/ token = <<"chunked">>)
          /\ \/ token = <<>> /\ Goto(w, "length")
             \/ token = <<"chunked">> /\ Answer(w, "CHUNKED_NOT_SUPPORTED")
             \/ ~(token = <<>> \/ token = <<"chunked">>) /\ UNCHANGED conn
    BY <1>7 DEF CodingNext
  <2>2. /\ c.step = "codingNext" /\ strtok.live /\ strtok.header = "coding"
        /\ "chunked" \in ToSet(r.coding) <=> "chunked" \in ToSet(strtok.rest)
    BY <1>1, <1>7 DEF CodingNext, TokenInv
  <2>3. CASE strtok.rest = <<>>
    <3> DEFINE d == [c EXCEPT !.step = "length"]
    <3>1. token = <<>>
      BY <2>1, <2>2, <2>3 DEF NextTokens
    <3>2. Goto(w, "length")
      BY <2>1, <3>1
    <3>3. d.step = "length" /\ d.request = r /\ d.seen = c.seen
      BY <1>1 DEF Connections
    <3> HIDE DEF d
    <3>4. TokenInv(d, strtok')
      BY <1>4, <2>2, <2>3, <3>3, StepSets, ToSetEmpty DEF TokenInv
    <3> QED
      BY <1>4, <3>2, <3>4, StepSets, GotoSettles DEF d
  <2>4. CASE strtok.rest # <<>>
    <3>1. token = <<Head(strtok.rest)>>
      BY <2>1, <2>2, <2>4 DEF NextTokens
    <3>2. token # <<>> /\ (token = <<"chunked">> <=> Head(strtok.rest) = "chunked")
      BY <3>1
    <3>3. "chunked" \in ToSet(strtok.rest) <=>
            "chunked" = Head(strtok.rest) \/ "chunked" \in ToSet(Tail(strtok.rest))
      BY <1>2, <2>4, ToSetTail
    <3>4. CASE token = <<"chunked">>
      <4>1. Answer(w, "CHUNKED_NOT_SUPPORTED")
        BY <2>1, <3>2, <3>4
      <4> QED
        BY <1>5, <2>2, <3>2, <3>3, <3>4, <4>1
    <3>5. CASE token # <<"chunked">>
      <4>1. UNCHANGED conn /\ StrtokNext(w, "coding", FALSE)
        BY <2>1, <3>2, <3>5
      <4>2. /\ strtok'.live /\ strtok'.header = "coding"
            /\ strtok'.rest = Tail(strtok.rest)
        BY <1>2, <2>2, <2>4, <4>1 DEF StrtokNext, StrtokPositions
      <4>3. TokenInv(c, strtok')
        BY <1>4, <2>2, <3>2, <3>3, <3>5, <4>2, StepSets DEF TokenInv
      <4>4. conn' = [conn EXCEPT ![w] = c]
        BY <4>1 DEF ConnInv
      <4> QED
        BY <1>4, <4>3, <4>4, StepSets, WorkSettles
    <3> QED
      BY <3>4, <3>5
  <2> QED
    BY <2>3, <2>4
<1> QED
  BY <1>6, <1>7

\* A request that has been read is judged by its route alone.
LEMMA RouteSettles ==
  ASSUME ConnInv, SoleInv, NEW w \in Workers, conn[w].step \in Routing
  PROVE  /\ \A n \in conn[w].sent .. Size(conn[w].request) :
              Verdict(conn[w].request, n) = RouteVerdict(conn[w].request)
         /\ \A code : code # "execute" /\ Answer(w, code)
                      /\ RouteVerdict(conn[w].request) = code => Settles(w)
<1>1. /\ conn[w] \in Connections /\ ReadInv(conn[w])
      /\ "chunked" \notin ToSet(conn[w].request.coding) /\ conn[w].step \in HeadRead
  BY StepSets DEF ConnInv, SoleInv, TokenInv
<1>2. \A n \in conn[w].sent .. Size(conn[w].request) :
        Verdict(conn[w].request, n) = RouteVerdict(conn[w].request)
  BY <1>1, LaterVerdicts
<1> QED
  BY <1>1, <1>2, AnswerSettlesLater

\* Content-Type: nobody moves the position between the calls.
LEMMA TypeSettles ==
  ASSUME ConnInv, SoleInv, NEW w \in Workers, TypeFirst(w) \/ TypeNext(w)
  PROVE  Settles(w)
<1> DEFINE c == conn[w]
           r == c.request
<1>1. c \in Connections /\ ReadInv(c) /\ TokenInv(c, strtok)
  BY DEF ConnInv, SoleInv
<1>2. strtok \in StrtokPositions /\ strtok.rest \in Seq(Tokens)
  BY DEF ConnInv, StrtokPositions
<1>3. c.step \in {"type", "typeNext"} /\ c.step \in Routing /\ c.step \in HeadRead
  BY StepSets DEF TypeFirst, TypeNext
<1>4. /\ r.path = "/query" /\ r.method = "POST" /\ r.length # Absent /\ r.type # <<>>
      /\ "chunked" \notin ToSet(r.coding)
  BY <1>1, <1>3, StepSets DEF ReadInv, TokenInv
<1>5. r.type \in Seq(Tokens) /\ Head(r.type) = r.type[1] /\ Len(r.type) \in Nat
  <2>1. IsRequest(r)
    BY <1>1, ConnectionTypes
  <2> QED
    BY <2>1 DEF IsRequest, Tokens
<1>6. r.type \in JsonTypes <=>
        \/ Len(r.type) = 1 /\ r.type[1] = "json"
        \/ Len(r.type) = 2 /\ r.type[1] = "json" /\ r.type[2] = "utf8"
  BY <1>5, JsonTypesByParts
<1>7. ASSUME r.type \notin JsonTypes, Answer(w, "INVALID_CONTENT_TYPE")
      PROVE  Settles(w)
  <2>1. RouteVerdict(r) = "INVALID_CONTENT_TYPE"
    BY <1>4, <1>7 DEF RouteVerdict, MethodOf, JsonTypes
  <2> QED
    BY <1>3, <1>7, <2>1, RouteSettles
<1>8. CASE TypeFirst(w)
  <2>1. ~c.seen
    BY <1>1, <1>8 DEF TypeFirst, TokenInv
  <2>2. CASE Head(r.type) # "json"
    BY <1>5, <1>6, <1>7, <1>8, <2>2 DEF TypeFirst
  <2>3. CASE Head(r.type) = "json"
    <3> DEFINE d == [c EXCEPT !.step = "typeNext"]
    <3>1. Goto(w, "typeNext") /\ strtok'.live /\ strtok'.header = "type"
          /\ strtok'.rest = Tail(r.type)
      BY <1>8, <2>3 DEF TypeFirst, StrtokFirst
    <3>2. d.step = "typeNext" /\ d.request = r /\ d.seen = c.seen
      BY <1>1 DEF Connections
    <3>3. /\ Len(r.type) = Len(Tail(r.type)) + 1
          /\ \A i \in 1 .. Len(Tail(r.type)) : Tail(r.type)[i] = r.type[i + 1]
      BY <1>4, <1>5, HeadTailProperties
    <3> HIDE DEF d
    <3>4. TokenInv(d, strtok')
      BY <1>4, <2>1, <3>1, <3>2, <3>3, StepSets DEF TokenInv
    <3> QED
      BY <1>3, <3>1, <3>4, StepSets, GotoSettles DEF d
  <2> QED
    BY <2>2, <2>3
<1>9. CASE TypeNext(w)
  <2> DEFINE split == IF c.seen THEN 2 ELSE 1
             rest == strtok.rest
  <2>1. PICK token \in NextTokens("type") :
          /\ StrtokNext(w, "type", ~CharsetOK(c, token))
          /\ \/ token = <<>> /\ Goto(w, "extract")
             \/ CharsetOK(c, token) /\ conn' = [conn EXCEPT ![w].seen = TRUE]
             \/ token # <<>> /\ ~CharsetOK(c, token) /\ Answer(w, "INVALID_CONTENT_TYPE")
    BY <1>9 DEF TypeNext
  <2>2. c.step = "typeNext"
    BY <1>9 DEF TypeNext
  <2>3. /\ strtok.live /\ strtok.header = "type" /\ Len(r.type) = Len(rest) + split
        /\ \A i \in 1 .. Len(rest) : rest[i] = r.type[i + split]
        /\ c.seen => r.type[2] = "utf8"
    BY <1>1, <2>2 DEF TokenInv
  <2>4. r.type[1] = "json" /\ Len(rest) \in Nat
    BY <1>1, <1>2, <1>5, <2>2, StepSets DEF ReadInv
  <2>5. CASE rest = <<>>
    <3> DEFINE d == [c EXCEPT !.step = "extract"]
    <3>1. token = <<>>
      BY <2>1, <2>3, <2>5 DEF NextTokens
    <3>2. Goto(w, "extract")
      BY <2>1, <3>1 DEF CharsetOK
    <3>3. d.step = "extract" /\ d.request = r
      BY <1>1 DEF Connections
    <3>4. Len(rest) = 0
      BY <2>5
    <3>5. r.type \in JsonTypes
      BY <1>6, <2>3, <2>4, <3>4
    <3> HIDE DEF d
    <3>6. TokenInv(d, strtok')
      BY <1>4, <3>3, <3>5, StepSets DEF TokenInv
    <3> QED
      BY <1>3, <3>2, <3>6, StepSets, GotoSettles DEF d
  <2>6. CASE rest # <<>>
    <3>1. /\ token = <<Head(rest)>> /\ Head(rest) = rest[1]
      BY <2>1, <2>3, <2>6 DEF NextTokens
    <3>2. Len(rest) >= 1 /\ rest[1] = r.type[1 + split]
      <4>1. Len(rest) >= 1
        BY <1>2, <2>6
      <4> QED
        BY <2>3, <2>4, <4>1
    <3>3. token # <<>> /\ (CharsetOK(c, token) <=> rest[1] = "utf8" /\ ~c.seen)
      BY <3>1 DEF CharsetOK
    <3>4. CASE CharsetOK(c, token)
      <4> DEFINE d == [c EXCEPT !.seen = TRUE]
      <4>1. conn' = [conn EXCEPT ![w] = d]
        BY <1>1, <2>1, <3>3, <3>4 DEF Connections, ConnInv
      <4>2. /\ d.step = "typeNext" /\ d.request = r /\ d.seen /\ d.executed = c.executed
        BY <1>1, <2>2 DEF Connections
      <4>3. /\ strtok'.live /\ strtok'.header = "type" /\ strtok'.rest = Tail(rest)
        <5>1. StrtokNext(w, "type", FALSE)
          BY <2>1, <3>4
        <5> QED
          BY <1>2, <2>3, <2>6, <5>1 DEF StrtokNext, StrtokPositions
      <4>4. ~c.seen /\ r.type[2] = "utf8"
        BY <3>2, <3>3, <3>4
      <4>5. /\ Len(Tail(rest)) = Len(rest) - 1
            /\ \A i \in 1 .. Len(Tail(rest)) : Tail(rest)[i] = rest[i + 1]
        BY <1>2, <2>6, HeadTailProperties
      <4>6. /\ Len(r.type) = Len(Tail(rest)) + 2
            /\ \A i \in 1 .. Len(Tail(rest)) : Tail(rest)[i] = r.type[i + 2]
        <5>1. Len(r.type) = Len(Tail(rest)) + 2
          BY <2>3, <2>4, <4>4, <4>5
        <5>2. ASSUME NEW i \in 1 .. Len(Tail(rest))
              PROVE  Tail(rest)[i] = r.type[i + 2]
          <6>1. i + 1 \in 1 .. Len(rest) /\ i + 1 + 1 = i + 2
            BY <2>4, <4>5
          <6>2. rest[i + 1] = r.type[i + 1 + 1]
            BY <2>3, <4>4, <6>1
          <6> QED
            BY <4>5, <6>1, <6>2
        <5> QED
          BY <5>1, <5>2
      <4> HIDE DEF d
      <4>7. TokenInv(d, strtok')
        BY <1>4, <4>2, <4>3, <4>4, <4>6, StepSets DEF TokenInv
      <4> QED
        BY <1>3, <4>1, <4>2, <4>7, StepSets, WorkSettles
    <3>5. CASE ~CharsetOK(c, token)
      <4>1. Answer(w, "INVALID_CONTENT_TYPE")
        BY <2>1, <3>3, <3>5
      <4>2. r.type \notin JsonTypes
        <5>1. CASE c.seen
          <6>1. Len(r.type) = Len(rest) + 2
            BY <2>3, <5>1
          <6>2. Len(r.type) # 1 /\ Len(r.type) # 2
            BY <2>4, <3>2, <6>1
          <6> QED
            BY <1>6, <6>2
        <5>2. CASE ~c.seen
          <6>1. Len(r.type) = Len(rest) + 1 /\ rest[1] = r.type[1 + 1] /\ rest[1] # "utf8"
            BY <2>3, <3>2, <3>3, <3>5, <5>2
          <6>2. Len(r.type) # 1 /\ r.type[2] # "utf8"
            BY <2>4, <3>2, <6>1
          <6> QED
            BY <1>6, <6>2
        <5> QED
          BY <5>1, <5>2
      <4> QED
        BY <1>7, <4>1, <4>2
    <3> QED
      BY <3>4, <3>5
  <2> QED
    BY <2>5, <2>6
<1> QED
  BY <1>8, <1>9

\* The router, the body and the engine.
LEMMA HandlerSettles ==
  ASSUME ConnInv, SoleInv, NEW w \in Workers, Route(w) \/ Extract(w) \/ Execute(w)
  PROVE  Settles(w)
<1> DEFINE c == conn[w]
           r == c.request
<1>1. c \in Connections /\ ReadInv(c) /\ TokenInv(c, strtok)
  BY DEF ConnInv, SoleInv
<1>2. strtok' = strtok
  BY DEF Route, Extract, Execute, Local
<1>3. /\ c.step \in {"route", "extract", "execute"} /\ c.step \in Routing
      /\ c.step \in HeadRead
  BY StepSets DEF Route, Extract, Execute, Local
<1>4. "chunked" \notin ToSet(r.coding) /\ c.got = Wanted(r)
  BY <1>1, <1>3, StepSets DEF ReadInv, TokenInv
<1>5. ASSUME NEW code, code # "execute", RouteVerdict(r) = code, Answer(w, code)
      PROVE  Settles(w)
  BY <1>3, <1>5, RouteSettles
<1>6. ASSUME NEW next \in {"type", "execute"}, Goto(w, next),
             next = "type" => c.step = "route", next = "execute" => c.step = "extract"
      PROVE  Settles(w)
  <2> DEFINE d == [c EXCEPT !.step = next]
  <2>1. d.step = next /\ d.request = r /\ d.seen = c.seen
    BY <1>1 DEF Connections
  <2> HIDE DEF d
  <2>2. TokenInv(d, strtok')
    BY <1>1, <1>4, <1>6, <2>1, StepSets DEF TokenInv
  <2> QED
    BY <1>3, <1>6, <2>2, StepSets, GotoSettles DEF d
<1>7. CASE Route(w)
  <2>1. c.step = "route"
    BY <1>7 DEF Route, Local
  <2>2. CASE r.path = "/other"
    BY <1>5, <1>7, <2>2 DEF Route, RouteVerdict
  <2>3. CASE r.path # "/other" /\ r.method # MethodOf(r.path)
    BY <1>5, <1>7, <2>3 DEF Route, RouteVerdict
  <2>4. CASE r.path # "/other" /\ r.method = MethodOf(r.path) /\ r.path # "/query"
    <3>1. RouteVerdict(r) = IF c.got > 0 THEN "INVALID_JSON" ELSE "NONE"
      BY <1>4, <2>4 DEF RouteVerdict
    <3>2. Answer(w, IF c.got > 0 THEN "INVALID_JSON" ELSE "NONE")
      BY <1>7, <2>4 DEF Route, HandleGet
    <3> QED
      BY <1>5, <3>1, <3>2
  <2>5. CASE r.path # "/other" /\ r.method = MethodOf(r.path) /\ r.path = "/query"
    <3>1. HandleQuery(w)
      BY <1>7, <2>5 DEF Route
    <3>2. CASE r.length = Absent
      BY <1>5, <2>5, <3>1, <3>2 DEF HandleQuery, RouteVerdict
    <3>3. CASE r.length # Absent /\ r.type = <<>>
      <4>1. r.type \notin {<<"json">>, <<"json", "utf8">>}
        BY <3>3
      <4>2. RouteVerdict(r) = "INVALID_CONTENT_TYPE"
        BY <2>5, <3>3, <4>1 DEF RouteVerdict
      <4> QED
        BY <1>5, <3>1, <3>3, <4>2 DEF HandleQuery
    <3>4. CASE r.length # Absent /\ r.type # <<>>
      BY <1>6, <2>1, <3>1, <3>4 DEF HandleQuery
    <3> QED
      BY <3>2, <3>3, <3>4
  <2> QED
    BY <2>2, <2>3, <2>4, <2>5
<1>8. ASSUME c.step \in Extracting
      PROVE  RouteVerdict(r) = IF ~IsObject(BodyOf(r)) THEN "INVALID_JSON"
                               ELSE IF ~HasSql(BodyOf(r)) THEN "MISSING_SQL_FIELD"
                               ELSE "execute"
  <2>1. /\ r.path = "/query" /\ r.method = "POST" /\ r.length # Absent
        /\ r.type \in JsonTypes
    BY <1>1, <1>8, StepSets DEF ReadInv, TokenInv
  <2> QED
    BY <2>1 DEF RouteVerdict, MethodOf, JsonTypes
<1>9. CASE Extract(w)
  <2>1. c.step = "extract" /\ c.step \in Extracting
    BY <1>9, StepSets DEF Extract, Local
  <2>2. ExtractSqlField(SubSeq(r.body, 1, c.got)) =
          IF ~IsObject(BodyOf(r)) THEN "INVALID_JSON"
          ELSE IF ~HasSql(BodyOf(r)) THEN "MISSING_SQL_FIELD" ELSE "NONE"
    BY <1>1, <1>3, BodyRead, ExtractIsExact
  <2>3. CASE IsObject(BodyOf(r)) /\ HasSql(BodyOf(r))
    <3>1. Goto(w, "execute")
      BY <1>9, <2>2, <2>3 DEF Extract
    <3> QED
      BY <1>6, <2>1, <3>1
  <2>4. CASE ~IsObject(BodyOf(r))
    <3>1. Answer(w, "INVALID_JSON")
      BY <1>9, <2>2, <2>4 DEF Extract
    <3> QED
      BY <1>5, <1>8, <2>1, <2>4, <3>1
  <2>5. CASE IsObject(BodyOf(r)) /\ ~HasSql(BodyOf(r))
    <3>1. Answer(w, "MISSING_SQL_FIELD")
      BY <1>9, <2>2, <2>5 DEF Extract
    <3> QED
      BY <1>5, <1>8, <2>1, <2>5, <3>1
  <2> QED
    BY <2>3, <2>4, <2>5
<1>10. CASE Execute(w)
  <2>1. PICK result \in EngineResults :
          conn' = [conn EXCEPT ![w].step = "send", ![w].answer = result,
                               ![w].executed = TRUE]
    BY <1>10 DEF Execute
  <2> DEFINE d == [c EXCEPT !.step = "send", !.answer = result, !.executed = TRUE]
  <2>2. conn' = [conn EXCEPT ![w] = d]
    BY <1>1, <2>1 DEF Connections, ConnInv
  <2>3. d.step = "send" /\ d.request = r /\ d.sent = c.sent /\ d.executed = TRUE
    BY <1>1 DEF Connections
  <2>4. c.step = "execute" /\ IsObject(BodyOf(r)) /\ HasSql(BodyOf(r))
    BY <1>1, <1>10, StepSets DEF Execute, Local, ReadInv
  <2>5. RouteVerdict(r) = "execute"
    BY <1>8, <2>4, StepSets
  <2>6. \A n \in c.sent .. Size(r) : Verdict(r, n) = "execute"
    BY <1>3, <2>5, RouteSettles
  <2>7. c.sent \in c.sent .. Size(r)
    BY <1>1, ConnectionTypes DEF ReadInv
  <2> HIDE DEF d
  <2>8. TokenInv(d, strtok')
    BY <2>3, StepSets DEF TokenInv
  <2>9. VerdictInv(d)
    BY <2>3, <2>6, <2>7 DEF VerdictInv, AnswersFor
  <2> QED
    BY <2>2, <2>8, <2>9 DEF Settles
<1> QED
  BY <1>7, <1>9, <1>10

\* The response, and memory.
LEMMA ResponseSettles ==
  ASSUME ConnInv, SoleInv, NEW w \in Workers,
         \/ OutOfMemory(w) \/ ResponseOutOfMemory(w)
         \/ SendHead(w) \/ SendBody(w) \/ SendFails(w)
  PROVE  Settles(w)
<1> DEFINE c == conn[w]
<1>1. c \in Connections /\ VerdictInv(c)
  BY DEF ConnInv, SoleInv
<1>2. ASSUME NEW step \in {"send", "sendBody", "close"}, NEW code, NEW out,
             NEW oom \in BOOLEAN,
             conn' = [conn EXCEPT ![w] = [c EXCEPT !.step = step, !.answer = code,
                                                   !.out = out, !.oom = oom]],
             step = "close" \/ oom \/
               (c.step \in {"send", "sendBody"} /\ code = c.answer /\ oom = c.oom)
      PROVE  Settles(w)
  <2> DEFINE d == [c EXCEPT !.step = step, !.answer = code, !.out = out, !.oom = oom]
  <2>1. /\ d.step = step /\ d.request = c.request /\ d.sent = c.sent
        /\ d.executed = c.executed /\ d.answer = code /\ d.oom = oom /\ d.client = c.client
    BY <1>1 DEF Connections
  <2> HIDE DEF d
  <2>2. TokenInv(d, strtok')
    BY <2>1, StepSets DEF TokenInv
  <2>3. VerdictInv(d)
    BY <1>1, <1>2, <2>1 DEF VerdictInv, AnswersFor
  <2> QED
    BY <1>2, <2>2, <2>3 DEF Settles, d
<1>3. CASE OutOfMemory(w)
  <2>1. PICK code \in MemoryErrors(c) :
          conn' = [conn EXCEPT ![w].step = "send", ![w].answer = code, ![w].oom = TRUE]
    BY <1>3 DEF OutOfMemory
  <2>2. conn' = [conn EXCEPT ![w] = [c EXCEPT !.step = "send", !.answer = code,
                                              !.out = c.out, !.oom = TRUE]]
    BY <1>1, <2>1 DEF Connections, ConnInv
  <2> QED
    BY <1>2, <2>2
<1>4. CASE ResponseOutOfMemory(w)
  <2>1. c.step = "send"
    BY <1>4 DEF ResponseOutOfMemory, Local
  <2>2. CASE conn' = [conn EXCEPT ![w].answer = "INTERNAL_ERROR", ![w].oom = TRUE]
    <3>1. conn' = [conn EXCEPT ![w] = [c EXCEPT !.step = "send", !.answer = "INTERNAL_ERROR",
                                                !.out = c.out, !.oom = TRUE]]
      BY <1>1, <2>1, <2>2 DEF Connections, ConnInv
    <3> QED
      BY <1>2, <3>1
  <2>3. CASE conn' = [conn EXCEPT ![w].step = "close", ![w].oom = TRUE]
    <3>1. conn' = [conn EXCEPT ![w] = [c EXCEPT !.step = "close", !.answer = c.answer,
                                                !.out = c.out, !.oom = TRUE]]
      BY <1>1, <2>3 DEF Connections, ConnInv
    <3> QED
      BY <1>2, <3>1
  <2> QED
    BY <1>4, <2>2, <2>3 DEF ResponseOutOfMemory
<1>5. c.oom \in BOOLEAN
  BY <1>1 DEF Connections
<1>6. ASSUME NEW end, NEW next \in {"sendBody", "close"},
             c.step \in {"send", "sendBody"}, SendPart(w, end, next)
      PROVE  Settles(w)
  <2>1. PICK out \in c.out + 1 .. end :
          conn' = [conn EXCEPT ![w].out = out,
                               ![w].step = IF PartSent(out, end) THEN next ELSE @]
    BY <1>6 DEF SendPart
  <2> DEFINE step == IF PartSent(out, end) THEN next ELSE c.step
  <2>2. conn' = [conn EXCEPT ![w] = [c EXCEPT !.step = step, !.answer = c.answer,
                                              !.out = out, !.oom = c.oom]]
    BY <1>1, <2>1 DEF Connections, ConnInv
  <2>3. step \in {"send", "sendBody", "close"}
    BY <1>6
  <2> HIDE DEF step
  <2> QED
    BY <1>2, <1>5, <1>6, <2>2, <2>3
<1>7. CASE SendHead(w)
  BY <1>6, <1>7 DEF SendHead, Local
<1>8. CASE SendBody(w)
  BY <1>6, <1>8 DEF SendBody, Local
<1>9. CASE SendFails(w)
  <2>1. conn' = [conn EXCEPT ![w] = [c EXCEPT !.step = "close", !.answer = c.answer,
                                              !.out = c.out, !.oom = c.oom]]
    BY <1>1, <1>9 DEF SendFails, Goto, Connections, ConnInv
  <2> QED
    BY <1>2, <1>5, <2>1
<1> QED
  BY <1>3, <1>4, <1>7, <1>8, <1>9

-----------------------------------------------------------------------------
OneWorker == \E w : Workers = {w}

\* No connection has been answered in an initial state.
LEMMA SoleInit == Init => SoleInv
<1> SUFFICES ASSUME Init PROVE SoleInv
  OBVIOUS
<1>1. \A w \in Workers : conn[w].step = "idle" /\ conn[w].executed = FALSE
                         /\ conn[w].seen = FALSE
  BY DEF Init, Fresh
<1> QED
  BY <1>1, StepSets DEF SoleInv, TokenInv, VerdictInv

\* With one worker, every step keeps the verdicts.
LEMMA SoleNext == OneWorker /\ ConnInv /\ SoleInv /\ [Next]_vars => SoleInv'
<1> SUFFICES ASSUME OneWorker, ConnInv, SoleInv, [Next]_vars PROVE SoleInv'
  OBVIOUS
<1>1. ASSUME NEW w \in Workers, Settles(w)
      PROVE  SoleInv'
  <2>1. PICK d : conn' = [conn EXCEPT ![w] = d] /\ TokenInv(d, strtok') /\ VerdictInv(d)
    BY <1>1 DEF Settles
  <2>2. \A v \in Workers : conn'[v] = d
    BY <2>1 DEF OneWorker, ConnInv
  <2> QED
    BY <2>1, <2>2 DEF SoleInv
<1>2. ASSUME NEW w \in Workers, Connect(w) \/ ClientStep(w) \/ ClientLeave(w) \/ WorkerStep(w)
      PROVE  SoleInv'
  <2>1. Settles(w)
    BY <1>2, ClientSettles, HeaderSettles, CodingSettles, TypeSettles, HandlerSettles,
       ResponseSettles DEF WorkerStep
  <2> QED
    BY <1>1, <2>1
<1>3. CASE UNCHANGED vars
  BY <1>3 DEF vars, SoleInv
<1> QED
  BY <1>2, <1>3 DEF Next, Idle

\* With one worker, both invariants hold throughout.
LEMMA SoleInvariant == ASSUME OneWorker PROVE Spec => [](ConnInv /\ SoleInv)
<1>1. Init => ConnInv /\ SoleInv
  BY ConnInit, SoleInit
<1>2. ConnInv /\ SoleInv /\ [Next]_vars => (ConnInv /\ SoleInv)'
  BY ConnNext, SoleNext
<1> QED
  BY <1>1, <1>2, PTL DEF Spec

\* The server reads every other request as the API specification does.
LEMMA DocumentedElsewhere ==
  ASSUME NEW r, IsRequest(r), ~Tolerated(r), NEW n \in 0 .. Size(r)
  PROVE  Documented(r, n) = Verdict(r, n)
<1>1. /\ r.head \in Nat /\ Len(r.body) \in Nat /\ r.body \in Seq(JsonTokens)
      /\ r.length \in {Absent, Malformed} \cup Nat /\ r.method \in {"GET", "POST"}
      /\ r.path \in {"/", "/health", "/query", "/other"}
      /\ n \in Nat /\ n <= r.head + Len(r.body)
  BY DEF IsRequest, Size
<1>2. ~(r.length >= 0 /\ n > r.head + r.length)
  <2> SUFFICES ASSUME r.length >= 0, n > r.head + r.length
               PROVE  FALSE
    OBVIOUS
  <2>1. r.length \in Nat
    BY <1>1 DEF Absent, Malformed
  <2> QED
    BY <1>1, <2>1 DEF Tolerated
<1>3. ~(Verdict(r, n) = "NONE" /\ n > r.head)
  <2> SUFFICES ASSUME Verdict(r, n) = "NONE", n > r.head
               PROVE  FALSE
    OBVIOUS
  <2>1. HeadVerdict(r, n) = "route" /\ RouteVerdict(r) = "NONE"
    BY DEF Verdict, HeadVerdict
  <2>2. /\ r.path \in {"/", "/health"} /\ r.method = "GET" /\ ~(Wanted(r) > 0)
    BY <1>1, <2>1 DEF RouteVerdict, MethodOf
  <2>3. r.length # Malformed
    BY <2>1 DEF HeadVerdict
  <2>4. r.length \in {Absent, 0}
    BY <1>1, <2>2, <2>3 DEF Wanted
  <2>5. r.body # <<>>
    BY <1>1
  <2>6. r.length = Absent
    BY <1>1, <1>2, <2>4
  <2> QED
    BY <2>2, <2>5, <2>6 DEF Tolerated
<1>4. ~HasLastComma(BodyOf(r))
  BY DEF Tolerated
<1> QED
  BY <1>2, <1>3, <1>4 DEF Documented

(* With one worker the answer is the one the API documents for the bytes   *)
(* the client sent, for any requests, any limits and however the bytes are *)
(* cut: the first check that fails decides, in the order of the error      *)
(* table, and extract_sql_field decides as the reference grammar does.     *)
(* Only Tolerated requests are read less strictly.                         *)
THEOREM AnswersMatchRequests == ASSUME OneWorker PROVE Spec => []AnswerMatchesRequest
<1>1. ConnInv /\ SoleInv => AnswerMatchesRequest
  <2> SUFFICES ASSUME ConnInv, SoleInv, NEW w \in Workers,
                      Answering(w), conn[w].client # "gone", ~conn[w].oom
               PROVE  LET r == conn[w].request
                          n == conn[w].sent
                      IN IsAnswered(w, IF Tolerated(r) THEN Verdict(r, n) ELSE Documented(r, n))
    BY DEF AnswerMatchesRequest
  <2> DEFINE r == conn[w].request
             n == conn[w].sent
  <2>1. conn[w] \in Connections /\ ReadInv(conn[w])
    BY DEF ConnInv
  <2>2. IsRequest(r) /\ n \in 0 .. Size(r)
    BY <2>1, ConnectionTypes DEF ReadInv
  <2>3. IsAnswered(w, Verdict(r, n))
    BY DEF SoleInv, VerdictInv, AnswersFor, IsAnswered, Answering
  <2>4. ~Tolerated(r) => Documented(r, n) = Verdict(r, n)
    BY <2>2, DocumentedElsewhere
  <2> HIDE DEF r, n
  <2>5. IsAnswered(w, IF Tolerated(r) THEN Verdict(r, n) ELSE Documented(r, n))
    BY <2>3, <2>4
  <2> QED
    BY <2>5 DEF r, n
<1> QED
  BY <1>1, SoleInvariant, PTL

(* With one worker SQL reaches the engine only from a request that every   *)
(* check accepts, also when the client leaves or memory is short.          *)
THEOREM OnlyAcceptedExecute == ASSUME OneWorker PROVE Spec => []ExecutesOnlyAccepted
<1>1. ConnInv /\ SoleInv => ExecutesOnlyAccepted
  <2> SUFFICES ASSUME ConnInv, SoleInv, NEW w \in Workers, conn[w].executed
               PROVE  Verdict(conn[w].request, conn[w].sent) = "execute"
    BY DEF ExecutesOnlyAccepted
  <2>1. conn[w] \in Connections /\ ReadInv(conn[w])
    BY DEF ConnInv
  <2>2. conn[w].sent \in conn[w].sent .. Size(conn[w].request)
    BY <2>1, ConnectionTypes DEF ReadInv
  <2> QED
    BY <2>2 DEF SoleInv, VerdictInv
<1> QED
  BY <1>1, SoleInvariant, PTL
=============================================================================
