--------------------------- MODULE HttpConnection ---------------------------
(***************************************************************************)
(* What a worker does with one connection: http_read_request, the router,  *)
(* the handlers of api/ and http_response_send, for several workers at     *)
(* once.  The client sends its bytes in any portions and may stop or leave *)
(* at any time.                                                            *)
(*                                                                         *)
(* A request is a record.  Its header section is a number of bytes and     *)
(* what the parser will find in it; its body is a sequence of JSON tokens, *)
(* one byte each, so that it can be cut anywhere.  Two headers are split   *)
(* with strtok, whose position is one variable for the whole process.      *)
(***************************************************************************)
EXTENDS Integers, Sequences, SequencesExt

CONSTANTS
  Workers,
  Requests,        \* what clients may send
  HeaderLimit,     \* header_limit
  BodyLimit,       \* request_body_limit
  MaxConnections,  \* bound: connections in one behaviour
  Faults           \* {"oom"} or {}

ASSUME LimitAssumption ==
  /\ HeaderLimit \in Nat \ {0} /\ BodyLimit \in Nat /\ MaxConnections \in Nat
  /\ Faults \subseteq {"oom"}

VARIABLES
  conn,      \* conn[w]: the connection of worker w
  strtok,    \* the position strtok keeps
  served     \* connections handed to workers so far

vars == <<conn, strtok, served>>

\* Values of length other than a number: no Content-Length, or not a number.
Absent == -1
Malformed == -2

JsonTokens == {"open", "close", "colon", "comma", "sql", "text", "scalar", "other"}

(* head: bytes up to and with the blank line, or all there are if ended is *)
(* FALSE.  wellFormed: request line and header lines parse.  coding and    *)
(* type: the parts of Transfer-Encoding and Content-Type between the       *)
(* separators, empty without the header; of several headers of one name    *)
(* http_request_get_header takes the first.                                *)
IsRequest(r) ==
  /\ r.head \in Nat \ {0} /\ r.ended \in BOOLEAN /\ r.wellFormed \in BOOLEAN
  /\ r.coding \in Seq({"chunked", "gzip"})
  /\ r.type \in Seq({"json", "plain", "utf8", "latin1"})
  /\ r.length \in {Absent, Malformed} \cup Nat
  /\ r.method \in {"GET", "POST"}
  /\ r.path \in {"/", "/health", "/query", "/other"}
  /\ r.body \in Seq(JsonTokens)

ASSUME RequestAssumption == \A r \in Requests : IsRequest(r)

NoRequest ==
  [head |-> 1, ended |-> FALSE, wellFormed |-> FALSE, coding |-> <<>>,
   type |-> <<>>, length |-> Absent, method |-> "GET", path |-> "/",
   body |-> <<>>]

Size(r) == r.head + Len(r.body)

\* What the client sees of an answer: header section and body, in units.
AnswerHead == 2
AnswerBody == 2

Codes ==
  {"NONE", "INVALID_JSON", "MISSING_SQL_FIELD", "INVALID_CONTENT_TYPE",
   "CONTENT_LENGTH_REQUIRED", "INVALID_CONTENT_LENGTH", "PAYLOAD_TOO_LARGE",
   "HEADER_TOO_LARGE", "CHUNKED_NOT_SUPPORTED", "METHOD_NOT_ALLOWED",
   "NOT_FOUND", "SQL_LEX_ERROR", "SQL_PARSE_ERROR", "UNSUPPORTED_SQL",
   "INVALID_SQL_ARGUMENT", "ENGINE_EXECUTION_ERROR", "SCHEMA_LOAD_ERROR",
   "STORAGE_IO_ERROR", "INDEX_REBUILD_ERROR", "INTERNAL_ERROR"}

\* sql_engine_adapter_execute: the result the handler is given.
EngineResults ==
  {"NONE", "INVALID_SQL_ARGUMENT", "PAYLOAD_TOO_LARGE", "SQL_LEX_ERROR",
   "SQL_PARSE_ERROR", "UNSUPPORTED_SQL", "SCHEMA_LOAD_ERROR", "STORAGE_IO_ERROR",
   "INDEX_REBUILD_ERROR", "ENGINE_EXECUTION_ERROR", "INTERNAL_ERROR"}

Steps ==
  {"idle", "header", "parse", "coding", "codingNext", "length", "body",
   "route", "type", "typeNext", "extract", "execute", "send", "sendBody",
   "close"}

(* step: where the worker is.  sent, client: what the client has sent, and *)
(* whether it will send more (open), only listens (finished) or has gone.  *)
(* total, got: header and body bytes received.  seen: seen_charset.        *)
(* routed, executed: the request has been read, its SQL has been given to  *)
(* the engine.  answer: the error code of the response, NONE for 200.      *)
(* out: units of it handed to the socket.  oom: an allocation has failed.  *)
Fresh(step, r) ==
  [step |-> step, request |-> r, sent |-> 0, client |-> "open", total |-> 0,
   got |-> 0, seen |-> FALSE, routed |-> FALSE, executed |-> FALSE,
   answer |-> "NONE", out |-> 0, oom |-> FALSE]

\* strtok has not been called yet; owner "none" is never a worker.
NoPosition == [owner |-> "none", header |-> "coding", rest |-> <<>>, live |-> FALSE]

Init ==
  /\ conn = [w \in Workers |-> Fresh("idle", NoRequest)]
  /\ strtok = NoPosition
  /\ served = 0

-----------------------------------------------------------------------------
(* The client and its connection. *)

\* server_task_queue_pop returns a connection and http_read_request begins.
Connect(w) ==
  /\ conn[w].step = "idle"
  /\ served < MaxConnections
  /\ \E r \in Requests : conn' = [conn EXCEPT ![w] = Fresh("header", r)]
  /\ served' = served + 1
  /\ UNCHANGED strtok

ClientSend(w) ==
  /\ conn[w].step # "idle" /\ conn[w].client = "open"
  /\ conn[w].sent < Size(conn[w].request)
  /\ conn' = [conn EXCEPT ![w].sent = @ + 1]
  /\ UNCHANGED <<strtok, served>>

\* The client shuts down its sending side and waits for the answer.
ClientFinish(w) ==
  /\ conn[w].step # "idle" /\ conn[w].client = "open"
  /\ conn' = [conn EXCEPT ![w].client = "finished"]
  /\ UNCHANGED <<strtok, served>>

ClientLeave(w) ==
  /\ conn[w].step # "idle" /\ conn[w].client # "gone"
  /\ conn' = [conn EXCEPT ![w].client = "gone"]
  /\ UNCHANGED <<strtok, served>>

Unread(c) == c.sent - c.total - c.got

\* Mutant of StreamEnded: a recv that returns 0 is tried again.
StreamFailed(c) == c.client = "gone"

\* recv returns 0 or -1: all was read and no more will come, or the peer has
\* gone and what it had sent may be lost with it.
StreamEnded(c) ==
  \/ c.client = "finished" /\ Unread(c) = 0
  \/ c.client = "gone"

-----------------------------------------------------------------------------
(* http_read_request. *)

Goto(w, step) == conn' = [conn EXCEPT ![w].step = step]
Answer(w, code) == conn' = [conn EXCEPT ![w].step = "send", ![w].answer = code]
Local(w, step) == conn[w].step = step /\ UNCHANGED <<strtok, served>>

\* Mutant of HeaderRoom: one byte more than the limit.
HeaderRoomForOneMore(c) == c.total <= HeaderLimit

HeaderRoom(c) == c.total < HeaderLimit

RecvHeaderByte(w) ==
  /\ Local(w, "header")
  /\ HeaderRoom(conn[w])
  /\ Unread(conn[w]) > 0
  /\ LET complete == conn[w].request.ended /\ conn[w].total + 1 = conn[w].request.head
     IN conn' = [conn EXCEPT ![w].total = @ + 1,
                             ![w].step = IF complete THEN "parse" ELSE @]

RecvHeaderEnds(w) ==
  /\ Local(w, "header")
  /\ HeaderRoom(conn[w])
  /\ StreamEnded(conn[w])
  /\ Answer(w, "INVALID_CONTENT_LENGTH")

HeaderTooLarge(w) ==
  /\ Local(w, "header")
  /\ ~HeaderRoom(conn[w])
  /\ Answer(w, "HEADER_TOO_LARGE")

\* Request line and header lines; then on to Transfer-Encoding, if it is there.
ParseHeader(w) ==
  /\ Local(w, "parse")
  /\ IF ~conn[w].request.wellFormed THEN Answer(w, "INVALID_CONTENT_LENGTH")
     ELSE Goto(w, IF conn[w].request.coding = <<>> THEN "length" ELSE "coding")

(* strtok(text, ...): the first token of the worker's own copy of header,  *)
(* which is where the next call goes on unless the copy is freed at once.  *)
StrtokFirst(w, header, freed) ==
  strtok' = [owner |-> w, header |-> header, live |-> ~freed,
             rest |-> Tail(conn[w].request[header])]

(* strtok(NULL, ...): the tokens it may return, <<>> for NULL, and how it  *)
(* moves.  The position may be in another worker's copy: in one of the     *)
(* other header the separator is not found and the rest is one token; one  *)
(* that has been freed may hold anything.                                  *)
NextTokens(header) ==
  IF ~strtok.live THEN {<<>>, <<"chunked">>, <<"utf8">>, <<"garbage">>}
  ELSE IF strtok.rest = <<>> THEN {<<>>}
  ELSE IF strtok.header = header THEN {<<Head(strtok.rest)>>}
  ELSE {<<"garbage">>}

\* The position after that call, and after free(copy) if the worker is done:
\* in its own copy it dangles then.
StrtokNext(w, header, freed) ==
  strtok' = [strtok EXCEPT
               !.rest = IF @ = <<>> \/ strtok.header # header THEN <<>> ELSE Tail(@),
               !.live = @ /\ ~(freed /\ strtok.owner = w)]

CodingFirst(w) ==
  /\ conn[w].step = "coding"
  /\ LET chunked == Head(conn[w].request.coding) = "chunked"
     IN /\ StrtokFirst(w, "coding", chunked)
        /\ IF chunked THEN Answer(w, "CHUNKED_NOT_SUPPORTED") ELSE Goto(w, "codingNext")
  /\ UNCHANGED served

\* The next token of Transfer-Encoding; at NULL the copy is freed.
CodingNext(w) ==
  /\ conn[w].step = "codingNext"
  /\ \E token \in NextTokens("coding") :
       LET chunked == token = <<"chunked">>
           done == token = <<>> \/ chunked
       IN /\ StrtokNext(w, "coding", done)
          /\ \/ token = <<>> /\ Goto(w, "length")
             \/ chunked /\ Answer(w, "CHUNKED_NOT_SUPPORTED")
             \/ ~done /\ UNCHANGED conn
  /\ UNCHANGED served

\* Mutant of BodyFits: one byte more than the limit.
BodyFitsWithOneMore(r) == r.length <= BodyLimit + 1

BodyFits(r) == r.length <= BodyLimit

Read(w, got) ==
  conn' = [conn EXCEPT ![w].step = "route", ![w].routed = TRUE, ![w].got = got]

CheckLength(w) ==
  /\ Local(w, "length")
  /\ LET r == conn[w].request
     IN IF r.length = Malformed THEN Answer(w, "INVALID_CONTENT_LENGTH")
        ELSE IF r.length \in {Absent, 0} THEN Read(w, 0)
        ELSE IF ~BodyFits(r) THEN Answer(w, "PAYLOAD_TOO_LARGE")
        ELSE Goto(w, "body")

\* One round of recv_exact: any part of what is there, and no more than wanted.
RecvBody(w) ==
  /\ Local(w, "body")
  /\ \E n \in 1 .. Unread(conn[w]) :
       LET got == conn[w].got + n
       IN /\ got <= conn[w].request.length
          /\ IF got = conn[w].request.length THEN Read(w, got)
             ELSE conn' = [conn EXCEPT ![w].got = got]

RecvBodyEnds(w) ==
  /\ Local(w, "body")
  /\ StreamEnded(conn[w])
  /\ Answer(w, "INVALID_CONTENT_LENGTH")

-----------------------------------------------------------------------------
(* http_route_request and the handlers. *)

MethodOf(path) == IF path = "/query" THEN "POST" ELSE "GET"

\* api_handle_health and api_handle_root take no body.
HandleGet(w) == Answer(w, IF conn[w].got > 0 THEN "INVALID_JSON" ELSE "NONE")

\* The headers api_handle_query wants, before it looks at Content-Type.
HandleQuery(w) ==
  IF conn[w].request.length = Absent THEN Answer(w, "CONTENT_LENGTH_REQUIRED")
  ELSE IF conn[w].request.type = <<>> THEN Answer(w, "INVALID_CONTENT_TYPE")
  ELSE Goto(w, "type")

Route(w) ==
  /\ Local(w, "route")
  /\ LET r == conn[w].request
     IN IF r.path = "/other" THEN Answer(w, "NOT_FOUND")
        ELSE IF r.method # MethodOf(r.path) THEN Answer(w, "METHOD_NOT_ALLOWED")
        ELSE IF r.path = "/query" THEN HandleQuery(w) ELSE HandleGet(w)

TypeFirst(w) ==
  /\ conn[w].step = "type"
  /\ LET json == Head(conn[w].request.type) = "json"
     IN /\ StrtokFirst(w, "type", ~json)
        /\ IF json THEN Goto(w, "typeNext") ELSE Answer(w, "INVALID_CONTENT_TYPE")
  /\ UNCHANGED served

\* Mutant of CharsetOK: a second charset passes.
AnyCharsetOK(c, token) == token = <<"utf8">>

CharsetOK(c, token) == token = <<"utf8">> /\ ~c.seen

\* The next parameter of Content-Type: charset=utf-8, once, or NULL.
TypeNext(w) ==
  /\ conn[w].step = "typeNext"
  /\ \E token \in NextTokens("type") :
       LET charset == CharsetOK(conn[w], token)
       IN /\ StrtokNext(w, "type", ~charset)
          /\ \/ token = <<>> /\ Goto(w, "extract")
             \/ charset /\ conn' = [conn EXCEPT ![w].seen = TRUE]
             \/ token # <<>> /\ ~charset /\ Answer(w, "INVALID_CONTENT_TYPE")
  /\ UNCHANGED served

(* extract_sql_field and the scanners under it, one token a step.  at is   *)
(* what is expected next, sql: the key read last was "sql".                *)
JsonStart == [at |-> "object", sql |-> FALSE, found |-> FALSE]

JsonNext(s, token) ==
  LET To(at) == [s EXCEPT !.at = at]
      Str == token \in {"sql", "text"}
  IN CASE s.at = "object" /\ token = "open" -> To("key")
       [] s.at = "key" /\ token = "close" -> To("end")
       [] s.at = "key" /\ Str -> [s EXCEPT !.at = "colon", !.sql = token = "sql"]
       [] s.at = "colon" /\ token = "colon" -> To("value")
       [] s.at = "value" /\ Str -> [s EXCEPT !.at = "after", !.found = @ \/ s.sql]
       [] s.at = "value" /\ token = "scalar" /\ ~s.sql -> To("after")
       [] s.at = "after" /\ token = "comma" -> To("key")
       [] s.at = "after" /\ token = "close" -> To("end")
       [] OTHER -> To("error")

ExtractSqlField(body) ==
  LET scan[i \in 0 .. Len(body)] ==
        IF i = 0 THEN JsonStart ELSE JsonNext(scan[i - 1], body[i])
      s == scan[Len(body)]
  IN IF s.at # "end" THEN "INVALID_JSON"
     ELSE IF ~s.found THEN "MISSING_SQL_FIELD" ELSE "NONE"

Extract(w) ==
  /\ Local(w, "extract")
  /\ LET code == ExtractSqlField(SubSeq(conn[w].request.body, 1, conn[w].got))
     IN IF code = "NONE" THEN Goto(w, "execute") ELSE Answer(w, code)

\* db_service_execute_sql, whose result becomes the answer.
Execute(w) ==
  /\ Local(w, "execute")
  /\ \E result \in EngineResults :
       conn' = [conn EXCEPT ![w].step = "send", ![w].answer = result,
                            ![w].executed = TRUE]

\* The code an allocation failure turns into: the reader reports it, a handler
\* takes it for a bad header or bad JSON.
MemoryErrors(c) ==
  CASE c.step = "header" /\ c.total = 0 -> {"INTERNAL_ERROR"}
    [] c.step \in {"parse", "coding"} -> {"INTERNAL_ERROR"}
    [] c.step = "length" /\ c.request.length # Malformed /\ BodyFits(c.request) ->
         {"INTERNAL_ERROR"}
    [] c.step = "type" -> {"INVALID_CONTENT_TYPE"}
    [] c.step = "extract" -> {"INVALID_JSON"}
    [] OTHER -> {}

OutOfMemory(w) ==
  /\ "oom" \in Faults
  /\ \E code \in MemoryErrors(conn[w]) :
       conn' = [conn EXCEPT ![w].step = "send", ![w].answer = code, ![w].oom = TRUE]
  /\ UNCHANGED <<strtok, served>>

(* The response cannot be built.  Instead of a handler's response an       *)
(* internal error is sent; if that, or the reader's error, cannot be built *)
(* the connection is closed without an answer.                             *)
ResponseOutOfMemory(w) ==
  /\ "oom" \in Faults
  /\ Local(w, "send") /\ conn[w].out = 0
  /\ IF conn[w].routed /\ ~(conn[w].oom /\ conn[w].answer = "INTERNAL_ERROR")
     THEN conn' = [conn EXCEPT ![w].answer = "INTERNAL_ERROR", ![w].oom = TRUE]
     ELSE conn' = [conn EXCEPT ![w].step = "close", ![w].oom = TRUE]

-----------------------------------------------------------------------------
(* http_response_send, and the end of handle_client_request. *)

Whole == AnswerHead + AnswerBody

\* Mutant of PartSent: what the first send took is taken for all of it.
PartSentAtOnce(out, end) == TRUE

\* The loop of send_all ends at the end of its buffer.
PartSent(out, end) == out = end

\* One send() of send_all, which takes some of what is left up to end.
SendPart(w, end, next) ==
  \E out \in conn[w].out + 1 .. end :
    conn' = [conn EXCEPT ![w].out = out, ![w].step = IF PartSent(out, end) THEN next ELSE @]

SendHead(w) == Local(w, "send") /\ SendPart(w, AnswerHead, "sendBody")

SendBody(w) == Local(w, "sendBody") /\ SendPart(w, Whole, "close")

\* send fails because the peer has gone.
SendFails(w) ==
  /\ conn[w].step \in {"send", "sendBody"}
  /\ conn[w].client = "gone"
  /\ Goto(w, "close")
  /\ UNCHANGED <<strtok, served>>

\* The worker frees what belongs to the request, closes the socket and turns
\* to the queue.
CloseClient(w) ==
  /\ Local(w, "close")
  /\ conn' = [conn EXCEPT ![w] = Fresh("idle", NoRequest)]

-----------------------------------------------------------------------------
WorkerStep(w) ==
  \/ RecvHeaderByte(w) \/ RecvHeaderEnds(w) \/ HeaderTooLarge(w)
  \/ ParseHeader(w) \/ CodingFirst(w) \/ CodingNext(w) \/ CheckLength(w)
  \/ RecvBody(w) \/ RecvBodyEnds(w)
  \/ Route(w) \/ TypeFirst(w) \/ TypeNext(w) \/ Extract(w) \/ Execute(w)
  \/ OutOfMemory(w) \/ ResponseOutOfMemory(w)
  \/ SendHead(w) \/ SendBody(w) \/ SendFails(w) \/ CloseClient(w)

\* The client sends the rest of its request or says that there is no more.
ClientStep(w) == ClientSend(w) \/ ClientFinish(w)

Idle ==
  /\ served = MaxConnections
  /\ \A w \in Workers : conn[w].step = "idle"
  /\ UNCHANGED vars

Next ==
  \/ \E w \in Workers : Connect(w) \/ ClientStep(w) \/ ClientLeave(w) \/ WorkerStep(w)
  \/ Idle

Spec == Init /\ [][Next]_vars

Fairness == \A w \in Workers : WF_vars(WorkerStep(w)) /\ WF_vars(ClientStep(w))
FairSpec == Spec /\ Fairness

-----------------------------------------------------------------------------
(* Properties. *)

TypeOK ==
  /\ served \in 0 .. MaxConnections
  /\ strtok.owner \in Workers \cup {"none"} /\ strtok.live \in BOOLEAN
  /\ strtok.header \in {"coding", "type"}
  /\ \A w \in Workers :
       /\ conn[w].step \in Steps
       /\ conn[w].request \in Requests \cup {NoRequest}
       /\ conn[w].client \in {"open", "finished", "gone"}
       /\ conn[w].sent \in 0 .. Size(conn[w].request)
       /\ conn[w].total \in 0 .. HeaderLimit    \* the header buffer
       /\ conn[w].got \in 0 .. BodyLimit        \* the body buffer
       /\ conn[w].out \in 0 .. Whole
       /\ conn[w].answer \in Codes
       /\ {conn[w].seen, conn[w].routed, conn[w].executed, conn[w].oom} \subseteq BOOLEAN

\* Reference for extract_sql_field: the positions of an object of string keys,
\* with an optional comma at its end, which the code accepts.
KindAt(body, i) ==
  CASE i % 4 = 2 -> {"sql", "text"}
    [] i % 4 = 3 -> {"colon"}
    [] i % 4 = 0 -> IF body[i - 2] = "sql" THEN {"sql", "text"}
                    ELSE {"sql", "text", "scalar"}
    [] OTHER -> {"comma"}
IsObject(body) ==
  /\ Len(body) >= 2 /\ body[1] = "open" /\ body[Len(body)] = "close"
  /\ Len(body) % 4 \in {1, 2}
  /\ \A i \in 2 .. Len(body) - 1 : body[i] \in KindAt(body, i)
HasSql(body) == \E i \in 2 .. Len(body) - 1 : i % 4 = 2 /\ body[i] = "sql"

\* The bytes of its body a request announces, and those of them it has.
Wanted(r) == IF r.length > 0 THEN r.length ELSE 0
BodyOf(r) == SubSeq(r.body, 1, IF Wanted(r) < Len(r.body) THEN Wanted(r) ELSE Len(r.body))

(* How the server reads a request of which n bytes arrived before the      *)
(* client stopped: the rows of the API's error table in the order of the   *)
(* checks, on the announced part of the body.                              *)
HeadVerdict(r, n) ==
  LET headFits == r.ended /\ r.head <= HeaderLimit
  IN IF ~headFits /\ n >= HeaderLimit THEN "HEADER_TOO_LARGE"
     ELSE IF ~headFits \/ n < r.head \/ ~r.wellFormed THEN "INVALID_CONTENT_LENGTH"
     ELSE IF "chunked" \in ToSet(r.coding) THEN "CHUNKED_NOT_SUPPORTED"
     ELSE IF r.length = Malformed THEN "INVALID_CONTENT_LENGTH"
     ELSE IF r.length > BodyLimit THEN "PAYLOAD_TOO_LARGE"
     ELSE IF n < r.head + Wanted(r) THEN "INVALID_CONTENT_LENGTH"
     ELSE "route"
RouteVerdict(r) ==
  IF r.path = "/other" THEN "NOT_FOUND"
  ELSE IF r.method # MethodOf(r.path) THEN "METHOD_NOT_ALLOWED"
  ELSE IF r.path # "/query" THEN IF Wanted(r) > 0 THEN "INVALID_JSON" ELSE "NONE"
  ELSE IF r.length = Absent THEN "CONTENT_LENGTH_REQUIRED"
  ELSE IF r.type \notin {<<"json">>, <<"json", "utf8">>} THEN "INVALID_CONTENT_TYPE"
  ELSE IF ~IsObject(BodyOf(r)) THEN "INVALID_JSON"
  ELSE IF ~HasSql(BodyOf(r)) THEN "MISSING_SQL_FIELD"
  ELSE "execute"
Verdict(r, n) ==
  IF HeadVerdict(r, n) = "route" THEN RouteVerdict(r) ELSE HeadVerdict(r, n)

HasLastComma(body) == IsObject(body) /\ body[Len(body) - 1] = "comma"

(* What docs/week8-api-spec.md says of that request.  It is stricter than  *)
(* the server's reading at three points: a body longer than Content-Length *)
(* (lines 184, 318), a body without Content-Length where none may be       *)
(* (lines 181, 182, 218), and a comma before the closing brace, which is   *)
(* no JSON (line 179).                                                     *)
Documented(r, n) ==
  IF HeadVerdict(r, n) = "route" /\ r.length >= 0 /\ n > r.head + r.length
  THEN "INVALID_CONTENT_LENGTH"
  ELSE IF Verdict(r, n) = "NONE" /\ n > r.head THEN "INVALID_JSON"
  ELSE IF Verdict(r, n) \in {"execute", "MISSING_SQL_FIELD"} /\ HasLastComma(BodyOf(r))
  THEN "INVALID_JSON"
  ELSE Verdict(r, n)

\* The requests for which the server is known to read less strictly than that.
Tolerated(r) ==
  \/ r.length >= 0 /\ Len(r.body) > r.length
  \/ r.length = Absent /\ r.body # <<>> /\ r.method = "GET" /\ r.path \in {"/", "/health"}
  \/ HasLastComma(BodyOf(r))

Answering(w) == conn[w].step \in {"send", "sendBody"}

IsAnswered(w, verdict) ==
  IF verdict = "execute" THEN conn[w].executed ELSE conn[w].answer = verdict

(* The answer is the one the API documents for the bytes the client sent,  *)
(* however they were cut into segments, wherever the client stopped and    *)
(* whatever the other workers parse at that time.  For the three kinds of  *)
(* Tolerated requests, where the code and that document disagree, it is    *)
(* the answer of the server's own reading; a client that has gone and a    *)
(* request that ran out of memory are excepted.                            *)
AnswerMatchesRequest ==
  \A w \in Workers :
    Answering(w) /\ conn[w].client # "gone" /\ ~conn[w].oom =>
      LET r == conn[w].request
          n == conn[w].sent
      IN IsAnswered(w, IF Tolerated(r) THEN Verdict(r, n) ELSE Documented(r, n))

(* SQL reaches the engine only from a request that came in whole and that  *)
(* every check of the server accepts: never from one that was cut short,   *)
(* is over a limit or that an earlier check should have refused, also when *)
(* the client leaves or memory is short.  Acceptance is the server's own:  *)
(* bytes behind the announced body and a comma before the closing brace    *)
(* are no reason for it to refuse.                                         *)
ExecutesOnlyAccepted ==
  \A w \in Workers :
    conn[w].executed => Verdict(conn[w].request, conn[w].sent) = "execute"

(* A client that is still there gets one whole response before the worker  *)
(* closes the connection, however little each send takes.                  *)
AnsweredWhole ==
  \A w \in Workers :
    conn[w].step = "close" /\ conn[w].client # "gone" /\ ~conn[w].oom =>
      conn[w].out = Whole

(* A worker that took a connection comes back to the queue, if the client  *)
(* sends what it announced or says that there is no more: recv_exact and   *)
(* the header loop do not wait for bytes that cannot come.                 *)
ConnectionEnds ==
  \A w \in Workers : conn[w].step = "header" ~> conn[w].step = "idle"
=============================================================================
