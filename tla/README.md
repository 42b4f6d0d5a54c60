# A TLA+ model of the week 8 database API server

The repository is a small SQL database behind an HTTP API, in C: a server that
accepts connections, a bounded queue, a pool of worker threads, and an engine
that runs `INSERT` and `SELECT` on CSV files with a lazily built in-memory
B+ tree per table. This directory holds TLA+ models of its concurrent core, the
TLC configurations that check them and TLAPS proofs of the main safety
properties. Paths below are relative to the repository's `src/` and `docs/`.

## 1. Inventory

| part | state it keeps | operations | talks to |
|---|---|---|---|
| server object `server/server.c` | `shutting_down`, `listen_socket` (under `state_mutex`), `started`, thread handles | create, start, request_shutdown, wait, destroy | queue, pool, HTTP |
| accept thread | the socket just accepted | accept, push, 503 | queue |
| task queue `server/task_queue.c` | ring `items`, `head`, `tail`, `count`, `closed`, condition `not_empty` | try_push, pop, close, depth | accept thread, workers |
| worker pool `server/worker_pool.c` | threads created | start, join, destroy | main thread |
| process `app/sqlapi_server_main.c` | `global_server` | main, signal handler | server object |
| lock manager `engine/engine_lock_manager.c` | list of entries (under `manager->mutex`), one mutex per table | acquire, release | adapter |
| adapter `engine/sql_engine_adapter.c` | per request: lock handle, output stream | execute | lexer, parser, schema, lock manager, executor |
| executor `execution/executor.c` | per request: schema, next id, row offset | INSERT, SELECT by id, SELECT by scan | index, storage |
| index registry `index/table_index.c` | array of `TableIndex` (count and capacity under `registry_mutex`): loaded, tree, next_id | ensure_loaded, get_next_id, register_row, find_row, invalidate, reset | B+ tree, storage |
| B+ tree `index/bptree.c` | nodes of at most 3 keys | insert, search, free | index registry |
| CSV storage `storage/storage.c` | the files | append, read at offset, scan | executor, index |
| schema `storage/schema.c` | none (files) | load_schema, with two names per table | adapter, executor |
| HTTP `http/`, API `api/` | per request; the position of `strtok`, shared by all threads | read, parse, route, handle, send | server, adapter |
| SQL front end `sql/` | per request: tokens, statement | lex, parse | adapter, CLI |
| CLI `app/main.c` | what is left of standard input, `had_error` | one statement from arguments, file or input; a dialogue | front end, executor |
| `benchmark/`, `common/` | - | - | all |

What is hard to test here, and where the properties aim (PROJECT.json lists
each hazard at its line):

* **queue and shutdown**: lost wakeups, wrap-around, a push racing close, the
  order of the joins, shutdown requested at any moment and more than once,
  thread creation failing half-way;
* **tables**: two requests on one table under different names, an `INSERT` that
  is three separate steps (next id, append, register), failures between them,
  restarts that rebuild ids from row positions;
* **registry**: pointers used after `registry_mutex` is released while the
  array may move;
* **storage**: partial and lost writes, rows longer than the readers' buffer;
* **statements and files**: literals with quotes and a text that ends in one,
  what CSV quoting keeps of a value, offsets of rows appended behind an unended
  line, damaged rows and meta files, whom an error code blames, select lists
  longer than their array, an exit status after a long dialogue;
* **B+ tree**: separators, splits, allocation failure in a split;
* **connections**: requests that arrive in pieces or stop half-way, lengths at
  the limits, a tokenizer whose position the workers share, answers sent in
  parts.

## 2. Modules

| module | what it is |
|---|---|
| `ServerRuntime` | main, accept and worker threads, queue, start / shutdown / wait / destroy |
| `TaskQueueSpec` | abstract bounded closable FIFO, implemented by `ServerRuntime` |
| `ServerRuntimeProofs` | TLAPS proofs about `ServerRuntime` and its queue |
| `MCServerRuntime` | symmetry of the connections, for TLC |
| `Engine` | lock manager, request path, executor, registry, CSV files |
| `TableService` | abstract tables with atomic requests, implemented by `Engine` |
| `EngineProofs`, `EngineServiceProofs` | TLAPS proofs about `Engine`: with all faults; about rows, pointers and `TableService` |
| `MCEngine` | sets of names for TLC |
| `BPlusTree`, `MCBPlusTree` | the tree with recursion over its height, against the map it should be |
| `BPlusTreeProofs` | TLAPS proofs about `BPlusTree` |
| `HttpConnection` | reading, parsing, routing and answering one request per connection |
| `HttpConnectionProofs` | TLAPS proofs about `HttpConnection`: for any number of workers; for one |
| `NumberFacts` | induction over natural numbers, for the proofs |
| `MCHttpConnection` | the requests clients send, for TLC |
| `SqlText` | text as sequences of pieces; trimming, strict integers |
| `SqlLexer`, `SqlParser` | `lex_sql` and `parse_statement` as automata, each with a reference definition |
| `CsvFile` | quoting, parsing, offsets and appending of CSV text |
| `Schema` | from a table name to its meta file, columns and header check |
| `SqlSession` | one statement through lexer, parser, schema and executor |
| `SqlPrograms` | the two programs that run statements: `app/main.c` and the server, one request at a time |
| `TableRows` | abstract tables and statements, implemented by `SqlPrograms` |
| `SqlTextProofs` | TLAPS proofs about the operators of the six modules from `SqlText` to `Schema`, for all texts |
| `SqlProgramsProofs` | TLAPS proofs about `SqlPrograms` |
| `MCSqlPrograms` | statements, files and programs for TLC |

### ServerRuntime

One action per step of a thread. A critical section of the queue mutex is one
step, because nothing in the queue is touched outside it; `pop` is split where
`pthread_cond_wait` gives the mutex up (`PopWait`, then `CondSignal`,
`CondBroadcast` or `SpuriousWakeup`), and `request_shutdown` is split where it
keeps `state_mutex` while it waits for the queue mutex (`BeginShutdown`,
`FinishShutdown`). `wpc`, `apc`, `mpc` and `spc` are the program counters of
workers, accept thread, main thread and of the one other caller of
`request_shutdown`: the test harness, or the signal handler taken as a thread
of its own. `fd` and `answers` describe the sockets, `backlog` what the kernel
holds between `connect` and `accept`. The text of requests is left out: reading
a request succeeds or fails, and the answer is `reply`, `error`, `busy` (503) or
`dropped` (the send failed).

`Faults` switches on the rare events: `bind`/`listen` fails, `pthread_create`
fails for a worker or for the accept thread, a second signal during destroy.

### Engine

A worker's request goes through `parse`, `lookup` (`manager->mutex`), `lock`
(the table's mutex), `exec`, and then along the path of its statement:

* INSERT: `entry` (`get_or_create_table_index`), `load` (`ensure_loaded`),
  `use` (`next_id`), `append`, `register`, again `entry`, `load`, `use`
  (`bptree_insert`), and `invalidate` if the registration failed;
* SELECT by id: `entry`, `load`, `use` (`bptree_search`), `read`;
* SELECT by scan: `scan`.

All of them end in `release`. A step ends where another thread may interfere,
so the window between taking a `TableIndex` pointer and using it is there. A
CSV file is the sequence of lines the readers' `fgets` returns; a line is whole
or one of three kinds of remainder (`cut`, `short`, `broken`) which the readers
treat differently; a byte offset is the number of the line that starts there.
The B+ tree is here the set of its (id, offset) pairs: that this is what
`bptree.c` computes is the business of `BPlusTree`. Following a pointer into a
freed array is undefined behaviour: the model sets `corrupted` and says nothing
of what comes after.

`Restart` covers crashes and orderly stops: memory is lost, files stay, and an
append under way may have written all, part or nothing of its row.

### BPlusTree

Nodes are values and the C arrays are sequences. What the code does by recursion
over pointers is here a function of the height of a subtree: `Nodes[h]` are the
nodes with h levels of inner nodes below them and arrays within their C sizes,
`InsertIntoNode` and `Search` are defined on them, and `height` records how many
levels the tree has (the code has no such field; it knows a leaf by `is_leaf`).
Inserts take the number of allocations that will still succeed, so that every
place where a split can run out of memory is reached. `Offset` is any function
from ids to offsets. The leaves' `next` pointers are left out: no code reads them.

### HttpConnection

What a worker does between taking a connection from the queue and closing it.
`conn[w]` is the connection of worker `w`: the request its client sends, how
much of it was sent and received, where the worker is, the answer and how much
of it has left. The client sends byte by byte, may finish early and wait, or
leave. The worker reads the header a byte at a time up to `header_limit`,
checks request line and headers, reads the body in the parts `recv_exact` gets,
routes, checks the content type, extracts the SQL, executes it and sends header
and body of the answer, each in parts. The engine is a choice of its results
here, since `Engine` models what it does.

A request is a record: the header section is a number of bytes and what the
parser will find in it, and the body is a sequence of JSON tokens of one byte
each, which `extract_sql_field` reads as the automaton `JsonNext`. The fault `oom`
makes an allocation fail wherever a step makes one.

The reference for answers is `Documented`, what `docs/week8-api-spec.md` says of
a request. The code reads three kinds of requests less strictly (`Tolerated`), and
these are the only ones for which `AnswerMatchesRequest` asks for the answer of
the code's own reading (`Verdict`) instead:

* a body longer than `Content-Length`: the bytes behind it are never read, where
  the document wants `INVALID_CONTENT_LENGTH` (lines 184, 318, 536);
* a `GET /` or `GET /health` with a body that no `Content-Length` announces: there
  is no body for the code, where the document wants `INVALID_JSON` (181, 182, 218);
* a comma before the closing brace: accepted, where the document has
  `INVALID_JSON` for what is no JSON (179).

For these requests the run `http_connection` shows that the code differs from the
document, and how: its instance has all three kinds, the answer is `Verdict` in
every behaviour, and with the whole request sent `Documented` says another one. A
`GET /health` with a body byte nobody announced is answered 200, and SQL from an
object with a trailing comma runs.

`Transfer-Encoding` and `Content-Type` are split with `strtok`, whose position is
the variable `strtok`, one for the process. Each call of it is one step: finer
interleavings only add behaviours, and with two workers the property fails
already (`shared_tokenizer`). The passing run therefore has one worker, and
shows what the code does as long as no two workers split headers at the same
time. Texts, the table of status lines, and what a kernel does with unread input
at `close` are left out.

### SqlText, SqlLexer, SqlParser, CsvFile, Schema

`Engine` keeps what concurrent requests share and leaves out what they say;
these modules are about what they say. A text is a sequence of pieces: a word is
one piece, since no code looks inside one except for its first character, its
case and its integer value, and every other character is a piece. The loops of
`lex_sql`, `csv_parse_line` and the descent of the parser, which looks at one
token at a time, are automata that run over the text (`Run`). The lexer and the
parser come with a definition of what they should compute that has no automaton:
a piece is inside a literal if an odd number of quotes precedes it, and a
sequence of tokens is a statement if its tokens stand at the right positions.

Two things that surprise are in the model as the code has them. A literal counts
as closed if the last character of the text is a quote, whichever quote it is
(`LexEnd`); and the search for a table by its declared name ends at the first
meta file that cannot be read (`Stops`), so that one broken file may hide others,
depending on the order of `readdir`.

### SqlSession, SqlPrograms

A statement goes through the stages `lex`, `parse`, `schema`, `execute`; each
stage is an action with the early returns of its code. The index of a table is
the sequence of its rows' offsets. `rows` and `outcomes` are history: what the
files say, and whether each statement succeeded. Writing more entries to
`selected_indexes` than it holds sets `overrun`; that is undefined behaviour,
after which the request goes on as if nothing had happened, or the allocator
ends the process at any later step (`Abort`).

`SqlPrograms` adds the two callers. For `app/main.c` the model has the choice
between options, files, standard input and SQL as an argument, the dialogue with
its commands and its line buffer (`LineMax`), and the exit status. `stat` refuses
a name of more than `NameMax` characters with an error that is not among those
that make an argument SQL, so a longer statement given as one argument or as a
line of the dialogue is refused (`LoadSqlFromArgument`).

`TableRows` says what all this is for: tables are sequences of rows, an `INSERT`
adds the row it spells or is refused for a reason, a `SELECT` returns the chosen
columns of the chosen rows. It allows one loss, of the blanks around a value,
because `csv_escape_field` does not quote them and `csv_parse_line` trims them.
A schema may declare a column twice, which `schema.c` does not refuse; a name then
stands for the first of them (`ColumnOf`), and the second stays empty.

Error codes: `classify_execution_error` decides by the statement and not by what
failed. A damaged row met by `WHERE id` is reported as `INDEX_REBUILD_ERROR` also
when no index was built, and an index that cannot be built for an `INSERT` as
`ENGINE_EXECUTION_ERROR`, where `docs/week8-api-spec.md` section 6 has one code
for failed rebuilds. `BlameIsTruthful` therefore takes the two together, as the
codes for a damaged row. An error that blames the schema or its files needs a
culprit among the `Suspects`: the meta file of the table, or one that cannot be
read and comes before it in the directory. A broken meta file of another table is
no excuse.

## 3. Runs

| run | instance | what it shows |
|---|---|---|
| `server_safety` | 4 connections, queue 2, 3 workers, 2 outside shutdowns, all faults | `TypeOK`, `SingleOwner`, `AnsweredOnce`, `NoStrandedTask`, `DrainedAtJoin`, `ThreadsGoneAtFree` |
| `server_liveness` | 3 connections, queue 2, 2 workers, 1 outside shutdown; listen and accept thread failures | `EventuallyAnswered`, `ShutdownCompletes`, `FailedStartReturns`, and `ImplementsTaskQueue` |
| `engine_requests` | 2 workers, two names of one table, 3 requests; oom, failed registration, restart; fairness | `TypeOK`, `TableExclusion`, `IndexMatchesFile`, `AckedIdIsRowPosition`, `RequestsAnswered`, and each request is atomic: `ImplementsTableService` |
| `engine_faults` | 2 tables, registry that starts with room for 1; torn, lost and long appends; workers and tables interchangeable (symmetry) | `TypeOK`, `IndexDense` |
| `bplus_tree` | 13 ids in every order, `MaxKeys` 3 | search is the map, shape, array bounds |
| `http_connection` | 1 worker, 1 connection, header limit 4, body limit 9, oom | `TypeOK`, `AnswerMatchesRequest` (the documented answer, but for the three kinds of `Tolerated` requests), `ExecutesOnlyAccepted`, `AnsweredWhole`, `ConnectionEnds` |
| `sql_programs` | two tables, one with a declared name; about 2300 statements that differ from five in one piece; 8 CSV files; 9 odd meta files; 18 arguments alone and in pairs; 3456 dialogues; one restart | `TypeOK`, `LiteralsIntact`, `GrammarExact`, `OffsetsAreRowStarts`, `ResolutionOrderFree`, `BlameIsTruthful`, `ExitStatusTruthful`, and `ImplementsTableRows` |

Why these bounds are enough to be interesting. Four connections are more than a
queue of two plus its wrap, so the ring wraps, fills and refuses; three workers
let one sleep, one be woken and one overtake. Two outside shutdowns give the
"first" and "again" branches in both orders with destroy's own call. In the
engine two workers are all that a mutex can tell apart; three requests allow
insert, failure, and a read or a second insert that would notice. Thirteen
ids give three levels of tree with splits of inner nodes in every order. The
HTTP limits stand for 8 KiB of header and 16 KiB of body: the requests of
`MCHttpConnection`, about ninety, vary one aspect of an accepted query at a time
(header length, transfer coding, content type, declared length, route, one token
of the body), at each limit and one beyond it, and each is sent in all
segmentations and stopped at every byte.

`sql_programs` varies one thing at a time, in programs of one to three
statements. The statements that are edited have every token type, a doubled
quote, an empty literal and a list; an edit adds, drops or replaces one piece
anywhere, so that every place of the parser meets every token. The values of the
inserts are those that CSV treats differently: empty, with a comma, a quote, a
newline, outer blanks. The files end with and without a newline, have empty
lines, rows with too few fields and unclosed quotes. `SqlLengthLimit`, `LineMax`
and `NameMax` stand for 8 KiB, 4095 and 255 bytes and are chosen so that some
statements fit and some do not. Two rows and two columns are enough to tell
positions, names and orders apart.

Five runs with `expect: violation` show where code and documents
disagree:

| run | what the code does |
|---|---|
| `failed_start_hangs` | a failed `pthread_create` for a later worker joins workers asleep on an open queue |
| `failed_append_shifts_ids` | a failed append leaves a line the loaded index does not count |
| `stale_registry_pointer` | a `TableIndex` pointer outlives the array (registry of 1 and 2 tables here; 4 and 5 in the code) |
| `shared_tokenizer` | two workers split `Content-Type` with one `strtok` position: an allowed type is refused |
| `select_list_overruns` | `SELECT a, b, id` from a table of two columns writes three entries to an array of two |

`ServerRuntime` also reaches two states that no run asks about: a shutdown
requested before the listening socket exists leaves that socket open at exit, and
a signal between the free and `global_server = NULL` calls shutdown on the freed
server (fault `late_signal`).

Deadlock is checked in all runs but those of `SqlPrograms`, where a server without
further requests and a program that has ended stop. `ServerRuntime` stutters only after main has
returned, `Engine` only when no request is under way or `corrupted` is set; the
unbounded `Restart` of the engine runs would hide a deadlock there, which is why
`engine_requests` is the run to look at for blocked workers.

A row over 4095 bytes (fault `long`, possible because SQL may have 8 KiB) is one
row to INSERT and several to every reader, each of which may have its columns, too
few of them, or begin or end inside quotes and be no CSV at all. `MaxParts` bounds
the lines by two; rows of quotes, which CSV doubles, may have up to five in the
code, which adds nothing but more lines that nobody inserted. `IndexMatchesFile`
does not hold with such rows, and `engine_requests` leaves them out. Nor does `AckedIdIsRowPosition` hold
with the fault `flush`: `append_row_csv` does not look at the result of `fclose`,
where the row is really written, so a row that is lost there is acknowledged.
`engine_faults` has both faults and shows what is left: the index stays dense.
A lost or renumbered row is not what `IndexDense` looks at; no property that holds
catches it. Failures of the allocations of the registry are in `engine_requests`,
with the first growth; that they do no harm at later growths either is proved
(`TypeCorrect` of `EngineProofs`) and not run, because the instance of
`engine_faults` would grow beyond what TLC does in minutes.

### Fairness

`ServerRuntime!Fairness` is weak fairness of main, of the accept thread, of each
worker, of the return from `request_shutdown`, and of the client of each
connection a worker reads (`ClientStep`): it sends its request or hangs up. The
last is an assumption about clients, not about the code, which has no receive
timeout: a silent client keeps its worker, and shutdown waits for it. Nothing
makes clients connect, signals arrive, `accept` fail or waits end spuriously.
`HttpConnection!Fairness` is weak fairness of each worker and of each client,
who sends the rest or says that there is no more: the same assumption about
clients, who may also leave but need not.
`Engine!FairSpec` is weak fairness of each worker's request steps. POSIX
mutexes are not fair, so nothing stronger is assumed; it suffices because a
behaviour has at most `MaxRequests` requests. `SqlPrograms` has no fairness and
no liveness property: each of its steps makes progress on a finite text, and that
threads get to run at all is the business of the other three.

## 4. Proofs

Every theorem holds for every value of the constants that their assumptions
allow: any number of workers, connections, tables, requests and texts, any
capacity and limit. A theorem that needs more says so in its `ASSUME`.

| module | theorem | states | extra assumption |
|---|---|---|---|
| `ServerRuntimeProofs` | `TypeCorrect` | `TypeOK` | |
| | `RuntimeInvariant` | `SocketInv /\ ControlInv` | |
| | `SocketsHaveOneOwner` | `SingleOwner` | |
| | `ConnectionsAnsweredOnce` | `AnsweredOnce` | |
| | `ShutdownDrains` | `DrainedAtJoin` | |
| | `FreeAfterThreads` | `ThreadsGoneAtFree` | |
| | `NoLostWakeup` | `NoStrandedTask` | |
| | `RingImplementsQueue` | `ImplementsTaskQueue` | |
| `EngineProofs` | `TypeCorrect` | `TypeOK` | |
| | `TableLocksExclude` | `TableExclusion` | |
| | `IndexStaysDense` | `IndexDense` | |
| `EngineServiceProofs` | `IndexStaysTheFile` | `IndexMatchesFile` | `NoWriteFaults` |
| | `AckedRowsStay` | `AckedIdIsRowPosition` | `NoWriteFaults` |
| | `EngineImplementsTableService` | `ImplementsTableService` | `NoWriteFaults` |
| | `PointersStayValid` | `RegistryPointersValid` | `RegistryFits` |
| `BPlusTreeProofs` | `SearchExact` | `SearchMatchesContent` | |
| | `ShapeKept` | `TreeBalanced` | |
| | `ArraysSuffice` | `DamageContained` | |
| `HttpConnectionProofs` | `ExtractIsExact` | `ExtractSqlField` is the reference, for every body | |
| | `TypeCorrect` | `TypeOK` | |
| | `ResponsesAreWhole` | `AnsweredWhole` | |
| | `ExecutesWholeQueries` | `SqlFromWholeQueries` | |
| | `AnswersMatchRequests` | `AnswerMatchesRequest` | `OneWorker` |
| | `OnlyAcceptedExecute` | `ExecutesOnlyAccepted` | `OneWorker` |
| `SqlTextProofs` | `LexExact` | tokens that parse spell their text, for every text | |
| | `ParseExact` | the parser accepts the sentences of the grammar, for all tokens | `end` comes last |
| | `RowReadBack` | `csv_parse_line` reads the row that was written | |
| `SqlProgramsProofs` | `ExitTruthful` | `ExitStatusTruthful` | |
| | `SchemaOrderFree` | `ResolutionOrderFree` | |
| | `Types` | `TypeOK` | |
| | `LexerIntact` | `LiteralsIntact` | |
| | `ParserExact` | `GrammarExact` | |
| | `OffsetsExact` | `OffsetsAreRowStarts` | |
| | `BlameTruthful` | `BlameIsTruthful` | |
| | `ProgramsImplementRows` | `ImplementsTableRows` | |

### The assumptions

Those on constants are ASSUMEs that TLC evaluates in every run: capacity and
number of workers are positive (`validate_config` refuses others), sets of
threads, connections and names are finite, a table name has one storage name,
limits are numbers and the header limit is positive, and a node of the B+ tree has
room for two keys or more (the code has `BPTREE_MAX_KEYS` 3). `TextAssumption` says that
words are no symbols and that `strtol` reads an integer or refuses;
`ProgramAssumption` that the texts, files and arguments of an instance are texts,
that a meta file is a sequence of keys with values, and that a directory is
finite and `readdir` returns each meta file once.

* `NoWriteFaults`: no append is cut short, lost at `fclose` or longer than the
  readers' buffer. Without it the three properties are false
  (`failed_append_shifts_ids`, and the end of section 3); exhausted memory,
  failed registrations and restarts, also in the middle of an append, are all
  included. It is the set of faults that the run `engine_requests` has.
* `RegistryFits`: there are no more tables than the registry's first allocation
  has room for (4 in the code). Together with the run `stale_registry_pointer`,
  which breaks the property with one table more, this says exactly when the
  pointers dangle.
* `OneWorker`: one worker, because of the position of `strtok` that workers
  share; with two the properties fail (`shared_tokenizer`). What is left with
  any number of workers is `ExecutesWholeQueries`: everything about an executed
  request except the parts of `Transfer-Encoding` and `Content-Type` after the
  first.

### The arguments

**Sockets.** `SingleOwner` alone is not inductive. A push is safe only if `tail`
is really one past the last queued task (`RingInv`: `tail = (head + count) %
capacity`), which is where the arithmetic of the wrap enters (`WrapCases`,
`PushAppends`, `PopShifts`); a close is safe only if the control state says who
holds a socket (`HandInv`) and holders are pairwise different (`OwnerInv`); an
accept only if what the kernel holds was never accepted before (`BacklogInv`).
`ControlInv` says how far start has come and why threads leave: a worker exits
only on a closed and empty queue, and since a closed queue takes no push, joined
workers imply an empty queue. `DrainedAtJoin` and `ThreadsGoneAtFree` follow.

**Queue.** `NoStrandedTask` compares the number of queued tasks with the number
of awake workers in `pop`. It is inductive on top of the types: a push adds one
task and its signal wakes one sleeper, if there is one; a pop takes away one of
each, a worker that comes back from a request only adds to the awake ones, and a
worker goes to sleep only on an empty queue. For the refinement the
queued sockets, oldest first, are a sequence, and push, pop and close of the ring
are those of `TaskQueueSpec`; all other steps leave it alone.

**Engine.** A request changes its own locals and the table it names only
(`Frame`), and between `LockTable` and `Release` it stays on the critical path
whatever fails, so ownership follows control (`LockStep`). With exclusion, what
a worker has read of its table stays true until it uses it: `LocalAt` says that
the id taken before the append is still `next_id` at the registration, which
`IndexDense` needs and does not say. For `IndexMatchesFile` and
`AckedIdIsRowPosition` the invariant `StoredInv` adds what is in file and index
while a row is between append and registration (`StoredAt`). The refinement maps
an INSERT's effect to `AppendRow`, a SELECT's to the step that reads, and a
failure after the append to an INSERT that took effect without being
acknowledged, as `TableService` allows.

**B+ tree.** `SearchMatchesContent` says nothing of subtrees, so it is not
inductive, and `TreeBalanced` does not say what is in them. The induction is over
the height, and what is shown of each subtree is the promise `InsertPost` of
`insert_into_node`: in a balanced subtree that owns a room of ids, an insert
refuses a key that is there and changes nothing; with memory for a node on every
level it succeeds otherwise; a failure leaves arrays within their sizes; success
leaves one balanced subtree with the same room, or two that share it at the
promoted key, in which a search finds what it found before, and the new key.
For a leaf this is arithmetic on array positions (`InsertAtGrows`, `KeysGrow`,
`ValuesGrow`) and the cut in the middle (`LeafHalves`). For an inner node the
rooms of the children (`Slot`) divide its own, so that an id is looked for in
exactly one of them (`SlotOfKey`); the insert replaces one child by a part with
the same room (`PartReplaced`) or by two (`PartSplit`), and the cut around the
middle key gives each half its rooms (`InnerHalves`). The ids that separate are
part of the promise: the room below the promoted key must not be empty, or the
separators of the parent would not stay in strict order. `TreeInv` then says of
the root that it is balanced with the ids inserted, or empty, or damaged and
within its arrays.

**HTTP.** `ConnInv` collects, per control state, what the checks passed so far
have established (`ReadInv`) and how much of the answer is out (`AnswerInv`). To
show that the answer is the `Verdict` on what was sent, `SoleInv` adds where
`strtok` stands in the header being split (`TokenInv`), and that a verdict given
early stays right whatever the client goes on to send (`VerdictInv`): that is the
strengthening without which `AnswerMatchesRequest` is not inductive, because the
client's next byte may come after the answer. That reading of the server's,
`Verdict`, is what the document says of every request that is not `Tolerated`
(`DocumentedElsewhere`). TLC has checked `ConnInv` and
`SoleInv` on the instances of the runs before they were proved.

**`extract_sql_field`.** The scan over the body is a recursive function. The
library's induction theorems take a predicate as parameter, which the provers
cannot instantiate, but well-founded minima are stated for sets: `InductionTo`
derives induction from them, with a set in the place of the predicate. With it
the state of the scanner after i tokens is shown to be what the reference says of
the first i tokens, for all i.

**Text.** The automata of `lex_sql`, `parse_statement` and `csv_parse_line` run
over a sequence; the induction is over its prefixes, with a set of sequences in
the place of the predicate (`InductionByLast`). For the lexer the invariant of the
loop (`SpellInv`) relates the tokens so far, with the literal that is open, to the
prefix read and to the number of quotes in it. That alone does not give
`LexExact`: a text may end in a quote that does not close the literal it stands
in and still be lexed (`LexEnd`), but then the literal reaches over the end of
the statement and no parser state takes it. For the parser each state says what
the tokens so far look like by position, however long the lists. For CSV each
field that `csv_escape_field` writes takes the reader from one comma to the next
with the field kept, up to the blanks around an unquoted one.

**Programs.** `ExitInv` keeps the account between the statements: no outcome
before the first one, and in a dialogue `had_error` exactly if one has failed.
`SchemaOrderFree` rests on two facts: a listing without repetition of a finite
directory has every name (`OrderCovers`), and the search stops at a file that
declares the table or passes all (`SearchStops`).

`StateInv` is the invariant behind the other six. `FilesFit` ties a file to its
rows and, if it is loaded, to its index; it is inductive because an append puts
one row start behind the others, also behind a last line without an end, and
because a value with a newline is refused before. `RequestFits` says
for each stage of a statement which text, tokens and statement belong together,
`TableFits` what the schema found for it is. `BlameInv` adds, once a statement
has been answered, why its code is the right one. For `ImplementsTableRows` the
append of a row is shown to be the `Insert` of `TableRows` with `RowReadBack`, a
`SELECT` by index to read the row whose position is the id, and a scan to visit
all rows in their order. In the attempt the first version of `TableRows` turned
out to be wrong for schemas that declare a column twice; `ColumnOf` and a
directory with such a meta file in the run come from that.

### How the proofs were checked

All proofs pass `tlapm` 1.4.5. Its SMT encoding of sequences has an axiom,
`(DOMAIN s = 1 .. n) = (Len(s) = n)`, that is unsound for negative `n` together with
`0 <= Len(s)`. Every proof was therefore also checked with a build of `tlapm` in
which that axiom is restricted to natural numbers, and passes there too; none
rests on it.

### Only model-checked

* liveness (`EventuallyAnswered`, `ShutdownCompletes`, `FailedStartReturns`,
  `RequestsAnswered`, `ConnectionEnds`): fairness and ENABLED are out of the
  prover's reach.

## 5. Not modelled, and the plan

1. The signal handler on an arbitrary thread, which may hold the mutexes the
   handler takes.
2. A composition in which the workers of `ServerRuntime` execute `Engine`
   requests, for shutdown with requests under way.

Left out on purpose:

* the drawing of result tables and the display width of UTF-8 text, the HTML page
  of `api/root_handler.c`, messages and timing: no property depends on them. One
  thing gets lost with the messages: the adapter classifies errors with `strstr`
  on messages that quote the statement, so a value with the text of another
  message changes the code;
* allocation failures in lexer, parser and schema, each of which ends the request
  with an error and frees what it had; `Engine` and `HttpConnection` have the
  ones that happen with locks held or an answer under way;
* lines of CSV longer than the readers' buffer in `CsvFile` (`Engine` has them),
  carriage returns inside a line, and white space within a meta file's key;
* files that change under a running request, since nothing else writes them;
* the benchmark, which only measures.
