------------------------------- MODULE Engine -------------------------------
(***************************************************************************)
(* The SQL engine under concurrent requests: the table locks of            *)
(* engine/engine_lock_manager.c, the request path of                       *)
(* engine/sql_engine_adapter.c, INSERT and SELECT of execution/executor.c, *)
(* the lazy in-memory index of index/table_index.c and the CSV file of     *)
(* storage/storage.c.                                                      *)
(*                                                                         *)
(* A step is what one thread does between two points where another thread  *)
(* can interfere: a critical section of manager->mutex or registry_mutex,  *)
(* a lock or unlock of a table's mutex, one file operation, or one use of  *)
(* a TableIndex pointer outside registry_mutex.                            *)
(*                                                                         *)
(* A line of a CSV file is what the readers' fgets (4096 bytes) returns,   *)
(* the header and empty lines left out; a byte offset is the number of the *)
(* line that starts there.                                                 *)
(***************************************************************************)
EXTENDS Naturals, Sequences, FiniteSets

CONSTANTS
  Workers,      \* server worker threads
  NoWorker,     \* owner of a free table mutex
  Names,        \* table names as SQL spells them (declared or file name)
  StorageOf,    \* schema.storage_name that load_schema finds for a name
  InitialCapacity, \* of registry.items; 4 in get_or_create_table_index
  MaxRequests,  \* bound on the requests of a behaviour
  Faults        \* which failures this instance allows

(* oom: an allocation or pthread_mutex_init fails.  register: the forced   *)
(* registration failure of the tests.  write: a write of append_row_csv    *)
(* fails and is noticed.  flush: the buffered row is lost in fclose, whose *)
(* result append_row_csv ignores.  long: a row of more than 4095 bytes.    *)
(* crash: the process dies and is started again.                           *)
FaultKinds == {"oom", "register", "write", "flush", "long", "crash"}

ASSUME EngineAssumption ==
  /\ IsFiniteSet(Workers) /\ NoWorker \notin Workers
  /\ IsFiniteSet(Names)
  /\ StorageOf \in [Names -> Names]
  /\ InitialCapacity \in Nat \ {0}
  /\ MaxRequests \in Nat \ {0}
  /\ Faults \subseteq FaultKinds

VARIABLES
  file,        \* file[s]: the lines of data_dir/s.csv
  lockEntries, \* keys that have an EngineTableLockEntry
  owner,       \* owner[k]: holder of the table mutex of key k
  present,     \* tables that have a TableIndex in registry.items
  capacity,    \* registry.capacity
  loaded, tree, nextId,   \* the TableIndex of each table
  pc, req, res,           \* workers: control state, request, result
  task,        \* workers: what ensure_loaded is called for
  id, offset,  \* workers: next_id and row_offset locals
  stale,       \* workers whose TableIndex pointer realloc has freed
  corrupted,   \* a thread has used such a pointer
  requests,    \* requests so far (bounded by MaxRequests)
  acked        \* history: the INSERTs answered "ok"

fileVars == <<file, acked>>
lockVars == <<lockEntries, owner>>
registryVars == <<present, capacity>>
indexVars == <<loaded, tree, nextId>>
localVars == <<task, id, offset>>
memoryVars == <<stale, corrupted>>
vars == <<file, acked, lockEntries, owner, present, capacity, loaded, tree,
          nextId, pc, req, res, task, id, offset, stale, corrupted, requests>>

(* A line is a whole row, or the start of one: with all its columns (cut), *)
(* with too few (short), or ending inside quotes (broken).                 *)
Forms == {"whole", "cut", "short", "broken"}
Lines == [row : 1 .. MaxRequests, form : Forms]

Requests == [kind : {"insert", "find", "scan"}, name : Names,
             arg : 1 .. MaxRequests]

Results == [status : {"pending", "error", "ok"}, rows : Seq(Lines)]
Pending == [status |-> "pending", rows |-> <<>>]
Failed  == [status |-> "error", rows |-> <<>>]
Answer(found) == [status |-> "ok", rows |-> found]

(* Control states.  A worker owns its table's mutex from "exec" to         *)
(* "release", and has a TableIndex pointer in hand in "load" and "use".    *)
Critical == {"exec", "entry", "load", "use", "append", "register",
             "invalidate", "read", "scan", "release"}
States == {"idle", "parse", "lookup", "lock", "refused"} \cup Critical

TypeOK ==
  /\ file \in [Names -> Seq(Lines)]
  /\ acked \subseteq [table : Names, id : Nat, row : 1 .. MaxRequests]
  /\ lockEntries \subseteq Names
  /\ owner \in [Names -> Workers \cup {NoWorker}]
  /\ present \subseteq Names
  /\ capacity \in Nat /\ Cardinality(present) <= capacity
  /\ loaded \in [Names -> BOOLEAN]
  /\ tree \in [Names -> SUBSET (Nat \X Nat)]
  /\ nextId \in [Names -> Nat]
  /\ pc \in [Workers -> States]
  /\ req \in [Workers -> Requests]
  /\ res \in [Workers -> Results]
  /\ task \in [Workers -> {"next", "register", "find"}]
  /\ id \in [Workers -> Nat] /\ offset \in [Workers -> Nat]
  /\ stale \subseteq Workers
  /\ corrupted \in BOOLEAN
  /\ requests \in 0 .. MaxRequests

\* A started server: files with their header only, nothing in memory.
Init ==
  /\ file = [s \in Names |-> <<>>]
  /\ acked = {}
  /\ lockEntries = {}
  /\ owner = [k \in Names |-> NoWorker]
  /\ present = {} /\ capacity = 0
  /\ loaded = [s \in Names |-> FALSE]
  /\ tree = [s \in Names |-> {}]
  /\ nextId = [s \in Names |-> 1]
  /\ pc = [w \in Workers |-> "idle"]
  /\ \E n \in Names :
       req = [w \in Workers |-> [kind |-> "scan", name |-> n, arg |-> 1]]
  /\ res = [w \in Workers |-> Pending]
  /\ task = [w \in Workers |-> "next"]
  /\ id = [w \in Workers |-> 0] /\ offset = [w \in Workers |-> 0]
  /\ stale = {}
  /\ corrupted = FALSE
  /\ requests = 0

-----------------------------------------------------------------------------
(* Helpers. *)

\* The table of a worker's request.
Table(w) == StorageOf[req[w].name]

\* Mutant of LockKey: the name as the SQL text spells it.
LockKeyAsSpelled(w) == req[w].name

\* sql_engine_adapter_execute locks by schema.storage_name.
LockKey(w) == StorageOf[req[w].name]

Goto(w, state) == pc' = [pc EXCEPT ![w] = state]

\* Leave the critical path with an error or with a result.
FinishWith(w, answer) ==
  /\ Goto(w, "release")
  /\ res' = [res EXCEPT ![w] = answer]

\* ensure_loaded has failed: execute_insert returns the error while it asks for
\* the next id, but invalidates the index once the row is in the file.
EnsureFails(w) ==
  IF task[w] = "register" THEN Goto(w, "invalidate") /\ UNCHANGED res
  ELSE FinishWith(w, Failed)

-----------------------------------------------------------------------------
(* The request path of sql_engine_adapter_execute. *)

\* A worker has a request.  The row an INSERT carries is named by the number of
\* the request.
Begin(w) ==
  /\ pc[w] = "idle"
  /\ requests < MaxRequests
  /\ requests' = requests + 1
  /\ \E r \in Requests :
       /\ r.kind = "insert" => r.arg = requests + 1
       /\ r.kind = "scan" => r.arg = 1
       /\ req' = [req EXCEPT ![w] = r]
  /\ res' = [res EXCEPT ![w] = Pending]
  /\ Goto(w, "parse")
  /\ UNCHANGED <<fileVars, lockVars, registryVars, indexVars, localVars,
                 memoryVars>>

\* Lexing, parsing and load_schema change nothing: the request goes on to the
\* lock or is answered with an error.
Parse(w) ==
  /\ pc[w] = "parse"
  /\ \/ Goto(w, "lookup") /\ UNCHANGED res
     \/ Goto(w, "refused") /\ res' = [res EXCEPT ![w] = Failed]
  /\ UNCHANGED <<fileVars, lockVars, registryVars, indexVars, req, localVars,
                 memoryVars, requests>>

\* The answer of a request that never had the lock.
Refused(w) ==
  /\ pc[w] = "refused"
  /\ Goto(w, "idle")
  /\ UNCHANGED <<fileVars, lockVars, registryVars, indexVars, req, res,
                 localVars, memoryVars, requests>>

\* engine_lock_manager_acquire under manager->mutex: find or create the entry.
LockLookup(w) ==
  /\ pc[w] = "lookup"
  /\ \/ /\ lockEntries' = lockEntries \cup {LockKey(w)}
        /\ Goto(w, "lock") /\ UNCHANGED res
     \/ /\ "oom" \in Faults /\ LockKey(w) \notin lockEntries
        /\ Goto(w, "refused") /\ res' = [res EXCEPT ![w] = Failed]
        /\ UNCHANGED lockEntries
  /\ UNCHANGED <<fileVars, owner, registryVars, indexVars, req, localVars,
                 memoryVars, requests>>

\* ... and then, with manager->mutex released, the lock of the table's mutex.
LockTable(w) ==
  /\ pc[w] = "lock"
  /\ owner[LockKey(w)] = NoWorker
  /\ owner' = [owner EXCEPT ![LockKey(w)] = w]
  /\ Goto(w, "exec")
  /\ UNCHANGED <<fileVars, lockEntries, registryVars, indexVars, req, res,
                 localVars, memoryVars, requests>>

\* A forced error, no tmpfile, or the checks execute_insert and execute_select
\* make before they touch a table.
ExecuteRefused(w) ==
  /\ pc[w] = "exec"
  /\ FinishWith(w, Failed)
  /\ UNCHANGED <<fileVars, lockVars, registryVars, indexVars, req, localVars,
                 memoryVars, requests>>

\* execute_statement: INSERT asks for the next id, SELECT ... WHERE id = n
\* looks n up, any other SELECT reads the file.
ExecuteStatement(w) ==
  /\ pc[w] = "exec"
  /\ Goto(w, IF req[w].kind = "scan" THEN "scan" ELSE "entry")
  /\ task' = [task EXCEPT ![w] = IF req[w].kind = "find" THEN "find"
                                 ELSE "next"]
  /\ UNCHANGED <<fileVars, lockVars, registryVars, indexVars, req, res, id,
                 offset, memoryVars, requests>>

\* Mutant of Release: the mutex is unlocked on the success path only.
ReleaseOnSuccess(w) ==
  /\ pc[w] = "release"
  /\ owner' = IF res[w].status = "ok"
              THEN [owner EXCEPT ![LockKey(w)] = NoWorker] ELSE owner
  /\ Goto(w, "idle")
  /\ UNCHANGED <<fileVars, lockEntries, registryVars, indexVars, req, res,
                 localVars, memoryVars, requests>>

\* cleanup: engine_lock_manager_release, the locals, and the answer.
Release(w) ==
  /\ pc[w] = "release"
  /\ owner' = [owner EXCEPT ![LockKey(w)] = NoWorker]
  /\ Goto(w, "idle")
  /\ acked' = IF req[w].kind = "insert" /\ res[w].status = "ok"
              THEN acked \cup {[table |-> Table(w), id |-> id[w],
                                row |-> req[w].arg]}
              ELSE acked
  /\ task' = [task EXCEPT ![w] = "next"]
  /\ id' = [id EXCEPT ![w] = 0] /\ offset' = [offset EXCEPT ![w] = 0]
  /\ UNCHANGED <<file, lockEntries, registryVars, indexVars, req, res,
                 memoryVars, requests>>

-----------------------------------------------------------------------------
(* index/table_index.c *)

\* Mutant of GrowCapacity: a capacity of 0 stays 0.
GrowCapacityByDoubling(c) == c * 2

GrowCapacity(c) == IF c = 0 THEN InitialCapacity ELSE c * 2

\* Threads that have taken a TableIndex pointer out of registry_mutex.
Holding == {w \in Workers : pc[w] \in {"load", "use"}}

\* get_or_create_table_index under registry_mutex.  realloc may move the
\* array: every pointer into it that a thread holds then dangles.
GetEntry(w) ==
  /\ pc[w] = "entry"
  /\ \/ /\ Table(w) \in present
        /\ UNCHANGED <<registryVars, indexVars, stale>>
     \/ /\ Table(w) \notin present
        /\ present' = present \cup {Table(w)}
        /\ IF Cardinality(present) = capacity
           THEN /\ capacity' = GrowCapacity(capacity)
                /\ stale' \in {stale, stale \cup Holding}
           ELSE UNCHANGED <<capacity, stale>>
        /\ loaded' = [loaded EXCEPT ![Table(w)] = FALSE]
        /\ tree' = [tree EXCEPT ![Table(w)] = {}]
        /\ nextId' = [nextId EXCEPT ![Table(w)] = 1]
  /\ Goto(w, "load")
  /\ UNCHANGED <<fileVars, lockVars, req, res, localVars, corrupted, requests>>

\* realloc fails, or the copy of the name after realloc has succeeded.
GetEntryFails(w) ==
  /\ "oom" \in Faults
  /\ pc[w] = "entry" /\ Table(w) \notin present
  /\ \/ UNCHANGED <<capacity, stale>>
     \/ /\ Cardinality(present) = capacity
        /\ capacity' = GrowCapacity(capacity)
        /\ stale' \in {stale, stale \cup Holding}
  /\ EnsureFails(w)
  /\ UNCHANGED <<fileVars, lockVars, present, indexVars, req, localVars,
                 corrupted, requests>>

\* The index of a table whose lines are all read: row n has id n.
RowIndex(s) == {<<n, n>> : n \in 1 .. Len(file[s])}

\* Mutant of IdAfterLastRow: the last row's id again.
IdOfLastRow(s) == Len(file[s])

\* rebuild.next_id after scan_rows_csv.
IdAfterLastRow(s) == Len(file[s]) + 1

\* csv_parse_line fails on a line that ends inside quotes.
Parses(s) == \A n \in 1 .. Len(file[s]) : file[s][n].form # "broken"

SetIndex(s, isLoaded, entries, next) ==
  /\ loaded' = [loaded EXCEPT ![s] = isLoaded]
  /\ tree' = [tree EXCEPT ![s] = entries]
  /\ nextId' = [nextId EXCEPT ![s] = next]

\* Mutant of Load: an index that is not loaded is used as it is.
LoadNever(w) ==
  /\ pc[w] = "load" /\ w \notin stale
  /\ Goto(w, "use")
  /\ UNCHANGED <<fileVars, lockVars, registryVars, indexVars, req, res,
                 localVars, memoryVars, requests>>

\* The rest of ensure_loaded, outside registry_mutex: rebuild from the file if
\* the index is not loaded.
Load(w) ==
  /\ pc[w] = "load" /\ w \notin stale
  /\ \/ loaded[Table(w)] /\ Goto(w, "use") /\ UNCHANGED <<indexVars, res>>
     \/ /\ ~loaded[Table(w)] /\ Parses(Table(w))
        /\ SetIndex(Table(w), TRUE, RowIndex(Table(w)),
                    IdAfterLastRow(Table(w)))
        /\ Goto(w, "use") /\ UNCHANGED res
     \/ /\ ~loaded[Table(w)] /\ (~Parses(Table(w)) \/ "oom" \in Faults)
        /\ SetIndex(Table(w), FALSE, {}, 1)
        /\ EnsureFails(w)
  /\ UNCHANGED <<fileVars, lockVars, registryVars, req, localVars, memoryVars,
                 requests>>

\* table_index_get_next_id.
NextId(w) ==
  /\ pc[w] = "use" /\ w \notin stale /\ task[w] = "next"
  /\ id' = [id EXCEPT ![w] = nextId[Table(w)]]
  /\ Goto(w, "append")
  /\ UNCHANGED <<fileVars, lockVars, registryVars, indexVars, req, res, task,
                 offset, memoryVars, requests>>

\* Mutant of NextIdAfter: the id just used does not count.
NextIdAfterLarger(used, next) == IF used > next THEN used + 1 ELSE next

NextIdAfter(used, next) == IF used >= next THEN used + 1 ELSE next

\* table_index_register_row: bptree_insert refuses a key it has.
RegisterRow(w) ==
  /\ pc[w] = "use" /\ w \notin stale /\ task[w] = "register"
  /\ \A e \in tree[Table(w)] : e[1] # id[w]
  /\ SetIndex(Table(w), loaded[Table(w)],
              tree[Table(w)] \cup {<<id[w], offset[w]>>},
              NextIdAfter(id[w], nextId[Table(w)]))
  /\ FinishWith(w, Answer(<<>>))
  /\ UNCHANGED <<fileVars, lockVars, registryVars, req, localVars, memoryVars,
                 requests>>

\* A duplicate key, or no memory for a node.  (A half-done split is seen by
\* nobody: the table is locked and its tree is freed next.)
RegisterRowFails(w) ==
  /\ pc[w] = "use" /\ w \notin stale /\ task[w] = "register"
  /\ (\E e \in tree[Table(w)] : e[1] = id[w]) \/ "oom" \in Faults
  /\ Goto(w, "invalidate")
  /\ UNCHANGED <<fileVars, lockVars, registryVars, indexVars, req, res,
                 localVars, memoryVars, requests>>

\* table_index_find_row.  An id that is not there is an empty result table, if
\* there is memory for it.
FindRow(w) ==
  /\ pc[w] = "use" /\ w \notin stale /\ task[w] = "find"
  /\ \/ \E e \in tree[Table(w)] :
          /\ e[1] = req[w].arg
          /\ offset' = [offset EXCEPT ![w] = e[2]]
          /\ Goto(w, "read") /\ UNCHANGED res
     \/ /\ \A e \in tree[Table(w)] : e[1] # req[w].arg
        /\ \/ FinishWith(w, Answer(<<>>))
           \/ "oom" \in Faults /\ FinishWith(w, Failed)
        /\ UNCHANGED offset
  /\ UNCHANGED <<fileVars, lockVars, registryVars, indexVars, req, task, id,
                 memoryVars, requests>>

\* ensure_loaded or its caller follows a pointer into an array that realloc has
\* freed.  Nothing can be said of the process after that.
UseStaleEntry(w) ==
  /\ pc[w] \in {"load", "use"} /\ w \in stale
  /\ corrupted' = TRUE
  /\ UNCHANGED <<fileVars, lockVars, registryVars, indexVars, pc, req, res,
                 localVars, stale, requests>>

\* Mutant of Invalidate: the index is left as it is.
InvalidateNothing(w) ==
  /\ pc[w] = "invalidate"
  /\ FinishWith(w, Failed)
  /\ UNCHANGED <<fileVars, lockVars, registryVars, indexVars, req, localVars,
                 memoryVars, requests>>

\* table_index_invalidate, after a registration that failed.
Invalidate(w) ==
  /\ pc[w] = "invalidate"
  /\ IF Table(w) \in present THEN SetIndex(Table(w), FALSE, {}, 1)
     ELSE UNCHANGED indexVars
  /\ FinishWith(w, Failed)
  /\ UNCHANGED <<fileVars, lockVars, registryVars, req, localVars, memoryVars,
                 requests>>

-----------------------------------------------------------------------------
(* storage/storage.c, and what execute_insert and execute_select do with it *)

\* build_insert_row refuses the values; append_row_csv cannot open the file.
AppendRefused(w) ==
  /\ pc[w] = "append"
  /\ FinishWith(w, Failed)
  /\ UNCHANGED <<fileVars, lockVars, registryVars, indexVars, req, localVars,
                 memoryVars, requests>>

\* What a write that stops early leaves behind.
Remains(w) == {<<>>} \cup
  {<<[row |-> req[w].arg, form |-> f]>> : f \in {"cut", "short", "broken"}}

\* Bound: the lines a row over 4095 bytes is read back as.
MaxParts == 2

\* None of them is the row, and one that begins or ends inside quotes may be no
\* CSV line at all.
LongRow(w) ==
  LET parts == {[row |-> req[w].arg, form |-> f] : f \in Forms \ {"whole"}}
  IN  UNION {[1 .. n -> parts] : n \in 2 .. MaxParts}

\* append_row_csv reports success: the row starts where the file ended.
AppendRow(w) ==
  /\ pc[w] = "append"
  /\ \E new \in {<<[row |-> req[w].arg, form |-> "whole"]>>}
                 \cup (IF "long" \in Faults THEN LongRow(w) ELSE {})
                 \cup (IF "flush" \in Faults THEN Remains(w) ELSE {}) :
       file' = [file EXCEPT ![Table(w)] = @ \o new]
  /\ offset' = [offset EXCEPT ![w] = Len(file[Table(w)]) + 1]
  /\ Goto(w, "register")
  /\ UNCHANGED <<acked, lockVars, registryVars, indexVars, req, res, task, id,
                 memoryVars, requests>>

\* append_row_csv reports failure after it has written part of the row;
\* execute_insert returns the error and leaves the index alone.
AppendFails(w) ==
  /\ "write" \in Faults
  /\ pc[w] = "append"
  /\ \E new \in Remains(w) : file' = [file EXCEPT ![Table(w)] = @ \o new]
  /\ FinishWith(w, Failed)
  /\ UNCHANGED <<acked, lockVars, registryVars, indexVars, req, localVars,
                 memoryVars, requests>>

\* execute_insert goes on to register the row, or the tests' hook refuses it.
Register(w) ==
  /\ pc[w] = "register"
  /\ \/ Goto(w, "entry") /\ task' = [task EXCEPT ![w] = "register"]
     \/ "register" \in Faults /\ Goto(w, "invalidate") /\ UNCHANGED task
  /\ UNCHANGED <<fileVars, lockVars, registryVars, indexVars, req, res, id,
                 offset, memoryVars, requests>>

Readable(line) == line.form \in {"whole", "cut"}

\* read_row_at_offset_csv and the column count check of execute_index_select.
ReadRow(w) ==
  /\ pc[w] = "read"
  /\ LET lines == file[Table(w)] IN
       FinishWith(w, IF offset[w] \in DOMAIN lines /\ Readable(lines[offset[w]])
                     THEN Answer(<<lines[offset[w]]>>) ELSE Failed)
  /\ UNCHANGED <<fileVars, lockVars, registryVars, indexVars, req, localVars,
                 memoryVars, requests>>

\* The file loop of execute_select: the n-th line is shown with id n.
ScanRows(w) ==
  /\ pc[w] = "scan"
  /\ LET lines == file[Table(w)] IN
       FinishWith(w, IF \A n \in 1 .. Len(lines) : Readable(lines[n])
                     THEN Answer(lines) ELSE Failed)
  /\ UNCHANGED <<fileVars, lockVars, registryVars, indexVars, req, localVars,
                 memoryVars, requests>>

\* No memory for the result table or for the string that carries it.
SelectFails(w) ==
  /\ "oom" \in Faults
  /\ pc[w] \in {"read", "scan"}
  /\ FinishWith(w, Failed)
  /\ UNCHANGED <<fileVars, lockVars, registryVars, indexVars, req, localVars,
                 memoryVars, requests>>

-----------------------------------------------------------------------------
\* What the process may leave of table s when it ends: an append that is under
\* way may have written all of its row, a part of it or nothing.
Interrupted(s) ==
  {file[s]} \cup {Append(file[s], [row |-> req[w].arg, form |-> f]) :
                    w \in {v \in Workers : pc[v] = "append" /\ Table(v) = s},
                    f \in Forms}

\* The process ends, by a crash or an orderly stop, and starts again: the files
\* stay, the memory goes.
Restart ==
  /\ "crash" \in Faults
  /\ file' \in {f \in [Names -> UNION {Interrupted(s) : s \in Names}] :
                  \A s \in Names : f[s] \in Interrupted(s)}
  /\ lockEntries' = {}
  /\ owner' = [k \in Names |-> NoWorker]
  /\ present' = {} /\ capacity' = 0
  /\ loaded' = [s \in Names |-> FALSE]
  /\ tree' = [s \in Names |-> {}]
  /\ nextId' = [s \in Names |-> 1]
  /\ pc' = [w \in Workers |-> "idle"]
  /\ task' = [w \in Workers |-> "next"]
  /\ id' = [w \in Workers |-> 0] /\ offset' = [w \in Workers |-> 0]
  /\ stale' = {}
  /\ UNCHANGED <<acked, req, res, corrupted, requests>>

RequestStep(w) ==
  \/ Parse(w) \/ Refused(w) \/ LockLookup(w) \/ LockTable(w)
  \/ ExecuteRefused(w) \/ ExecuteStatement(w) \/ Release(w) \/ GetEntry(w) \/ GetEntryFails(w)
  \/ Load(w) \/ NextId(w) \/ RegisterRow(w) \/ RegisterRowFails(w)
  \/ FindRow(w) \/ UseStaleEntry(w) \/ Invalidate(w) \/ AppendRefused(w)
  \/ AppendRow(w) \/ AppendFails(w) \/ Register(w) \/ ReadRow(w)
  \/ ScanRows(w) \/ SelectFails(w)

\* The server waits for requests.
Waiting ==
  /\ \A w \in Workers : pc[w] = "idle"
  /\ UNCHANGED vars

Next ==
  \/ /\ ~corrupted
     /\ \/ \E w \in Workers : Begin(w) \/ RequestStep(w)
        \/ Restart
        \/ Waiting
  \/ corrupted /\ UNCHANGED vars

Spec == Init /\ [][Next]_vars

(* Every worker that can take a step of its request takes one.  Weak       *)
(* fairness is enough for the mutexes because MaxRequests bounds how often *)
(* others can take them.                                                   *)
FairSpec == Spec /\ \A w \in Workers : WF_vars(RequestStep(w))

-----------------------------------------------------------------------------
(* Properties. *)

(* At most one request at a time executes on a table, under whichever of   *)
(* its names, and it is the owner of the table's mutex; nobody else owns   *)
(* it, so no path through sql_engine_adapter_execute forgets to unlock.    *)
TableExclusion ==
  /\ \A v, w \in Workers :
       pc[v] \in Critical /\ pc[w] \in Critical /\ Table(v) = Table(w) => v = w
  /\ \A k \in Names, w \in Workers :
       owner[k] = w <=> pc[w] \in Critical /\ LockKey(w) = k

\* The row of w's INSERT is in the file and not yet in the index.
InsertUnderWay(w) ==
  \/ pc[w] \in {"register", "invalidate"}
  \/ pc[w] \in {"entry", "load", "use"} /\ task[w] = "register"

(* A loaded index is the file: id n leads to the n-th row, every row has   *)
(* an id, and the next id is the one the next row will be found under.  It *)
(* holds whenever no INSERT on that table is between its append and its    *)
(* registration, in spite of rebuilds, failed registrations and restarts.  *)
IndexMatchesFile ==
  \A s \in Names :
    loaded[s] /\ (\A w \in Workers : Table(w) = s => ~InsertUnderWay(w)) =>
      /\ tree[s] = {<<n, n>> : n \in 1 .. Len(file[s])}
      /\ nextId[s] = Len(file[s]) + 1

(* Whatever fails, a loaded index has exactly the ids 1 .. next_id - 1,    *)
(* each with one offset, later ids at later or equal offsets: bptree_insert *)
(* is never given an id it has, and no id is skipped.                      *)
IndexDense ==
  \A s \in Names : loaded[s] =>
    /\ {e[1] : e \in tree[s]} = 1 .. nextId[s] - 1
    /\ \A e, f \in tree[s] : e[1] <= f[1] => e[2] <= f[2]

(* The id an acknowledged INSERT was registered under is the position of   *)
(* its row in the file, for ever: no id is given twice, no acknowledged    *)
(* row is lost, and a restart finds every row under the id it had.         *)
AckedIdIsRowPosition ==
  \A a \in acked :
    /\ a.id \in 1 .. Len(file[a.table])
    /\ file[a.table][a.id] = [row |-> a.row, form |-> "whole"]

(* Locks, lazy index, registry and failure handling together behave like   *)
(* tables on which each request is one instantaneous step: TableService.   *)
Phase(w) ==
  CASE pc[w] = "idle" -> "idle"
    [] pc[w] \in {"refused", "release"} -> "answered"
    [] InsertUnderWay(w) -> "stored"
    [] OTHER -> "called"
TS == INSTANCE TableService
        WITH rows <- file, phase <- [w \in Workers |-> Phase(w)]
ImplementsTableService == TS!Spec

(* Every request is answered: neither the two mutex levels nor an error    *)
(* path can leave a worker waiting for a table for ever.                   *)
RequestsAnswered ==
  \A w \in Workers : (pc[w] # "idle") ~> (pc[w] = "idle")

(* Index entries are created, obtained and changed inside registry_mutex   *)
(* only: no thread follows a TableIndex pointer that the registry has      *)
(* moved meanwhile.                                                        *)
RegistryPointersValid == ~corrupted
=============================================================================
