--------------------------- MODULE ServerRuntime ---------------------------
(***************************************************************************)
(* The server runtime: server/server.c, server/task_queue.c,               *)
(* server/worker_pool.c and the life of the server object in               *)
(* app/sqlapi_server_main.c.                                               *)
(*                                                                         *)
(* Threads: the main thread (start, wait, destroy), the accept thread, the *)
(* workers, and one further caller of sqlapi_server_request_shutdown (the  *)
(* stop hook of the tests, the signal handler of main).  A critical        *)
(* section of the queue mutex is one step, since nothing it touches is     *)
(* accessed outside that mutex; the two places where a thread gives up a   *)
(* mutex or blocks in the middle of an operation are split: the wait on    *)
(* not_empty inside pop, and request_shutdown, which keeps state_mutex     *)
(* while it goes on to take the queue mutex.                               *)
(***************************************************************************)
EXTENDS Naturals, Sequences, FiniteSets

CONSTANTS
  Conns,        \* the client connections of one run of the server
  NoConn,       \* an empty slot, a thread with no socket in hand
  Capacity,     \* --queue-capacity
  WorkerCount,  \* --worker-count
  MaxSignals,   \* bound on the calls of request_shutdown from outside main
  Faults        \* which rare events this instance allows

(* listen, worker, accept: bind/listen fails, pthread_create fails for a   *)
(* worker, for the accept thread.  late_signal: request_shutdown is called *)
(* again once main is inside destroy.                                      *)
FaultKinds == {"listen", "worker", "accept", "late_signal"}

\* sqlapi_server_validate_config refuses to create any other server.
ASSUME ConfigAssumption ==
  /\ Capacity \in Nat \ {0}
  /\ WorkerCount \in Nat \ {0}

ASSUME ModelAssumption ==
  /\ IsFiniteSet(Conns)
  /\ NoConn \notin Conns
  /\ MaxSignals \in Nat
  /\ Faults \subseteq FaultKinds

Workers == 1 .. WorkerCount
Slots == 0 .. Capacity - 1

VARIABLES
  items, head, tail, count, closed,   \* ServerTaskQueue
  wpc, wtask,                         \* workers: control state, socket in hand
  apc, atask,                         \* accept thread: the same
  mpc, created, started,              \* main thread, threads created, started
  spc, signals,                       \* outside caller of request_shutdown
  stateMutex, shuttingDown,           \* protected by state_mutex
  listening,                          \* listen_socket is open
  backlog,                            \* connections the kernel holds for accept
  fd,                                 \* the server's side of each connection
  answers                             \* responses written to each connection

queueVars   == <<items, head, tail, count, closed>>
workerVars  == <<wpc, wtask>>
acceptVars  == <<apc, atask>>
mainVars    == <<mpc, created, started>>
signalVars  == <<spc, signals>>
stateVars   == <<stateMutex, shuttingDown>>
netVars     == <<listening, backlog, fd, answers>>
vars == <<queueVars, workerVars, acceptVars, mainVars, signalVars, stateVars,
          netVars>>

WorkerStates == {"none", "pop", "waiting", "read", "respond", "exited"}
AcceptStates == {"none", "check", "accept", "recheck", "push", "reject",
                 "exited"}
MainStates   == {"created", "spawn", "poolJoin", "failJoin", "joinAccept",
                 "joinWorkers", "destroy", "destroyClose", "free", "freed",
                 "done"}
AnswerKinds  == {"reply", "error", "busy", "dropped"}

TypeOK ==
  /\ items \in [Slots -> Conns \cup {NoConn}]
  /\ head \in Slots /\ tail \in Slots
  /\ count \in 0 .. Capacity
  /\ closed \in BOOLEAN
  /\ wpc \in [Workers -> WorkerStates]
  /\ wtask \in [Workers -> Conns \cup {NoConn}]
  /\ apc \in AcceptStates
  /\ atask \in Conns \cup {NoConn}
  /\ mpc \in MainStates
  /\ created \in 0 .. WorkerCount
  /\ started \in BOOLEAN
  /\ spc \in {"idle", "closing", "returned", "freedMemory"}
  /\ signals \in 0 .. MaxSignals
  /\ stateMutex \in {"free", "main", "signal"}
  /\ shuttingDown \in BOOLEAN
  /\ listening \in BOOLEAN
  /\ backlog \in SUBSET Conns
  /\ fd \in [Conns -> {"none", "open", "closed"}]
  /\ answers \in [Conns -> Seq(AnswerKinds)]

\* sqlapi_server_create has returned 1 and global_server is set.
Init ==
  /\ items = [i \in Slots |-> NoConn]
  /\ head = 0 /\ tail = 0 /\ count = 0
  /\ closed = FALSE
  /\ wpc = [w \in Workers |-> "none"]
  /\ wtask = [w \in Workers |-> NoConn]
  /\ apc = "none"
  /\ atask = NoConn
  /\ mpc = "created"
  /\ created = 0
  /\ started = FALSE
  /\ spc = "idle"
  /\ signals = 0
  /\ stateMutex = "free"
  /\ shuttingDown = FALSE
  /\ listening = FALSE
  /\ backlog = {}
  /\ fd = [c \in Conns |-> "none"]
  /\ answers = [c \in Conns |-> <<>>]

-----------------------------------------------------------------------------
(* Clients and the kernel's accept queue. *)

\* A client connects: the kernel completes the handshake and holds the
\* connection until accept() takes it or the listening socket is closed.
ClientConnect(c) ==
  /\ listening
  /\ c \notin backlog
  /\ fd[c] = "none"
  /\ backlog' = backlog \cup {c}
  /\ UNCHANGED <<queueVars, workerVars, acceptVars, mainVars, signalVars,
                 stateVars, listening, fd, answers>>

\* The server's side of a response followed by close(): http_response_send may
\* fail because the peer is gone, and building the response may fail; either
\* way the handler ignores it and closes the socket.
AnswerAndClose(c, kind) ==
  /\ \E k \in {kind, "dropped"} :
       answers' = [answers EXCEPT ![c] = Append(@, k)]
  /\ fd' = [fd EXCEPT ![c] = "closed"]

\* Closing the listening socket also drops what the kernel holds for it.
CloseListenSocket ==
  /\ listening' = FALSE
  /\ backlog' = {}

-----------------------------------------------------------------------------
(* server/task_queue.c *)

\* Ring indices wrap at the capacity.
Wrap(i) == i % Capacity

Waiting == {w \in Workers : wpc[w] = "waiting"}

\* Mutants of CondSignal: no signal at all; a signal only for the push that
\* finds the queue empty.
NeverSignal == UNCHANGED wpc
SignalWhenEmpty ==
  \/ (Waiting = {} \/ count > 0) /\ UNCHANGED wpc
  \/ count = 0 /\ \E w \in Waiting : wpc' = [wpc EXCEPT ![w] = "pop"]

\* pthread_cond_signal(&not_empty): at most one waiter is woken, any one.
CondSignal ==
  \/ Waiting = {} /\ UNCHANGED wpc
  \/ \E w \in Waiting : wpc' = [wpc EXCEPT ![w] = "pop"]

\* pthread_cond_broadcast(&not_empty).
CondBroadcast ==
  wpc' = [w \in Workers |-> IF wpc[w] = "waiting" THEN "pop" ELSE wpc[w]]

\* Mutants of HasRoom: room for one more; no look at closed.
HasRoomOffByOne == ~closed /\ count <= Capacity
HasRoomThoughClosed == count < Capacity

HasRoom == ~closed /\ count < Capacity

\* The taken branch of server_task_queue_try_push.
Enqueue(c) ==
  /\ items' = [items EXCEPT ![tail] = c]
  /\ tail' = Wrap(tail + 1)
  /\ count' = count + 1
  /\ CondSignal
  /\ UNCHANGED <<head, closed>>

\* Mutant of Dequeue: head does not move.
DequeueInPlace(w) ==
  /\ wtask' = [wtask EXCEPT ![w] = items[head]]
  /\ count' = count - 1
  /\ UNCHANGED <<items, head, tail, closed>>

\* The end of server_task_queue_pop when there is a task.
Dequeue(w) ==
  /\ wtask' = [wtask EXCEPT ![w] = items[head]]
  /\ head' = Wrap(head + 1)
  /\ count' = count - 1
  /\ UNCHANGED <<items, tail, closed>>

\* server_task_queue_close.
QueueClose ==
  /\ closed' = TRUE
  /\ CondBroadcast
  /\ UNCHANGED <<items, head, tail, count>>

-----------------------------------------------------------------------------
(* Worker threads: server_worker_main, one pop and one request per turn. *)

PopTake(w) ==
  /\ wpc[w] = "pop"
  /\ count > 0
  /\ Dequeue(w)
  /\ wpc' = [wpc EXCEPT ![w] = "read"]
  /\ UNCHANGED <<acceptVars, mainVars, signalVars, stateVars, netVars>>

PopWait(w) ==
  /\ wpc[w] = "pop"
  /\ count = 0 /\ ~closed
  /\ wpc' = [wpc EXCEPT ![w] = "waiting"]
  /\ UNCHANGED <<queueVars, wtask, acceptVars, mainVars, signalVars,
                 stateVars, netVars>>

\* Mutant of PopExit: a closed queue is left before it is empty.
PopExitUndrained(w) ==
  /\ wpc[w] = "pop"
  /\ closed
  /\ wpc' = [wpc EXCEPT ![w] = "exited"]
  /\ UNCHANGED <<queueVars, wtask, acceptVars, mainVars, signalVars,
                 stateVars, netVars>>

\* pop returns 0 and the thread function returns.
PopExit(w) ==
  /\ wpc[w] = "pop"
  /\ count = 0 /\ closed
  /\ wpc' = [wpc EXCEPT ![w] = "exited"]
  /\ UNCHANGED <<queueVars, wtask, acceptVars, mainVars, signalVars,
                 stateVars, netVars>>

\* POSIX allows pthread_cond_wait to return with no signal.
SpuriousWakeup(w) ==
  /\ wpc[w] = "waiting"
  /\ wpc' = [wpc EXCEPT ![w] = "pop"]
  /\ UNCHANGED <<queueVars, wtask, acceptVars, mainVars, signalVars,
                 stateVars, netVars>>

\* http_read_request returns: the client sent a whole request, or what it sent
\* (or its hanging up) is an HTTP-level error answered on the spot.  There is
\* no receive timeout: until then the worker stays in recv.
ReadRequest(w) ==
  /\ wpc[w] = "read"
  /\ wpc' = [wpc EXCEPT ![w] = "respond"]
  /\ UNCHANGED <<queueVars, wtask, acceptVars, mainVars, signalVars,
                 stateVars, netVars>>

ReadFails(w) ==
  /\ wpc[w] = "read"
  /\ AnswerAndClose(wtask[w], "error")
  /\ wpc' = [wpc EXCEPT ![w] = "pop"]
  /\ wtask' = [wtask EXCEPT ![w] = NoConn]
  /\ UNCHANGED <<queueVars, acceptVars, mainVars, signalVars, stateVars,
                 listening, backlog>>

\* http_route_request, the response or an internal error, and the close.
Respond(w) ==
  /\ wpc[w] = "respond"
  /\ \E kind \in {"reply", "error"} : AnswerAndClose(wtask[w], kind)
  /\ wpc' = [wpc EXCEPT ![w] = "pop"]
  /\ wtask' = [wtask EXCEPT ![w] = NoConn]
  /\ UNCHANGED <<queueVars, acceptVars, mainVars, signalVars, stateVars,
                 listening, backlog>>

WorkerStep(w) ==
  PopTake(w) \/ PopWait(w) \/ PopExit(w) \/ Respond(w)

ClientStep(w) == ReadRequest(w) \/ ReadFails(w)

-----------------------------------------------------------------------------
(* The accept thread: server_accept_main. *)

\* server_is_shutting_down, as the loop condition and after a failed accept.
AcceptCheck ==
  /\ apc \in {"check", "recheck"}
  /\ stateMutex = "free"
  /\ apc' = IF shuttingDown THEN "exited"
            ELSE IF apc = "check" THEN "accept" ELSE "check"
  /\ UNCHANGED <<queueVars, workerVars, atask, mainVars, signalVars,
                 stateVars, netVars>>

AcceptConn(c) ==
  /\ apc = "accept"
  /\ c \in backlog
  /\ backlog' = backlog \ {c}
  /\ fd' = [fd EXCEPT ![c] = "open"]
  /\ atask' = c
  /\ apc' = "push"
  /\ UNCHANGED <<queueVars, workerVars, mainVars, signalVars, stateVars,
                 listening, answers>>

\* accept() on the socket request_shutdown has shut down and closed.
AcceptClosed ==
  /\ apc = "accept"
  /\ ~listening
  /\ apc' = "recheck"
  /\ UNCHANGED <<queueVars, workerVars, atask, mainVars, signalVars,
                 stateVars, netVars>>

\* A transient accept() error.
AcceptError ==
  /\ apc = "accept"
  /\ listening
  /\ apc' = "recheck"
  /\ UNCHANGED <<queueVars, workerVars, atask, mainVars, signalVars,
                 stateVars, netVars>>

\* Mutant of TryPush: a successful push reported as refused.
TryPushReportedFull ==
  /\ apc = "push"
  /\ HasRoom
  /\ Enqueue(atask)
  /\ apc' = "reject"
  /\ UNCHANGED <<wtask, atask, mainVars, signalVars, stateVars, netVars>>

TryPush ==
  /\ apc = "push"
  /\ HasRoom
  /\ Enqueue(atask)
  /\ atask' = NoConn
  /\ apc' = "check"
  /\ UNCHANGED <<wtask, mainVars, signalVars, stateVars, netVars>>

TryPushRefused ==
  /\ apc = "push"
  /\ ~HasRoom
  /\ apc' = "reject"
  /\ UNCHANGED <<queueVars, workerVars, atask, mainVars, signalVars,
                 stateVars, netVars>>

\* The accept thread writes the 503 itself and closes the socket.
Reject ==
  /\ apc = "reject"
  /\ AnswerAndClose(atask, "busy")
  /\ atask' = NoConn
  /\ apc' = "check"
  /\ UNCHANGED <<queueVars, workerVars, mainVars, signalVars, stateVars,
                 listening, backlog>>

AcceptStep ==
  \/ AcceptCheck \/ AcceptClosed \/ TryPush \/ TryPushRefused \/ Reject
  \/ \E c \in Conns : AcceptConn(c)

-----------------------------------------------------------------------------
(* sqlapi_server_request_shutdown, called by main (inside destroy) or from *)
(* outside.  The first caller marks the server and closes the listening    *)
(* socket, then closes the queue, holding state_mutex throughout; a later  *)
(* caller finds shutting_down set and changes nothing.                     *)

BeginShutdown(who) ==
  /\ stateMutex = "free"
  /\ ~shuttingDown
  /\ shuttingDown' = TRUE
  /\ stateMutex' = who
  /\ CloseListenSocket

FinishShutdown(who) ==
  /\ stateMutex = who
  /\ QueueClose
  /\ stateMutex' = "free"
  /\ UNCHANGED shuttingDown

ShutdownAgain == stateMutex = "free" /\ shuttingDown

\* global_server is set from create until after destroy has returned.
SignalFirst ==
  /\ spc \in {"idle", "returned"} /\ signals < MaxSignals
  /\ mpc \notin {"freed", "done"}
  /\ BeginShutdown("signal")
  /\ spc' = "closing"
  /\ signals' = signals + 1
  /\ UNCHANGED <<queueVars, workerVars, acceptVars, mainVars, fd, answers>>

SignalAgain ==
  /\ spc \in {"idle", "returned"} /\ signals < MaxSignals
  /\ mpc \notin {"freed", "done"}
  /\ ShutdownAgain
  /\ spc' = "returned"
  /\ signals' = signals + 1
  /\ UNCHANGED <<queueVars, workerVars, acceptVars, mainVars, stateVars,
                 netVars>>

SignalCloseQueue ==
  /\ spc = "closing"
  /\ FinishShutdown("signal")
  /\ spc' = "returned"
  /\ UNCHANGED <<wtask, acceptVars, mainVars, signals, netVars>>

\* The call that arrives when destroy has freed the server but main has not
\* cleared global_server yet: it locks a mutex in freed memory.
SignalFreed ==
  /\ "late_signal" \in Faults
  /\ spc \in {"idle", "returned"} /\ signals < MaxSignals
  /\ mpc = "freed"
  /\ spc' = "freedMemory"
  /\ signals' = signals + 1
  /\ UNCHANGED <<queueVars, workerVars, acceptVars, mainVars, stateVars,
                 netVars>>

-----------------------------------------------------------------------------
(* The main thread: sqlapi_server_start, _wait, _destroy. *)

OpenListenSocket ==
  /\ mpc = "created"
  /\ \/ mpc' = "spawn" /\ listening' = TRUE
     \/ "listen" \in Faults /\ mpc' = "destroy" /\ UNCHANGED listening
  /\ UNCHANGED <<queueVars, workerVars, acceptVars, created, started,
                 signalVars, stateVars, backlog, fd, answers>>

\* One turn of the pthread_create loop of server_worker_pool_start.
SpawnWorker ==
  /\ mpc = "spawn" /\ created < WorkerCount
  /\ created' = created + 1
  /\ wpc' = [wpc EXCEPT ![created + 1] = "pop"]
  /\ UNCHANGED <<queueVars, wtask, acceptVars, mpc, started, signalVars,
                 stateVars, netVars>>

\* pthread_create fails: the pool keeps the threads it has and joins them.
SpawnWorkerFails ==
  /\ "worker" \in Faults
  /\ mpc = "spawn" /\ created < WorkerCount
  /\ mpc' = "poolJoin"
  /\ UNCHANGED <<queueVars, workerVars, acceptVars, created, started,
                 signalVars, stateVars, netVars>>

\* Mutant of AllJoined: the last thread is not joined.
AllButLastJoined == \A w \in 1 .. created - 1 : wpc[w] = "exited"

AllJoined == \A w \in 1 .. created : wpc[w] = "exited"

\* server_worker_pool_join has returned; start closes the listening socket.
PoolJoin ==
  /\ mpc \in {"poolJoin", "failJoin"}
  /\ AllJoined
  /\ CloseListenSocket
  /\ mpc' = "destroy"
  /\ UNCHANGED <<queueVars, workerVars, acceptVars, created, started,
                 signalVars, stateVars, fd, answers>>

SpawnAccept ==
  /\ mpc = "spawn" /\ created = WorkerCount
  /\ apc' = "check"
  /\ started' = TRUE
  /\ mpc' = "joinAccept"
  /\ UNCHANGED <<queueVars, workerVars, atask, created, signalVars,
                 stateVars, netVars>>

\* Mutant of SpawnAcceptFails: the workers are joined with the queue open.
SpawnAcceptFailsOpen ==
  /\ "accept" \in Faults
  /\ mpc = "spawn" /\ created = WorkerCount
  /\ mpc' = "failJoin"
  /\ UNCHANGED <<queueVars, workerVars, acceptVars, created, started,
                 signalVars, stateVars, netVars>>

\* pthread_create fails for the accept thread: the queue is closed so that the
\* workers leave pop, and they are joined.
SpawnAcceptFails ==
  /\ "accept" \in Faults
  /\ mpc = "spawn" /\ created = WorkerCount
  /\ QueueClose
  /\ mpc' = "failJoin"
  /\ UNCHANGED <<wtask, acceptVars, created, started, signalVars, stateVars,
                 netVars>>

JoinAccept ==
  /\ mpc = "joinAccept"
  /\ apc = "exited"
  /\ mpc' = "joinWorkers"
  /\ UNCHANGED <<queueVars, workerVars, acceptVars, created, started,
                 signalVars, stateVars, netVars>>

JoinWorkers ==
  /\ mpc = "joinWorkers"
  /\ AllJoined
  /\ mpc' = "destroy"
  /\ UNCHANGED <<queueVars, workerVars, acceptVars, created, started,
                 signalVars, stateVars, netVars>>

\* destroy begins with request_shutdown ...
DestroyFirst ==
  /\ mpc = "destroy"
  /\ BeginShutdown("main")
  /\ mpc' = "destroyClose"
  /\ UNCHANGED <<queueVars, workerVars, acceptVars, created, started,
                 signalVars, fd, answers>>

DestroyAgain ==
  /\ mpc = "destroy"
  /\ ShutdownAgain
  /\ mpc' = "free"
  /\ UNCHANGED <<queueVars, workerVars, acceptVars, created, started,
                 signalVars, stateVars, netVars>>

DestroyCloseQueue ==
  /\ mpc = "destroyClose"
  /\ FinishShutdown("main")
  /\ mpc' = "free"
  /\ UNCHANGED <<wtask, acceptVars, created, started, signalVars, netVars>>

\* ... and ends by freeing the queue, the mutexes and the server itself.
DestroyFree ==
  /\ mpc = "free"
  /\ mpc' = "freed"
  /\ UNCHANGED <<queueVars, workerVars, acceptVars, created, started,
                 signalVars, stateVars, netVars>>

ClearGlobal ==
  /\ mpc = "freed"
  /\ mpc' = "done"
  /\ UNCHANGED <<queueVars, workerVars, acceptVars, created, started,
                 signalVars, stateVars, netVars>>

MainStep ==
  \/ OpenListenSocket \/ SpawnWorker \/ SpawnWorkerFails \/ PoolJoin
  \/ SpawnAccept \/ SpawnAcceptFails \/ JoinAccept \/ JoinWorkers
  \/ DestroyFirst \/ DestroyAgain \/ DestroyCloseQueue \/ DestroyFree
  \/ ClearGlobal

\* The process has returned from main.
Exited == mpc = "done" /\ UNCHANGED vars

-----------------------------------------------------------------------------
Next ==
  \/ \E c \in Conns : ClientConnect(c)
  \/ \E w \in Workers : WorkerStep(w) \/ ClientStep(w) \/ SpuriousWakeup(w)
  \/ AcceptStep \/ AcceptError
  \/ SignalFirst \/ SignalAgain \/ SignalCloseQueue \/ SignalFreed
  \/ MainStep
  \/ Exited

Spec == Init /\ [][Next]_vars

(* Every thread that can run is eventually scheduled, the caller of        *)
(* request_shutdown returns from it, and a client whose connection a       *)
(* worker is reading sends its request or hangs up.  Nothing makes clients *)
(* connect, signals arrive, accept() fail or waits end spuriously.         *)
Fairness ==
  /\ WF_vars(MainStep)
  /\ WF_vars(AcceptStep)
  /\ WF_vars(SignalCloseQueue)
  /\ \A w \in Workers : WF_vars(WorkerStep(w)) /\ WF_vars(ClientStep(w))

FairSpec == Spec /\ Fairness

-----------------------------------------------------------------------------
(* Properties. *)

\* The slots between head and tail, oldest first, as offsets from head.
Live == {Wrap(head + k) : k \in 0 .. count - 1}

\* Everyone who will still use socket c: the accept thread, a slot of the
\* queue, a worker.
Holders(c) ==
  {<<"accept", 0>> : x \in {y \in {atask} : y = c}}
    \cup {<<"slot", i>> : i \in {j \in Live : items[j] = c}}
    \cup {<<"worker", w>> : w \in {v \in Workers : wtask[v] = c}}

(* An accepted socket is in exactly one place (accept thread, one live     *)
(* slot of the ring, one worker) until it is closed, and nowhere after:    *)
(* server.c and task_queue.c pass a socket on without ever losing it,      *)
(* queueing it twice, serving it twice or touching it after the close.     *)
SingleOwner ==
  \A c \in Conns :
    IF fd[c] = "open" THEN \E h \in Holders(c) : Holders(c) = {h}
    ELSE Holders(c) = {}

(* The server writes exactly one response to each accepted connection      *)
(* before it closes it, from the worker or (503) from the accept thread,   *)
(* whatever the queue and the shutdown do: handle_client_request and       *)
(* server_accept_main never both answer, and neither closes without        *)
(* trying to.                                                              *)
AnsweredOnce ==
  \A c \in Conns : Len(answers[c]) = IF fd[c] = "closed" THEN 1 ELSE 0

(* No lost wakeup: while a worker sleeps on not_empty there are at least   *)
(* as many awake workers on their way through pop as there are queued      *)
(* tasks.  It is why one pthread_cond_signal per push is enough although   *)
(* a worker coming back from a request may overtake the one signalled.     *)
NoStrandedTask ==
  Waiting # {} => count <= Cardinality({w \in Workers : wpc[w] = "pop"})

(* Graceful shutdown drains: once wait (or the joins of a failed start)    *)
(* has returned, every connection the server ever accepted has been        *)
(* answered and closed and the queue is empty.                             *)
DrainedAtJoin ==
  mpc \in {"destroy", "destroyClose", "free", "freed", "done"} =>
    /\ count = 0
    /\ \A c \in Conns : fd[c] # "open"

(* When sqlapi_server_destroy frees the queue, the mutexes and the server, *)
(* no accept thread and no worker is left that could use them.             *)
ThreadsGoneAtFree ==
  mpc \in {"freed", "done"} =>
    /\ apc \in {"none", "exited"}
    /\ \A w \in Workers : wpc[w] \in {"none", "exited"}
    /\ spc # "closing"

(* The ring buffer of task_queue.c with its accept thread and its workers  *)
(* is the bounded closable FIFO of TaskQueueSpec: no reordering at the     *)
(* wrap, no push after close, one worker per task.                         *)
QueueContents == [k \in 1 .. count |-> items[Wrap(head + k - 1)]]
TQ == INSTANCE TaskQueueSpec WITH queue <- QueueContents, held <- wtask
ImplementsTaskQueue == TQ!Spec

(* A connection the server accepted is eventually answered and closed,     *)
(* through overload and shutdown alike.                                    *)
EventuallyAnswered ==
  \A c \in Conns : (fd[c] = "open") ~> (fd[c] = "closed")

(* Once shutdown is requested the accept thread and all workers leave      *)
(* their loops, the joins return and main gets to its end: no deadlock     *)
(* between state_mutex, the queue mutex, not_empty and the joins.          *)
ShutdownCompletes == shuttingDown ~> (mpc = "done")

(* sqlapi_server_start that fails after it created threads returns, and    *)
(* main goes on to destroy the server and to exit with code 1.             *)
FailedStartReturns ==
  (mpc \in {"poolJoin", "failJoin"}) ~> (mpc = "done")
=============================================================================
