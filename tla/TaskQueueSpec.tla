--------------------------- MODULE TaskQueueSpec ---------------------------
(***************************************************************************)
(* What server/task_queue.h promises to the accept thread and to the       *)
(* workers, with no ring buffer, no condition variable and no threads of   *)
(* control: a bounded first-in first-out queue of client sockets that can  *)
(* be closed once.  A push succeeds only while the queue is open and has   *)
(* room, a pop hands the oldest socket to exactly one worker, and closing  *)
(* stops pushes but leaves what is queued to be popped.                    *)
(***************************************************************************)
EXTENDS Naturals, Sequences

CONSTANTS
  Conns,     \* client sockets
  Workers,   \* worker threads
  Capacity,  \* --queue-capacity
  NoConn     \* "no socket in hand"

VARIABLES
  queue,     \* the sockets waiting for a worker, oldest first
  closed,    \* no push succeeds any more
  held       \* held[w]: the socket worker w popped and has not closed yet

vars == <<queue, closed, held>>

Init ==
  /\ queue = <<>>
  /\ closed = FALSE
  /\ held = [w \in Workers |-> NoConn]

\* A successful server_task_queue_try_push.
Push(c) ==
  /\ ~closed
  /\ Len(queue) < Capacity
  /\ queue' = Append(queue, c)
  /\ UNCHANGED <<closed, held>>

\* A server_task_queue_pop that returns 1.
Pop(w) ==
  /\ held[w] = NoConn
  /\ queue # <<>>
  /\ held' = [held EXCEPT ![w] = Head(queue)]
  /\ queue' = Tail(queue)
  /\ UNCHANGED closed

\* The worker is done with its socket and will ask for the next one.
Finish(w) ==
  /\ held[w] # NoConn
  /\ held' = [held EXCEPT ![w] = NoConn]
  /\ UNCHANGED <<queue, closed>>

\* server_task_queue_close.
Close ==
  /\ closed' = TRUE
  /\ UNCHANGED <<queue, held>>

Next ==
  \/ \E c \in Conns : Push(c)
  \/ \E w \in Workers : Pop(w) \/ Finish(w)
  \/ Close

Spec == Init /\ [][Next]_vars
=============================================================================
