------------------------ MODULE ServerRuntimeProofs ------------------------
(***************************************************************************)
(* Proofs about ServerRuntime for every number of connections and workers, *)
(* every queue capacity and every set of faults: sockets and threads, then *)
(* the task queue, where no wakeup is lost and ring buffer, condition      *)
(* variable and threads together are the FIFO of TaskQueueSpec.            *)
(***************************************************************************)
EXTENDS ServerRuntime, FiniteSetTheorems, SequenceTheorems, TLAPS

-----------------------------------------------------------------------------
(* Ring arithmetic. *)

(* Within two laps, wrapping is one conditional subtraction: what           *)
(* (i % capacity) does to a ring index of task_queue.c plus an offset.     *)
LEMMA WrapCases ==
  ASSUME NEW i \in Nat, i < 2 * Capacity
  PROVE  Wrap(i) = IF i < Capacity THEN i ELSE i - Capacity
  <1>1. Capacity \in Nat \ {0}
    BY ConfigAssumption
  <1>2. CASE i < Capacity
    BY <1>1, <1>2 DEF Wrap
  <1>3. CASE ~(i < Capacity)
    <2>1. i - Capacity \in 0 .. Capacity - 1
      BY <1>1, <1>3
    <2>2. i = 1 * Capacity + (i - Capacity)
      BY <1>1
    <2>3. i % Capacity = i - Capacity
      BY <1>1, <2>1, <2>2
    <2> QED BY <1>1, <1>3, <2>3 DEF Wrap
  <1> QED BY <1>2, <1>3

(* A ring index stays a slot of the array. *)
LEMMA WrapInSlots ==
  ASSUME NEW i \in Nat
  PROVE  Wrap(i) \in Slots
  BY ConfigAssumption DEF Wrap, Slots

-----------------------------------------------------------------------------
(* Every variable keeps its type. *)
LEMMA TypeInit == Init => TypeOK
  <1> SUFFICES ASSUME Init PROVE TypeOK
    OBVIOUS
  <1> USE ConfigAssumption, ModelAssumption DEF Init
  <1>1. items \in [Slots -> Conns \cup {NoConn}]
    OBVIOUS
  <1>2. 0 \in Slots /\ count \in 0 .. Capacity
    BY DEF Slots
  <1>3. /\ wpc \in [Workers -> WorkerStates]
        /\ wtask \in [Workers -> Conns \cup {NoConn}]
        /\ apc \in AcceptStates /\ mpc \in MainStates
    BY DEF WorkerStates, AcceptStates, MainStates
  <1>4. created \in 0 .. WorkerCount /\ signals \in 0 .. MaxSignals
    OBVIOUS
  <1>5. answers \in [Conns -> Seq(AnswerKinds)]
    OBVIOUS
  <1> QED BY <1>1, <1>2, <1>3, <1>4, <1>5 DEF TypeOK

(* Answering and closing a connection keeps the types of what it writes. *)
LEMMA AnswerTypes ==
  ASSUME fd \in [Conns -> {"none", "open", "closed"}],
         answers \in [Conns -> Seq(AnswerKinds)],
         NEW c, NEW kind \in AnswerKinds, AnswerAndClose(c, kind)
  PROVE  /\ fd' \in [Conns -> {"none", "open", "closed"}]
         /\ answers' \in [Conns -> Seq(AnswerKinds)]
  <1>1. fd' \in [Conns -> {"none", "open", "closed"}]
    BY DEF AnswerAndClose
  <1>2. PICK k \in {kind, "dropped"} :
          answers' = [answers EXCEPT ![c] = Append(@, k)]
    BY DEF AnswerAndClose
  <1>3. k \in AnswerKinds
    BY DEF AnswerKinds
  <1>4. \A d \in Conns : Append(answers[d], k) \in Seq(AnswerKinds)
    BY <1>3
  <1> QED BY <1>1, <1>2, <1>4

(* Every step keeps the types; the ring indices need the wrap of task_queue.c. *)
LEMMA TypeNext == TypeOK /\ [Next]_vars => TypeOK'
  <1> SUFFICES ASSUME TypeOK, [Next]_vars PROVE TypeOK'
    OBVIOUS
  <1> USE ConfigAssumption, ModelAssumption
      DEF TypeOK, vars, queueVars, workerVars, acceptVars, mainVars,
          signalVars, stateVars, netVars,
          WorkerStates, AcceptStates, MainStates, AnswerKinds
  <1>1. ASSUME NEW c \in Conns, ClientConnect(c) PROVE TypeOK'
    BY <1>1 DEF ClientConnect
  <1>2. ASSUME NEW c \in Conns, AcceptConn(c) PROVE TypeOK'
    BY <1>2 DEF AcceptConn
  <1>3. ASSUME NEW w \in Workers, PopTake(w) PROVE TypeOK'
    <2>1. head' \in Slots
      BY <1>3, WrapInSlots DEF PopTake, Dequeue, Slots
    <2>2. count' \in 0 .. Capacity
      BY <1>3 DEF PopTake, Dequeue
    <2>3. wtask' \in [Workers -> Conns \cup {NoConn}]
      BY <1>3 DEF PopTake, Dequeue
    <2> QED BY <1>3, <2>1, <2>2, <2>3 DEF PopTake, Dequeue
  <1>4. ASSUME NEW w \in Workers, PopWait(w) PROVE TypeOK'
    BY <1>4, WrapInSlots DEF PopWait
  <1>5. ASSUME NEW w \in Workers, PopExit(w) PROVE TypeOK'
    BY <1>5, WrapInSlots DEF PopExit
  <1>6. ASSUME NEW w \in Workers, Respond(w) PROVE TypeOK'
    <2>1. PICK kind \in AnswerKinds : AnswerAndClose(wtask[w], kind)
      BY <1>6 DEF Respond
    <2>2. /\ fd' \in [Conns -> {"none", "open", "closed"}]
          /\ answers' \in [Conns -> Seq(AnswerKinds)]
      BY <2>1, AnswerTypes
    <2> QED BY <1>6, <2>2 DEF Respond
  <1>7. ASSUME NEW w \in Workers, ReadRequest(w) PROVE TypeOK'
    BY <1>7, WrapInSlots DEF ReadRequest
  <1>8. ASSUME NEW w \in Workers, ReadFails(w) PROVE TypeOK'
    <2>1. PICK kind \in AnswerKinds : AnswerAndClose(wtask[w], kind)
      BY <1>8 DEF ReadFails
    <2>2. /\ fd' \in [Conns -> {"none", "open", "closed"}]
          /\ answers' \in [Conns -> Seq(AnswerKinds)]
      BY <2>1, AnswerTypes
    <2> QED BY <1>8, <2>2 DEF ReadFails
  <1>9. ASSUME NEW w \in Workers, SpuriousWakeup(w) PROVE TypeOK'
    BY <1>9, WrapInSlots DEF SpuriousWakeup
  <1>10. CASE AcceptCheck
    BY <1>10, WrapInSlots DEF AcceptCheck
  <1>11. CASE AcceptClosed
    BY <1>11, WrapInSlots DEF AcceptClosed
  <1>12. CASE TryPush
    <2>1. tail' \in Slots
      BY <1>12, WrapInSlots DEF TryPush, Enqueue, Slots
    <2>2. count' \in 0 .. Capacity
      BY <1>12 DEF TryPush, Enqueue, HasRoom
    <2>3. items' \in [Slots -> Conns \cup {NoConn}]
      BY <1>12 DEF TryPush, Enqueue
    <2>4. wpc' \in [Workers -> WorkerStates]
      BY <1>12 DEF TryPush, Enqueue, CondSignal, Waiting
    <2> QED BY <1>12, <2>1, <2>2, <2>3, <2>4 DEF TryPush, Enqueue
  <1>13. CASE TryPushRefused
    BY <1>13, WrapInSlots DEF TryPushRefused
  <1>14. CASE Reject
    <2>1. /\ fd' \in [Conns -> {"none", "open", "closed"}]
          /\ answers' \in [Conns -> Seq(AnswerKinds)]
      BY <1>14, AnswerTypes DEF Reject
    <2> QED BY <1>14, <2>1 DEF Reject
  <1>15. CASE AcceptError
    BY <1>15, WrapInSlots DEF AcceptError
  <1>16. CASE SignalFirst
    <2>1. signals' \in 0 .. MaxSignals
      BY <1>16 DEF SignalFirst
    <2> QED BY <1>16, <2>1 DEF SignalFirst, BeginShutdown, CloseListenSocket
  <1>17. CASE SignalAgain
    BY <1>17, WrapInSlots DEF SignalAgain, ShutdownAgain
  <1>18. CASE SignalCloseQueue
    BY <1>18, WrapInSlots DEF SignalCloseQueue, FinishShutdown, QueueClose, CondBroadcast
  <1>19. CASE SignalFreed
    BY <1>19, WrapInSlots DEF SignalFreed
  <1>20. CASE OpenListenSocket
    <2>1. mpc' \in MainStates /\ listening' \in BOOLEAN
      BY <1>20 DEF OpenListenSocket
    <2> QED BY <1>20, <2>1 DEF OpenListenSocket
  <1>21. CASE SpawnWorker
    <2>1. created' \in 0 .. WorkerCount
      BY <1>21 DEF SpawnWorker
    <2>2. wpc' \in [Workers -> WorkerStates]
      BY <1>21 DEF SpawnWorker
    <2> QED BY <1>21, <2>1, <2>2 DEF SpawnWorker
  <1>22. CASE SpawnWorkerFails
    BY <1>22, WrapInSlots DEF SpawnWorkerFails
  <1>23. CASE PoolJoin
    BY <1>23, WrapInSlots DEF PoolJoin, CloseListenSocket
  <1>24. CASE SpawnAccept
    BY <1>24, WrapInSlots DEF SpawnAccept
  <1>25. CASE SpawnAcceptFails
    BY <1>25, WrapInSlots DEF SpawnAcceptFails, QueueClose, CondBroadcast
  <1>26. CASE JoinAccept
    BY <1>26, WrapInSlots DEF JoinAccept
  <1>27. CASE JoinWorkers
    BY <1>27, WrapInSlots DEF JoinWorkers
  <1>28. CASE DestroyFirst
    BY <1>28, WrapInSlots DEF DestroyFirst, BeginShutdown, CloseListenSocket
  <1>29. CASE DestroyAgain
    BY <1>29, WrapInSlots DEF DestroyAgain, ShutdownAgain
  <1>30. CASE DestroyCloseQueue
    BY <1>30, WrapInSlots DEF DestroyCloseQueue, FinishShutdown, QueueClose, CondBroadcast
  <1>31. CASE DestroyFree
    BY <1>31, WrapInSlots DEF DestroyFree
  <1>32. CASE ClearGlobal
    BY <1>32, WrapInSlots DEF ClearGlobal
  <1>33. CASE UNCHANGED vars
    BY <1>33
  <1> QED BY <1>1, <1>2, <1>3, <1>4, <1>5, <1>6, <1>7, <1>8, <1>9, <1>10, <1>11, <1>12, <1>13, <1>14, <1>15, <1>16, <1>17, <1>18, <1>19, <1>20, <1>21, <1>22, <1>23, <1>24, <1>25, <1>26, <1>27, <1>28, <1>29, <1>30, <1>31, <1>32, <1>33
     DEF Next, WorkerStep, ClientStep, AcceptStep, MainStep, Exited

(* Type correctness: indices stay inside the ring and count never passes the *)
(* capacity, although try_push compares before it increments. *)
THEOREM TypeCorrect == Spec => []TypeOK
  BY TypeInit, TypeNext, PTL DEF Spec

-----------------------------------------------------------------------------
(***************************************************************************)
(* Control.  How far start has come, which threads exist, and why a thread *)
(* may leave: a worker only exits on a closed empty queue (and a closed    *)
(* queue takes no push), so "all joined" implies "nothing queued".         *)
(***************************************************************************)
Starting == {"created", "spawn", "poolJoin", "failJoin"}
Joined == {"destroy", "destroyClose", "free", "freed", "done"}

ControlInv ==
  /\ \A w \in Workers : w <= created <=> wpc[w] # "none"
  /\ \A w \in Workers : wpc[w] = "exited" => closed /\ count = 0
  /\ apc = "none" => count = 0
  /\ mpc \in Starting => apc = "none"
  /\ mpc = "created" => created = 0
  /\ apc # "none" => created = WorkerCount
  /\ mpc \in Joined \cup {"joinWorkers"} => apc \in {"none", "exited"}
  /\ mpc \in Joined => AllJoined
  /\ stateMutex = "signal" <=> spc = "closing"
  /\ stateMutex # "free" => shuttingDown
  /\ mpc \in {"free", "freed", "done"} => shuttingDown /\ stateMutex = "free"

(* Before start there are no threads and the queue is open and empty. *)
LEMMA ControlInit == Init => ControlInv
  BY ConfigAssumption
     DEF Init, ControlInv, Workers, Starting, Joined

(* Every step keeps the control invariant. *)
LEMMA ControlNext == TypeOK /\ ControlInv /\ [Next]_vars => ControlInv'
  <1> SUFFICES ASSUME TypeOK, ControlInv, [Next]_vars PROVE ControlInv'
    OBVIOUS
  <1> USE ConfigAssumption
      DEF TypeOK, ControlInv, Starting, Joined, AllJoined, Workers, vars,
          queueVars, workerVars, acceptVars, mainVars, signalVars, stateVars,
          netVars
  <1>1. ASSUME NEW c \in Conns, ClientConnect(c) PROVE ControlInv'
    BY <1>1 DEF ClientConnect
  <1>2. ASSUME NEW c \in Conns, AcceptConn(c) PROVE ControlInv'
    BY <1>2 DEF AcceptConn
  <1>3. ASSUME NEW w \in Workers, PopTake(w) PROVE ControlInv'
    BY <1>3 DEF PopTake, Dequeue
  <1>4. ASSUME NEW w \in Workers, PopWait(w) PROVE ControlInv'
    BY <1>4 DEF PopWait
  <1>5. ASSUME NEW w \in Workers, PopExit(w) PROVE ControlInv'
    BY <1>5 DEF PopExit
  <1>6. ASSUME NEW w \in Workers, Respond(w) PROVE ControlInv'
    BY <1>6 DEF Respond, AnswerAndClose
  <1>7. ASSUME NEW w \in Workers, ReadRequest(w) PROVE ControlInv'
    BY <1>7 DEF ReadRequest
  <1>8. ASSUME NEW w \in Workers, ReadFails(w) PROVE ControlInv'
    BY <1>8 DEF ReadFails, AnswerAndClose
  <1>9. ASSUME NEW w \in Workers, SpuriousWakeup(w) PROVE ControlInv'
    BY <1>9 DEF SpuriousWakeup
  <1>10. CASE AcceptCheck
    BY <1>10 DEF AcceptCheck
  <1>11. CASE AcceptClosed
    BY <1>11 DEF AcceptClosed
  <1>12. CASE TryPush
    BY <1>12 DEF TryPush, Enqueue, CondSignal, HasRoom, Waiting
  <1>13. CASE TryPushRefused
    BY <1>13 DEF TryPushRefused
  <1>14. CASE Reject
    BY <1>14 DEF Reject, AnswerAndClose
  <1>15. CASE AcceptError
    BY <1>15 DEF AcceptError
  <1>16. CASE SignalFirst
    BY <1>16 DEF SignalFirst, BeginShutdown, CloseListenSocket
  <1>17. CASE SignalAgain
    BY <1>17 DEF SignalAgain, ShutdownAgain
  <1>18. CASE SignalCloseQueue
    BY <1>18 DEF SignalCloseQueue, FinishShutdown, QueueClose, CondBroadcast
  <1>19. CASE SignalFreed
    BY <1>19 DEF SignalFreed
  <1>20. CASE OpenListenSocket
    BY <1>20 DEF OpenListenSocket
  <1>21. CASE SpawnWorker
    BY <1>21 DEF SpawnWorker
  <1>22. CASE SpawnWorkerFails
    BY <1>22 DEF SpawnWorkerFails
  <1>23. CASE PoolJoin
    BY <1>23 DEF PoolJoin, CloseListenSocket
  <1>24. CASE SpawnAccept
    BY <1>24 DEF SpawnAccept
  <1>25. CASE SpawnAcceptFails
    BY <1>25 DEF SpawnAcceptFails, QueueClose, CondBroadcast
  <1>26. CASE JoinAccept
    BY <1>26 DEF JoinAccept
  <1>27. CASE JoinWorkers
    BY <1>27 DEF JoinWorkers
  <1>28. CASE DestroyFirst
    BY <1>28 DEF DestroyFirst, BeginShutdown, CloseListenSocket
  <1>29. CASE DestroyAgain
    BY <1>29 DEF DestroyAgain, ShutdownAgain
  <1>30. CASE DestroyCloseQueue
    BY <1>30 DEF DestroyCloseQueue, FinishShutdown, QueueClose, CondBroadcast
  <1>31. CASE DestroyFree
    BY <1>31 DEF DestroyFree
  <1>32. CASE ClearGlobal
    BY <1>32 DEF ClearGlobal
  <1>33. CASE UNCHANGED vars
    BY <1>33
  <1> QED
    BY <1>1, <1>2, <1>3, <1>4, <1>5, <1>6, <1>7, <1>8, <1>9, <1>10, <1>11, <1>12, <1>13, <1>14, <1>15, <1>16, <1>17, <1>18, <1>19, <1>20, <1>21, <1>22, <1>23, <1>24, <1>25, <1>26, <1>27, <1>28, <1>29, <1>30, <1>31, <1>32, <1>33
       DEF Next, WorkerStep, ClientStep, AcceptStep, MainStep, Exited

-----------------------------------------------------------------------------
(***************************************************************************)
(* Sockets have one owner.  SingleOwner is not inductive: it says nothing  *)
(* about where tail is or about which control states have a socket in      *)
(* hand.  OwnerInv spells the same fact out pair by pair, and RingInv,     *)
(* HandInv, BacklogInv and AnsweredOnce are what its preservation needs.   *)
(***************************************************************************)

\* The k-th oldest task of the ring.
QueueAt(k) == items[Wrap(head + k)]
Queued == 0 .. count - 1

RingInv == tail = Wrap(head + count)

HandInv ==
  /\ \A w \in Workers : wtask[w] # NoConn <=> wpc[w] \in {"read", "respond"}
  /\ atask # NoConn <=> apc \in {"push", "reject"}

BacklogInv == \A c \in backlog : fd[c] = "none"

OwnerInv ==
  /\ \A c \in Conns : fd[c] = "open" =>
       \/ atask = c
       \/ \E k \in Queued : QueueAt(k) = c
       \/ \E w \in Workers : wtask[w] = c
  /\ atask # NoConn => fd[atask] = "open"
  /\ \A k \in Queued : QueueAt(k) \in Conns /\ fd[QueueAt(k)] = "open"
  /\ \A w \in Workers : wtask[w] # NoConn => fd[wtask[w]] = "open"
  /\ \A k \in Queued : QueueAt(k) # atask
  /\ \A w \in Workers : wtask[w] # NoConn => wtask[w] # atask
  /\ \A w \in Workers, k \in Queued : wtask[w] # QueueAt(k)
  /\ \A j, k \in Queued : QueueAt(j) = QueueAt(k) => j = k
  /\ \A v, w \in Workers : wtask[v] # NoConn /\ wtask[v] = wtask[w] => v = w

SocketInv ==
  TypeOK /\ RingInv /\ HandInv /\ BacklogInv /\ OwnerInv /\ AnsweredOnce

(* A push leaves the queued tasks where they are and adds one at the end:  *)
(* the slot at tail is not one of theirs, even across the wrap.            *)
LEMMA PushAppends ==
  ASSUME TypeOK, RingInv, TryPush
  PROVE  /\ count' = count + 1 /\ count < Capacity
         /\ \A k \in Queued : QueueAt(k)' = QueueAt(k)
         /\ \A k \in Nat : k = count => QueueAt(k)' = atask
         /\ RingInv'
  <1> USE ConfigAssumption DEF TypeOK, RingInv, TryPush, Enqueue, HasRoom
  <1>1. count < Capacity /\ count' = count + 1 /\ head' = head
    OBVIOUS
  <1>0. \A i \in Nat : i < 2 * Capacity =>
          Wrap(i) = IF i < Capacity THEN i ELSE i - Capacity
    BY WrapCases
  <1>2. \A k \in Queued : Wrap(head + k) \in Slots /\ Wrap(head + k) # tail
    <2> TAKE k \in Queued
    <2>1. k \in Nat /\ k < count /\ head \in Nat /\ head < Capacity
      BY DEF Queued, Slots
    <2>2. Wrap(head + k) =
            IF head + k < Capacity THEN head + k ELSE head + k - Capacity
      BY <1>0, <1>1, <2>1
    <2>3. tail = IF head + count < Capacity THEN head + count
                 ELSE head + count - Capacity
      BY <1>0, <1>1, <2>1
    <2> QED BY <1>1, <2>1, <2>2, <2>3 DEF Slots
  <1>3. \A k \in Queued : QueueAt(k)' = QueueAt(k)
    BY <1>1, <1>2 DEF QueueAt
  <1>4. \A k \in Nat : k = count => QueueAt(k)' = atask
    BY <1>1 DEF QueueAt
  <1>5. tail' = Wrap(head' + count')
    <2>1. head \in Nat /\ head < Capacity /\ tail \in Nat /\ tail < Capacity
      BY DEF Slots
    <2>2. tail = IF head + count < Capacity THEN head + count
                 ELSE head + count - Capacity
      BY <1>0, <1>1, <2>1
    <2>3. Wrap(tail + 1) = IF tail + 1 < Capacity THEN tail + 1
                           ELSE tail + 1 - Capacity
      BY <1>0, <2>1
    <2>4. Wrap(head + (count + 1)) =
            IF head + (count + 1) < Capacity THEN head + (count + 1)
            ELSE head + (count + 1) - Capacity
      BY <1>0, <1>1, <2>1
    <2>5. Wrap(tail + 1) = Wrap(head + (count + 1))
      BY <1>1, <2>1, <2>2, <2>3, <2>4
    <2> QED BY <1>1, <2>5
  <1> QED BY <1>1, <1>3, <1>4, <1>5

(* A pop hands over the oldest task and moves every other one up by one. *)
LEMMA PopShifts ==
  ASSUME TypeOK, RingInv, NEW w \in Workers, PopTake(w)
  PROVE  /\ count' = count - 1 /\ count > 0
         /\ wtask' = [wtask EXCEPT ![w] = QueueAt(0)]
         /\ \A k \in 0 .. count - 2 : QueueAt(k)' = QueueAt(k + 1)
         /\ RingInv'
  <1> USE ConfigAssumption DEF TypeOK, RingInv, PopTake, Dequeue
  <1>1. /\ count > 0 /\ count' = count - 1 /\ items' = items /\ tail' = tail
        /\ head' = Wrap(head + 1)
    OBVIOUS
  <1>2. Wrap(head + 0) = head
    BY WrapCases DEF Slots
  <1>3. wtask' = [wtask EXCEPT ![w] = QueueAt(0)]
    BY <1>2 DEF QueueAt
  <1>0. \A i \in Nat : i < 2 * Capacity =>
          Wrap(i) = IF i < Capacity THEN i ELSE i - Capacity
    BY WrapCases
  <1>4. \A k \in 0 .. Capacity - 1 : Wrap(head' + k) = Wrap(head + (k + 1))
    <2> TAKE k \in 0 .. Capacity - 1
    <2>1. head \in Nat /\ head < Capacity /\ k \in Nat /\ k < Capacity
      BY DEF Slots
    <2>2. head' = IF head + 1 < Capacity THEN head + 1
                  ELSE head + 1 - Capacity
      BY <1>0, <1>1, <2>1
    <2>3. Wrap(head' + k) = IF head' + k < Capacity THEN head' + k
                            ELSE head' + k - Capacity
      BY <1>0, <2>1, <2>2
    <2>4. Wrap(head + (k + 1)) =
            IF head + (k + 1) < Capacity THEN head + (k + 1)
            ELSE head + (k + 1) - Capacity
      BY <1>0, <2>1
    <2> HIDE DEF TypeOK, RingInv, PopTake, Dequeue
    <2> QED BY <2>1, <2>2, <2>3, <2>4
  <1>5. \A k \in 0 .. count - 2 : QueueAt(k)' = QueueAt(k + 1)
    BY <1>1, <1>4 DEF QueueAt
  <1>6. tail' = Wrap(head' + count')
    BY <1>1, <1>4
  <1> QED BY <1>1, <1>3, <1>5, <1>6

(* A new server holds no socket. *)
LEMMA SocketInit == Init => SocketInv
  <1> SUFFICES ASSUME Init PROVE SocketInv
    OBVIOUS
  <1>1. TypeOK
    BY TypeInit
  <1>2. Wrap(0) = 0
    BY WrapCases, ConfigAssumption
  <1>3. RingInv
    BY <1>2 DEF Init, RingInv
  <1>4. HandInv /\ BacklogInv
    BY DEF Init, HandInv, BacklogInv
  <1>5. OwnerInv
    BY DEF Init, OwnerInv, Queued
  <1>6. AnsweredOnce
    BY DEF Init, AnsweredOnce
  <1> QED BY <1>1, <1>3, <1>4, <1>5, <1>6 DEF SocketInv

(* A step that moves no socket keeps every part but, perhaps, HandInv and  *)
(* BacklogInv.                                                             *)
LEMMA OwnersUnchanged ==
  ASSUME SocketInv,
         UNCHANGED <<items, head, tail, count, wtask, atask, fd, answers>>
  PROVE  RingInv' /\ OwnerInv' /\ AnsweredOnce'
  BY DEF SocketInv, RingInv, OwnerInv, AnsweredOnce, QueueAt, Queued, Wrap

(* Taking a connection out of the kernel's queue. *)
LEMMA AcceptConnSocket ==
  ASSUME SocketInv, NEW c \in Conns, AcceptConn(c)
  PROVE  RingInv' /\ HandInv' /\ BacklogInv' /\ OwnerInv' /\ AnsweredOnce'
  <1> USE ModelAssumption DEF SocketInv, TypeOK
  <1>1. UNCHANGED <<items, head, tail, count, wtask, wpc, answers>>
    BY DEF AcceptConn, queueVars, workerVars
  <1>2. /\ fd[c] = "none" /\ fd' = [fd EXCEPT ![c] = "open"]
        /\ atask' = c /\ atask = NoConn /\ apc' = "push"
    BY DEF AcceptConn, BacklogInv, HandInv
  <1>3. RingInv'
    BY <1>1 DEF RingInv, Wrap
  <1>4. HandInv'
    BY <1>1, <1>2 DEF HandInv
  <1>5. BacklogInv'
    BY <1>2 DEF AcceptConn, BacklogInv
  <1>6. AnsweredOnce'
    BY <1>1, <1>2 DEF AnsweredOnce
  <1>7. \A k \in Queued : QueueAt(k)' = QueueAt(k) /\ QueueAt(k) # c
    BY <1>1, <1>2 DEF QueueAt, OwnerInv, Wrap
  <1>8. Queued' = Queued /\ \A w \in Workers : wtask[w] # c
    BY <1>1, <1>2 DEF Queued, OwnerInv
  <1>9. OwnerInv'
    BY <1>1, <1>2, <1>7, <1>8 DEF OwnerInv
  <1> QED BY <1>3, <1>4, <1>5, <1>6, <1>9

(* Moving a socket from the accept thread into the ring. *)
LEMMA TryPushSocket ==
  ASSUME SocketInv, TryPush
  PROVE  RingInv' /\ HandInv' /\ BacklogInv' /\ OwnerInv' /\ AnsweredOnce'
  <1> USE ModelAssumption DEF SocketInv, TypeOK
  <1>1. /\ UNCHANGED <<wtask, fd, answers, backlog>>
        /\ atask' = NoConn /\ atask # NoConn /\ atask \in Conns
        /\ apc' = "check"
    BY DEF TryPush, netVars, HandInv
  <1>2. /\ count' = count + 1
        /\ \A k \in Queued : QueueAt(k)' = QueueAt(k)
        /\ \A k \in Nat : k = count => QueueAt(k)' = atask
        /\ RingInv'
    BY PushAppends
  <1>3. HandInv'
    <2>1. \A w \in Workers :
            wpc'[w] \in {"read", "respond"} <=> wpc[w] \in {"read", "respond"}
      BY DEF TryPush, Enqueue, CondSignal, Waiting
    <2> QED BY <1>1, <2>1 DEF HandInv
  <1>4. BacklogInv' /\ AnsweredOnce'
    BY <1>1 DEF BacklogInv, AnsweredOnce
  <1>5. \A k \in Queued' : k \in Queued \/ (k \in Nat /\ k = count)
    BY <1>2 DEF Queued
  <1>6. \A k \in Queued : k \in Queued' /\ count \in Queued'
    BY <1>2 DEF Queued
  <1>7. count \in Nat /\ count \in Queued' /\ count \notin Queued
    BY <1>2 DEF Queued
  <1>8. OwnerInv'
    <2>1. ASSUME NEW c \in Conns, fd'[c] = "open"
          PROVE  \/ atask' = c
                 \/ \E k \in Queued' : QueueAt(k)' = c
                 \/ \E v \in Workers : wtask'[v] = c
      <3>1. CASE atask = c
        BY <3>1, <1>2, <1>7
      <3>2. CASE \E k \in Queued : QueueAt(k) = c
        BY <3>2, <1>2, <1>6
      <3>3. CASE \E v \in Workers : wtask[v] = c
        BY <3>3, <1>1
      <3> QED BY <2>1, <1>1, <3>1, <3>2, <3>3 DEF OwnerInv
    <2>2. atask' # NoConn => fd'[atask'] = "open"
      BY <1>1, <1>2, <1>5, <1>6, <1>7 DEF OwnerInv
    <2>3. \A k \in Queued' : QueueAt(k)' \in Conns /\ fd'[QueueAt(k)'] = "open"
      BY <1>1, <1>2, <1>5, <1>6, <1>7 DEF OwnerInv
    <2>4. \A v \in Workers : wtask'[v] # NoConn => fd'[wtask'[v]] = "open"
      BY <1>1, <1>2, <1>5, <1>6, <1>7 DEF OwnerInv
    <2>5. \A k \in Queued' : QueueAt(k)' # atask'
      BY <1>1, <1>2, <1>5, <1>6, <1>7 DEF OwnerInv
    <2>6. \A v \in Workers : wtask'[v] # NoConn => wtask'[v] # atask'
      BY <1>1, <1>2, <1>5, <1>6, <1>7 DEF OwnerInv
    <2>7. \A v \in Workers, k \in Queued' : wtask'[v] # QueueAt(k)'
      BY <1>1, <1>2, <1>5, <1>6, <1>7 DEF OwnerInv
    <2>8. \A j, k \in Queued' : QueueAt(j)' = QueueAt(k)' => j = k
      BY <1>1, <1>2, <1>5, <1>6, <1>7 DEF OwnerInv
    <2>9. \A u, v \in Workers :
            wtask'[u] # NoConn /\ wtask'[u] = wtask'[v] => u = v
      BY <1>1, <1>2, <1>5, <1>6, <1>7 DEF OwnerInv
    <2> QED BY <2>1, <2>2, <2>3, <2>4, <2>5, <2>6, <2>7, <2>8, <2>9 DEF OwnerInv
  <1> QED BY <1>2, <1>3, <1>4, <1>8

(* Moving the oldest socket from the ring to a worker. *)
LEMMA PopTakeSocket ==
  ASSUME SocketInv, NEW w \in Workers, PopTake(w)
  PROVE  RingInv' /\ HandInv' /\ BacklogInv' /\ OwnerInv' /\ AnsweredOnce'
  <1> USE ModelAssumption DEF SocketInv, TypeOK
  <1>1. /\ UNCHANGED <<fd, answers, backlog, atask, apc>>
        /\ wtask[w] = NoConn
        /\ wpc' = [wpc EXCEPT ![w] = "read"]
    BY DEF PopTake, netVars, acceptVars, HandInv
  <1>2. /\ count' = count - 1 /\ count > 0
        /\ wtask' = [wtask EXCEPT ![w] = QueueAt(0)]
        /\ \A k \in 0 .. count - 2 : QueueAt(k)' = QueueAt(k + 1)
        /\ RingInv'
    BY PopShifts
  <1>3. 0 \in Queued /\ Queued' = 0 .. count - 2
    BY <1>2 DEF Queued
  <1>4. QueueAt(0) \in Conns /\ QueueAt(0) # NoConn
    BY <1>3 DEF OwnerInv
  <1>5. HandInv'
    BY <1>1, <1>2, <1>4 DEF HandInv
  <1>6. BacklogInv' /\ AnsweredOnce'
    BY <1>1 DEF BacklogInv, AnsweredOnce
  <1>7. \A k \in Queued' : k + 1 \in Queued /\ QueueAt(k)' = QueueAt(k + 1)
    BY <1>2, <1>3 DEF Queued
  <1>8. \A k \in Queued : k = 0 \/ \E j \in Queued' : k = j + 1
    <2> TAKE k \in Queued
    <2>1. k # 0 => k - 1 \in Queued' /\ k = (k - 1) + 1
      BY <1>2, <1>3 DEF Queued
    <2> QED BY <2>1
  <1>9. \A j, k \in Queued' : j \in Nat /\ k \in Nat /\ (j + 1 = k + 1 => j = k)
                               /\ j + 1 # 0
    BY <1>3
  <1>10. OwnerInv'
    <2>1. ASSUME NEW c \in Conns, fd'[c] = "open"
          PROVE  \/ atask' = c
                 \/ \E k \in Queued' : QueueAt(k)' = c
                 \/ \E v \in Workers : wtask'[v] = c
      <3>1. CASE atask = c
        BY <3>1, <1>1
      <3>2. ASSUME NEW k \in Queued, QueueAt(k) = c
            PROVE  \/ \E j \in Queued' : QueueAt(j)' = c
                   \/ \E v \in Workers : wtask'[v] = c
        <4>1. CASE k = 0
          BY <3>2, <4>1, <1>2
        <4>2. ASSUME NEW j \in Queued', k = j + 1
              PROVE  \E i \in Queued' : QueueAt(i)' = c
          BY <3>2, <4>2, <1>7
        <4> QED BY <4>1, <4>2, <1>8
      <3>3. CASE \E v \in Workers : wtask[v] = c
        BY <3>3, <1>1, <1>2
      <3> QED BY <2>1, <1>1, <3>1, <3>2, <3>3 DEF OwnerInv
    <2>2. atask' # NoConn => fd'[atask'] = "open"
      BY <1>1, <1>2, <1>3, <1>4, <1>7, <1>8, <1>9 DEF OwnerInv
    <2>3. \A k \in Queued' : QueueAt(k)' \in Conns /\ fd'[QueueAt(k)'] = "open"
      BY <1>1, <1>2, <1>3, <1>4, <1>7, <1>8, <1>9 DEF OwnerInv
    <2>4. \A v \in Workers : wtask'[v] # NoConn => fd'[wtask'[v]] = "open"
      BY <1>1, <1>2, <1>3, <1>4, <1>7, <1>8, <1>9 DEF OwnerInv
    <2>5. \A k \in Queued' : QueueAt(k)' # atask'
      BY <1>1, <1>2, <1>3, <1>4, <1>7, <1>8, <1>9 DEF OwnerInv
    <2>6. \A v \in Workers : wtask'[v] # NoConn => wtask'[v] # atask'
      BY <1>1, <1>2, <1>3, <1>4, <1>7, <1>8, <1>9 DEF OwnerInv
    <2>7. \A v \in Workers, k \in Queued' : wtask'[v] # QueueAt(k)'
      BY <1>1, <1>2, <1>3, <1>4, <1>7, <1>8, <1>9 DEF OwnerInv
    <2>8. \A j, k \in Queued' : QueueAt(j)' = QueueAt(k)' => j = k
      BY <1>1, <1>2, <1>3, <1>4, <1>7, <1>8, <1>9 DEF OwnerInv
    <2>9. \A u, v \in Workers :
            wtask'[u] # NoConn /\ wtask'[u] = wtask'[v] => u = v
      BY <1>1, <1>2, <1>3, <1>4, <1>7, <1>8, <1>9 DEF OwnerInv
    <2> QED BY <2>1, <2>2, <2>3, <2>4, <2>5, <2>6, <2>7, <2>8, <2>9 DEF OwnerInv
  <1> QED BY <1>2, <1>5, <1>6, <1>10

(* Answering an open connection that has had no answer: one answer. *)
LEMMA AnswerOnce ==
  ASSUME TypeOK, AnsweredOnce, NEW c \in Conns, fd[c] = "open",
         NEW kind, AnswerAndClose(c, kind)
  PROVE  AnsweredOnce'
  <1>1. PICK k \in {kind, "dropped"} :
          answers' = [answers EXCEPT ![c] = Append(@, k)]
    BY DEF AnswerAndClose
  <1>2. fd' = [fd EXCEPT ![c] = "closed"]
    BY DEF AnswerAndClose
  <1>3. \A d \in Conns : d # c => answers'[d] = answers[d] /\ fd'[d] = fd[d]
    BY <1>1, <1>2 DEF TypeOK
  <1>4. Len(answers[c]) = 0 /\ answers[c] \in Seq(AnswerKinds)
    BY DEF AnsweredOnce, TypeOK
  <1>5. Len(answers'[c]) = 1 /\ fd'[c] = "closed"
    <2>1. answers'[c] = Append(answers[c], k) /\ fd'[c] = "closed"
      BY <1>1, <1>2 DEF TypeOK
    <2> QED BY <1>4, <2>1
  <1> QED BY <1>3, <1>5 DEF AnsweredOnce

(* A worker closes its socket after the one answer it writes. *)
LEMMA WorkerCloseSocket ==
  ASSUME SocketInv, NEW w \in Workers, Respond(w) \/ ReadFails(w)
  PROVE  RingInv' /\ HandInv' /\ BacklogInv' /\ OwnerInv' /\ AnsweredOnce'
  <1> USE ModelAssumption DEF SocketInv, TypeOK
  <1> DEFINE c == wtask[w]
  <1>1. /\ UNCHANGED <<items, head, tail, count, atask, apc, backlog>>
        /\ wtask' = [wtask EXCEPT ![w] = NoConn]
        /\ wpc' = [wpc EXCEPT ![w] = "pop"]
        /\ wpc[w] \in {"read", "respond"}
    BY DEF Respond, ReadFails, queueVars, acceptVars
  <1>2. PICK kind : AnswerAndClose(c, kind)
    BY DEF Respond, ReadFails
  <1>3. fd' = [fd EXCEPT ![c] = "closed"]
    BY <1>2 DEF AnswerAndClose
  <1>4. c \in Conns /\ c # NoConn /\ fd[c] = "open"
    BY <1>1 DEF HandInv, OwnerInv
  <1>5. AnsweredOnce'
    BY <1>2, <1>4, AnswerOnce
  <1>6. RingInv' /\ HandInv'
    BY <1>1 DEF RingInv, HandInv, Wrap
  <1>7. BacklogInv'
    BY <1>1, <1>3, <1>4 DEF BacklogInv
  <1>8. Queued' = Queued /\ \A k \in Queued : QueueAt(k)' = QueueAt(k)
    BY <1>1 DEF QueueAt, Queued, Wrap
  <1>9. OwnerInv'
    <2>1. \A d \in Conns : d # c => fd'[d] = fd[d]
      BY <1>3
    <2>2. fd'[c] = "closed"
      BY <1>3, <1>4
    <2>3. \A v \in Workers : wtask'[v] = IF v = w THEN NoConn ELSE wtask[v]
      BY <1>1
    <2>4. \A v \in Workers : v # w => wtask[v] # c
      BY <1>4 DEF OwnerInv
    <2>5. atask # c /\ \A k \in Queued : QueueAt(k) # c
      BY <1>4 DEF OwnerInv
    <2> HIDE DEF c
    <2>6. ASSUME NEW d \in Conns, fd'[d] = "open"
          PROVE  \/ atask' = d
                 \/ \E k \in Queued' : QueueAt(k)' = d
                 \/ \E v \in Workers : wtask'[v] = d
      <3>1. d # c /\ fd[d] = "open"
        BY <2>1, <2>2, <2>6
      <3>2. ASSUME NEW v \in Workers, wtask[v] = d
            PROVE  wtask'[v] = d
        BY <2>3, <3>1, <3>2 DEF c
      <3> QED BY <1>1, <1>8, <3>1, <3>2 DEF OwnerInv
    <2>7. atask' # NoConn => fd'[atask'] = "open"
      BY <1>1, <2>1, <2>5 DEF OwnerInv
    <2>8. \A k \in Queued' : QueueAt(k)' \in Conns /\ fd'[QueueAt(k)'] = "open"
      BY <1>8, <2>1, <2>5 DEF OwnerInv
    <2>9. \A v \in Workers : wtask'[v] # NoConn => fd'[wtask'[v]] = "open"
      BY <2>1, <2>3, <2>4 DEF OwnerInv
    <2>10. \A k \in Queued' : QueueAt(k)' # atask'
      BY <1>1, <1>8 DEF OwnerInv
    <2>11. \A v \in Workers : wtask'[v] # NoConn => wtask'[v] # atask'
      BY <1>1, <2>3 DEF OwnerInv
    <2>12. \A v \in Workers, k \in Queued' : wtask'[v] # QueueAt(k)'
      BY <1>8, <2>3 DEF OwnerInv
    <2>13. \A j, k \in Queued' : QueueAt(j)' = QueueAt(k)' => j = k
      BY <1>8 DEF OwnerInv
    <2>14. \A u, v \in Workers :
             wtask'[u] # NoConn /\ wtask'[u] = wtask'[v] => u = v
      BY <2>3 DEF OwnerInv
    <2> QED
      BY <2>6, <2>7, <2>8, <2>9, <2>10, <2>11, <2>12, <2>13, <2>14 DEF OwnerInv
  <1> QED BY <1>5, <1>6, <1>7, <1>9

(* The accept thread closes the socket it has refused. *)
LEMMA RejectSocket ==
  ASSUME SocketInv, Reject
  PROVE  RingInv' /\ HandInv' /\ BacklogInv' /\ OwnerInv' /\ AnsweredOnce'
  <1> USE ModelAssumption DEF SocketInv, TypeOK
  <1>1. /\ UNCHANGED <<items, head, tail, count, wtask, wpc, backlog>>
        /\ atask' = NoConn /\ apc = "reject" /\ apc' = "check"
        /\ AnswerAndClose(atask, "busy")
    BY DEF Reject, queueVars, workerVars
  <1>2. fd' = [fd EXCEPT ![atask] = "closed"]
    BY <1>1 DEF AnswerAndClose
  <1>3. atask \in Conns /\ atask # NoConn /\ fd[atask] = "open"
    BY <1>1 DEF HandInv, OwnerInv
  <1>4. AnsweredOnce'
    BY <1>1, <1>3, AnswerOnce
  <1>5. RingInv' /\ HandInv'
    BY <1>1 DEF RingInv, HandInv, Wrap
  <1>6. BacklogInv'
    BY <1>1, <1>2, <1>3 DEF BacklogInv
  <1>7. Queued' = Queued /\ \A k \in Queued : QueueAt(k)' = QueueAt(k)
    BY <1>1 DEF QueueAt, Queued, Wrap
  <1>8. OwnerInv'
    <2>1. fd'[atask] = "closed" /\ \A c \in Conns : c # atask => fd'[c] = fd[c]
      BY <1>2, <1>3
    <2>2. \A w \in Workers : wtask[w] # NoConn => wtask[w] \in Conns
      OBVIOUS
    <2>3. OwnerInv
      OBVIOUS
    <2> HIDE DEF SocketInv, TypeOK
    <2> QED BY <1>1, <1>3, <1>7, <2>1, <2>2, <2>3 DEF OwnerInv
  <1> QED BY <1>4, <1>5, <1>6, <1>8

(* Every step keeps the socket invariant: five actions move a socket, the others *)
(* leave all owners alone. *)
LEMMA SocketNext == SocketInv /\ ControlInv /\ [Next]_vars => SocketInv'
  <1> SUFFICES ASSUME SocketInv, ControlInv, [Next]_vars PROVE SocketInv'
    OBVIOUS
  <1> DEFINE Parts == RingInv /\ HandInv /\ BacklogInv /\ OwnerInv
                        /\ AnsweredOnce
  <1> SUFFICES Parts'
    BY TypeNext DEF SocketInv
  <1>1. ASSUME NEW c \in Conns, AcceptConn(c) PROVE Parts'
    BY <1>1, AcceptConnSocket
  <1>2. CASE TryPush
    BY <1>2, TryPushSocket
  <1>3. ASSUME NEW w \in Workers, PopTake(w) PROVE Parts'
    BY <1>3, PopTakeSocket
  <1>4. ASSUME NEW w \in Workers, Respond(w) \/ ReadFails(w) PROVE Parts'
    BY <1>4, WorkerCloseSocket
  <1>5. CASE Reject
    BY <1>5, RejectSocket
  <1>6. ASSUME UNCHANGED <<items, head, tail, count, wtask, atask, fd, answers>>,
               \A w \in Workers : wpc'[w] \in {"read", "respond"}
                                    <=> wpc[w] \in {"read", "respond"},
               apc' \in {"push", "reject"} <=> apc \in {"push", "reject"},
               \A c \in backlog' : c \in backlog \/ fd[c] = "none"
        PROVE  Parts'
    <2>1. RingInv' /\ OwnerInv' /\ AnsweredOnce'
      BY <1>6, OwnersUnchanged
    <2>2. HandInv' /\ BacklogInv'
      BY <1>6 DEF HandInv, BacklogInv, SocketInv
    <2> QED BY <2>1, <2>2
  <1> USE DEF SocketInv, TypeOK, vars, queueVars, workerVars, acceptVars,
              mainVars, signalVars, stateVars, netVars
  <1> HIDE DEF Parts
  <1>7. ASSUME NEW w \in Workers,
               PopWait(w) \/ PopExit(w) \/ ReadRequest(w) \/ SpuriousWakeup(w)
        PROVE  Parts'
    BY <1>6, <1>7 DEF PopWait, PopExit, ReadRequest, SpuriousWakeup
  <1>8. ASSUME NEW c \in Conns, ClientConnect(c) PROVE Parts'
    BY <1>6, <1>8 DEF ClientConnect
  <1>9. CASE AcceptCheck \/ AcceptClosed \/ AcceptError \/ TryPushRefused
    BY <1>6, <1>9 DEF AcceptCheck, AcceptClosed, AcceptError, TryPushRefused
  <1>10. CASE SignalFirst \/ SignalAgain \/ SignalFreed
    BY <1>6, <1>10 DEF SignalFirst, SignalAgain, SignalFreed, BeginShutdown,
                      CloseListenSocket
  <1>11. CASE SignalCloseQueue \/ DestroyCloseQueue \/ SpawnAcceptFails
    BY <1>6, <1>11 DEF SignalCloseQueue, DestroyCloseQueue, SpawnAcceptFails,
                      FinishShutdown, QueueClose, CondBroadcast
  <1>12. CASE SpawnWorker
    <2>1. created + 1 \in Workers
      BY <1>12, ConfigAssumption DEF SpawnWorker, Workers
    <2>2. wpc[created + 1] = "none"
      BY <2>1 DEF ControlInv
    <2> QED BY <1>6, <1>12, <2>1, <2>2 DEF SpawnWorker
  <1>13. CASE \/ OpenListenSocket \/ SpawnWorkerFails \/ PoolJoin
              \/ SpawnAccept \/ JoinAccept \/ JoinWorkers \/ DestroyFirst
              \/ DestroyAgain \/ DestroyFree \/ ClearGlobal
    BY <1>6, <1>13 DEF OpenListenSocket, SpawnWorkerFails, PoolJoin,
          SpawnAccept, JoinAccept, JoinWorkers, DestroyFirst, DestroyAgain,
          DestroyFree, ClearGlobal, BeginShutdown, CloseListenSocket,
          ControlInv, Starting
  <1>14. CASE UNCHANGED vars
    BY <1>6, <1>14
  <1> QED
    BY <1>1, <1>2, <1>3, <1>4, <1>5, <1>7, <1>8, <1>9, <1>10, <1>11, <1>12,
       <1>13, <1>14
       DEF Next, WorkerStep, ClientStep, AcceptStep, MainStep, Exited

-----------------------------------------------------------------------------
(***************************************************************************)
(* The safety theorems.                                                    *)
(***************************************************************************)

(* The two invariants together are inductive: every reachable state of the *)
(* runtime satisfies both.                                                 *)
THEOREM RuntimeInvariant == Spec => [](SocketInv /\ ControlInv)
  <1>1. Init => SocketInv /\ ControlInv
    BY SocketInit, ControlInit
  <1>2. SocketInv /\ ControlInv /\ [Next]_vars => (SocketInv /\ ControlInv)'
    BY SocketNext, ControlNext DEF SocketInv
  <1> QED BY <1>1, <1>2, PTL DEF Spec

(* OwnerInv, said pair by pair, gives the one-holder form of SingleOwner.  *)
LEMMA OwnerImpliesSingle == SocketInv => SingleOwner
  <1> SUFFICES ASSUME SocketInv, NEW c \in Conns
               PROVE  IF fd[c] = "open"
                      THEN \E h \in Holders(c) : Holders(c) = {h}
                      ELSE Holders(c) = {}
    BY DEF SingleOwner
  <1> USE ModelAssumption DEF SocketInv
  <1>1. c # NoConn
    OBVIOUS
  <1> DEFINE A == {<<"accept", 0>> : x \in {y \in {atask} : y = c}}
             S == {<<"slot", i>> : i \in {j \in Live : items[j] = c}}
             W == {<<"worker", w>> : w \in {v \in Workers : wtask[v] = c}}
  <1>2. Holders(c) = (A \cup S) \cup W
    BY DEF Holders
  <1>3. \A i \in Live : \E k \in Queued : i = Wrap(head + k)
    BY DEF Live, Queued
  <1>4. \A k \in Queued : Wrap(head + k) \in Live
    BY DEF Live, Queued
  <1>5. CASE fd[c] # "open"
    <2>1. A = {}
      BY <1>1, <1>5 DEF OwnerInv
    <2>2. S = {}
      BY <1>3, <1>5 DEF OwnerInv, QueueAt
    <2>3. W = {}
      BY <1>1, <1>5 DEF OwnerInv
    <2> QED BY <1>2, <1>5, <2>1, <2>2, <2>3
  <1>6. CASE fd[c] = "open" /\ atask = c
    <2>1. A = {<<"accept", 0>>}
      BY <1>6
    <2>2. S = {}
      BY <1>3, <1>6 DEF OwnerInv, QueueAt
    <2>3. W = {}
      BY <1>1, <1>6 DEF OwnerInv
    <2> QED BY <1>2, <1>6, <2>1, <2>2, <2>3
  <1>7. ASSUME fd[c] = "open", NEW k \in Queued, QueueAt(k) = c
        PROVE  \E h \in Holders(c) : Holders(c) = {h}
    <2>1. A = {}
      BY <1>7 DEF OwnerInv
    <2>2. S = {<<"slot", Wrap(head + k)>>}
      <3>1. \A i \in {j \in Live : items[j] = c} : i = Wrap(head + k)
        BY <1>3, <1>7 DEF OwnerInv, QueueAt
      <3>2. Wrap(head + k) \in {j \in Live : items[j] = c}
        BY <1>4, <1>7 DEF QueueAt
      <3> QED BY <3>1, <3>2
    <2>3. W = {}
      BY <1>7 DEF OwnerInv
    <2> QED BY <1>2, <2>1, <2>2, <2>3
  <1>8. ASSUME fd[c] = "open", NEW w \in Workers, wtask[w] = c
        PROVE  \E h \in Holders(c) : Holders(c) = {h}
    <2>1. A = {}
      BY <1>1, <1>8 DEF OwnerInv
    <2>2. S = {}
      BY <1>3, <1>8 DEF OwnerInv, QueueAt
    <2>3. W = {<<"worker", w>>}
      <3>1. {v \in Workers : wtask[v] = c} = {w}
        BY <1>1, <1>8 DEF OwnerInv
      <3> QED BY <3>1
    <2> QED BY <1>2, <2>1, <2>2, <2>3
  <1> QED BY <1>5, <1>6, <1>7, <1>8 DEF OwnerInv

(* No accepted socket is ever lost, queued twice, served twice or touched  *)
(* after its close, for every capacity, number of workers and connections. *)
THEOREM SocketsHaveOneOwner == Spec => []SingleOwner
  BY RuntimeInvariant, OwnerImpliesSingle, PTL

(* Each accepted connection gets exactly one response before its close.    *)
THEOREM ConnectionsAnsweredOnce == Spec => []AnsweredOnce
  <1>1. SocketInv => AnsweredOnce
    BY DEF SocketInv
  <1> QED BY <1>1, RuntimeInvariant, PTL

(* Workers leave only a closed and empty queue, and nothing is pushed into *)
(* it afterwards: when the joins have returned nothing accepted is left.   *)
THEOREM ShutdownDrains == Spec => []DrainedAtJoin
  <1>1. SocketInv /\ ControlInv => DrainedAtJoin
    <2> SUFFICES ASSUME SocketInv, ControlInv, mpc \in Joined
                 PROVE  count = 0 /\ \A c \in Conns : fd[c] # "open"
      BY DEF DrainedAtJoin, Joined
    <2>1. apc \in {"none", "exited"} /\ AllJoined
      BY DEF ControlInv
    <2>2. count = 0
      <3>1. CASE apc = "none"
        BY <3>1 DEF ControlInv
      <3>2. CASE apc = "exited"
        <4>1. 1 \in Workers /\ created = WorkerCount
          BY <3>2, ConfigAssumption DEF ControlInv, Workers
        <4>2. wpc[1] = "exited"
          BY <2>1, <4>1 DEF AllJoined, Workers
        <4> QED BY <4>1, <4>2 DEF ControlInv
      <3> QED BY <2>1, <3>1, <3>2
    <2>3. \A w \in Workers : wpc[w] \in {"none", "exited"}
      BY <2>1, ConfigAssumption
         DEF ControlInv, AllJoined, Workers, SocketInv, TypeOK
    <2>4. atask = NoConn /\ \A w \in Workers : wtask[w] = NoConn
      BY <2>1, <2>3 DEF SocketInv, HandInv
    <2>5. Queued = {}
      BY <2>2 DEF Queued
    <2>6. \A c \in Conns : fd[c] # "open"
      BY <2>4, <2>5, ModelAssumption DEF SocketInv, OwnerInv
    <2> QED BY <2>2, <2>6
  <1> QED BY <1>1, RuntimeInvariant, PTL

(* destroy frees the server only when no thread of it is left, and no      *)
(* outside caller is between closing the listening socket and the queue.   *)
THEOREM FreeAfterThreads == Spec => []ThreadsGoneAtFree
  <1>1. SocketInv /\ ControlInv => ThreadsGoneAtFree
    <2> SUFFICES ASSUME SocketInv, ControlInv, mpc \in {"freed", "done"}
                 PROVE  /\ apc \in {"none", "exited"}
                        /\ \A w \in Workers : wpc[w] \in {"none", "exited"}
                        /\ spc # "closing"
      BY DEF ThreadsGoneAtFree
    <2>1. apc \in {"none", "exited"} /\ AllJoined /\ spc # "closing"
      BY DEF ControlInv, Joined
    <2>2. \A w \in Workers : wpc[w] \in {"none", "exited"}
      BY <2>1, ConfigAssumption
         DEF ControlInv, AllJoined, Workers, SocketInv, TypeOK
    <2> QED BY <2>1, <2>2
  <1> QED BY <1>1, RuntimeInvariant, PTL

-----------------------------------------------------------------------------
(* No lost wakeup. *)

\* Awake workers on their way through server_task_queue_pop.
Popping == {w \in Workers : wpc[w] = "pop"}

(* Sets of workers are finite and their sizes can be compared. *)
LEMMA PoppingFinite ==
  /\ IsFiniteSet(Popping) /\ Cardinality(Popping) \in Nat
  /\ IsFiniteSet(Popping') /\ Cardinality(Popping') \in Nat
  <1>1. IsFiniteSet(Workers)
    BY ConfigAssumption, FS_Interval DEF Workers
  <1>2. Popping \subseteq Workers /\ Popping' \subseteq Workers
    BY DEF Popping
  <1>3. IsFiniteSet(Popping) /\ IsFiniteSet(Popping')
    BY <1>1, <1>2, FS_Subset
  <1> QED BY <1>3, FS_CardinalityType

(* A step that puts nobody to sleep, queues nothing and takes nobody out of *)
(* pop cannot strand a task.                                               *)
LEMMA QuietStep ==
  ASSUME TypeOK, NoStrandedTask, Waiting' \subseteq Waiting,
         Popping \subseteq Popping', count' = count
  PROVE  NoStrandedTask'
  <1>1. Cardinality(Popping) <= Cardinality(Popping')
    BY PoppingFinite, FS_Subset
  <1>2. count \in Nat
    BY ConfigAssumption DEF TypeOK
  <1> QED BY <1>1, <1>2, PoppingFinite DEF NoStrandedTask, Popping

(* A worker that takes a task leaves pop, and the queue has one task less. *)
LEMMA TakeStep ==
  ASSUME TypeOK, NoStrandedTask, NEW w \in Workers, PopTake(w)
  PROVE  NoStrandedTask'
  <1>1. Waiting' = Waiting /\ Popping' = Popping \ {w} /\ w \in Popping
    BY DEF PopTake, Waiting, Popping, TypeOK
  <1>2. count' = count - 1 /\ count \in Nat
    BY ConfigAssumption DEF PopTake, Dequeue, TypeOK
  <1>3. Cardinality(Popping') = Cardinality(Popping) - 1
    BY <1>1, PoppingFinite, FS_RemoveElement
  <1> QED BY <1>1, <1>2, <1>3, PoppingFinite DEF NoStrandedTask, Popping

(* A push adds one task, and one awake worker if anybody slept. *)
LEMMA PushStep ==
  ASSUME TypeOK, NoStrandedTask, TryPush
  PROVE  NoStrandedTask'
  <1>1. count' = count + 1 /\ count \in Nat
    BY ConfigAssumption DEF TryPush, Enqueue, TypeOK
  <1>2. CASE Waiting = {} /\ UNCHANGED wpc
    BY <1>2 DEF NoStrandedTask, Waiting
  <1>3. ASSUME NEW w \in Waiting, wpc' = [wpc EXCEPT ![w] = "pop"]
        PROVE  NoStrandedTask'
    <2>1. Popping' = Popping \cup {w} /\ w \notin Popping
      BY <1>3 DEF Popping, Waiting, TypeOK
    <2>2. Cardinality(Popping') = Cardinality(Popping) + 1
      BY <2>1, PoppingFinite, FS_AddElement
    <2>3. count <= Cardinality(Popping)
      BY <1>3 DEF NoStrandedTask, Popping
    <2> QED BY <1>1, <2>2, <2>3, PoppingFinite DEF NoStrandedTask, Popping
  <1> QED BY <1>2, <1>3 DEF TryPush, Enqueue, CondSignal

(* A worker goes to sleep or leaves only when the queue is empty. *)
LEMMA EmptyStep ==
  ASSUME count' = 0
  PROVE  NoStrandedTask'
  BY PoppingFinite DEF NoStrandedTask, Popping

(* Closing the queue wakes everybody. *)
LEMMA CloseStep ==
  ASSUME QueueClose
  PROVE  NoStrandedTask'
  <1>1. Waiting' = {}
    BY DEF QueueClose, CondBroadcast, Waiting
  <1> QED BY <1>1 DEF NoStrandedTask

(* Every step keeps enough workers awake for the queued tasks. *)
LEMMA StrandedNext == TypeOK /\ NoStrandedTask /\ [Next]_vars => NoStrandedTask'
  <1> SUFFICES ASSUME TypeOK, NoStrandedTask, [Next]_vars PROVE NoStrandedTask'
    OBVIOUS
  <1> DEFINE Quiet == /\ Waiting' \subseteq Waiting
                      /\ Popping \subseteq Popping' /\ count' = count
  <1>q. Quiet => NoStrandedTask'
    BY QuietStep
  <1> USE DEF TypeOK, queueVars, workerVars, Waiting, Popping
  <1>1. ASSUME NEW c \in Conns, ClientConnect(c) PROVE NoStrandedTask'
    <2>1. Quiet
      BY <1>1 DEF ClientConnect
    <2> QED BY <1>q, <2>1
  <1>2. ASSUME NEW c \in Conns, AcceptConn(c) PROVE NoStrandedTask'
    <2>1. Quiet
      BY <1>2 DEF AcceptConn
    <2> QED BY <1>q, <2>1
  <1>3. ASSUME NEW w \in Workers, PopTake(w) PROVE NoStrandedTask'
    BY <1>3, TakeStep
  <1>4. ASSUME NEW w \in Workers, PopWait(w) PROVE NoStrandedTask'
    BY <1>4, EmptyStep DEF PopWait
  <1>5. ASSUME NEW w \in Workers, PopExit(w) PROVE NoStrandedTask'
    BY <1>5, EmptyStep DEF PopExit
  <1>6. ASSUME NEW w \in Workers, Respond(w) PROVE NoStrandedTask'
    <2>1. Quiet
      BY <1>6 DEF Respond
    <2> QED BY <1>q, <2>1
  <1>7. ASSUME NEW w \in Workers, ReadRequest(w) PROVE NoStrandedTask'
    <2>1. Quiet
      BY <1>7 DEF ReadRequest
    <2> QED BY <1>q, <2>1
  <1>8. ASSUME NEW w \in Workers, ReadFails(w) PROVE NoStrandedTask'
    <2>1. Quiet
      BY <1>8 DEF ReadFails
    <2> QED BY <1>q, <2>1
  <1>9. ASSUME NEW w \in Workers, SpuriousWakeup(w) PROVE NoStrandedTask'
    <2>1. Quiet
      BY <1>9 DEF SpuriousWakeup
    <2> QED BY <1>q, <2>1
  <1>10. CASE AcceptCheck
    <2>1. Quiet
      BY <1>10 DEF AcceptCheck
    <2> QED BY <1>q, <2>1
  <1>11. CASE AcceptClosed
    <2>1. Quiet
      BY <1>11 DEF AcceptClosed
    <2> QED BY <1>q, <2>1
  <1>12. CASE TryPush
    BY <1>12, PushStep
  <1>13. CASE TryPushRefused
    <2>1. Quiet
      BY <1>13 DEF TryPushRefused
    <2> QED BY <1>q, <2>1
  <1>14. CASE Reject
    <2>1. Quiet
      BY <1>14 DEF Reject
    <2> QED BY <1>q, <2>1
  <1>15. CASE AcceptError
    <2>1. Quiet
      BY <1>15 DEF AcceptError
    <2> QED BY <1>q, <2>1
  <1>16. CASE SignalFirst
    <2>1. Quiet
      BY <1>16 DEF SignalFirst
    <2> QED BY <1>q, <2>1
  <1>17. CASE SignalAgain
    <2>1. Quiet
      BY <1>17 DEF SignalAgain
    <2> QED BY <1>q, <2>1
  <1>18. CASE SignalCloseQueue
    BY <1>18, CloseStep DEF SignalCloseQueue, FinishShutdown
  <1>19. CASE SignalFreed
    <2>1. Quiet
      BY <1>19 DEF SignalFreed
    <2> QED BY <1>q, <2>1
  <1>20. CASE OpenListenSocket
    <2>1. Quiet
      BY <1>20 DEF OpenListenSocket
    <2> QED BY <1>q, <2>1
  <1>21. CASE SpawnWorker
    <2>1. Quiet
      BY <1>21 DEF SpawnWorker
    <2> QED BY <1>q, <2>1
  <1>22. CASE SpawnWorkerFails
    <2>1. Quiet
      BY <1>22 DEF SpawnWorkerFails
    <2> QED BY <1>q, <2>1
  <1>23. CASE PoolJoin
    <2>1. Quiet
      BY <1>23 DEF PoolJoin
    <2> QED BY <1>q, <2>1
  <1>24. CASE SpawnAccept
    <2>1. Quiet
      BY <1>24 DEF SpawnAccept
    <2> QED BY <1>q, <2>1
  <1>25. CASE SpawnAcceptFails
    BY <1>25, CloseStep DEF SpawnAcceptFails
  <1>26. CASE JoinAccept
    <2>1. Quiet
      BY <1>26 DEF JoinAccept
    <2> QED BY <1>q, <2>1
  <1>27. CASE JoinWorkers
    <2>1. Quiet
      BY <1>27 DEF JoinWorkers
    <2> QED BY <1>q, <2>1
  <1>28. CASE DestroyFirst
    <2>1. Quiet
      BY <1>28 DEF DestroyFirst
    <2> QED BY <1>q, <2>1
  <1>29. CASE DestroyAgain
    <2>1. Quiet
      BY <1>29 DEF DestroyAgain
    <2> QED BY <1>q, <2>1
  <1>30. CASE DestroyCloseQueue
    BY <1>30, CloseStep DEF DestroyCloseQueue, FinishShutdown
  <1>31. CASE DestroyFree
    <2>1. Quiet
      BY <1>31 DEF DestroyFree
    <2> QED BY <1>q, <2>1
  <1>32. CASE ClearGlobal
    <2>1. Quiet
      BY <1>32 DEF ClearGlobal
    <2> QED BY <1>q, <2>1
  <1>33. CASE UNCHANGED vars
    <2>1. Quiet
      BY <1>33 DEF vars
    <2> QED BY <1>q, <2>1
  <1> QED
    BY <1>1, <1>2, <1>3, <1>4, <1>5, <1>6, <1>7, <1>8, <1>9, <1>10, <1>11,
       <1>12, <1>13, <1>14, <1>15, <1>16, <1>17, <1>18, <1>19, <1>20, <1>21,
       <1>22, <1>23, <1>24, <1>25, <1>26, <1>27, <1>28, <1>29, <1>30, <1>31,
       <1>32, <1>33
       DEF Next, WorkerStep, ClientStep, AcceptStep, MainStep, Exited

(* One pthread_cond_signal per push is enough: whenever a worker sleeps on  *)
(* not_empty, as many workers are awake in pop as there are queued tasks,  *)
(* whoever overtakes whom.                                                 *)
THEOREM NoLostWakeup == Spec => []NoStrandedTask
  <1>1. Init => NoStrandedTask
    BY DEF Init, NoStrandedTask, Waiting
  <1> QED BY <1>1, TypeInit, TypeNext, StrandedNext, PTL DEF Spec

-----------------------------------------------------------------------------
(* The ring buffer is a queue. *)

\* What a slot of the ring may hold.
Sockets == Conns \cup {NoConn}

(* The queued sockets, oldest first, are a sequence of length count. *)
LEMMA ContentsIsSeq ==
  ASSUME TypeOK
  PROVE  /\ QueueContents \in Seq(Sockets) /\ Len(QueueContents) = count
         /\ \A k \in 1 .. count : QueueContents[k] = QueueAt(k - 1)
  <1>1. count \in Nat /\ head \in Nat
    BY ConfigAssumption DEF TypeOK, Slots
  <1>2. \A k \in 1 .. count : Wrap(head + k - 1) \in Slots
    BY <1>1, WrapInSlots
  <1>3. QueueContents \in [1 .. count -> Sockets]
    BY <1>2 DEF QueueContents, Sockets, TypeOK
  <1>4. QueueContents \in Seq(Sockets)
    BY <1>1, <1>3, SeqDef
  <1>5. Len(QueueContents) = count
    BY <1>1, <1>3, <1>4, LenProperties
  <1>6. ASSUME NEW k \in 1 .. count PROVE QueueContents[k] = QueueAt(k - 1)
    <2>1. head + k - 1 = head + (k - 1)
      BY <1>1
    <2> QED BY <2>1 DEF QueueContents, QueueAt
  <1> QED BY <1>4, <1>5, <1>6

(* The same of the state after a step. *)
LEMMA ContentsIsSeqNext ==
  ASSUME TypeOK'
  PROVE  /\ QueueContents' \in Seq(Sockets) /\ Len(QueueContents') = count'
         /\ \A k \in 1 .. count' : QueueContents'[k] = QueueAt(k - 1)'
  <1>1. count' \in Nat /\ head' \in Nat
    BY ConfigAssumption DEF TypeOK, Slots
  <1>2. \A k \in 1 .. count' : Wrap(head' + k - 1) \in Slots
    BY <1>1, WrapInSlots
  <1>3. QueueContents' \in [1 .. count' -> Sockets]
    BY <1>2 DEF QueueContents, Sockets, TypeOK, Wrap
  <1>4. QueueContents' \in Seq(Sockets)
    BY <1>1, <1>3, SeqDef
  <1>5. Len(QueueContents') = count'
    BY <1>1, <1>3, <1>4, LenProperties
  <1>6. ASSUME NEW k \in 1 .. count' PROVE QueueContents'[k] = QueueAt(k - 1)'
    <2>1. head' + k - 1 = head' + (k - 1)
      BY <1>1
    <2> QED BY <2>1 DEF QueueContents, QueueAt, Wrap
  <1> QED BY <1>4, <1>5, <1>6

(* A push appends to the queue, across the wrap too. *)
LEMMA PushIsPush ==
  ASSUME TypeOK, TypeOK', RingInv, HandInv, TryPush
  PROVE  TQ!Push(atask) /\ atask \in Conns
  <1>1. /\ count' = count + 1 /\ count < Capacity /\ count \in Nat
        /\ \A k \in Queued : QueueAt(k)' = QueueAt(k)
        /\ \A k \in Nat : k = count => QueueAt(k)' = atask
    BY PushAppends, ConfigAssumption DEF TypeOK
  <1>2. atask \in Conns /\ ~closed /\ UNCHANGED <<closed, wtask>>
    BY DEF TypeOK, HandInv, TryPush, Enqueue, HasRoom
  <1>3. /\ QueueContents \in Seq(Sockets) /\ Len(QueueContents) = count
        /\ \A k \in 1 .. count : QueueContents[k] = QueueAt(k - 1)
        /\ QueueContents' \in Seq(Sockets) /\ Len(QueueContents') = count'
        /\ \A k \in 1 .. count' : QueueContents'[k] = QueueAt(k - 1)'
    BY ContentsIsSeq, ContentsIsSeqNext
  <1>4. /\ Append(QueueContents, atask) \in Seq(Sockets)
        /\ Len(Append(QueueContents, atask)) = count + 1
        /\ \A k \in 1 .. count : Append(QueueContents, atask)[k] = QueueContents[k]
        /\ Append(QueueContents, atask)[count + 1] = atask
    BY <1>1, <1>2, <1>3, AppendProperties DEF Sockets
  <1>5. ASSUME NEW k \in 1 .. count + 1
        PROVE  QueueContents'[k] = Append(QueueContents, atask)[k]
    <2>1. CASE k = count + 1
      <3>1. QueueContents'[k] = QueueAt(k - 1)'
        BY <1>1, <1>3
      <3>2. k - 1 \in Nat /\ k - 1 = count
        BY <1>1, <2>1
      <3> QED BY <1>1, <1>4, <2>1, <3>1, <3>2
    <2>2. CASE k # count + 1
      <3>1. k \in 1 .. count /\ k - 1 \in Queued
        BY <1>1, <2>2 DEF Queued
      <3> QED BY <1>1, <1>3, <1>4, <3>1
    <2> QED BY <2>1, <2>2
  <1>6. QueueContents' = Append(QueueContents, atask)
    BY <1>1, <1>3, <1>4, <1>5, SeqEqual
  <1> QED BY <1>1, <1>2, <1>3, <1>6 DEF TQ!Push

(* A pop takes the oldest socket and leaves the others in order. *)
LEMMA PopIsPop ==
  ASSUME TypeOK, TypeOK', RingInv, HandInv, NEW w \in Workers, PopTake(w)
  PROVE  TQ!Pop(w)
  <1>1. /\ count' = count - 1 /\ count > 0 /\ count \in Nat
        /\ wtask' = [wtask EXCEPT ![w] = QueueAt(0)]
        /\ \A k \in 0 .. count - 2 : QueueAt(k)' = QueueAt(k + 1)
    BY PopShifts, ConfigAssumption DEF TypeOK
  <1>2. wtask[w] = NoConn /\ UNCHANGED closed
    BY DEF HandInv, PopTake, Dequeue
  <1>3. /\ QueueContents \in Seq(Sockets) /\ Len(QueueContents) = count
        /\ \A k \in 1 .. count : QueueContents[k] = QueueAt(k - 1)
        /\ QueueContents' \in Seq(Sockets) /\ Len(QueueContents') = count'
        /\ \A k \in 1 .. count' : QueueContents'[k] = QueueAt(k - 1)'
    BY ContentsIsSeq, ContentsIsSeqNext
  <1>4. QueueContents # <<>> /\ Head(QueueContents) = QueueContents[1]
    BY <1>1, <1>3, EmptySeq
  <1>5. /\ Tail(QueueContents) \in Seq(Sockets)
        /\ Len(Tail(QueueContents)) = count - 1
        /\ \A k \in 1 .. count - 1 :
             Tail(QueueContents)[k] = QueueContents[k + 1]
    BY <1>1, <1>3, <1>4, HeadTailProperties
  <1>6. ASSUME NEW k \in 1 .. count - 1
        PROVE  QueueContents'[k] = Tail(QueueContents)[k]
    <2>1. /\ k \in 1 .. count' /\ k - 1 \in 0 .. count - 2
          /\ k + 1 \in 1 .. count /\ (k - 1) + 1 = (k + 1) - 1
      BY <1>1
    <2>2. QueueContents'[k] = QueueAt(k - 1)'
      BY <1>3, <2>1
    <2>3. QueueAt(k - 1)' = QueueAt((k - 1) + 1)
      BY <1>1, <2>1
    <2>4. QueueContents[k + 1] = QueueAt((k + 1) - 1)
      BY <1>3, <2>1
    <2> QED BY <1>5, <2>1, <2>2, <2>3, <2>4
  <1>7. QueueContents' = Tail(QueueContents)
    BY <1>1, <1>3, <1>5, <1>6, SeqEqual
  <1>8. Head(QueueContents) = QueueAt(0)
    BY <1>1, <1>3, <1>4
  <1> QED BY <1>1, <1>2, <1>4, <1>7, <1>8 DEF TQ!Pop

(* Every step of the runtime is a step of TaskQueueSpec or invisible to it. *)
LEMMA QueueSimulated ==
  ASSUME SocketInv, TypeOK', [Next]_vars
  PROVE  [TQ!Next]_TQ!vars
  <1>t. TypeOK /\ RingInv /\ HandInv
    BY DEF SocketInv
  <1>s. ASSUME UNCHANGED <<queueVars, wtask>> PROVE UNCHANGED TQ!vars
    BY <1>s DEF TQ!vars, queueVars, QueueContents
  <1>c. ASSUME QueueClose, UNCHANGED wtask PROVE TQ!Next
    BY <1>c DEF QueueClose, TQ!Next, TQ!Close, QueueContents
  <1> DEFINE Simulated == TQ!Next \/ UNCHANGED TQ!vars
  <1> USE DEF workerVars
  <1>1. ASSUME NEW c \in Conns, ClientConnect(c) PROVE Simulated
    BY <1>1, <1>s DEF ClientConnect
  <1>2. ASSUME NEW c \in Conns, AcceptConn(c) PROVE Simulated
    BY <1>2, <1>s DEF AcceptConn
  <1>3. ASSUME NEW w \in Workers, PopTake(w) PROVE Simulated
    BY <1>3, <1>t, PopIsPop DEF TQ!Next
  <1>4. ASSUME NEW w \in Workers, PopWait(w) PROVE Simulated
    BY <1>4, <1>s DEF PopWait
  <1>5. ASSUME NEW w \in Workers, PopExit(w) PROVE Simulated
    BY <1>5, <1>s DEF PopExit
  <1>6. ASSUME NEW w \in Workers, Respond(w) PROVE Simulated
    <2>1. TQ!Finish(w)
      BY <1>6, <1>t DEF Respond, TQ!Finish, HandInv, queueVars, QueueContents
    <2> QED BY <2>1 DEF TQ!Next
  <1>7. ASSUME NEW w \in Workers, ReadRequest(w) PROVE Simulated
    BY <1>7, <1>s DEF ReadRequest
  <1>8. ASSUME NEW w \in Workers, ReadFails(w) PROVE Simulated
    <2>1. TQ!Finish(w)
      BY <1>8, <1>t DEF ReadFails, TQ!Finish, HandInv, queueVars, QueueContents
    <2> QED BY <2>1 DEF TQ!Next
  <1>9. ASSUME NEW w \in Workers, SpuriousWakeup(w) PROVE Simulated
    BY <1>9, <1>s DEF SpuriousWakeup
  <1>10. CASE AcceptCheck
    BY <1>10, <1>s DEF AcceptCheck
  <1>11. CASE AcceptClosed
    BY <1>11, <1>s DEF AcceptClosed
  <1>12. CASE TryPush
    BY <1>12, <1>t, PushIsPush DEF TQ!Next
  <1>13. CASE TryPushRefused
    BY <1>13, <1>s DEF TryPushRefused
  <1>14. CASE Reject
    BY <1>14, <1>s DEF Reject
  <1>15. CASE AcceptError
    BY <1>15, <1>s DEF AcceptError
  <1>16. CASE SignalFirst
    BY <1>16, <1>s DEF SignalFirst
  <1>17. CASE SignalAgain
    BY <1>17, <1>s DEF SignalAgain
  <1>18. CASE SignalCloseQueue
    BY <1>18, <1>c DEF SignalCloseQueue, FinishShutdown
  <1>19. CASE SignalFreed
    BY <1>19, <1>s DEF SignalFreed
  <1>20. CASE OpenListenSocket
    BY <1>20, <1>s DEF OpenListenSocket
  <1>21. CASE SpawnWorker
    BY <1>21, <1>s DEF SpawnWorker
  <1>22. CASE SpawnWorkerFails
    BY <1>22, <1>s DEF SpawnWorkerFails
  <1>23. CASE PoolJoin
    BY <1>23, <1>s DEF PoolJoin
  <1>24. CASE SpawnAccept
    BY <1>24, <1>s DEF SpawnAccept
  <1>25. CASE SpawnAcceptFails
    BY <1>25, <1>c DEF SpawnAcceptFails
  <1>26. CASE JoinAccept
    BY <1>26, <1>s DEF JoinAccept
  <1>27. CASE JoinWorkers
    BY <1>27, <1>s DEF JoinWorkers
  <1>28. CASE DestroyFirst
    BY <1>28, <1>s DEF DestroyFirst
  <1>29. CASE DestroyAgain
    BY <1>29, <1>s DEF DestroyAgain
  <1>30. CASE DestroyCloseQueue
    BY <1>30, <1>c DEF DestroyCloseQueue, FinishShutdown
  <1>31. CASE DestroyFree
    BY <1>31, <1>s DEF DestroyFree
  <1>32. CASE ClearGlobal
    BY <1>32, <1>s DEF ClearGlobal
  <1>33. CASE UNCHANGED vars
    BY <1>33, <1>s DEF vars
  <1> QED
    BY <1>1, <1>2, <1>3, <1>4, <1>5, <1>6, <1>7, <1>8, <1>9, <1>10, <1>11,
       <1>12, <1>13, <1>14, <1>15, <1>16, <1>17, <1>18, <1>19, <1>20, <1>21,
       <1>22, <1>23, <1>24, <1>25, <1>26, <1>27, <1>28, <1>29, <1>30, <1>31,
       <1>32, <1>33
       DEF Next, WorkerStep, ClientStep, AcceptStep, MainStep, Exited

(* task_queue.c with its accept thread and its workers implements a bounded *)
(* FIFO queue that can be closed: no reordering at the wrap, no push after *)
(* close, each socket to one worker - for every capacity.                  *)
THEOREM RingImplementsQueue == Spec => ImplementsTaskQueue
  <1>1. Init => TQ!Init
    <2> SUFFICES ASSUME Init PROVE TQ!Init
      OBVIOUS
    <2>1. QueueContents = <<>>
      <3>1. QueueContents \in Seq(Sockets) /\ Len(QueueContents) = 0
        BY TypeInit, ContentsIsSeq DEF Init
      <3> QED BY <3>1, EmptySeq
    <2> QED BY <2>1 DEF Init, TQ!Init
  <1>2. SocketInv /\ TypeOK' /\ [Next]_vars => [TQ!Next]_TQ!vars
    BY QueueSimulated
  <1>3. SocketInv => TypeOK
    BY DEF SocketInv
  <1> QED BY <1>1, <1>2, <1>3, RuntimeInvariant, PTL
          DEF Spec, ImplementsTaskQueue, TQ!Spec
============================================================================
