---------------------------- MODULE TableService ----------------------------
(***************************************************************************)
(* What POST /query promises of the tables, with no locks, no index and no *)
(* registry: each request takes effect at one instant between its arrival  *)
(* and its answer.  An INSERT answered "ok" has appended its row exactly   *)
(* once; one answered with an error has appended it once or not at all.  A *)
(* SELECT answered "ok" shows the rows of the table at that instant, rows  *)
(* being numbered from 1 in file order.                                    *)
(***************************************************************************)
EXTENDS Naturals, Sequences

CONSTANTS
  Workers,    \* the threads that execute requests
  Names,      \* table names as SQL spells them
  StorageOf,  \* the table (its file) a name stands for
  Requests    \* [kind : {"insert", "find", "scan"}, name : Names, arg : Nat]

VARIABLES
  rows,    \* rows[s]: the lines of table s
  phase,   \* where a worker is with its request
  req,     \* the request
  res      \* its answer

vars == <<rows, phase, req, res>>

Pending == [status |-> "pending", rows |-> <<>>]
Failed  == [status |-> "error", rows |-> <<>>]
Answer(found) == [status |-> "ok", rows |-> found]

Phases == {"idle", "called", "stored", "answered"}

Table(w) == StorageOf[req[w].name]

Init ==
  /\ rows \in [Names -> Seq([row : Nat, form : {"whole"}])]
  /\ phase = [w \in Workers |-> "idle"]
  /\ req \in [Workers -> Requests]
  /\ res = [w \in Workers |-> Pending]

Call(w) ==
  /\ phase[w] = "idle"
  /\ phase' = [phase EXCEPT ![w] = "called"]
  /\ res' = [res EXCEPT ![w] = Pending]
  /\ \E r \in Requests : req' = [req EXCEPT ![w] = r]
  /\ UNCHANGED rows

\* The instant an INSERT takes effect; its answer is still open.
Store(w) ==
  /\ phase[w] = "called" /\ req[w].kind = "insert"
  /\ rows' = [rows EXCEPT ![Table(w)] =
                Append(@, [row |-> req[w].arg, form |-> "whole"])]
  /\ phase' = [phase EXCEPT ![w] = "stored"]
  /\ UNCHANGED <<req, res>>

Acknowledge(w) ==
  /\ phase[w] = "stored"
  /\ phase' = [phase EXCEPT ![w] = "answered"]
  /\ res' = [res EXCEPT ![w] = Answer(<<>>)]
  /\ UNCHANGED <<rows, req>>

Find(w) ==
  /\ phase[w] = "called" /\ req[w].kind = "find"
  /\ phase' = [phase EXCEPT ![w] = "answered"]
  /\ res' = [res EXCEPT ![w] =
               Answer(IF req[w].arg \in DOMAIN rows[Table(w)]
                      THEN <<rows[Table(w)][req[w].arg]>> ELSE <<>>)]
  /\ UNCHANGED <<rows, req>>

Scan(w) ==
  /\ phase[w] = "called" /\ req[w].kind = "scan"
  /\ phase' = [phase EXCEPT ![w] = "answered"]
  /\ res' = [res EXCEPT ![w] = Answer(rows[Table(w)])]
  /\ UNCHANGED <<rows, req>>

\* Any request may be refused or fail, an INSERT even after it took effect.
Fail(w) ==
  /\ phase[w] \in {"called", "stored"}
  /\ phase' = [phase EXCEPT ![w] = "answered"]
  /\ res' = [res EXCEPT ![w] = Failed]
  /\ UNCHANGED <<rows, req>>

Return(w) ==
  /\ phase[w] = "answered"
  /\ phase' = [phase EXCEPT ![w] = "idle"]
  /\ UNCHANGED <<rows, req, res>>

\* The process dies: requests are forgotten, rows are not, and each table may
\* have gained one line from an INSERT that was under way.
Crash ==
  /\ phase' = [w \in Workers |-> "idle"]
  /\ \A s \in Names :
       \/ rows'[s] = rows[s]
       \/ \E w \in Workers, f \in {"whole", "cut", "short", "broken"} :
            /\ phase[w] = "called" /\ req[w].kind = "insert" /\ Table(w) = s
            /\ rows'[s] = Append(rows[s], [row |-> req[w].arg, form |-> f])
  /\ UNCHANGED <<req, res>>

Next ==
  \/ \E w \in Workers : \/ Call(w) \/ Store(w) \/ Acknowledge(w) \/ Find(w)
                        \/ Scan(w) \/ Fail(w) \/ Return(w)
  \/ Crash

Spec == Init /\ [][Next]_vars
=============================================================================
