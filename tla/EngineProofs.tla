---------------------------- MODULE EngineProofs ----------------------------
(***************************************************************************)
(* Proofs about Engine for every set of workers and of table names, every  *)
(* assignment of names to tables, every number of requests and every       *)
(* initial registry capacity.                                              *)
(***************************************************************************)
EXTENDS Engine, FiniteSetTheorems, TLAPS

-----------------------------------------------------------------------------
(* The inductive invariants. *)

\* w is between the append of its row and the end of its registration.
Registering(w) ==
  \/ pc[w] = "register"
  \/ pc[w] \in {"entry", "load", "use"} /\ task[w] = "register"

\* The control states a request of each kind goes through.
KindAt(w) ==
  /\ pc[w] \in {"append", "register", "invalidate"} => req[w].kind = "insert"
  /\ pc[w] = "scan" => req[w].kind = "scan"
  /\ pc[w] = "read" => req[w].kind = "find"
  /\ pc[w] \in {"entry", "load", "use"} =>
       req[w].kind = IF task[w] = "find" THEN "find" ELSE "insert"

\* An index has an entry in the registry, and so has the table of a worker
\* with a TableIndex pointer in hand.
EntryInv == \A s \in Names : loaded[s] => s \in present
PointerAt(w) == pc[w] \in {"load", "use"} => Table(w) \in present

ControlInv ==
  /\ EntryInv
  /\ \A w \in Workers : KindAt(w) /\ PointerAt(w)

\* Ids and offsets of one table's index, whatever the file holds.
DenseAt(s) ==
  loaded[s] =>
    /\ nextId[s] >= 1
    /\ \A e \in tree[s] : e[1] \in 1 .. nextId[s] - 1
    /\ \A n \in 1 .. nextId[s] - 1 : \E e \in tree[s] : e[1] = n
    /\ \A e, f \in tree[s] : e[1] <= f[1] => e[2] <= f[2]
    /\ \A e \in tree[s] : e[2] <= Len(file[s]) + 1

\* What the locals of a worker say about the index of its table.
LocalAt(w) ==
  /\ pc[w] \in {"use", "append"} => loaded[Table(w)]
  /\ pc[w] = "append" => id[w] = nextId[Table(w)]
  /\ Registering(w) =>
       /\ loaded[Table(w)] /\ id[w] = nextId[Table(w)]
       /\ offset[w] <= Len(file[Table(w)]) + 1
       /\ \A e \in tree[Table(w)] : e[2] <= offset[w]

DenseInv ==
  /\ \A s \in Names : DenseAt(s)
  /\ \A w \in Workers : LocalAt(w)

-----------------------------------------------------------------------------
(* Types. *)

(* get_or_create_table_index makes room before it adds an entry: a grown   *)
(* array is larger, the first one included.                                *)
LEMMA GrowthMakesRoom ==
  ASSUME NEW c \in Nat
  PROVE  GrowCapacity(c) \in Nat /\ GrowCapacity(c) >= c + 1
  BY EngineAssumption DEF GrowCapacity

(* One more entry counts one more. *)
LEMMA OneMoreEntry ==
  ASSUME present \subseteq Names, NEW s \in Names, s \notin present
  PROVE  /\ IsFiniteSet(present)
         /\ Cardinality(present) \in Nat
         /\ Cardinality(present \cup {s}) = Cardinality(present) + 1
  <1>1. IsFiniteSet(present)
    BY EngineAssumption, FS_Subset
  <1> QED BY <1>1, FS_AddElement, FS_CardinalityType

(* A worker's table is a table. *)
LEMMA TableType ==
  ASSUME TypeOK, NEW w \in Workers
  PROVE  Table(w) \in Names /\ LockKey(w) \in Names /\ LockKey(w) = Table(w)
  <1>1. req[w] \in Requests
    BY DEF TypeOK
  <1>2. req[w].name \in Names
    BY <1>1 DEF Requests
  <1> QED BY <1>2, EngineAssumption DEF Table, LockKey

(* The answers a worker writes are results. *)
LEMMA AnswersAreResults ==
  /\ Pending \in Results /\ Failed \in Results /\ Answer(<<>>) \in Results
  /\ \A found \in Seq(Lines) : Answer(found) \in Results
  BY DEF Pending, Failed, Answer, Results

(* A started server has values of the right type in every variable. *)
LEMMA TypeInit == Init => TypeOK
  <1> SUFFICES ASSUME Init PROVE TypeOK
    OBVIOUS
  <1> USE EngineAssumption DEF Init
  <1>1. file \in [Names -> Seq(Lines)]
    OBVIOUS
  <1>2. Cardinality(present) = 0
    BY FS_EmptySet
  <1>3. req \in [Workers -> Requests]
    BY DEF Requests
  <1>4. res \in [Workers -> Results]
    BY AnswersAreResults
  <1>5. pc \in [Workers -> States]
    BY DEF States
  <1>6. /\ loaded \in [Names -> BOOLEAN]
        /\ tree \in [Names -> SUBSET (Nat \X Nat)]
        /\ nextId \in [Names -> Nat]
    OBVIOUS
  <1>7. acked \subseteq [table : Names, id : Nat, row : 1 .. MaxRequests]
    OBVIOUS
  <1>8. requests \in 0 .. MaxRequests
    OBVIOUS
  <1>9. /\ lockEntries \subseteq Names /\ stale \subseteq Workers
        /\ owner \in [Names -> Workers \cup {NoWorker}]
        /\ present \subseteq Names /\ capacity = 0
        /\ corrupted \in BOOLEAN
    OBVIOUS
  <1>10. /\ task \in [Workers -> {"next", "register", "find"}]
         /\ id \in [Workers -> Nat] /\ offset \in [Workers -> Nat]
    OBVIOUS
  <1> HIDE DEF Init
  <1> QED BY <1>1, <1>2, <1>3, <1>4, <1>5, <1>6, <1>7, <1>8, <1>9, <1>10
          DEF TypeOK

(* The lines an append may add, whole or damaged, are lines. *)
LEMMA NewLines ==
  ASSUME TypeOK, NEW w \in Workers
  PROVE  /\ <<[row |-> req[w].arg, form |-> "whole"]>> \in Seq(Lines)
         /\ Remains(w) \subseteq Seq(Lines)
         /\ LongRow(w) \subseteq Seq(Lines)
  <1>1. req[w].arg \in 1 .. MaxRequests
    BY DEF TypeOK, Requests
  <1>2. \A f \in Forms : [row |-> req[w].arg, form |-> f] \in Lines
    BY <1>1 DEF Lines
  <1>3. \A f \in Forms : <<[row |-> req[w].arg, form |-> f]>> \in Seq(Lines)
    BY <1>2
  <1>4. {"cut", "short", "broken"} \subseteq Forms /\ "whole" \in Forms
    BY DEF Forms
  <1>5. Remains(w) \subseteq Seq(Lines)
    <2> SUFFICES ASSUME NEW l \in Remains(w) PROVE l \in Seq(Lines)
      OBVIOUS
    <2>1. CASE l = <<>>
      BY <2>1
    <2>2. CASE l # <<>>
      <3>1. PICK f \in {"cut", "short", "broken"} :
              l = <<[row |-> req[w].arg, form |-> f]>>
        BY <2>2 DEF Remains
      <3> QED BY <3>1, <1>3, <1>4
    <2> QED BY <2>1, <2>2
  <1>6. LongRow(w) \subseteq Seq(Lines)
    <2> SUFFICES ASSUME NEW l \in LongRow(w) PROVE l \in Seq(Lines)
      OBVIOUS
    <2> DEFINE parts == {[row |-> req[w].arg, form |-> f] : f \in Forms \ {"whole"}}
    <2>1. PICK n \in 2 .. MaxParts : l \in [1 .. n -> parts]
      BY DEF LongRow
    <2>2. parts \subseteq Lines
      BY <1>2
    <2>3. n \in Nat
      BY DEF MaxParts
    <2> HIDE DEF parts
    <2>4. l \in [1 .. n -> Lines]
      BY <2>1, <2>2
    <2> QED BY <2>3, <2>4
  <1> QED BY <1>3, <1>4, <1>5, <1>6

(* What a restart finds of a table: the file as it was, or one more line    *)
(* from an append that was under way.                                      *)
LEMMA InterruptedCases ==
  ASSUME NEW s \in Names, NEW l \in Interrupted(s)
  PROVE  \/ l = file[s]
         \/ \E w \in Workers, f \in Forms :
              /\ pc[w] = "append" /\ Table(w) = s
              /\ l = Append(file[s], [row |-> req[w].arg, form |-> f])
  <1> DEFINE W == {v \in Workers : pc[v] = "append" /\ Table(v) = s}
             A(w, f) == Append(file[s], [row |-> req[w].arg, form |-> f])
  <1>0. Interrupted(s) = {file[s]} \cup {A(w, f) : w \in W, f \in Forms}
    BY DEF Interrupted
  <1>1. l \in {file[s]} \cup {A(w, f) : w \in W, f \in Forms}
    <2> HIDE DEF W, A
    <2> QED BY <1>0
  <1>2. l = file[s] \/ \E w \in W, f \in Forms : l = A(w, f)
    <2> HIDE DEF W, A
    <2> QED BY <1>1
  <1> QED BY <1>2

(* Leaving the critical path keeps the types of what it writes. *)
LEMMA FinishTypes ==
  ASSUME TypeOK, NEW w \in Workers, NEW a \in Results, FinishWith(w, a)
  PROVE  /\ pc' \in [Workers -> States]
         /\ res' \in [Workers -> Results]
  BY DEF TypeOK, FinishWith, Goto, States, Critical

(* So does a failed ensure_loaded, on both of its ways out. *)
LEMMA EnsureFailsTypes ==
  ASSUME TypeOK, NEW w \in Workers, EnsureFails(w)
  PROVE  /\ pc' \in [Workers -> States]
         /\ res' \in [Workers -> Results]
  <1>1. CASE task[w] = "register"
    BY <1>1 DEF TypeOK, EnsureFails, Goto, States, Critical
  <1>2. CASE task[w] # "register"
    BY <1>2, FinishTypes, AnswersAreResults DEF EnsureFails
  <1> QED BY <1>1, <1>2

(* So does writing one table's index. *)
LEMMA SetIndexTypes ==
  ASSUME TypeOK, NEW s \in Names, NEW l \in BOOLEAN,
         NEW e \in SUBSET (Nat \X Nat), NEW n \in Nat, SetIndex(s, l, e, n)
  PROVE  /\ loaded' \in [Names -> BOOLEAN]
         /\ tree' \in [Names -> SUBSET (Nat \X Nat)]
         /\ nextId' \in [Names -> Nat]
  BY DEF TypeOK, SetIndex

(* Every step keeps the types: the registry grows before it is full, and    *)
(* every answer and every line written is one.                             *)
LEMMA TypeNext == TypeOK /\ [Next]_vars => TypeOK'
  <1> SUFFICES ASSUME TypeOK, [Next]_vars PROVE TypeOK'
    OBVIOUS
  <1> USE EngineAssumption
      DEF vars, fileVars, lockVars, registryVars, indexVars, localVars,
          memoryVars
  <1>1. ASSUME NEW w \in Workers, Begin(w) PROVE TypeOK'
    <2>1. /\ req' \in [Workers -> Requests] /\ requests' \in 0 .. MaxRequests
      BY <1>1 DEF TypeOK, Begin
    <2>2. /\ pc' \in [Workers -> States] /\ res' \in [Workers -> Results]
      BY <1>1, AnswersAreResults DEF TypeOK, Begin, Goto, States
    <2> QED BY <1>1, <2>1, <2>2 DEF TypeOK, Begin
  <1>2. ASSUME NEW w \in Workers, Parse(w) PROVE TypeOK'
    <2>1. pc' \in [Workers -> States]
      BY <1>2 DEF TypeOK, Parse, Goto, States
    <2>2. res' \in [Workers -> Results]
      BY <1>2, AnswersAreResults DEF TypeOK, Parse
    <2> QED BY <1>2, <2>1, <2>2 DEF TypeOK, Parse
  <1>3. ASSUME NEW w \in Workers, Refused(w) PROVE TypeOK'
    BY <1>3 DEF TypeOK, Refused, Goto, States, Critical
  <1>4. ASSUME NEW w \in Workers, LockLookup(w) PROVE TypeOK'
    <2>1. pc' \in [Workers -> States]
      BY <1>4 DEF TypeOK, LockLookup, Goto, States
    <2>3. res' \in [Workers -> Results]
      BY <1>4, AnswersAreResults DEF TypeOK, LockLookup
    <2>2. lockEntries' \subseteq Names
      BY <1>4, TableType DEF TypeOK, LockLookup
    <2> QED BY <1>4, <2>1, <2>2, <2>3 DEF TypeOK, LockLookup
  <1>5. ASSUME NEW w \in Workers, LockTable(w) PROVE TypeOK'
    <2>1. owner' \in [Names -> Workers \cup {NoWorker}]
      BY <1>5, TableType DEF TypeOK, LockTable
    <2> QED BY <1>5, <2>1 DEF TypeOK, LockTable, Goto, States, Critical
  <1>6. ASSUME NEW w \in Workers, ExecuteRefused(w) PROVE TypeOK'
    <2>1. /\ pc' \in [Workers -> States] /\ res' \in [Workers -> Results]
      BY <1>6, FinishTypes, AnswersAreResults DEF ExecuteRefused
    <2> QED BY <1>6, <2>1 DEF TypeOK, ExecuteRefused
  <1>7. ASSUME NEW w \in Workers, ExecuteStatement(w) PROVE TypeOK'
    BY <1>7 DEF TypeOK, ExecuteStatement, Goto, States, Critical
  <1>8. ASSUME NEW w \in Workers, Release(w) PROVE TypeOK'
    <2>1. owner' \in [Names -> Workers \cup {NoWorker}]
      BY <1>8, TableType DEF TypeOK, Release
    <2>2. acked' \subseteq [table : Names, id : Nat, row : 1 .. MaxRequests]
      BY <1>8, TableType DEF TypeOK, Release, Requests
    <2>3. pc' \in [Workers -> States]
      BY <1>8 DEF TypeOK, Release, Goto, States
    <2>4. /\ task' \in [Workers -> {"next", "register", "find"}]
          /\ id' \in [Workers -> Nat] /\ offset' \in [Workers -> Nat]
      BY <1>8 DEF TypeOK, Release
    <2> QED BY <1>8, <2>1, <2>2, <2>3, <2>4 DEF TypeOK, Release
  <1>9. ASSUME NEW w \in Workers, GetEntry(w) PROVE TypeOK'
    <2>1. Table(w) \in Names
      BY TableType
    <2>2. pc' \in [Workers -> States]
      BY <1>9 DEF TypeOK, GetEntry, Goto, States, Critical
    <2>3. CASE Table(w) \in present
      BY <1>9, <2>2, <2>3 DEF TypeOK, GetEntry
    <2>4. CASE Table(w) \notin present
      <3>1. /\ Cardinality(present) \in Nat
            /\ present' \subseteq Names
            /\ Cardinality(present') = Cardinality(present) + 1
        BY <1>9, <2>1, <2>4, OneMoreEntry DEF TypeOK, GetEntry
      <3>2. capacity' \in Nat /\ Cardinality(present') <= capacity'
        <4>1. capacity \in Nat /\ Cardinality(present) <= capacity
          BY DEF TypeOK
        <4>2. CASE Cardinality(present) = capacity
          BY <1>9, <2>4, <3>1, <4>1, <4>2, GrowthMakesRoom DEF GetEntry
        <4>3. CASE Cardinality(present) # capacity
          BY <1>9, <2>4, <3>1, <4>1, <4>3 DEF GetEntry
        <4> QED BY <4>2, <4>3
      <3>3. stale' \subseteq Workers
        BY <1>9, <2>4 DEF TypeOK, GetEntry, Holding
      <3>4. /\ loaded' \in [Names -> BOOLEAN]
            /\ tree' \in [Names -> SUBSET (Nat \X Nat)]
            /\ nextId' \in [Names -> Nat]
        <4>1. SetIndex(Table(w), FALSE, {}, 1)
          BY <1>9, <2>4 DEF GetEntry, SetIndex
        <4> QED BY <4>1, <2>1, SetIndexTypes
      <3> QED BY <1>9, <2>2, <3>1, <3>2, <3>3, <3>4 DEF TypeOK, GetEntry
    <2> QED BY <2>3, <2>4
  <1>10. ASSUME NEW w \in Workers, GetEntryFails(w) PROVE TypeOK'
    <2>1. /\ pc' \in [Workers -> States] /\ res' \in [Workers -> Results]
      BY <1>10, EnsureFailsTypes DEF GetEntryFails
    <2>2. capacity' \in Nat /\ capacity' >= capacity
      <3>1. capacity \in Nat /\ capacity' \in {capacity, GrowCapacity(capacity)}
        BY <1>10 DEF TypeOK, GetEntryFails
      <3> QED BY <3>1, GrowthMakesRoom
    <2>3. stale' \subseteq Workers
      BY <1>10 DEF TypeOK, GetEntryFails, Holding
    <2>4. Cardinality(present) \in Nat
      BY <1>10, OneMoreEntry, TableType DEF TypeOK, GetEntryFails
    <2> QED BY <1>10, <2>1, <2>2, <2>3, <2>4 DEF TypeOK, GetEntryFails
  <1>11. ASSUME NEW w \in Workers, Load(w) PROVE TypeOK'
    <2>1. Table(w) \in Names
      BY TableType
    <2>2. /\ RowIndex(Table(w)) \in SUBSET (Nat \X Nat)
          /\ IdAfterLastRow(Table(w)) \in Nat
      BY <2>1 DEF TypeOK, RowIndex, IdAfterLastRow
    <2>3. /\ loaded' \in [Names -> BOOLEAN]
          /\ tree' \in [Names -> SUBSET (Nat \X Nat)]
          /\ nextId' \in [Names -> Nat]
      <3>1. CASE UNCHANGED indexVars
        BY <3>1 DEF TypeOK
      <3>2. CASE SetIndex(Table(w), TRUE, RowIndex(Table(w)),
                          IdAfterLastRow(Table(w)))
        BY <3>2, <2>1, <2>2, SetIndexTypes
      <3>3. CASE SetIndex(Table(w), FALSE, {}, 1)
        BY <3>3, <2>1, SetIndexTypes
      <3> QED BY <1>11, <3>1, <3>2, <3>3 DEF Load
    <2>4. /\ pc' \in [Workers -> States] /\ res' \in [Workers -> Results]
      BY <1>11, EnsureFailsTypes DEF TypeOK, Load, Goto, States, Critical
    <2> QED BY <1>11, <2>3, <2>4 DEF TypeOK, Load
  <1>12. ASSUME NEW w \in Workers, NextId(w) PROVE TypeOK'
    <2>1. id' \in [Workers -> Nat]
      BY <1>12, TableType DEF TypeOK, NextId
    <2> QED BY <1>12, <2>1 DEF TypeOK, NextId, Goto, States, Critical
  <1>13. ASSUME NEW w \in Workers, RegisterRow(w) PROVE TypeOK'
    <2>1. /\ pc' \in [Workers -> States] /\ res' \in [Workers -> Results]
      BY <1>13, FinishTypes, AnswersAreResults DEF RegisterRow
    <2>2. /\ Table(w) \in Names
          /\ loaded[Table(w)] \in BOOLEAN
          /\ tree[Table(w)] \cup {<<id[w], offset[w]>>} \in SUBSET (Nat \X Nat)
          /\ NextIdAfter(id[w], nextId[Table(w)]) \in Nat
      BY TableType DEF TypeOK, NextIdAfter
    <2>3. /\ loaded' \in [Names -> BOOLEAN]
          /\ tree' \in [Names -> SUBSET (Nat \X Nat)]
          /\ nextId' \in [Names -> Nat]
      BY <1>13, <2>2, SetIndexTypes DEF RegisterRow
    <2> QED BY <1>13, <2>1, <2>3 DEF TypeOK, RegisterRow
  <1>14. ASSUME NEW w \in Workers, RegisterRowFails(w) PROVE TypeOK'
    BY <1>14 DEF TypeOK, RegisterRowFails, Goto, States, Critical
  <1>15. ASSUME NEW w \in Workers, FindRow(w) PROVE TypeOK'
    <2>1. /\ pc' \in [Workers -> States] /\ res' \in [Workers -> Results]
      <3>1. CASE FinishWith(w, Answer(<<>>)) \/ FinishWith(w, Failed)
        BY <3>1, FinishTypes, AnswersAreResults
      <3>2. CASE Goto(w, "read") /\ UNCHANGED res
        BY <3>2 DEF TypeOK, Goto, States, Critical
      <3> QED BY <1>15, <3>1, <3>2 DEF FindRow
    <2>2. \A e \in tree[Table(w)] : e[2] \in Nat
      BY TableType DEF TypeOK
    <2>3. offset' \in [Workers -> Nat]
      BY <1>15, <2>2 DEF TypeOK, FindRow
    <2> QED BY <1>15, <2>1, <2>3 DEF TypeOK, FindRow
  <1>16. ASSUME NEW w \in Workers, UseStaleEntry(w) PROVE TypeOK'
    BY <1>16 DEF TypeOK, UseStaleEntry
  <1>17. ASSUME NEW w \in Workers, Invalidate(w) PROVE TypeOK'
    <2>1. /\ pc' \in [Workers -> States] /\ res' \in [Workers -> Results]
      BY <1>17, FinishTypes, AnswersAreResults DEF Invalidate
    <2>2. /\ loaded' \in [Names -> BOOLEAN]
          /\ tree' \in [Names -> SUBSET (Nat \X Nat)]
          /\ nextId' \in [Names -> Nat]
      <3>1. CASE UNCHANGED indexVars
        BY <3>1 DEF TypeOK
      <3>2. CASE SetIndex(Table(w), FALSE, {}, 1)
        BY <3>2, TableType, SetIndexTypes
      <3> QED BY <1>17, <3>1, <3>2 DEF Invalidate
    <2> QED BY <1>17, <2>1, <2>2 DEF TypeOK, Invalidate
  <1>18. ASSUME NEW w \in Workers, AppendRefused(w) PROVE TypeOK'
    <2>1. /\ pc' \in [Workers -> States] /\ res' \in [Workers -> Results]
      BY <1>18, FinishTypes, AnswersAreResults DEF AppendRefused
    <2> QED BY <1>18, <2>1 DEF TypeOK, AppendRefused
  <1>19. ASSUME NEW w \in Workers, AppendRow(w) PROVE TypeOK'
    <2>1. PICK new \in Seq(Lines) :
            file' = [file EXCEPT ![Table(w)] = @ \o new]
      BY <1>19, NewLines DEF AppendRow
    <2>2. file' \in [Names -> Seq(Lines)]
      BY <2>1, TableType DEF TypeOK
    <2>3. offset' \in [Workers -> Nat]
      BY <1>19, TableType DEF TypeOK, AppendRow
    <2> QED BY <1>19, <2>2, <2>3 DEF TypeOK, AppendRow, Goto, States, Critical
  <1>20. ASSUME NEW w \in Workers, AppendFails(w) PROVE TypeOK'
    <2>1. PICK new \in Seq(Lines) :
            file' = [file EXCEPT ![Table(w)] = @ \o new]
      BY <1>20, NewLines DEF AppendFails
    <2>2. file' \in [Names -> Seq(Lines)]
      BY <2>1, TableType DEF TypeOK
    <2>3. /\ pc' \in [Workers -> States] /\ res' \in [Workers -> Results]
      BY <1>20, FinishTypes, AnswersAreResults DEF AppendFails
    <2> QED BY <1>20, <2>2, <2>3 DEF TypeOK, AppendFails
  <1>21. ASSUME NEW w \in Workers, Register(w) PROVE TypeOK'
    <2>1. pc \in [Workers -> States] /\ task \in [Workers -> {"next", "register", "find"}]
      BY DEF TypeOK
    <2>2. pc' \in [Workers -> States]
      BY <1>21, <2>1 DEF Register, Goto, States, Critical
    <2>3. task' \in [Workers -> {"next", "register", "find"}]
      BY <1>21, <2>1 DEF Register
    <2> QED BY <1>21, <2>2, <2>3 DEF TypeOK, Register
  <1>22. ASSUME NEW w \in Workers, ReadRow(w) PROVE TypeOK'
    <2>1. file[Table(w)] \in Seq(Lines) /\ offset[w] \in Nat
      BY TableType DEF TypeOK
    <2> DEFINE l == file[Table(w)][offset[w]]
    <2>2. offset[w] \in DOMAIN file[Table(w)] => Answer(<<l>>) \in Results
      <3>1. SUFFICES ASSUME offset[w] \in DOMAIN file[Table(w)]
                     PROVE  Answer(<<l>>) \in Results
        OBVIOUS
      <3>2. l \in Lines
        BY <2>1, <3>1
      <3>3. <<l>> \in Seq(Lines)
        BY <3>2
      <3> QED BY <3>3, AnswersAreResults
    <2>3. PICK a \in Results : FinishWith(w, a)
      BY <1>22, <2>2, AnswersAreResults DEF ReadRow
    <2>4. /\ pc' \in [Workers -> States] /\ res' \in [Workers -> Results]
      BY <2>3, FinishTypes
    <2> QED BY <1>22, <2>4 DEF TypeOK, ReadRow
  <1>23. ASSUME NEW w \in Workers, ScanRows(w) PROVE TypeOK'
    <2>1. file[Table(w)] \in Seq(Lines)
      BY TableType DEF TypeOK
    <2>2. /\ pc' \in [Workers -> States] /\ res' \in [Workers -> Results]
      BY <1>23, <2>1, FinishTypes, AnswersAreResults DEF ScanRows
    <2> QED BY <1>23, <2>2 DEF TypeOK, ScanRows
  <1>24. ASSUME NEW w \in Workers, SelectFails(w) PROVE TypeOK'
    <2>1. /\ pc' \in [Workers -> States] /\ res' \in [Workers -> Results]
      BY <1>24, FinishTypes, AnswersAreResults DEF SelectFails
    <2> QED BY <1>24, <2>1 DEF TypeOK, SelectFails
  <1>25. CASE Restart
    <2>1. file' \in [Names -> Seq(Lines)]
      <3>1. \A s \in Names : Interrupted(s) \subseteq Seq(Lines)
        <4> SUFFICES ASSUME NEW s \in Names, NEW l \in Interrupted(s)
                     PROVE  l \in Seq(Lines)
          OBVIOUS
        <4>1. CASE l = file[s]
          BY <4>1 DEF TypeOK
        <4>2. CASE l # file[s]
          <5>1. PICK w \in Workers, f \in Forms :
                  l = Append(file[s], [row |-> req[w].arg, form |-> f])
            BY <4>2, InterruptedCases
          <5>2. [row |-> req[w].arg, form |-> f] \in Lines
            BY DEF TypeOK, Requests, Lines
          <5> QED BY <5>1, <5>2 DEF TypeOK
        <4> QED BY <4>1, <4>2
      <3>2. /\ file' \in [Names -> UNION {Interrupted(s) : s \in Names}]
            /\ \A s \in Names : file'[s] \in Interrupted(s)
        BY <1>25 DEF Restart
      <3> QED BY <3>1, <3>2
    <2>2. /\ Cardinality(present') = 0 /\ present' \subseteq Names
          /\ capacity' = 0
      BY <1>25, FS_EmptySet DEF Restart
    <2>3. /\ lockEntries' \subseteq Names /\ stale' \subseteq Workers
          /\ owner' \in [Names -> Workers \cup {NoWorker}]
      BY <1>25 DEF Restart
    <2>4. /\ loaded' \in [Names -> BOOLEAN]
          /\ tree' \in [Names -> SUBSET (Nat \X Nat)]
          /\ nextId' \in [Names -> Nat]
      BY <1>25 DEF Restart
    <2>5. /\ pc' \in [Workers -> States]
          /\ task' \in [Workers -> {"next", "register", "find"}]
          /\ id' \in [Workers -> Nat] /\ offset' \in [Workers -> Nat]
      BY <1>25 DEF Restart, States
    <2>6. /\ req' \in [Workers -> Requests] /\ res' \in [Workers -> Results]
          /\ acked' \subseteq [table : Names, id : Nat, row : 1 .. MaxRequests]
          /\ corrupted' \in BOOLEAN /\ requests' \in 0 .. MaxRequests
      BY <1>25 DEF Restart, TypeOK
    <2>7. 0 \in Nat /\ 0 <= 0
      OBVIOUS
    <2> QED BY <2>1, <2>2, <2>3, <2>4, <2>5, <2>6, <2>7 DEF TypeOK
  <1>26. CASE UNCHANGED vars
    BY <1>26 DEF TypeOK
  <1> QED
    BY <1>1, <1>2, <1>3, <1>4, <1>5, <1>6, <1>7, <1>8, <1>9, <1>10, <1>11,
       <1>12, <1>13, <1>14, <1>15, <1>16, <1>17, <1>18, <1>19, <1>20, <1>21,
       <1>22, <1>23, <1>24, <1>25, <1>26
    DEF Next, RequestStep, Waiting

(* Every variable keeps its type and the registry never holds more indexes  *)
(* than it has room for, whatever fails: get_or_create_table_index grows   *)
(* the array before it adds an entry.                                      *)
THEOREM TypeCorrect == Spec => []TypeOK
  BY TypeInit, TypeNext, PTL DEF Spec

-----------------------------------------------------------------------------
(* Table locks. *)

\* A step leaves the locals of v alone.
SameWorker(v) ==
  /\ pc'[v] = pc[v] /\ req'[v] = req[v] /\ res'[v] = res[v]
  /\ task'[v] = task[v] /\ id'[v] = id[v] /\ offset'[v] = offset[v]

\* A step leaves the file, the index and the registry entry of s alone.
SameTable(s) ==
  /\ file'[s] = file[s] /\ loaded'[s] = loaded[s] /\ tree'[s] = tree[s]
  /\ nextId'[s] = nextId[s] /\ (s \in present' <=> s \in present)

(* A thread changes its own locals and the table of its own request only:   *)
(* the executor, the index and the storage are given the table's name, and *)
(* a row of registry.items is found by it.                                 *)
LEMMA Frame ==
  ASSUME TypeOK, NEW w \in Workers, Begin(w) \/ RequestStep(w)
  PROVE  /\ \A v \in Workers \ {w} : SameWorker(v)
         /\ \A s \in Names \ {Table(w)} : SameTable(s)
  <1> USE DEF TypeOK, fileVars, lockVars, registryVars, indexVars, localVars,
              memoryVars, SameWorker, SameTable, Goto, FinishWith, EnsureFails,
              SetIndex
  <1>1. CASE Begin(w)
    BY <1>1 DEF Begin
  <1>2. CASE Parse(w)
    BY <1>2 DEF Parse
  <1>3. CASE Refused(w)
    BY <1>3 DEF Refused
  <1>4. CASE LockLookup(w)
    BY <1>4 DEF LockLookup
  <1>5. CASE LockTable(w)
    BY <1>5 DEF LockTable
  <1>6. CASE ExecuteRefused(w)
    BY <1>6 DEF ExecuteRefused
  <1>7. CASE ExecuteStatement(w)
    BY <1>7 DEF ExecuteStatement
  <1>8. CASE Release(w)
    BY <1>8 DEF Release
  <1>9. CASE GetEntry(w)
    BY <1>9 DEF GetEntry
  <1>10. CASE GetEntryFails(w)
    BY <1>10 DEF GetEntryFails
  <1>11. CASE Load(w)
    BY <1>11 DEF Load
  <1>12. CASE NextId(w)
    BY <1>12 DEF NextId
  <1>13. CASE RegisterRow(w)
    BY <1>13 DEF RegisterRow
  <1>14. CASE RegisterRowFails(w)
    BY <1>14 DEF RegisterRowFails
  <1>15. CASE FindRow(w)
    BY <1>15 DEF FindRow
  <1>16. CASE UseStaleEntry(w)
    BY <1>16 DEF UseStaleEntry
  <1>17. CASE Invalidate(w)
    BY <1>17 DEF Invalidate
  <1>18. CASE AppendRefused(w)
    BY <1>18 DEF AppendRefused
  <1>19. CASE AppendRow(w)
    BY <1>19 DEF AppendRow
  <1>20. CASE AppendFails(w)
    BY <1>20 DEF AppendFails
  <1>21. CASE Register(w)
    BY <1>21 DEF Register
  <1>22. CASE ReadRow(w)
    BY <1>22 DEF ReadRow
  <1>23. CASE ScanRows(w)
    BY <1>23 DEF ScanRows
  <1>24. CASE SelectFails(w)
    BY <1>24 DEF SelectFails
  <1> QED
    BY <1>1, <1>2, <1>3, <1>4, <1>5, <1>6, <1>7, <1>8, <1>9, <1>10, <1>11,
       <1>12, <1>13, <1>14, <1>15, <1>16, <1>17, <1>18, <1>19, <1>20, <1>21,
       <1>22, <1>23, <1>24 DEF RequestStep

\* What a step of w's request does to the ownership of the table mutexes.
LockStep(w) ==
  \/ LockTable(w)
  \/ Release(w)
  \/ (pc[w] \in Critical <=> pc'[w] \in Critical) /\ owner' = owner

(* Between LockTable and Release a request stays on the critical path: every *)
(* failure of sql_engine_adapter_execute goes through its cleanup label.   *)
LEMMA LockSteps ==
  ASSUME TypeOK, NEW w \in Workers, RequestStep(w)
  PROVE  LockStep(w) /\ req' = req
  <1> USE DEF TypeOK, lockVars, LockStep, Critical, Goto, FinishWith,
              EnsureFails
  <1>1. CASE Parse(w)
    BY <1>1 DEF Parse
  <1>2. CASE Refused(w)
    BY <1>2 DEF Refused
  <1>3. CASE LockLookup(w)
    BY <1>3 DEF LockLookup
  <1>4. CASE LockTable(w)
    BY <1>4 DEF LockTable
  <1>5. CASE ExecuteRefused(w)
    BY <1>5 DEF ExecuteRefused
  <1>6. CASE ExecuteStatement(w)
    BY <1>6 DEF ExecuteStatement
  <1>7. CASE Release(w)
    BY <1>7 DEF Release
  <1>8. CASE GetEntry(w)
    BY <1>8 DEF GetEntry
  <1>9. CASE GetEntryFails(w)
    BY <1>9 DEF GetEntryFails
  <1>10. CASE Load(w)
    BY <1>10 DEF Load
  <1>11. CASE NextId(w)
    BY <1>11 DEF NextId
  <1>12. CASE RegisterRow(w)
    BY <1>12 DEF RegisterRow
  <1>13. CASE RegisterRowFails(w)
    BY <1>13 DEF RegisterRowFails
  <1>14. CASE FindRow(w)
    BY <1>14 DEF FindRow
  <1>15. CASE UseStaleEntry(w)
    BY <1>15 DEF UseStaleEntry
  <1>16. CASE Invalidate(w)
    BY <1>16 DEF Invalidate
  <1>17. CASE AppendRefused(w)
    BY <1>17 DEF AppendRefused
  <1>18. CASE AppendRow(w)
    BY <1>18 DEF AppendRow
  <1>19. CASE AppendFails(w)
    BY <1>19 DEF AppendFails
  <1>20. CASE Register(w)
    BY <1>20 DEF Register
  <1>21. CASE ReadRow(w)
    BY <1>21 DEF ReadRow
  <1>22. CASE ScanRows(w)
    BY <1>22 DEF ScanRows
  <1>23. CASE SelectFails(w)
    BY <1>23 DEF SelectFails
  <1> QED
    BY <1>1, <1>2, <1>3, <1>4, <1>5, <1>6, <1>7, <1>8, <1>9, <1>10, <1>11,
       <1>12, <1>13, <1>14, <1>15, <1>16, <1>17, <1>18, <1>19, <1>20, <1>21,
       <1>22, <1>23 DEF RequestStep

(* The owner of a mutex is the one request that executes on its table. *)
LEMMA ExclusionNext ==
  TypeOK /\ TypeOK' /\ TableExclusion /\ [Next]_vars => TableExclusion'
  <1> SUFFICES ASSUME TypeOK, TypeOK', TableExclusion, [Next]_vars
               PROVE  TableExclusion'
    OBVIOUS
  <1> DEFINE Owned(k, w) == owner[k] = w <=> pc[w] \in Critical /\ Table(w) = k
             Owners == \A k \in Names, w \in Workers : Owned(k, w)
  <1>1. Owners
    BY TableType DEF TableExclusion
  <1>2. SUFFICES Owners'
    <2>1. \A w \in Workers : Table(w)' \in Names /\ LockKey(w)' = Table(w)'
      <3> SUFFICES ASSUME NEW w \in Workers PROVE Table(w)' \in Names
        BY DEF Table, LockKey
      <3>1. req'[w].name \in Names
        BY DEF TypeOK, Requests
      <3> QED BY <3>1, EngineAssumption DEF Table
    <2> QED BY <2>1, EngineAssumption DEF TableExclusion
  <1>3. ASSUME NEW w \in Workers, Begin(w) PROVE Owners'
    <2>1. \A v \in Workers \ {w} : pc'[v] = pc[v] /\ Table(v)' = Table(v)
      BY <1>3, Frame DEF SameWorker, Table
    <2>2. pc[w] \notin Critical /\ pc'[w] \notin Critical /\ owner' = owner
      BY <1>3 DEF Begin, Critical, Goto, TypeOK, lockVars
    <2> QED BY <1>1, <2>1, <2>2
  <1>4. ASSUME NEW w \in Workers, RequestStep(w) PROVE Owners'
    <2>1. \A v \in Workers \ {w} : pc'[v] = pc[v]
      BY <1>4, Frame DEF SameWorker
    <2>2. \A v \in Workers : Table(v)' = Table(v)
      BY <1>4, LockSteps DEF Table
    <2>3. Table(w) \in Names /\ LockKey(w) = Table(w)
      BY TableType
    <2>4. CASE LockTable(w)
      <3>1. /\ pc[w] \notin Critical /\ pc'[w] \in Critical
            /\ owner[Table(w)] = NoWorker
            /\ owner' = [owner EXCEPT ![Table(w)] = w]
        BY <2>3, <2>4 DEF LockTable, Goto, Critical, TypeOK
      <3>2. \A v \in Workers : ~(pc[v] \in Critical /\ Table(v) = Table(w))
        BY <1>1, <2>3, <3>1, EngineAssumption
      <3> SUFFICES ASSUME NEW k \in Names, NEW v \in Workers
                   PROVE  Owned(k, v)'
        OBVIOUS
      <3>3. CASE k = Table(w)
        <4>1. owner'[k] = w
          BY <2>3, <3>1, <3>3 DEF TypeOK
        <4> QED BY <2>1, <2>2, <3>1, <3>2, <3>3, <4>1
      <3>4. CASE k # Table(w)
        <4>1. owner'[k] = owner[k]
          BY <3>1, <3>4 DEF TypeOK
        <4> QED BY <1>1, <2>1, <2>2, <3>1, <3>4, <4>1
      <3> QED BY <3>3, <3>4
    <2>5. CASE Release(w)
      <3>1. /\ pc[w] \in Critical /\ pc'[w] \notin Critical
            /\ owner' = [owner EXCEPT ![Table(w)] = NoWorker]
        BY <2>3, <2>5 DEF Release, Goto, Critical, TypeOK
      <3> SUFFICES ASSUME NEW k \in Names, NEW v \in Workers
                   PROVE  Owned(k, v)'
        OBVIOUS
      <3>2. Owned(k, v) /\ Owned(k, w) /\ Owned(Table(w), w)
        BY <1>1, <2>3
      <3>3. CASE k = Table(w)
        <4>1. owner'[k] = NoWorker /\ NoWorker # v
          BY <2>3, <3>1, <3>3, EngineAssumption DEF TypeOK
        <4>2. v # w => owner[k] # v
          BY <3>1, <3>2, <3>3
        <4> QED BY <2>1, <2>2, <3>1, <3>2, <3>3, <4>1, <4>2
      <3>4. CASE k # Table(w)
        <4>1. owner'[k] = owner[k]
          BY <3>1, <3>4 DEF TypeOK
        <4> QED BY <2>1, <2>2, <3>1, <3>2, <3>4, <4>1
      <3> QED BY <3>3, <3>4
    <2>6. CASE (pc[w] \in Critical <=> pc'[w] \in Critical) /\ owner' = owner
      BY <1>1, <2>1, <2>2, <2>6
    <2> QED BY <1>4, <2>4, <2>5, <2>6, LockSteps DEF LockStep
  <1>5. CASE Restart
    BY <1>5, EngineAssumption DEF Restart, Critical
  <1>6. CASE UNCHANGED vars
    BY <1>1, <1>6 DEF vars, Table
  <1> QED BY <1>3, <1>4, <1>5, <1>6 DEF Next, Waiting

(* A table's mutex gives mutual exclusion to whoever executes on the table, *)
(* under any of its names, and no way through a request leaves it locked:  *)
(* for every number of workers and tables and every failure.               *)
THEOREM TableLocksExclude == Spec => []TableExclusion
  <1>1. Init => TableExclusion
    BY EngineAssumption DEF Init, TableExclusion, Critical
  <1> QED BY <1>1, TypeInit, TypeNext, ExclusionNext, PTL DEF Spec

-----------------------------------------------------------------------------
(* Who may change a table. *)

(* Before it has the lock a request changes no file, no index and no        *)
(* registry entry.                                                         *)
LEMMA OutsideFrame ==
  ASSUME TypeOK, NEW w \in Workers, Begin(w) \/ RequestStep(w),
         pc[w] \notin Critical
  PROVE  \A s \in Names : SameTable(s)
  <1> USE DEF TypeOK, fileVars, registryVars, indexVars, SameTable, Critical
  <1>1. CASE Begin(w)
    BY <1>1 DEF Begin
  <1>2. CASE Parse(w)
    BY <1>2 DEF Parse
  <1>3. CASE Refused(w)
    BY <1>3 DEF Refused
  <1>4. CASE LockLookup(w)
    BY <1>4 DEF LockLookup
  <1>5. CASE LockTable(w)
    BY <1>5 DEF LockTable
  <1> QED BY <1>1, <1>2, <1>3, <1>4, <1>5 DEF RequestStep, ExecuteRefused,
        ExecuteStatement, Release, GetEntry, GetEntryFails, Load, NextId,
        RegisterRow, RegisterRowFails, FindRow, UseStaleEntry, Invalidate,
        AppendRefused, AppendRow, AppendFails, Register, ReadRow, ScanRows,
        SelectFails

(* Nobody else's step touches the table on which a worker executes, nor the *)
(* worker: the table locks protect the index and the file.                 *)
LEMMA Undisturbed ==
  ASSUME TypeOK, TableExclusion, NEW w \in Workers, Begin(w) \/ RequestStep(w),
         NEW v \in Workers, v # w, pc[v] \in Critical
  PROVE  /\ SameWorker(v) /\ SameTable(Table(v))
         /\ Table(v) \in Names /\ Table(v)' = Table(v)
  <1>1. SameWorker(v) /\ Table(v) \in Names
    BY Frame, TableType
  <1>2. Table(v)' = Table(v)
    BY <1>1 DEF SameWorker, Table
  <1>3. CASE pc[w] \in Critical
    <2>1. Table(v) # Table(w)
      BY <1>3 DEF TableExclusion
    <2> QED BY <1>1, <1>2, <2>1, Frame
  <1>4. CASE pc[w] \notin Critical
    BY <1>1, <1>2, <1>4, OutsideFrame
  <1> QED BY <1>3, <1>4

(* One step of a request follows the path of its kind, and only under a     *)
(* pointer to an entry of the registry.                                    *)
LEMMA ControlStep ==
  ASSUME TypeOK, ControlInv, NEW w \in Workers, RequestStep(w)
  PROVE  /\ KindAt(w)' /\ PointerAt(w)'
         /\ loaded'[Table(w)] => Table(w) \in present'
         /\ present \subseteq present'
  <1>0. req' = req /\ Table(w)' = Table(w) /\ Table(w) \in Names
    BY LockSteps, TableType DEF Table
  <1>00. /\ KindAt(w) /\ PointerAt(w)
         /\ loaded[Table(w)] => Table(w) \in present
         /\ req[w].kind \in {"insert", "find", "scan"}
    BY <1>0 DEF ControlInv, EntryInv, TypeOK, Requests
  <1> USE <1>0, <1>00
      DEF TypeOK, registryVars, indexVars, localVars, KindAt, PointerAt, Goto,
          FinishWith, EnsureFails, SetIndex
  <1>1. CASE Parse(w)
    BY <1>1 DEF Parse
  <1>2. CASE Refused(w)
    BY <1>2 DEF Refused
  <1>3. CASE LockLookup(w)
    BY <1>3 DEF LockLookup
  <1>4. CASE LockTable(w)
    BY <1>4 DEF LockTable
  <1>5. CASE ExecuteRefused(w)
    BY <1>5 DEF ExecuteRefused
  <1>6. CASE ExecuteStatement(w)
    BY <1>6 DEF ExecuteStatement
  <1>7. CASE Release(w)
    BY <1>7 DEF Release
  <1>8. CASE GetEntry(w)
    BY <1>8 DEF GetEntry
  <1>9. CASE GetEntryFails(w)
    BY <1>9 DEF GetEntryFails
  <1>10. CASE Load(w)
    BY <1>10 DEF Load
  <1>11. CASE NextId(w)
    BY <1>11 DEF NextId
  <1>12. CASE RegisterRow(w)
    BY <1>12 DEF RegisterRow
  <1>13. CASE RegisterRowFails(w)
    BY <1>13 DEF RegisterRowFails
  <1>14. CASE FindRow(w)
    BY <1>14 DEF FindRow
  <1>15. CASE UseStaleEntry(w)
    BY <1>15 DEF UseStaleEntry
  <1>16. CASE Invalidate(w)
    BY <1>16 DEF Invalidate
  <1>17. CASE AppendRefused(w)
    BY <1>17 DEF AppendRefused
  <1>18. CASE AppendRow(w)
    BY <1>18 DEF AppendRow
  <1>19. CASE AppendFails(w)
    BY <1>19 DEF AppendFails
  <1>20. CASE Register(w)
    BY <1>20 DEF Register
  <1>21. CASE ReadRow(w)
    BY <1>21 DEF ReadRow
  <1>22. CASE ScanRows(w)
    BY <1>22 DEF ScanRows
  <1>23. CASE SelectFails(w)
    BY <1>23 DEF SelectFails
  <1> QED
    BY <1>1, <1>2, <1>3, <1>4, <1>5, <1>6, <1>7, <1>8, <1>9, <1>10, <1>11,
       <1>12, <1>13, <1>14, <1>15, <1>16, <1>17, <1>18, <1>19, <1>20, <1>21,
       <1>22, <1>23 DEF RequestStep

(* Every step keeps the request paths and the registry entries. *)
LEMMA ControlNext ==
  TypeOK /\ TableExclusion /\ ControlInv /\ [Next]_vars => ControlInv'
  <1> SUFFICES ASSUME TypeOK, TableExclusion, ControlInv, [Next]_vars
               PROVE  ControlInv'
    OBVIOUS
  <1>1. ASSUME NEW w \in Workers, Begin(w) \/ RequestStep(w),
               KindAt(w)' /\ PointerAt(w)',
               loaded'[Table(w)] => Table(w) \in present'
        PROVE  ControlInv'
    <2>1. ASSUME NEW v \in Workers PROVE KindAt(v)' /\ PointerAt(v)'
      <3>1. CASE v # w /\ pc[v] \in Critical
        BY <1>1, <3>1, Undisturbed
           DEF SameWorker, SameTable, ControlInv, KindAt, PointerAt
      <3>2. CASE v # w /\ pc[v] \notin Critical
        BY <1>1, <3>2, Frame DEF SameWorker, KindAt, PointerAt, Critical
      <3> QED BY <1>1, <3>1, <3>2
    <2>2. ASSUME NEW s \in Names PROVE loaded'[s] => s \in present'
      BY <1>1, Frame DEF SameTable, ControlInv, EntryInv
    <2> QED BY <2>1, <2>2 DEF ControlInv, EntryInv
  <1>2. ASSUME NEW w \in Workers, Begin(w) PROVE ControlInv'
    <2>1. KindAt(w)' /\ PointerAt(w)'
      BY <1>2 DEF Begin, KindAt, PointerAt, Goto, TypeOK
    <2>2. loaded'[Table(w)] => Table(w) \in present'
      BY <1>2, TableType DEF Begin, registryVars, indexVars, ControlInv, EntryInv
    <2> QED BY <1>1, <1>2, <2>1, <2>2
  <1>3. ASSUME NEW w \in Workers, RequestStep(w) PROVE ControlInv'
    BY <1>1, <1>3, ControlStep
  <1>4. CASE Restart
    BY <1>4 DEF Restart, ControlInv, EntryInv, KindAt, PointerAt
  <1>5. CASE UNCHANGED vars
    BY <1>5 DEF vars, ControlInv, EntryInv, KindAt, PointerAt, Table
  <1> QED BY <1>2, <1>3, <1>4, <1>5 DEF Next, Waiting

-----------------------------------------------------------------------------
(* The index is dense, whatever fails. *)

(* One step of a request keeps the ids of its table's index without gaps    *)
(* and the worker's locals in agreement with them.                         *)
LEMMA DenseStep ==
  ASSUME TypeOK, ControlInv, DenseInv, NEW w \in Workers, RequestStep(w),
         NEW s, s = Table(w)
  PROVE  DenseAt(s)' /\ LocalAt(w)'
  <1>0. req' = req /\ Table(w)' = s /\ s \in Names
    BY LockSteps, TableType DEF Table
  <1>00. DenseAt(s) /\ LocalAt(w)
    BY <1>0 DEF DenseInv
  <1>000. /\ file[s] \in Seq(Lines) /\ Len(file[s]) \in Nat
          /\ nextId[s] \in Nat /\ tree[s] \subseteq Nat \X Nat
          /\ id[w] \in Nat /\ offset[w] \in Nat
    BY <1>0 DEF TypeOK
  <1>id. ASSUME UNCHANGED <<file, indexVars>>, LocalAt(w)'
         PROVE  DenseAt(s)' /\ LocalAt(w)'
    BY <1>id, <1>00 DEF DenseAt, indexVars
  <1> USE DEF fileVars, indexVars, localVars, Goto, FinishWith, Registering
  <1>1. CASE Parse(w)
    <2>1. UNCHANGED <<file, indexVars>>
      BY <1>1 DEF Parse
    <2>2. LocalAt(w)'
      BY <1>1, <1>0, <1>00 DEF Parse, LocalAt, TypeOK, EnsureFails
    <2> QED BY <1>id, <2>1, <2>2
  <1>2. CASE Refused(w)
    <2>1. UNCHANGED <<file, indexVars>>
      BY <1>2 DEF Refused
    <2>2. LocalAt(w)'
      BY <1>2, <1>0, <1>00 DEF Refused, LocalAt, TypeOK, EnsureFails
    <2> QED BY <1>id, <2>1, <2>2
  <1>3. CASE LockLookup(w)
    <2>1. UNCHANGED <<file, indexVars>>
      BY <1>3 DEF LockLookup
    <2>2. LocalAt(w)'
      BY <1>3, <1>0, <1>00 DEF LockLookup, LocalAt, TypeOK, EnsureFails
    <2> QED BY <1>id, <2>1, <2>2
  <1>4. CASE LockTable(w)
    <2>1. UNCHANGED <<file, indexVars>>
      BY <1>4 DEF LockTable
    <2>2. LocalAt(w)'
      BY <1>4, <1>0, <1>00 DEF LockTable, LocalAt, TypeOK, EnsureFails
    <2> QED BY <1>id, <2>1, <2>2
  <1>5. CASE ExecuteRefused(w)
    <2>1. UNCHANGED <<file, indexVars>>
      BY <1>5 DEF ExecuteRefused
    <2>2. LocalAt(w)'
      BY <1>5, <1>0, <1>00 DEF ExecuteRefused, LocalAt, TypeOK, EnsureFails
    <2> QED BY <1>id, <2>1, <2>2
  <1>6. CASE ExecuteStatement(w)
    <2>1. UNCHANGED <<file, indexVars>>
      BY <1>6 DEF ExecuteStatement
    <2>2. LocalAt(w)'
      BY <1>6, <1>0, <1>00 DEF ExecuteStatement, LocalAt, TypeOK, EnsureFails
    <2> QED BY <1>id, <2>1, <2>2
  <1>7. CASE Release(w)
    <2>1. UNCHANGED <<file, indexVars>>
      BY <1>7 DEF Release
    <2>2. LocalAt(w)'
      BY <1>7, <1>0, <1>00 DEF Release, LocalAt, TypeOK, EnsureFails
    <2> QED BY <1>id, <2>1, <2>2
  <1>8. CASE GetEntry(w)
    <2>1. CASE s \in present
      <3>1. UNCHANGED <<file, indexVars>>
        BY <1>8, <2>1 DEF GetEntry
      <3>2. LocalAt(w)'
        BY <1>8, <1>0, <1>00, <3>1 DEF GetEntry, LocalAt, TypeOK
      <3> QED BY <1>id, <3>1, <3>2
    <2>2. CASE s \notin present
      <3>1. ~loaded[s]
        BY <1>0, <2>2 DEF ControlInv, EntryInv
      <3>2. ~loaded'[s] /\ ~Registering(w)
        BY <1>8, <1>0, <1>00, <2>2, <3>1 DEF GetEntry, TypeOK, LocalAt
      <3> QED BY <1>8, <1>0, <3>2 DEF GetEntry, DenseAt, LocalAt, TypeOK
    <2> QED BY <2>1, <2>2
  <1>9. CASE GetEntryFails(w)
    <2>1. UNCHANGED <<file, indexVars>>
      BY <1>9 DEF GetEntryFails
    <2>2. LocalAt(w)'
      BY <1>9, <1>0, <1>00 DEF GetEntryFails, LocalAt, TypeOK, EnsureFails
    <2> QED BY <1>id, <2>1, <2>2
  <1>10. CASE Load(w)
    <2>1. CASE loaded[s] /\ Goto(w, "use") /\ UNCHANGED indexVars
      <3>1. UNCHANGED file /\ LocalAt(w)'
        BY <1>10, <1>0, <1>00, <2>1 DEF Load, LocalAt, TypeOK
      <3> QED BY <1>id, <2>1, <3>1
    <2>2. CASE ~loaded[s] /\ SetIndex(s, TRUE, RowIndex(s), IdAfterLastRow(s))
                          /\ Goto(w, "use")
      <3>1. /\ loaded'[s] /\ tree'[s] = RowIndex(s)
            /\ nextId'[s] = Len(file[s]) + 1 /\ file' = file
        BY <1>10, <1>0, <2>2 DEF Load, SetIndex, IdAfterLastRow, TypeOK
      <3>2. DenseAt(s)'
        <4>1. /\ \A e \in RowIndex(s) : e[1] \in 1 .. Len(file[s]) /\ e[2] = e[1]
              /\ \A n \in 1 .. Len(file[s]) : <<n, n>> \in RowIndex(s)
          BY DEF RowIndex
        <4>2. \A n \in 1 .. Len(file[s]) : \E e \in RowIndex(s) : e[1] = n
          BY <4>1
        <4> QED BY <1>000, <3>1, <4>1, <4>2 DEF DenseAt
      <3>3. LocalAt(w)'
        BY <1>10, <1>0, <1>00, <2>2, <3>1 DEF Load, LocalAt, TypeOK
      <3> QED BY <3>2, <3>3
    <2>3. CASE ~loaded[s] /\ SetIndex(s, FALSE, {}, 1) /\ EnsureFails(w)
      <3>1. ~loaded'[s]
        BY <1>0, <2>3 DEF SetIndex, TypeOK
      <3>2. pc'[w] \in {"release", "invalidate"}
        BY <2>3 DEF EnsureFails, TypeOK
      <3> QED BY <3>1, <3>2 DEF DenseAt, LocalAt
    <2> QED BY <1>10, <2>1, <2>2, <2>3 DEF Load
  <1>11. CASE NextId(w)
    <2>1. UNCHANGED <<file, indexVars>>
      BY <1>11 DEF NextId
    <2>2. LocalAt(w)'
      BY <1>11, <1>0, <1>00 DEF NextId, LocalAt, TypeOK, EnsureFails
    <2> QED BY <1>id, <2>1, <2>2
  <1>12. CASE RegisterRow(w)
    <2>1. /\ loaded[s] /\ id[w] = nextId[s]
          /\ \A e \in tree[s] : e[2] <= offset[w]
          /\ offset[w] <= Len(file[s]) + 1
      BY <1>12, <1>0, <1>00 DEF RegisterRow, LocalAt
    <2>2. /\ loaded'[s] /\ file' = file
          /\ tree'[s] = tree[s] \cup {<<id[w], offset[w]>>}
          /\ nextId'[s] = nextId[s] + 1
      BY <1>12, <1>0, <1>000, <2>1
         DEF RegisterRow, SetIndex, NextIdAfter, TypeOK
    <2>3. DenseAt(s)'
      <3>1. /\ nextId[s] >= 1
            /\ \A e \in tree[s] : e[1] \in 1 .. nextId[s] - 1
            /\ \A n \in 1 .. nextId[s] - 1 : \E e \in tree[s] : e[1] = n
            /\ \A e, f \in tree[s] : e[1] <= f[1] => e[2] <= f[2]
            /\ \A e \in tree[s] : e[2] <= Len(file[s]) + 1
        BY <1>00, <2>1 DEF DenseAt
      <3>2. \A e \in tree'[s] : e[1] \in 1 .. nextId[s]
        BY <1>000, <2>1, <2>2, <3>1
      <3>3. ASSUME NEW n \in 1 .. nextId[s] PROVE \E e \in tree'[s] : e[1] = n
        <4>1. CASE n = nextId[s]
          <5>1. <<id[w], offset[w]>> \in tree'[s] /\ <<id[w], offset[w]>>[1] = n
            BY <2>1, <2>2, <4>1
          <5> QED BY <5>1
        <4>2. CASE n # nextId[s]
          <5>1. n \in 1 .. nextId[s] - 1
            BY <1>000, <4>2
          <5> QED BY <2>2, <3>1, <5>1
        <4> QED BY <4>1, <4>2
      <3>4. \A e, f \in tree'[s] : e[1] <= f[1] => e[2] <= f[2]
        BY <1>000, <2>1, <2>2, <3>1
      <3>5. \A e \in tree'[s] : e[2] <= Len(file[s]) + 1
        BY <1>000, <2>1, <2>2, <3>1
      <3> QED BY <1>000, <2>2, <3>1, <3>2, <3>3, <3>4, <3>5 DEF DenseAt
    <2>4. LocalAt(w)'
      BY <1>12 DEF RegisterRow, LocalAt, TypeOK
    <2> QED BY <2>3, <2>4
  <1>13. CASE RegisterRowFails(w)
    <2>1. UNCHANGED <<file, indexVars>>
      BY <1>13 DEF RegisterRowFails
    <2>2. LocalAt(w)'
      BY <1>13, <1>0, <1>00 DEF RegisterRowFails, LocalAt, TypeOK, EnsureFails
    <2> QED BY <1>id, <2>1, <2>2
  <1>14. CASE FindRow(w)
    <2>1. UNCHANGED <<file, indexVars>>
      BY <1>14 DEF FindRow
    <2>2. LocalAt(w)'
      BY <1>14, <1>0, <1>00 DEF FindRow, LocalAt, TypeOK, EnsureFails
    <2> QED BY <1>id, <2>1, <2>2
  <1>15. CASE UseStaleEntry(w)
    <2>1. UNCHANGED <<file, indexVars>>
      BY <1>15 DEF UseStaleEntry
    <2>2. LocalAt(w)'
      BY <1>15, <1>0, <1>00 DEF UseStaleEntry, LocalAt, TypeOK, EnsureFails
    <2> QED BY <1>id, <2>1, <2>2
  <1>16. CASE Invalidate(w)
    <2>1. ~loaded'[s]
      BY <1>16, <1>0 DEF Invalidate, SetIndex, ControlInv, EntryInv, TypeOK
    <2>2. LocalAt(w)'
      BY <1>16 DEF Invalidate, LocalAt, TypeOK
    <2> QED BY <2>1, <2>2 DEF DenseAt
  <1>17. CASE AppendRefused(w)
    <2>1. UNCHANGED <<file, indexVars>>
      BY <1>17 DEF AppendRefused
    <2>2. LocalAt(w)'
      BY <1>17, <1>0, <1>00 DEF AppendRefused, LocalAt, TypeOK, EnsureFails
    <2> QED BY <1>id, <2>1, <2>2
  <1>18. CASE AppendRow(w)
    <2>1. PICK new \in Seq(Lines) : file' = [file EXCEPT ![s] = @ \o new]
      BY <1>18, NewLines DEF AppendRow
    <2>2. Len(file'[s]) \in Nat /\ Len(file'[s]) >= Len(file[s])
      BY <1>0, <1>000, <2>1 DEF TypeOK
    <2>3. DenseAt(s)'
      BY <1>18, <1>00, <1>000, <2>2 DEF AppendRow, DenseAt
    <2>4. LocalAt(w)'
      <3>1. /\ pc'[w] = "register" /\ offset'[w] = Len(file[s]) + 1
            /\ id'[w] = id[w] /\ task'[w] = task[w]
            /\ UNCHANGED indexVars
        BY <1>18 DEF AppendRow, TypeOK
      <3>2. loaded[s] /\ id[w] = nextId[s]
        BY <1>18, <1>00 DEF AppendRow, LocalAt
      <3>3. \A e \in tree[s] : e[2] <= Len(file[s]) + 1
        BY <1>00, <3>2 DEF DenseAt
      <3> QED BY <1>0, <1>000, <2>2, <3>1, <3>2, <3>3 DEF LocalAt
    <2> QED BY <2>3, <2>4
  <1>19. CASE AppendFails(w)
    <2>1. PICK new \in Seq(Lines) : file' = [file EXCEPT ![s] = @ \o new]
      BY <1>19, NewLines DEF AppendFails
    <2>2. Len(file'[s]) \in Nat /\ Len(file'[s]) >= Len(file[s])
      BY <1>0, <1>000, <2>1 DEF TypeOK
    <2>3. DenseAt(s)'
      BY <1>19, <1>00, <1>000, <2>2 DEF AppendFails, DenseAt
    <2>4. LocalAt(w)'
      BY <1>19 DEF AppendFails, LocalAt, TypeOK
    <2> QED BY <2>3, <2>4
  <1>20. CASE Register(w)
    <2>1. UNCHANGED <<file, indexVars>>
      BY <1>20 DEF Register
    <2>2. LocalAt(w)'
      BY <1>20, <1>0, <1>00 DEF Register, LocalAt, TypeOK, EnsureFails
    <2> QED BY <1>id, <2>1, <2>2
  <1>21. CASE ReadRow(w)
    <2>1. UNCHANGED <<file, indexVars>>
      BY <1>21 DEF ReadRow
    <2>2. LocalAt(w)'
      BY <1>21, <1>0, <1>00 DEF ReadRow, LocalAt, TypeOK, EnsureFails
    <2> QED BY <1>id, <2>1, <2>2
  <1>22. CASE ScanRows(w)
    <2>1. UNCHANGED <<file, indexVars>>
      BY <1>22 DEF ScanRows
    <2>2. LocalAt(w)'
      BY <1>22, <1>0, <1>00 DEF ScanRows, LocalAt, TypeOK, EnsureFails
    <2> QED BY <1>id, <2>1, <2>2
  <1>23. CASE SelectFails(w)
    <2>1. UNCHANGED <<file, indexVars>>
      BY <1>23 DEF SelectFails
    <2>2. LocalAt(w)'
      BY <1>23, <1>0, <1>00 DEF SelectFails, LocalAt, TypeOK, EnsureFails
    <2> QED BY <1>id, <2>1, <2>2
  <1> QED
    BY <1>1, <1>2, <1>3, <1>4, <1>5, <1>6, <1>7, <1>8, <1>9, <1>10, <1>11,
       <1>12, <1>13, <1>14, <1>15, <1>16, <1>17, <1>18, <1>19, <1>20, <1>21,
       <1>22, <1>23 DEF RequestStep

(* Every step keeps every index dense: a worker holds the lock of the table *)
(* whose index its locals describe.                                        *)
LEMMA DenseNext ==
  TypeOK /\ TableExclusion /\ ControlInv /\ DenseInv /\ [Next]_vars => DenseInv'
  <1> SUFFICES ASSUME TypeOK, TableExclusion, ControlInv, DenseInv, [Next]_vars
               PROVE  DenseInv'
    OBVIOUS
  <1>1. ASSUME NEW w \in Workers, Begin(w) \/ RequestStep(w), LocalAt(w)',
               NEW t \in Names, t = Table(w), DenseAt(t)'
        PROVE  DenseInv'
    <2>1. ASSUME NEW v \in Workers PROVE LocalAt(v)'
      <3>1. CASE v # w /\ pc[v] \in Critical
        <4>1. /\ SameWorker(v) /\ SameTable(Table(v)) /\ Table(v)' = Table(v)
              /\ LocalAt(v)
          BY <1>1, <3>1, Undisturbed DEF DenseInv
        <4> QED BY <4>1 DEF SameWorker, SameTable, LocalAt, Registering
      <3>2. CASE v # w /\ pc[v] \notin Critical
        BY <1>1, <3>2, Frame DEF SameWorker, LocalAt, Registering, Critical
      <3> QED BY <1>1, <3>1, <3>2
    <2>2. ASSUME NEW s \in Names PROVE DenseAt(s)'
      <3>1. CASE s # t
        <4>1. SameTable(s) /\ DenseAt(s)
          BY <1>1, <3>1, Frame DEF DenseInv
        <4> QED BY <4>1 DEF SameTable, DenseAt
      <3> QED BY <1>1, <3>1
    <2> QED BY <2>1, <2>2 DEF DenseInv
  <1>2. ASSUME NEW w \in Workers, Begin(w) PROVE DenseInv'
    <2>1. LocalAt(w)'
      BY <1>2 DEF Begin, LocalAt, Registering, Goto, TypeOK
    <2>2. Table(w) \in Names /\ DenseAt(Table(w))
      BY TableType DEF DenseInv
    <2>3. PICK t : t = Table(w)
      OBVIOUS
    <2>4. DenseAt(t)'
      BY <1>2, <2>2, <2>3 DEF Begin, DenseAt, fileVars, indexVars
    <2> QED BY <1>1, <1>2, <2>1, <2>2, <2>3, <2>4
  <1>3. ASSUME NEW w \in Workers, RequestStep(w) PROVE DenseInv'
    <2>1. PICK t : t = Table(w)
      OBVIOUS
    <2> QED BY <1>1, <1>3, <2>1, DenseStep, TableType
  <1>4. CASE Restart
    BY <1>4 DEF Restart, DenseInv, DenseAt, LocalAt, Registering
  <1>5. CASE UNCHANGED vars
    BY <1>5 DEF vars, DenseInv, DenseAt, LocalAt, Registering, Table
  <1> QED BY <1>2, <1>3, <1>4, <1>5 DEF Next, Waiting

(* What holds of every reachable state, whatever fails. *)
EngineInv == TypeOK /\ TableExclusion /\ ControlInv /\ DenseInv

(* The engine invariant holds in every reachable state. *)
LEMMA EngineInvariant == Spec => []EngineInv
  <1>1. Init => EngineInv
    <2> SUFFICES ASSUME Init PROVE EngineInv
      OBVIOUS
    <2>1. TypeOK
      BY TypeInit
    <2>2. TableExclusion
      BY EngineAssumption DEF Init, TableExclusion, Critical
    <2>3. ControlInv
      BY DEF Init, ControlInv, EntryInv, KindAt, PointerAt
    <2>4. DenseInv
      BY DEF Init, DenseInv, DenseAt, LocalAt, Registering
    <2> QED BY <2>1, <2>2, <2>3, <2>4 DEF EngineInv
  <1>2. EngineInv /\ [Next]_vars => EngineInv'
    BY TypeNext, ExclusionNext, ControlNext, DenseNext DEF EngineInv
  <1> QED BY <1>1, <1>2, PTL DEF Spec

(* bptree_insert is never given an id the tree has, and no id is skipped:   *)
(* a loaded index has the ids 1 to next_id - 1 at offsets in file order,   *)
(* even after failed, lost, cut and split appends.                         *)
THEOREM IndexStaysDense == Spec => []IndexDense
  <1>1. EngineInv => IndexDense
    <2> SUFFICES ASSUME TypeOK, DenseInv, NEW s \in Names, loaded[s]
                 PROVE  /\ {e[1] : e \in tree[s]} = 1 .. nextId[s] - 1
                        /\ \A e, f \in tree[s] : e[1] <= f[1] => e[2] <= f[2]
      BY DEF EngineInv, IndexDense
    <2> QED BY DEF DenseInv, DenseAt, TypeOK
  <1> QED BY <1>1, EngineInvariant, PTL
=============================================================================
