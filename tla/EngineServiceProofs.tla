------------------------ MODULE EngineServiceProofs ------------------------
(***************************************************************************)
(* What Engine's requests do to the files: index and file agree, an         *)
(* acknowledged row stays where its id says, and the engine implements     *)
(* TableService.  These hold as long as no append loses, cuts or splits a  *)
(* row (NoWriteFaults), for every number of workers, tables and requests,  *)
(* with failed registrations, exhausted memory and restarts.  Also: when   *)
(* the pointers into the index registry cannot dangle.                     *)
(***************************************************************************)
EXTENDS EngineProofs

\* No append loses, cuts or splits a row that is reported as written.
NoWriteFaults == Faults \cap {"write", "flush", "long"} = {}

\* The line an INSERT appends.
RowOf(w) == [row |-> req[w].arg, form |-> "whole"]

\* The index of s is the one a rebuild would make.
Matches(s) == tree[s] = RowIndex(s) /\ nextId[s] = Len(file[s]) + 1

\* What is in the file and in the index while a row is registered, after it has
\* been, and while a row is looked up.
StoredAt(w) ==
  /\ Registering(w) =>
       /\ loaded[Table(w)]
       /\ nextId[Table(w)] = Len(file[Table(w)])
       /\ id[w] = Len(file[Table(w)]) /\ offset[w] = id[w] /\ id[w] >= 1
       /\ tree[Table(w)] = {<<n, n>> : n \in 1 .. Len(file[Table(w)]) - 1}
       /\ file[Table(w)][id[w]] = RowOf(w)
  /\ pc[w] = "release" /\ req[w].kind = "insert" /\ res[w].status = "ok" =>
       /\ id[w] \in 1 .. Len(file[Table(w)])
       /\ file[Table(w)][id[w]] = RowOf(w)
  /\ pc[w] = "read" =>
       offset[w] = req[w].arg /\ req[w].arg \in 1 .. Len(file[Table(w)])

StoredInv ==
  /\ IndexMatchesFile
  /\ AckedIdIsRowPosition
  /\ \A w \in Workers : StoredAt(w)

-----------------------------------------------------------------------------
(* Files only grow. *)

\* The lines of s stay where they are.
KeepsLines(s) ==
  /\ Len(file'[s]) \in Nat /\ Len(file[s]) <= Len(file'[s])
  /\ \A n \in 1 .. Len(file[s]) : file'[s][n] = file[s][n]

(* Without write faults append_row_csv adds exactly the row it is given. *)
LEMMA AppendAddsRow ==
  ASSUME NoWriteFaults, TypeOK, NEW w \in Workers, AppendRow(w)
  PROVE  /\ file' = [file EXCEPT ![Table(w)] = Append(@, RowOf(w))]
         /\ Len(file'[Table(w)]) = Len(file[Table(w)]) + 1
         /\ file'[Table(w)][Len(file[Table(w)]) + 1] = RowOf(w)
         /\ KeepsLines(Table(w))
  <1>1. Table(w) \in Names /\ file[Table(w)] \in Seq(Lines) /\ RowOf(w) \in Lines
    BY TableType DEF TypeOK, RowOf, Lines, Forms, Requests
  <1>2. file' = [file EXCEPT ![Table(w)] = @ \o <<RowOf(w)>>]
    BY DEF AppendRow, RowOf, NoWriteFaults
  <1>3. file'[Table(w)] = file[Table(w)] \o <<RowOf(w)>>
    BY <1>1, <1>2 DEF TypeOK
  <1>4. file[Table(w)] \o <<RowOf(w)>> = Append(file[Table(w)], RowOf(w))
    BY <1>1
  <1>5. /\ Len(file'[Table(w)]) = Len(file[Table(w)]) + 1
        /\ file'[Table(w)][Len(file[Table(w)]) + 1] = RowOf(w)
        /\ KeepsLines(Table(w))
    BY <1>1, <1>3, <1>4 DEF KeepsLines
  <1> QED BY <1>1, <1>2, <1>4, <1>5

(* No step of a request changes or removes a line. *)
LEMMA StepKeepsLines ==
  ASSUME NoWriteFaults, TypeOK, NEW w \in Workers, Begin(w) \/ RequestStep(w),
         NEW s \in Names
  PROVE  KeepsLines(s)
  <1>1. file[s] \in Seq(Lines) /\ Len(file[s]) \in Nat
    BY DEF TypeOK
  <1>2. CASE AppendRow(w)
    <2>1. CASE s = Table(w)
      BY <1>2, <2>1, AppendAddsRow
    <2>2. CASE s # Table(w)
      BY <1>1, <1>2, <2>2 DEF AppendRow, KeepsLines, TypeOK
    <2> QED BY <2>1, <2>2
  <1>3. CASE UNCHANGED file
    BY <1>1, <1>3 DEF KeepsLines
  <1>4. AppendRow(w) \/ UNCHANGED file
    BY DEF RequestStep, fileVars, NoWriteFaults, Begin, Parse, Refused,
           LockLookup, LockTable, ExecuteRefused, ExecuteStatement, Release,
           GetEntry, GetEntryFails, Load, NextId, RegisterRow,
           RegisterRowFails, FindRow, UseStaleEntry, Invalidate,
           AppendRefused, AppendFails, Register, ReadRow, ScanRows,
           SelectFails
  <1> QED BY <1>2, <1>3, <1>4

(* Nor does a restart: the end of the process may add a line of an append   *)
(* that was under way, and takes none away.                                *)
LEMMA RestartKeepsLines ==
  ASSUME TypeOK, Restart, NEW s \in Names
  PROVE  KeepsLines(s)
  <1>1. file[s] \in Seq(Lines) /\ Len(file[s]) \in Nat
    BY DEF TypeOK
  <1>2. file'[s] \in Interrupted(s)
    BY DEF Restart
  <1>3. CASE file'[s] = file[s]
    BY <1>1, <1>3 DEF KeepsLines
  <1>4. CASE file'[s] # file[s]
    <2>1. PICK w \in Workers, f \in Forms :
            file'[s] = Append(file[s], [row |-> req[w].arg, form |-> f])
      BY <1>2, <1>4, InterruptedCases
    <2>2. [row |-> req[w].arg, form |-> f] \in Lines
      BY DEF TypeOK, Requests, Lines
    <2> QED BY <1>1, <2>1, <2>2 DEF KeepsLines
  <1> QED BY <1>3, <1>4

-----------------------------------------------------------------------------
(* Index, file and acknowledged rows. *)

(* The index of a table whose request is not between append and             *)
(* registration is the one a rebuild would make.                           *)
LEMMA MatchesWhenHeld ==
  ASSUME TypeOK, TableExclusion, IndexMatchesFile, NEW w \in Workers,
         pc[w] \in Critical, ~InsertUnderWay(w), loaded[Table(w)]
  PROVE  Matches(Table(w))
  <1>1. \A v \in Workers : Table(v) = Table(w) => ~InsertUnderWay(v)
    BY DEF TableExclusion, InsertUnderWay, Critical
  <1> QED BY <1>1, TableType DEF IndexMatchesFile, Matches, RowIndex

\* An index that is loaded and not being written is right, as far as w goes.
MatchesAt(w, s) == loaded[s] /\ ~InsertUnderWay(w) => Matches(s)

(* One step of the request that holds a table's lock leaves the table's     *)
(* index right, the row it registers where its id says, and the row it     *)
(* looks up under the offset it found.                                     *)
LEMMA StoredStep ==
  ASSUME NoWriteFaults, EngineInv, StoredInv, NEW w \in Workers,
         RequestStep(w), NEW s, s = Table(w)
  PROVE  /\ pc[w] \in Critical => MatchesAt(w, s)'
         /\ StoredAt(w)'
  <1>a. TypeOK /\ TableExclusion /\ ControlInv /\ DenseInv
    BY DEF EngineInv
  <1>b. req' = req /\ Table(w)' = s /\ s \in Names
    BY <1>a, LockSteps, TableType DEF Table
  <1>c. /\ KindAt(w) /\ LocalAt(w) /\ StoredAt(w)
        /\ loaded[s] => s \in present
        /\ req[w].kind \in {"insert", "find", "scan"}
    BY <1>a, <1>b
       DEF ControlInv, EntryInv, DenseInv, StoredInv, TypeOK, Requests
  <1>d. /\ file[s] \in Seq(Lines) /\ Len(file[s]) \in Nat
        /\ nextId[s] \in Nat /\ tree[s] \subseteq Nat \X Nat
        /\ id[w] \in Nat /\ offset[w] \in Nat
        /\ pc \in [Workers -> States] /\ res \in [Workers -> Results]
        /\ task \in [Workers -> {"next", "register", "find"}]
        /\ id \in [Workers -> Nat] /\ offset \in [Workers -> Nat]
        /\ loaded \in [Names -> BOOLEAN] /\ nextId \in [Names -> Nat]
        /\ tree \in [Names -> SUBSET (Nat \X Nat)]
    BY <1>a, <1>b DEF TypeOK
  <1>e. pc[w] \in Critical => MatchesAt(w, s)
    BY <1>a, MatchesWhenHeld DEF StoredInv, MatchesAt
  <1>f. RowOf(w)' = RowOf(w)
    BY <1>b DEF RowOf
  <1>g. ASSUME UNCHANGED <<file, indexVars>>,
               pc[w] \in Critical /\ InsertUnderWay(w) => InsertUnderWay(w)'
        PROVE  pc[w] \in Critical => MatchesAt(w, s)'
    BY <1>e, <1>g DEF MatchesAt, Matches, RowIndex, indexVars
  <1> USE DEF fileVars, indexVars, localVars, Goto, FinishWith, Registering,
              InsertUnderWay
  <1>1. CASE Parse(w)
    <2>1. UNCHANGED <<file, indexVars>>
      BY <1>1 DEF Parse
    <2>2. pc[w] \in Critical /\ InsertUnderWay(w) => InsertUnderWay(w)'
      BY <1>1, <1>d DEF Parse
    <2>3. StoredAt(w)'
      BY <1>1, <1>b, <1>c, <1>d, <1>f, <2>1 DEF Parse, StoredAt, Failed
    <2> QED BY <1>g, <2>1, <2>2, <2>3
  <1>2. CASE Refused(w)
    <2>1. UNCHANGED <<file, indexVars>>
      BY <1>2 DEF Refused
    <2>2. pc[w] \in Critical /\ InsertUnderWay(w) => InsertUnderWay(w)'
      BY <1>2, <1>d DEF Refused
    <2>3. StoredAt(w)'
      BY <1>2, <1>b, <1>c, <1>d, <1>f, <2>1 DEF Refused, StoredAt
    <2> QED BY <1>g, <2>1, <2>2, <2>3
  <1>3. CASE LockLookup(w)
    <2>1. UNCHANGED <<file, indexVars>>
      BY <1>3 DEF LockLookup
    <2>2. pc[w] \in Critical /\ InsertUnderWay(w) => InsertUnderWay(w)'
      BY <1>3, <1>d DEF LockLookup
    <2>3. StoredAt(w)'
      BY <1>3, <1>b, <1>c, <1>d, <1>f, <2>1 DEF LockLookup, StoredAt, Failed
    <2> QED BY <1>g, <2>1, <2>2, <2>3
  <1>4. CASE LockTable(w)
    <2>1. UNCHANGED <<file, indexVars>>
      BY <1>4 DEF LockTable
    <2>2. pc[w] \in Critical /\ InsertUnderWay(w) => InsertUnderWay(w)'
      BY <1>4, <1>d DEF LockTable
    <2>3. StoredAt(w)'
      BY <1>4, <1>b, <1>c, <1>d, <1>f, <2>1 DEF LockTable, StoredAt
    <2> QED BY <1>g, <2>1, <2>2, <2>3
  <1>5. CASE ExecuteRefused(w)
    <2>1. UNCHANGED <<file, indexVars>>
      BY <1>5 DEF ExecuteRefused
    <2>2. pc[w] \in Critical /\ InsertUnderWay(w) => InsertUnderWay(w)'
      BY <1>5, <1>d DEF ExecuteRefused
    <2>3. StoredAt(w)'
      BY <1>5, <1>b, <1>c, <1>d, <1>f, <2>1 DEF ExecuteRefused, StoredAt, Failed
    <2> QED BY <1>g, <2>1, <2>2, <2>3
  <1>6. CASE ExecuteStatement(w)
    <2>1. UNCHANGED <<file, indexVars>>
      BY <1>6 DEF ExecuteStatement
    <2>2. pc[w] \in Critical /\ InsertUnderWay(w) => InsertUnderWay(w)'
      BY <1>6, <1>d DEF ExecuteStatement
    <2>3. StoredAt(w)'
      BY <1>6, <1>b, <1>c, <1>d, <1>f, <2>1 DEF ExecuteStatement, StoredAt
    <2> QED BY <1>g, <2>1, <2>2, <2>3
  <1>7. CASE Release(w)
    <2>1. UNCHANGED <<file, indexVars>>
      BY <1>7 DEF Release
    <2>2. pc[w] \in Critical /\ InsertUnderWay(w) => InsertUnderWay(w)'
      BY <1>7, <1>d DEF Release
    <2>3. StoredAt(w)'
      BY <1>7, <1>b, <1>c, <1>d, <1>f, <2>1 DEF Release, StoredAt
    <2> QED BY <1>g, <2>1, <2>2, <2>3
  <1>8. CASE GetEntry(w)
    <2>1. CASE s \in present
      <3>1. UNCHANGED <<file, indexVars>>
        BY <1>8, <2>1 DEF GetEntry
      <3>2. InsertUnderWay(w) => InsertUnderWay(w)'
        BY <1>8, <1>d DEF GetEntry
      <3>3. StoredAt(w)'
        BY <1>8, <1>b, <1>c, <1>d, <1>f, <3>1 DEF GetEntry, StoredAt
      <3> QED BY <1>g, <3>1, <3>2, <3>3
    <2>2. CASE s \notin present
      <3>1. ~loaded'[s] /\ ~Registering(w)
        BY <1>8, <1>b, <1>c, <1>d, <2>2 DEF GetEntry, StoredAt
      <3> QED BY <1>8, <1>d, <3>1 DEF GetEntry, StoredAt, MatchesAt
    <2> QED BY <2>1, <2>2
  <1>9. CASE GetEntryFails(w)
    <2>1. ~loaded[s] /\ UNCHANGED <<file, indexVars>>
      BY <1>9, <1>c DEF GetEntryFails
    <2>2. task[w] # "register"
      BY <1>9, <1>c, <2>1 DEF GetEntryFails, StoredAt
    <2>3. pc'[w] = "release" /\ res'[w].status = "error"
      BY <1>9, <1>d, <2>2 DEF GetEntryFails, EnsureFails, Failed
    <2> QED BY <2>1, <2>3 DEF StoredAt, MatchesAt
  <1>10. CASE Load(w)
    <2>1. CASE loaded[s] /\ Goto(w, "use") /\ UNCHANGED indexVars
      <3>1. UNCHANGED file /\ (InsertUnderWay(w) => InsertUnderWay(w)')
        BY <1>10, <1>d, <2>1 DEF Load
      <3>2. StoredAt(w)'
        BY <1>10, <1>b, <1>c, <1>d, <1>f, <2>1, <3>1 DEF Load, StoredAt
      <3> QED BY <1>g, <2>1, <3>1, <3>2
    <2>2. CASE ~loaded[s] /\ SetIndex(s, TRUE, RowIndex(s), IdAfterLastRow(s))
                          /\ Goto(w, "use")
      <3>1. Matches(s)'
        BY <1>10, <1>b, <1>d, <2>2
           DEF Load, SetIndex, IdAfterLastRow, Matches, RowIndex
      <3>2. ~Registering(w)
        BY <1>c, <2>2 DEF StoredAt
      <3> QED BY <1>10, <1>d, <2>2, <3>1, <3>2 DEF Load, StoredAt, MatchesAt
    <2>3. CASE ~loaded[s] /\ SetIndex(s, FALSE, {}, 1) /\ EnsureFails(w)
      <3>1. ~loaded'[s]
        BY <1>b, <1>d, <2>3 DEF SetIndex
      <3>2. task[w] # "register"
        BY <1>10, <1>c, <2>3 DEF Load, StoredAt
      <3>3. pc'[w] = "release" /\ res'[w].status = "error"
        BY <1>d, <2>3, <3>2 DEF EnsureFails, Failed
      <3> QED BY <3>1, <3>3 DEF StoredAt, MatchesAt
    <2> QED BY <1>10, <2>1, <2>2, <2>3 DEF Load
  <1>11. CASE NextId(w)
    <2>1. UNCHANGED <<file, indexVars>>
      BY <1>11 DEF NextId
    <2>2. pc[w] \in Critical /\ InsertUnderWay(w) => InsertUnderWay(w)'
      BY <1>11, <1>d DEF NextId
    <2>3. StoredAt(w)'
      BY <1>11, <1>b, <1>c, <1>d, <1>f, <2>1 DEF NextId, StoredAt
    <2> QED BY <1>g, <2>1, <2>2, <2>3
  <1>12. CASE RegisterRow(w)
    <2>1. /\ loaded[s] /\ nextId[s] = Len(file[s]) /\ id[w] = Len(file[s])
          /\ offset[w] = id[w] /\ id[w] >= 1
          /\ tree[s] = {<<n, n>> : n \in 1 .. Len(file[s]) - 1}
          /\ file[s][id[w]] = RowOf(w)
      BY <1>12, <1>c DEF RegisterRow, StoredAt
    <2>2. /\ file' = file /\ pc'[w] = "release" /\ id' = id
          /\ tree'[s] = tree[s] \cup {<<id[w], offset[w]>>}
          /\ nextId'[s] = Len(file[s]) + 1
      BY <1>12, <1>b, <1>d, <2>1 DEF RegisterRow, SetIndex, NextIdAfter
    <2>3. tree'[s] = RowIndex(s)
      <3>1. tree'[s] \subseteq RowIndex(s)
        BY <1>d, <2>1, <2>2 DEF RowIndex
      <3>2. RowIndex(s) \subseteq tree'[s]
        <4> SUFFICES ASSUME NEW n \in 1 .. Len(file[s])
                     PROVE  <<n, n>> \in tree'[s]
          BY DEF RowIndex
        <4>1. CASE n = Len(file[s])
          BY <2>1, <2>2, <4>1
        <4>2. CASE n # Len(file[s])
          <5>1. n \in 1 .. Len(file[s]) - 1
            BY <1>d, <4>2
          <5> QED BY <2>1, <2>2, <5>1
        <4> QED BY <4>1, <4>2
      <3> QED BY <3>1, <3>2
    <2>4. Matches(s)'
      BY <2>2, <2>3 DEF Matches, RowIndex
    <2>5. StoredAt(w)'
      BY <1>b, <1>d, <1>f, <2>1, <2>2 DEF StoredAt
    <2> QED BY <2>4, <2>5 DEF MatchesAt
  <1>13. CASE RegisterRowFails(w)
    <2>1. UNCHANGED <<file, indexVars>>
      BY <1>13 DEF RegisterRowFails
    <2>2. pc[w] \in Critical /\ InsertUnderWay(w) => InsertUnderWay(w)'
      BY <1>13, <1>d DEF RegisterRowFails
    <2>3. StoredAt(w)'
      BY <1>13, <1>b, <1>c, <1>d, <1>f, <2>1 DEF RegisterRowFails, StoredAt
    <2> QED BY <1>g, <2>1, <2>2, <2>3
  <1>14. CASE FindRow(w)
    <2>1. UNCHANGED <<file, indexVars>>
      BY <1>14 DEF FindRow
    <2>2. pc[w] \in Critical /\ ~InsertUnderWay(w) /\ loaded[s]
      BY <1>14, <1>c DEF FindRow, Critical, LocalAt
    <2>3. tree[s] = RowIndex(s)
      BY <1>e, <2>2 DEF MatchesAt, Matches
    <2>4. CASE pc'[w] = "read"
      <3>1. PICK e \in tree[s] : /\ e[1] = req[w].arg
                                 /\ offset' = [offset EXCEPT ![w] = e[2]]
        BY <1>14, <1>d, <2>4 DEF FindRow
      <3>2. e[1] \in 1 .. Len(file[s]) /\ e[2] = e[1]
        BY <2>3, <3>1 DEF RowIndex
      <3>3. StoredAt(w)'
        BY <1>b, <1>d, <2>1, <2>4, <3>1, <3>2 DEF StoredAt
      <3> QED BY <1>g, <2>1, <2>2, <3>3
    <2>5. CASE pc'[w] # "read"
      <3>1. pc'[w] = "release" /\ req[w].kind = "find"
        BY <1>14, <1>c, <1>d, <2>5 DEF FindRow, KindAt
      <3>2. StoredAt(w)'
        BY <1>b, <3>1 DEF StoredAt
      <3> QED BY <1>g, <2>1, <2>2, <3>2
    <2> QED BY <2>4, <2>5
  <1>15. CASE UseStaleEntry(w)
    <2>1. UNCHANGED <<file, indexVars>>
      BY <1>15 DEF UseStaleEntry
    <2>2. pc[w] \in Critical /\ InsertUnderWay(w) => InsertUnderWay(w)'
      BY <1>15, <1>d DEF UseStaleEntry
    <2>3. StoredAt(w)'
      BY <1>15, <1>b, <1>c, <1>d, <1>f, <2>1 DEF UseStaleEntry, StoredAt
    <2> QED BY <1>g, <2>1, <2>2, <2>3
  <1>16. CASE Invalidate(w)
    <2>1. ~loaded'[s]
      BY <1>16, <1>b, <1>c, <1>d DEF Invalidate, SetIndex
    <2>2. pc'[w] = "release" /\ res'[w].status = "error"
      BY <1>16, <1>d DEF Invalidate, Failed
    <2> QED BY <2>1, <2>2 DEF StoredAt, MatchesAt
  <1>17. CASE AppendRefused(w)
    <2>1. UNCHANGED <<file, indexVars>>
      BY <1>17 DEF AppendRefused
    <2>2. pc[w] \in Critical /\ InsertUnderWay(w) => InsertUnderWay(w)'
      BY <1>17, <1>d DEF AppendRefused
    <2>3. StoredAt(w)'
      BY <1>17, <1>b, <1>c, <1>d, <1>f, <2>1 DEF AppendRefused, StoredAt, Failed
    <2> QED BY <1>g, <2>1, <2>2, <2>3
  <1>18. CASE AppendRow(w)
    <2>1. /\ Len(file'[s]) = Len(file[s]) + 1
          /\ file'[s][Len(file[s]) + 1] = RowOf(w)
      BY <1>a, <1>18, AppendAddsRow
    <2>2. /\ pc[w] = "append" /\ pc'[w] = "register"
          /\ offset'[w] = Len(file[s]) + 1 /\ id' = id /\ UNCHANGED indexVars
      BY <1>18, <1>d DEF AppendRow
    <2>3. loaded[s] /\ id[w] = nextId[s] /\ Matches(s)
      BY <1>c, <1>e, <2>2 DEF LocalAt, MatchesAt, Critical
    <2>4. StoredAt(w)'
      BY <1>b, <1>d, <1>f, <2>1, <2>2, <2>3 DEF StoredAt, Matches, RowIndex
    <2>5. InsertUnderWay(w)'
      BY <2>2
    <2> QED BY <2>4, <2>5 DEF MatchesAt
  <1>19. CASE AppendFails(w)
    BY <1>19 DEF AppendFails, NoWriteFaults
  <1>20. CASE Register(w)
    <2>1. UNCHANGED <<file, indexVars>>
      BY <1>20 DEF Register
    <2>2. pc[w] \in Critical /\ InsertUnderWay(w) => InsertUnderWay(w)'
      BY <1>20, <1>d DEF Register
    <2>3. StoredAt(w)'
      BY <1>20, <1>b, <1>c, <1>d, <1>f, <2>1 DEF Register, StoredAt
    <2> QED BY <1>g, <2>1, <2>2, <2>3
  <1>21. CASE ReadRow(w)
    <2>1. UNCHANGED <<file, indexVars>>
      BY <1>21 DEF ReadRow
    <2>2. pc[w] \in Critical /\ InsertUnderWay(w) => InsertUnderWay(w)'
      BY <1>21, <1>d DEF ReadRow
    <2>3. StoredAt(w)'
      BY <1>21, <1>b, <1>c, <1>d, <1>f, <2>1 DEF ReadRow, StoredAt, KindAt
    <2> QED BY <1>g, <2>1, <2>2, <2>3
  <1>22. CASE ScanRows(w)
    <2>1. UNCHANGED <<file, indexVars>>
      BY <1>22 DEF ScanRows
    <2>2. pc[w] \in Critical /\ InsertUnderWay(w) => InsertUnderWay(w)'
      BY <1>22, <1>d DEF ScanRows
    <2>3. StoredAt(w)'
      BY <1>22, <1>b, <1>c, <1>d, <1>f, <2>1 DEF ScanRows, StoredAt, KindAt
    <2> QED BY <1>g, <2>1, <2>2, <2>3
  <1>23. CASE SelectFails(w)
    <2>1. UNCHANGED <<file, indexVars>>
      BY <1>23 DEF SelectFails
    <2>2. pc[w] \in Critical /\ InsertUnderWay(w) => InsertUnderWay(w)'
      BY <1>23, <1>d DEF SelectFails
    <2>3. StoredAt(w)'
      BY <1>23, <1>b, <1>c, <1>d, <1>f, <2>1 DEF SelectFails, StoredAt, Failed
    <2> QED BY <1>g, <2>1, <2>2, <2>3
  <1> QED
    BY <1>1, <1>2, <1>3, <1>4, <1>5, <1>6, <1>7, <1>8, <1>9, <1>10, <1>11,
       <1>12, <1>13, <1>14, <1>15, <1>16, <1>17, <1>18, <1>19, <1>20, <1>21,
       <1>22, <1>23 DEF RequestStep

(* Index and file agree after every step: the step is the lock holder's, or *)
(* it leaves the table alone.                                              *)
LEMMA MatchNext ==
  ASSUME NoWriteFaults, EngineInv, StoredInv, NEW w \in Workers,
         Begin(w) \/ RequestStep(w)
  PROVE  IndexMatchesFile'
  <1>a. TypeOK /\ TableExclusion /\ IndexMatchesFile
    BY DEF EngineInv, StoredInv
  <1> SUFFICES ASSUME NEW s \in Names, loaded'[s],
                      \A v \in Workers : Table(v)' = s => ~InsertUnderWay(v)'
               PROVE  Matches(s)'
    BY DEF IndexMatchesFile, Matches, RowIndex
  <1>1. \A v \in Workers \ {w} : /\ Table(v)' = Table(v)
                                 /\ InsertUnderWay(v)' <=> InsertUnderWay(v)
    BY <1>a, Frame DEF SameWorker, Table, InsertUnderWay
  <1>2. ASSUME SameTable(s), Table(w) = s => ~InsertUnderWay(w)
        PROVE  Matches(s)'
    <2>1. \A v \in Workers : Table(v) = s => ~InsertUnderWay(v)
      BY <1>1, <1>2
    <2>2. Matches(s)
      BY <1>a, <1>2, <2>1 DEF SameTable, IndexMatchesFile, Matches, RowIndex
    <2> QED BY <1>2, <2>2 DEF SameTable, Matches, RowIndex
  <1>3. CASE Table(w) = s /\ pc[w] \in Critical
    <2>1. RequestStep(w)
      BY <1>3 DEF Begin, Critical
    <2>2. Table(w)' = s
      BY <1>a, <1>3, <2>1, LockSteps DEF Table
    <2> QED BY <1>3, <2>1, <2>2, StoredStep DEF MatchesAt
  <1>4. CASE pc[w] \notin Critical
    <2>1. SameTable(s) /\ ~InsertUnderWay(w)
      BY <1>a, <1>4, OutsideFrame DEF InsertUnderWay, Critical
    <2> QED BY <1>2, <2>1
  <1>5. CASE Table(w) # s
    BY <1>a, <1>2, <1>5, Frame
  <1> QED BY <1>3, <1>4, <1>5

\* The row of an acknowledged INSERT is where its id says.
InPlace(a) ==
  /\ a.id \in 1 .. Len(file[a.table])
  /\ file[a.table][a.id] = [row |-> a.row, form |-> "whole"]

(* A step that changes no line leaves every acknowledged row in place. *)
LEMMA AckedKept ==
  ASSUME TypeOK, AckedIdIsRowPosition, \A s \in Names : KeepsLines(s),
         NEW a \in acked
  PROVE  InPlace(a)'
  <1>1. a.table \in Names /\ a.id \in Nat /\ Len(file[a.table]) \in Nat
    BY DEF TypeOK
  <1>2. KeepsLines(a.table) /\ InPlace(a)
    BY <1>1 DEF AckedIdIsRowPosition, InPlace
  <1> QED BY <1>1, <1>2 DEF KeepsLines, InPlace

(* An acknowledged row keeps its place: lines stay, and what Release adds   *)
(* to the acknowledged rows is in the file.                                *)
LEMMA AckedNext ==
  ASSUME NoWriteFaults, EngineInv, StoredInv, NEW w \in Workers,
         Begin(w) \/ RequestStep(w)
  PROVE  AckedIdIsRowPosition'
  <1>a. TypeOK /\ AckedIdIsRowPosition /\ StoredAt(w)
    BY DEF EngineInv, StoredInv
  <1>1. \A a \in acked : InPlace(a)'
    BY <1>a, StepKeepsLines, AckedKept
  <1>2. CASE Release(w)
    <2>1. ASSUME NEW a \in acked', a \notin acked PROVE InPlace(a)'
      <3>1. /\ req[w].kind = "insert" /\ res[w].status = "ok"
            /\ a = [table |-> Table(w), id |-> id[w], row |-> req[w].arg]
            /\ pc[w] = "release" /\ file' = file
        BY <1>2, <2>1 DEF Release
      <3> QED BY <1>a, <3>1 DEF StoredAt, RowOf, InPlace
    <2> QED BY <1>1, <2>1 DEF AckedIdIsRowPosition, InPlace
  <1>3. CASE acked' = acked
    BY <1>1, <1>3 DEF AckedIdIsRowPosition, InPlace
  <1>4. Release(w) \/ acked' = acked
    BY DEF RequestStep, fileVars, Begin, Parse, Refused, LockLookup,
           LockTable, ExecuteRefused, ExecuteStatement, GetEntry,
           GetEntryFails, Load, NextId, RegisterRow, RegisterRowFails,
           FindRow, UseStaleEntry, Invalidate, AppendRefused, AppendRow,
           AppendFails, Register, ReadRow, ScanRows, SelectFails
  <1> QED BY <1>2, <1>3, <1>4

(* Every step, restarts included, keeps index, file and acknowledged rows   *)
(* in agreement.                                                           *)
LEMMA StoredNext ==
  ASSUME NoWriteFaults, EngineInv, StoredInv, [Next]_vars
  PROVE  StoredInv'
  <1>a. TypeOK /\ TableExclusion
    BY DEF EngineInv
  <1>1. ASSUME NEW w \in Workers, Begin(w) \/ RequestStep(w), StoredAt(w)'
        PROVE  StoredInv'
    <2>1. ASSUME NEW v \in Workers PROVE StoredAt(v)'
      <3>1. CASE v # w /\ pc[v] \in Critical
        <4>1. /\ SameWorker(v) /\ SameTable(Table(v)) /\ Table(v)' = Table(v)
              /\ StoredAt(v)
          BY <1>a, <1>1, <3>1, Undisturbed DEF StoredInv
        <4> QED BY <4>1 DEF SameWorker, SameTable, StoredAt, Registering, RowOf
      <3>2. CASE v # w /\ pc[v] \notin Critical
        BY <1>a, <1>1, <3>2, Frame
           DEF SameWorker, StoredAt, Registering, Critical
      <3> QED BY <1>1, <3>1, <3>2
    <2> QED BY <1>1, <2>1, MatchNext, AckedNext DEF StoredInv
  <1>2. ASSUME NEW w \in Workers, Begin(w) PROVE StoredInv'
    <2>1. StoredAt(w)'
      BY <1>a, <1>2 DEF Begin, StoredAt, Registering, Goto, TypeOK
    <2> QED BY <1>1, <1>2, <2>1
  <1>3. ASSUME NEW w \in Workers, RequestStep(w) PROVE StoredInv'
    BY <1>1, <1>3, StoredStep
  <1>4. CASE Restart
    <2>1. IndexMatchesFile'
      BY <1>4 DEF Restart, IndexMatchesFile
    <2>2. \A w \in Workers : StoredAt(w)'
      BY <1>4 DEF Restart, StoredAt, Registering
    <2>3. AckedIdIsRowPosition'
      <3>1. \A s \in Names : KeepsLines(s)
        BY <1>a, <1>4, RestartKeepsLines
      <3>2. \A a \in acked : InPlace(a)'
        BY <1>a, <3>1, AckedKept DEF StoredInv
      <3> QED BY <1>4, <3>2 DEF Restart, AckedIdIsRowPosition, InPlace
    <2> QED BY <2>1, <2>2, <2>3 DEF StoredInv
  <1>5. CASE UNCHANGED vars
    BY <1>5 DEF vars, StoredInv, StoredAt, Registering, RowOf, Table,
                IndexMatchesFile, InsertUnderWay, AckedIdIsRowPosition
  <1> QED BY <1>2, <1>3, <1>4, <1>5 DEF Next, Waiting

(* The storage invariant holds in every reachable state of a server whose   *)
(* appends write what they report.                                         *)
LEMMA StoredInvariant ==
  ASSUME NoWriteFaults
  PROVE  Spec => [](EngineInv /\ StoredInv)
  <1>1. Init => StoredInv
    BY DEF Init, StoredInv, IndexMatchesFile, AckedIdIsRowPosition, StoredAt,
           Registering
  <1>2. EngineInv /\ StoredInv /\ [Next]_vars => StoredInv'
    BY StoredNext
  <1> QED BY <1>1, <1>2, EngineInvariant, PTL DEF Spec

(* Rebuilds, failed registrations, exhausted memory and restarts never      *)
(* leave a loaded index that differs from the file.                        *)
THEOREM IndexStaysTheFile ==
  ASSUME NoWriteFaults
  PROVE  Spec => []IndexMatchesFile
  <1>1. StoredInv => IndexMatchesFile
    BY DEF StoredInv
  <1> QED BY <1>1, StoredInvariant, PTL

(* No id is given twice and no acknowledged row is lost or moved, across    *)
(* any number of restarts.                                                 *)
THEOREM AckedRowsStay ==
  ASSUME NoWriteFaults
  PROVE  Spec => []AckedIdIsRowPosition
  <1>1. StoredInv => AckedIdIsRowPosition
    BY DEF StoredInv
  <1> QED BY <1>1, StoredInvariant, PTL

-----------------------------------------------------------------------------
(* Pointers into the registry. *)

\* The tables that exist.
Tables == {StorageOf[n] : n \in Names}

\* The registry has room for every table from its first allocation on.
RegistryFits == Cardinality(Tables) <= InitialCapacity

\* No pointer has been left behind by realloc.
PointerInv ==
  /\ stale = {} /\ ~corrupted
  /\ present \subseteq Tables
  /\ capacity = 0 \/ capacity >= InitialCapacity

(* A registry that is full before every table is in it has not been         *)
(* allocated yet, and nobody has a pointer into it.                        *)
LEMMA GrowsOnlyWhenEmpty ==
  ASSUME RegistryFits, EngineInv, PointerInv, NEW w \in Workers,
         Table(w) \notin present, Cardinality(present) = capacity
  PROVE  capacity = 0 /\ Holding = {}
  <1>1. /\ IsFiniteSet(Tables) /\ present \cup {Table(w)} \subseteq Tables
        /\ Table(w) \in Names
    <2>1. IsFiniteSet(Tables)
      <3>1. IsFiniteSet(Names) /\ StorageOf \in [Names -> Names]
        BY EngineAssumption
      <3>2. Tables \subseteq Names
        BY <3>1 DEF Tables
      <3> QED BY <3>1, <3>2, FS_Subset
    <2>2. Table(w) \in Tables /\ Table(w) \in Names
      BY TableType DEF EngineInv, Tables, Table, TypeOK, Requests
    <2> QED BY <2>1, <2>2 DEF PointerInv
  <1>2. /\ Cardinality(present \cup {Table(w)}) = Cardinality(present) + 1
        /\ Cardinality(present) \in Nat /\ IsFiniteSet(present)
    BY <1>1, OneMoreEntry DEF EngineInv, TypeOK
  <1>3. /\ Cardinality(present \cup {Table(w)}) <= Cardinality(Tables)
        /\ Cardinality(Tables) \in Nat
    BY <1>1, FS_Subset, FS_CardinalityType
  <1>4. capacity = 0
    BY <1>2, <1>3, EngineAssumption DEF RegistryFits, PointerInv
  <1>5. present = {}
    BY <1>2, <1>4, FS_EmptySet
  <1> QED BY <1>4, <1>5 DEF EngineInv, ControlInv, PointerAt, Holding

(* With room for every table from the start, realloc never moves an entry   *)
(* that a thread points to.                                                *)
LEMMA PointerNext ==
  ASSUME RegistryFits, EngineInv, PointerInv, [Next]_vars
  PROVE  PointerInv'
  <1>a. capacity \in Nat /\ InitialCapacity \in Nat /\ Cardinality(present) \in Nat
    <2>1. IsFiniteSet(present)
      BY EngineAssumption, FS_Subset DEF EngineInv, TypeOK
    <2> QED BY <2>1, FS_CardinalityType, EngineAssumption DEF EngineInv, TypeOK
  <1>b. ASSUME NEW w \in Workers, Cardinality(present) = capacity,
               Table(w) \notin present
        PROVE  /\ GrowCapacity(capacity) >= InitialCapacity
               /\ stale \cup Holding = {}
    BY <1>a, <1>b, GrowsOnlyWhenEmpty DEF GrowCapacity, PointerInv
  <1>c. ASSUME NEW w \in Workers PROVE Table(w) \in Tables
    BY DEF EngineInv, Tables, Table, TypeOK, Requests
  <1> USE DEF PointerInv, registryVars, memoryVars
  <1>1. ASSUME NEW w \in Workers, GetEntry(w) PROVE PointerInv'
    BY <1>1, <1>b, <1>c DEF GetEntry
  <1>2. ASSUME NEW w \in Workers, GetEntryFails(w) PROVE PointerInv'
    BY <1>2, <1>b DEF GetEntryFails
  <1>3. ASSUME NEW w \in Workers, UseStaleEntry(w) PROVE PointerInv'
    BY <1>3 DEF UseStaleEntry
  <1>4. CASE Restart
    BY <1>4 DEF Restart
  <1>5. CASE UNCHANGED <<registryVars, memoryVars>>
    BY <1>5
  <1>6. ASSUME NEW w \in Workers, Begin(w) \/ RequestStep(w)
        PROVE  \/ GetEntry(w) \/ GetEntryFails(w) \/ UseStaleEntry(w)
               \/ UNCHANGED <<registryVars, memoryVars>>
    BY <1>6 DEF RequestStep, Begin, Parse, Refused, LockLookup, LockTable,
           ExecuteRefused, ExecuteStatement, Release, Load, NextId,
           RegisterRow, RegisterRowFails, FindRow, Invalidate,
           AppendRefused, AppendRow, AppendFails, Register, ReadRow,
           ScanRows, SelectFails
  <1> QED BY <1>1, <1>2, <1>3, <1>4, <1>5, <1>6 DEF Next, Waiting, vars

(* A database with no more tables than the registry's first allocation has  *)
(* room for (4 in get_or_create_table_index) never follows a TableIndex    *)
(* pointer that realloc has freed, whatever the interleaving; the run      *)
(* stale_registry_pointer shows what one table more can do.                *)
THEOREM PointersStayValid ==
  ASSUME RegistryFits
  PROVE  Spec => []RegistryPointersValid
  <1>1. Init => PointerInv
    BY DEF Init, PointerInv
  <1>2. EngineInv /\ PointerInv /\ [Next]_vars => PointerInv'
    BY PointerNext
  <1>3. PointerInv => RegistryPointersValid
    BY DEF PointerInv, RegistryPointersValid
  <1> QED BY <1>1, <1>2, <1>3, EngineInvariant, PTL DEF Spec

-----------------------------------------------------------------------------
(* The engine implements TableService. *)

\* TableService's phase, as TS maps it.
PhaseMap == [w \in Workers |-> Phase(w)]

(* Where a request is, in TableService's terms. *)
LEMMA PhaseCases ==
  ASSUME NEW w \in Workers
  PROVE  /\ pc[w] = "idle" => Phase(w) = "idle"
         /\ pc[w] \in {"refused", "release"} => Phase(w) = "answered"
         /\ InsertUnderWay(w) => Phase(w) = "stored"
         /\ /\ pc[w] \notin {"idle", "refused", "release"} /\ ~InsertUnderWay(w)
            => Phase(w) = "called"
  BY DEF Phase, InsertUnderWay

\* A step of w moves w alone, from one phase to another.
Moves(w, from, to) ==
  /\ PhaseMap[w] = from
  /\ PhaseMap' = [PhaseMap EXCEPT ![w] = to]

(* A step changes the phase of the thread that takes it only. *)
LEMMA PhaseStep ==
  ASSUME TypeOK, NEW w \in Workers, Begin(w) \/ RequestStep(w)
  PROVE  Moves(w, Phase(w), Phase(w)')
  <1>1. \A v \in Workers \ {w} : pc'[v] = pc[v] /\ task'[v] = task[v]
    BY Frame DEF SameWorker
  <1>2. \A v \in Workers \ {w} : Phase(v)' = Phase(v)
    BY <1>1 DEF Phase, InsertUnderWay
  <1> QED BY <1>2 DEF Moves, PhaseMap

(* A step that stays in its phase and answers nothing is invisible. *)
LEMMA Stutters ==
  ASSUME NEW w \in Workers, UNCHANGED <<file, req, res>>,
         Moves(w, Phase(w), Phase(w)'), Phase(w)' = Phase(w)
  PROVE  UNCHANGED TS!vars
  BY DEF Moves, PhaseMap, TS!vars

(* A step that answers with an error is TableService's Fail. *)
LEMMA Fails ==
  ASSUME NEW w \in Workers, UNCHANGED <<file, req>>,
         Moves(w, Phase(w), Phase(w)'), Phase(w) \in {"called", "stored"},
         Phase(w)' = "answered", res' = [res EXCEPT ![w] = Failed]
  PROVE  TS!Fail(w)
  BY DEF Moves, PhaseMap, TS!Fail, TS!Failed, Failed

\* Some step of TableService, or none.
Simulated == TS!Next \/ UNCHANGED TS!vars

(* Every step of a request is a step of TableService or invisible to it:    *)
(* AppendRow stores, RegisterRow acknowledges, FindRow and ReadRow find,   *)
(* ScanRows scans, and every failure after the append is one of an INSERT  *)
(* that took effect.                                                       *)
LEMMA RequestSimulated ==
  ASSUME NoWriteFaults, EngineInv, StoredInv, NEW w \in Workers, RequestStep(w)
  PROVE  Simulated
  <1>a. TypeOK /\ TableExclusion
    BY DEF EngineInv
  <1>b. /\ KindAt(w) /\ LocalAt(w) /\ StoredAt(w)
        /\ req[w].kind \in {"insert", "find", "scan"}
        /\ Table(w) \in Names /\ TS!Table(w) = Table(w)
    BY <1>a, TableType DEF EngineInv, ControlInv, DenseInv, StoredInv, TypeOK,
                           Requests, TS!Table, Table
  <1>c. /\ pc \in [Workers -> States] /\ res \in [Workers -> Results]
        /\ task \in [Workers -> {"next", "register", "find"}]
        /\ file \in [Names -> Seq(Lines)]
    BY <1>a DEF TypeOK
  <1>d. /\ req' = req /\ Moves(w, Phase(w), Phase(w)')
    BY <1>a, LockSteps, PhaseStep
  <1>e. /\ pc[w] \in {"refused", "release"} => Phase(w) = "answered"
        /\ InsertUnderWay(w) => Phase(w) = "stored"
        /\ /\ pc[w] \notin {"idle", "refused", "release"} /\ ~InsertUnderWay(w)
           => Phase(w) = "called"
    BY PhaseCases
  <1>f. /\ pc'[w] = "idle" => Phase(w)' = "idle"
        /\ pc'[w] \in {"refused", "release"} => Phase(w)' = "answered"
        /\ InsertUnderWay(w)' => Phase(w)' = "stored"
        /\ /\ pc'[w] \notin {"idle", "refused", "release"}
           /\ ~InsertUnderWay(w)'
           => Phase(w)' = "called"
    BY DEF Phase, InsertUnderWay
  <1>stutter. ASSUME UNCHANGED <<file, res>>, Phase(w)' = Phase(w)
              PROVE  Simulated
    BY <1>d, <1>stutter, Stutters DEF Simulated
  <1>fail. ASSUME UNCHANGED file, FinishWith(w, Failed),
                  Phase(w) \in {"called", "stored"}
           PROVE  Simulated
    <2>1. Phase(w)' = "answered" /\ res' = [res EXCEPT ![w] = Failed]
      BY <1>c, <1>f, <1>fail DEF FinishWith, Goto
    <2> QED BY <1>d, <1>fail, <2>1, Fails DEF Simulated, TS!Next
  <1>fail2. ASSUME UNCHANGED file, Goto(w, "refused"),
                   res' = [res EXCEPT ![w] = Failed], Phase(w) = "called"
            PROVE  Simulated
    <2>1. Phase(w)' = "answered"
      BY <1>c, <1>f, <1>fail2 DEF Goto
    <2> QED BY <1>d, <1>fail2, <2>1, Fails DEF Simulated, TS!Next
  <1>ensure. ASSUME UNCHANGED file, EnsureFails(w),
                    pc[w] \in {"entry", "load", "use"}
             PROVE  Simulated
    <2>1. CASE task[w] = "register"
      <3>1. InsertUnderWay(w) /\ InsertUnderWay(w)' /\ UNCHANGED res
        BY <1>c, <1>ensure, <2>1 DEF EnsureFails, InsertUnderWay, Goto
      <3> QED BY <1>e, <1>f, <1>ensure, <1>stutter, <3>1
    <2>2. CASE task[w] # "register"
      <3>1. Phase(w) = "called"
        BY <1>e, <1>ensure, <2>2 DEF InsertUnderWay
      <3> QED BY <1>ensure, <1>fail, <2>2, <3>1 DEF EnsureFails
    <2> QED BY <2>1, <2>2
  <1> USE DEF fileVars, localVars, Goto, InsertUnderWay
  <1>1. CASE Parse(w)
    <2>1. UNCHANGED file /\ Phase(w) = "called"
      BY <1>1, <1>e DEF Parse
    <2>2. CASE Goto(w, "lookup") /\ UNCHANGED res
      BY <1>c, <1>f, <1>stutter, <2>1, <2>2
    <2>3. CASE Goto(w, "refused") /\ res' = [res EXCEPT ![w] = Failed]
      BY <1>fail2, <2>1, <2>3
    <2> QED BY <1>1, <2>2, <2>3 DEF Parse
  <1>2. CASE Refused(w)
    <2>1. /\ UNCHANGED <<file, res>>
          /\ Phase(w) = "answered" /\ Phase(w)' = "idle"
      BY <1>2, <1>c, <1>e, <1>f DEF Refused
    <2>2. TS!Return(w)
      BY <1>d, <2>1 DEF TS!Return, Moves, PhaseMap
    <2> QED BY <2>2 DEF Simulated, TS!Next
  <1>3. CASE LockLookup(w)
    <2>1. UNCHANGED file /\ Phase(w) = "called"
      BY <1>3, <1>e DEF LockLookup
    <2>2. CASE Goto(w, "lock") /\ UNCHANGED res
      BY <1>c, <1>f, <1>stutter, <2>1, <2>2
    <2>3. CASE Goto(w, "refused") /\ res' = [res EXCEPT ![w] = Failed]
      BY <1>fail2, <2>1, <2>3
    <2> QED BY <1>3, <2>2, <2>3 DEF LockLookup
  <1>4. CASE LockTable(w)
    <2>1. UNCHANGED <<file, res>> /\ Phase(w)' = Phase(w)
      BY <1>4, <1>b, <1>c, <1>e, <1>f DEF LockTable
    <2> QED BY <1>stutter, <2>1
  <1>5. CASE ExecuteRefused(w)
    <2>1. UNCHANGED file /\ FinishWith(w, Failed) /\ Phase(w) \in {"called", "stored"}
      BY <1>5, <1>e DEF ExecuteRefused
    <2> QED BY <1>fail, <2>1
  <1>6. CASE ExecuteStatement(w)
    <2>1. UNCHANGED <<file, res>> /\ Phase(w)' = Phase(w)
      BY <1>6, <1>b, <1>c, <1>e, <1>f DEF ExecuteStatement
    <2> QED BY <1>stutter, <2>1
  <1>7. CASE Release(w)
    <2>1. /\ UNCHANGED <<file, res>>
          /\ Phase(w) = "answered" /\ Phase(w)' = "idle"
      BY <1>7, <1>c, <1>e, <1>f DEF Release
    <2>2. TS!Return(w)
      BY <1>d, <2>1 DEF TS!Return, Moves, PhaseMap
    <2> QED BY <2>2 DEF Simulated, TS!Next
  <1>8. CASE GetEntry(w)
    <2>1. UNCHANGED <<file, res>> /\ Phase(w)' = Phase(w)
      BY <1>8, <1>b, <1>c, <1>e, <1>f DEF GetEntry
    <2> QED BY <1>stutter, <2>1
  <1>9. CASE GetEntryFails(w)
    BY <1>9, <1>ensure DEF GetEntryFails
  <1>10. CASE Load(w)
    <2>1. CASE EnsureFails(w)
      BY <1>10, <1>ensure, <2>1 DEF Load
    <2>2. CASE Goto(w, "use") /\ UNCHANGED res
      <3>1. UNCHANGED file /\ Phase(w)' = Phase(w)
        BY <1>10, <1>c, <1>e, <1>f, <2>2 DEF Load
      <3> QED BY <1>stutter, <2>2, <3>1
    <2> QED BY <1>10, <2>1, <2>2 DEF Load
  <1>11. CASE NextId(w)
    <2>1. UNCHANGED <<file, res>> /\ Phase(w)' = Phase(w)
      BY <1>11, <1>b, <1>c, <1>e, <1>f DEF NextId
    <2> QED BY <1>stutter, <2>1
  <1>12. CASE RegisterRow(w)
    <2>1. /\ UNCHANGED file /\ res' = [res EXCEPT ![w] = Answer(<<>>)]
          /\ Phase(w) = "stored" /\ Phase(w)' = "answered"
      BY <1>12, <1>c, <1>e, <1>f DEF RegisterRow, FinishWith
    <2>2. TS!Acknowledge(w)
      BY <1>d, <2>1 DEF TS!Acknowledge, TS!Answer, Answer, Moves, PhaseMap
    <2> QED BY <2>2 DEF Simulated, TS!Next
  <1>13. CASE RegisterRowFails(w)
    <2>1. UNCHANGED <<file, res>> /\ Phase(w)' = Phase(w)
      BY <1>13, <1>b, <1>c, <1>e, <1>f DEF RegisterRowFails
    <2> QED BY <1>stutter, <2>1
  <1>14. CASE FindRow(w)
    <2>1. UNCHANGED file /\ Phase(w) = "called" /\ req[w].kind = "find"
      BY <1>14, <1>b, <1>e DEF FindRow, KindAt
    <2>2. CASE Goto(w, "read") /\ UNCHANGED res
      BY <1>c, <1>f, <1>stutter, <2>1, <2>2
    <2>3. CASE FinishWith(w, Answer(<<>>))
               /\ \A e \in tree[Table(w)] : e[1] # req[w].arg
      <3>1. tree[Table(w)] = RowIndex(Table(w))
        BY <1>14, <1>a, <1>b, MatchesWhenHeld
           DEF FindRow, StoredInv, LocalAt, Matches, Critical
      <3>2. req[w].arg \notin DOMAIN file[Table(w)]
        <4> SUFFICES ASSUME req[w].arg \in 1 .. Len(file[Table(w)]) PROVE FALSE
          BY <1>b, <1>c
        <4>1. <<req[w].arg, req[w].arg>> \in tree[Table(w)]
          BY <3>1 DEF RowIndex
        <4> QED BY <2>3, <4>1
      <3>3. /\ res' = [res EXCEPT ![w] = Answer(<<>>)] /\ Phase(w)' = "answered"
        BY <1>c, <1>f, <2>3 DEF FinishWith
      <3>4. TS!Find(w)
        BY <1>b, <1>d, <2>1, <3>2, <3>3
           DEF TS!Find, TS!Answer, Answer, Moves, PhaseMap
      <3> QED BY <3>4 DEF Simulated, TS!Next
    <2>4. CASE FinishWith(w, Failed)
      BY <1>fail, <2>1, <2>4
    <2> QED BY <1>14, <2>2, <2>3, <2>4 DEF FindRow
  <1>15. CASE UseStaleEntry(w)
    <2>1. UNCHANGED <<file, res>> /\ Phase(w)' = Phase(w)
      BY <1>15, <1>b, <1>c, <1>e, <1>f DEF UseStaleEntry
    <2> QED BY <1>stutter, <2>1
  <1>16. CASE Invalidate(w)
    <2>1. UNCHANGED file /\ FinishWith(w, Failed) /\ Phase(w) \in {"called", "stored"}
      BY <1>16, <1>e DEF Invalidate
    <2> QED BY <1>fail, <2>1
  <1>17. CASE AppendRefused(w)
    <2>1. UNCHANGED file /\ FinishWith(w, Failed) /\ Phase(w) \in {"called", "stored"}
      BY <1>17, <1>e DEF AppendRefused
    <2> QED BY <1>fail, <2>1
  <1>18. CASE AppendRow(w)
    <2>1. file' = [file EXCEPT ![Table(w)] = Append(@, RowOf(w))]
      BY <1>18, <1>a, AppendAddsRow
    <2>2. /\ UNCHANGED res /\ req[w].kind = "insert"
          /\ Phase(w) = "called" /\ Phase(w)' = "stored"
      BY <1>18, <1>b, <1>c, <1>e, <1>f DEF AppendRow, KindAt
    <2>3. TS!Store(w)
      BY <1>b, <1>d, <2>1, <2>2 DEF TS!Store, RowOf, Moves, PhaseMap
    <2> QED BY <2>3 DEF Simulated, TS!Next
  <1>19. CASE AppendFails(w)
    BY <1>19 DEF AppendFails, NoWriteFaults
  <1>20. CASE Register(w)
    <2>1. UNCHANGED <<file, res>> /\ Phase(w)' = Phase(w)
      BY <1>20, <1>b, <1>c, <1>e, <1>f DEF Register
    <2> QED BY <1>stutter, <2>1
  <1>21. CASE ReadRow(w)
    <2>1. /\ UNCHANGED file /\ Phase(w) = "called" /\ req[w].kind = "find"
          /\ offset[w] = req[w].arg /\ req[w].arg \in 1 .. Len(file[Table(w)])
      BY <1>21, <1>b, <1>e DEF ReadRow, KindAt, StoredAt
    <2>2. req[w].arg \in DOMAIN file[Table(w)]
      BY <1>b, <1>c, <2>1
    <2>3. CASE FinishWith(w, Failed)
      BY <1>fail, <2>1, <2>3
    <2>4. CASE FinishWith(w, Answer(<<file[Table(w)][req[w].arg]>>))
      <3>1. /\ res' = [res EXCEPT ![w] = Answer(<<file[Table(w)][req[w].arg]>>)]
            /\ Phase(w)' = "answered"
        BY <1>c, <1>f, <2>4 DEF FinishWith
      <3>2. TS!Find(w)
        BY <1>b, <1>d, <2>1, <2>2, <3>1
           DEF TS!Find, TS!Answer, Answer, Moves, PhaseMap
      <3> QED BY <3>2 DEF Simulated, TS!Next
    <2> QED BY <1>21, <2>1, <2>3, <2>4 DEF ReadRow
  <1>22. CASE ScanRows(w)
    <2>1. UNCHANGED file /\ Phase(w) = "called" /\ req[w].kind = "scan"
      BY <1>22, <1>b, <1>e DEF ScanRows, KindAt
    <2>2. CASE FinishWith(w, Failed)
      BY <1>fail, <2>1, <2>2
    <2>3. CASE FinishWith(w, Answer(file[Table(w)]))
      <3>1. /\ res' = [res EXCEPT ![w] = Answer(file[Table(w)])]
            /\ Phase(w)' = "answered"
        BY <1>c, <1>f, <2>3 DEF FinishWith
      <3>2. TS!Scan(w)
        BY <1>b, <1>d, <2>1, <3>1
           DEF TS!Scan, TS!Answer, Answer, Moves, PhaseMap
      <3> QED BY <3>2 DEF Simulated, TS!Next
    <2> QED BY <1>22, <2>2, <2>3 DEF ScanRows
  <1>23. CASE SelectFails(w)
    <2>1. UNCHANGED file /\ FinishWith(w, Failed) /\ Phase(w) \in {"called", "stored"}
      BY <1>23, <1>e DEF SelectFails
    <2> QED BY <1>fail, <2>1
  <1> QED
    BY <1>1, <1>2, <1>3, <1>4, <1>5, <1>6, <1>7, <1>8, <1>9, <1>10, <1>11,
       <1>12, <1>13, <1>14, <1>15, <1>16, <1>17, <1>18, <1>19, <1>20, <1>21,
       <1>22, <1>23 DEF RequestStep

(* Every step of the engine is one of TableService or invisible to it: a    *)
(* new request is a call, the end of the process a crash.                  *)
LEMMA NextSimulated ==
  ASSUME NoWriteFaults, EngineInv, StoredInv, [Next]_vars
  PROVE  [TS!Next]_TS!vars
  <1>a. TypeOK
    BY DEF EngineInv
  <1>1. ASSUME NEW w \in Workers, Begin(w) PROVE Simulated
    <2>1. Phase(w) = "idle" /\ Phase(w)' = "called"
      BY <1>1, <1>a DEF Begin, Goto, Phase, InsertUnderWay, TypeOK
    <2>2. Moves(w, "idle", "called")
      BY <1>1, <1>a, <2>1, PhaseStep
    <2>3. TS!Call(w)
      BY <1>1, <2>2 DEF Begin, fileVars, TS!Call, TS!Pending, Pending, Moves,
                        PhaseMap
    <2> QED BY <2>3 DEF Simulated, TS!Next
  <1>2. ASSUME NEW w \in Workers, RequestStep(w) PROVE Simulated
    BY <1>2, RequestSimulated
  <1>3. CASE Restart
    <2>1. PhaseMap' = [w \in Workers |-> "idle"] /\ UNCHANGED <<req, res>>
      BY <1>3 DEF Restart, PhaseMap, Phase, InsertUnderWay
    <2>2. ASSUME NEW s \in Names
          PROVE  \/ file'[s] = file[s]
                 \/ \E w \in Workers, f \in {"whole", "cut", "short", "broken"} :
                      /\ PhaseMap[w] = "called" /\ req[w].kind = "insert"
                      /\ TS!Table(w) = s
                      /\ file'[s] = Append(file[s], [row |-> req[w].arg, form |-> f])
      <3>1. file'[s] \in Interrupted(s)
        BY <1>3 DEF Restart
      <3>2. CASE file'[s] # file[s]
        <4>1. PICK w \in Workers, f \in Forms :
                /\ pc[w] = "append" /\ Table(w) = s
                /\ file'[s] = Append(file[s], [row |-> req[w].arg, form |-> f])
          BY <3>1, <3>2, InterruptedCases
        <4>2. PhaseMap[w] = "called" /\ req[w].kind = "insert"
          BY <4>1, PhaseCases
             DEF PhaseMap, InsertUnderWay, EngineInv, ControlInv, KindAt
        <4> QED BY <4>1, <4>2 DEF Forms, TS!Table, Table
      <3> QED BY <3>2
    <2>3. TS!Crash
      BY <2>1, <2>2 DEF TS!Crash, PhaseMap
    <2> QED BY <2>3 DEF Simulated, TS!Next
  <1>4. CASE UNCHANGED vars
    BY <1>4 DEF vars, Simulated, TS!vars, Phase, InsertUnderWay
  <1> QED BY <1>1, <1>2, <1>3, <1>4 DEF Next, Waiting, Simulated

(* The engine as a whole - mutexes, lazy index, registry, error paths and   *)
(* restarts - implements tables on which every request is one              *)
(* instantaneous step between its call and its answer.                     *)
THEOREM EngineImplementsTableService ==
  ASSUME NoWriteFaults
  PROVE  Spec => ImplementsTableService
  <1>1. Init => TS!Init
    <2> SUFFICES ASSUME Init PROVE TS!Init
      OBVIOUS
    <2>1. req \in [Workers -> Requests]
      BY TypeInit DEF TypeOK
    <2>2. PhaseMap = [w \in Workers |-> "idle"]
      BY DEF Init, PhaseMap, Phase, InsertUnderWay
    <2>3. res = [w \in Workers |-> TS!Pending]
      BY DEF Init, Pending, TS!Pending
    <2>4. file \in [Names -> Seq([row : Nat, form : {"whole"}])]
      BY DEF Init
    <2> QED BY <2>1, <2>2, <2>3, <2>4 DEF TS!Init, PhaseMap
  <1>2. EngineInv /\ StoredInv /\ [Next]_vars => [TS!Next]_TS!vars
    BY NextSimulated
  <1> QED BY <1>1, <1>2, StoredInvariant, PTL
          DEF Spec, ImplementsTableService, TS!Spec
=============================================================================
