------------------------- MODULE SqlProgramsProofs -------------------------
(***************************************************************************)
(* Proofs about SqlPrograms, for any programs, texts, files and bounds.    *)
(***************************************************************************)
EXTENDS SqlPrograms, SqlTextProofs

-----------------------------------------------------------------------------
(* The exit status. *)

\* What a sequence holds with one more element.
LEMMA ToSetAppend ==
  ASSUME NEW S, NEW s \in Seq(S), NEW x \in S
  PROVE  ToSet(Append(s, x)) = ToSet(s) \cup {x}
<1>1. /\ Append(s, x) \in Seq(S) /\ Len(s) \in Nat /\ DOMAIN s = 1 .. Len(s)
      /\ DOMAIN Append(s, x) = 1 .. Len(s) + 1 /\ Append(s, x)[Len(s) + 1] = x
      /\ \A i \in 1 .. Len(s) : Append(s, x)[i] = s[i]
  BY LenProperties
<1>2. ASSUME NEW y \in ToSet(Append(s, x))
      PROVE  y \in ToSet(s) \cup {x}
  BY <1>1, <1>2 DEF ToSet
<1>3. ASSUME NEW y \in ToSet(s)
      PROVE  y \in ToSet(Append(s, x))
  <2>1. PICK i \in 1 .. Len(s) : y = s[i]
    BY <1>1, <1>3 DEF ToSet
  <2>2. i \in DOMAIN Append(s, x) /\ Append(s, x)[i] = y
    BY <1>1, <2>1
  <2> QED
    BY <2>2 DEF ToSet
<1>4. x \in ToSet(Append(s, x))
  <2>1. Len(s) + 1 \in DOMAIN Append(s, x)
    BY <1>1
  <2> QED
    BY <1>1, <2>1 DEF ToSet
<1> QED
  BY <1>2, <1>3, <1>4

\* The program was asked for its help.
AsksHelp == LoadNoninteractiveSql(program.args).kind = "help"

(* What main knows of the outcomes of its statements: none before it has   *)
(* run one, in a dialogue whether one has failed, and at the end what its  *)
(* exit status says.                                                       *)
ExitInv ==
  /\ hadError \in BOOLEAN /\ outcomes \in Seq(BOOLEAN)
  /\ phase \in {"start", "once"} => outcomes = <<>> /\ ~hadError
  /\ phase \in {"repl", "run"} =>
       Interactive /\ (hadError <=> FALSE \in ToSet(outcomes))
  /\ phase = "ended" /\ exit # "signal" =>
       /\ exit = "success" <=> FALSE \notin ToSet(outcomes)
       /\ Len(outcomes) = 1 \/ Interactive \/ AsksHelp

\* How a program was started does not change.
LEMMA StartKept ==
  ASSUME program' = program
  PROVE  (Interactive' <=> Interactive) /\ (AsksHelp' <=> AsksHelp)
<1>1. Interactive' <=> Interactive
  BY DEF Interactive
<1>2. LoadNoninteractiveSql(program.args)' = LoadNoninteractiveSql(program.args)
  BY DEF LoadNoninteractiveSql, ReadStream, ReadEntireFile, LoadSqlFromArgument, KindOf
<1> QED
  BY <1>1, <1>2 DEF AsksHelp

\* No statement has run in an initial state.
LEMMA ExitInit ==
  Init => ExitInv
<1> SUFFICES ASSUME Init
             PROVE  ExitInv
  OBVIOUS
<1>1. hadError = FALSE /\ outcomes = <<>> /\ phase \in {"serving", "start"}
  BY DEF Init
<1>2. <<>> \in Seq(BOOLEAN)
  OBVIOUS
<1> QED
  BY <1>1, <1>2 DEF ExitInv

\* What the last statement of a dialogue adds to what is known of the others.
LEMMA OutcomeAdded ==
  ASSUME outcomes \in Seq(BOOLEAN), NEW ok \in BOOLEAN
  PROVE  /\ Append(outcomes, ok) \in Seq(BOOLEAN)
         /\ FALSE \in ToSet(Append(outcomes, ok))
              <=> FALSE \in ToSet(outcomes) \/ ~ok
<1>1. ToSet(Append(outcomes, ok)) = ToSet(outcomes) \cup {ok}
  BY ToSetAppend, Zenon
<1>2. FALSE = ok <=> ~ok
  OBVIOUS
<1>3. Append(outcomes, ok) \in Seq(BOOLEAN)
  OBVIOUS
<1> QED
  BY <1>1, <1>2, <1>3, Zenon

\* What a single statement leaves.
LEMMA OutcomeAlone ==
  ASSUME NEW ok \in BOOLEAN
  PROVE  /\ <<ok>> \in Seq(BOOLEAN) /\ Len(<<ok>>) = 1
         /\ FALSE \in ToSet(<<ok>>) <=> ~ok
<1>1. DOMAIN <<ok>> = {1} /\ <<ok>>[1] = ok
  OBVIOUS
<1>2. ToSet(<<ok>>) = {ok}
  BY <1>1 DEF ToSet
<1>3. FALSE = ok <=> ~ok
  OBVIOUS
<1>4. <<ok>> \in Seq(BOOLEAN) /\ Len(<<ok>>) = 1
  OBVIOUS
<1> QED
  BY <1>2, <1>3, <1>4, Zenon

\* Nothing has failed where nothing has run.
LEMMA NothingFailed ==
  FALSE \notin ToSet(<<>>)
BY DEF ToSet

\* Every step of main and run_repl keeps the account of the outcomes.
LEMMA ExitNext ==
  ExitInv /\ [Next]_vars => ExitInv'
<1> SUFFICES ASSUME ExitInv, [Next]_vars
             PROVE  ExitInv'
  OBVIOUS
<1> USE DEF ExitInv
<1>0. (program' = program) => (Interactive' <=> Interactive) /\ (AsksHelp' <=> AsksHelp)
  BY StartKept
<1>1. CASE UNCHANGED frontVars
  BY <1>0, <1>1 DEF frontVars
<1>2. CASE Request
  BY <1>0, <1>2 DEF Request
<1>3. CASE ServerRestarts
  BY <1>0, <1>3 DEF ServerRestarts
<1>4. CASE ProcessAborts
  BY <1>0, <1>4 DEF ProcessAborts
<1>5. CASE StartRepl
  BY <1>0, <1>5, NothingFailed DEF StartRepl
<1>6. CASE StartOnce
  <2> DEFINE sql == LoadNoninteractiveSql(program.args)
  <2>0. /\ phase = "start" /\ ~Interactive /\ program' = program /\ hadError' = hadError
        /\ \/ sql.kind = "sql" /\ phase' = "once" /\ UNCHANGED <<exit, outcomes>>
           \/ sql.kind = "help" /\ Exit("success") /\ UNCHANGED outcomes
           \/ sql.kind = "error" /\ Exit("failure") /\ outcomes' = <<FALSE>>
    BY <1>6 DEF StartOnce
  <2>1. CASE phase' = "once" /\ UNCHANGED <<exit, outcomes>>
    BY <1>0, <2>0, <2>1
  <2>2. CASE sql.kind = "help" /\ Exit("success") /\ UNCHANGED outcomes
    <3>1. AsksHelp'
      BY <1>0, <2>0, <2>2 DEF AsksHelp
    <3> QED
      BY <1>0, <2>0, <2>2, <3>1, NothingFailed DEF Exit
  <2>3. CASE Exit("failure") /\ outcomes' = <<FALSE>>
    BY <1>0, <2>0, <2>3, OutcomeAlone DEF Exit
  <2> QED
    BY <2>0, <2>1, <2>2, <2>3
<1>7. CASE EndOnce
  <2> DEFINE ok == reply.code = "OK"
  <2>1. /\ phase' = "ended" /\ outcomes' = <<ok>> /\ program' = program
        /\ exit' = (IF ok THEN "success" ELSE "failure") /\ hadError' = hadError
    BY <1>7 DEF EndOnce, Exit
  <2>2. ok \in BOOLEAN
    OBVIOUS
  <2> HIDE DEF ok
  <2> QED
    BY <1>0, <2>1, <2>2, OutcomeAlone
<1>8. CASE ReplEnds
  <2>1. /\ phase = "repl" /\ phase' = "ended" /\ program' = program /\ hadError' = hadError
        /\ exit' = (IF program.broken \/ hadError THEN "failure" ELSE "success")
        /\ outcomes' = (IF program.broken THEN Append(outcomes, FALSE) ELSE outcomes)
    BY <1>8 DEF ReplEnds, Exit
  <2>2. CASE program.broken
    BY <1>0, <2>1, <2>2, OutcomeAdded
  <2>3. CASE ~program.broken
    BY <1>0, <2>1, <2>3
  <2> QED
    BY <2>2, <2>3
<1>9. CASE ReplLine
  <2>1. /\ phase = "repl" /\ program' = program
        /\ \/ UNCHANGED <<phase, hadError, exit, outcomes>>
           \/ /\ Exit(IF hadError THEN "failure" ELSE "success")
              /\ UNCHANGED <<hadError, outcomes>>
           \/ /\ hadError' = TRUE /\ outcomes' = Append(outcomes, FALSE)
              /\ UNCHANGED <<phase, exit>>
           \/ phase' = "run" /\ UNCHANGED <<hadError, exit, outcomes>>
    BY <1>9, Zenon DEF ReplLine
  <2>2. CASE UNCHANGED <<phase, hadError, exit, outcomes>>
    BY <1>0, <2>1, <2>2
  <2>3. CASE /\ Exit(IF hadError THEN "failure" ELSE "success")
             /\ UNCHANGED <<hadError, outcomes>>
    BY <1>0, <2>1, <2>3 DEF Exit
  <2>4. CASE /\ hadError' = TRUE /\ outcomes' = Append(outcomes, FALSE)
             /\ UNCHANGED <<phase, exit>>
    BY <1>0, <2>1, <2>4, OutcomeAdded
  <2>5. CASE phase' = "run" /\ UNCHANGED <<hadError, exit, outcomes>>
    BY <1>0, <2>1, <2>5
  <2> QED
    BY <2>1, <2>2, <2>3, <2>4, <2>5
<1>10. CASE ReplResult
  <2> DEFINE ok == reply.code = "OK"
  <2>1. /\ phase = "run" /\ phase' = "repl" /\ program' = program
        /\ hadError' = (hadError \/ ~ok) /\ outcomes' = Append(outcomes, ok)
    BY <1>10 DEF ReplResult, HadError
  <2>2. ok \in BOOLEAN
    OBVIOUS
  <2> HIDE DEF ok
  <2> QED
    BY <1>0, <2>1, <2>2, OutcomeAdded
<1>11. CASE UNCHANGED vars
  <2>1. UNCHANGED frontVars
    BY <1>11 DEF vars, frontVars
  <2> QED
    BY <1>1, <2>1
<1>12. CASE Step
  BY <1>1, <1>12 DEF Step
<1> QED
  BY <1>2, <1>3, <1>4, <1>5, <1>6, <1>7, <1>8, <1>9, <1>10, <1>11, <1>12 DEF Next

(* main and run_repl report what they have seen: for any programs, texts   *)
(* and files, the exit status is success exactly if no statement failed,   *)
(* and none was left out unless a dialogue or help was asked for.          *)
THEOREM ExitTruthful ==
  Spec => []ExitStatusTruthful
<1>1. ExitInv => ExitStatusTruthful
  BY DEF ExitInv, ExitStatusTruthful, AsksHelp
<1> QED
  BY <1>1, ExitInit, ExitNext, PTL DEF Spec

-----------------------------------------------------------------------------
(* The search for a meta file. *)

\* An order of a directory is a sequence with all its names.
LEMMA OrderCovers ==
  ASSUME NEW S, IsFiniteSet(S), NEW order \in SetToSeqs(S)
  PROVE  /\ Len(order) \in Nat /\ DOMAIN order = 1 .. Len(order)
         /\ \A i \in 1 .. Len(order) : order[i] \in S
         /\ \A m \in S : \E i \in 1 .. Len(order) : order[i] = m
<1> DEFINE n == Cardinality(S)
<1>1. n \in Nat
  BY FS_CardinalityType
<1>2. /\ order \in [1 .. n -> S]
      /\ \A i, j \in 1 .. n : i # j => order[i] # order[j]
  BY DEF SetToSeqs
<1>3. IsFiniteSet(1 .. n) /\ Cardinality(1 .. n) = n
  BY <1>1, FS_Interval
<1>4. order \in Injection(1 .. n, S)
  BY <1>2 DEF Injection, IsInjective
<1>5. order \in Surjection(1 .. n, S)
  BY <1>3, <1>4, FS_Injection
<1>6. \A m \in S : \E i \in 1 .. n : order[i] = m
  BY <1>5 DEF Surjection
<1>7. Len(order) = n
  BY <1>1, <1>2
<1> QED
  BY <1>1, <1>2, <1>6, <1>7

\* Where the search of a directory stops.
StopOf(metas, order, name) ==
  SelectInSeq(order, LAMBDA m : Stops(metas[m], name))

\* The search stops at a meta file that stops it, or passes them all.
LEMMA SearchStops ==
  ASSUME NEW metas, NEW order, NEW name, Len(order) \in Nat
  PROVE  \/ /\ StopOf(metas, order, name) = 0
            /\ \A i \in 1 .. Len(order) : ~Stops(metas[order[i]], name)
         \/ /\ StopOf(metas, order, name) \in 1 .. Len(order)
            /\ Stops(metas[order[StopOf(metas, order, name)]], name)
<1> DEFINE I == {i \in 1 .. Len(order) : Stops(metas[order[i]], name)}
<1>1. StopOf(metas, order, name) = IF I # {} THEN Min(I) ELSE 0
  BY DEF StopOf, SelectInSeq
<1>2. CASE I = {}
  BY <1>1, <1>2
<1>3. CASE I # {}
  <2>1. I \in SUBSET Nat
    OBVIOUS
  <2> HIDE DEF I
  <2>2. \E x \in I : \A y \in I : x <= y
    BY <1>3, <2>1, LeastNumber
  <2>3. Min(I) \in I
    BY <2>2 DEF Min
  <2> USE DEF I
  <2> QED
    BY <1>1, <1>3, <2>3
<1> QED
  BY <1>2, <1>3

\* With no file out of reach and one that declares the table at most, two orders
\* lead to the same file.
LEMMA PathOrderFree ==
  ASSUME NEW metas, IsFiniteSet(DOMAIN metas), NEW name,
         NEW left \in SetToSeqs(DOMAIN metas),
         NEW right \in SetToSeqs(DOMAIN metas),
         \A m \in DOMAIN metas : metas[m].kind = "file",
         \A m, n \in DOMAIN metas :
           Declares(metas[m], name) /\ Declares(metas[n], name) => m = n
  PROVE  FindSchemaPath(metas, left, name) = FindSchemaPath(metas, right, name)
<1> DEFINE l == StopOf(metas, left, name)
           r == StopOf(metas, right, name)
<1>1. \A m \in DOMAIN metas : Stops(metas[m], name) <=> Declares(metas[m], name)
  BY DEF Stops
<1>2. \/ l = 0 /\ \A m \in DOMAIN metas : ~Stops(metas[m], name)
      \/ l # 0 /\ left[l] \in DOMAIN metas /\ Stops(metas[left[l]], name)
  <2>1. /\ Len(left) \in Nat
        /\ \A i \in 1 .. Len(left) : left[i] \in DOMAIN metas
        /\ \A m \in DOMAIN metas : \E i \in 1 .. Len(left) : left[i] = m
    BY OrderCovers
  <2>2. \/ l = 0 /\ \A i \in 1 .. Len(left) : ~Stops(metas[left[i]], name)
        \/ l \in 1 .. Len(left) /\ Stops(metas[left[l]], name)
    BY <2>1, SearchStops
  <2> HIDE DEF l
  <2> QED
    BY <2>1, <2>2
<1>3. \/ r = 0 /\ \A m \in DOMAIN metas : ~Stops(metas[m], name)
      \/ r # 0 /\ right[r] \in DOMAIN metas /\ Stops(metas[right[r]], name)
  <2>1. /\ Len(right) \in Nat
        /\ \A i \in 1 .. Len(right) : right[i] \in DOMAIN metas
        /\ \A m \in DOMAIN metas : \E i \in 1 .. Len(right) : right[i] = m
    BY OrderCovers
  <2>2. \/ r = 0 /\ \A i \in 1 .. Len(right) : ~Stops(metas[right[i]], name)
        \/ r \in 1 .. Len(right) /\ Stops(metas[right[r]], name)
    BY <2>1, SearchStops
  <2> HIDE DEF r
  <2> QED
    BY <2>1, <2>2
<1>4. \/ l = 0 /\ r = 0
      \/ l # 0 /\ r # 0 /\ left[l] = right[r]
  BY <1>1, <1>2, <1>3
<1> HIDE DEF l, r
<1>5. /\ FindSchemaPath(metas, left, name) =
           CASE name \in DOMAIN metas ->
                  IF metas[name].kind = "denied" THEN <<"io", "none">>
                  ELSE <<"ok", name>>
             [] name \notin DOMAIN metas /\ l = 0 -> <<"schema", "none">>
             [] name \notin DOMAIN metas /\ l # 0 ->
                  IF metas[left[l]].kind = "file" THEN <<"ok", left[l]>>
                  ELSE <<"io", "none">>
      /\ FindSchemaPath(metas, right, name) =
           CASE name \in DOMAIN metas ->
                  IF metas[name].kind = "denied" THEN <<"io", "none">>
                  ELSE <<"ok", name>>
             [] name \notin DOMAIN metas /\ r = 0 -> <<"schema", "none">>
             [] name \notin DOMAIN metas /\ r # 0 ->
                  IF metas[right[r]].kind = "file" THEN <<"ok", right[r]>>
                  ELSE <<"io", "none">>
  BY DEF FindSchemaPath, StopOf, l, r
<1> QED
  BY <1>4, <1>5

\* load_schema depends on the order of the directory only through the file found.
LEMMA LoadOrderFree ==
  ASSUME NEW metas, NEW left, NEW right, NEW files_, NEW name,
         FindSchemaPath(metas, left, name) = FindSchemaPath(metas, right, name)
  PROVE  LoadSchema(metas, left, files_, name) = LoadSchema(metas, right, files_, name)
BY DEF LoadSchema

\* The catalog is the one the program was started with.
CatalogInv == program \in Programs /\ catalog = program.catalog

\* No step changes a meta file or the order of the directory.
LEMMA CatalogNext ==
  CatalogInv /\ [Next]_vars => CatalogInv' /\ UNCHANGED <<program, catalog>>
<1> SUFFICES ASSUME CatalogInv, [Next]_vars
             PROVE  UNCHANGED <<program, catalog>>
  BY DEF CatalogInv
<1>1. CASE UNCHANGED vars
  BY <1>1 DEF vars, frontVars, sessionVars, files
<1>2. CASE Step
  <2>1. UNCHANGED catalog
    BY <1>2 DEF Step, RunRequest, LexText, ParseTokens, LoadTable, InsertFails,
         InsertRow, SelectFails, ExecuteIndexSelect, ExecuteScan, files
  <2> QED
    BY <1>2, <2>1 DEF Step, frontVars
<1>3. CASE Request \/ ServerRestarts \/ ProcessAborts
  BY <1>3 DEF Request, ServerRestarts, ProcessAborts, Accept, Restart, Abort, files
<1>4. CASE StartRepl \/ StartOnce \/ EndOnce
  BY <1>4 DEF StartRepl, StartOnce, EndOnce, Accept, Exit, files, sessionVars
<1>5. CASE ReplEnds \/ ReplResult
  BY <1>5 DEF ReplEnds, ReplResult, Exit, files, sessionVars
<1>6. CASE ReplLine
  BY <1>6 DEF ReplLine, Accept, Exit, files, sessionVars
<1> QED
  BY <1>1, <1>2, <1>3, <1>4, <1>5, <1>6 DEF Next

\* So the catalog stays.
LEMMA CatalogKept ==
  Spec => []CatalogInv
<1>1. Init => CatalogInv
  BY DEF Init, SessionInit, CatalogInv
<1> QED
  BY <1>1, CatalogNext, PTL DEF Spec

(* find_schema_path walks the directory in the order of readdir.  For any  *)
(* directory, if its meta files can be read and no two declare the table   *)
(* of the statement, every order leads to the same schema or error.        *)
THEOREM SchemaOrderFree ==
  Spec => []ResolutionOrderFree
<1>1. CatalogInv => ResolutionOrderFree
  <2> SUFFICES ASSUME CatalogInv,
                      stage = "schema",
                      \A m \in DOMAIN catalog.metas : catalog.metas[m].kind = "file",
                      \A m, n \in DOMAIN catalog.metas :
                        /\ Declares(catalog.metas[m], statement.table[1])
                        /\ Declares(catalog.metas[n], statement.table[1])
                        => m = n,
                      NEW order \in SetToSeqs(DOMAIN catalog.metas)
               PROVE  LoadSchema(catalog.metas, order, csv, statement.table[1])
                        = LoadSchema(catalog.metas, catalog.order, csv,
                                     statement.table[1])
    BY DEF ResolutionOrderFree
  <2>1. /\ IsFiniteSet(DOMAIN catalog.metas)
        /\ catalog.order \in SetToSeqs(DOMAIN catalog.metas)
    BY ProgramAssumption DEF CatalogInv, IsProgram
  <2> QED
    BY <2>1, PathOrderFree, LoadOrderFree
<1> QED
  BY <1>1, CatalogKept, PTL

-----------------------------------------------------------------------------
(* The files and the table indexes. *)

\* The index of a file, as ensure_loaded builds it.
IndexOf(file) == [loaded |-> TRUE, offsets |-> RowStarts(file)]

\* What the files say and what is indexed of them, for files c, rows r, indexes x.
FilesFit(c, r, x) ==
  /\ c = [s \in DOMAIN c |-> c[s]] /\ x = [s \in DOMAIN c |-> x[s]]
  /\ \A s \in DOMAIN c : c[s] \in AllTexts /\ x[s] \in {NotLoaded, IndexOf(c[s])}
  /\ r = Contents(c)

\* ensure_loaded leaves the index of the file.
LEMMA LoadedFits ==
  ASSUME FilesFit(csv, rows, index), Storage \in DOMAIN csv
  PROVE  /\ Loaded = IndexOf(File)
         /\ FilesFit(csv, rows, [index EXCEPT ![Storage] = Loaded])
<1>1. index[Storage] \in {NotLoaded, IndexOf(csv[Storage])}
  BY DEF FilesFit
<1>2. Loaded = IndexOf(File)
  <2>1. ~NotLoaded.loaded /\ IndexOf(csv[Storage]).loaded
    BY DEF NotLoaded, IndexOf
  <2> QED
    BY <1>1, <2>1 DEF Loaded, IndexOf, File
<1> DEFINE x == [index EXCEPT ![Storage] = Loaded]
<1>3. x = [s \in DOMAIN csv |-> x[s]]
  BY DEF FilesFit
<1>4. \A s \in DOMAIN csv : x[s] = IF s = Storage THEN Loaded ELSE index[s]
  BY DEF FilesFit
<1> HIDE DEF x
<1>5. \A s \in DOMAIN csv : x[s] \in {NotLoaded, IndexOf(csv[s])}
  BY <1>2, <1>4 DEF FilesFit, File
<1>6. FilesFit(csv, rows, x)
  BY <1>3, <1>5 DEF FilesFit
<1> QED
  BY <1>2, <1>6 DEF x

\* append_row_csv and table_index_register_row leave the index of the file.
LEMMA AppendFits ==
  ASSUME NEW c, NEW r, NEW x, FilesFit(c, r, x), NEW s \in DOMAIN c, c[s] # <<>>,
         NEW vs \in Seq(AllTexts), vs # <<>>,
         \A i \in 1 .. Len(vs) : NoBreak(vs[i])
  PROVE  FilesFit([c EXCEPT ![s] = AppendRow(@, vs)],
                  Contents([c EXCEPT ![s] = AppendRow(@, vs)]),
                  [x EXCEPT ![s] =
                     [IndexOf(c[s]) EXCEPT !.offsets = Append(@, AppendStart(c[s]))]])
<1> DEFINE file == c[s]
           new == AppendRow(file, vs)
           y == [IndexOf(file) EXCEPT !.offsets = Append(@, AppendStart(file))]
           d == [c EXCEPT ![s] = new]
           z == [x EXCEPT ![s] = y]
<1>1. file \in AllTexts /\ file \in Seq(Pieces) /\ file # <<>>
  BY DEF FilesFit, AllTexts
<1>2. IsRowText(RowLine(vs))
  BY RowLineText
<1>3. new = Extended(file, RowLine(vs)) /\ new \in AllTexts
  <2> HIDE DEF file
  <2> QED
    BY <1>1, AppendRowText
<1>4. RowStarts(new) = Append(RowStarts(file), AppendStart(file))
  <2> HIDE DEF file
  <2>1. RowStarts(Extended(file, RowLine(vs))) = Append(RowStarts(file), AppendStart(file))
    BY <1>1, <1>2, StartsGrow
  <2> QED
    BY <1>3, <2>1
<1> HIDE DEF file, new
<1>5. y = IndexOf(new)
  <2> DEFINE i == IndexOf(file)
             yes == TRUE
             o == Append(RowStarts(file), AppendStart(file))
  <2>1. i = [loaded |-> yes, offsets |-> RowStarts(file)]
    BY DEF IndexOf
  <2>2. Append(i.offsets, AppendStart(file)) = o
    BY <2>1
  <2>3. y = [i EXCEPT !.offsets = Append(i.offsets, AppendStart(file))]
    OBVIOUS
  <2> HIDE DEF i, o, y, yes
  <2>4. [i EXCEPT !.offsets = o] = [loaded |-> yes, offsets |-> o]
    BY <2>1
  <2> QED
    BY <1>4, <2>2, <2>3, <2>4 DEF IndexOf, o, yes
<1> HIDE DEF y
<1>6. /\ DOMAIN d = DOMAIN c /\ d = [t \in DOMAIN d |-> d[t]]
      /\ \A t \in DOMAIN c : d[t] = IF t = s THEN new ELSE c[t]
  BY DEF FilesFit
<1>7. /\ z = [t \in DOMAIN c |-> z[t]]
      /\ \A t \in DOMAIN c : z[t] = IF t = s THEN y ELSE x[t]
  BY DEF FilesFit
<1> HIDE DEF d, z
<1>8. \A t \in DOMAIN c : d[t] \in AllTexts /\ z[t] \in {NotLoaded, IndexOf(d[t])}
  BY <1>3, <1>5, <1>6, <1>7 DEF FilesFit
<1>9. FilesFit(d, Contents(d), z)
  BY <1>6, <1>7, <1>8 DEF FilesFit
<1> QED
  BY <1>9 DEF d, z, y, new, file

\* execution_runtime_reset forgets the indexes.
LEMMA ForgetFits ==
  ASSUME FilesFit(csv, rows, index)
  PROVE  FilesFit(csv, rows, [s \in DOMAIN csv |-> NotLoaded])
BY DEF FilesFit

-----------------------------------------------------------------------------
(* The request being run. *)

\* The end of the tokens is their last one only.
EndsLast(list) == \A i \in 1 .. Len(list) : list[i].type = "end" => i = Len(list)

\* What is known of a request at stage g with text t, tokens k and statement s,
\* or of the last one, which was answered with a code: the text has been lexed
\* and parsed as far as the stage says.
RequestFits(g, t, k, s, code) ==
  /\ t \in AllTexts /\ k \in Seq(Tokens) /\ EndsLast(k) /\ s \in Statements
  /\ g \in {"parse", "schema", "execute"} => Lex(t).ok /\ k = Lex(t).tokens
  /\ g \in {"schema", "execute"} => Parse(k).at = "done" /\ s = Parse(k).statement
  /\ g = "idle" /\ code \in {"SQL_PARSE_ERROR", "UNSUPPORTED_SQL"} =>
       Parse(k).at # "done"

\* What is known of the table with schema h of a statement that is about to run.
TableFits(g, h, c) ==
  g = "execute" =>
    /\ h.storage \in DOMAIN c /\ c[h.storage] # <<>>
    /\ h.columns \in Seq(Seq(Pieces)) /\ h.columns # <<>>
    /\ <<"id">> \notin ToSet(h.columns)

SessionInv ==
  /\ FilesFit(csv, rows, index)
  /\ RequestFits(stage, text, tokens, statement, reply.code)
  /\ TableFits(stage, schema, csv)

\* A schema that load_schema returns has a file with its columns.
LEMMA SchemaFits ==
  ASSUME NEW metas, NEW order, NEW name, NEW c, \A s \in DOMAIN c : c[s] \in AllTexts,
         LoadSchema(metas, order, c, name).status = "ok"
  PROVE  TableFits("execute", LoadSchema(metas, order, c, name), c)
<1> DEFINE h == LoadSchema(metas, order, c, name)
           found == FindSchemaPath(metas, order, name)
           storage == found[2]
           meta == metas[storage]
           columns == ParseLine(LastValue(meta, "columns").value).fields
           header == HeaderStatus(c, storage, columns)
           line == HeaderOf(c[storage])
<1>1. h = IF found[1] # "ok" THEN NoSchema(found[1])
          ELSE IF \/ ~MetaValid(meta)
                  \/ LastValue(meta, "table").value # <<name>> /\ storage # name
          THEN NoSchema("schema")
          ELSE IF header # "ok" THEN NoSchema(header)
          ELSE [status |-> "ok", storage |-> storage, columns |-> columns]
  BY DEF LoadSchema
<1>2. \A x : NoSchema(x).status = x
  BY DEF NoSchema
<1>3. MetaValid(meta) => <<"id">> \notin ToSet(columns)
  BY Zenon DEF MetaValid
<1>4. header = "ok" =>
        /\ storage \in DOMAIN c /\ c[storage] # <<>>
        /\ ParseLine(line).ok /\ ParseLine(line).fields = columns
  BY DEF HeaderStatus
<1> HIDE DEF h, found, meta, columns, header, line
<1>5. /\ header = "ok" /\ MetaValid(meta)
      /\ h = [status |-> "ok", storage |-> storage, columns |-> columns]
  BY <1>1, <1>2 DEF h
<1>6. line \in Seq(Pieces)
  <2> DEFINE file == c[storage]
  <2>1. file \in Seq(Pieces) /\ file # <<>>
    BY <1>4, <1>5 DEF AllTexts
  <2> HIDE DEF file
  <2>2. 1 \in 1 .. Len(file)
    BY <2>1, EmptySeq
  <2>3. LineAt(file, 1) \in Seq(Pieces)
    BY <2>1, <2>2, LineAtTypes
  <2> QED
    BY <2>3 DEF line, HeaderOf, file
<1>7. columns \in Seq(Seq(Pieces)) /\ columns # <<>>
  BY <1>4, <1>5, <1>6, ParseLineTypes
<1>8. h.storage = storage /\ h.columns = columns
  BY <1>5
<1> QED
  BY <1>3, <1>4, <1>5, <1>7, <1>8 DEF TableFits, h

\* What accepting a text leaves.
LEMMA AcceptKeeps ==
  ASSUME SessionInv, NEW sql \in AllTexts, NEW blanks, NEW limit,
         Accept(sql, blanks, limit)
  PROVE  SessionInv'
<1>1. /\ text' = sql /\ UNCHANGED <<csv, rows, index, tokens, statement, schema>>
      /\ \/ /\ stage' = "idle"
            /\ reply' \in {Failed("INVALID_SQL_ARGUMENT"), Failed("PAYLOAD_TOO_LARGE")}
         \/ stage' = "lex"
  BY DEF Accept, Finish, files
<1>2. RequestFits(stage', text', tokens', statement', reply'.code)
  <2>1. \/ stage' = "lex"
        \/ /\ stage' = "idle"
           /\ reply'.code \in {"INVALID_SQL_ARGUMENT", "PAYLOAD_TOO_LARGE"}
    BY <1>1 DEF Failed
  <2> QED
    BY <1>1, <2>1 DEF SessionInv, RequestFits
<1>3. TableFits(stage', schema', csv')
  BY <1>1 DEF TableFits
<1> QED
  BY <1>1, <1>2, <1>3 DEF SessionInv

\* The steps before the execution.
LEMMA FrontKeeps ==
  ASSUME SessionInv, LexText \/ ParseTokens \/ LoadTable
  PROVE  SessionInv'
<1>0. /\ FilesFit(csv, rows, index)
      /\ RequestFits(stage, text, tokens, statement, reply.code)
  BY DEF SessionInv
<1>1. CASE LexText
  <2>1. /\ tokens' = Lex(text).tokens /\ UNCHANGED <<csv, rows, index, text, statement>>
        /\ \/ Lex(text).ok /\ stage' = "parse"
           \/ stage' = "idle" /\ reply' = Failed("SQL_LEX_ERROR")
    BY <1>1 DEF LexText, Finish, files
  <2>2. text \in AllTexts /\ statement \in Statements
    BY <1>0 DEF RequestFits
  <2>3. Lex(text).tokens \in Seq(Tokens) /\ EndsLast(Lex(text).tokens)
    BY <2>2, LexTokens DEF EndsLast
  <2>4. \/ Lex(text).ok /\ stage' = "parse"
        \/ stage' = "idle" /\ reply'.code = "SQL_LEX_ERROR"
    BY <2>1 DEF Failed
  <2>5. RequestFits(stage', text', tokens', statement', reply'.code)
    BY <2>1, <2>2, <2>3, <2>4 DEF RequestFits
  <2>6. TableFits(stage', schema', csv')
    BY <2>1 DEF TableFits
  <2> QED
    BY <1>0, <2>1, <2>5, <2>6 DEF SessionInv
<1>2. CASE ParseTokens
  <2>1. /\ stage = "parse" /\ statement' = Parse(tokens).statement
        /\ UNCHANGED <<csv, rows, index, text, tokens>>
        /\ \/ Parse(tokens).at = "done" /\ stage' = "schema"
           \/ Parse(tokens).at # "done" /\ stage' = "idle"
    BY <1>2 DEF ParseTokens, Finish, files
  <2>2. /\ text \in AllTexts /\ tokens \in Seq(Tokens) /\ EndsLast(tokens)
        /\ Lex(text).ok /\ tokens = Lex(text).tokens
    BY <1>0, <2>1 DEF RequestFits
  <2>3. Parse(tokens).statement \in Statements
    <3>1. Parse(tokens) = Parsed(tokens)
      BY DEF Parse, Parsed, ParseStart
    <3>2. PICK p : p \in Tokens
      <4>1. <<>> \in AllTexts
        BY DEF AllTexts, IsText
      <4>2. [type |-> "end", text |-> <<>>] \in Tokens
        BY <4>1 DEF Tokens, TokenTypes
      <4> QED
        BY <4>2
    <3>3. Parsed(tokens) \in Parsers
      BY <2>2, <3>2, Parseds
    <3> QED
      BY <3>1, <3>3 DEF Parsers
  <2>4. RequestFits(stage', text', tokens', statement', reply'.code)
    <3> DEFINE done == Parse(tokens)
    <3>1. done.statement \in Statements
      BY <2>3
    <3> HIDE DEF done
    <3>2. \/ done.at = "done" /\ stage' = "schema"
          \/ done.at # "done" /\ stage' = "idle"
      BY <2>1 DEF done
    <3>3. tokens' = tokens /\ text' = text /\ statement' = done.statement
      BY <2>1 DEF done
    <3>4. Parse(tokens') = done
      BY <3>3 DEF done
    <3> QED
      BY <2>2, <3>1, <3>2, <3>3, <3>4 DEF RequestFits
  <2>5. TableFits(stage', schema', csv')
    BY <2>1 DEF TableFits
  <2> QED
    BY <1>0, <2>1, <2>4, <2>5 DEF SessionInv
<1>3. CASE LoadTable
  <2> DEFINE h == LoadSchema(catalog.metas, catalog.order, csv, statement.table[1])
  <2>1. /\ stage = "schema" /\ schema' = h
        /\ UNCHANGED <<csv, rows, index, text, tokens, statement>>
        /\ \/ h.status = "ok" /\ stage' = "execute"
           \/ /\ stage' = "idle"
              /\ reply' \in {Failed("STORAGE_IO_ERROR"), Failed("SCHEMA_LOAD_ERROR")}
    BY <1>3 DEF LoadTable, Finish, files
  <2>2. h.status = "ok" => TableFits("execute", h, csv)
    BY <1>0, SchemaFits DEF FilesFit
  <2> HIDE DEF h
  <2>3. TableFits(stage', schema', csv')
    <3>1. CASE stage' = "idle"
      BY <3>1 DEF TableFits
    <3>2. CASE h.status = "ok" /\ stage' = "execute"
      BY <2>1, <2>2, <3>2
    <3> QED
      BY <2>1, <3>1, <3>2
  <2>4. \/ stage' = "execute"
        \/ stage' = "idle" /\ reply'.code \in {"STORAGE_IO_ERROR", "SCHEMA_LOAD_ERROR"}
    BY <2>1 DEF Failed
  <2>5. RequestFits(stage', text', tokens', statement', reply'.code)
    BY <1>0, <2>1, <2>4 DEF RequestFits
  <2> QED
    BY <1>0, <2>1, <2>3, <2>5 DEF SessionInv
<1> QED
  BY <1>1, <1>2, <1>3

\* An answer that ends a request leaves what is known of it, unless it says that
\* the text was not parsed.
LEMMA AnswerKeeps ==
  ASSUME SessionInv, stage' = "idle",
         reply'.code \notin {"SQL_PARSE_ERROR", "UNSUPPORTED_SQL"},
         UNCHANGED <<text, tokens, statement>>
  PROVE  /\ RequestFits(stage', text', tokens', statement', reply'.code)
         /\ TableFits(stage', schema', csv')
<1>1. RequestFits(stage', text', tokens', statement', reply'.code)
  BY DEF SessionInv, RequestFits
<1>2. TableFits(stage', schema', csv')
  BY DEF TableFits
<1> QED
  BY <1>1, <1>2

\* The codes of classify_execution_error.
LEMMA ErrorCodes ==
  ASSUME NEW cause \in {"argument", "open", "row"}
  PROVE  Failed(ExecutionError(cause)).code \in
           {"INVALID_SQL_ARGUMENT", "STORAGE_IO_ERROR", "INDEX_REBUILD_ERROR",
            "ENGINE_EXECUTION_ERROR"}
<1>1. ExecutionError(cause) \in
        {"INVALID_SQL_ARGUMENT", "STORAGE_IO_ERROR", "INDEX_REBUILD_ERROR",
         "ENGINE_EXECUTION_ERROR"}
  BY DEF ExecutionError
<1> QED
  BY <1>1 DEF Failed

\* The row of an INSERT that is not refused: a text without a line end for every
\* column.
LEMMA InsertedTypes ==
  ASSUME SessionInv, stage = "execute", ~InsertRefused
  PROVE  /\ InsertedRow \in Seq(AllTexts) /\ InsertedRow # <<>>
         /\ Len(InsertedRow) = Len(schema.columns)
         /\ \A i \in 1 .. Len(InsertedRow) : NoBreak(InsertedRow[i])
<1> DEFINE columns == schema.columns
           named == statement.columns
           values == statement.values
           n == Len(columns)
           I(c) == SelectInSeq(named, LAMBDA m : FindColumn(schema, m) = c)
           V(c) == IF I(c) = 0 THEN <<>> ELSE values[I(c)]
<1>1. columns \in Seq(Seq(Pieces)) /\ columns # <<>>
  BY DEF SessionInv, TableFits
<1>2. named \in Seq(AllTexts) /\ values \in Seq(AllTexts)
  BY DEF SessionInv, RequestFits, Statements
<1>3. /\ Len(named) = Len(values)
      /\ \A i \in DOMAIN named : "newline" \notin ToSet(values[i])
  BY DEF InsertRefused
<1>4. InsertedRow = [c \in DOMAIN columns |-> V(c)]
  BY DEF InsertedRow
<1> HIDE DEF columns, named, values
<1>5. ASSUME NEW c
      PROVE  I(c) = 0 \/ I(c) \in 1 .. Len(named)
  <2> DEFINE J == {i \in 1 .. Len(named) : FindColumn(schema, named[i]) = c}
  <2>1. I(c) = IF J # {} THEN Min(J) ELSE 0
    BY DEF SelectInSeq
  <2>2. Len(named) \in Nat /\ J \in SUBSET (1 .. Len(named))
    BY <1>2
  <2> HIDE DEF J
  <2>3. J # {} => Min(J) \in J
    BY <2>2, FirstAndLast
  <2> QED
    BY <2>1, <2>2, <2>3
<1>6. ASSUME NEW i \in 1 .. Len(named)
      PROVE  values[i] \in AllTexts /\ NoBreak(values[i])
  <2>1. i \in DOMAIN named /\ values[i] \in AllTexts
    BY <1>2, <1>3
  <2> DEFINE v == values[i]
  <2>2. v \in Seq(Pieces) /\ "newline" \notin ToSet(v)
    BY <1>3, <2>1 DEF AllTexts
  <2> HIDE DEF v
  <2>3. NoBreak(v)
    BY <2>2 DEF NoBreak, ToSet
  <2> QED
    BY <2>1, <2>3 DEF v
<1>7. <<>> \in AllTexts /\ NoBreak(<<>>)
  BY DEF AllTexts, IsText, NoBreak
<1>8. ASSUME NEW c
      PROVE  V(c) \in AllTexts /\ NoBreak(V(c))
  <2> HIDE DEF I
  <2> QED
    BY <1>5, <1>6, <1>7
<1> HIDE DEF V
<1>9. DOMAIN columns = 1 .. n /\ n \in Nat /\ n # 0
  BY <1>1, EmptySeq
<1>10. InsertedRow \in [1 .. n -> AllTexts] /\ \A c \in 1 .. n : NoBreak(InsertedRow[c])
  BY <1>4, <1>8, <1>9
<1> DEFINE r == InsertedRow
<1> HIDE DEF n, r
<1>11. r \in Seq(AllTexts) /\ Len(r) = n
  BY <1>9, <1>10 DEF r
<1>12. r # <<>>
  BY <1>9, <1>11
<1> QED
  BY <1>10, <1>11, <1>12 DEF r, n, columns

\* The steps of the execution.
LEMMA ExecuteKeeps ==
  ASSUME SessionInv,
         InsertFails \/ InsertRow \/ SelectFails \/ ExecuteIndexSelect \/ ExecuteScan
  PROVE  SessionInv'
<1>0. FilesFit(csv, rows, index) /\ TableFits(stage, schema, csv)
  BY DEF SessionInv
<1>1. stage = "execute"
  BY DEF InsertFails, InsertRow, SelectFails, ExecuteIndexSelect, ExecuteScan
<1>2. Storage \in DOMAIN csv /\ csv[Storage] # <<>>
  BY <1>0, <1>1 DEF TableFits, Storage
<1> DEFINE loaded == [index EXCEPT ![Storage] = Loaded]
<1>3. Loaded = IndexOf(File) /\ FilesFit(csv, rows, loaded)
  BY <1>0, <1>2, LoadedFits
<1> HIDE DEF loaded
<1>4. \A cause \in {"argument", "open", "row"} :
        Failed(ExecutionError(cause)).code \notin {"SQL_PARSE_ERROR", "UNSUPPORTED_SQL"}
  BY ErrorCodes
<1>5. \A returned, n :
        Succeeded(returned, n).code \notin {"SQL_PARSE_ERROR", "UNSUPPORTED_SQL"}
  BY DEF Succeeded
<1>6. CASE InsertRow
  <2> DEFINE c == [csv EXCEPT ![Storage] = AppendRow(@, InsertedRow)]
             x == [index EXCEPT ![Storage] =
                     [Loaded EXCEPT !.offsets = Append(@, AppendStart(File))]]
  <2>1. /\ ~InsertRefused /\ csv' = c /\ rows' = Contents(c) /\ index' = x
        /\ stage' = "idle" /\ reply' = Succeeded(<<>>, 1)
        /\ UNCHANGED <<text, tokens, statement>>
    BY <1>6 DEF InsertRow, Finish, request
  <2>2. /\ InsertedRow \in Seq(AllTexts) /\ InsertedRow # <<>>
        /\ \A i \in 1 .. Len(InsertedRow) : NoBreak(InsertedRow[i])
    BY <1>1, <2>1, InsertedTypes
  <2>3. x = [index EXCEPT ![Storage] =
               [IndexOf(csv[Storage]) EXCEPT !.offsets = Append(@, AppendStart(csv[Storage]))]]
    BY <1>3 DEF File
  <2> HIDE DEF x
  <2>4. FilesFit(c, Contents(c), x)
    <3> DEFINE vs == InsertedRow
               s == Storage
    <3>1. /\ vs \in Seq(AllTexts) /\ vs # <<>> /\ \A i \in 1 .. Len(vs) : NoBreak(vs[i])
          /\ s \in DOMAIN csv /\ csv[s] # <<>>
      BY <1>2, <2>2
    <3> HIDE DEF vs, s
    <3>2. FilesFit([csv EXCEPT ![s] = AppendRow(@, vs)],
                  Contents([csv EXCEPT ![s] = AppendRow(@, vs)]),
                  [index EXCEPT ![s] =
                     [IndexOf(csv[s]) EXCEPT !.offsets = Append(@, AppendStart(csv[s]))]])
      BY <1>0, <3>1, AppendFits
    <3> QED
      BY <2>3, <3>2 DEF vs, s
  <2> HIDE DEF c
  <2>5. reply'.code \notin {"SQL_PARSE_ERROR", "UNSUPPORTED_SQL"}
    BY <1>5, <2>1
  <2> QED
    BY <2>1, <2>4, <2>5, AnswerKeeps DEF SessionInv
<1>7. CASE InsertFails
  <2>1. /\ UNCHANGED <<csv, rows, text, tokens, statement>>
        /\ index' = index \/ index' = loaded
        /\ \E cause \in {"argument", "open", "row"} : FinishFailed(cause)
    BY <1>7 DEF InsertFails, files, request, loaded
  <2>2. stage' = "idle" /\ reply'.code \notin {"SQL_PARSE_ERROR", "UNSUPPORTED_SQL"}
    BY <1>4, <2>1 DEF FinishFailed, Finish
  <2>3. FilesFit(csv', rows', index')
    BY <1>0, <1>3, <2>1
  <2> QED
    BY <2>1, <2>2, <2>3, AnswerKeeps DEF SessionInv
<1>8. CASE SelectFails
  <2>1. /\ UNCHANGED <<csv, rows, index, text, tokens, statement>>
        /\ FinishFailed("argument")
    BY <1>8 DEF SelectFails, files, request
  <2>2. stage' = "idle" /\ reply'.code \notin {"SQL_PARSE_ERROR", "UNSUPPORTED_SQL"}
    BY <1>4, <2>1 DEF FinishFailed, Finish
  <2> QED
    BY <1>0, <2>1, <2>2, AnswerKeeps DEF SessionInv
<1>9. CASE ExecuteIndexSelect
  <2>1. /\ UNCHANGED <<csv, rows, text, tokens, statement>>
        /\ index' = index \/ index' = loaded
        /\ FinishFailed("row") \/ \E returned, n : Finish(Succeeded(returned, n))
    BY <1>9, Zenon DEF ExecuteIndexSelect, files, request, loaded
  <2>2. stage' = "idle" /\ reply'.code \notin {"SQL_PARSE_ERROR", "UNSUPPORTED_SQL"}
    BY <1>4, <1>5, <2>1 DEF FinishFailed, Finish
  <2>3. FilesFit(csv', rows', index')
    BY <1>0, <1>3, <2>1
  <2> QED
    BY <2>1, <2>2, <2>3, AnswerKeeps DEF SessionInv
<1>10. CASE ExecuteScan
  <2>1. /\ UNCHANGED <<csv, rows, index, text, tokens, statement>>
        /\ FinishFailed("row") \/ \E returned, n : Finish(Succeeded(returned, n))
    BY <1>10, Zenon DEF ExecuteScan, files, request
  <2>2. stage' = "idle" /\ reply'.code \notin {"SQL_PARSE_ERROR", "UNSUPPORTED_SQL"}
    BY <1>4, <1>5, <2>1 DEF FinishFailed, Finish
  <2> QED
    BY <1>0, <2>1, <2>2, AnswerKeeps DEF SessionInv
<1> QED
  BY <1>6, <1>7, <1>8, <1>9, <1>10

-----------------------------------------------------------------------------
(* The programs around it. *)

\* The texts that a program has.
LEMMA ProgramTexts ==
  ASSUME CatalogInv
  PROVE  /\ program.csv = [s \in DOMAIN program.csv |-> program.csv[s]]
         /\ \A s \in DOMAIN program.csv : program.csv[s] \in AllTexts
         /\ program.requests \in Seq(STRING)
         /\ \A i \in DOMAIN program.requests :
              \A sql \in RequestTexts[program.requests[i]] : sql \in AllTexts
         /\ program.args \in Seq(AllTexts)
         /\ program.stdin \in AllTexts
         /\ \A f \in DOMAIN program.paths : program.paths[f].text \in AllTexts
<1> DEFINE p == program
<1>1. IsProgram(p)
  BY ProgramAssumption DEF CatalogInv
<1> HIDE DEF p
<1>2. \A t : IsText(t) => t \in AllTexts
  BY DEF IsText, AllTexts
<1>3. /\ p.csv \in [DOMAIN p.csv -> Seq(Pieces)] /\ \A s \in DOMAIN p.csv : IsText(p.csv[s])
      /\ p.requests \in Seq(STRING)
      /\ \A i \in DOMAIN p.requests : \A sql \in RequestTexts[p.requests[i]] : IsText(sql)
      /\ p.args \in Seq(Seq(Pieces)) /\ \A i \in DOMAIN p.args : IsText(p.args[i])
      /\ IsText(p.stdin)
      /\ \A f \in DOMAIN p.paths : IsText(p.paths[f].text)
  BY <1>1 DEF IsProgram
<1>4. p.args \in Seq(AllTexts)
  <2> DEFINE a == p.args
  <2>1. a \in Seq(Seq(Pieces)) /\ \A i \in DOMAIN a : a[i] \in AllTexts
    BY <1>2, <1>3
  <2> HIDE DEF a
  <2>2. a \in Seq(AllTexts)
    BY <2>1
  <2> QED
    BY <2>2 DEF a
<1>5. p.csv = [s \in DOMAIN p.csv |-> p.csv[s]]
  BY <1>3
<1> QED
  BY <1>2, <1>3, <1>4, <1>5 DEF p

\* What load_sql_from_argument returns.
LEMMA ArgumentTexts ==
  ASSUME CatalogInv, NEW value \in AllTexts
  PROVE  LoadSqlFromArgument(value).text \in AllTexts
<1>1. <<>> \in AllTexts /\ NoSql.text = <<>> /\ \A t : Sql(t).text = t
  BY DEF AllTexts, IsText, NoSql, Sql
<1>2. KindOf(value) = "file" => program.paths[value].text \in AllTexts
  BY ProgramTexts DEF KindOf
<1>3. ReadEntireFile(value).text \in AllTexts
  BY <1>1, <1>2 DEF ReadEntireFile
<1> QED
  BY <1>1, <1>3 DEF LoadSqlFromArgument

\* What join_arguments_as_sql returns.
LEMMA JoinTexts ==
  ASSUME NEW args \in Seq(AllTexts)
  PROVE  JoinArguments(args).text \in AllTexts
<1>1. <<>> \in AllTexts /\ NoSql.text = <<>> /\ \A t : Sql(t).text = t
  BY DEF AllTexts, IsText, NoSql, Sql
<1>2. Blank \in Pieces /\ Blank \notin Words
  BY WordsApart DEF Pieces, Spaces
<1>3. Separated(Blank, args) \in AllTexts
  BY <1>2, SeparatedTexts
<1>4. JoinArguments(args) = IF args = <<>> THEN NoSql ELSE Sql(Separated(Blank, args))
  BY Zenon DEF JoinArguments, Separated
<1> QED
  BY <1>1, <1>3, <1>4

\* What load_noninteractive_sql returns.
LEMMA OnceTexts ==
  ASSUME CatalogInv
  PROVE  LoadNoninteractiveSql(program.args).text \in AllTexts
<1> DEFINE args == program.args
           first == args[1]
           result == LoadNoninteractiveSql(args)
<1>0. args \in Seq(AllTexts)
  BY ProgramTexts
<1>1. /\ <<>> \in AllTexts /\ NoSql.text = <<>> /\ Help.text = <<>>
      /\ \A t : Sql(t).text = t
  BY DEF AllTexts, IsText, NoSql, Sql, Help
<1>2. ReadStream.text \in AllTexts
  BY <1>1, ProgramTexts DEF ReadStream
<1>3. \A value : ReadEntireFile(value).text \in AllTexts
  <2>1. \A value : KindOf(value) = "file" => program.paths[value].text \in AllTexts
    BY ProgramTexts DEF KindOf
  <2> QED
    BY <1>1, <2>1 DEF ReadEntireFile
<1>4. args # <<>> => Tail(args) \in Seq(AllTexts) /\ first \in AllTexts
  <2> HIDE DEF args
  <2> QED
    BY <1>0, EmptySeq
<1>5. JoinArguments(args).text \in AllTexts
  <2> HIDE DEF args
  <2> QED
    BY <1>0, JoinTexts
<1>6. args # <<>> => /\ JoinArguments(Tail(args)).text \in AllTexts
                     /\ LoadSqlFromArgument(first).text \in AllTexts
  <2> HIDE DEF args
  <2> QED
    BY <1>4, JoinTexts, ArgumentTexts
<1>7. \/ result = ReadStream \/ result = Help \/ result = NoSql
      \/ args # <<>> /\ result = JoinArguments(Tail(args))
      \/ args # <<>> /\ result = LoadSqlFromArgument(first)
      \/ result = JoinArguments(args)
      \/ \E value : result = ReadEntireFile(value)
  <2> HIDE DEF args
  <2>1. Len(args) = 1 => args # <<>>
    OBVIOUS
  <2> DEFINE fileOf == CASE Len(args) = 1 -> NoSql
                         [] Len(args) > 1 /\ args[2] = Dash -> ReadStream
                         [] Len(args) > 2 /\ args[2] # Dash -> NoSql
                         [] OTHER -> ReadEntireFile(args[2])
             other == CASE first # <<>> /\ first[1] = "-" /\ first # Dash -> NoSql
                        [] args = <<Dash>> -> ReadStream
                        [] Len(args) = 1 /\ (first = <<>> \/ first[1] # "-") ->
                             LoadSqlFromArgument(first)
                        [] OTHER -> JoinArguments(args)
  <2>2. \/ result = ReadStream \/ result = Help \/ result = fileOf \/ result = other
        \/ args # <<>> /\ result = JoinArguments(Tail(args))
    BY DEF LoadNoninteractiveSql
  <2>3. fileOf \in {NoSql, ReadStream, ReadEntireFile(args[2])}
    OBVIOUS
  <2>4. \/ other = NoSql \/ other = ReadStream \/ other = JoinArguments(args)
        \/ args # <<>> /\ other = LoadSqlFromArgument(first)
    BY <2>1
  <2> HIDE DEF fileOf, other, result
  <2> QED
    BY <2>2, <2>3, <2>4, Zenon
<1> HIDE DEF result
<1> QED
  BY <1>1, <1>2, <1>3, <1>5, <1>6, <1>7 DEF result

\* What fgets takes of the input, and what it leaves.
LEMMA LineTexts ==
  ASSUME input \in AllTexts
  PROVE  Trim(SubSeq(input, 1, LineLength)) \in AllTexts /\ RestOfInput \in AllTexts
<1> DEFINE n == Len(input)
           end == SelectInSeq(input, LAMBDA p : p = "newline")
           length == IF end = 0 THEN n ELSE end
           taken == SubSeq(input, 1, LineLength)
           rest == SubSeq(input, LineLength + 1, n)
<1>1. input \in Seq(Pieces) /\ IsText(input) /\ n \in Nat
  BY DEF AllTexts
<1>2. end = 0 \/ end \in 1 .. n
  <2> DEFINE J == {i \in 1 .. n : input[i] = "newline"}
  <2>1. end = IF J # {} THEN Min(J) ELSE 0
    BY DEF SelectInSeq
  <2>2. J \in SUBSET (1 .. n)
    OBVIOUS
  <2> HIDE DEF J, end, n
  <2>3. J # {} => Min(J) \in J
    BY <1>1, <2>2, FirstAndLast
  <2> QED
    BY <2>1, <2>2, <2>3
<1>3. LineLength = IF length > LineMax THEN LineMax ELSE length
  BY DEF LineLength
<1>4. LineLength \in 0 .. n /\ LineLength + 1 \in 1 .. n + 1
  <2> HIDE DEF end, n
  <2> QED
    BY <1>1, <1>2, <1>3, BoundsAssumption
<1> DEFINE m == LineLength
<1>5. taken \in Seq(Pieces) /\ IsText(taken)
  <2> HIDE DEF m
  <2>1. 1 \in 1 .. Len(input) + 1 /\ m \in 0 .. Len(input)
    BY <1>1, <1>4 DEF m
  <2>2. SubSeq(input, 1, m) \in Seq(Pieces) /\ IsText(SubSeq(input, 1, m))
    BY <1>1, <2>1, PartTypes
  <2> QED
    BY <2>2 DEF m
<1>6. rest \in Seq(Pieces) /\ IsText(rest)
  <2> DEFINE k == LineLength + 1
  <2> HIDE DEF k
  <2>1. k \in 1 .. Len(input) + 1 /\ Len(input) \in 0 .. Len(input)
    BY <1>1, <1>4 DEF k
  <2>2. SubSeq(input, k, Len(input)) \in Seq(Pieces) /\ IsText(SubSeq(input, k, Len(input)))
    BY <1>1, <2>1, PartTypes
  <2> QED
    BY <2>2 DEF k
<1> HIDE DEF taken, rest
<1>7. Trim(taken) \in Seq(Pieces) /\ IsText(Trim(taken))
  BY <1>5, TrimTypes
<1> QED
  BY <1>6, <1>7 DEF AllTexts, taken, rest, RestOfInput

Codes == ClientErrors \cup ServerErrors \cup {"OK", "none"}

\* The variables that hold a word, a flag or a number.
PlainInv ==
  /\ phase \in {"serving", "start", "once", "repl", "run", "ended"}
  /\ stage \in {"idle", "lex", "parse", "schema", "execute", "aborted"}
  /\ exit \in {"none", "success", "failure", "signal"}
  /\ hadError \in BOOLEAN /\ overrun \in BOOLEAN
  /\ sent \in 0 .. Len(program.requests) /\ restarts \in 0 .. MaxRestarts
  /\ reply.code \in Codes

\* What a step of a request leaves of them.
LEMMA RequestPlain ==
  ASSUME stage \in {"idle", "lex", "parse", "schema", "execute", "aborted"},
         overrun \in BOOLEAN, reply.code \in Codes,
         RunRequest \/ Restart \/ Abort
           \/ (\E sql, blanks, limit : Accept(sql, blanks, limit))
  PROVE  /\ stage' \in {"idle", "lex", "parse", "schema", "execute", "aborted"}
         /\ overrun' \in BOOLEAN /\ reply'.code \in Codes
<1>1. \A code : Failed(code).code = code
  BY DEF Failed
<1>2. \A returned, n : Succeeded(returned, n).code = "OK"
  BY DEF Succeeded
<1>3. \A cause \in {"argument", "open", "row"} : Failed(ExecutionError(cause)).code \in Codes
  BY ErrorCodes DEF Codes, ClientErrors, ServerErrors
<1>4. CASE \E sql, blanks, limit : Accept(sql, blanks, limit)
  <2>1. /\ overrun' = overrun
        /\ \/ /\ stage' = "idle"
              /\ \/ reply' = Failed("INVALID_SQL_ARGUMENT")
                 \/ reply' = Failed("PAYLOAD_TOO_LARGE")
           \/ stage' = "lex" /\ reply' = reply
    BY <1>4 DEF Accept, Finish
  <2> QED
    BY <1>1, <2>1 DEF Codes, ClientErrors
<1>5. CASE Restart
  BY <1>1, <1>5 DEF Restart, Codes
<1>6. CASE Abort
  BY <1>6 DEF Abort
<1>7. CASE LexText
  <2>1. /\ overrun' = overrun
        /\ \/ stage' = "parse" /\ reply' = reply
           \/ stage' = "idle" /\ reply' = Failed("SQL_LEX_ERROR")
    BY <1>7 DEF LexText, Finish
  <2> QED
    BY <1>1, <2>1 DEF Codes, ClientErrors
<1>8. CASE ParseTokens
  <2>1. /\ overrun' = overrun
        /\ \/ stage' = "schema" /\ reply' = reply
           \/ /\ stage' = "idle"
              /\ reply' = Failed("UNSUPPORTED_SQL") \/ reply' = Failed("SQL_PARSE_ERROR")
    BY <1>8 DEF ParseTokens, Finish
  <2> QED
    BY <1>1, <2>1 DEF Codes, ClientErrors
<1>9. CASE LoadTable
  <2>1. /\ overrun' = overrun
        /\ \/ stage' = "execute" /\ reply' = reply
           \/ /\ stage' = "idle"
              /\ reply' = Failed("STORAGE_IO_ERROR") \/ reply' = Failed("SCHEMA_LOAD_ERROR")
    BY <1>9 DEF LoadTable, Finish
  <2> QED
    BY <1>1, <2>1 DEF Codes, ServerErrors
<1>10. ASSUME overrun' \in BOOLEAN,
              \/ \E cause \in {"argument", "open", "row"} : FinishFailed(cause)
              \/ \E returned, n : Finish(Succeeded(returned, n))
       PROVE  /\ stage' = "idle" /\ overrun' \in BOOLEAN /\ reply'.code \in Codes
  BY <1>2, <1>3, <1>10 DEF FinishFailed, Finish, Codes
<1>11. CASE InsertFails
  <2>1. /\ overrun' = overrun
        /\ \E cause \in {"argument", "open", "row"} : FinishFailed(cause)
    BY <1>11 DEF InsertFails
  <2> QED
    BY <1>10, <2>1
<1>12. CASE InsertRow
  <2>1. overrun' = overrun /\ Finish(Succeeded(<<>>, 1))
    BY <1>12 DEF InsertRow
  <2> QED
    BY <1>10, <2>1
<1>13. CASE SelectFails
  <2>1. overrun' = (overrun \/ Overruns) /\ FinishFailed("argument")
    BY <1>13 DEF SelectFails
  <2>2. overrun' \in BOOLEAN
    BY <2>1
  <2> QED
    BY <1>10, <2>1, <2>2
<1>14. CASE ExecuteIndexSelect
  <2>1. /\ overrun' = (overrun \/ Overruns)
        /\ FinishFailed("row") \/ \E returned, n : Finish(Succeeded(returned, n))
    BY <1>14, Zenon DEF ExecuteIndexSelect
  <2>2. overrun' \in BOOLEAN
    BY <2>1
  <2> QED
    BY <1>10, <2>1, <2>2
<1>15. CASE ExecuteScan
  <2>1. /\ overrun' = (overrun \/ Overruns)
        /\ FinishFailed("row") \/ \E returned, n : Finish(Succeeded(returned, n))
    BY <1>15, Zenon DEF ExecuteScan
  <2>2. overrun' \in BOOLEAN
    BY <2>1
  <2> QED
    BY <1>10, <2>1, <2>2
<1> QED
  BY <1>4, <1>5, <1>6, <1>7, <1>8, <1>9, <1>11, <1>12, <1>13, <1>14, <1>15 DEF RunRequest

\* Every step of a program keeps them.
LEMMA PlainNext ==
  ASSUME CatalogInv, PlainInv, [Next]_vars
  PROVE  PlainInv'
<1> DEFINE Run_ == /\ stage' \in {"idle", "lex", "parse", "schema", "execute", "aborted"}
                   /\ overrun' \in BOOLEAN /\ reply'.code \in Codes
<1>0. /\ phase \in {"serving", "start", "once", "repl", "run", "ended"}
      /\ stage \in {"idle", "lex", "parse", "schema", "execute", "aborted"}
      /\ exit \in {"none", "success", "failure", "signal"}
      /\ hadError \in BOOLEAN /\ overrun \in BOOLEAN
      /\ sent \in 0 .. Len(program.requests) /\ restarts \in 0 .. MaxRestarts
      /\ reply.code \in Codes
  BY DEF PlainInv
<1>1. program' = program
  BY CatalogNext
<1>2. /\ RunRequest \/ Restart \/ Abort => Run_
      /\ \A sql, blanks, limit : Accept(sql, blanks, limit) => Run_
  <2>1. RunRequest \/ Restart \/ Abort => Run_
    BY <1>0, RequestPlain
  <2>2. (\E sql, blanks, limit : Accept(sql, blanks, limit)) => Run_
    BY <1>0, RequestPlain
  <2> HIDE DEF Run_
  <2> QED
    BY <2>1, <2>2
<1>3. (UNCHANGED <<stage, overrun, reply>>) => Run_
  BY <1>0
<1>4. Len(program.requests) \in Nat
  BY ProgramTexts
<1>5. ASSUME Run_, UNCHANGED <<sent, restarts>>, hadError' \in BOOLEAN,
             phase' \in {"serving", "start", "once", "repl", "run", "ended"},
             exit' \in {"none", "success", "failure", "signal"}
      PROVE  PlainInv'
  BY <1>0, <1>1, <1>5 DEF PlainInv, Codes
<1> HIDE DEF Run_
<1>6. CASE UNCHANGED vars
  BY <1>0, <1>3, <1>5, <1>6 DEF vars, frontVars, sessionVars
<1>7. CASE Step
  BY <1>0, <1>2, <1>5, <1>7 DEF Step, frontVars
<1>8. CASE Request
  <2>1. /\ Run_ /\ sent' = sent + 1 /\ sent < Len(program.requests)
        /\ UNCHANGED <<phase, hadError, exit, restarts>>
    BY <1>2, <1>8 DEF Request
  <2>2. sent' \in 0 .. Len(program.requests)
    BY <1>0, <1>4, <2>1
  <2> QED
    BY <1>0, <1>1, <2>1, <2>2 DEF PlainInv, Run_, Codes
<1>9. CASE ServerRestarts
  <2>1. /\ Run_ /\ restarts' = restarts + 1 /\ restarts < MaxRestarts
        /\ UNCHANGED <<phase, hadError, exit, sent>>
    BY <1>2, <1>9 DEF ServerRestarts
  <2>2. restarts' \in 0 .. MaxRestarts
    BY <1>0, <2>1, BoundsAssumption
  <2> QED
    BY <1>0, <1>1, <2>1, <2>2 DEF PlainInv, Run_, Codes
<1>10. CASE ProcessAborts
  BY <1>0, <1>2, <1>5, <1>10 DEF ProcessAborts
<1>11. \A status : Exit(status) => phase' = "ended" /\ exit' = status /\ Run_
  BY <1>3 DEF Exit
<1>12. CASE StartRepl
  BY <1>0, <1>3, <1>5, <1>12 DEF StartRepl, sessionVars
<1>13. CASE StartOnce
  <2>1. /\ UNCHANGED <<hadError, sent, restarts>>
        /\ \/ Run_ /\ phase' = "once" /\ exit' = exit
           \/ Exit("success") \/ Exit("failure")
    BY <1>2, <1>13 DEF StartOnce
  <2> QED
    BY <1>0, <1>5, <1>11, <2>1
<1>14. CASE EndOnce
  <2>1. UNCHANGED <<hadError, sent, restarts>> /\ (Exit("success") \/ Exit("failure"))
    BY <1>14 DEF EndOnce
  <2> QED
    BY <1>0, <1>5, <1>11, <2>1
<1>15. CASE ReplEnds
  <2>1. UNCHANGED <<hadError, sent, restarts>> /\ (Exit("success") \/ Exit("failure"))
    BY <1>15 DEF ReplEnds
  <2> QED
    BY <1>0, <1>5, <1>11, <2>1
<1>16. CASE ReplLine
  <2>1. /\ UNCHANGED <<sent, restarts>>
        /\ \/ UNCHANGED <<stage, overrun, reply, phase, hadError, exit>>
           \/ /\ Exit(IF hadError THEN "failure" ELSE "success")
              /\ hadError' = hadError
           \/ hadError' = TRUE /\ UNCHANGED <<stage, overrun, reply, phase, exit>>
           \/ /\ \E sql, blanks, limit : Accept(sql, blanks, limit)
              /\ phase' = "run" /\ UNCHANGED <<hadError, exit>>
    BY <1>16, Zenon DEF ReplLine, sessionVars
  <2> DEFINE status == IF hadError THEN "failure" ELSE "success"
  <2>2. status \in {"success", "failure"}
    OBVIOUS
  <2> HIDE DEF status
  <2>3. CASE UNCHANGED <<stage, overrun, reply, phase, hadError, exit>>
    BY <1>0, <1>3, <1>5, <2>1, <2>3
  <2>4. CASE Exit(status) /\ hadError' = hadError
    BY <1>0, <1>5, <1>11, <2>1, <2>2, <2>4
  <2>5. CASE hadError' = TRUE /\ UNCHANGED <<stage, overrun, reply, phase, exit>>
    BY <1>0, <1>3, <1>5, <2>1, <2>5
  <2>6. CASE /\ \E sql, blanks, limit : Accept(sql, blanks, limit)
             /\ phase' = "run" /\ UNCHANGED <<hadError, exit>>
    BY <1>0, <1>2, <1>5, <2>1, <2>6
  <2> QED
    BY <2>1, <2>3, <2>4, <2>5, <2>6 DEF status
<1>17. CASE ReplResult
  <2>1. hadError' \in BOOLEAN
    BY <1>0, <1>17 DEF ReplResult, HadError
  <2> QED
    BY <1>0, <1>3, <1>5, <1>17, <2>1 DEF ReplResult, sessionVars
<1> QED
  BY <1>6, <1>7, <1>8, <1>9, <1>10, <1>12, <1>13, <1>14, <1>15, <1>16, <1>17 DEF Next

\* The programs, their files and the request at hand.
StateInv == CatalogInv /\ PlainInv /\ input \in AllTexts /\ SessionInv

\* A program starts without a request and without an index.
LEMMA StateInit ==
  Init => StateInv
<1> SUFFICES ASSUME Init
             PROVE  StateInv
  OBVIOUS
<1>1. /\ program \in Programs /\ catalog = program.catalog /\ csv = program.csv
      /\ rows = Contents(csv) /\ index = [s \in DOMAIN csv |-> NotLoaded]
      /\ stage = "idle" /\ text = <<>> /\ tokens = <<>> /\ statement = NoStatement
      /\ reply = Failed("none") /\ input = program.stdin
  BY DEF Init, SessionInit
<1>2. CatalogInv
  BY <1>1 DEF CatalogInv
<1>3. input \in AllTexts
  BY <1>1, <1>2, ProgramTexts
<1>7. PlainInv
  <2>1. Len(program.requests) \in Nat
    BY <1>2, ProgramTexts
  <2>2. reply.code = "none"
    BY <1>1 DEF Failed
  <2>3. /\ phase = (IF program.front = "server" THEN "serving" ELSE "start")
        /\ stage = "idle" /\ exit = "none" /\ hadError = FALSE /\ overrun = FALSE
        /\ sent = 0 /\ restarts = 0
    BY DEF Init, SessionInit
  <2>4. sent \in 0 .. Len(program.requests) /\ restarts \in 0 .. MaxRestarts
    BY <2>1, <2>3, BoundsAssumption
  <2>5. phase \in {"serving", "start"}
    BY <2>3
  <2>6. reply.code \in Codes
    BY <2>2 DEF Codes
  <2> QED
    BY <2>3, <2>4, <2>5, <2>6 DEF PlainInv
<1>4. FilesFit(csv, rows, index)
  BY <1>1, <1>2, ProgramTexts DEF FilesFit
<1>5. RequestFits(stage, text, tokens, statement, reply.code)
  <2>1. <<>> \in AllTexts /\ <<>> \in Seq(Tokens) /\ EndsLast(<<>>)
    BY DEF AllTexts, IsText, EndsLast
  <2>2. NoStatement \in Statements
    BY <2>1 DEF NoStatement, Statements
  <2>3. reply.code = "none"
    BY <1>1 DEF Failed
  <2> QED
    BY <1>1, <2>1, <2>2, <2>3 DEF RequestFits
<1>6. TableFits(stage, schema, csv)
  BY <1>1 DEF TableFits
<1> QED
  BY <1>2, <1>3, <1>4, <1>5, <1>6, <1>7 DEF StateInv, SessionInv

\* Ending the program forgets the indexes.
LEMMA ExitKeeps ==
  ASSUME SessionInv, NEW status, Exit(status)
  PROVE  SessionInv'
<1>1. /\ UNCHANGED <<csv, rows, stage, text, tokens, statement, schema, reply>>
      /\ index' = [s \in DOMAIN csv |-> NotLoaded]
  BY DEF Exit, files, request
<1>2. FilesFit(csv', rows', index')
  BY <1>1, ForgetFits DEF SessionInv
<1> QED
  BY <1>1, <1>2 DEF SessionInv

\* Starting again, and ending in the allocator.
LEMMA RestartKeeps ==
  ASSUME SessionInv, Restart \/ Abort
  PROVE  SessionInv'
<1>1. CASE Restart
  <2>1. /\ UNCHANGED <<csv, rows>> /\ index' = [s \in DOMAIN csv |-> NotLoaded]
        /\ stage' = "idle" /\ text' = <<>> /\ tokens' = <<>>
        /\ statement' = NoStatement /\ reply' = Failed("none")
    BY <1>1 DEF Restart, files
  <2>2. FilesFit(csv', rows', index')
    BY <2>1, ForgetFits DEF SessionInv
  <2>3. <<>> \in AllTexts /\ <<>> \in Seq(Tokens) /\ EndsLast(<<>>)
    BY DEF AllTexts, IsText, EndsLast
  <2>4. NoStatement \in Statements
    BY <2>3 DEF NoStatement, Statements
  <2>5. reply'.code = "none"
    BY <2>1 DEF Failed
  <2>6. RequestFits(stage', text', tokens', statement', reply'.code)
    BY <2>1, <2>3, <2>4, <2>5 DEF RequestFits
  <2>7. TableFits(stage', schema', csv')
    BY <2>1 DEF TableFits
  <2> QED
    BY <2>2, <2>6, <2>7 DEF SessionInv
<1>2. CASE Abort
  <2>1. /\ UNCHANGED <<csv, rows, index, text, tokens, statement, schema, reply>>
        /\ stage' = "aborted"
    BY <1>2 DEF Abort, files, request
  <2>2. RequestFits(stage', text', tokens', statement', reply'.code)
    BY <2>1 DEF SessionInv, RequestFits
  <2>3. TableFits(stage', schema', csv')
    BY <2>1 DEF TableFits
  <2> QED
    BY <2>1, <2>2, <2>3 DEF SessionInv
<1> QED
  BY <1>1, <1>2

\* Every step of a program.
LEMMA StateNext ==
  StateInv /\ [Next]_vars => StateInv'
<1> SUFFICES ASSUME StateInv, [Next]_vars
             PROVE  StateInv'
  OBVIOUS
<1>0. CatalogInv /\ input \in AllTexts /\ SessionInv /\ sent \in Nat
  <2>1. sent \in 0 .. Len(program.requests) /\ Len(program.requests) \in Nat
    BY ProgramTexts DEF StateInv, PlainInv
  <2> QED
    BY <2>1 DEF StateInv
<1>1. CatalogInv' /\ PlainInv'
  BY CatalogNext, PlainNext DEF StateInv
<1>2. UNCHANGED sessionVars => SessionInv'
  BY <1>0 DEF sessionVars, files, request, SessionInv
<1>3. input' = input => input' \in AllTexts
  BY <1>0
<1>4. CASE UNCHANGED vars
  BY <1>1, <1>2, <1>3, <1>4 DEF vars, frontVars, StateInv
<1>5. CASE Step
  <2>1. RunRequest /\ input' = input
    BY <1>5 DEF Step, frontVars
  <2>2. SessionInv'
    BY <1>0, <2>1, FrontKeeps, ExecuteKeeps DEF RunRequest
  <2> QED
    BY <1>1, <1>3, <2>1, <2>2 DEF StateInv
<1>6. CASE Request
  <2>1. PICK sql \in RequestTexts[program.requests[sent + 1]] :
          Accept(sql, BlankSql, SqlLengthLimit)
    BY <1>6 DEF Request
  <2>2. sent < Len(program.requests) /\ input' = input /\ sent' = sent + 1
    BY <1>6 DEF Request
  <2>3. sql \in AllTexts
    <3> DEFINE q == program.requests
    <3>1. /\ q \in Seq(STRING)
          /\ \A i \in DOMAIN q : \A t \in RequestTexts[q[i]] : t \in AllTexts
      BY <1>0, ProgramTexts
    <3> HIDE DEF q
    <3>2. sent + 1 \in DOMAIN q
      BY <1>0, <2>2, <3>1 DEF q, StateInv
    <3> QED
      BY <2>1, <3>1, <3>2 DEF q
  <2>4. SessionInv'
    BY <1>0, <2>1, <2>3, AcceptKeeps
  <2> QED
    BY <1>1, <1>3, <2>2, <2>4 DEF StateInv
<1>7. CASE ServerRestarts \/ ProcessAborts
  <2>1. (Restart \/ Abort) /\ input' = input
    BY <1>7 DEF ServerRestarts, ProcessAborts
  <2>2. SessionInv'
    BY <1>0, <2>1, RestartKeeps
  <2> QED
    BY <1>1, <1>3, <2>1, <2>2 DEF StateInv
<1>8. CASE StartRepl \/ ReplResult
  BY <1>1, <1>2, <1>3, <1>8 DEF StartRepl, ReplResult, StateInv
<1>9. CASE StartOnce
  <2> DEFINE sql == LoadNoninteractiveSql(program.args)
  <2>1. /\ input' = input
        /\ Accept(sql.text, Spaces, 0) \/ Exit("success") \/ Exit("failure")
    BY <1>9 DEF StartOnce
  <2>2. sql.text \in AllTexts
    BY <1>0, OnceTexts
  <2> HIDE DEF sql
  <2>3. SessionInv'
    BY <1>0, <2>1, <2>2, AcceptKeeps, ExitKeeps
  <2> QED
    BY <1>1, <1>3, <2>1, <2>3 DEF StateInv
<1>10. CASE EndOnce \/ ReplEnds
  <2>1. input' = input /\ \E status : Exit(status)
    BY <1>10, Zenon DEF EndOnce, ReplEnds
  <2>2. SessionInv'
    BY <1>0, <2>1, ExitKeeps
  <2> QED
    BY <1>1, <1>3, <2>1, <2>2 DEF StateInv
<1>11. CASE ReplLine
  <2> DEFINE line == Trim(SubSeq(input, 1, LineLength))
             sql == LoadSqlFromArgument(line)
  <2>1. /\ input' = RestOfInput
        /\ \/ UNCHANGED sessionVars \/ \E status : Exit(status)
           \/ Accept(sql.text, Spaces, 0)
    BY <1>11, Zenon DEF ReplLine
  <2>2. line \in AllTexts /\ RestOfInput \in AllTexts
    BY <1>0, LineTexts
  <2> HIDE DEF line
  <2>3. sql.text \in AllTexts
    BY <1>0, <2>2, ArgumentTexts
  <2> HIDE DEF sql
  <2>4. SessionInv'
    BY <1>0, <1>2, <2>1, <2>3, AcceptKeeps, ExitKeeps
  <2> QED
    BY <1>1, <2>1, <2>2, <2>4 DEF StateInv
<1> QED
  BY <1>4, <1>5, <1>6, <1>7, <1>8, <1>9, <1>10, <1>11 DEF Next

\* StateInv holds in every reachable state.
LEMMA StateKept ==
  Spec => []StateInv
BY StateInit, StateNext, PTL DEF Spec

(* parse_statement accepts exactly the sentences of the grammar: for any   *)
(* texts and files, a statement that is about to run is the one reading of *)
(* its tokens, and tokens that were refused have none.                     *)
THEOREM ParserExact ==
  Spec => []GrammarExact
<1>1. StateInv => GrammarExact
  <2> SUFFICES ASSUME StateInv
               PROVE  GrammarExact
    OBVIOUS
  <2>1. RequestFits(stage, text, tokens, statement, reply.code)
    BY DEF StateInv, SessionInv
  <2>2. tokens \in Seq(Tokens) /\ EndsLast(tokens)
    BY <2>1 DEF RequestFits
  <2>3. /\ Parse(tokens).at = "done" => Readings(tokens) = {Parse(tokens).statement}
        /\ Parse(tokens).at # "done" => Readings(tokens) = {}
    BY <2>2, ParseExact DEF EndsLast
  <2> QED
    BY <2>1, <2>3 DEF RequestFits, GrammarExact
<1> QED
  BY <1>1, StateKept, PTL

(* lex_sql loses nothing of a statement that is about to run: for any text *)
(* its literals are closed and its tokens spell it, quotes and blanks in   *)
(* its literals included.                                                  *)
THEOREM LexerIntact ==
  Spec => []LiteralsIntact
<1>1. StateInv => LiteralsIntact
  <2> SUFFICES ASSUME StateInv, stage \in {"schema", "execute"}
               PROVE  LiteralsClosed(text) /\ SpelledAll(Front(tokens)) = Squeezed(text)
    BY DEF LiteralsIntact
  <2>1. /\ text \in AllTexts /\ Lex(text).ok /\ tokens = Lex(text).tokens
        /\ Parse(tokens).at = "done"
    BY DEF StateInv, SessionInv, RequestFits
  <2> QED
    BY <2>1, LexExact
<1> QED
  BY <1>1, StateKept, PTL

(* The table index of a file has the offset of every row and no other: for *)
(* any files and requests, whatever was appended behind whatever end, and  *)
(* across restarts.                                                        *)
THEOREM OffsetsExact ==
  Spec => []OffsetsAreRowStarts
<1>1. StateInv => OffsetsAreRowStarts
  <2> SUFFICES ASSUME StateInv, NEW s \in DOMAIN index, index[s].loaded
               PROVE  index[s].offsets = RowStarts(csv[s])
    BY DEF OffsetsAreRowStarts
  <2>1. s \in DOMAIN csv /\ index[s] \in {NotLoaded, IndexOf(csv[s])}
    BY DEF StateInv, SessionInv, FilesFit
  <2> QED
    BY <2>1 DEF NotLoaded, IndexOf
<1> QED
  BY <1>1, StateKept, PTL

(* What each variable of a program holds, for any texts, files and         *)
(* arguments; an index has offsets inside its file only, as fseek needs.   *)
THEOREM Types ==
  Spec => []TypeOK
<1>1. StateInv /\ ExitInv => TypeOK
  <2> SUFFICES ASSUME StateInv, ExitInv
               PROVE  TypeOK
    OBVIOUS
  <2>1. \A i \in DOMAIN outcomes : outcomes[i] \in BOOLEAN
    <3>1. outcomes \in Seq(BOOLEAN)
      BY DEF ExitInv
    <3> QED
      BY <3>1
  <2>2. IsText(text) /\ tokens \in Seq(Tokens)
    BY DEF StateInv, SessionInv, RequestFits, AllTexts
  <2>3. \A i \in DOMAIN tokens : tokens[i].type \in TokenTypes /\ IsText(tokens[i].text)
    <3>1. \A k \in Tokens : k.type \in TokenTypes /\ IsText(k.text)
      BY DEF Tokens, AllTexts
    <3> HIDE DEF Tokens
    <3> QED
      BY <2>2, <3>1
  <2>4. FilesFit(csv, rows, index)
    BY DEF StateInv, SessionInv
  <2>5. rows = Contents(csv) /\ DOMAIN index = DOMAIN csv
    BY <2>4 DEF FilesFit
  <2>6. ASSUME NEW s \in DOMAIN csv
        PROVE  /\ IsText(csv[s]) /\ index[s].loaded \in BOOLEAN
               /\ ToSet(index[s].offsets) \subseteq DOMAIN csv[s]
    <3> DEFINE file == csv[s]
    <3>1. file \in AllTexts /\ index[s] \in {NotLoaded, IndexOf(file)}
      BY <2>4 DEF FilesFit
    <3>2. file \in Seq(Pieces) /\ IsText(file)
      BY <3>1 DEF AllTexts
    <3> HIDE DEF file
    <3>3. ToSet(RowStarts(file)) \subseteq DOMAIN file
      <4>1. RowStarts(file) \in Seq(1 .. Len(file))
        BY <3>2, RowStartTypes
      <4> DEFINE starts == RowStarts(file)
      <4> HIDE DEF starts
      <4>2. starts \in Seq(1 .. Len(file)) /\ DOMAIN file = 1 .. Len(file)
        BY <3>2, <4>1 DEF starts
      <4> QED
        BY <4>2 DEF ToSet, starts
    <3>4. ToSet(<<>>) = {}
      BY DEF ToSet
    <3>5. /\ NotLoaded.loaded \in BOOLEAN /\ NotLoaded.offsets = <<>>
          /\ IndexOf(file).loaded \in BOOLEAN /\ IndexOf(file).offsets = RowStarts(file)
      BY DEF NotLoaded, IndexOf
    <3>6. /\ index[s].loaded \in BOOLEAN
          /\ ToSet(index[s].offsets) \subseteq DOMAIN file
      BY <3>1, <3>3, <3>4, <3>5
    <3> QED
      BY <3>2, <3>6 DEF file
  <2> QED
    BY <2>1, <2>2, <2>3, <2>5, <2>6 DEF StateInv, PlainInv, Codes, TypeOK
<1> QED
  BY <1>1, StateKept, ExitInit, ExitNext, PTL DEF Spec

-----------------------------------------------------------------------------
(* What the executor checks, and what TableRows asks for. *)

\* TableRows has the operators of the session.
LEMMA SameOperators ==
  /\ \A S : Rows!Cardinality(S) = Cardinality(S)
  /\ \A s : Rows!ToSet(s) = ToSet(s) /\ Rows!Last(s) = Last(s)
  /\ \A s : Rows!Trim(s) = Trim(s) /\ Rows!ParseInt(s) = ParseInt(s)
  /\ \A n, P : Rows!InOrder(n, P) = InOrder(n, P)
  /\ \A name : Rows!ColumnOf(schema.columns, name) = FindColumn(schema, name)
<1>1. \A S : Rows!Cardinality(S) = Cardinality(S)
  BY Zenon DEF Rows!Cardinality, Cardinality
<1>2. \A s : Rows!ToSet(s) = ToSet(s) /\ Rows!Last(s) = Last(s)
  BY Zenon DEF Rows!ToSet, ToSet, Rows!Last, Last
<1>3. \A s : Rows!Trim(s) = Trim(s)
  BY Zenon DEF Rows!Trim, Trim, Rows!AllIn, AllIn, Rows!SelectInSeq, SelectInSeq,
       Rows!SelectLastInSeq, SelectLastInSeq, Rows!Min, Min, Rows!Max, Max,
       Rows!Spaces, Spaces, Rows!Blank, Blank
<1>4. \A s : Rows!ParseInt(s) = ParseInt(s)
  BY Zenon DEF Rows!ParseInt, ParseInt, Rows!SelectInSeq, SelectInSeq, Rows!Min, Min,
       Rows!Spaces, Spaces, Rows!Blank, Blank
<1>5. \A n, P : Rows!InOrder(n, P) = InOrder(n, P)
  BY Zenon DEF Rows!InOrder, InOrder
<1>6. \A name : Rows!ColumnOf(schema.columns, name) = FindColumn(schema, name)
  BY Zenon DEF Rows!ColumnOf, FindColumn, Rows!SelectInSeq, SelectInSeq, Rows!Min, Min
<1> QED
  BY <1>1, <1>2, <1>3, <1>4, <1>5, <1>6

\* string_list_index_of finds a column exactly if there is one.
LEMMA ColumnFound ==
  ASSUME NEW S, schema.columns \in Seq(S), NEW name
  PROVE  /\ FindColumn(schema, name) = 0 <=> name \notin ToSet(schema.columns)
         /\ FindColumn(schema, name) # 0 =>
              /\ FindColumn(schema, name) \in DOMAIN schema.columns
              /\ schema.columns[FindColumn(schema, name)] = name
<1> DEFINE columns == schema.columns
           n == Len(columns)
           J == {i \in 1 .. n : columns[i] = name}
           k == FindColumn(schema, name)
<1>1. k = IF J # {} THEN Min(J) ELSE 0
  BY DEF FindColumn, SelectInSeq
<1>2. n \in Nat /\ DOMAIN columns = 1 .. n /\ J \in SUBSET (1 .. n)
  OBVIOUS
<1>3. /\ J = {} <=> name \notin ToSet(columns)
      /\ \A j \in J : j \in 1 .. n /\ columns[j] = name
  BY <1>2 DEF ToSet
<1> HIDE DEF columns, n, J, k
<1>4. J # {} => Min(J) \in J
  BY <1>2, FirstAndLast
<1>5. \A j \in J : j # 0
  BY <1>2
<1>6. k = 0 <=> J = {}
  BY <1>1, <1>4, <1>5
<1> QED
  BY <1>1, <1>2, <1>3, <1>4, <1>6 DEF k, columns

\* A list without a repetition has as many members as places.
LEMMA AllDifferent ==
  ASSUME NEW S, NEW q \in Seq(S)
  PROVE  Cardinality(ToSet(q)) = Len(q) <=> \A i, j \in DOMAIN q : q[i] = q[j] => i = j
<1> DEFINE D == 1 .. Len(q)
           T == ToSet(q)
<1>1. Len(q) \in Nat /\ DOMAIN q = D
  OBVIOUS
<1>2. IsFiniteSet(D) /\ Cardinality(D) = Len(q)
  <2> DEFINE n == Len(q)
  <2>1. n \in Nat
    OBVIOUS
  <2> HIDE DEF n
  <2>2. IsFiniteSet(1 .. n) /\ Cardinality(1 .. n) = n
    <3>1. 1 \in Int /\ n \in Int /\ n - 1 + 1 = n /\ (1 > n => n = 0)
      BY <2>1
    <3> QED
      BY <3>1, FS_Interval
  <2> QED
    BY <2>2 DEF n
<1>3. q \in Surjection(D, T)
  <2>1. /\ q \in [D -> T] /\ \A t \in T : \E i \in D : q[i] = t
    BY <1>1 DEF ToSet
  <2> HIDE DEF D, T
  <2> QED
    BY <2>1 DEF Surjection
<1>4. q \in Injection(D, T) <=> \A i, j \in DOMAIN q : q[i] = q[j] => i = j
  <2>1. q \in [D -> T]
    BY <1>1 DEF ToSet
  <2> HIDE DEF D, T
  <2> QED
    BY <2>1 DEF Injection, IsInjective
<1> HIDE DEF D, T
<1>5. Cardinality(T) = Cardinality(D) <=> q \in Injection(D, T)
  BY <1>2, <1>3, FS_Surjection
<1> QED
  BY <1>2, <1>4, <1>5 DEF T

\* An INSERT is refused for its columns and values exactly if it does not fit.
LEMMA InsertFits ==
  ASSUME SessionInv, stage = "execute"
  PROVE  Rows!ValidInsert(statement, schema.columns) <=> ~InsertRefused /\ ~NamedTwice
<1> DEFINE columns == schema.columns
           named == statement.columns
           values == statement.values
           F(c) == FindColumn(schema, c)
<1>1. columns \in Seq(Seq(Pieces)) /\ <<"id">> \notin ToSet(columns)
  BY DEF SessionInv, TableFits
<1>2. named \in Seq(AllTexts) /\ values \in Seq(AllTexts)
  BY DEF SessionInv, RequestFits, Statements
<1>3. \A c : /\ F(c) = 0 <=> c \notin ToSet(columns)
             /\ F(c) # 0 => columns[F(c)] = c
  BY <1>1, ColumnFound
<1>4. InsertRefused <=>
        (Len(named) = Len(values) =>
           \E i \in DOMAIN named :
             named[i] = <<"id">> \/ F(named[i]) = 0 \/ "newline" \in ToSet(values[i]))
  BY DEF InsertRefused
<1>5. NamedTwice <=> \E i, j \in DOMAIN named : i # j /\ F(named[i]) = F(named[j])
  BY DEF NamedTwice
<1>6. Rows!ValidInsert(statement, columns) <=>
        /\ Len(named) = Len(values)
        /\ ToSet(named) \subseteq ToSet(columns)
        /\ Cardinality(ToSet(named)) = Len(named)
        /\ \A i \in DOMAIN values : "newline" \notin ToSet(values[i])
  <2>1. Rows!ValidInsert(statement, columns) <=>
          /\ Len(named) = Len(values)
          /\ Rows!ToSet(named) \subseteq Rows!ToSet(columns)
          /\ Rows!Cardinality(Rows!ToSet(named)) = Len(named)
          /\ \A i \in DOMAIN values : "newline" \notin Rows!ToSet(values[i])
    BY DEF Rows!ValidInsert
  <2> QED
    BY <2>1, SameOperators
<1> HIDE DEF columns, named, values, F
<1>7. Cardinality(ToSet(named)) = Len(named)
        <=> \A i, j \in DOMAIN named : named[i] = named[j] => i = j
  BY <1>2, AllDifferent
<1>8. Len(named) = Len(values) => DOMAIN named = DOMAIN values
  BY <1>2
<1>9. ToSet(named) \subseteq ToSet(columns) <=> \A i \in DOMAIN named : F(named[i]) # 0
  <2> DEFINE C == ToSet(columns)
  <2>1. ToSet(named) \subseteq C <=> \A i \in DOMAIN named : named[i] \in C
    <3> HIDE DEF C
    <3> QED
      BY <1>2 DEF ToSet
  <2> QED
    BY <1>3, <2>1
<1>10. \A i \in DOMAIN named : named[i] = <<"id">> => F(named[i]) = 0
  BY <1>1, <1>3
<1>11. ASSUME \A i \in DOMAIN named : F(named[i]) # 0
       PROVE  \A i, j \in DOMAIN named : F(named[i]) = F(named[j]) <=> named[i] = named[j]
  BY <1>3, <1>11
<1> QED
  BY <1>4, <1>5, <1>6, <1>7, <1>8, <1>9, <1>10, <1>11 DEF columns

\* A SELECT is refused for its columns and its condition exactly if it does not
\* fit.
LEMMA SelectFits ==
  ASSUME SessionInv, stage = "execute", statement.kind = "select"
  PROVE  Rows!ValidSelect(statement, schema.columns) <=> ~SelectRefused
<1> DEFINE columns == schema.columns
           F(c) == FindColumn(schema, c)
           C == ToSet(columns) \cup {<<"id">>}
           J == {i \in 1 .. Len(Listed) : ~KnownColumn(Listed[i])}
           where == statement.whereColumn
<1>1. columns \in Seq(Seq(Pieces))
  BY DEF SessionInv, TableFits
<1>2. statement.columns \in Seq(AllTexts)
  BY DEF SessionInv, RequestFits, Statements
<1>3. \A c : KnownColumn(c) <=> c \in C
  BY <1>1, ColumnFound DEF KnownColumn
<1>4. \A c : F(c) = 0 <=> c \notin ToSet(columns)
  BY <1>1, ColumnFound
<1>5. FirstUnknown = IF J # {} THEN Min(J) ELSE 0
  BY DEF FirstUnknown, SelectInSeq
<1>6. Len(Listed) \in Nat /\ DOMAIN Listed = 1 .. Len(Listed)
  <2>1. Listed = columns \/ Listed = statement.columns
    BY DEF Listed
  <2>2. columns \in Seq(Seq(Pieces))
    BY <1>1
  <2> HIDE DEF columns
  <2> QED
    BY <1>2, <2>1, <2>2
<1>7. FirstUnknown = 0 <=> J = {}
  <2>1. J \in SUBSET (1 .. Len(Listed))
    OBVIOUS
  <2> HIDE DEF J
  <2>2. J # {} => Min(J) \in J
    BY <1>6, <2>1, FirstAndLast
  <2>3. J # {} => Min(J) # 0
    BY <1>6, <2>1, <2>2
  <2> QED
    BY <1>5, <2>3
<1>8. J = {} <=> ToSet(Listed) \subseteq C
  BY <1>3, <1>6 DEF ToSet
<1>9. ToSet(Listed) \subseteq C <=> statement.all \/ ToSet(statement.columns) \subseteq C
  <2>1. Listed = IF statement.all THEN columns ELSE statement.columns
    BY DEF Listed
  <2>2. ToSet(columns) \subseteq C
    OBVIOUS
  <2> HIDE DEF C, columns
  <2> QED
    BY <2>1, <2>2
<1>10. WhereRefused <=>
         /\ statement.hasWhere
         /\ IF where = <<"id">> THEN ParseInt(statement.whereValue) = NotInt
            ELSE where \notin ToSet(columns)
  BY <1>4 DEF WhereRefused, ById
<1>11. Rows!ValidSelect(statement, columns) <=>
         /\ statement.all \/ ToSet(statement.columns) \subseteq C
         /\ statement.hasWhere =>
              where \in C /\ (where = <<"id">> => ParseInt(statement.whereValue) # NotInt)
  <2> DEFINE D == Rows!ToSet(columns) \cup {<<"id">>}
  <2>1. Rows!ValidSelect(statement, columns) <=>
          /\ statement.all \/ Rows!ToSet(statement.columns) \subseteq D
          /\ statement.hasWhere =>
               where \in D /\ (where = <<"id">> => Rows!ParseInt(statement.whereValue) # NotInt)
    BY DEF Rows!ValidSelect, Rows!IdColumn
  <2>2. D = C
    BY SameOperators
  <2> HIDE DEF D, C
  <2> QED
    BY <2>1, <2>2, SameOperators
<1>12. where \in C <=> where \in ToSet(columns) \/ where = <<"id">>
  OBVIOUS
<1> HIDE DEF columns, F, C, J, where
<1> QED
  BY <1>7, <1>8, <1>9, <1>10, <1>11, <1>12 DEF SelectRefused, columns

\* load_schema does not fail for a table that is declared if the meta files the
\* search depends on describe a table.
LEMMA SchemaFound ==
  ASSUME CatalogInv, NEW name, Declared(name),
         \A m \in Suspects(name) : Sound(m)
  PROVE  LoadSchema(catalog.metas, catalog.order, csv, name).status = "ok"
<1> DEFINE metas == catalog.metas
           order == catalog.order
           h == LoadSchema(metas, order, csv, name)
           found == FindSchemaPath(metas, order, name)
           storage == found[2]
           meta == metas[storage]
           columns == ParseLine(LastValue(meta, "columns").value).fields
           header == HeaderStatus(csv, storage, columns)
           J == {i \in 1 .. Len(order) : Stops(metas[order[i]], name)}
<1>1. /\ IsFiniteSet(DOMAIN metas) /\ order \in SetToSeqs(DOMAIN metas)
      /\ \A m \in DOMAIN metas : metas[m].lines \in Seq([key : STRING, value : Seq(Pieces)])
  BY ProgramAssumption DEF CatalogInv, IsProgram
<1>2. /\ Len(order) \in Nat /\ DOMAIN order = 1 .. Len(order)
      /\ \A i \in 1 .. Len(order) : order[i] \in DOMAIN metas
      /\ \A m \in DOMAIN metas : \E i \in 1 .. Len(order) : order[i] = m
  BY <1>1, OrderCovers
<1>3. \A m \in Suspects(name) :
        /\ metas[m].kind = "file" /\ MetaValid(metas[m])
        /\ \E i \in DOMAIN metas[m].lines : \A j \in DOMAIN metas[m].lines :
             metas[m].lines[j].key = "table" <=> j = i
        /\ HeaderStatus(csv, m, ParseLine(LastValue(metas[m], "columns").value).fields) = "ok"
  BY DEF Sound
<1>4. h = IF found[1] # "ok" THEN NoSchema(found[1])
          ELSE IF \/ ~MetaValid(meta)
                  \/ LastValue(meta, "table").value # <<name>> /\ storage # name
          THEN NoSchema("schema")
          ELSE IF header # "ok" THEN NoSchema(header)
          ELSE [status |-> "ok", storage |-> storage, columns |-> columns]
  BY DEF LoadSchema
<1>5. /\ found[1] = "ok" /\ storage \in DOMAIN metas /\ storage \in Suspects(name)
      /\ storage = name \/ Declares(meta, name)
  <2>1. CASE name \in DOMAIN metas
    <3>1. name \in Suspects(name)
      BY <2>1 DEF Suspects
    <3>2. found = <<"ok", name>>
      <4>1. metas[name].kind # "denied"
        BY <1>3, <3>1
      <4> QED
        BY <2>1, <4>1 DEF FindSchemaPath
    <3> HIDE DEF found
    <3> QED
      BY <2>1, <3>1, <3>2
  <2>2. CASE name \notin DOMAIN metas
    <3> DEFINE stop == SelectInSeq(order, LAMBDA m : Stops(metas[m], name))
    <3>1. stop = IF J # {} THEN Min(J) ELSE 0
      BY DEF SelectInSeq
    <3>2. J \in SUBSET (1 .. Len(order))
      OBVIOUS
    <3>3. J # {}
      <4>1. PICK m \in DOMAIN metas : Declares(metas[m], name)
        BY <2>2 DEF Declared
      <4>2. PICK i \in 1 .. Len(order) : order[i] = m
        BY <1>2
      <4>3. i \in J
        BY <4>1, <4>2 DEF Stops
      <4> QED
        BY <4>3
    <3>4. \A i \in J : Stops(metas[order[i]], name)
      OBVIOUS
    <3>5. found = IF stop = 0 THEN <<"schema", "none">>
                  ELSE IF metas[order[stop]].kind = "file" THEN <<"ok", order[stop]>>
                  ELSE <<"io", "none">>
      BY <2>2 DEF FindSchemaPath
    <3> HIDE DEF J, stop, found
    <3>6. stop \in J /\ stop \in 1 .. Len(order) /\ \A i \in J : stop <= i
      BY <1>2, <3>1, <3>2, <3>3, FirstAndLast
    <3>7. stop # 0
      BY <1>2, <3>6
    <3>8. order[stop] \in Suspects(name)
      <4>1. Declares(metas[order[stop]], name) \/ metas[order[stop]].kind # "file"
        BY <3>4, <3>6 DEF Stops
      <4>2. ASSUME NEW k \in 1 .. stop - 1
            PROVE  ~Declares(metas[order[k]], name)
        <5>1. k \in 1 .. Len(order) /\ ~(stop <= k)
          BY <1>2, <3>6
        <5>2. k \notin J
          BY <3>6, <5>1
        <5> QED
          BY <5>1, <5>2 DEF J, Stops
      <4> QED
        BY <1>2, <2>2, <3>6, <4>1, <4>2 DEF Suspects
    <3>9. order[stop] \in DOMAIN metas /\ metas[order[stop]].kind = "file"
      BY <1>2, <1>3, <3>6, <3>8
    <3>10. found = <<"ok", order[stop]>>
      BY <3>5, <3>7, <3>9
    <3>11. Declares(metas[order[stop]], name)
      BY <3>4, <3>6, <3>9 DEF Stops
    <3> QED
      BY <3>8, <3>9, <3>10, <3>11
  <2> QED
    BY <2>1, <2>2
<1>6. MetaValid(meta) /\ header = "ok" /\ meta.kind = "file"
  <2> HIDE DEF found
  <2> QED
    BY <1>3, <1>5
<1>7. LastValue(meta, "table").value = <<name>> \/ storage = name
  <2> DEFINE lines == meta.lines
             K == {i \in 1 .. Len(lines) : lines[i].key = "table"}
             last == SelectLastInSeq(lines, LAMBDA l : l.key = "table")
  <2> SUFFICES ASSUME storage # name
               PROVE  LastValue(meta, "table").value = <<name>>
    OBVIOUS
  <2>1. lines \in Seq([key : STRING, value : Seq(Pieces)])
    BY <1>1, <1>5
  <2>2. PICK i \in DOMAIN lines : \A j \in DOMAIN lines : lines[j].key = "table" <=> j = i
    BY <1>3, <1>5
  <2>3. PICK k \in DOMAIN lines : lines[k].key = "table" /\ lines[k].value = <<name>>
    BY <1>5 DEF Declares
  <2>4. LastValue(meta, "table").value = IF last = 0 THEN <<>> ELSE lines[last].value
    <3>1. LastValue(meta, "table") =
            IF last = 0 THEN [ok |-> FALSE, value |-> <<>>]
            ELSE [ok |-> TRUE, value |-> lines[last].value]
      BY <1>6 DEF LastValue
    <3> HIDE DEF last
    <3> QED
      BY <3>1
  <2>5. last = IF K # {} THEN Max(K) ELSE 0
    BY DEF SelectLastInSeq
  <2> HIDE DEF lines, last
  <2>6. Len(lines) \in Nat /\ DOMAIN lines = 1 .. Len(lines) /\ K \in SUBSET (1 .. Len(lines))
    BY <2>1
  <2>7. K = {k} /\ k \in 1 .. Len(lines)
    BY <2>2, <2>3, <2>6
  <2> HIDE DEF K
  <2>8. Max(K) \in K
    BY <2>6, <2>7, FirstAndLast
  <2>9. last = k /\ k # 0
    BY <2>5, <2>6, <2>7, <2>8
  <2> QED
    BY <2>3, <2>4, <2>9
<1> HIDE DEF h, found, meta, columns, header
<1>8. h = [status |-> "ok", storage |-> storage, columns |-> columns]
  BY <1>4, <1>5, <1>6, <1>7
<1> QED
  BY <1>8 DEF h

\* The rows of the table of a statement that is about to run, and where they are.
LEMMA TableRead ==
  ASSUME SessionInv, stage = "execute"
  PROVE  /\ Storage \in DOMAIN csv /\ File \in Seq(Pieces) /\ File # <<>>
         /\ rows[Storage] = RowsOf(File) /\ Loaded = IndexOf(File)
         /\ RowStarts(File) \in Seq(1 .. Len(File))
         /\ DOMAIN RowsOf(File) = DOMAIN RowStarts(File)
         /\ Len(RowsOf(File)) = Len(RowStarts(File))
         /\ \E V : RowsOf(File) \in Seq(V)
         /\ \A n \in DOMAIN RowStarts(File) :
              /\ LineAt(File, RowStarts(File)[n]) # <<>>
              /\ RowsOf(File)[n] = ParseLine(LineAt(File, RowStarts(File)[n]))
<1>1. FilesFit(csv, rows, index) /\ Storage \in DOMAIN csv /\ File # <<>>
  BY DEF SessionInv, TableFits, Storage, File
<1>2. File \in Seq(Pieces) /\ rows = Contents(csv)
  BY <1>1 DEF FilesFit, AllTexts, File
<1>3. rows[Storage] = RowsOf(File)
  BY <1>1, <1>2 DEF Contents, File
<1>4. Loaded = IndexOf(File)
  BY <1>1, LoadedFits
<1> DEFINE file == File
           starts == RowStarts(file)
           R == 1 .. Len(file)
           P == RowPlaces(file)
<1> HIDE DEF file
<1>5. starts \in Seq(R) /\ starts \in Seq(P \cap R)
  BY <1>2, RowStartTypes DEF file
<1>6. \A i \in P : LineAt(file, i) # <<>>
  BY DEF RowPlaces
<1>7. RowsOf(file) = [n \in DOMAIN starts |-> ParseLine(LineAt(file, starts[n]))]
  BY Zenon DEF RowsOf
<1> HIDE DEF starts, R, P
<1>8. \A n \in DOMAIN starts : LineAt(file, starts[n]) # <<>>
  <2>1. \A n \in DOMAIN starts : starts[n] \in P
    BY <1>5
  <2> QED
    BY <1>6, <2>1
<1>9. /\ DOMAIN RowsOf(file) = DOMAIN starts
      /\ \A n \in DOMAIN starts : RowsOf(file)[n] = ParseLine(LineAt(file, starts[n]))
  BY <1>7
<1>10. Len(RowsOf(file)) = Len(starts) /\ \E V : RowsOf(file) \in Seq(V)
  <2> DEFINE n == Len(starts)
             V == {ParseLine(LineAt(file, starts[i])) : i \in DOMAIN starts}
  <2>1. n \in Nat /\ DOMAIN starts = 1 .. n
    BY <1>5
  <2>2. RowsOf(file) \in [1 .. n -> V]
    BY <1>7, <2>1
  <2> HIDE DEF n, V
  <2>3. Len(RowsOf(file)) = n /\ RowsOf(file) \in Seq(V)
    BY <2>1, <2>2
  <2> QED
    BY <2>3 DEF n
<1> QED
  BY <1>1, <1>2, <1>3, <1>4, <1>5, <1>8, <1>9, <1>10 DEF file, starts, R

-----------------------------------------------------------------------------
(* Who is to blame for an error. *)

\* The table of the request has a row that does not have its columns.
Damaged ==
  \E n \in DOMAIN rows[Storage] : ~Rows!Whole(rows[Storage][n], schema.columns)

\* The meta files do not describe the table.
Undescribed ==
  \/ ~Declared(statement.table[1])
  \/ \E m \in Suspects(statement.table[1]) : ~Sound(m)

Misfit == ~Rows!Valid(statement, schema.columns)

NotWritable == statement.kind = "insert" /\ Storage \in catalog.readOnly

\* BlameIsTruthful in these words.
BlameInv ==
  stage = "idle" =>
    /\ reply.code = "INVALID_SQL_ARGUMENT" => AllIn(text, Spaces) \/ Misfit
    /\ reply.code \in {"INDEX_REBUILD_ERROR", "ENGINE_EXECUTION_ERROR"} => Damaged
    /\ reply.code \in {"STORAGE_IO_ERROR", "SCHEMA_LOAD_ERROR"} =>
         Undescribed \/ NotWritable

\* It says the same.
LEMMA BlameParts ==
  BlameIsTruthful <=> BlameInv
BY Zenon DEF BlameIsTruthful, BlameInv, Damaged, Undescribed, Misfit, NotWritable

\* Its parts do not change while the files and the request stay.
LEMMA BlameStays ==
  ASSUME UNCHANGED <<files, request>>
  PROVE  /\ Damaged' <=> Damaged
         /\ Undescribed' <=> Undescribed
         /\ Misfit' <=> Misfit
         /\ NotWritable' <=> NotWritable
         /\ AllIn(text, Spaces)' <=> AllIn(text, Spaces)
<1>1. /\ catalog' = catalog /\ csv' = csv /\ rows' = rows /\ text' = text
      /\ statement' = statement /\ schema' = schema
  BY DEF files, request
<1>2. \A m : Sound(m)' <=> Sound(m)
  BY <1>1 DEF Sound
<1>3. \A name : Declared(name)' <=> Declared(name)
  BY <1>1 DEF Declared
<1>4. Undescribed' <=> Undescribed
  <2>1. Undescribed' <=> \/ ~(Declared(statement.table[1])')
                         \/ \E m \in Suspects(statement.table[1])' : ~(Sound(m)')
    BY <1>1 DEF Undescribed
  <2>2. Declared(statement.table[1])' <=> Declared(statement.table[1])
    BY <1>1 DEF Declared
  <2>3. Suspects(statement.table[1])' = Suspects(statement.table[1])
    BY <1>1 DEF Suspects
  <2> QED
    BY <1>2, <2>1, <2>2, <2>3 DEF Undescribed
<1>5. (Damaged' <=> Damaged) /\ (Misfit' <=> Misfit) /\ (NotWritable' <=> NotWritable)
  BY <1>1 DEF Damaged, Misfit, NotWritable, Storage
<1>6. AllIn(text, Spaces)' <=> AllIn(text, Spaces)
  BY <1>1 DEF AllIn
<1> QED
  BY <1>4, <1>5, <1>6

\* Every failure of execute_statement has its reason.
LEMMA FailureReasons ==
  ASSUME SessionInv,
         InsertFails \/ SelectFails \/ ExecuteIndexSelect \/ ExecuteScan
  PROVE  /\ stage = "execute" /\ stage' = "idle" /\ UNCHANGED <<files, request>>
         /\ \/ reply' = Failed(ExecutionError("argument")) /\ Misfit
            \/ reply' = Failed(ExecutionError("open")) /\ NotWritable
            \/ reply' = Failed(ExecutionError("row")) /\ Damaged
            \/ \E returned, n : reply' = Succeeded(returned, n)
<1>1. stage = "execute" /\ UNCHANGED <<files, request>>
  BY DEF InsertFails, SelectFails, ExecuteIndexSelect, ExecuteScan
<1>2. \A cause : FinishFailed(cause) => stage' = "idle" /\ reply' = Failed(ExecutionError(cause))
  BY DEF FinishFailed, Finish
<1>3. \A result : Finish(result) => stage' = "idle" /\ reply' = result
  BY DEF Finish
<1>4. /\ rows[Storage] = RowsOf(File) /\ Loaded = IndexOf(File)
      /\ DOMAIN RowsOf(File) = DOMAIN RowStarts(File)
      /\ \A n \in DOMAIN RowStarts(File) :
           /\ LineAt(File, RowStarts(File)[n]) # <<>>
           /\ RowsOf(File)[n] = ParseLine(LineAt(File, RowStarts(File)[n]))
  BY <1>1, TableRead
<1>5. \A row : Rows!Whole(row, schema.columns) <=> WholeRow(row)
  BY DEF Rows!Whole, WholeRow
<1>6. ASSUME NEW n \in DOMAIN RowsOf(File), ~WholeRow(RowsOf(File)[n])
      PROVE  Damaged
  BY <1>4, <1>5, <1>6 DEF Damaged
<1>7. ~CanLoad => Damaged
  <2>1. ~CanLoad => \E n \in DOMAIN RowsOf(File) : ~RowsOf(File)[n].ok
    BY DEF CanLoad, Loadable
  <2> QED
    BY <1>6, <2>1 DEF WholeRow
<1>8. statement.kind = "insert" /\ (InsertRefused \/ NamedTwice) => Misfit
  BY <1>1, InsertFits DEF Misfit, Rows!Valid
<1>9. statement.kind = "select" /\ SelectRefused => Misfit
  BY <1>1, SelectFits DEF Misfit, Rows!Valid
<1>10. CASE InsertFails
  <2>1. /\ statement.kind = "insert"
        /\ \/ InsertRefused /\ FinishFailed("argument")
           \/ ~CanLoad /\ FinishFailed("row")
           \/ NamedTwice /\ FinishFailed("argument")
           \/ Storage \in catalog.readOnly /\ FinishFailed("open")
    BY <1>10 DEF InsertFails
  <2> QED
    BY <1>1, <1>2, <1>7, <1>8, <2>1 DEF NotWritable
<1>11. CASE SelectFails
  BY <1>1, <1>2, <1>9, <1>11 DEF SelectFails
<1>12. CASE ExecuteIndexSelect
  <2> DEFINE id == ParseInt(statement.whereValue)
             line == LineAt(File, Loaded.offsets[id])
  <2>1. \/ ~CanLoad /\ FinishFailed("row")
        \/ \E returned, n : Finish(Succeeded(returned, n))
        \/ /\ id \in DOMAIN Loaded.offsets
           /\ line = <<>> \/ ~WholeRow(ParseLine(line))
           /\ FinishFailed("row")
    BY <1>12 DEF ExecuteIndexSelect
  <2>2. Loaded.offsets = RowStarts(File)
    BY <1>4 DEF IndexOf
  <2>3. (id \in DOMAIN Loaded.offsets /\ (line = <<>> \/ ~WholeRow(ParseLine(line)))) => Damaged
    BY <1>4, <1>6, <2>2
  <2> HIDE DEF id, line
  <2> QED
    BY <1>1, <1>2, <1>3, <1>7, <2>1, <2>3
<1>13. CASE ExecuteScan
  <2>1. \/ (\E n \in DOMAIN RowsOf(File) : ~WholeRow(RowsOf(File)[n])) /\ FinishFailed("row")
        \/ \E returned, n : Finish(Succeeded(returned, n))
    BY <1>13, Zenon DEF ExecuteScan
  <2> QED
    BY <1>1, <1>2, <1>3, <1>6, <2>1
<1> QED
  BY <1>10, <1>11, <1>12, <1>13

\* What a step of a request answers.
LEMMA BlameRequest ==
  ASSUME CatalogInv, SessionInv, RunRequest
  PROVE  BlameInv'
<1> DEFINE Safe == {"SQL_LEX_ERROR", "SQL_PARSE_ERROR", "UNSUPPORTED_SQL", "OK"}
<1>1. stage' # "idle" => BlameInv'
  BY DEF BlameInv
<1>2. reply'.code \in Safe => BlameInv'
  <2>1. ASSUME reply'.code \in Safe
        PROVE  reply'.code \notin {"INVALID_SQL_ARGUMENT", "INDEX_REBUILD_ERROR",
                 "ENGINE_EXECUTION_ERROR", "STORAGE_IO_ERROR", "SCHEMA_LOAD_ERROR"}
    BY <2>1
  <2> HIDE DEF Safe
  <2> QED
    BY <2>1 DEF BlameInv
<1>3. \A code : Failed(code).code = code
  BY DEF Failed
<1>4. \A returned, n : Succeeded(returned, n).code = "OK"
  BY DEF Succeeded
<1>5. CASE LexText
  <2>1. stage' = "parse" \/ reply' = Failed("SQL_LEX_ERROR")
    BY <1>5 DEF LexText, Finish
  <2> QED
    BY <1>1, <1>2, <1>3, <2>1
<1>6. CASE ParseTokens
  <2>1. \/ stage' = "schema"
        \/ reply' = Failed("UNSUPPORTED_SQL") \/ reply' = Failed("SQL_PARSE_ERROR")
    BY <1>6 DEF ParseTokens, Finish
  <2> QED
    BY <1>1, <1>2, <1>3, <2>1
<1>7. CASE LoadTable
  <2> DEFINE h == LoadSchema(catalog.metas, catalog.order, csv, statement.table[1])
  <2>1. /\ stage' = "execute"
           \/ /\ h.status # "ok"
              /\ reply' = Failed("STORAGE_IO_ERROR") \/ reply' = Failed("SCHEMA_LOAD_ERROR")
        /\ UNCHANGED <<catalog, csv, rows, statement>>
    BY <1>7 DEF LoadTable, Finish, files
  <2>2. h.status # "ok" => Undescribed
    BY SchemaFound DEF Undescribed
  <2>3. Undescribed => Undescribed'
    <3>1. \A m : Sound(m)' <=> Sound(m)
      BY <2>1 DEF Sound
    <3>2. Declared(statement.table[1])' <=> Declared(statement.table[1])
      BY <2>1 DEF Declared
    <3>3. Suspects(statement.table[1])' = Suspects(statement.table[1])
      BY <2>1 DEF Suspects
    <3>4. Undescribed' <=> \/ ~(Declared(statement.table[1])')
                           \/ \E m \in Suspects(statement.table[1])' : ~(Sound(m)')
      BY <2>1 DEF Undescribed
    <3> QED
      BY <3>1, <3>2, <3>3, <3>4 DEF Undescribed
  <2> HIDE DEF h
  <2>4. CASE stage' = "execute"
    BY <1>1, <2>4
  <2>5. CASE stage' # "execute"
    <3>1. Undescribed' /\ reply'.code \in {"STORAGE_IO_ERROR", "SCHEMA_LOAD_ERROR"}
      BY <1>3, <2>1, <2>2, <2>3, <2>5
    <3>2. reply'.code \notin {"INVALID_SQL_ARGUMENT", "INDEX_REBUILD_ERROR",
                              "ENGINE_EXECUTION_ERROR"}
      BY <3>1
    <3> QED
      BY <3>1, <3>2 DEF BlameInv
  <2> QED
    BY <2>4, <2>5
<1>8. CASE InsertRow
  <2>1. reply' = Succeeded(<<>>, 1)
    BY <1>8 DEF InsertRow, Finish
  <2> QED
    BY <1>2, <1>4, <2>1
<1>9. CASE InsertFails \/ SelectFails \/ ExecuteIndexSelect \/ ExecuteScan
  <2>1. /\ UNCHANGED <<files, request>>
        /\ \/ reply' = Failed(ExecutionError("argument")) /\ Misfit
           \/ reply' = Failed(ExecutionError("open")) /\ NotWritable
           \/ reply' = Failed(ExecutionError("row")) /\ Damaged
           \/ \E returned, n : reply' = Succeeded(returned, n)
    BY <1>9, FailureReasons
  <2>2. /\ Damaged' <=> Damaged
        /\ Misfit' <=> Misfit
        /\ NotWritable' <=> NotWritable
    BY <2>1, BlameStays
  <2>3. /\ ExecutionError("argument") = "INVALID_SQL_ARGUMENT"
        /\ ExecutionError("open") = "STORAGE_IO_ERROR"
        /\ ExecutionError("row") \in {"INDEX_REBUILD_ERROR", "ENGINE_EXECUTION_ERROR"}
    BY DEF ExecutionError
  <2>4. \/ reply'.code = "INVALID_SQL_ARGUMENT" /\ Misfit'
        \/ reply'.code = "STORAGE_IO_ERROR" /\ NotWritable'
        \/ reply'.code \in {"INDEX_REBUILD_ERROR", "ENGINE_EXECUTION_ERROR"} /\ Damaged'
        \/ reply'.code = "OK"
    BY <1>3, <1>4, <2>1, <2>2, <2>3
  <2> QED
    BY <2>4 DEF BlameInv
<1> QED
  BY <1>5, <1>6, <1>7, <1>8, <1>9 DEF RunRequest

\* What the checks before lex_sql answer.
LEMMA BlameAccept ==
  ASSUME NEW sql, NEW blanks \in SUBSET Spaces, NEW limit, Accept(sql, blanks, limit)
  PROVE  BlameInv'
<1>1. text' = sql
  BY DEF Accept
<1>2. \/ stage' = "lex"
      \/ AllIn(sql, blanks) /\ reply' = Failed("INVALID_SQL_ARGUMENT")
      \/ reply' = Failed("PAYLOAD_TOO_LARGE")
  BY DEF Accept, Finish
<1>3. AllIn(sql, blanks) => AllIn(text, Spaces)'
  BY <1>1 DEF AllIn
<1>4. \A code : Failed(code).code = code
  BY DEF Failed
<1>5. \/ stage' # "idle"
      \/ AllIn(text, Spaces)' /\ reply'.code = "INVALID_SQL_ARGUMENT"
      \/ reply'.code = "PAYLOAD_TOO_LARGE"
  BY <1>2, <1>3, <1>4
<1> QED
  BY <1>5 DEF BlameInv

\* Every step of a program puts the blame where it belongs.
LEMMA BlameNext ==
  StateInv /\ BlameInv /\ [Next]_vars => BlameInv'
<1> SUFFICES ASSUME StateInv, BlameInv, [Next]_vars
             PROVE  BlameInv'
  OBVIOUS
<1>1. CatalogInv /\ SessionInv
  BY DEF StateInv
<1>2. ASSUME UNCHANGED <<files, request, reply, stage>>
      PROVE  BlameInv'
  <2>1. UNCHANGED <<files, request>> /\ reply' = reply /\ stage' = stage
    BY <1>2
  <2>2. /\ Damaged' <=> Damaged
        /\ Undescribed' <=> Undescribed
        /\ Misfit' <=> Misfit
        /\ NotWritable' <=> NotWritable
        /\ AllIn(text, Spaces)' <=> AllIn(text, Spaces)
    BY <2>1, BlameStays
  <2> QED
    BY <2>1, <2>2 DEF BlameInv
<1>3. UNCHANGED sessionVars => UNCHANGED <<files, request, reply, stage>>
  BY DEF sessionVars
<1>4. \A status : Exit(status) => UNCHANGED <<files, request, reply, stage>>
  BY DEF Exit
<1>5. BlankSql \in SUBSET Spaces /\ Spaces \in SUBSET Spaces
  BY DEF BlankSql, Spaces
<1>6. \A sql, limit : Accept(sql, BlankSql, limit) \/ Accept(sql, Spaces, limit)
        => BlameInv'
  BY <1>5, BlameAccept
<1>7. CASE UNCHANGED vars
  BY <1>2, <1>3, <1>7 DEF vars
<1>8. CASE Step
  BY <1>1, <1>8, BlameRequest DEF Step
<1>9. CASE Request
  BY <1>6, <1>9 DEF Request
<1>10. CASE ServerRestarts
  <2>1. reply' = Failed("none")
    BY <1>10 DEF ServerRestarts, Restart
  <2>2. reply'.code = "none"
    BY <2>1 DEF Failed
  <2> QED
    BY <2>2 DEF BlameInv
<1>11. CASE ProcessAborts
  <2>1. stage' = "aborted"
    BY <1>11 DEF ProcessAborts, Abort
  <2> QED
    BY <2>1 DEF BlameInv
<1>12. CASE StartRepl \/ ReplResult
  BY <1>2, <1>3, <1>12 DEF StartRepl, ReplResult
<1>13. CASE StartOnce
  <2>1. \/ \E sql : Accept(sql, Spaces, 0)
        \/ \E status : Exit(status)
    BY <1>13 DEF StartOnce
  <2> QED
    BY <1>2, <1>4, <1>6, <2>1
<1>14. CASE EndOnce \/ ReplEnds
  <2>1. \E status : Exit(status)
    BY <1>14, Zenon DEF EndOnce, ReplEnds
  <2> QED
    BY <1>2, <1>4, <2>1
<1>15. CASE ReplLine
  <2>1. \/ UNCHANGED sessionVars \/ \E status : Exit(status)
        \/ \E sql : Accept(sql, Spaces, 0)
    BY <1>15, Zenon DEF ReplLine
  <2> QED
    BY <1>2, <1>3, <1>4, <1>6, <2>1
<1> QED
  BY <1>7, <1>8, <1>9, <1>10, <1>11, <1>12, <1>13, <1>14, <1>15 DEF Next

(* The code of an error names the culprit, for any files and any requests: *)
(* the request only if its text is blank or its statement does not fit the *)
(* columns, a damaged row only if there is one, and the storage only if a  *)
(* meta or CSV file the search for the table depends on does not describe  *)
(* a table, or the table's file cannot be written.                         *)
THEOREM BlameTruthful ==
  Spec => []BlameIsTruthful
<1>1. Init => BlameInv
  <2> SUFFICES ASSUME Init
               PROVE  BlameInv
    OBVIOUS
  <2>1. reply = Failed("none")
    BY DEF Init, SessionInit
  <2>2. reply.code = "none"
    BY <2>1 DEF Failed
  <2> QED
    BY <2>2 DEF BlameInv
<1> QED
  BY <1>1, BlameNext, BlameParts, StateKept, PTL DEF Spec

-----------------------------------------------------------------------------
(* A request is a step of TableRows. *)

\* The statement that is running, as TableRows has it.
Now == [statement |-> statement, storage |-> Storage, columns |-> schema.columns,
        readOnly |-> Storage \in catalog.readOnly]
Pending == IF stage # "execute" THEN <<>> ELSE <<Now>>

\* There is one exactly while a statement is being executed.
LEMMA PendingIs ==
  /\ stage # "execute" <=> Pending = <<>>
  /\ stage = "execute" => Pending[1] = Now
  /\ Now.statement = statement /\ Now.storage = Storage
  /\ Now.columns = schema.columns /\ (Now.readOnly <=> Storage \in catalog.readOnly)
<1>1. <<Now>> # <<>> /\ <<Now>>[1] = Now
  OBVIOUS
<1>2. /\ stage # "execute" <=> Pending = <<>>
      /\ stage = "execute" => Pending[1] = Now
  BY <1>1 DEF Pending
<1>3. /\ Now.statement = statement /\ Now.storage = Storage
      /\ Now.columns = schema.columns /\ (Now.readOnly <=> Storage \in catalog.readOnly)
  BY DEF Now
<1> QED
  BY <1>2, <1>3

\* An INSERT that succeeds.
LEMMA RowsInsert ==
  ASSUME stage = "execute", stage' = "idle", statement.kind = "insert",
         Rows!ValidInsert(statement, schema.columns),
         rows'[Storage] # <<>>,
         rows' = [rows EXCEPT ![Storage] = Append(@, Last(rows'[Storage]))],
         Rows!Whole(Last(rows'[Storage]), schema.columns),
         \A c \in DOMAIN schema.columns :
           LET i == SelectInSeq(statement.columns, LAMBDA n : FindColumn(schema, n) = c)
           IN  Trim(Last(rows'[Storage]).fields[c])
                 = IF i = 0 THEN <<>> ELSE Trim(statement.values[i]),
         reply' = Succeeded(<<>>, 1)
  PROVE  Rows!Insert
<1>1. /\ Pending # <<>> /\ Pending' = <<>> /\ Pending[1].statement = statement
      /\ Pending[1].storage = Storage /\ Pending[1].columns = schema.columns
  BY PendingIs DEF Pending
<1> DEFINE new == Rows!Last(rows'[Pending[1].storage])
           given == Pending[1].statement
           I(c) == Rows!SelectInSeq(given.columns,
                     LAMBDA n : Rows!ColumnOf(Pending[1].columns, n) = c)
<1>2. Rows!Insert <=>
        /\ Pending # <<>> /\ given.kind = "insert"
        /\ Rows!ValidInsert(given, Pending[1].columns)
        /\ rows'[Pending[1].storage] # <<>>
        /\ rows' = [rows EXCEPT ![Pending[1].storage] = Append(@, new)]
        /\ Rows!Whole(new, Pending[1].columns)
        /\ \A c \in DOMAIN Pending[1].columns :
             Rows!Trim(new.fields[c]) = IF I(c) = 0 THEN <<>> ELSE Rows!Trim(given.values[I(c)])
        /\ reply' = [code |-> "OK", rows |-> <<>>, affected |-> 1]
        /\ Pending' = <<>>
  BY Zenon DEF Rows!Insert, Pending, Now
<1>3. new = Last(rows'[Storage]) /\ given = statement
  BY <1>1, SameOperators
<1> DEFINE K(c) == SelectInSeq(statement.columns, LAMBDA n : FindColumn(schema, n) = c)
           A(c) == {i \in 1 .. Len(given.columns) :
                      Rows!ColumnOf(Pending[1].columns, given.columns[i]) = c}
           B(c) == {i \in 1 .. Len(statement.columns) :
                      FindColumn(schema, statement.columns[i]) = c}
<1>4. \A c : I(c) = K(c)
  <2>1. \A c : I(c) = IF A(c) # {} THEN Min(A(c)) ELSE 0
    BY Zenon DEF Rows!SelectInSeq, Rows!Min, Min
  <2>2. \A c : K(c) = IF B(c) # {} THEN Min(B(c)) ELSE 0
    BY Zenon DEF SelectInSeq
  <2>3. \A n : Rows!ColumnOf(Pending[1].columns, n) = FindColumn(schema, n)
    BY <1>1, SameOperators
  <2>4. \A c : A(c) = B(c)
    <3> HIDE DEF given
    <3> QED
      BY <1>3, <2>3
  <2> HIDE DEF A, B, I, K
  <2> QED
    BY <2>1, <2>2, <2>4
<1>5. \A s : Rows!Trim(s) = Trim(s)
  BY SameOperators
<1>6. reply' = [code |-> "OK", rows |-> <<>>, affected |-> 1]
  BY DEF Succeeded
<1>7. \A c \in DOMAIN schema.columns :
        Rows!Trim(new.fields[c]) = IF I(c) = 0 THEN <<>> ELSE Rows!Trim(given.values[I(c)])
  <2>1. \A c \in DOMAIN schema.columns :
          Trim(Last(rows'[Storage]).fields[c])
            = IF K(c) = 0 THEN <<>> ELSE Trim(statement.values[K(c)])
    BY Zenon
  <2> HIDE DEF I, K, new, given
  <2> QED
    BY <1>3, <1>4, <1>5, <2>1
<1> HIDE DEF I, new, given
<1> QED
  BY <1>1, <1>2, <1>3, <1>6, <1>7

\* A SELECT that succeeds.
LEMMA RowsSelect ==
  ASSUME stage = "execute", stage' = "idle", statement.kind = "select",
         Rows!ValidSelect(statement, schema.columns), UNCHANGED rows,
         NEW chosen, chosen = Rows!Chosen(statement, rows[Storage], schema.columns),
         \A n \in DOMAIN rows[Storage] :
           \/ Rows!Whole(rows[Storage][n], schema.columns)
           \/ statement.hasWhere /\ statement.whereColumn = <<"id">> /\ n \notin ToSet(chosen),
         reply' = [code |-> "OK", affected |-> Len(chosen),
                   rows |-> [i \in DOMAIN chosen |->
                               [c \in DOMAIN Listed |->
                                  Rows!Field(rows[Storage], schema.columns, chosen[i],
                                             Listed[c])]]]
  PROVE  Rows!Select
<1>1. /\ Pending # <<>> /\ Pending' = <<>> /\ Pending[1].statement = statement
      /\ Pending[1].storage = Storage /\ Pending[1].columns = schema.columns
  BY PendingIs DEF Pending
<1> DEFINE asked == Pending[1].statement
           table == rows[Pending[1].storage]
           columns == Pending[1].columns
           listed == IF asked.all THEN columns ELSE asked.columns
           found == Rows!Chosen(asked, table, columns)
<1>2. Rows!Select <=>
        /\ Pending # <<>> /\ asked.kind = "select"
        /\ Rows!ValidSelect(asked, columns)
        /\ \A n \in DOMAIN table :
             \/ Rows!Whole(table[n], columns)
             \/ asked.hasWhere /\ asked.whereColumn = Rows!IdColumn /\ n \notin Rows!ToSet(found)
        /\ reply' = [code |-> "OK", affected |-> Len(found),
                     rows |-> [i \in DOMAIN found |->
                                 [c \in DOMAIN listed |->
                                    Rows!Field(table, columns, found[i], listed[c])]]]
        /\ Pending' = <<>>
        /\ UNCHANGED rows
  BY Zenon DEF Rows!Select, Pending, Now
<1>3. /\ asked = statement /\ table = rows[Storage] /\ columns = schema.columns
      /\ listed = Listed /\ found = chosen
  BY <1>1 DEF Listed
<1>4. Rows!IdColumn = <<"id">> /\ Rows!ToSet(found) = ToSet(found)
  BY SameOperators DEF Rows!IdColumn
<1> HIDE DEF asked, table, columns, listed, found
<1> QED
  BY <1>1, <1>2, <1>3, <1>4, Zenon

\* A statement that is refused, and one that is lost.
LEMMA RowsRefuse ==
  ASSUME stage = "execute", stage' # "execute", UNCHANGED rows
  PROVE  /\ (Misfit \/ NotWritable \/ Damaged) /\ reply'.code # "OK" => Rows!Refuse
         /\ reply' = reply \/ reply'.code # "OK" => Rows!Lose
<1>1. /\ Pending # <<>> /\ Pending' = <<>> /\ Pending[1].statement = statement
      /\ Pending[1].storage = Storage /\ Pending[1].columns = schema.columns
      /\ Pending[1].readOnly <=> Storage \in catalog.readOnly
  BY PendingIs DEF Pending
<1> DEFINE now == Pending[1]
<1>2. Rows!Refuse <=>
        /\ Pending # <<>>
        /\ \/ ~Rows!Valid(now.statement, now.columns)
           \/ now.readOnly /\ now.statement.kind = "insert"
           \/ \E n \in DOMAIN rows[now.storage] :
                ~Rows!Whole(rows[now.storage][n], now.columns)
        /\ reply'.code # "OK"
        /\ Pending' = <<>>
        /\ UNCHANGED rows
  BY Zenon DEF Rows!Refuse, Pending, Now
<1>3. Rows!Lose <=>
        /\ Pending # <<>> /\ Pending' = <<>>
        /\ reply' = reply \/ reply'.code # "OK"
        /\ UNCHANGED rows
  BY Zenon DEF Rows!Lose, Pending, Now
<1> HIDE DEF now
<1>4. /\ now.statement = statement /\ now.columns = schema.columns /\ now.storage = Storage
      /\ now.readOnly <=> Storage \in catalog.readOnly
  BY <1>1 DEF now
<1> QED
  BY <1>1, <1>2, <1>3, <1>4 DEF Misfit, NotWritable, Damaged

\* Steps before a statement is known, and after.
LEMMA RowsIdle ==
  ASSUME stage # "execute", UNCHANGED rows
  PROVE  /\ stage' = "execute" /\ reply' = reply => Rows!Ask
         /\ stage' # "execute" /\ reply'.code # "OK" => Rows!Reject
         /\ stage' # "execute" /\ reply' = reply => UNCHANGED Rows!vars
<1>1. /\ Pending = <<>> /\ (stage' = "execute" => Pending' # <<>>)
      /\ stage' # "execute" => Pending' = <<>>
  <2>1. \A x : <<x>> # <<>>
    OBVIOUS
  <2> QED
    BY <2>1 DEF Pending
<1>2. Rows!Ask <=> Pending = <<>> /\ Pending' # <<>> /\ UNCHANGED <<rows, reply>>
  BY Zenon DEF Rows!Ask, Pending, Now
<1>3. Rows!Reject <=> /\ Pending = <<>> /\ reply'.code # "OK"
                      /\ UNCHANGED <<rows, Pending>>
  BY Zenon DEF Rows!Reject, Pending, Now
<1>4. UNCHANGED Rows!vars <=> UNCHANGED <<rows, Pending, reply>>
  BY Zenon DEF Rows!vars, Pending, Now
<1> QED
  BY <1>1, <1>2, <1>3, <1>4

\* trim_whitespace has no more to take the second time.
LEMMA TrimTwice ==
  ASSUME NEW S, NEW s \in Seq(S)
  PROVE  Trim(Trim(s)) = Trim(s)
<1> DEFINE I == {i \in 1 .. Len(s) : s[i] \notin Spaces}
<1>1. Len(s) \in Nat /\ DOMAIN s = 1 .. Len(s)
  OBVIOUS
<1>2. CASE AllIn(s, Spaces)
  <2>1. Trim(s) = <<>>
    BY <1>2 DEF Trim
  <2>2. Trim(<<>>) = <<>>
    BY DEF Trim, AllIn
  <2> QED
    BY <2>1, <2>2, Zenon
<1>3. CASE ~AllIn(s, Spaces)
  <2>1. I # {} /\ I \in SUBSET (1 .. Len(s)) /\ \A i \in I : s[i] \notin Spaces
    BY <1>1, <1>3 DEF AllIn
  <2>2. Trim(s) = SubSeq(s, Min(I), Max(I))
    BY <1>3, <2>1 DEF Trim, SelectInSeq, SelectLastInSeq
  <2> HIDE DEF I
  <2>3. Min(I) \in I /\ Max(I) \in I /\ Min(I) <= Max(I)
    BY <1>1, <2>1, FirstAndLast
  <2> DEFINE a == Min(I)
             b == Max(I)
             q == SubSeq(s, a, b)
             k == b - a + 1
  <2>4. a \in 1 .. Len(s) /\ b \in 1 .. Len(s) /\ a <= b /\ s[a] \notin Spaces /\ s[b] \notin Spaces
    <3> HIDE DEF a, b
    <3>1. a \in I /\ b \in I /\ a <= b
      BY <2>3 DEF a, b
    <3> QED
      BY <2>1, <3>1
  <2> HIDE DEF a, b
  <2>5. q \in Seq(S) /\ Len(q) = k /\ \A i \in 1 .. k : q[i] = s[a + i - 1]
    <3>1. \A i \in a .. b : s[i] \in S
      BY <1>1, <2>4
    <3>2. a \in Int /\ b \in Int
      BY <1>1, <2>4
    <3> QED
      BY <2>4, <3>1, <3>2, SubSeqProperties
  <2>6. k \in Nat /\ 1 \in 1 .. k /\ k \in 1 .. k /\ a + 1 - 1 = a /\ a + k - 1 = b
    BY <1>1, <2>4
  <2> HIDE DEF q, k
  <2>7. q[1] \notin Spaces /\ q[k] \notin Spaces
    BY <2>4, <2>5, <2>6
  <2> DEFINE J == {i \in 1 .. Len(q) : q[i] \notin Spaces}
  <2>8. 1 \in J /\ k \in J /\ J \in SUBSET (1 .. k)
    BY <2>5, <2>6, <2>7
  <2>9. DOMAIN q = 1 .. k
    BY <2>5
  <2>10. ~AllIn(q, Spaces)
    BY <2>6, <2>7, <2>9 DEF AllIn
  <2>11. Trim(q) = SubSeq(q, Min(J), Max(J))
    BY <2>8, <2>10 DEF Trim, SelectInSeq, SelectLastInSeq
  <2> HIDE DEF J
  <2>12. Min(J) = 1 /\ Max(J) = k
    <3> DEFINE x == Min(J)
               y == Max(J)
    <3>1. x \in J /\ y \in J /\ x <= 1 /\ k <= y
      BY <2>6, <2>8, FirstAndLast
    <3> HIDE DEF x, y
    <3>2. x = 1 /\ y = k
      BY <2>6, <2>8, <3>1
    <3> QED
      BY <3>2 DEF x, y
  <2>13. SubSeq(q, 1, k) = q
    <3>1. /\ SubSeq(q, 1, k) \in Seq(S) /\ Len(SubSeq(q, 1, k)) = k
          /\ \A i \in 1 .. k : SubSeq(q, 1, k)[i] = q[i]
      <4>1. \A i \in 1 .. k : q[i] \in S
        BY <2>5
      <4>2. 1 \in Int /\ k \in Int /\ 1 <= k /\ k - 1 + 1 = k /\ \A i \in 1 .. k : 1 + i - 1 = i
        BY <2>6
      <4> QED
        BY <4>1, <4>2, SubSeqProperties
    <3> DEFINE r == SubSeq(q, 1, k)
    <3> HIDE DEF r
    <3>2. r \in Seq(S) /\ Len(r) = Len(q) /\ \A i \in 1 .. Len(r) : r[i] = q[i]
      BY <2>5, <3>1 DEF r
    <3>3. r = q
      BY <2>5, <3>2, SeqEqual
    <3> QED
      BY <3>3 DEF r
  <2>14. Trim(q) = q
    BY <2>11, <2>12, <2>13, Zenon
  <2>15. Trim(s) = q
    BY <2>2 DEF q, a, b
  <2> QED
    BY <2>14, <2>15, Zenon
<1> QED
  BY <1>2, <1>3

\* One position, and none, in order.
LEMMA InOrderOne ==
  ASSUME NEW n \in Nat
  PROVE  /\ InOrder(n, {}) = <<>>
         /\ \A k \in 1 .. n : InOrder(n, {k}) = <<k>>
<1>1. InOrder(n, {}) = <<>>
  <2>1. InOrder(n, {}) = InOrder(0, {})
    BY InOrderSkips
  <2> QED
    BY <2>1, InOrderNext
<1>2. ASSUME NEW k \in 1 .. n
      PROVE  InOrder(n, {k}) = <<k>>
  <2>1. k \in Nat /\ k - 1 \in Nat /\ (k - 1) + 1 = k /\ k <= n
    OBVIOUS
  <2> DEFINE P == {k}
             m == k - 1
  <2>2. /\ k \in P /\ (\A i \in 0 + 1 .. m : i \notin P)
        /\ \A i \in k + 1 .. n : i \notin P
    OBVIOUS
  <2>3. m \in Nat /\ m + 1 = k /\ 0 <= m
    BY <2>1
  <2> HIDE DEF P, m
  <2>4. InOrder(m, P) = InOrder(0, P)
    BY <2>2, <2>3, InOrderSkips
  <2>5. InOrder(n, P) = InOrder(k, P)
    BY <2>1, <2>2, InOrderSkips
  <2>6. InOrder(m + 1, P) = Append(InOrder(m, P), m + 1) /\ InOrder(0, P) = <<>>
    BY <2>2, <2>3, InOrderNext
  <2>7. Append(<<>>, k) = <<k>>
    OBVIOUS
  <2>8. InOrder(n, P) = <<k>>
    BY <2>3, <2>4, <2>5, <2>6, <2>7
  <2> QED
    BY <2>8 DEF P
<1> QED
  BY <1>1, <1>2

\* INSERT: append_row_csv adds the one row that the statement spells.
LEMMA InsertRefines ==
  ASSUME SessionInv, InsertRow
  PROVE  Rows!Insert
<1> DEFINE vs == InsertedRow
           file == File
           new == AppendRow(file, vs)
           old == RowsOf(file)
           row == ParseLine(RowLine(vs))
           written == [csv EXCEPT ![Storage] = AppendRow(@, InsertedRow)]
<1>1. /\ stage = "execute" /\ statement.kind = "insert" /\ ~InsertRefused /\ ~NamedTwice
      /\ rows' = Contents(written) /\ stage' = "idle" /\ reply' = Succeeded(<<>>, 1)
  BY DEF InsertRow, Finish
<1>2. Rows!ValidInsert(statement, schema.columns)
  BY <1>1, InsertFits
<1>3. /\ vs \in Seq(AllTexts) /\ vs # <<>> /\ Len(vs) = Len(schema.columns)
      /\ \A i \in 1 .. Len(vs) : NoBreak(vs[i])
  BY <1>1, InsertedTypes
<1>4. /\ Storage \in DOMAIN csv /\ file \in Seq(Pieces) /\ file # <<>>
      /\ rows[Storage] = old /\ \E V : old \in Seq(V)
  BY <1>1, TableRead
<1>5. file \in AllTexts /\ rows = Contents(csv) /\ csv = [s \in DOMAIN csv |-> csv[s]]
  BY <1>4 DEF SessionInv, FilesFit, File
<1>6. /\ IsRowText(RowLine(vs)) /\ new = Extended(file, RowLine(vs)) /\ new # <<>>
      /\ RowsOf(new) = Append(old, row)
  <2> HIDE DEF vs, file
  <2>1. IsRowText(RowLine(vs))
    BY <1>3, RowLineText
  <2>2. new = Extended(file, RowLine(vs)) /\ new \in AllTexts
    BY <1>3, <1>4, <1>5, AppendRowText
  <2>3. RowsOf(Extended(file, RowLine(vs))) = Append(old, row)
    BY <1>4, <2>1, RowsGrow
  <2>4. new # <<>>
    <3> DEFINE longer == Extended(file, RowLine(vs))
    <3>1. IsExtended(longer, file, RowLine(vs), AppendStart(file))
      BY <1>4, <2>1, ExtendedPlaces
    <3> HIDE DEF longer
    <3>2. Len(longer) # 0
      BY <1>4, <3>1, EmptySeq DEF IsExtended
    <3> QED
      BY <2>2, <3>2 DEF longer
  <2> QED
    BY <2>1, <2>2, <2>3, <2>4
<1>7. row = [ok |-> TRUE, fields |-> KeptAll(vs)]
  <2> HIDE DEF vs
  <2> QED
    BY <1>3, RowReadBack
<1>8. /\ DOMAIN written = DOMAIN csv /\ written[Storage] = new
      /\ \A s \in DOMAIN csv : s # Storage => written[s] = csv[s]
  BY <1>4, <1>5 DEF File
<1> HIDE DEF vs, file, new, old, written
<1>9. rows' = [rows EXCEPT ![Storage] = Append(@, row)]
  <2> DEFINE left == Contents(written)
             right == [rows EXCEPT ![Storage] = Append(@, row)]
             C(t) == IF t = <<>> THEN <<>> ELSE RowsOf(t)
  <2>1. /\ rows = [s \in DOMAIN csv |-> C(csv[s])]
        /\ left = [s \in DOMAIN written |-> C(written[s])]
    BY <1>5 DEF Contents
  <2>2. C(new) = Append(old, row)
    BY <1>6
  <2> HIDE DEF C, row
  <2>3. /\ right = [s \in DOMAIN csv |-> right[s]]
        /\ \A s \in DOMAIN csv : right[s] = IF s = Storage THEN Append(old, row) ELSE C(csv[s])
    BY <1>4, <2>1
  <2>4. /\ left = [s \in DOMAIN csv |-> left[s]]
        /\ \A s \in DOMAIN csv : left[s] = IF s = Storage THEN Append(old, row) ELSE C(csv[s])
    BY <1>8, <2>1, <2>2
  <2> HIDE DEF left, right
  <2>5. left = right
    BY <2>3, <2>4
  <2> QED
    BY <1>1, <2>5 DEF left, right
<1>10. rows'[Storage] = Append(old, row)
  <2>1. Storage \in DOMAIN rows
    BY <1>4, <1>5 DEF Contents
  <2> HIDE DEF row
  <2> QED
    BY <1>4, <1>9, <2>1
<1>11. rows'[Storage] # <<>> /\ Last(rows'[Storage]) = row
  <2>1. PICK V : old \in Seq(V)
    BY <1>4
  <2> DEFINE W == V \cup {row}
             q == Append(old, row)
  <2>2. old \in Seq(W) /\ row \in W
    BY <2>1
  <2> HIDE DEF W, row
  <2>3. Len(q) = Len(old) + 1 /\ q[Len(old) + 1] = row /\ q # <<>>
    BY <2>2, AppendProperties
  <2> HIDE DEF q
  <2>4. Last(q) = row
    BY <2>3 DEF Last
  <2> QED
    BY <1>10, <2>3, <2>4 DEF q
<1>12. row.ok /\ row.fields = KeptAll(vs)
  BY <1>7
<1> HIDE DEF row
<1>13. /\ DOMAIN vs = DOMAIN schema.columns
       /\ Len(KeptAll(vs)) = Len(vs) /\ \A c \in DOMAIN vs : KeptAll(vs)[c] = Kept(vs[c])
  <2>1. DOMAIN vs = DOMAIN schema.columns
    BY DEF vs, InsertedRow
  <2>2. \A c \in DOMAIN vs : KeptAll(vs)[c] = Kept(vs[c])
    BY DEF KeptAll
  <2>3. Len(KeptAll(vs)) = Len(vs)
    <3> DEFINE n == Len(vs)
               V == {Kept(vs[c]) : c \in DOMAIN vs}
    <3>1. n \in Nat /\ DOMAIN vs = 1 .. n
      BY <1>3
    <3>2. KeptAll(vs) \in [1 .. n -> V]
      BY <3>1 DEF KeptAll
    <3> HIDE DEF n, V
    <3>3. Len(KeptAll(vs)) = n
      BY <3>1, <3>2
    <3> QED
      BY <3>3 DEF n
  <2> QED
    BY <2>1, <2>2, <2>3
<1>14. Rows!Whole(row, schema.columns)
  BY <1>3, <1>12, <1>13 DEF Rows!Whole
<1>15. \A v \in AllTexts : Trim(Kept(v)) = Trim(v)
  <2>1. \A v \in AllTexts : Trim(Trim(v)) = Trim(v)
    BY TrimTwice DEF AllTexts
  <2> QED
    BY <2>1 DEF Kept
<1> DEFINE K(c) == SelectInSeq(statement.columns, LAMBDA n : FindColumn(schema, n) = c)
<1>16. \A c \in DOMAIN schema.columns :
         Trim(row.fields[c]) = IF K(c) = 0 THEN <<>> ELSE Trim(statement.values[K(c)])
  <2>1. \A c \in DOMAIN schema.columns :
          vs[c] = IF K(c) = 0 THEN <<>> ELSE statement.values[K(c)]
    BY DEF vs, InsertedRow
  <2>2. \A c \in DOMAIN vs : vs[c] \in AllTexts
    BY <1>3
  <2>3. Trim(<<>>) = <<>>
    BY DEF Trim, AllIn
  <2> HIDE DEF K
  <2> QED
    BY <1>12, <1>13, <1>15, <2>1, <2>2, <2>3
<1>17. \A c \in DOMAIN schema.columns :
         LET i == SelectInSeq(statement.columns, LAMBDA n : FindColumn(schema, n) = c)
         IN  Trim(Last(rows'[Storage]).fields[c])
               = IF i = 0 THEN <<>> ELSE Trim(statement.values[i])
  BY <1>11, <1>16, Zenon
<1>18. rows' = [rows EXCEPT ![Storage] = Append(@, Last(rows'[Storage]))]
  <2> DEFINE last == Last(rows'[Storage])
  <2>1. last = row
    BY <1>11
  <2> HIDE DEF last
  <2>2. rows' = [rows EXCEPT ![Storage] = Append(@, last)]
    BY <1>9, <2>1
  <2> QED
    BY <2>2 DEF last
<1>19. Rows!Whole(Last(rows'[Storage]), schema.columns)
  BY <1>11, <1>14
<1> QED
  BY <1>1, <1>2, <1>11, <1>17, <1>18, <1>19, RowsInsert

\* select_row_buffer_push copies the fields that are asked for.
LEMMA SelectedIs ==
  ASSUME NEW table, NEW n
  PROVE  SelectedRow(table[n].fields, n)
           = [c \in DOMAIN Listed |-> Rows!Field(table, schema.columns, n, Listed[c])]
<1>1. \A column : Rows!Field(table, schema.columns, n, column) =
                    IF column = <<"id">> THEN <<ToString(n)>>
                    ELSE table[n].fields[FindColumn(schema, column)]
  <2>1. \A column : Rows!Field(table, schema.columns, n, column) =
                      IF column = Rows!IdColumn THEN <<ToString(n)>>
                      ELSE table[n].fields[Rows!ColumnOf(schema.columns, column)]
    BY Zenon DEF Rows!Field
  <2>2. Rows!IdColumn = <<"id">>
    BY DEF Rows!IdColumn
  <2> QED
    BY <2>1, <2>2, SameOperators
<1> QED
  BY <1>1, Zenon DEF SelectedRow

\* SELECT by id: what the index leads to is the row at that position.
LEMMA IndexRefines ==
  ASSUME SessionInv, ExecuteIndexSelect, NEW returned, NEW affected,
         reply' = Succeeded(returned, affected)
  PROVE  Rows!Select
<1> DEFINE table == rows[Storage]
           starts == RowStarts(File)
           id == ParseInt(statement.whereValue)
           line == LineAt(File, Loaded.offsets[id])
           row == ParseLine(line)
           chosen == Rows!Chosen(statement, table, schema.columns)
           P == {n \in DOMAIN table : n = id}
<1>1. /\ stage = "execute" /\ ById /\ ~SelectRefused /\ UNCHANGED rows
      /\ \/ FinishFailed("row")
         \/ id \notin DOMAIN Loaded.offsets /\ Finish(Succeeded(<<>>, 0))
         \/ /\ id \in DOMAIN Loaded.offsets /\ line # <<>> /\ WholeRow(row)
            /\ Finish(Succeeded(<<SelectedRow(row.fields, id)>>, 1))
  BY DEF ExecuteIndexSelect, files
<1>2. /\ statement.kind = "select" /\ statement.hasWhere /\ statement.whereColumn = <<"id">>
  BY <1>1 DEF ById
<1>3. Rows!ValidSelect(statement, schema.columns)
  BY <1>1, <1>2, SelectFits
<1>4. /\ table = RowsOf(File) /\ Loaded.offsets = starts /\ DOMAIN table = DOMAIN starts
      /\ Len(table) = Len(starts) /\ starts \in Seq(1 .. Len(File))
      /\ \A n \in DOMAIN starts : table[n] = ParseLine(LineAt(File, starts[n]))
  BY <1>1, TableRead DEF IndexOf
<1>5. Len(table) \in Nat /\ DOMAIN table = 1 .. Len(table)
  <2> HIDE DEF table, starts
  <2> QED
    BY <1>4
<1>6. chosen = InOrder(Len(table), P)
  <2> DEFINE Q == {n \in DOMAIN table :
                     CASE ~statement.hasWhere -> TRUE
                       [] statement.hasWhere /\ statement.whereColumn = Rows!IdColumn ->
                            n = Rows!ParseInt(statement.whereValue)
                       [] OTHER -> Rows!Field(table, schema.columns, n, statement.whereColumn)
                                     = statement.whereValue}
  <2>1. chosen = Rows!InOrder(Len(table), Q)
    BY Zenon DEF Rows!Chosen
  <2>2. Rows!IdColumn = <<"id">> /\ Rows!ParseInt(statement.whereValue) = id
    BY SameOperators DEF Rows!IdColumn
  <2>3. Q = P
    <3> HIDE DEF id, table
    <3> QED
      BY <1>2, <2>2
  <2> HIDE DEF Q, P, chosen, table
  <2> QED
    BY <2>1, <2>3, SameOperators
<1>7. reply'.code = "OK"
  BY DEF Succeeded
<1>8. ~FinishFailed("row")
  <2>1. Failed(ExecutionError("row")).code # "OK"
    BY ErrorCodes
  <2> QED
    BY <1>7, <2>1 DEF FinishFailed, Finish
<1>9. stage' = "idle"
  BY <1>1 DEF FinishFailed, Finish
<1> DEFINE S(n) == [c \in DOMAIN Listed |-> Rows!Field(table, schema.columns, n, Listed[c])]
           answer == [code |-> "OK", affected |-> Len(chosen),
                      rows |-> [i \in DOMAIN chosen |-> S(chosen[i])]]
<1>10. CASE id \notin DOMAIN Loaded.offsets
  <2>1. reply' = Succeeded(<<>>, 0)
    BY <1>1, <1>8, <1>10 DEF Finish
  <2>2. P = {}
    <3> HIDE DEF id, table, starts
    <3> QED
      BY <1>4, <1>10
  <2>3. chosen = <<>>
    <3> HIDE DEF P, chosen, table
    <3> QED
      BY <1>5, <1>6, <2>2, InOrderOne
  <2>4. reply' = answer /\ ToSet(chosen) = {}
    <3> HIDE DEF chosen, S
    <3>1. [i \in DOMAIN chosen |-> S(chosen[i])] = <<>> /\ Len(chosen) = 0 /\ ToSet(chosen) = {}
      BY <2>3 DEF ToSet
    <3> QED
      BY <2>1, <3>1 DEF Succeeded
  <2>5. \A n \in DOMAIN table : n \notin ToSet(chosen)
    BY <2>4
  <2> HIDE DEF chosen
  <2> QED
    BY <1>1, <1>2, <1>3, <1>9, <2>4, <2>5, RowsSelect DEF chosen
<1>11. CASE id \in DOMAIN Loaded.offsets
  <2>1. WholeRow(row) /\ reply' = Succeeded(<<SelectedRow(row.fields, id)>>, 1)
    BY <1>1, <1>8, <1>11 DEF Finish
  <2>2. id \in DOMAIN table /\ row = table[id]
    <3> HIDE DEF id, table, starts
    <3> QED
      BY <1>4, <1>11
  <2>3. P = {id}
    <3> HIDE DEF id, table
    <3> QED
      BY <2>2
  <2>4. chosen = <<id>>
    <3> HIDE DEF P, chosen, table, id
    <3> QED
      BY <1>5, <1>6, <2>2, <2>3, InOrderOne
  <2>5. SelectedRow(row.fields, id) = S(id)
    <3>1. SelectedRow(table[id].fields, id) = S(id)
      BY SelectedIs
    <3> HIDE DEF S, row, table, id
    <3> QED
      BY <2>2, <3>1
  <2>6. reply' = answer /\ ToSet(chosen) = {id}
    <3> HIDE DEF chosen, S, row, id
    <3>1. /\ [i \in DOMAIN chosen |-> S(chosen[i])] = <<S(id)>>
          /\ Len(chosen) = 1 /\ ToSet(chosen) = {id}
      BY <2>4 DEF ToSet
    <3> QED
      BY <2>1, <2>5, <3>1 DEF Succeeded
  <2>7. \A n \in DOMAIN table :
          Rows!Whole(table[n], schema.columns) \/ n \notin ToSet(chosen)
    <3>1. Rows!Whole(table[id], schema.columns)
      <4> HIDE DEF row, table, id
      <4> QED
        BY <2>1, <2>2 DEF WholeRow, Rows!Whole
    <3> HIDE DEF chosen, table, id
    <3> QED
      BY <2>6, <3>1
  <2> HIDE DEF chosen
  <2> QED
    BY <1>1, <1>2, <1>3, <1>9, <2>6, <2>7, RowsSelect DEF chosen
<1> QED
  BY <1>10, <1>11

\* SELECT by a scan: the rows that match, in their order.
LEMMA ScanRefines ==
  ASSUME SessionInv, ExecuteScan, NEW returned, NEW affected,
         reply' = Succeeded(returned, affected)
  PROVE  Rows!Select
<1> DEFINE table == rows[Storage]
           chosen == Rows!Chosen(statement, table, schema.columns)
           where == statement.whereColumn
           P == {n \in DOMAIN table : statement.hasWhere =>
                   table[n].fields[FindColumn(schema, where)] = statement.whereValue}
           hits == InOrder(Len(table), P)
<1>1. stage = "execute" /\ statement.kind = "select" /\ ~ById /\ ~SelectRefused
  BY DEF ExecuteScan
<1>2. table = RowsOf(File)
  BY <1>1, TableRead
<1>3. /\ UNCHANGED rows
      /\ IF \E n \in DOMAIN table : ~WholeRow(table[n]) THEN FinishFailed("row")
         ELSE Finish(Succeeded([i \in DOMAIN hits |->
                                  SelectedRow(table[hits[i]].fields, hits[i])], Len(hits)))
  <2> DEFINE read == RowsOf(File)
             Q == {n \in DOMAIN read : statement.hasWhere =>
                     read[n].fields[FindColumn(schema, where)] = statement.whereValue}
             found == InOrder(Len(read), Q)
  <2>1. /\ UNCHANGED rows
        /\ IF \E n \in DOMAIN read : ~WholeRow(read[n]) THEN FinishFailed("row")
           ELSE Finish(Succeeded([i \in DOMAIN found |->
                                    SelectedRow(read[found[i]].fields, found[i])], Len(found)))
    BY Zenon DEF ExecuteScan, files
  <2> QED
    BY <1>2, <2>1, Zenon
<1>4. ~FinishFailed("row")
  <2>1. Failed(ExecutionError("row")).code # "OK" /\ reply'.code = "OK"
    BY ErrorCodes DEF Succeeded
  <2> QED
    BY <2>1 DEF FinishFailed, Finish
<1> HIDE DEF P
<1>5. /\ \A n \in DOMAIN table : WholeRow(table[n])
      /\ stage' = "idle"
      /\ reply' = Succeeded([i \in DOMAIN hits |->
                               SelectedRow(table[hits[i]].fields, hits[i])], Len(hits))
  <2> HIDE DEF hits, table
  <2> QED
    BY <1>3, <1>4 DEF Finish
<1>6. Rows!ValidSelect(statement, schema.columns)
  BY <1>1, SelectFits
<1>7. chosen = hits
  <2> DEFINE Q == {n \in DOMAIN table :
                     CASE ~statement.hasWhere -> TRUE
                       [] statement.hasWhere /\ where = Rows!IdColumn ->
                            n = Rows!ParseInt(statement.whereValue)
                       [] OTHER -> Rows!Field(table, schema.columns, n, where)
                                     = statement.whereValue}
  <2>1. chosen = Rows!InOrder(Len(table), Q)
    BY Zenon DEF Rows!Chosen
  <2>2. Rows!IdColumn = <<"id">> /\ (statement.hasWhere => where # <<"id">>)
    BY <1>1 DEF Rows!IdColumn, ById
  <2>3. \A n : where # <<"id">> => Rows!Field(table, schema.columns, n, where)
                                     = table[n].fields[FindColumn(schema, where)]
    <3>1. \A n : Rows!Field(table, schema.columns, n, where) =
                   IF where = Rows!IdColumn THEN <<ToString(n)>>
                   ELSE table[n].fields[Rows!ColumnOf(schema.columns, where)]
      BY Zenon DEF Rows!Field
    <3> HIDE DEF where, table
    <3> QED
      BY <2>2, <3>1, SameOperators
  <2>4. Q = P
    <3> HIDE DEF table, where
    <3> QED
      BY <2>2, <2>3 DEF P
  <2> HIDE DEF Q, chosen, table
  <2> QED
    BY <2>1, <2>4, SameOperators
<1> DEFINE S(n) == [c \in DOMAIN Listed |-> Rows!Field(table, schema.columns, n, Listed[c])]
           answer == [code |-> "OK", affected |-> Len(chosen),
                      rows |-> [i \in DOMAIN chosen |-> S(chosen[i])]]
<1>8. reply' = answer
  <2>1. \A n : SelectedRow(table[n].fields, n) = S(n)
    BY SelectedIs
  <2> HIDE DEF S, chosen, hits, table
  <2>2. [i \in DOMAIN hits |-> SelectedRow(table[hits[i]].fields, hits[i])]
          = [i \in DOMAIN chosen |-> S(chosen[i])]
    BY <1>7, <2>1
  <2> QED
    BY <1>5, <1>7, <2>2 DEF Succeeded
<1>9. \A n \in DOMAIN table : Rows!Whole(table[n], schema.columns)
  <2> HIDE DEF table
  <2> QED
    BY <1>5 DEF WholeRow, Rows!Whole
<1> HIDE DEF chosen
<1> QED
  BY <1>1, <1>3, <1>5, <1>6, <1>8, <1>9, RowsSelect DEF chosen

\* Every step of a request.
LEMMA RequestRefines ==
  ASSUME SessionInv, RunRequest
  PROVE  Rows!Next \/ UNCHANGED Rows!vars
<1>1. \A code : Failed(code).code = code
  BY DEF Failed
<1>2. CASE LexText
  <2>1. /\ stage # "execute" /\ stage' # "execute" /\ UNCHANGED rows
        /\ reply' = reply \/ reply' = Failed("SQL_LEX_ERROR")
    BY <1>2 DEF LexText, Finish, files
  <2>2. reply' = reply \/ reply'.code # "OK"
    BY <1>1, <2>1
  <2> QED
    BY <2>1, <2>2, RowsIdle DEF Rows!Next
<1>3. CASE ParseTokens
  <2>1. /\ stage # "execute" /\ stage' # "execute" /\ UNCHANGED rows
        /\ \/ reply' = reply
           \/ reply' = Failed("UNSUPPORTED_SQL") \/ reply' = Failed("SQL_PARSE_ERROR")
    BY <1>3 DEF ParseTokens, Finish, files
  <2>2. reply' = reply \/ reply'.code # "OK"
    BY <1>1, <2>1
  <2> QED
    BY <2>1, <2>2, RowsIdle DEF Rows!Next
<1>4. CASE LoadTable
  <2>1. /\ stage # "execute" /\ UNCHANGED rows
        /\ \/ stage' = "execute" /\ reply' = reply
           \/ /\ stage' # "execute"
              /\ reply' = Failed("STORAGE_IO_ERROR") \/ reply' = Failed("SCHEMA_LOAD_ERROR")
    BY <1>4 DEF LoadTable, Finish, files
  <2>2. \/ stage' = "execute" /\ reply' = reply
        \/ stage' # "execute" /\ reply'.code # "OK"
    BY <1>1, <2>1
  <2> QED
    BY <2>1, <2>2, RowsIdle DEF Rows!Next
<1>5. CASE InsertRow
  BY <1>5, InsertRefines DEF Rows!Next
<1>6. CASE InsertFails \/ SelectFails \/ ExecuteIndexSelect \/ ExecuteScan
  <2>1. /\ stage = "execute" /\ stage' = "idle" /\ UNCHANGED <<files, request>>
        /\ \/ reply' = Failed(ExecutionError("argument")) /\ Misfit
           \/ reply' = Failed(ExecutionError("open")) /\ NotWritable
           \/ reply' = Failed(ExecutionError("row")) /\ Damaged
           \/ \E returned, n : reply' = Succeeded(returned, n)
    BY <1>6, FailureReasons
  <2>2. UNCHANGED rows
    BY <2>1 DEF files
  <2>3. \A cause \in {"argument", "open", "row"} : Failed(ExecutionError(cause)).code # "OK"
    BY ErrorCodes
  <2>4. CASE (Misfit \/ NotWritable \/ Damaged) /\ reply'.code # "OK"
    BY <2>1, <2>2, <2>4, RowsRefuse DEF Rows!Next
  <2>5. CASE \E returned, n : reply' = Succeeded(returned, n)
    <3>1. PICK returned, n : reply' = Succeeded(returned, n)
      BY <2>5
    <3>2. reply'.code = "OK"
      BY <3>1 DEF Succeeded
    <3>3. ~(InsertFails \/ SelectFails)
      <4>1. ASSUME InsertFails \/ SelectFails
            PROVE  \E cause \in {"argument", "open", "row"} :
                     reply' = Failed(ExecutionError(cause))
        <5>1. \E cause \in {"argument", "open", "row"} : FinishFailed(cause)
          BY <4>1 DEF InsertFails, SelectFails
        <5> QED
          BY <5>1 DEF FinishFailed, Finish
      <4> QED
        BY <2>3, <3>2, <4>1
    <3> QED
      BY <1>6, <3>1, <3>3, IndexRefines, ScanRefines DEF Rows!Next
  <2> QED
    BY <2>1, <2>3, <2>4, <2>5
<1> QED
  BY <1>2, <1>3, <1>4, <1>5, <1>6 DEF RunRequest

\* Every step of a program.
LEMMA StepRefines ==
  StateInv /\ [Next]_vars => [Rows!Next]_Rows!vars
<1> SUFFICES ASSUME StateInv, [Next]_vars
             PROVE  Rows!Next \/ UNCHANGED Rows!vars
  OBVIOUS
<1>1. SessionInv
  BY DEF StateInv
<1>2. UNCHANGED <<catalog, rows, stage, statement, schema, reply>> => UNCHANGED Rows!vars
  <2>1. UNCHANGED Rows!vars <=> UNCHANGED <<rows, Pending, reply>>
    BY Zenon DEF Rows!vars, Pending, Now
  <2> QED
    BY <2>1 DEF Pending, Now, Storage
<1>3. UNCHANGED sessionVars => UNCHANGED Rows!vars
  BY <1>2 DEF sessionVars, files, request
<1>4. \A status : Exit(status) => UNCHANGED Rows!vars
  BY <1>2 DEF Exit, files, request
<1>5. ASSUME NEW sql, NEW blanks, NEW limit, Accept(sql, blanks, limit)
      PROVE  Rows!Next \/ UNCHANGED Rows!vars
  <2>1. /\ stage # "execute" /\ stage' # "execute" /\ UNCHANGED rows
        /\ \/ reply' = reply
           \/ reply' = Failed("INVALID_SQL_ARGUMENT") \/ reply' = Failed("PAYLOAD_TOO_LARGE")
    BY <1>5 DEF Accept, Finish, files
  <2>2. reply' = reply \/ reply'.code # "OK"
    BY <2>1 DEF Failed
  <2> QED
    BY <2>1, <2>2, RowsIdle DEF Rows!Next
<1>6. CASE UNCHANGED vars
  BY <1>3, <1>6 DEF vars
<1>7. CASE Step
  BY <1>1, <1>7, RequestRefines DEF Step
<1>8. CASE Request
  BY <1>5, <1>8 DEF Request
<1>9. CASE ServerRestarts \/ ProcessAborts
  <2>1. /\ UNCHANGED rows /\ stage' # "execute"
        /\ reply' = reply \/ reply' = Failed("none")
    BY <1>9 DEF ServerRestarts, ProcessAborts, Restart, Abort, files
  <2>2. reply' = reply \/ reply'.code # "OK"
    BY <2>1 DEF Failed
  <2>3. CASE stage = "execute"
    BY <2>1, <2>2, <2>3, RowsRefuse DEF Rows!Next
  <2>4. CASE stage # "execute"
    BY <2>1, <2>2, <2>4, RowsIdle DEF Rows!Next
  <2> QED
    BY <2>3, <2>4
<1>10. CASE StartRepl \/ ReplResult
  BY <1>3, <1>10 DEF StartRepl, ReplResult
<1>11. CASE StartOnce
  <2>1. (\E sql : Accept(sql, Spaces, 0)) \/ \E status : Exit(status)
    BY <1>11 DEF StartOnce
  <2> QED
    BY <1>4, <1>5, <2>1
<1>12. CASE EndOnce \/ ReplEnds
  <2>1. \E status : Exit(status)
    BY <1>12, Zenon DEF EndOnce, ReplEnds
  <2> QED
    BY <1>4, <2>1
<1>13. CASE ReplLine
  <2>1. \/ UNCHANGED sessionVars \/ \E status : Exit(status)
        \/ \E sql : Accept(sql, Spaces, 0)
    BY <1>13, Zenon DEF ReplLine
  <2> QED
    BY <1>3, <1>4, <1>5, <2>1
<1> QED
  BY <1>6, <1>7, <1>8, <1>9, <1>10, <1>11, <1>12, <1>13 DEF Next

(* The lexer, the parser, the schema, the CSV files and the indexes        *)
(* together do what TableRows says of rows alone, for any files and any    *)
(* requests: an INSERT adds the one row it spells, a SELECT returns the    *)
(* rows that match, by index as by scan, and a refusal has a reason and    *)
(* changes nothing.                                                        *)
THEOREM ProgramsImplementRows ==
  Spec => ImplementsTableRows
<1>1. Init => Rows!Init
  <2>1. Rows!Init <=> Pending = <<>>
    BY Zenon DEF Rows!Init, Pending, Now
  <2>2. Init => stage = "idle"
    BY DEF Init, SessionInit
  <2> QED
    BY <2>1, <2>2, PendingIs
<1> QED
  BY <1>1, StateKept, StepRefines, PTL DEF Spec, ImplementsTableRows, Rows!Spec
=============================================================================
