---------------------------- MODULE StoreProofs -----------------------------
(***************************************************************************)
(* The PostgreSQL run store keeps what it acknowledged, whole, and         *)
(* implements the durable run store, for any number of threads and runs.   *)
(***************************************************************************)
EXTENDS PostgresProperties, TLAPS

\* The rows of the tables that w has passed are visible to it.
Passed(w) ==
  pc[w] \in {"select", "insert", "commit"} =>
    /\ pc[w] = "commit" => table[w] = 3 /\ RunRow(run[w]) \in Visible(w)
    /\ table[w] > 1 => SnapshotRow(run[w]) \in Visible(w)
    /\ table[w] > 2 => ScenarioRow(run[w]) \in Visible(w)

\* What w has inserted is its own, of those tables, and only while its transaction is
\* open.
InsertedOwn(w) ==
  /\ inserted[w] \subseteq {SnapshotRow(run[w]), ScenarioRow(run[w]), RunRow(run[w])}
  /\ SnapshotRow(run[w]) \in inserted[w] => table[w] > 1
  /\ ScenarioRow(run[w]) \in inserted[w] => table[w] > 2
  /\ RunRow(run[w]) \in inserted[w] => pc[w] = "commit"
  /\ pc[w] \in {"idle", "lookup"} => inserted[w] = {}

\* A key is held by one transaction, and not once it is committed.
Exclusive ==
  \A w \in Workers :
    /\ inserted[w] \cap rows = {}
    /\ \A v \in Workers \ {w} : inserted[w] \cap inserted[v] = {}

\* A conflict is a row that somebody committed.
ConflictCommitted(w) == pc[w] = "lookup" => RowOf(w) \in rows

\* During a save there is no answer yet.
Unanswered(w) == pc[w] # "idle" => reply[w] = "none"

StoreInv ==
  /\ TypeOK
  /\ \A w \in Workers : Passed(w) /\ InsertedOwn(w) /\ ConflictCommitted(w) /\ Unanswered(w)
  /\ Exclusive
  /\ RowsBelongToRuns
  /\ SavedIsKept
  /\ ConflictIsSettled

-----------------------------------------------------------------------------
(* Rows.                                                                   *)

\* The three rows of a run are in three tables: no two of them are the same row.
LEMMA RowFacts ==
  ASSUME NEW r \in Runs
  PROVE  /\ RowsOf(r)[1] = SnapshotRow(r)
         /\ RowsOf(r)[2] = ScenarioRow(r)
         /\ RowsOf(r)[3] = RunRow(r)
         /\ SnapshotRow(r) \in Row /\ ScenarioRow(r) \in Row /\ RunRow(r) \in Row
         /\ \A q \in Runs : /\ SnapshotRow(r) # ScenarioRow(q)
                            /\ SnapshotRow(r) # RunRow(q)
                            /\ ScenarioRow(r) # RunRow(q)
                            /\ RunRow(r) = RunRow(q) => r = q
                            /\ ScenarioRow(r) = ScenarioRow(q) => SnapshotRow(r) = SnapshotRow(q)
BY StoreAssumption DEF RowsOf, SnapshotRow, ScenarioRow, RunRow, Row

\* The row that a worker looks at.
LEMMA RowOfFacts ==
  ASSUME TypeOK, NEW w \in Workers
  PROVE  /\ run[w] \in Runs
         /\ RowOf(w) \in Row
         /\ table[w] = 1 => RowOf(w) = SnapshotRow(run[w])
         /\ table[w] = 2 => RowOf(w) = ScenarioRow(run[w])
         /\ table[w] = 3 => RowOf(w) = RunRow(run[w])
<1>1. run[w] \in Runs /\ table[w] \in {1, 2, 3}
  BY DEF TypeOK
<1> QED
  BY <1>1, RowFacts DEF RowOf

\* A committed scenario or run has its inputs committed.
LEMMA CommittedLineage ==
  ASSUME RowsBelongToRuns, NEW r \in Runs
  PROVE  /\ ScenarioRow(r) \in rows => SnapshotRow(r) \in rows
         /\ RunRow(r) \in rows => SnapshotRow(r) \in rows /\ ScenarioRow(r) \in rows
<1>1. ASSUME ScenarioRow(r) \in rows PROVE SnapshotRow(r) \in rows
  <2>1. PICK q \in Runs : /\ RunRow(q) \in rows
                          /\ ScenarioRow(r) \in {SnapshotRow(q), ScenarioRow(q), RunRow(q)}
    BY <1>1, RowFacts DEF RowsBelongToRuns
  <2>2. SnapshotRow(r) = SnapshotRow(q)
    BY <2>1, RowFacts
  <2> QED
    BY <2>1, <2>2, RowFacts DEF RowsBelongToRuns
<1> QED
  BY <1>1, RowFacts DEF RowsBelongToRuns

\* An insert fails only on a row that somebody committed, and then nothing of the
\* transaction is lost.
LEMMA InsertConflict ==
  ASSUME StoreInv, NEW w \in Workers, InsertFails(w)
  PROVE  RowOf(w) \in rows /\ inserted[w] = {}
<1> DEFINE r == run[w]
<1>1. r \in Runs /\ table[w] \in {1, 2, 3}
  BY DEF StoreInv, TypeOK
<1>2. /\ Passed(w) /\ InsertedOwn(w) /\ TypeOK /\ RowsBelongToRuns
      /\ inserted[w] \cap rows = {}
      /\ pc[w] = "insert"
  BY DEF StoreInv, Exclusive, InsertFails
<1>3. Referenced(r, RowOf(w)) \subseteq Visible(w)
  BY <1>1, <1>2, RowOfFacts, RowFacts DEF Passed, Referenced
<1>4. RowOf(w) \in Visible(w)
  BY <1>3 DEF InsertFails, Violates
<1>5. RowOf(w) \notin inserted[w]
  BY <1>1, <1>2, RowOfFacts, RowFacts DEF InsertedOwn
<1>6. RowOf(w) \in rows
  BY <1>4, <1>5 DEF Visible
<1>7. inserted[w] = {}
  <2>1. RunRow(r) \notin inserted[w]
    BY <1>2 DEF InsertedOwn
  <2>2. SnapshotRow(r) \notin inserted[w]
    BY <1>1, <1>2, <1>6, RowOfFacts, CommittedLineage DEF InsertedOwn
  <2>3. ScenarioRow(r) \notin inserted[w]
    BY <1>1, <1>2, <1>6, RowOfFacts, CommittedLineage DEF InsertedOwn
  <2> QED
    BY <1>2, <2>1, <2>2, <2>3 DEF InsertedOwn
<1> QED
  BY <1>6, <1>7

-----------------------------------------------------------------------------
(* The invariant.                                                          *)

\* StoreInv holds in the empty database.
LEMMA InitStoreInv == Init => StoreInv
<1> SUFFICES ASSUME Init PROVE StoreInv
  OBVIOUS
<1> USE DEF Init
<1>1. TypeOK
  BY DEF TypeOK
<1>2. \A w \in Workers : Passed(w) /\ InsertedOwn(w) /\ ConflictCommitted(w) /\ Unanswered(w)
  BY DEF Passed, InsertedOwn, ConflictCommitted, Unanswered
<1>3. Exclusive /\ SavedIsKept /\ ConflictIsSettled
  BY DEF Exclusive, SavedIsKept, ConflictIsSettled
<1>4. RowsBelongToRuns
  BY DEF RowsBelongToRuns
<1> QED
  BY <1>1, <1>2, <1>3, <1>4 DEF StoreInv

\* A step of w that commits nothing: the other workers keep their part of the
\* invariant, and what was answered stays true.
LEMMA OthersUndisturbed ==
  ASSUME StoreInv, NEW w \in Workers, NEW v \in Workers \ {w}, rows \subseteq rows',
         pc'[v] = pc[v], table'[v] = table[v], run'[v] = run[v],
         inserted'[v] = inserted[v], reply'[v] = reply[v]
  PROVE  /\ Passed(v)' /\ InsertedOwn(v)' /\ ConflictCommitted(v)' /\ Unanswered(v)'
         /\ reply'[v] = "saved" => RunRow(run'[v]) \in rows'
         /\ reply'[v] = "integrity_error" => table'[v] < 3 /\ RowOf(v)' \in rows'
<1>1. /\ Passed(v) /\ InsertedOwn(v) /\ ConflictCommitted(v) /\ Unanswered(v)
      /\ SavedIsKept /\ ConflictIsSettled
  BY DEF StoreInv
<1>2. RowOf(v)' = RowOf(v) /\ RunRow(run[v])' = RunRow(run[v])
      /\ SnapshotRow(run[v])' = SnapshotRow(run[v])
      /\ ScenarioRow(run[v])' = ScenarioRow(run[v])
  BY DEF RowOf, RowsOf, RunRow, SnapshotRow, ScenarioRow
<1>3. Visible(v) \subseteq Visible(v)'
  BY DEF Visible
<1>4. Passed(v)'
  BY <1>1, <1>2, <1>3 DEF Passed
<1>5. InsertedOwn(v)' /\ ConflictCommitted(v)' /\ Unanswered(v)'
  BY <1>1, <1>2 DEF InsertedOwn, ConflictCommitted, Unanswered
<1> QED
  BY <1>1, <1>2, <1>4, <1>5 DEF SavedIsKept, ConflictIsSettled

\* A step of one worker, from the facts about that worker after it.
LEMMA StepStoreInv ==
  ASSUME StoreInv, NEW w \in Workers, TypeOK', rows \subseteq rows',
         \A v \in Workers \ {w} :
           /\ pc'[v] = pc[v] /\ table'[v] = table[v] /\ run'[v] = run[v]
           /\ inserted'[v] = inserted[v] /\ reply'[v] = reply[v],
         Passed(w)', InsertedOwn(w)', ConflictCommitted(w)', Unanswered(w)',
         Exclusive', RowsBelongToRuns',
         reply'[w] = "saved" => RunRow(run'[w]) \in rows',
         reply'[w] = "integrity_error" => table'[w] < 3 /\ RowOf(w)' \in rows'
  PROVE  StoreInv'
<1>1. ASSUME NEW v \in Workers
      PROVE  /\ Passed(v)' /\ InsertedOwn(v)' /\ ConflictCommitted(v)' /\ Unanswered(v)'
             /\ reply'[v] = "saved" => RunRow(run'[v]) \in rows'
             /\ reply'[v] = "integrity_error" => table'[v] < 3 /\ RowOf(v)' \in rows'
  <2>1. CASE v = w
    BY <2>1
  <2>2. CASE v # w
    BY <2>2, OthersUndisturbed
  <2> QED
    BY <2>1, <2>2
<1>2. SavedIsKept' /\ ConflictIsSettled'
  BY <1>1 DEF SavedIsKept, ConflictIsSettled, RunRow
<1> QED
  BY <1>1, <1>2 DEF StoreInv

\* A call keeps StoreInv.
LEMMA BeginStep == ASSUME StoreInv, NEW w \in Workers, Begin(w) PROVE StoreInv'
<1>1. TypeOK /\ InsertedOwn(w) /\ Exclusive /\ RowsBelongToRuns /\ pc[w] = "idle"
  BY DEF StoreInv, Begin
<1>2. TypeOK'
  BY <1>1 DEF TypeOK, Begin, Row, SnapshotRow, ScenarioRow, RunRow
<1>3. /\ pc'[w] = "select" /\ table'[w] = 1 /\ inserted'[w] = {} /\ reply'[w] = "none"
      /\ \A v \in Workers \ {w} :
           /\ pc'[v] = pc[v] /\ table'[v] = table[v] /\ run'[v] = run[v]
           /\ inserted'[v] = inserted[v] /\ reply'[v] = reply[v]
      /\ rows' = rows /\ inserted' = inserted
  BY <1>1 DEF TypeOK, Begin, InsertedOwn
<1>4. Passed(w)' /\ InsertedOwn(w)' /\ ConflictCommitted(w)' /\ Unanswered(w)'
  BY <1>3 DEF Passed, InsertedOwn, ConflictCommitted, Unanswered
<1>5. Exclusive' /\ RowsBelongToRuns'
  BY <1>1, <1>3 DEF Exclusive, RowsBelongToRuns, Row, SnapshotRow, ScenarioRow, RunRow
<1> QED
  BY <1>2, <1>3, <1>4, <1>5, StepStoreInv

\* The step from one table to the next, when the row of the table is visible.
LEMMA NextTableStep ==
  ASSUME TypeOK, NEW w \in Workers, Passed(w), pc[w] \in {"select", "insert"},
         NextTable(w), run' = run, RowOf(w) \in Visible(w)', Visible(w) \subseteq Visible(w)'
  PROVE  /\ Passed(w)'
         /\ pc'[w] \in {"select", "commit"}
         /\ table'[w] \in 1 .. 3 /\ table'[w] >= table[w]
         /\ pc'[w] = "select" => table'[w] = table[w] + 1
         /\ pc'[w] = "commit" => table[w] = 3 /\ table'[w] = 3
         /\ pc' \in [Workers -> {"idle", "select", "insert", "commit", "lookup"}]
         /\ table' \in [Workers -> 1 .. 3]
         /\ \A v \in Workers \ {w} : pc'[v] = pc[v] /\ table'[v] = table[v]
<1> DEFINE r == run[w]
<1>1. r \in Runs /\ table[w] \in {1, 2, 3}
  BY DEF TypeOK
<1>2. /\ SnapshotRow(run'[w]) = SnapshotRow(r) /\ ScenarioRow(run'[w]) = ScenarioRow(r)
      /\ RunRow(run'[w]) = RunRow(r)
  OBVIOUS
<1>3. CASE table[w] = 3
  <2>1. pc' = [pc EXCEPT ![w] = "commit"] /\ table' = table
    BY <1>3 DEF NextTable
  <2> QED
    BY <1>1, <1>2, <1>3, <2>1, RowOfFacts DEF TypeOK, Passed
<1>4. CASE table[w] # 3
  <2>1. pc' = [pc EXCEPT ![w] = "select"] /\ table' = [table EXCEPT ![w] = @ + 1]
    BY <1>4 DEF NextTable
  <2>2. pc'[w] = "select" /\ table'[w] = table[w] + 1 /\ table[w] \in {1, 2}
    BY <1>1, <1>4, <2>1 DEF TypeOK
  <2>3. Passed(w)'
    BY <1>1, <1>2, <2>2, RowOfFacts DEF Passed
  <2> QED
    BY <2>1, <2>2, <2>3 DEF TypeOK
<1> QED
  BY <1>3, <1>4

\* A select that finds its row keeps StoreInv.
LEMMA SelectFoundStep == ASSUME StoreInv, NEW w \in Workers, SelectFound(w) PROVE StoreInv'
<1>1. TypeOK /\ Passed(w) /\ InsertedOwn(w) /\ Exclusive /\ RowsBelongToRuns /\ pc[w] = "select"
  BY DEF StoreInv, SelectFound
<1>2. /\ rows' = rows /\ inserted' = inserted /\ run' = run /\ reply' = reply
      /\ NextTable(w) /\ RowOf(w) \in Visible(w)
  BY DEF SelectFound
<1>3. reply[w] = "none"
  BY <1>1 DEF StoreInv, Unanswered
<1>4. Visible(w)' = Visible(w)
  BY <1>2 DEF Visible
<1>5. /\ Passed(w)' /\ pc'[w] \in {"select", "commit"}
      /\ table'[w] \in 1 .. 3 /\ table'[w] >= table[w]
      /\ pc' \in [Workers -> {"idle", "select", "insert", "commit", "lookup"}]
      /\ table' \in [Workers -> 1 .. 3]
      /\ \A v \in Workers \ {w} : pc'[v] = pc[v] /\ table'[v] = table[v]
  BY <1>1, <1>2, <1>4, NextTableStep
<1>6. TypeOK'
  BY <1>1, <1>2, <1>5 DEF TypeOK, Row, SnapshotRow, ScenarioRow, RunRow
<1>7. InsertedOwn(w)' /\ ConflictCommitted(w)' /\ Unanswered(w)'
  BY <1>1, <1>2, <1>3, <1>5 DEF TypeOK, InsertedOwn, ConflictCommitted, Unanswered, SnapshotRow, ScenarioRow, RunRow
<1>8. Exclusive' /\ RowsBelongToRuns'
  BY <1>1, <1>2 DEF Exclusive, RowsBelongToRuns, Row, SnapshotRow, ScenarioRow, RunRow
<1> QED
  BY <1>2, <1>3, <1>5, <1>6, <1>7, <1>8, StepStoreInv

\* A select that finds nothing keeps StoreInv.
LEMMA SelectNoneStep == ASSUME StoreInv, NEW w \in Workers, SelectNone(w) PROVE StoreInv'
<1>1. /\ TypeOK /\ Passed(w) /\ InsertedOwn(w) /\ Exclusive /\ RowsBelongToRuns
      /\ pc[w] = "select" /\ reply[w] = "none"
  BY DEF StoreInv, Unanswered, SelectNone
<1>2. /\ rows' = rows /\ inserted' = inserted /\ table' = table /\ run' = run
      /\ reply' = reply /\ pc' = [pc EXCEPT ![w] = "insert"]
  BY DEF SelectNone
<1>3. pc'[w] = "insert" /\ \A v \in Workers \ {w} : pc'[v] = pc[v]
  BY <1>1, <1>2 DEF TypeOK
<1>4. TypeOK'
  BY <1>1, <1>2 DEF TypeOK, Row, SnapshotRow, ScenarioRow, RunRow
<1>5. Passed(w)' /\ InsertedOwn(w)' /\ ConflictCommitted(w)' /\ Unanswered(w)'
  BY <1>1, <1>2, <1>3 DEF Passed, Visible, InsertedOwn, ConflictCommitted, Unanswered,
                          SnapshotRow, ScenarioRow, RunRow
<1>6. Exclusive' /\ RowsBelongToRuns'
  BY <1>1, <1>2 DEF Exclusive, RowsBelongToRuns, Row, SnapshotRow, ScenarioRow, RunRow
<1> QED
  BY <1>1, <1>2, <1>3, <1>4, <1>5, <1>6, StepStoreInv

\* An insert keeps StoreInv.
LEMMA InsertStep == ASSUME StoreInv, NEW w \in Workers, Insert(w) PROVE StoreInv'
<1> DEFINE r == run[w]
           row == RowOf(w)
<1>1. /\ TypeOK /\ Passed(w) /\ InsertedOwn(w) /\ Exclusive /\ RowsBelongToRuns
      /\ pc[w] = "insert" /\ reply[w] = "none" /\ r \in Runs /\ table[w] \in {1, 2, 3}
      /\ row \in Row
  BY RowOfFacts DEF StoreInv, TypeOK, Unanswered, Insert
<1>2. /\ rows' = rows /\ run' = run /\ reply' = reply /\ NextTable(w)
      /\ inserted' = [inserted EXCEPT ![w] = @ \cup {row}]
      /\ row \notin rows
      /\ \A v \in Workers \ {w} : row \notin inserted[v]
  BY DEF Insert, Blocked, Violates, Visible
<1>3. /\ inserted'[w] = inserted[w] \cup {row}
      /\ \A v \in Workers \ {w} : inserted'[v] = inserted[v]
  BY <1>1, <1>2 DEF TypeOK
<1>4. row \in Visible(w)' /\ Visible(w) \subseteq Visible(w)'
  BY <1>2, <1>3 DEF Visible
<1>5. /\ Passed(w)' /\ pc'[w] \in {"select", "commit"}
      /\ table'[w] \in 1 .. 3 /\ table'[w] >= table[w]
      /\ pc'[w] = "select" => table'[w] = table[w] + 1
      /\ pc'[w] = "commit" => table[w] = 3 /\ table'[w] = 3
      /\ pc' \in [Workers -> {"idle", "select", "insert", "commit", "lookup"}]
      /\ table' \in [Workers -> 1 .. 3]
      /\ \A v \in Workers \ {w} : pc'[v] = pc[v] /\ table'[v] = table[v]
  BY <1>1, <1>2, <1>4, NextTableStep
<1>6. TypeOK'
  <2>1. inserted' \in [Workers -> SUBSET Row]
    BY <1>1, <1>2 DEF TypeOK
  <2> QED
    BY <1>1, <1>2, <1>5, <2>1 DEF TypeOK, Row, SnapshotRow, ScenarioRow, RunRow
<1>7. InsertedOwn(w)'
  <2>1. /\ table[w] = 1 => row = SnapshotRow(r)
        /\ table[w] = 2 => row = ScenarioRow(r)
        /\ table[w] = 3 => row = RunRow(r)
    BY <1>1, RowOfFacts
  <2>2. /\ SnapshotRow(run'[w]) = SnapshotRow(r) /\ ScenarioRow(run'[w]) = ScenarioRow(r)
        /\ RunRow(run'[w]) = RunRow(r)
    BY <1>2
  <2>3. /\ inserted'[w] \subseteq {SnapshotRow(r), ScenarioRow(r), RunRow(r)}
        /\ SnapshotRow(r) \in inserted'[w] => table'[w] > 1
        /\ ScenarioRow(r) \in inserted'[w] => table'[w] > 2
        /\ RunRow(r) \in inserted'[w] => pc'[w] = "commit"
    BY <1>1, <1>3, <1>5, <2>1, RowFacts DEF InsertedOwn
  <2> QED
    BY <1>2, <1>5, <2>2, <2>3 DEF InsertedOwn
<1>8. ConflictCommitted(w)' /\ Unanswered(w)'
  BY <1>1, <1>2, <1>5 DEF ConflictCommitted, Unanswered
<1>9. Exclusive'
  BY <1>1, <1>2, <1>3 DEF Exclusive
<1>10. RowsBelongToRuns'
  BY <1>1, <1>2 DEF RowsBelongToRuns, Row, SnapshotRow, ScenarioRow, RunRow
<1> QED
  BY <1>1, <1>2, <1>3, <1>5, <1>6, <1>7, <1>8, <1>9, <1>10, StepStoreInv

\* A transaction is rolled back, and the worker goes on to the lookup or to an answer.
LEMMA RollbackStep ==
  ASSUME StoreInv, NEW w \in Workers, NEW next \in {"idle", "lookup"},
         NEW answer \in {"none", "saved", "integrity_error", "connection_error"},
         rows' = rows, inserted' = [inserted EXCEPT ![w] = {}], table' = table, run' = run,
         pc' = [pc EXCEPT ![w] = next], reply' = [reply EXCEPT ![w] = answer],
         next = "lookup" => RowOf(w) \in rows /\ answer = "none",
         answer = "saved" => RunRow(run[w]) \in rows,
         answer = "integrity_error" => table[w] < 3 /\ RowOf(w) \in rows
  PROVE  StoreInv'
<1>1. TypeOK /\ InsertedOwn(w) /\ Exclusive /\ RowsBelongToRuns
  BY DEF StoreInv
<1>2. /\ pc'[w] = next /\ inserted'[w] = {} /\ reply'[w] = answer
      /\ \A v \in Workers \ {w} :
           pc'[v] = pc[v] /\ inserted'[v] = inserted[v] /\ reply'[v] = reply[v]
  BY <1>1 DEF TypeOK
<1>3. TypeOK'
  BY <1>1 DEF TypeOK, Row, SnapshotRow, ScenarioRow, RunRow
<1>4. RowOf(w)' = RowOf(w) /\ RunRow(run'[w]) = RunRow(run[w])
  BY DEF RowOf, RowsOf, RunRow, SnapshotRow, ScenarioRow
<1>5. Passed(w)' /\ InsertedOwn(w)' /\ ConflictCommitted(w)' /\ Unanswered(w)'
  BY <1>2, <1>4 DEF Passed, InsertedOwn, ConflictCommitted, Unanswered
<1>6. Exclusive'
  BY <1>1, <1>2 DEF Exclusive
<1>7. RowsBelongToRuns'
  BY <1>1 DEF RowsBelongToRuns, Row, SnapshotRow, ScenarioRow, RunRow
<1> QED
  BY <1>2, <1>3, <1>4, <1>5, <1>6, <1>7, StepStoreInv

\* A rollback after a duplicate key keeps StoreInv.
LEMMA InsertFailsStep == ASSUME StoreInv, NEW w \in Workers, InsertFails(w) PROVE StoreInv'
<1>1. RowOf(w) \in rows
  BY InsertConflict
<1>2. reply \in [Workers -> {"none", "saved", "integrity_error", "connection_error"}]
      /\ reply[w] = "none"
  BY DEF StoreInv, TypeOK, Unanswered, InsertFails
<1>3. reply' = [reply EXCEPT ![w] = "none"]
  BY <1>2 DEF InsertFails
<1> QED
  BY <1>1, <1>3, RollbackStep DEF InsertFails

\* Looking for the run after a conflict keeps StoreInv.
LEMMA LookupStep == ASSUME StoreInv, NEW w \in Workers, Lookup(w) PROVE StoreInv'
<1> DEFINE answer == IF RunRow(run[w]) \in rows THEN "saved" ELSE "integrity_error"
<1>1. /\ TypeOK /\ InsertedOwn(w) /\ ConflictCommitted(w) /\ pc[w] = "lookup"
      /\ RowOf(w) \in rows /\ inserted[w] = {}
  BY DEF StoreInv, ConflictCommitted, InsertedOwn, Lookup
<1>2. inserted' = [inserted EXCEPT ![w] = {}]
  BY <1>1 DEF TypeOK, Lookup
<1>3. answer = "integrity_error" => table[w] < 3
  <2>1. table[w] \in {1, 2, 3} /\ (table[w] = 3 => RowOf(w) = RunRow(run[w]))
    BY <1>1, RowOfFacts DEF TypeOK
  <2> QED
    BY <1>1, <2>1
<1> QED
  BY <1>1, <1>2, <1>3, RollbackStep DEF Lookup, Return

\* A broken connection keeps StoreInv.
LEMMA ConnectionLostStep ==
  ASSUME StoreInv, NEW w \in Workers, ConnectionLost(w) PROVE StoreInv'
BY RollbackStep DEF ConnectionLost, Return

\* A transaction is committed, whether or not the caller learns it.
LEMMA CommitStep ==
  ASSUME StoreInv, NEW w \in Workers, NEW answer \in {"saved", "connection_error"},
         pc[w] = "commit", rows' = Visible(w), inserted' = [inserted EXCEPT ![w] = {}],
         Return(w, answer)
  PROVE  StoreInv'
<1> DEFINE r == run[w]
<1>1. /\ TypeOK /\ Passed(w) /\ InsertedOwn(w) /\ Exclusive /\ RowsBelongToRuns
      /\ r \in Runs
  BY DEF StoreInv, TypeOK
<1>2. /\ pc' = [pc EXCEPT ![w] = "idle"] /\ reply' = [reply EXCEPT ![w] = answer]
      /\ table' = table /\ run' = run /\ rows' = rows \cup inserted[w]
  BY DEF Return, Visible
<1>3. /\ pc'[w] = "idle" /\ inserted'[w] = {} /\ reply'[w] = answer
      /\ \A v \in Workers \ {w} :
           pc'[v] = pc[v] /\ inserted'[v] = inserted[v] /\ reply'[v] = reply[v]
  BY <1>1, <1>2 DEF TypeOK
<1>4. SnapshotRow(r) \in rows' /\ ScenarioRow(r) \in rows' /\ RunRow(r) \in rows'
  BY <1>1 DEF Passed
<1>5. RunRow(run'[w]) = RunRow(r)
  BY <1>2
<1>6. TypeOK'
  <2>1. inserted[w] \subseteq Row
    BY <1>1 DEF TypeOK
  <2> QED
    BY <1>1, <1>2, <2>1 DEF TypeOK, Row, SnapshotRow, ScenarioRow, RunRow
<1>7. Passed(w)' /\ InsertedOwn(w)' /\ ConflictCommitted(w)' /\ Unanswered(w)'
  BY <1>3 DEF Passed, InsertedOwn, ConflictCommitted, Unanswered
<1>8. Exclusive'
  BY <1>1, <1>2, <1>3 DEF Exclusive
<1>9. RowsBelongToRuns'
  <2>1. ASSUME NEW row \in Row, row \in rows'
        PROVE  \E q \in Runs : /\ RunRow(q) \in rows'
                               /\ row \in {SnapshotRow(q), ScenarioRow(q), RunRow(q)}
    <3>1. CASE row \in rows
      BY <1>1, <1>2, <3>1 DEF RowsBelongToRuns
    <3>2. CASE row \in inserted[w]
      BY <1>1, <1>4, <3>2 DEF InsertedOwn
    <3> QED
      BY <1>2, <2>1, <3>1, <3>2
  <2>2. ASSUME NEW row \in Row, NEW q \in Runs, RunRow(q) \in rows',
               row \in {SnapshotRow(q), ScenarioRow(q), RunRow(q)}
        PROVE  row \in rows'
    <3>1. CASE RunRow(q) \in rows
      BY <1>1, <1>2, <2>2, <3>1 DEF RowsBelongToRuns
    <3>2. CASE RunRow(q) \in inserted[w]
      <4>1. q = r
        BY <1>1, <3>2, RowFacts DEF InsertedOwn
      <4> QED
        BY <1>4, <2>2, <4>1
    <3> QED
      BY <1>2, <2>2, <3>1, <3>2
  <2>3. Row' = Row
    BY DEF Row, SnapshotRow, ScenarioRow, RunRow
  <2> HIDE DEF r
  <2> QED
    BY <2>1, <2>2, <2>3 DEF RowsBelongToRuns, SnapshotRow, ScenarioRow, RunRow
<1> QED
  BY <1>2, <1>3, <1>4, <1>5, <1>6, <1>7, <1>8, <1>9, StepStoreInv

\* Every step keeps StoreInv.
LEMMA NextStoreInv == StoreInv /\ [Next]_vars => StoreInv'
<1> SUFFICES ASSUME StoreInv, [Next]_vars PROVE StoreInv'
  OBVIOUS
<1>1. ASSUME NEW w \in Workers, Begin(w) PROVE StoreInv'
  BY <1>1, BeginStep
<1>2. ASSUME NEW w \in Workers, SelectFound(w) PROVE StoreInv'
  BY <1>2, SelectFoundStep
<1>3. ASSUME NEW w \in Workers, SelectNone(w) PROVE StoreInv'
  BY <1>3, SelectNoneStep
<1>4. ASSUME NEW w \in Workers, Insert(w) PROVE StoreInv'
  BY <1>4, InsertStep
<1>5. ASSUME NEW w \in Workers, InsertFails(w) PROVE StoreInv'
  BY <1>5, InsertFailsStep
<1>6. ASSUME NEW w \in Workers, Commit(w) PROVE StoreInv'
  BY <1>6, CommitStep DEF Commit
<1>7. ASSUME NEW w \in Workers, Lookup(w) PROVE StoreInv'
  BY <1>7, LookupStep
<1>8. ASSUME NEW w \in Workers, ConnectionLost(w) PROVE StoreInv'
  BY <1>8, ConnectionLostStep
<1>9. ASSUME NEW w \in Workers, CommitUnacknowledged(w) PROVE StoreInv'
  BY <1>9, CommitStep DEF CommitUnacknowledged
<1>10. CASE UNCHANGED vars
  BY <1>10 DEF vars, StoreInv, TypeOK, Passed, InsertedOwn, ConflictCommitted, Unanswered,
               Exclusive, RowsBelongToRuns, SavedIsKept, ConflictIsSettled, Visible, RowOf,
               RowsOf, Row, SnapshotRow, ScenarioRow, RunRow
<1> QED
  BY <1>1, <1>2, <1>3, <1>4, <1>5, <1>6, <1>7, <1>8, <1>9, <1>10 DEF Next, Step

\* StoreInv is an invariant.
LEMMA StoreInvariant == Spec => []StoreInv
BY InitStoreInv, NextStoreInv, PTL DEF Spec

-----------------------------------------------------------------------------
(* The results.                                                            *)

\* Every variable keeps its type.
THEOREM StoreTypeCorrect == Spec => []TypeOK
<1>1. StoreInv => TypeOK
  BY DEF StoreInv
<1> QED
  BY <1>1, StoreInvariant, PTL

\* A save that returned has its run in the database.
THEOREM SavedIsKeptHolds == Spec => []SavedIsKept
<1>1. StoreInv => SavedIsKept
  BY DEF StoreInv
<1> QED
  BY <1>1, StoreInvariant, PTL

\* No row is without its run, no run without its rows.
THEOREM RowsBelongToRunsHolds == Spec => []RowsBelongToRuns
<1>1. StoreInv => RowsBelongToRuns
  BY DEF StoreInv
<1> QED
  BY <1>1, StoreInvariant, PTL

\* A failed save met a committed row, and never the run itself.
THEOREM ConflictIsSettledHolds == Spec => []ConflictIsSettled
<1>1. StoreInv => ConflictIsSettled
  BY DEF StoreInv
<1> QED
  BY <1>1, StoreInvariant, PTL

\* The rollback after an integrity error discards no row.
THEOREM ConflictLosesNothingHolds == Spec => ConflictLosesNothing
<1> DEFINE Loses == \A w \in Workers : pc[w] = "insert" /\ pc'[w] = "lookup" => inserted[w] = {}
<1>1. StoreInv /\ [Next]_vars => [Loses]_vars
  <2> SUFFICES ASSUME StoreInv, [Next]_vars, NEW w \in Workers, pc[w] = "insert",
                      pc'[w] = "lookup"
               PROVE  inserted[w] = {}
    OBVIOUS
  <2>1. Next /\ pc \in [Workers -> {"idle", "select", "insert", "commit", "lookup"}]
    BY DEF StoreInv, TypeOK, vars
  <2>2. PICK v \in Workers : Begin(v) \/ Step(v) \/ ConnectionLost(v) \/ CommitUnacknowledged(v)
    BY <2>1 DEF Next
  <2>3. InsertFails(v) /\ v = w
    BY <2>1, <2>2 DEF Begin, Step, SelectFound, SelectNone, Insert, InsertFails, Commit,
                      Lookup, ConnectionLost, CommitUnacknowledged, NextTable, Return
  <2> QED
    BY <2>3, InsertConflict
<1> QED
  BY <1>1, StoreInvariant, PTL DEF Spec, ConflictLosesNothing

\* A step of the store is a step or a stutter of the durable run store.
LEMMA NextDurable == StoreInv /\ [Next]_vars => [Durable!Next]_Durable!vars
<1> SUFFICES ASSUME StoreInv, [Next]_vars PROVE [Durable!Next]_Durable!vars
  OBVIOUS
<1>1. TypeOK /\ \A v \in Workers : Passed(v) /\ InsertedOwn(v) /\ Unanswered(v)
  BY DEF StoreInv
<1>2. \A r \in Runs : RunRow(r)' = RunRow(r)
  BY DEF RunRow
<1>3. CASE UNCHANGED vars
  BY <1>3 DEF vars, Durable!vars, Kept, Answers, RunRow
<1>4. ASSUME NEW w \in Workers, Begin(w) PROVE Durable!Call(w)
  <2>1. Kept' = Kept
    BY <1>4 DEF Begin, Kept, RunRow
  <2>2. Answers' = [Answers EXCEPT ![w] = "saving"]
    BY <1>1, <1>4 DEF Begin, Answers, TypeOK
  <2>3. Answers[w] # "saving"
    BY <1>4 DEF Begin, Answers
  <2> QED
    BY <1>4, <2>1, <2>2, <2>3 DEF Begin, Durable!Call
<1>5. ASSUME NEW w \in Workers,
             SelectFound(w) \/ SelectNone(w) \/ Insert(w) \/ InsertFails(w)
      PROVE  UNCHANGED Durable!vars
  <2>1. rows' = rows /\ run' = run /\ reply' = reply /\ pc[w] # "idle"
    BY <1>5 DEF SelectFound, SelectNone, Insert, InsertFails
  <2>2. pc'[w] # "idle" /\ \A v \in Workers \ {w} : pc'[v] = pc[v]
    BY <1>1, <1>5 DEF TypeOK, SelectFound, SelectNone, Insert, InsertFails, NextTable
  <2>3. Kept' = Kept
    BY <2>1 DEF Kept, RunRow
  <2>4. Answers' = Answers
    BY <2>1, <2>2 DEF Answers
  <2> QED
    BY <2>1, <2>3, <2>4 DEF Durable!vars
<1>6. ASSUME NEW w \in Workers, NEW answer \in {"saved", "integrity_error", "connection_error"},
             pc[w] # "idle", Return(w, answer), Kept' \in {Kept, Kept \cup {run[w]}},
             answer = "saved" => run[w] \in Kept'
      PROVE  Durable!Answer(w)
  <2>1. /\ run' = run /\ pc' = [pc EXCEPT ![w] = "idle"]
        /\ reply' = [reply EXCEPT ![w] = answer]
    BY <1>6 DEF Return
  <2> DEFINE told == IF answer = "saved" THEN "saved" ELSE "failed"
  <2>2. Answers' = [Answers EXCEPT ![w] = told]
    BY <1>1, <2>1 DEF Answers, TypeOK
  <2>3. Answers[w] = "saving"
    BY <1>6 DEF Answers
  <2>4. told \in {"saved", "failed"} /\ (told = "saved" => run[w] \in Kept')
    BY <1>6
  <2> HIDE DEF told
  <2> QED
    BY <1>6, <2>1, <2>2, <2>3, <2>4 DEF Durable!Answer
<1>7. ASSUME NEW w \in Workers, pc[w] = "commit", rows' = Visible(w)
      PROVE  Kept' = Kept \cup {run[w]}
  <2>1. run[w] \in Runs /\ RunRow(run[w]) \in rows'
    BY <1>1, <1>7 DEF TypeOK, Passed
  <2>2. ASSUME NEW r \in Runs PROVE RunRow(r) \in rows' <=> RunRow(r) \in rows \/ r = run[w]
    BY <1>1, <1>7, <2>1, <2>2, RowFacts DEF InsertedOwn, Visible
  <2>3. Kept' = {r \in Runs : RunRow(r) \in rows'}
    BY <1>2 DEF Kept
  <2> QED
    BY <2>1, <2>2, <2>3 DEF Kept
<1>8. ASSUME NEW w \in Workers, Commit(w) \/ CommitUnacknowledged(w) PROVE Durable!Answer(w)
  <2>1. Kept' = Kept \cup {run[w]}
    BY <1>7, <1>8 DEF Commit, CommitUnacknowledged
  <2> QED
    BY <1>6, <1>8, <2>1 DEF Commit, CommitUnacknowledged
<1>9. ASSUME NEW w \in Workers, Lookup(w) \/ ConnectionLost(w) PROVE Durable!Answer(w)
  <2>1. Kept' = Kept /\ run[w] \in Runs
    BY <1>1, <1>9 DEF Lookup, ConnectionLost, Kept, RunRow, TypeOK
  <2>2. RunRow(run[w]) \in rows => run[w] \in Kept'
    BY <2>1 DEF Kept
  <2> QED
    BY <1>6, <1>9, <2>1, <2>2 DEF Lookup, ConnectionLost
<1> QED
  BY <1>3, <1>4, <1>5, <1>8, <1>9 DEF Next, Step, Durable!Next

\* The store implements the durable run store.
THEOREM RunStoreImplemented == Spec => ImplementsRunStore
<1>1. Init => Durable!Init
  <2> SUFFICES ASSUME Init PROVE Durable!Init
    OBVIOUS
  <2>1. Kept = {}
    BY DEF Init, Kept
  <2>2. Answers = [w \in Workers |-> "none"]
    BY DEF Init, Answers
  <2> QED
    BY <2>1, <2>2 DEF Init, Durable!Init
<1> QED
  BY <1>1, NextDurable, StoreInvariant, PTL DEF Spec, ImplementsRunStore, Durable!Spec
=============================================================================
