------------------------- MODULE PostgresProperties -------------------------
(***************************************************************************)
(* What the PostgreSQL run store promises the requests that share it.      *)
(***************************************************************************)
EXTENDS PostgresRunStore

Row == {SnapshotRow(r) : r \in Runs} \cup {ScenarioRow(r) : r \in Runs}
         \cup {RunRow(r) : r \in Runs}

\* The type of every variable.
TypeOK ==
  /\ rows \subseteq Row
  /\ inserted \in [Workers -> SUBSET Row]
  /\ pc \in [Workers -> {"idle", "select", "insert", "commit", "lookup"}]
  /\ table \in [Workers -> 1 .. 3]
  /\ run \in [Workers -> Runs]
  /\ reply \in [Workers -> {"none", "saved", "integrity_error", "connection_error"}]

\* A save that returned has its run in the database, whoever inserted it.
SavedIsKept == \A w \in Workers : reply[w] = "saved" => RunRow(run[w]) \in rows

\* No row is without its run and no run without its rows, whatever transactions broke
\* off: a run can always be traced to its inputs, and nothing is left behind.
RowsBelongToRuns ==
  \A row \in Row :
    row \in rows <=> \E r \in Runs : /\ RunRow(r) \in rows
                                     /\ row \in {SnapshotRow(r), ScenarioRow(r), RunRow(r)}

\* A save that failed with an integrity error met a row that is committed by now, and
\* never the run itself: a retry gets past that table, so the third try at the latest
\* stores the run.
ConflictIsSettled ==
  \A w \in Workers : reply[w] = "integrity_error" => table[w] < 3 /\ RowOf(w) \in rows

\* The rollback after an integrity error never discards a row: who inserted the
\* snapshot of a run meets no conflict on its scenario or on the run.
ConflictLosesNothing ==
  [][\A w \in Workers : pc[w] = "insert" /\ pc'[w] = "lookup" => inserted[w] = {}]_vars

Kept == {r \in Runs : RunRow(r) \in rows}

Answers ==
  [w \in Workers |->
     IF pc[w] # "idle" THEN "saving"
     ELSE IF reply[w] \in {"none", "saved"} THEN reply[w] ELSE "failed"]

Durable == INSTANCE RunStore WITH kept <- Kept, target <- run, answer <- Answers

\* The store implements the durable run store.
ImplementsRunStore == Durable!Spec

\* Once connections hold, no save waits for ever: the locks of two savers never close
\* a cycle, since every transaction takes them in the order of the tables.
EverySaveReturns ==
  <>[][\A w \in Workers : reply'[w] = "connection_error" => reply[w] = "connection_error"]_vars
    => \A w \in Workers : pc[w] # "idle" ~> pc[w] = "idle"

\* A run of a known scenario is answered with its result.
EverySaveSucceeds == \A w \in Workers : reply[w] # "integrity_error"
=============================================================================
