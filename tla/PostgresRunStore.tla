-------------------------- MODULE PostgresRunStore --------------------------
(***************************************************************************)
(* PostgresRunStore.save_run (storage.py) on the tables of tables.py, one  *)
(* statement at a time, for the threads that serve requests.  Each save is *)
(* one READ COMMITTED transaction: for the snapshot, the scenario and the  *)
(* run, in this order, it looks for the row and inserts it when it is not  *)
(* there.  Rows are content-addressed: a row is its table and its hash.    *)
(*                                                                         *)
(* Of the database the model has what the adapter relies on: a statement   *)
(* sees committed rows and those of its own transaction; an insert waits   *)
(* for the transaction that holds the same key and fails when the key is   *)
(* committed; a failed transaction leaves nothing.                         *)
(***************************************************************************)
EXTENDS Naturals

CONSTANTS
  Workers,      \* the threads that serve requests
  Runs,         \* identifiers of the runs
  snapshot_of,  \* snapshot_of[r], scenario_of[r]: the hashes in the result of r
  scenario_of

ASSUME StoreAssumption ==
  /\ DOMAIN snapshot_of = Runs
  /\ DOMAIN scenario_of = Runs
  /\ \A r, q \in Runs : scenario_of[r] = scenario_of[q] => snapshot_of[r] = snapshot_of[q]

VARIABLES
  rows,      \* the committed rows
  inserted,  \* inserted[w]: the rows of w's open transaction
  pc,        \* pc[w]: the statement that w is about to run
  table,     \* table[w]: the place of its table in the order of the inserts
  run,       \* run[w]: the run that w saves, or saved last
  reply      \* reply[w]: how the last save of w ended

vars == <<rows, inserted, pc, table, run, reply>>

SnapshotRow(r) == <<"design_snapshots", snapshot_of[r]>>
ScenarioRow(r) == <<"scenarios", scenario_of[r]>>
RunRow(r)      == <<"simulation_runs", r>>

\* Mutant: the run is inserted before its scenario.
RowsOfRunEarly(r) == <<SnapshotRow(r), RunRow(r), ScenarioRow(r)>>

\* The rows of a run in the order of the inserts.
RowsOf(r) == <<SnapshotRow(r), ScenarioRow(r), RunRow(r)>>

RowOf(w) == RowsOf(run[w])[table[w]]

\* The rows that a row of run r references.
Referenced(r, row) ==
  CASE row = RunRow(r)      -> {SnapshotRow(r), ScenarioRow(r)}
    [] row = ScenarioRow(r) -> {SnapshotRow(r)}
    [] OTHER                -> {}

Visible(w) == rows \cup inserted[w]

-----------------------------------------------------------------------------
Init ==
  /\ rows = {}
  /\ inserted = [w \in Workers |-> {}]
  /\ pc = [w \in Workers |-> "idle"]
  /\ table = [w \in Workers |-> 1]
  /\ run \in [Workers -> Runs]
  /\ reply = [w \in Workers |-> "none"]

Begin(w) ==
  /\ pc[w] = "idle"
  /\ \E r \in Runs : run' = [run EXCEPT ![w] = r]
  /\ pc' = [pc EXCEPT ![w] = "select"]
  /\ table' = [table EXCEPT ![w] = 1]
  /\ reply' = [reply EXCEPT ![w] = "none"]
  /\ UNCHANGED <<rows, inserted>>

\* On to the next table, or to the commit after the last one.
NextTable(w) ==
  IF table[w] = 3
  THEN pc' = [pc EXCEPT ![w] = "commit"] /\ UNCHANGED table
  ELSE pc' = [pc EXCEPT ![w] = "select"] /\ table' = [table EXCEPT ![w] = @ + 1]

SelectFound(w) ==
  /\ pc[w] = "select"
  /\ RowOf(w) \in Visible(w)
  /\ NextTable(w)
  /\ UNCHANGED <<rows, inserted, run, reply>>

SelectNone(w) ==
  /\ pc[w] = "select"
  /\ RowOf(w) \notin Visible(w)
  /\ pc' = [pc EXCEPT ![w] = "insert"]
  /\ UNCHANGED <<rows, inserted, table, run, reply>>

\* Another open transaction holds the key.
Blocked(w) == \E v \in Workers \ {w} : RowOf(w) \in inserted[v]

\* A duplicate key, or a foreign key without its row.
Violates(w) == \/ RowOf(w) \in Visible(w)
               \/ ~ (Referenced(run[w], RowOf(w)) \subseteq Visible(w))

\* Mutant: each insert commits by itself.
InsertCommitted(w) ==
  /\ pc[w] = "insert"
  /\ ~ Blocked(w)
  /\ ~ Violates(w)
  /\ rows' = rows \cup {RowOf(w)}
  /\ NextTable(w)
  /\ UNCHANGED <<inserted, run, reply>>

Insert(w) ==
  /\ pc[w] = "insert"
  /\ ~ Blocked(w)
  /\ ~ Violates(w)
  /\ inserted' = [inserted EXCEPT ![w] = @ \cup {RowOf(w)}]
  /\ NextTable(w)
  /\ UNCHANGED <<rows, run, reply>>

\* The IntegrityError leaves the with block, which rolls the transaction back.
InsertFails(w) ==
  /\ pc[w] = "insert"
  /\ ~ Blocked(w)
  /\ Violates(w)
  /\ inserted' = [inserted EXCEPT ![w] = {}]
  /\ pc' = [pc EXCEPT ![w] = "lookup"]
  /\ UNCHANGED <<rows, table, run, reply>>

Return(w, answer) ==
  /\ pc' = [pc EXCEPT ![w] = "idle"]
  /\ reply' = [reply EXCEPT ![w] = answer]
  /\ UNCHANGED <<table, run>>

\* Mutant: a connection that is not told to commit.
CommitForgotten(w) ==
  /\ pc[w] = "commit"
  /\ rows' = rows
  /\ inserted' = [inserted EXCEPT ![w] = {}]
  /\ Return(w, "saved")

Commit(w) ==
  /\ pc[w] = "commit"
  /\ rows' = Visible(w)
  /\ inserted' = [inserted EXCEPT ![w] = {}]
  /\ Return(w, "saved")

\* Mutants: after an IntegrityError the run is taken for stored, is taken for missing,
\* or is waited for.
LookupAssumed(w) ==
  /\ pc[w] = "lookup"
  /\ Return(w, "saved")
  /\ UNCHANGED <<rows, inserted>>
LookupIgnored(w) ==
  /\ pc[w] = "lookup"
  /\ Return(w, "integrity_error")
  /\ UNCHANGED <<rows, inserted>>
LookupRepeated(w) ==
  /\ pc[w] = "lookup"
  /\ RunRow(run[w]) \in rows
  /\ Return(w, "saved")
  /\ UNCHANGED <<rows, inserted>>

\* After an IntegrityError: the error is raised again unless the run is there.
Lookup(w) ==
  /\ pc[w] = "lookup"
  /\ Return(w, IF RunRow(run[w]) \in rows THEN "saved" ELSE "integrity_error")
  /\ UNCHANGED <<rows, inserted>>

\* The connection breaks: the transaction is rolled back and the error is raised.
ConnectionLost(w) ==
  /\ pc[w] # "idle"
  /\ inserted' = [inserted EXCEPT ![w] = {}]
  /\ Return(w, "connection_error")
  /\ UNCHANGED rows

\* It breaks after the database has committed and before the caller learns it.
CommitUnacknowledged(w) ==
  /\ pc[w] = "commit"
  /\ rows' = Visible(w)
  /\ inserted' = [inserted EXCEPT ![w] = {}]
  /\ Return(w, "connection_error")

\* What the thread and the database do of themselves.
Step(w) == SelectFound(w) \/ SelectNone(w) \/ Insert(w) \/ InsertFails(w) \/ Commit(w) \/ Lookup(w)

Next == \E w \in Workers : Begin(w) \/ Step(w) \/ ConnectionLost(w) \/ CommitUnacknowledged(w)

Spec == Init /\ [][Next]_vars

\* A thread that is not waiting for a lock runs, and a lock whose holder is gone is
\* given to the next.
FairSpec == Spec /\ \A w \in Workers : WF_vars(Step(w))
=============================================================================
