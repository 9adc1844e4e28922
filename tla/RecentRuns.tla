----------------------------- MODULE RecentRuns -----------------------------
(***************************************************************************)
(* What a bounded run store promises its callers: it gives back a run      *)
(* until MaxRuns other runs have been stored after it.  A call takes       *)
(* effect at one instant between its start and its return.                 *)
(***************************************************************************)
EXTENDS Naturals

CONSTANTS Workers, Runs, MaxRuns

VARIABLES
  age,    \* age[r]: how many runs were stored after r, MaxRuns when r is not retained
  phase,  \* phase[w]: "idle", "called", or "done" when the call has taken effect
  task,   \* task[w]: what w asks for, or asked for last
  answer  \* answer[w]: what w learns from it

vars == <<age, phase, task, answer>>

Tasks == [op : {"save", "get"}, run : Runs]

Retained(r) == age[r] < MaxRuns

\* A run that is retained keeps its age; another one makes the retained ones older.
AfterSaving(x) ==
  IF Retained(x) THEN age
  ELSE [r \in Runs |-> IF r = x THEN 0 ELSE IF Retained(r) THEN age[r] + 1 ELSE MaxRuns]

Init ==
  /\ age = [r \in Runs |-> MaxRuns]
  /\ phase = [w \in Workers |-> "idle"]
  /\ task \in [Workers -> Tasks]
  /\ answer = [w \in Workers |-> "none"]

Call(w) ==
  /\ phase[w] = "idle"
  /\ phase' = [phase EXCEPT ![w] = "called"]
  /\ \E t \in Tasks : task' = [task EXCEPT ![w] = t]
  /\ answer' = [answer EXCEPT ![w] = "none"]
  /\ UNCHANGED age

Save(w) ==
  /\ phase[w] = "called"
  /\ task[w].op = "save"
  /\ phase' = [phase EXCEPT ![w] = "done"]
  /\ answer' = [answer EXCEPT ![w] = "saved"]
  /\ age' = AfterSaving(task[w].run)
  /\ UNCHANGED task

Get(w) ==
  /\ phase[w] = "called"
  /\ task[w].op = "get"
  /\ phase' = [phase EXCEPT ![w] = "done"]
  /\ answer' = [answer EXCEPT ![w] = IF Retained(task[w].run) THEN "found" ELSE "missing"]
  /\ UNCHANGED <<age, task>>

Return(w) ==
  /\ phase[w] = "done"
  /\ phase' = [phase EXCEPT ![w] = "idle"]
  /\ UNCHANGED <<age, task, answer>>

Next == \E w \in Workers : Call(w) \/ Save(w) \/ Get(w) \/ Return(w)

Spec == Init /\ [][Next]_vars
=============================================================================
