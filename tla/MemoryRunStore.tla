--------------------------- MODULE MemoryRunStore ---------------------------
(***************************************************************************)
(* MemoryRunStore (storage.py): a dictionary in insertion order behind one *)
(* lock, for the threads that serve requests.  A save makes room before it *)
(* assigns, so the dictionary is one run short in between; the lock is     *)
(* what keeps the other threads from seeing it.                            *)
(***************************************************************************)
EXTENDS Naturals, Sequences

CONSTANTS
  Workers,  \* the threads that serve requests
  Runs,     \* identifiers of the runs
  MaxRuns   \* max_runs

ASSUME MaxRunsAssumption == MaxRuns \in Nat \ {0}

VARIABLES
  runs,    \* the keys of _runs, the oldest first
  locked,  \* _lock is held
  pc,      \* pc[w]: where w is in its call
  task,    \* task[w]: the call of w, or its last one
  reply    \* reply[w]: what its last call told w

vars == <<runs, locked, pc, task, reply>>

Tasks == [op : {"save", "get"}, run : Runs]

IsKey(r) == \E i \in 1 .. Len(runs) : runs[i] = r

Init ==
  /\ runs = <<>>
  /\ locked = FALSE
  /\ pc = [w \in Workers |-> "idle"]
  /\ task \in [Workers -> Tasks]
  /\ reply = [w \in Workers |-> "none"]

Call(w) ==
  /\ pc[w] = "idle"
  /\ pc' = [pc EXCEPT ![w] = "acquire"]
  /\ \E t \in Tasks : task' = [task EXCEPT ![w] = t]
  /\ reply' = [reply EXCEPT ![w] = "none"]
  /\ UNCHANGED <<runs, locked>>

\* Mutant: no lock.
AcquireNothing(w) ==
  /\ pc[w] = "acquire"
  /\ pc' = [pc EXCEPT ![w] = "check"]
  /\ UNCHANGED <<runs, locked, task, reply>>

Acquire(w) ==
  /\ pc[w] = "acquire"
  /\ ~ locked
  /\ locked' = TRUE
  /\ pc' = [pc EXCEPT ![w] = "check"]
  /\ UNCHANGED <<runs, task, reply>>

\* Mutant: room is made for a run that has its place already.
MakeRoomAlways(w) ==
  /\ pc[w] = "check"
  /\ task[w].op = "save"
  /\ runs' = IF Len(runs) >= MaxRuns THEN Tail(runs) ELSE runs
  /\ pc' = [pc EXCEPT ![w] = "store"]
  /\ UNCHANGED <<locked, task, reply>>

\* The oldest run is dropped when a new one finds the store full.
MakeRoom(w) ==
  /\ pc[w] = "check"
  /\ task[w].op = "save"
  /\ runs' = IF ~ IsKey(task[w].run) /\ Len(runs) >= MaxRuns THEN Tail(runs) ELSE runs
  /\ pc' = [pc EXCEPT ![w] = "store"]
  /\ UNCHANGED <<locked, task, reply>>

\* A key that is assigned again keeps its place.
Store(w) ==
  /\ pc[w] = "store"
  /\ runs' = IF IsKey(task[w].run) THEN runs ELSE Append(runs, task[w].run)
  /\ reply' = [reply EXCEPT ![w] = "saved"]
  /\ pc' = [pc EXCEPT ![w] = "release"]
  /\ UNCHANGED <<locked, task>>

Read(w) ==
  /\ pc[w] = "check"
  /\ task[w].op = "get"
  /\ reply' = [reply EXCEPT ![w] = IF IsKey(task[w].run) THEN "found" ELSE "missing"]
  /\ pc' = [pc EXCEPT ![w] = "release"]
  /\ UNCHANGED <<runs, locked, task>>

\* The end of the with block and of the call.
Release(w) ==
  /\ pc[w] = "release"
  /\ locked' = FALSE
  /\ pc' = [pc EXCEPT ![w] = "idle"]
  /\ UNCHANGED <<runs, task, reply>>

\* What a thread does by itself, once it is called.
Step(w) == Acquire(w) \/ MakeRoom(w) \/ Store(w) \/ Read(w) \/ Release(w)

Next == \E w \in Workers : Call(w) \/ Step(w)

Spec == Init /\ [][Next]_vars

-----------------------------------------------------------------------------
\* The type of every variable.
TypeOK ==
  /\ runs \in Seq(Runs)
  /\ locked \in BOOLEAN
  /\ pc \in [Workers -> {"idle", "acquire", "check", "store", "release"}]
  /\ task \in [Workers -> Tasks]
  /\ reply \in [Workers -> {"none", "saved", "found", "missing"}]

\* The store never holds more than max_runs runs, whoever saves at the same time:
\* between the check of the size and the assignment nobody else gets in.
NeverOverLimit == Len(runs) <= MaxRuns

\* Inside the with block.
Holds(w) == pc[w] \in {"check", "store", "release"}

\* One thread at a time is inside, and the lock is held meanwhile.
Exclusive ==
  /\ \A w \in Workers : Holds(w) => locked
  /\ \A v, w \in Workers : Holds(v) /\ Holds(w) => v = w

\* The dictionary and the lock are what the code takes them for at every step: the store
\* keeps within its limit, and at most one thread is inside the lock.
StoreIsBounded == TypeOK /\ Exclusive /\ NeverOverLimit

\* The runs as they are once the save in progress is through.
Settled ==
  IF \E w \in Workers : pc[w] = "store" /\ ~ IsKey(task[w].run)
  THEN Append(runs, task[CHOOSE w \in Workers : pc[w] = "store"].run)
  ELSE runs

\* The age of each run: how many keys come after it.
Ages ==
  [r \in Runs |->
     IF \E i \in 1 .. Len(Settled) : Settled[i] = r
     THEN Len(Settled) - (CHOOSE i \in 1 .. Len(Settled) : Settled[i] = r)
     ELSE MaxRuns]

Phases == [w \in Workers |-> CASE pc[w] = "idle"                 -> "idle"
                               [] pc[w] \in {"acquire", "check"} -> "called"
                               [] pc[w] \in {"store", "release"} -> "done"]

Answers == [w \in Workers |-> IF pc[w] = "store" THEN "saved" ELSE reply[w]]

Recent == INSTANCE RecentRuns WITH age <- Ages, phase <- Phases, answer <- Answers

\* The store implements the promise of docs/OPERATIONS.md: it gives back exactly the
\* runs after which fewer than max_runs others were stored, and storing a run again
\* neither drops another one nor changes its own turn.
ImplementsRecentRuns == Recent!Spec
=============================================================================
