---------------------------- MODULE MemoryProofs ----------------------------
(***************************************************************************)
(* The memory run store keeps within its limit and implements the store of *)
(* the latest runs, for any number of threads and runs and any limit.      *)
(***************************************************************************)
EXTENDS MemoryRunStore, SequenceTheorems, TLAPS

\* No run has two places.
Distinct == \A i, j \in 1 .. Len(runs) : runs[i] = runs[j] => i = j

\* The room that a save has made is there until it is used.
RoomMade ==
  \A w \in Workers : pc[w] = "store" =>
    /\ task[w].op = "save"
    /\ IsKey(task[w].run) \/ Len(runs) < MaxRuns

MemoryInv == TypeOK /\ NeverOverLimit /\ Exclusive /\ Distinct /\ RoomMade

-----------------------------------------------------------------------------
(* Sequences.                                                              *)

\* Dropping the oldest run.
LEMMA Dropped ==
  ASSUME NEW S, NEW q \in Seq(S), q # <<>>
  PROVE  /\ Tail(q) \in Seq(S)
         /\ Len(q) \in Nat \ {0} /\ Len(Tail(q)) = Len(q) - 1
         /\ \A i \in 1 .. Len(Tail(q)) : Tail(q)[i] = q[i + 1]
OBVIOUS

\* Storing a new one.
LEMMA Appended ==
  ASSUME NEW S, NEW q \in Seq(S), NEW x \in S
  PROVE  /\ Append(q, x) \in Seq(S)
         /\ Len(q) \in Nat /\ Len(Append(q, x)) = Len(q) + 1
         /\ \A i \in 1 .. Len(q) : Append(q, x)[i] = q[i]
         /\ Append(q, x)[Len(q) + 1] = x
OBVIOUS

-----------------------------------------------------------------------------
(* The invariant.                                                          *)

\* At the start the store is empty and every thread is outside.
LEMMA InitMemoryInv == Init => MemoryInv
<1> SUFFICES ASSUME Init PROVE MemoryInv
  OBVIOUS
<1>1. runs = <<>> /\ Len(runs) = 0 /\ MaxRuns \in Nat \ {0}
  BY MaxRunsAssumption DEF Init
<1>2. TypeOK
  <2>1. runs \in Seq(Runs)
    BY <1>1
  <2> QED
    BY <2>1 DEF Init, TypeOK
<1>3. \A w \in Workers : pc[w] = "idle"
  BY DEF Init
<1> QED
  BY <1>1, <1>2, <1>3 DEF MemoryInv, NeverOverLimit, Exclusive, Holds, Distinct, RoomMade

\* The type of every variable is kept.
LEMMA NextTypes == ASSUME MemoryInv, [Next]_vars PROVE TypeOK'
<1>1. CASE UNCHANGED vars
  BY <1>1 DEF MemoryInv, TypeOK, vars
<1>2. ASSUME NEW w \in Workers, Call(w) \/ Acquire(w) \/ Read(w) \/ Release(w) PROVE TypeOK'
  BY <1>2 DEF MemoryInv, TypeOK, Call, Acquire, Read, Release
<1>3. ASSUME NEW w \in Workers, MakeRoom(w) PROVE TypeOK'
  <2>1. runs' \in Seq(Runs)
    <3>1. CASE Len(runs) >= MaxRuns
      <4>1. runs # <<>>
        BY <3>1, MaxRunsAssumption DEF MemoryInv, TypeOK
      <4> QED
        BY <1>3, <4>1, Dropped DEF MakeRoom, MemoryInv, TypeOK
    <3> QED
      BY <1>3, <3>1 DEF MakeRoom, MemoryInv, TypeOK
  <2> QED
    BY <1>3, <2>1 DEF MemoryInv, TypeOK, MakeRoom
<1>4. ASSUME NEW w \in Workers, Store(w) PROVE TypeOK'
  <2>1. task[w].run \in Runs
    BY DEF MemoryInv, TypeOK, Tasks
  <2>2. runs' \in Seq(Runs)
    BY <1>4, <2>1, Appended DEF Store, MemoryInv, TypeOK
  <2> QED
    BY <1>4, <2>2 DEF MemoryInv, TypeOK, Store
<1> QED
  BY <1>1, <1>2, <1>3, <1>4 DEF Next, Step

\* One thread at a time stays inside.
LEMMA NextExclusive == ASSUME MemoryInv, [Next]_vars PROVE Exclusive'
<1>1. pc \in [Workers -> {"idle", "acquire", "check", "store", "release"}]
  BY DEF MemoryInv, TypeOK
<1>2. CASE UNCHANGED vars
  BY <1>2 DEF MemoryInv, Exclusive, Holds, vars
<1>3. ASSUME NEW w \in Workers, Call(w) PROVE Exclusive'
  BY <1>1, <1>3 DEF MemoryInv, Exclusive, Holds, Call
<1>4. ASSUME NEW w \in Workers, Acquire(w) PROVE Exclusive'
  BY <1>1, <1>4 DEF MemoryInv, Exclusive, Holds, Acquire
<1>5. ASSUME NEW w \in Workers, MakeRoom(w) \/ Store(w) \/ Read(w) PROVE Exclusive'
  BY <1>1, <1>5 DEF MemoryInv, Exclusive, Holds, MakeRoom, Store, Read
<1>6. ASSUME NEW w \in Workers, Release(w) PROVE Exclusive'
  <2>1. \A v \in Workers : pc'[v] \notin {"check", "store", "release"}
    BY <1>1, <1>6 DEF MemoryInv, Exclusive, Holds, Release
  <2> QED
    BY <2>1 DEF Exclusive, Holds
<1> QED
  BY <1>2, <1>3, <1>4, <1>5, <1>6 DEF Next, Step

\* Making room keeps the keys distinct and leaves room for one more.
LEMMA RoomForOne ==
  ASSUME MemoryInv, NEW w \in Workers, MakeRoom(w)
  PROVE  /\ runs' \in Seq(Runs)
         /\ Len(runs') <= MaxRuns
         /\ Distinct'
         /\ IsKey(task[w].run)' \/ Len(runs') < MaxRuns
         /\ IsKey(task[w].run)' <=> IsKey(task[w].run)
<1> DEFINE r == task[w].run
<1>1. /\ runs \in Seq(Runs) /\ Len(runs) \in Nat /\ Len(runs) <= MaxRuns /\ MaxRuns \in Nat \ {0}
      /\ \A i, j \in 1 .. Len(runs) : runs[i] = runs[j] => i = j
      /\ runs' = IF ~ IsKey(r) /\ Len(runs) >= MaxRuns THEN Tail(runs) ELSE runs
      /\ task' = task
  BY MaxRunsAssumption DEF MemoryInv, TypeOK, NeverOverLimit, Distinct, MakeRoom
<1>2. CASE ~ IsKey(r) /\ Len(runs) >= MaxRuns
  <2>1. /\ runs' = Tail(runs) /\ runs' \in Seq(Runs) /\ Len(runs') = Len(runs) - 1
        /\ \A i \in 1 .. Len(runs') : i + 1 \in 1 .. Len(runs) /\ runs'[i] = runs[i + 1]
    <3>1. runs # <<>>
      BY <1>1, <1>2
    <3> QED
      BY <1>1, <1>2, <3>1, Dropped
  <2>2. Distinct'
    BY <1>1, <2>1 DEF Distinct
  <2>3. ~ IsKey(r)'
    BY <1>1, <1>2, <2>1 DEF IsKey
  <2> QED
    BY <1>1, <1>2, <2>1, <2>2, <2>3
<1>3. CASE IsKey(r) \/ Len(runs) < MaxRuns
  <2>1. runs' = runs
    BY <1>1, <1>3
  <2> QED
    BY <1>1, <1>3, <2>1 DEF Distinct, IsKey
<1> QED
  BY <1>1, <1>2, <1>3

\* Using the room keeps the keys distinct and the limit.
LEMMA RoomUsed ==
  ASSUME MemoryInv, NEW w \in Workers, Store(w)
  PROVE  Len(runs') <= MaxRuns /\ Distinct'
<1> DEFINE r == task[w].run
<1>1. /\ runs \in Seq(Runs) /\ Len(runs) \in Nat /\ Len(runs) <= MaxRuns /\ MaxRuns \in Nat \ {0}
      /\ \A i, j \in 1 .. Len(runs) : runs[i] = runs[j] => i = j
      /\ runs' = IF IsKey(r) THEN runs ELSE Append(runs, r)
      /\ r \in Runs /\ (IsKey(r) \/ Len(runs) < MaxRuns)
  BY MaxRunsAssumption DEF MemoryInv, TypeOK, Tasks, NeverOverLimit, Distinct, RoomMade, Store
<1>2. CASE IsKey(r)
  BY <1>1, <1>2 DEF Distinct
<1>3. CASE ~ IsKey(r)
  <2>1. /\ Len(runs') = Len(runs) + 1
        /\ \A i \in 1 .. Len(runs) : runs'[i] = runs[i] /\ runs[i] # r
        /\ runs'[Len(runs) + 1] = r
    BY <1>1, <1>3, Appended DEF IsKey
  <2>2. Distinct'
    <3> SUFFICES ASSUME NEW i \in 1 .. Len(runs) + 1, NEW j \in 1 .. Len(runs) + 1,
                        runs'[i] = runs'[j]
                 PROVE  i = j
      BY <2>1 DEF Distinct
    <3> QED
      BY <1>1, <2>1
  <2> QED
    BY <1>1, <1>3, <2>1, <2>2
<1> QED
  BY <1>2, <1>3

\* Every step of save_run and get_run keeps the invariant.
LEMMA NextMemoryInv == MemoryInv /\ [Next]_vars => MemoryInv'
<1> SUFFICES ASSUME MemoryInv, [Next]_vars PROVE MemoryInv'
  OBVIOUS
<1>1. TypeOK' /\ Exclusive'
  BY NextTypes, NextExclusive
<1>2. pc \in [Workers -> {"idle", "acquire", "check", "store", "release"}]
      /\ task \in [Workers -> Tasks]
  BY DEF MemoryInv, TypeOK
<1>3. CASE UNCHANGED vars
  BY <1>1, <1>3 DEF MemoryInv, NeverOverLimit, Distinct, RoomMade, IsKey, vars
<1>4. ASSUME NEW w \in Workers, Call(w) \/ Acquire(w) \/ Read(w) \/ Release(w) PROVE MemoryInv'
  <2>1. /\ runs' = runs
        /\ \A v \in Workers : pc'[v] = "store" => pc[v] = "store" /\ task'[v] = task[v]
    BY <1>2, <1>4 DEF Call, Acquire, Read, Release
  <2> QED
    BY <1>1, <2>1 DEF MemoryInv, NeverOverLimit, Distinct, RoomMade, IsKey
<1>5. ASSUME NEW w \in Workers, MakeRoom(w) PROVE MemoryInv'
  <2>1. /\ task' = task /\ task[w].op = "save"
        /\ \A v \in Workers : pc'[v] = "store" => v = w
    <3>1. \A v \in Workers \ {w} : ~ Holds(v)
      BY <1>5 DEF MemoryInv, Exclusive, Holds, MakeRoom
    <3> QED
      BY <1>2, <1>5, <3>1 DEF Holds, MakeRoom
  <2>2. RoomMade'
    BY <1>5, <2>1, RoomForOne DEF RoomMade, IsKey
  <2> QED
    BY <1>1, <1>5, <2>2, RoomForOne DEF MemoryInv, NeverOverLimit
<1>6. ASSUME NEW w \in Workers, Store(w) PROVE MemoryInv'
  <2>1. \A v \in Workers : pc'[v] # "store"
    <3>1. \A v \in Workers \ {w} : ~ Holds(v)
      BY <1>6 DEF MemoryInv, Exclusive, Holds, Store
    <3> QED
      BY <1>2, <1>6, <3>1 DEF Holds, Store
  <2> QED
    BY <1>1, <1>6, <2>1, RoomUsed DEF MemoryInv, NeverOverLimit, RoomMade
<1> QED
  BY <1>3, <1>4, <1>5, <1>6 DEF Next, Step

\* In every run the store keeps within its limit and the lock does its work.
LEMMA MemoryInvariant == Spec => []MemoryInv
BY InitMemoryInv, NextMemoryInv, PTL DEF Spec

-----------------------------------------------------------------------------
(* The results.                                                            *)

\* Every variable keeps its type, the store its limit, and at most one thread is inside the
\* lock, so that none comes in between the check of the size and the assignment.
THEOREM StoreIsBoundedHolds == Spec => []StoreIsBounded
<1>1. MemoryInv => StoreIsBounded
  BY DEF MemoryInv, StoreIsBounded
<1> QED
  BY <1>1, MemoryInvariant, PTL

-----------------------------------------------------------------------------
(* The store of the latest runs.  A save takes effect when it makes room:  *)
(* from then on its run counts, though the dictionary gets it one step     *)
(* later.                                                                  *)

Unrepeated(q) == \A i, j \in 1 .. Len(q) : q[i] = q[j] => i = j

\* The ages of the runs in a dictionary with these keys.
AgesIn(q) ==
  [r \in Runs |->
     IF \E i \in 1 .. Len(q) : q[i] = r
     THEN Len(q) - (CHOOSE i \in 1 .. Len(q) : q[i] = r)
     ELSE MaxRuns]

\* A key is as old as there are keys after it.
LEMMA AgeOfKey ==
  ASSUME NEW q \in Seq(Runs), Unrepeated(q), NEW i \in 1 .. Len(q)
  PROVE  q[i] \in Runs /\ AgesIn(q)[q[i]] = Len(q) - i
<1>1. q[i] \in Runs
  OBVIOUS
<1>2. (CHOOSE j \in 1 .. Len(q) : q[j] = q[i]) = i
  BY DEF Unrepeated
<1> QED
  BY <1>1, <1>2 DEF AgesIn

\* A run that is not a key is too old.
LEMMA AgeOfOther ==
  ASSUME NEW q \in Seq(Runs), NEW r \in Runs, \A i \in 1 .. Len(q) : q[i] # r
  PROVE  AgesIn(q)[r] = MaxRuns
BY DEF AgesIn

\* The runs that are too old are the ones that are not keys.
LEMMA RetainedIsKey ==
  ASSUME NEW q \in Seq(Runs), Unrepeated(q), Len(q) <= MaxRuns, NEW r \in Runs
  PROVE  AgesIn(q)[r] < MaxRuns <=> \E i \in 1 .. Len(q) : q[i] = r
<1>1. MaxRuns \in Nat \ {0} /\ Len(q) \in Nat
  BY MaxRunsAssumption
<1>2. CASE \E i \in 1 .. Len(q) : q[i] = r
  BY <1>1, <1>2, AgeOfKey
<1>3. CASE \A i \in 1 .. Len(q) : q[i] # r
  BY <1>1, <1>3, AgeOfOther
<1> QED
  BY <1>2, <1>3

\* A new key makes the others older, and the oldest of a full dictionary too old.
LEMMA AgesAfterSaving ==
  ASSUME NEW q \in Seq(Runs), Unrepeated(q), Len(q) <= MaxRuns,
         NEW r \in Runs, \A i \in 1 .. Len(q) : q[i] # r,
         NEW p, p = IF Len(q) >= MaxRuns THEN Tail(q) ELSE q
  PROVE  AgesIn(Append(p, r)) =
           [x \in Runs |-> IF x = r THEN 0
                           ELSE IF AgesIn(q)[x] < MaxRuns THEN AgesIn(q)[x] + 1 ELSE MaxRuns]
<1> DEFINE n == Append(p, r)
<1>1. MaxRuns \in Nat \ {0} /\ Len(q) \in Nat
  BY MaxRunsAssumption
<1>2. PICK d \in {0, 1} :
        /\ p \in Seq(Runs) /\ Len(p) \in Nat /\ Len(q) = Len(p) + d
        /\ d = 1 <=> Len(q) = MaxRuns
        /\ \A i \in 1 .. Len(p) : i + d \in 1 .. Len(q) /\ p[i] = q[i + d]
  <2> HIDE DEF n
  <2>1. CASE Len(q) >= MaxRuns
    <3>1. q # <<>> /\ p = Tail(q) /\ Len(q) = MaxRuns
      BY <1>1, <2>1
    <3>2. /\ p \in Seq(Runs) /\ Len(p) \in Nat /\ Len(q) = Len(p) + 1
          /\ \A i \in 1 .. Len(p) : p[i] = q[i + 1]
      BY <3>1, Dropped
    <3> QED
      BY <3>1, <3>2
  <2>2. CASE Len(q) < MaxRuns
    <3>1. p = q /\ Len(q) # MaxRuns
      BY <1>1, <2>2
    <3>2. Len(q) = Len(p) + 0 /\ \A i \in 1 .. Len(p) : i + 0 \in 1 .. Len(q) /\ p[i] = q[i + 0]
      BY <1>1, <3>1
    <3> QED
      BY <1>1, <3>1, <3>2
  <2> QED
    BY <1>1, <2>1, <2>2
<1>3. /\ n \in Seq(Runs) /\ Len(n) = Len(p) + 1 /\ n[Len(p) + 1] = r
      /\ \A i \in 1 .. Len(p) : n[i] = q[i + d] /\ n[i] # r
  <2>1. /\ n \in Seq(Runs) /\ Len(n) = Len(p) + 1 /\ n[Len(p) + 1] = r
        /\ \A i \in 1 .. Len(p) : n[i] = p[i]
    BY <1>2, Appended
  <2> HIDE DEF n
  <2> QED
    BY <1>2, <2>1
<1>4. Unrepeated(n)
  <2> SUFFICES ASSUME NEW i \in 1 .. Len(p) + 1, NEW j \in 1 .. Len(p) + 1, n[i] = n[j]
               PROVE  i = j
    BY <1>3 DEF Unrepeated
  <2>1. CASE i \in 1 .. Len(p) /\ j \in 1 .. Len(p)
    <3>1. q[i + d] = q[j + d] /\ i + d \in 1 .. Len(q) /\ j + d \in 1 .. Len(q)
      BY <1>2, <1>3, <2>1
    <3>2. i + d = j + d
      BY <3>1 DEF Unrepeated
    <3> QED
      BY <1>2, <3>2
  <2>2. CASE i = Len(p) + 1 \/ j = Len(p) + 1
    BY <1>2, <1>3, <2>2
  <2> QED
    BY <1>2, <2>1, <2>2
<1> HIDE DEF n
<1>5. ASSUME NEW x \in Runs
      PROVE  AgesIn(n)[x] = IF x = r THEN 0
                            ELSE IF AgesIn(q)[x] < MaxRuns THEN AgesIn(q)[x] + 1 ELSE MaxRuns
  <2>1. CASE x = r
    <3>1. Len(p) + 1 \in 1 .. Len(n)
      BY <1>2, <1>3
    <3>2. AgesIn(n)[n[Len(p) + 1]] = Len(n) - (Len(p) + 1)
      BY <1>3, <1>4, <3>1, AgeOfKey
    <3> QED
      BY <1>2, <1>3, <2>1, <3>2
  <2>2. ASSUME x # r, NEW i \in 1 .. Len(q), q[i] = x, i > d
        PROVE  AgesIn(n)[x] = AgesIn(q)[x] + 1 /\ AgesIn(q)[x] < MaxRuns
    <3>0. (i - d) + d = i /\ i - d \in 1 .. Len(p)
      BY <1>1, <1>2, <2>2
    <3>1. /\ i - d \in 1 .. Len(n) /\ n[i - d] = q[i]
      BY <1>1, <1>2, <1>3, <2>2, <3>0
    <3>2. AgesIn(n)[x] = Len(n) - (i - d) /\ AgesIn(q)[x] = Len(q) - i
      BY <1>3, <1>4, <2>2, <3>1, AgeOfKey
    <3> QED
      BY <1>1, <1>2, <1>3, <2>2, <3>1, <3>2
  <2>3. ASSUME x # r, NEW i \in 1 .. Len(q), q[i] = x, i <= d
        PROVE  AgesIn(n)[x] = MaxRuns /\ AgesIn(q)[x] + 1 = MaxRuns
    <3>1. d = 1 /\ i = 1 /\ Len(q) = MaxRuns
      BY <1>1, <1>2, <2>3
    <3>2. \A j \in 1 .. Len(n) : n[j] # x
      <4> SUFFICES ASSUME NEW j \in 1 .. Len(p), q[j + d] = q[i] PROVE FALSE
        BY <1>2, <1>3, <2>3
      <4>1. j + d = i
        BY <1>2 DEF Unrepeated
      <4> QED
        BY <1>2, <3>1, <4>1
    <3>3. AgesIn(n)[x] = MaxRuns
      BY <1>3, <3>2, AgeOfOther
    <3> QED
      BY <1>1, <2>3, <3>1, <3>3, AgeOfKey
  <2>4. ASSUME x # r, \A i \in 1 .. Len(q) : q[i] # x
        PROVE  AgesIn(n)[x] = MaxRuns /\ AgesIn(q)[x] = MaxRuns
    <3>1. \A j \in 1 .. Len(n) : n[j] # x
      <4> SUFFICES ASSUME NEW j \in 1 .. Len(p) + 1 PROVE n[j] # x
        BY <1>3
      <4>1. CASE j = Len(p) + 1
        BY <1>3, <2>4, <4>1
      <4>2. CASE j \in 1 .. Len(p)
        BY <1>2, <1>3, <2>4, <4>2
      <4> QED
        BY <1>2, <4>1, <4>2
    <3> QED
      BY <1>3, <2>4, <3>1, AgeOfOther
  <2>5. \A i \in 1 .. Len(q) : i > d \/ i <= d
    BY <1>2
  <2> QED
    BY <1>1, <2>1, <2>2, <2>3, <2>4, <2>5
<1>6. AgesIn(n) = [x \in Runs |-> AgesIn(n)[x]]
  BY DEF AgesIn
<1> QED
  BY <1>5, <1>6 DEF n

\* Ages is AgesIn of the runs as they are once the save in progress is through.
LEMMA AgesAreOfSettled == Ages = AgesIn(Settled) /\ Ages' = AgesIn(Settled')
BY DEF Ages, AgesIn

\* Without a save in progress these are the keys.
LEMMA SettledAtRest ==
  ASSUME \A w \in Workers : pc[w] # "store" PROVE Settled = runs
BY DEF Settled

\* The same after a step.
LEMMA SettledAtRestNext ==
  ASSUME \A w \in Workers : pc'[w] # "store" PROVE Settled' = runs'
BY DEF Settled

\* With one they are the keys and its run.
LEMMA SettledInSave ==
  ASSUME NEW w \in Workers, pc[w] = "store", \A v \in Workers : pc[v] = "store" => v = w
  PROVE  Settled = IF IsKey(task[w].run) THEN runs ELSE Append(runs, task[w].run)
<1>1. (CHOOSE v \in Workers : pc[v] = "store") = w
  OBVIOUS
<1> QED
  BY <1>1 DEF Settled

\* The same after a step.
LEMMA SettledInSaveNext ==
  ASSUME NEW w \in Workers, pc'[w] = "store", \A v \in Workers : pc'[v] = "store" => v = w
  PROVE  Settled' = IF IsKey(task[w].run)' THEN runs' ELSE Append(runs', task'[w].run)
<1>1. (CHOOSE v \in Workers : pc'[v] = "store") = w
  OBVIOUS
<1> QED
  BY <1>1 DEF Settled

\* Every step is a step of the store of the latest runs, or none of it.
LEMMA NextRecent == MemoryInv /\ [Next]_vars => [Recent!Next]_Recent!vars
<1> SUFFICES ASSUME MemoryInv, [Next]_vars PROVE [Recent!Next]_Recent!vars
  OBVIOUS
<1> USE DEF Recent!vars
<1>1. /\ pc \in [Workers -> {"idle", "acquire", "check", "store", "release"}]
      /\ task \in [Workers -> Tasks]
      /\ reply \in [Workers -> {"none", "saved", "found", "missing"}]
      /\ runs \in Seq(Runs) /\ Len(runs) \in Nat /\ Len(runs) <= MaxRuns /\ Unrepeated(runs)
      /\ MaxRuns \in Nat \ {0}
  BY MaxRunsAssumption DEF MemoryInv, TypeOK, NeverOverLimit, Distinct, Unrepeated
<1>2. CASE UNCHANGED vars
  <2>1. Settled' = Settled
    BY <1>2 DEF vars, Settled, IsKey
  <2>2. Ages' = Ages /\ Phases' = Phases /\ Answers' = Answers /\ task' = task
    BY <1>2, <2>1, AgesAreOfSettled DEF vars, Phases, Answers
  <2> QED
    BY <2>2
<1>3. ASSUME NEW w \in Workers, Call(w) PROVE Recent!Call(w)
  <2>1. Settled' = Settled
    <3>1. \A v \in Workers : pc'[v] = "store" <=> pc[v] = "store"
      BY <1>1, <1>3 DEF Call
    <3>2. \A v \in Workers : pc[v] = "store" => task'[v] = task[v]
      BY <1>1, <1>3 DEF Call
    <3>3. CASE \A v \in Workers : pc[v] # "store"
      BY <1>3, <3>1, <3>3, SettledAtRest, SettledAtRestNext DEF Call
    <3>4. ASSUME NEW v \in Workers, pc[v] = "store" PROVE Settled' = Settled
      <4>1. \A u \in Workers : pc[u] = "store" => u = v
        BY <3>4 DEF MemoryInv, Exclusive, Holds
      <4>2. runs' = runs /\ task'[v] = task[v] /\ pc'[v] = "store"
        BY <1>3, <3>1, <3>2, <3>4 DEF Call
      <4>3. IsKey(task[v].run)' <=> IsKey(task[v].run)
        BY <4>2 DEF IsKey
      <4>4. Settled = IF IsKey(task[v].run) THEN runs ELSE Append(runs, task[v].run)
        BY <3>4, <4>1, SettledInSave
      <4>5. Settled' = IF IsKey(task[v].run)' THEN runs' ELSE Append(runs', task'[v].run)
        BY <3>1, <4>1, <4>2, SettledInSaveNext
      <4> QED
        BY <4>2, <4>3, <4>4, <4>5
    <3> QED
      BY <3>3, <3>4
  <2>2. /\ Phases[w] = "idle" /\ Phases' = [Phases EXCEPT ![w] = "called"]
        /\ Answers' = [Answers EXCEPT ![w] = "none"]
    BY <1>1, <1>3 DEF Call, Phases, Answers
  <2>3. \E t \in Tasks : task' = [task EXCEPT ![w] = t]
    BY <1>3 DEF Call
  <2> QED
    BY <2>1, <2>2, <2>3, AgesAreOfSettled DEF Recent!Call, Recent!Tasks, Tasks
<1>4. ASSUME NEW w \in Workers, Acquire(w) PROVE UNCHANGED Recent!vars
  <2>1. \A v \in Workers : ~ Holds(v)
    BY <1>4 DEF MemoryInv, Exclusive, Acquire
  <2>2. \A v \in Workers : pc[v] # "store" /\ pc'[v] # "store"
    BY <1>1, <1>4, <2>1 DEF Acquire, Holds
  <2>3. Settled' = Settled
    BY <1>4, <2>2, SettledAtRest, SettledAtRestNext DEF Acquire
  <2>4. Phases' = Phases /\ Answers' = Answers /\ task' = task
    BY <1>1, <1>4 DEF Acquire, Phases, Answers
  <2> QED
    BY <2>3, <2>4, AgesAreOfSettled
<1>5. ASSUME NEW w \in Workers, MakeRoom(w) PROVE Recent!Save(w)
  <2> DEFINE r == task[w].run
  <2>1. \A v \in Workers \ {w} : ~ Holds(v)
    BY <1>5 DEF MemoryInv, Exclusive, Holds, MakeRoom
  <2>2. /\ r \in Runs /\ task' = task
        /\ \A v \in Workers : pc[v] # "store"
        /\ pc'[w] = "store" /\ \A v \in Workers : pc'[v] = "store" => v = w
    BY <1>1, <1>5, <2>1 DEF MakeRoom, Holds, Tasks
  <2>3. /\ Settled = runs
        /\ Settled' = IF IsKey(r) THEN runs' ELSE Append(runs', r)
    BY <1>5, <2>2, SettledAtRest, SettledInSaveNext, RoomForOne
  <2>4. Ages' = Recent!AfterSaving(r)
    <3>1. CASE IsKey(r)
      <4>1. Settled' = Settled
        BY <1>5, <2>3, <3>1 DEF MakeRoom
      <4>2. Ages[r] < MaxRuns
        BY <1>1, <2>2, <2>3, <3>1, AgesAreOfSettled, RetainedIsKey DEF IsKey
      <4> QED
        BY <4>1, <4>2, AgesAreOfSettled DEF Recent!AfterSaving, Recent!Retained
    <3>2. CASE ~ IsKey(r)
      <4>1. runs' = IF Len(runs) >= MaxRuns THEN Tail(runs) ELSE runs
        BY <1>5, <3>2 DEF MakeRoom
      <4>2. AgesIn(Append(runs', r)) =
              [x \in Runs |-> IF x = r THEN 0
                              ELSE IF AgesIn(runs)[x] < MaxRuns THEN AgesIn(runs)[x] + 1 ELSE MaxRuns]
        <5>1. \A i \in 1 .. Len(runs) : runs[i] # r
          BY <3>2 DEF IsKey
        <5> HIDE DEF r
        <5> QED
          BY ZenonT(40), <1>1, <2>2, <4>1, <5>1, AgesAfterSaving
      <4>3. ~ (Ages[r] < MaxRuns)
        BY <1>1, <2>2, <2>3, <3>2, AgesAreOfSettled, RetainedIsKey DEF IsKey
      <4> QED
        BY <2>3, <3>2, <4>2, <4>3, AgesAreOfSettled DEF Recent!AfterSaving, Recent!Retained
    <3> QED
      BY <3>1, <3>2
  <2>5. /\ Phases[w] = "called" /\ Phases' = [Phases EXCEPT ![w] = "done"]
        /\ Answers' = [Answers EXCEPT ![w] = "saved"]
    BY <1>1, <1>5 DEF MakeRoom, Phases, Answers
  <2> QED
    BY <1>5, <2>2, <2>4, <2>5 DEF Recent!Save, MakeRoom
<1>6. ASSUME NEW w \in Workers, Store(w) PROVE UNCHANGED Recent!vars
  <2>1. \A v \in Workers \ {w} : ~ Holds(v)
    BY <1>6 DEF MemoryInv, Exclusive, Holds, Store
  <2>2. /\ pc[w] = "store" /\ \A v \in Workers : pc[v] = "store" => v = w
        /\ \A v \in Workers : pc'[v] # "store"
    BY <1>1, <1>6, <2>1 DEF Store, Holds
  <2>3. Settled' = Settled
    BY <1>6, <2>2, SettledInSave, SettledAtRestNext DEF Store
  <2>4. Phases' = Phases /\ Answers' = Answers /\ task' = task
    BY <1>1, <1>6 DEF Store, Phases, Answers
  <2> QED
    BY <2>3, <2>4, AgesAreOfSettled
<1>7. ASSUME NEW w \in Workers, Read(w) PROVE Recent!Get(w)
  <2>1. \A v \in Workers \ {w} : ~ Holds(v)
    BY <1>7 DEF MemoryInv, Exclusive, Holds, Read
  <2>2. /\ task[w].run \in Runs /\ task' = task /\ runs' = runs
        /\ \A v \in Workers : pc[v] # "store" /\ pc'[v] # "store"
    BY <1>1, <1>7, <2>1 DEF Read, Holds, Tasks
  <2>3. Settled = runs /\ Settled' = Settled
    BY <2>2, SettledAtRest, SettledAtRestNext
  <2>4. Ages[task[w].run] < MaxRuns <=> IsKey(task[w].run)
    BY <1>1, <2>2, <2>3, AgesAreOfSettled, RetainedIsKey DEF IsKey
  <2>5. /\ Phases[w] = "called" /\ Phases' = [Phases EXCEPT ![w] = "done"]
        /\ Answers' = [Answers EXCEPT ![w] = IF IsKey(task[w].run) THEN "found" ELSE "missing"]
    BY <1>1, <1>7 DEF Read, Phases, Answers
  <2> QED
    BY <1>7, <2>2, <2>3, <2>4, <2>5, AgesAreOfSettled DEF Recent!Get, Recent!Retained, Read
<1>8. ASSUME NEW w \in Workers, Release(w) PROVE Recent!Return(w)
  <2>1. \A v \in Workers \ {w} : ~ Holds(v)
    BY <1>8 DEF MemoryInv, Exclusive, Holds, Release
  <2>2. \A v \in Workers : pc[v] # "store" /\ pc'[v] # "store"
    BY <1>1, <1>8, <2>1 DEF Release, Holds
  <2>3. Settled' = Settled
    BY <1>8, <2>2, SettledAtRest, SettledAtRestNext DEF Release
  <2>4. /\ Phases[w] = "done" /\ Phases' = [Phases EXCEPT ![w] = "idle"]
        /\ Answers' = Answers /\ task' = task
    BY <1>1, <1>8 DEF Release, Phases, Answers
  <2> QED
    BY <2>3, <2>4, AgesAreOfSettled DEF Recent!Return
<1> QED
  BY <1>2, <1>3, <1>4, <1>5, <1>6, <1>7, <1>8 DEF Next, Step, Recent!Next

\* The dictionary behind its lock gives back exactly the runs after which fewer than
\* max_runs others were stored: every behaviour is one of the abstract store.
THEOREM RecentRunsImplemented == Spec => ImplementsRecentRuns
<1>1. Init => Recent!Init
  <2> SUFFICES ASSUME Init PROVE Recent!Init
    OBVIOUS
  <2>1. runs = <<>> /\ Len(runs) = 0 /\ runs \in Seq(Runs)
    BY DEF Init
  <2>2. Settled = runs
    BY SettledAtRest DEF Init
  <2>3. Ages = [r \in Runs |-> MaxRuns]
    BY <2>1, <2>2 DEF Ages
  <2>4. Phases = [w \in Workers |-> "idle"] /\ Answers = [w \in Workers |-> "none"]
    BY DEF Init, Phases, Answers
  <2> QED
    BY <2>3, <2>4 DEF Init, Recent!Init, Recent!Tasks, Tasks
<1> QED
  BY <1>1, NextRecent, MemoryInvariant, PTL DEF Spec, ImplementsRecentRuns, Recent!Spec
=============================================================================
