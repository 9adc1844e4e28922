------------------------- MODULE CommandLineProofs -------------------------
(***************************************************************************)
(* The result file of the run and replay commands, for any number of       *)
(* processes, whatever fails, is killed or loses power in between.         *)
(***************************************************************************)
EXTENDS CommandLine, TLAPS

\* The temporary file is as far as its writer is.
TemporaryGrows ==
  \A w \in Writers :
    /\ pc[w] \in {"write", "sync", "replace"} => temporary[w] \in File
    /\ pc[w] \in {"sync", "replace"} => temporary[w].whole
    /\ pc[w] = "replace" => temporary[w].synced
    /\ pc[w] \in {"start", "check", "create", "emit", "exited"} => temporary[w] = NoFile

\* What a process has seen under the target name is not taken away while it runs.
SeenStays ==
  /\ \A r \in Readers : pc[r] = "read" => target # NoFile
  /\ \A w \in Writers \ forced :
       /\ pc[w] = "check" => before[w] = NoFile \/ target # NoFile
       /\ pc[w] \in {"create", "write", "sync", "replace"} => before[w] = NoFile

\* Where a writer is tells whether it has replaced the target and can have ended.
ProgressIsTrue ==
  \A w \in Writers :
    /\ pc[w] \in {"start", "check", "create", "write", "sync", "replace", "cleanup"} =>
         exit[w] = -1 /\ w \notin placed
    /\ pc[w] = "emit" => exit[w] = -1 /\ w \in placed

\* A writer that put its result in place had the result of f.
Placed(f) == \E w \in placed : result_of[w] = f.result

\* Whatever the name may stand for, and whatever a replay has read, some writer put there.
ResultsArePlaced ==
  /\ \A f \in listed \cup {target} : f # NoFile => Placed(f)
  /\ \A w \in Writers : pc[w] \in {"write", "sync", "replace"} =>
                         temporary[w].result = result_of[w]
  /\ \A r \in Readers : pc[r] = "verify" => Placed(seen[r])

FileInv ==
  /\ TypeOK
  /\ TargetIsWhole
  /\ TemporaryGrows
  /\ SeenStays
  /\ ProgressIsTrue
  /\ ExitCodeIsTrue
  /\ ResultsArePlaced
  /\ VerdictIsTrue

Labels == {"start", "check", "create", "write", "sync", "replace", "cleanup", "emit",
           "stat", "read", "verify", "exited", "littered", "killed"}

-----------------------------------------------------------------------------
\* At the start nothing is there and nobody has begun.
LEMMA InitFileInv == Init => FileInv
<1> SUFFICES ASSUME Init PROVE FileInv
  OBVIOUS
<1>1. \A w \in Writers : w \in Processes /\ pc[w] = "start" /\ exit[w] = -1 /\ temporary[w] = NoFile
  BY DEF Init, Processes
<1>2. \A r \in Readers : pc[r] = "start" /\ exit[r] = -1
  BY DEF Init, Processes
<1>3. TypeOK
  BY DEF Init, TypeOK
<1> QED
  BY <1>1, <1>2, <1>3
     DEF Init, FileInv, TargetIsWhole, TemporaryGrows, SeenStays, ProgressIsTrue, ExitCodeIsTrue,
         ResultsArePlaced, VerdictIsTrue

\* The type of every variable is kept.
LEMMA NextTypes == ASSUME FileInv, [Next]_vars PROVE TypeOK'
<1> USE DEF Goto, Exit, Fails, Files, History, Ended
<1>1. TypeOK /\ TemporaryGrows
  BY DEF FileInv
<1>2. CASE UNCHANGED vars
  BY <1>1, <1>2 DEF TypeOK, vars
<1>3. ASSUME NEW p \in Processes, Begin(p) \/ Reject(p) \/ Kill(p) PROVE TypeOK'
  BY <1>1, <1>3 DEF TypeOK, Begin, Reject, Kill
<1>4. ASSUME NEW w \in Writers, Check(w) \/ CreateFails(w) \/ StepFails(w) \/ Emit(w)
                                \/ CleanUp(w) \/ CleanUpFails(w)
      PROVE TypeOK'
  BY <1>1, <1>4 DEF TypeOK, Check, CreateFails, StepFails, Emit, CleanUp, CleanUpFails
<1>5. ASSUME NEW w \in Writers, Create(w) PROVE TypeOK'
  <2>1. [result |-> result_of[w], whole |-> FALSE, synced |-> FALSE] \in File
    BY ProcessAssumption DEF File
  <2> QED
    BY <1>1, <1>5, <2>1 DEF TypeOK, Create
<1>6. ASSUME NEW w \in Writers, Write(w) \/ Sync(w) PROVE TypeOK'
  <2>1. temporary[w] \in File
    BY <1>1, <1>6 DEF TemporaryGrows, Write, Sync
  <2>2. [temporary[w] EXCEPT !.whole = TRUE] \in File /\ [temporary[w] EXCEPT !.synced = TRUE] \in File
    BY <2>1 DEF File
  <2>3. \E f \in File : temporary' = [temporary EXCEPT ![w] = f]
    BY <1>6, <2>2 DEF Write, Sync
  <2>4. temporary' \in [Writers -> File \cup {NoFile}]
    BY <1>1, <2>3 DEF TypeOK
  <2> QED
    BY <1>1, <1>6, <2>4 DEF TypeOK, Write, Sync
<1>7. ASSUME NEW w \in Writers, Replace(w) PROVE TypeOK'
  <2>1. target' \in File \cup {NoFile} /\ listed' = listed \cup {target'}
    BY <1>1, <1>7 DEF TypeOK, Replace
  <2> QED
    BY ZenonT(40), <1>1, <1>7, <2>1 DEF TypeOK, Replace
<1>8. ASSUME NEW r \in Readers, Stat(r) \/ Read(r) \/ ReadFails(r) \/ Verify(r) PROVE TypeOK'
  BY <1>1, <1>8 DEF TypeOK, Stat, Read, ReadFails, Verify
<1>9. CASE DirectorySynced
  BY <1>1, <1>9 DEF TypeOK, DirectorySynced
<1>10. CASE PowerLoss
  <2>1. target' \in File \cup {NoFile}
    <3>1. PICK f \in listed : target' \in AfterLoss(f)
      BY <1>10 DEF PowerLoss
    <3>2. CASE f = NoFile \/ f.synced
      BY <1>1, <3>1, <3>2 DEF AfterLoss, TypeOK
    <3>3. CASE f # NoFile /\ ~ f.synced
      <4>1. f \in File
        BY <1>1, <3>3 DEF TypeOK
      <4>2. [f EXCEPT !.whole = FALSE] \in File
        BY <4>1 DEF File
      <4> QED
        BY <3>1, <3>3, <4>1, <4>2 DEF AfterLoss
    <3> QED
      BY <3>2, <3>3
  <2> QED
    BY <1>1, <1>10, <2>1 DEF TypeOK, PowerLoss
<1> QED
  BY <1>2, <1>3, <1>4, <1>5, <1>6, <1>7, <1>8, <1>9, <1>10 DEF Next, WriterStep

\* A file that is whole is there.
LEMMA WholeIsThere == \A f : f.whole = TRUE => f # NoFile
BY DEF NoFile

\* No step takes or breaks what the directory may list.
LEMMA NextWhole == ASSUME FileInv, [Next]_vars PROVE TargetIsWhole'
<1>1. TypeOK /\ TargetIsWhole /\ TemporaryGrows
  BY DEF FileInv
<1>2. CASE target' = target /\ listed' = listed
  BY <1>1, <1>2 DEF TargetIsWhole
<1>3. ASSUME NEW w \in Writers, Replace(w) PROVE TargetIsWhole'
  <2>1. target'.whole /\ target'.synced
    BY <1>1, <1>3 DEF TemporaryGrows, Replace
  <2> QED
    BY <1>1, <1>3, <2>1 DEF TargetIsWhole, Replace
<1>4. CASE DirectorySynced
  BY <1>1, <1>4 DEF TargetIsWhole, DirectorySynced
<1>5. CASE PowerLoss
  <2>1. target' \in listed /\ listed' = {target'}
    BY <1>1, <1>5 DEF TargetIsWhole, PowerLoss, AfterLoss
  <2> QED
    BY <1>1, <2>1 DEF TargetIsWhole
<1> QED
  BY <1>2, <1>3, <1>4, <1>5
     DEF Next, WriterStep, Begin, Reject, Kill, Check, Create, CreateFails, Write, Sync,
         StepFails, CleanUp, CleanUpFails, Emit, Stat, Read, ReadFails, Verify, Files, vars

\* The temporary files keep up with their writers.
LEMMA NextTemporary == ASSUME FileInv, [Next]_vars PROVE TemporaryGrows'
<1> USE DEF Goto, Exit, Fails, Files, History, Ended
<1>1. /\ pc \in [Processes -> Labels] /\ temporary \in [Writers -> File \cup {NoFile}]
      /\ TemporaryGrows /\ Writers \subseteq Processes /\ Writers \cap Readers = {}
  BY ProcessAssumption DEF FileInv, TypeOK, Labels, Processes
<1>2. CASE UNCHANGED vars
  BY <1>1, <1>2 DEF TemporaryGrows, vars
<1>3. ASSUME NEW p \in Processes, Begin(p) \/ Reject(p) \/ Kill(p) PROVE TemporaryGrows'
  BY <1>1, <1>3 DEF TemporaryGrows, Begin, Reject, Kill
<1>4. ASSUME NEW w \in Writers, Check(w) \/ CreateFails(w) \/ StepFails(w) \/ Emit(w)
                                \/ CleanUp(w) \/ CleanUpFails(w)
      PROVE TemporaryGrows'
  BY <1>1, <1>4 DEF TemporaryGrows, Check, CreateFails, StepFails, Emit, CleanUp, CleanUpFails
<1>5. ASSUME NEW w \in Writers, Create(w) PROVE TemporaryGrows'
  <2>1. [result |-> result_of[w], whole |-> FALSE, synced |-> FALSE] \in File
    BY ProcessAssumption DEF File
  <2> QED
    BY <1>1, <1>5, <2>1 DEF TemporaryGrows, Create
<1>6. ASSUME NEW w \in Writers, Write(w) \/ Sync(w) PROVE TemporaryGrows'
  <2>1. temporary[w] \in File /\ (Sync(w) => temporary[w].whole)
    BY <1>1, <1>6 DEF TemporaryGrows, Write, Sync
  <2>2. PICK f \in File : /\ temporary' = [temporary EXCEPT ![w] = f] /\ f.whole
                          /\ Sync(w) => f.synced
    <3>1. [temporary[w] EXCEPT !.whole = TRUE] \in File /\ [temporary[w] EXCEPT !.synced = TRUE] \in File
      BY <2>1 DEF File
    <3>2. CASE Write(w)
      <4>1. ~ Sync(w) /\ temporary' = [temporary EXCEPT ![w] = [temporary[w] EXCEPT !.whole = TRUE]]
        BY <3>2 DEF Write, Sync
      <4>2. [temporary[w] EXCEPT !.whole = TRUE].whole
        BY <2>1 DEF File
      <4> QED
        BY <3>1, <4>1, <4>2
    <3>3. CASE Sync(w)
      <4>1. temporary' = [temporary EXCEPT ![w] = [temporary[w] EXCEPT !.synced = TRUE]]
        BY <3>3 DEF Sync
      <4>2. /\ [temporary[w] EXCEPT !.synced = TRUE].whole
            /\ [temporary[w] EXCEPT !.synced = TRUE].synced
        BY <2>1, <3>3 DEF File
      <4> QED
        BY <3>1, <4>1, <4>2
    <3> QED
      BY <1>6, <3>2, <3>3
  <2> QED
    BY <1>1, <1>6, <2>2 DEF TemporaryGrows, Write, Sync
<1>7. ASSUME NEW w \in Writers, Replace(w) PROVE TemporaryGrows'
  BY <1>1, <1>7 DEF TemporaryGrows, Replace
<1>8. ASSUME NEW r \in Readers, Stat(r) \/ Read(r) \/ ReadFails(r) \/ Verify(r) PROVE TemporaryGrows'
  BY <1>1, <1>8 DEF TemporaryGrows, Stat, Read, ReadFails, Verify
<1>9. CASE DirectorySynced
  BY <1>1, <1>9 DEF TemporaryGrows, DirectorySynced
<1>10. CASE PowerLoss
  BY <1>1, <1>10 DEF TemporaryGrows, PowerLoss
<1> QED
  BY <1>2, <1>3, <1>4, <1>5, <1>6, <1>7, <1>8, <1>9, <1>10 DEF Next, WriterStep

\* What was seen stays.
LEMMA NextSeen == ASSUME FileInv, [Next]_vars PROVE SeenStays'
<1> USE DEF Goto, Exit, Fails, Files, History, Ended
<1>1. /\ pc \in [Processes -> Labels] /\ before \in [Writers \ forced -> File \cup {NoFile}]
      /\ TemporaryGrows /\ SeenStays /\ Writers \cap Readers = {}
      /\ Writers \subseteq Processes /\ Readers \subseteq Processes
  BY ProcessAssumption DEF FileInv, TypeOK, Labels, Processes
<1>2. CASE UNCHANGED vars
  BY <1>1, <1>2 DEF SeenStays, vars
<1>3. ASSUME NEW p \in Processes, Begin(p) PROVE SeenStays'
  BY <1>1, <1>3 DEF SeenStays, Begin
<1>4. ASSUME NEW p \in Processes, Reject(p) \/ Kill(p) PROVE SeenStays'
  BY <1>1, <1>4 DEF SeenStays, Reject, Kill
<1>5. ASSUME NEW w \in Writers, Check(w) PROVE SeenStays'
  BY <1>1, <1>5 DEF SeenStays, Check, Refuse
<1>6. ASSUME NEW w \in Writers, Create(w) \/ CreateFails(w) \/ StepFails(w) \/ Emit(w)
                                \/ CleanUp(w) \/ CleanUpFails(w) \/ Write(w) \/ Sync(w)
      PROVE SeenStays'
  BY <1>1, <1>6 DEF SeenStays, Create, CreateFails, StepFails, Emit, CleanUp, CleanUpFails,
                    Write, Sync
<1>7. ASSUME NEW w \in Writers, Replace(w) PROVE SeenStays'
  <2>1. target' # NoFile
    BY <1>1, <1>7 DEF TemporaryGrows, Replace, NoFile
  <2> QED
    BY <1>1, <1>7, <2>1 DEF SeenStays, Replace
<1>8. ASSUME NEW r \in Readers, Stat(r) \/ Read(r) \/ ReadFails(r) \/ Verify(r) PROVE SeenStays'
  BY <1>1, <1>8 DEF SeenStays, Stat, Read, ReadFails, Verify
<1>9. CASE DirectorySynced
  BY <1>1, <1>9 DEF SeenStays, DirectorySynced
<1>10. CASE PowerLoss
  BY <1>1, <1>10 DEF SeenStays, PowerLoss
<1> QED
  BY <1>2, <1>3, <1>4, <1>5, <1>6, <1>7, <1>8, <1>9, <1>10 DEF Next, WriterStep

\* The exit codes say what was done.
LEMMA NextProgress == ASSUME FileInv, [Next]_vars PROVE ProgressIsTrue' /\ ExitCodeIsTrue'
<1> USE DEF Goto, Exit, Fails, Files, History, Ended
<1>1. /\ pc \in [Processes -> Labels] /\ exit \in [Processes -> (-1 .. 5) \cup {120}]
      /\ ProgressIsTrue /\ ExitCodeIsTrue /\ Writers \cap Readers = {}
      /\ Writers \subseteq Processes /\ Readers \subseteq Processes
  BY ProcessAssumption DEF FileInv, TypeOK, Labels, Processes
<1>2. CASE UNCHANGED vars
  BY <1>1, <1>2 DEF ProgressIsTrue, ExitCodeIsTrue, vars
<1>3. ASSUME NEW p \in Processes, Begin(p) \/ Reject(p) \/ Kill(p)
      PROVE  ProgressIsTrue' /\ ExitCodeIsTrue'
  BY <1>1, <1>3 DEF ProgressIsTrue, ExitCodeIsTrue, Begin, Reject, Kill
<1>4. ASSUME NEW w \in Writers, Check(w) \/ Create(w) \/ CreateFails(w) \/ StepFails(w)
                                \/ CleanUp(w) \/ CleanUpFails(w) \/ Write(w) \/ Sync(w)
      PROVE  ProgressIsTrue' /\ ExitCodeIsTrue'
  BY <1>1, <1>4 DEF ProgressIsTrue, ExitCodeIsTrue, Check, Create, CreateFails, StepFails,
                    CleanUp, CleanUpFails, Write, Sync
<1>5. ASSUME NEW w \in Writers, Replace(w) \/ Emit(w) PROVE ProgressIsTrue' /\ ExitCodeIsTrue'
  BY <1>1, <1>5 DEF ProgressIsTrue, ExitCodeIsTrue, Replace, Emit
<1>6. ASSUME NEW r \in Readers, Stat(r) \/ Read(r) \/ ReadFails(r) \/ Verify(r) PROVE ProgressIsTrue' /\ ExitCodeIsTrue'
  BY <1>1, <1>6 DEF ProgressIsTrue, ExitCodeIsTrue, Stat, Read, ReadFails, Verify
<1>7. CASE DirectorySynced \/ PowerLoss
  BY <1>1, <1>7 DEF ProgressIsTrue, ExitCodeIsTrue, DirectorySynced, PowerLoss
<1> QED
  BY <1>2, <1>3, <1>4, <1>5, <1>6, <1>7 DEF Next, WriterStep

\* No step but a rename gives the name another result.
LEMMA NextPlaced == ASSUME FileInv, [Next]_vars PROVE ResultsArePlaced'
<1> USE DEF Goto, Exit, Fails, Files, History, Ended
<1>1. /\ TypeOK /\ TargetIsWhole /\ TemporaryGrows /\ ResultsArePlaced
      /\ pc \in [Processes -> Labels] /\ Writers \cap Readers = {}
      /\ Writers \subseteq Processes /\ Readers \subseteq Processes
  BY ProcessAssumption DEF FileInv, TypeOK, Labels, Processes
<1>2. CASE UNCHANGED vars
  BY <1>1, <1>2 DEF ResultsArePlaced, Placed, vars
<1>3. ASSUME NEW p \in Processes, Begin(p) \/ Reject(p) \/ Kill(p) PROVE ResultsArePlaced'
  BY <1>1, <1>3 DEF ResultsArePlaced, Placed, Begin, Reject, Kill
<1>4. ASSUME NEW w \in Writers, Check(w) \/ CreateFails(w) \/ StepFails(w) \/ Emit(w)
                                \/ CleanUp(w) \/ CleanUpFails(w)
      PROVE ResultsArePlaced'
  BY <1>1, <1>4 DEF ResultsArePlaced, Placed, TypeOK, Check, CreateFails, StepFails, Emit, CleanUp,
                    CleanUpFails
<1>5. ASSUME NEW w \in Writers, Create(w) \/ Write(w) \/ Sync(w) PROVE ResultsArePlaced'
  <2>1. /\ UNCHANGED <<target, listed, seen, placed>>
        /\ \E label \in {"write", "sync", "replace"} : pc' = [pc EXCEPT ![w] = label]
    BY <1>5 DEF Create, Write, Sync
  <2>2. PICK f : temporary' = [temporary EXCEPT ![w] = f] /\ f.result = result_of[w]
    <3>1. CASE Create(w)
      <4>1. [result |-> result_of[w], whole |-> FALSE, synced |-> FALSE].result = result_of[w]
        OBVIOUS
      <4> QED
        BY <3>1, <4>1 DEF Create
    <3>2. CASE Write(w) \/ Sync(w)
      <4>1. temporary[w] \in File /\ temporary[w].result = result_of[w]
        BY <1>1, <3>2 DEF TemporaryGrows, ResultsArePlaced, Write, Sync
      <4>2. /\ [temporary[w] EXCEPT !.whole = TRUE].result = temporary[w].result
            /\ [temporary[w] EXCEPT !.synced = TRUE].result = temporary[w].result
        BY <4>1 DEF File
      <4> QED
        BY <3>2, <4>1, <4>2 DEF Write, Sync
    <3> QED
      BY <1>5, <3>1, <3>2
  <2> QED
    BY <1>1, <2>1, <2>2 DEF ResultsArePlaced, Placed, TypeOK
<1>6. ASSUME NEW w \in Writers, Replace(w) PROVE ResultsArePlaced'
  <2>1. target'.result = result_of[w] /\ placed' = placed \cup {w}
    BY <1>1, <1>6 DEF ResultsArePlaced, Replace
  <2>2. \A f : Placed(f) => Placed(f)'
    BY <2>1 DEF Placed
  <2>3. \A f \in listed' \cup {target'} : f # NoFile => Placed(f)'
    BY <1>1, <1>6, <2>1, <2>2 DEF ResultsArePlaced, Replace, Placed
  <2> QED
    BY <1>1, <1>6, <2>1, <2>2, <2>3 DEF ResultsArePlaced, Placed, Replace, TypeOK
<1>7. ASSUME NEW r \in Readers, Stat(r) \/ ReadFails(r) \/ Verify(r) PROVE ResultsArePlaced'
  BY <1>1, <1>7 DEF ResultsArePlaced, Placed, Stat, ReadFails, Verify
<1>8. ASSUME NEW r \in Readers, Read(r) PROVE ResultsArePlaced'
  BY <1>1, <1>8 DEF ResultsArePlaced, Placed, Read, TypeOK
<1>9. CASE DirectorySynced
  BY <1>1, <1>9 DEF ResultsArePlaced, Placed, DirectorySynced
<1>10. CASE PowerLoss
  <2>1. target' \in listed /\ listed' = {target'} /\ UNCHANGED <<temporary, seen, placed>>
    BY <1>1, <1>10 DEF TargetIsWhole, PowerLoss, AfterLoss, History
  <2>2. \A p \in Processes :
          pc'[p] \in {"verify", "write", "sync", "replace"} => pc'[p] = pc[p]
    BY <1>1, <1>10 DEF PowerLoss
  <2>3. \A f : Placed(f)' <=> Placed(f)
    BY <2>1 DEF Placed
  <2> QED
    BY <1>1, <2>1, <2>2, <2>3 DEF ResultsArePlaced
<1> QED
  BY <1>2, <1>3, <1>4, <1>5, <1>6, <1>7, <1>8, <1>9, <1>10 DEF Next, WriterStep

\* A verdict is about what was read, and what was found stays to be read.
LEMMA NextVerdict == ASSUME FileInv, [Next]_vars PROVE VerdictIsTrue'
<1> USE DEF Goto, Exit, Fails, Files, History, Ended
<1>1. /\ pc \in [Processes -> Labels] /\ exit \in [Processes -> (-1 .. 5) \cup {120}]
      /\ ResultsArePlaced /\ VerdictIsTrue /\ Writers \cap Readers = {}
      /\ Writers \subseteq Processes /\ Readers \subseteq Processes
  BY ProcessAssumption DEF FileInv, TypeOK, Labels, Processes
<1>2. SUFFICES ASSUME NEW r \in Readers
      PROVE  /\ exit'[r] = 0 => \E w \in placed' : result_of[w] = result_of[r]
             /\ exit'[r] = 5 => \E w \in placed' : result_of[w] # result_of[r]
  <2>1. SeenStays' /\ TargetIsWhole'
    BY NextSeen, NextWhole
  <2> QED
    BY <1>2, <2>1 DEF VerdictIsTrue, SeenStays, TargetIsWhole
<1>3. placed \subseteq placed'
  BY DEF Next, WriterStep, Begin, Reject, Kill, Check, Create, CreateFails, Write, Sync, Replace,
         StepFails, CleanUp, CleanUpFails, Emit, Stat, Read, ReadFails, Verify, DirectorySynced,
         PowerLoss, vars
<1>4. CASE Verify(r)
  <2>1. Placed(seen[r]) /\ placed' = placed
    BY <1>1, <1>4 DEF ResultsArePlaced, Verify
  <2> QED
    BY <1>1, <1>4, <2>1 DEF Verify, Placed
<1>5. CASE exit'[r] \notin {0, 5} \/ exit'[r] = exit[r]
  BY <1>1, <1>3, <1>5 DEF VerdictIsTrue
<1>6. CASE ~ Verify(r)
  <2>1. ASSUME NEW q \in Readers, Stat(q) \/ Read(q) \/ ReadFails(q) \/ Verify(q)
        PROVE  exit'[r] \notin {0, 5} \/ exit'[r] = exit[r]
    BY <1>1, <1>6, <2>1 DEF Stat, Read, ReadFails, Verify
  <2>2. ASSUME NEW p \in Processes, Begin(p) \/ Reject(p) \/ Kill(p)
        PROVE  exit'[r] \notin {0, 5} \/ exit'[r] = exit[r]
    BY <1>1, <2>2 DEF Begin, Reject, Kill
  <2>3. ASSUME NEW w \in Writers, WriterStep(w) PROVE exit'[r] = exit[r]
    <3>1. r # w
      BY <1>1
    <3>2. exit' = exit \/ \E code : exit' = [exit EXCEPT ![w] = code]
      BY <2>3 DEF WriterStep, Check, Create, CreateFails, Write, Sync, Replace, StepFails, CleanUp,
                  CleanUpFails, Emit
    <3> QED
      BY <1>1, <3>1, <3>2
  <2>4. ASSUME DirectorySynced \/ PowerLoss \/ UNCHANGED vars PROVE exit' = exit
    BY <2>4 DEF DirectorySynced, PowerLoss, vars
  <2> QED
    BY <1>5, <2>1, <2>2, <2>3, <2>4 DEF Next
<1> QED
  BY <1>4, <1>6

\* In every run, whatever fails or is killed, the invariant of the file holds.
LEMMA FileInvariant == Spec => []FileInv
<1>1. FileInv /\ [Next]_vars => FileInv'
  BY NextTypes, NextWhole, NextTemporary, NextSeen, NextProgress, NextPlaced, NextVerdict DEF FileInv
<1> QED
  BY InitFileInv, <1>1, PTL DEF Spec

-----------------------------------------------------------------------------
(* The results.                                                            *)

\* Whoever is killed and whenever the power goes, what the name may stand for is no
\* result or a whole one.
THEOREM TargetIsWholeHolds == Spec => []TargetIsWhole
<1>1. FileInv => TargetIsWhole
  BY DEF FileInv
<1> QED
  BY <1>1, FileInvariant, PTL

\* Exit code 0 tells of a result that was put in place and 2 and 3 of one that was not,
\* and a process that exits on its own leaves no temporary file.
THEOREM OutcomeIsTrueHolds == Spec => []OutcomeIsTrue
<1>1. FileInv => OutcomeIsTrue
  BY DEF FileInv, OutcomeIsTrue, TemporaryGrows, LitterIsExplained
<1> QED
  BY <1>1, FileInvariant, PTL

\* A replay opens what it has found, and its verdict is about a result that was put in
\* place.
THEOREM VerdictIsTrueHolds == Spec => []VerdictIsTrue
<1>1. FileInv => VerdictIsTrue
  BY DEF FileInv
<1> QED
  BY <1>1, FileInvariant, PTL

\* A run without --force replaces no result that was there when it started.
THEOREM EarlierResultSurvivesHolds == Spec => EarlierResultSurvives
<1>1. ASSUME FileInv, [Next]_vars, NEW w \in Writers \ forced, w \in placed' \ placed
      PROVE  before[w] = NoFile
  <2>1. CASE Replace(w)
    BY <1>1, <2>1 DEF FileInv, SeenStays, Replace
  <2>2. ASSUME NEW v \in Writers, WriterStep(v), ~ Replace(w) PROVE FALSE
    BY <1>1, <2>2 DEF WriterStep, Check, Create, CreateFails, Write, Sync, Replace, StepFails,
                      CleanUp, CleanUpFails, Emit, History
  <2>3. CASE ~ \E v \in Writers : WriterStep(v)
    BY <1>1, <2>3 DEF Next, Begin, Reject, Kill, Stat, Read, ReadFails, Verify, DirectorySynced, PowerLoss, History,
                      vars
  <2> QED
    BY <2>1, <2>2, <2>3
<1>2. FileInv /\ [Next]_vars =>
        [\A w \in Writers \ forced : w \in placed' \ placed => before[w] = NoFile]_vars
  BY <1>1
<1> QED
  BY <1>2, FileInvariant, PTL DEF Spec, EarlierResultSurvives
=============================================================================
