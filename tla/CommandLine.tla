---------------------------- MODULE CommandLine ----------------------------
(***************************************************************************)
(* The run and replay commands (cli.py) as processes that share one result *)
(* file, one system call at a time.  A writer computes its result and puts *)
(* it in place through a temporary file; a reader opens what is there.     *)
(*                                                                         *)
(* Faults: any system call of a writer fails, any process is killed or     *)
(* interrupted (neither runs the except clause), and the power goes.  Of   *)
(* the file system the model has what the code relies on: a rename is      *)
(* atomic, a file that was fsynced keeps its content, and what a directory *)
(* lists after a loss of power is any state it was in since it last went   *)
(* to disk.                                                                *)
(***************************************************************************)
EXTENDS Integers

CONSTANTS
  Writers,    \* the processes of dc-twin run --output target
  Readers,    \* the processes of dc-twin replay ... target
  forced,     \* the writers with --force
  Results,    \* what a simulation can compute
  result_of,  \* result_of[p]: what the inputs of p compute
  oversized   \* the results whose file is longer than a replay reads

ASSUME ProcessAssumption ==
  /\ forced \subseteq Writers
  /\ Writers \cap Readers = {}
  /\ result_of \in [Writers \cup Readers -> Results]
  /\ oversized \subseteq Results

Processes == Writers \cup Readers

VARIABLES
  target,     \* the file under the target name
  listed,     \* the files that the directory on disk may list under that name
  temporary,  \* temporary[w]: the temporary file of w
  seen,       \* seen[r]: what r has read of the target
  pc,         \* pc[p]: the next system call of p
  exit        \* exit[p]: its exit code, -1 before

\* History: what was there when each unforced writer started, and who replaced the target.
VARIABLES before, placed

vars == <<target, listed, temporary, seen, pc, exit, before, placed>>

File    == [result : Results, whole : BOOLEAN, synced : BOOLEAN]
NoFile  == [result |-> "none", whole |-> FALSE, synced |-> FALSE]
Ended   == {"exited", "littered", "killed"}

Init ==
  /\ target = NoFile
  /\ listed = {NoFile}
  /\ temporary = [w \in Writers |-> NoFile]
  /\ seen = [r \in Readers |-> NoFile]
  /\ pc = [p \in Processes |-> "start"]
  /\ exit = [p \in Processes |-> -1]
  /\ before = [w \in Writers \ forced |-> NoFile]
  /\ placed = {}

Goto(p, label) == pc' = [pc EXCEPT ![p] = label] /\ exit' = exit

Exit(p, code) == pc' = [pc EXCEPT ![p] = "exited"] /\ exit' = [exit EXCEPT ![p] = code]

\* main prints the error and returns its code.  What neither except clause of main catches
\* (of stderr, when nobody reads the error, too) is 1, and a stream that Python cannot
\* flush as it exits is 120.
Fails(p, code) == \E c \in {code, 1, 120} : Exit(p, c)

Files == <<target, listed, temporary, seen>>
History == <<before, placed>>

-----------------------------------------------------------------------------
\* The inputs are read and parsed, and a writer simulates.
Begin(p) ==
  /\ pc[p] = "start"
  /\ Goto(p, IF p \in Writers THEN "check" ELSE "stat")
  /\ before' = [w \in Writers \ forced |-> IF w = p THEN target ELSE before[w]]
  /\ UNCHANGED <<Files, placed>>

\* The error of an input or of the simulation; 4 when reading fails after stat.
Reject(p) ==
  /\ pc[p] = "start"
  /\ \E code \in 1 .. 4 : Fails(p, code)
  /\ UNCHANGED <<Files, History>>

\* Mutant: the target is not looked at.
RefuseNever(w) == FALSE

\* The check of _atomic_write_json, which nothing repeats at the rename.
Refuse(w) == w \notin forced /\ target # NoFile

Check(w) ==
  /\ pc[w] = "check"
  /\ IF Refuse(w) THEN Fails(w, 2) ELSE Goto(w, "create")
  /\ UNCHANGED <<Files, History>>

\* mkdir and NamedTemporaryFile
Create(w) ==
  /\ pc[w] = "create"
  /\ temporary' = [temporary EXCEPT ![w] =
                     [result |-> result_of[w], whole |-> FALSE, synced |-> FALSE]]
  /\ Goto(w, "write")
  /\ UNCHANGED <<target, listed, seen, History>>

\* resolve or exists, mkdir or NamedTemporaryFile fails.
CreateFails(w) ==
  /\ pc[w] \in {"check", "create"}
  /\ Fails(w, 4)
  /\ UNCHANGED <<Files, History>>

\* Mutant: no fsync.
WriteOnly(w) ==
  /\ pc[w] = "write"
  /\ temporary' = [temporary EXCEPT ![w].whole = TRUE]
  /\ Goto(w, "replace")
  /\ UNCHANGED <<target, listed, seen, History>>

\* json.dump, the newline and flush
Write(w) ==
  /\ pc[w] = "write"
  /\ temporary' = [temporary EXCEPT ![w].whole = TRUE]
  /\ Goto(w, "sync")
  /\ UNCHANGED <<target, listed, seen, History>>

Sync(w) ==
  /\ pc[w] = "sync"
  /\ temporary' = [temporary EXCEPT ![w].synced = TRUE]
  /\ Goto(w, "replace")
  /\ UNCHANGED <<target, listed, seen, History>>

\* Mutant: the old result is removed first.
ReplaceByHand(w) ==
  /\ pc[w] = "replace"
  /\ IF target # NoFile
     THEN /\ target' = NoFile
          /\ UNCHANGED <<temporary, pc, exit, placed>>
     ELSE /\ target' = temporary[w]
          /\ temporary' = [temporary EXCEPT ![w] = NoFile]
          /\ placed' = placed \cup {w}
          /\ Goto(w, "emit")
  /\ listed' = listed \cup {target'}
  /\ UNCHANGED <<seen, before>>

Replace(w) ==
  /\ pc[w] = "replace"
  /\ target' = temporary[w]
  /\ listed' = listed \cup {target'}
  /\ temporary' = [temporary EXCEPT ![w] = NoFile]
  /\ placed' = placed \cup {w}
  /\ Goto(w, "emit")
  /\ UNCHANGED <<seen, before>>

StepFails(w) ==
  /\ pc[w] \in {"write", "sync", "replace"}
  /\ Goto(w, "cleanup")
  /\ UNCHANGED <<Files, History>>

\* Mutant: the except clause swallows the error.
CleanUpQuietly(w) ==
  /\ pc[w] = "cleanup"
  /\ temporary' = [temporary EXCEPT ![w] = NoFile]
  /\ Goto(w, "emit")
  /\ UNCHANGED <<target, listed, seen, History>>

\* The except clause, and main.
CleanUp(w) ==
  /\ pc[w] = "cleanup"
  /\ temporary' = [temporary EXCEPT ![w] = NoFile]
  /\ Fails(w, 4)
  /\ UNCHANGED <<target, listed, seen, History>>

\* unlink fails too.
CleanUpFails(w) ==
  /\ pc[w] = "cleanup"
  /\ pc' = [pc EXCEPT ![w] = "littered"]
  /\ \E code \in {1, 4, 120} : exit' = [exit EXCEPT ![w] = code]
  /\ UNCHANGED <<Files, History>>

\* The line on stdout.  It fails when its encoding has no such path (1: no OSError), when
\* the operating system refuses it (4), or as Python exits (120).
Emit(w) ==
  /\ pc[w] = "emit"
  /\ Exit(w, 0) \/ Fails(w, 4)
  /\ UNCHANGED <<Files, History>>

-----------------------------------------------------------------------------
TooLarge(f) == f.whole /\ f.result \in oversized

\* load_path_strict: stat, which may fail, and the length
Stat(r) ==
  /\ pc[r] = "stat"
  /\ \/ Fails(r, 2)
     \/ target # NoFile /\ ~ TooLarge(target) /\ Goto(r, "read")
  /\ UNCHANGED <<Files, History>>

Readable(f) == f.whole /\ ~ TooLarge(f)

\* Open and read what is under the name now, decode it, and look for its hash.
Read(r) ==
  /\ pc[r] = "read"
  /\ target # NoFile /\ Readable(target)
  /\ seen' = [seen EXCEPT ![r] = target]
  /\ Goto(r, "verify")
  /\ UNCHANGED <<target, listed, temporary, History>>

\* The system call fails (4), or what it reads is no result or too long a one (2).
ReadFails(r) ==
  /\ pc[r] = "read"
  /\ Fails(r, 4) \/ (target # NoFile /\ ~ Readable(target) /\ Fails(r, 2))
  /\ UNCHANGED <<Files, History>>

\* verify_replay simulates and may raise (1 to 3); the line on stdout may fail as that of
\* a writer does, before the verdict is returned.
Verify(r) ==
  /\ pc[r] = "verify"
  /\ \/ Exit(r, IF seen[r].result = result_of[r] THEN 0 ELSE 5)
     \/ \E code \in 1 .. 4 : Fails(r, code)
  /\ UNCHANGED <<Files, History>>

-----------------------------------------------------------------------------
\* A signal, or an interrupt from the keyboard: not an Exception.
Kill(p) ==
  /\ pc[p] \notin Ended \cup {"start"}
  /\ Goto(p, "killed")
  /\ UNCHANGED <<Files, exit, History>>

DirectorySynced ==
  /\ listed' = {target}
  /\ UNCHANGED <<target, temporary, seen, pc, exit, History>>

AfterLoss(f) == IF f.synced \/ f = NoFile THEN {f} ELSE {f, [f EXCEPT !.whole = FALSE]}

\* Temporary files that survive are never opened again.
PowerLoss ==
  /\ \E f \in listed : target' \in AfterLoss(f)
  /\ listed' = {target'}
  /\ pc' = [p \in Processes |-> IF pc[p] \in Ended \cup {"start"} THEN pc[p] ELSE "killed"]
  /\ UNCHANGED <<temporary, seen, exit, History>>

WriterStep(w) ==
  \/ Check(w) \/ Create(w) \/ CreateFails(w) \/ Write(w) \/ Sync(w) \/ Replace(w)
  \/ StepFails(w) \/ CleanUp(w) \/ CleanUpFails(w) \/ Emit(w)

Next ==
  \/ \E p \in Processes : Begin(p) \/ Reject(p) \/ Kill(p)
  \/ \E w \in Writers : WriterStep(w)
  \/ \E r \in Readers : Stat(r) \/ Read(r) \/ ReadFails(r) \/ Verify(r)
  \/ DirectorySynced
  \/ PowerLoss

Spec == Init /\ [][Next]_vars

-----------------------------------------------------------------------------
\* The type of every variable.
TypeOK ==
  /\ target \in File \cup {NoFile}
  /\ listed \subseteq File \cup {NoFile}
  /\ temporary \in [Writers -> File \cup {NoFile}]
  /\ seen \in [Readers -> File \cup {NoFile}]
  /\ pc \in [Processes -> {"start", "check", "create", "write", "sync", "replace",
                           "cleanup", "emit", "stat", "read", "verify"} \cup Ended]
  /\ exit \in [Processes -> (-1 .. 5) \cup {120}]
  /\ before \in [Writers \ forced -> File \cup {NoFile}]
  /\ placed \subseteq Writers

\* Whatever is killed and whenever the power goes, the target holds no result or a whole
\* one, and so it will after the next loss of power.
TargetIsWhole ==
  \A f \in listed \cup {target} : f # NoFile => f.whole /\ f.synced

\* A replay that has found a file never finds it gone or broken when it opens it, however
\* many writers replace it meanwhile, and the verdict it ends with, 0 or 5, is about the
\* result of a writer that put it in place: it never comes from what a killed writer, a
\* failed one or a loss of power left of a result.
VerdictIsTrue ==
  \A r \in Readers :
    /\ pc[r] = "read" => target # NoFile /\ target.whole
    /\ exit[r] = 0 => \E w \in placed : result_of[w] = result_of[r]
    /\ exit[r] = 5 => \E w \in placed : result_of[w] # result_of[r]

\* Exit code 0 means that the result of the process was put in place; 2 and 3 that it was
\* not.  1, 4 and 120 leave it open: the success line may fail after the rename.
ExitCodeIsTrue ==
  \A w \in Writers : /\ exit[w] = 0 => w \in placed
                     /\ exit[w] \in {2, 3} => w \notin placed

\* A temporary file is left behind only by a process that was killed or could not unlink.
LitterIsExplained == \A w \in Writers : pc[w] = "exited" => temporary[w] = NoFile

\* What is left after a process is told by how it ended.
OutcomeIsTrue == TypeOK /\ ExitCodeIsTrue /\ LitterIsExplained

\* A run without --force never replaces a result that was there when it started: it
\* takes a second process in between to lose one that way.  (A run with --force replaces
\* what it finds; that is what it is for.)
EarlierResultSurvives ==
  [][\A w \in Writers \ forced : w \in placed' \ placed => before[w] = NoFile]_vars
=============================================================================
