------------------------------ MODULE RunStore ------------------------------
(***************************************************************************)
(* What a durable run store promises its callers: a run that is kept stays *)
(* kept, a caller is told "saved" only when its run is kept, and nothing is *)
(* kept that nobody is saving.                                             *)
(***************************************************************************)
CONSTANTS Workers, Runs

VARIABLES
  kept,    \* the runs that the store can give back
  target,  \* target[w]: the run that w saves, or saved last
  answer   \* answer[w]: "saving" during a call, then what the caller was told

vars == <<kept, target, answer>>

Init ==
  /\ kept = {}
  /\ target \in [Workers -> Runs]
  /\ answer = [w \in Workers |-> "none"]

Call(w) ==
  /\ answer[w] # "saving"
  /\ answer' = [answer EXCEPT ![w] = "saving"]
  /\ \E r \in Runs : target' = [target EXCEPT ![w] = r]
  /\ UNCHANGED kept

\* The run of a call that failed may be kept nevertheless.
Answer(w) ==
  /\ answer[w] = "saving"
  /\ kept' \in {kept, kept \cup {target[w]}}
  /\ \E a \in {"saved", "failed"} :
       /\ a = "saved" => target[w] \in kept'
       /\ answer' = [answer EXCEPT ![w] = a]
  /\ UNCHANGED target

Next == \E w \in Workers : Call(w) \/ Answer(w)

Spec == Init /\ [][Next]_vars
=============================================================================
