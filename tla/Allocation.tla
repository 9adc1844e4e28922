----------------------------- MODULE Allocation -----------------------------
(***************************************************************************)
(* _allocate and solve_capacity (capacity.py), one load at a time: the     *)
(* loop over the stages and, inside it, over the loads, from a runtime     *)
(* state to the summary that is returned.                                  *)
(***************************************************************************)
EXTENDS Capacity

CONSTANT States  \* the runtime states under study

ASSUME StatesAssumption == \A state \in States : state \in RuntimeState /\ Charged(state)

VARIABLES
  s,        \* the runtime state, which solve_capacity only reads
  stage,    \* 1 live, 2 stored, 3 allocated, 4 summarized
  waiting,  \* the loads that the stage has not offered its sources to yet
  used,
  summary

vars == <<s, stage, waiting, used, summary>>

NoSummary == [redundancy_state |-> "none"]

Live      == NonBatterySources(s)
Batteries == BatterySources(s)

\* Mutant: one stage with every source.
OfferedAtOnce == Live \cup Batteries

Offered == IF stage = 1 THEN Live ELSE StoredStage(Live, Batteries)

Init ==
  /\ s \in States
  /\ stage = 1
  /\ waiting = ServiceOrder
  /\ used = NothingUsed
  /\ summary = NoSummary

AtLoad == stage \in {1, 2} /\ Offered # {} /\ waiting # << >>

ServeLoad ==
  /\ AtLoad
  /\ NeedsPower(s, used, Head(waiting))
  /\ used' = Offer(Network(s), Offered, used, Head(waiting))
  /\ waiting' = Tail(waiting)
  /\ UNCHANGED <<s, stage, summary>>

\* A load that is satisfied or not available is passed over.
PassOver ==
  /\ AtLoad
  /\ ~ NeedsPower(s, used, Head(waiting))
  /\ waiting' = Tail(waiting)
  /\ UNCHANGED <<s, stage, used, summary>>

\* A stage without a source is not run.
NextStage ==
  /\ stage \in {1, 2}
  /\ Offered = {} \/ waiting = << >>
  /\ stage' = stage + 1
  /\ waiting' = ServiceOrder
  /\ UNCHANGED <<s, used, summary>>

Publish ==
  /\ stage = 3
  /\ stage' = 4
  /\ summary' = Summarize(Network(s), Live, Batteries, used, Total(s.demand_w), Total(used.load))
  /\ UNCHANGED <<s, waiting, used>>

Returned == stage = 4 /\ UNCHANGED vars

Next == ServeLoad \/ PassOver \/ NextStage \/ Publish \/ Returned

Spec == Init /\ [][Next]_vars
=============================================================================
