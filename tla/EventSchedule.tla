--------------------------- MODULE EventSchedule ----------------------------
(***************************************************************************)
(* What a run promises of time and events, whatever the site is: a clock   *)
(* that only moves forward and never past an event or the horizon, every   *)
(* event applied once, in order and at its own time, and a result only     *)
(* when the clock is at the horizon and no event is left.                  *)
(***************************************************************************)
EXTENDS Integers, Sequences

VARIABLES scenario, clock, applied, verdict

vars == <<scenario, clock, applied, verdict>>

Pending  == applied < Len(scenario.events)
NextTime == scenario.events[applied + 1].time_ms
Limit    == IF Pending THEN NextTime ELSE scenario.horizon_ms

\* Events in the order of their times, none after the horizon.
Init ==
  /\ scenario.horizon_ms \in Nat \ {0}
  /\ \A i, j \in DOMAIN scenario.events :
       /\ scenario.events[i].time_ms \in 0 .. scenario.horizon_ms
       /\ i < j => scenario.events[i].time_ms <= scenario.events[j].time_ms
  /\ clock = 0
  /\ applied = 0
  /\ verdict = "running"

Apply ==
  /\ verdict = "running"
  /\ Pending
  /\ NextTime = clock
  /\ applied' = applied + 1
  /\ verdict' \in {"running", "failed"}
  /\ UNCHANGED <<scenario, clock>>

Advance ==
  /\ verdict = "running"
  /\ clock' \in clock + 1 .. Limit
  /\ verdict' \in {"running", "failed"}
  /\ UNCHANGED <<scenario, applied>>

Complete ==
  /\ verdict = "running"
  /\ ~ Pending
  /\ clock = scenario.horizon_ms
  /\ verdict' = "completed"
  /\ UNCHANGED <<scenario, clock, applied>>

\* A run may fail at any time, with nothing to show.
Abandon ==
  /\ verdict = "running"
  /\ verdict' = "failed"
  /\ UNCHANGED <<scenario, clock, applied>>

Next == Apply \/ Advance \/ Complete \/ Abandon

Spec == Init /\ [][Next]_vars
=============================================================================
