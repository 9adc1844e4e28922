----------------------------- MODULE RunProofs ------------------------------
(***************************************************************************)
(* Theorems about what a run reports, for every site and every set of      *)
(* accepted scenarios: which events it may leave, whose allocation a       *)
(* segment is charged with, its alarms, its timeline, the energy of its    *)
(* batteries, its figures and the estimate that bounds it.                 *)
(***************************************************************************)
EXTENDS EngineProofs

-----------------------------------------------------------------------------
(* Events at the horizon.                                                  *)

\* An event is left at the end of the loop only by a milestone at the horizon.
HorizonInv ==
  /\ pc = "group" => \A i \in group.end + 1 .. Len(scenario.events) :
                       scenario.events[i].time_ms # current_time
  /\ pc = "milestone" => milestone.time_ms = current_time
  /\ pc = "loop" /\ current_time = scenario.horizon_ms /\ event_index < Len(scenario.events) =>
       milestone.time_ms = scenario.horizon_ms
  /\ UnconsumedOnlyAtHorizon

\* An event that is left at the horizon is due there.
LEMMA LeftAtHorizon ==
  ASSUME NEW s \in Scenarios, NEW n \in 0 .. Len(s.events), n < Len(s.events),
         s.horizon_ms <= s.events[n + 1].time_ms
  PROVE  s.events[n + 1].time_ms = s.horizon_ms
<1>1. n + 1 \in 1 .. Len(s.events)
  BY ScenarioFacts
<1>2. s.events[n + 1].time_ms \in 0 .. s.horizon_ms /\ s.horizon_ms \in Nat
  BY <1>1, ScenarioFacts
<1> QED
  BY <1>2

\* Every step keeps HorizonInv.
LEMMA NextHorizonInv ==
  ASSUME SafetyInv, SafetyInv', HorizonInv, [Next]_vars PROVE HorizonInv'
<1> DEFINE events == scenario.events
           Left == event_index < Len(events)
<1>0. /\ Ahead /\ Len(events) \in Nat /\ event_index \in Nat /\ event_index <= Len(events)
      /\ current_time \in Nat /\ scenario.horizon_ms \in Nat
      /\ current_time <= scenario.horizon_ms
      /\ outcome = "engine.unconsumed_events" => pc = "stopped"
  BY ScenarioFacts DEF SafetyInv, Ahead, EngineTypes
<1>1. CASE BeginGroup
  <2> DEFINE due == {i \in DOMAIN events : events[i].time_ms = current_time}
  <2>1. /\ pc = "due" /\ pc' = "group"
        /\ group'.end = Max(due) /\ EventDue
        /\ UNCHANGED <<scenario, outcome, current_time, event_index, milestone>>
    BY <1>1 DEF BeginGroup
  <2>2. due \in SUBSET (1 .. Len(events)) /\ due # {}
    BY <2>1, <1>0, ScenarioFacts DEF EventDue, Ahead
  <2>3. Max(due) \in due /\ \A i \in due : i <= Max(due)
    <3> HIDE DEF due
    <3> QED
      BY <1>0, <2>2, MaxOfPositions
  <2>4. ASSUME NEW i \in group'.end + 1 .. Len(events), events[i].time_ms = current_time
        PROVE  FALSE
    <3> DEFINE last == Max(due)
    <3>1. last \in 1 .. Len(events) /\ group'.end = last
      BY <2>1, <2>2, <2>3
    <3>2. i \in 1 .. Len(events) /\ last < i
      <4> HIDE DEF last
      <4> QED
        BY <1>0, <3>1
    <3>3. i \in due
      BY <1>0, <2>4, <3>2, ScenarioFacts DEF Ahead
    <3>4. i <= last
      BY <2>3, <3>3
    <3> HIDE DEF last
    <3> QED
      BY <3>1, <3>2, <3>4
  <2> QED
    BY <1>0, <2>1, <2>4 DEF HorizonInv, UnconsumedOnlyAtHorizon
<1>2. CASE NothingDue
  <2>1. /\ pc = "due" /\ pc' = "loop" /\ ~ EventDue
        /\ UNCHANGED <<scenario, outcome, current_time, event_index, milestone>>
    BY <1>2 DEF NothingDue
  <2>2. current_time = scenario.horizon_ms /\ Left => FALSE
    BY <1>0, <2>1, LeftAtHorizon DEF EventDue, Ahead
  <2> QED
    BY <1>0, <2>1, <2>2 DEF HorizonInv, UnconsumedOnlyAtHorizon
<1>3. CASE ProcessExternal
  <2>1. /\ pc = "group"
        /\ event_index' = event_index + 1
        /\ Continue(IF LastOfGroup THEN "loop" ELSE "group", outcome')
        /\ outcome' # "engine.unconsumed_events"
        /\ UNCHANGED <<scenario, current_time, group, milestone>>
    BY <1>3 DEF ProcessExternal, Continue, Fault
  <2>2. CASE LastOfGroup
    <3>1. event_index' = group.end /\ pc' \in {"loop", "stopped"}
      BY <2>1, <2>2 DEF LastOfGroup, Continue
    <3>2. ASSUME pc' = "loop", current_time' = scenario.horizon_ms, event_index' < Len(events)
          PROVE  FALSE
      <4>1. events[event_index' + 1].time_ms = scenario.horizon_ms
        BY <2>1, <3>2, LeftAtHorizon DEF SafetyInv, Ahead, EngineTypes
      <4>2. event_index' + 1 \in group.end + 1 .. Len(events)
        BY <1>0, <2>1, <3>1, <3>2
      <4> QED
        BY <2>1, <3>2, <4>1, <4>2 DEF HorizonInv
    <3> QED
      BY <2>1, <3>1, <3>2 DEF HorizonInv, UnconsumedOnlyAtHorizon
  <2>3. CASE ~ LastOfGroup
    <3>1. pc' \in {"group", "stopped"}
      BY <2>1, <2>3 DEF Continue
    <3> QED
      BY <2>1, <3>1 DEF HorizonInv, UnconsumedOnlyAtHorizon
  <2> QED
    BY <2>2, <2>3
<1>4. CASE RejectParallelSources \/ RejectInexactMilestone
  BY <1>4 DEF RejectParallelSources, RejectInexactMilestone, HorizonInv, UnconsumedOnlyAtHorizon
<1>5. CASE RunSegment
  <2>1. /\ milestone' = next_battery_milestone
        /\ UNCHANGED <<scenario, event_index>>
        /\ pc' = "milestone" => milestone'.time_ms = current_time'
        /\ pc' \in {"milestone", "due", "stopped"}
        /\ outcome' # "engine.unconsumed_events"
    BY <1>5 DEF RunSegment, Continue
  <2> QED
    BY <2>1 DEF HorizonInv, UnconsumedOnlyAtHorizon
<1>6. CASE NoTimePasses
  <2>1. /\ pc = "loop" /\ UNCHANGED <<scenario, event_index, current_time, outcome>>
        /\ pc' = "milestone" => milestone'.time_ms = current_time'
        /\ pc' \in {"milestone", "due"}
    BY <1>6 DEF NoTimePasses, AtLoopHead
  <2> QED
    BY <1>0, <2>1 DEF HorizonInv, UnconsumedOnlyAtHorizon
<1>7. CASE ProcessInternal
  <2>1. /\ pc = "milestone"
        /\ UNCHANGED <<scenario, event_index, current_time, milestone>>
        /\ outcome' # "engine.unconsumed_events"
        /\ pc' \in {"loop", "stopped"}
    BY <1>7 DEF ProcessInternal, Continue, Fault
  <2> QED
    BY <2>1 DEF HorizonInv, UnconsumedOnlyAtHorizon
<1>8. CASE Finish
  <2>1. /\ pc = "loop" /\ pc' = "stopped" /\ current_time >= scenario.horizon_ms
        /\ UNCHANGED <<scenario, event_index, current_time, milestone>>
        /\ outcome' = "engine.unconsumed_events" => event_index # Len(events)
    BY <1>8 DEF Finish
  <2>2. ASSUME outcome' = "engine.unconsumed_events"
        PROVE  /\ events[event_index + 1].time_ms = scenario.horizon_ms
               /\ milestone.time_ms = scenario.horizon_ms
    <3>1. Left /\ current_time = scenario.horizon_ms
      BY <1>0, <2>1, <2>2
    <3> QED
      BY <1>0, <2>1, <3>1, LeftAtHorizon DEF HorizonInv, Ahead
  <2> QED
    BY <2>1, <2>2 DEF HorizonInv, UnconsumedOnlyAtHorizon
<1>9. CASE Stopped \/ UNCHANGED vars
  BY <1>9 DEF Stopped, vars, HorizonInv, UnconsumedOnlyAtHorizon
<1> QED
  BY <1>1, <1>2, <1>3, <1>4, <1>5, <1>6, <1>7, <1>8, <1>9 DEF Next

\* simulate raises engine.unconsumed_events for no other reason than an event at the
\* horizon, where a battery milestone ended the last segment.
THEOREM UnconsumedOnlyAtHorizonHolds ==
  Spec => []UnconsumedOnlyAtHorizon
<1>1. Init => HorizonInv
  <2> SUFFICES ASSUME Init PROVE HorizonInv
    OBVIOUS
  <2>1. pc = "due" /\ outcome = "running"
    BY InitiallyRunning
  <2> QED
    BY <2>1 DEF HorizonInv, UnconsumedOnlyAtHorizon
<1>2. SafetyInv /\ SafetyInv' /\ HorizonInv /\ [Next]_vars => HorizonInv'
  BY NextHorizonInv
<1>3. HorizonInv => UnconsumedOnlyAtHorizon
  BY DEF HorizonInv
<1> QED
  BY <1>1, <1>2, <1>3, SafetyInvariant, PTL DEF Spec

-----------------------------------------------------------------------------
(* The allocation that a segment is charged with.                          *)

\* The allocation does not depend on how much energy a battery has, only on whether
\* it has any.
LEMMA AllocationReads ==
  ASSUME NEW s \in RuntimeState, NEW t \in RuntimeState,
         s.component_status = t.component_status,
         s.connection_closed = t.connection_closed,
         s.generator_running = t.generator_running,
         s.demand_w = t.demand_w,
         \A u \in Upses : s.battery_energy_mj[u] > 0 <=> t.battery_energy_mj[u] > 0
  PROVE  solve_capacity(s) = solve_capacity(t)
<1> DEFINE of(n, live, batteries, used) ==
             Summarize(n, live, batteries, used, Total(n.demand_w), Total(used.load))
           solve(n, live, batteries) == of(n, live, batteries, allocate(n, live, batteries))
<1>1. /\ solve_capacity(s) = solve(Network(s), NonBatterySources(s), BatterySources(s))
      /\ solve_capacity(t) = solve(Network(t), NonBatterySources(t), BatterySources(t))
  BY DEF solve_capacity
<1>2. Network(s) = Network(t)
  BY DEF Network
<1>3. \A c \in Components : IsAvailable(s, c) <=> IsAvailable(t, c)
  BY DEF IsAvailable
<1>4. NonBatterySources(s) = NonBatterySources(t)
  BY <1>3, ComponentFacts DEF NonBatterySources, Utilities, OfKind, RuntimeState
<1>5. BatterySources(s) = BatterySources(t)
  BY <1>2, <1>3, <1>4, ComponentFacts DEF BatterySources
<1> HIDE DEF solve
<1> QED
  BY <1>1, <1>2, <1>4, <1>5

\* A segment that ends before the milestone empties no battery.
LEMMA DrainLeaves ==
  ASSUME Ahead, current_time < scenario.horizon_ms, ExactMilestones,
         NEW m, m = next_battery_milestone, m.time_ms # next_boundary(m),
         NEW left, left = integrate_batteries(next_boundary(m) - current_time),
         NEW u \in Upses
  PROVE  left.battery_energy_mj[u] > 0 <=> state.battery_energy_mj[u] > 0
<1> DEFINE duration == next_boundary(m) - current_time
           power  == summary.source_power_w[u]
           energy == state.battery_energy_mj[u]
<1>1. /\ current_time \in Nat /\ duration \in Nat /\ next_boundary(m) \in Nat
      /\ energy \in Nat /\ power \in Nat
  <2>1. current_time \in Nat /\ scenario.horizon_ms \in Nat
    BY ScenarioFacts DEF Ahead, EngineTypes
  <2>2. next_boundary(m) \in current_time .. scenario.horizon_ms
    BY BoundaryFacts
  <2>3. u \in Components /\ component[u].usable_energy_mj \in Nat
    BY ComponentFacts DEF Component
  <2>4. energy \in Nat /\ power \in Nat
    BY <2>3 DEF Ahead, EngineTypes, Charged, Summary
  <2> HIDE DEF energy, power
  <2> QED
    BY <2>1, <2>2, <2>4
<1>2. left.battery_energy_mj[u] =
        IF u \in summary.battery_source_ids THEN energy - power * duration ELSE energy
  BY DEF integrate_batteries, Ahead, EngineTypes, RuntimeState
<1>3. CASE u \in Discharging
  <2> DEFINE time == Candidate(u).time_ms
  <2>1. /\ power \in Nat \ {0} /\ time \in Nat
        /\ (time - current_time) * power <= EnergyToMilestone(u)
        /\ EnergyToMilestone(u) \in 0 .. energy
    BY <1>3, CandidateFacts DEF Ahead
  <2>2. next_boundary(m) < time
    <3>1. m # NoMilestone /\ m.time_ms <= time
      BY <1>3, BoundaryFacts, MilestoneFacts DEF Ahead
    <3>2. next_boundary(m) <= m.time_ms /\ m \in MilestoneType
      BY <3>1, BoundaryFacts
    <3> QED
      BY <1>1, <2>1, <3>1, <3>2 DEF MilestoneType
  <2> HIDE DEF power, time, energy
  <2>3. duration + 1 <= time - current_time /\ time - current_time \in Nat
    BY <1>1, <2>1, <2>2
  <2> HIDE DEF duration
  <2>4. power * (duration + 1) <= (time - current_time) * power
    BY <1>1, <2>1, <2>3, ProductGrows
  <2>5. power * duration \in Nat /\ power * (duration + 1) = power * duration + power
    BY <1>1
  <2>6. (time - current_time) * power \in Int
    BY <1>1, <2>3
  <2> DEFINE drained == power * duration
             needed  == (time - current_time) * power
  <2>7. drained \in Nat /\ drained + power <= needed /\ needed <= energy /\ needed \in Int
    BY <1>1, <2>1, <2>4, <2>5, <2>6
  <2>8. left.battery_energy_mj[u] = energy - drained
    BY <1>2, <1>3 DEF Discharging, power, energy, duration
  <2> HIDE DEF drained, needed
  <2>9. energy - drained > 0 /\ energy > 0
    BY <1>1, <2>1, <2>7
  <2> QED
    BY <2>8, <2>9 DEF energy
<1>4. CASE u \notin Discharging
  <2>1. u \in summary.battery_source_ids => power = 0
    BY <1>1, <1>4 DEF Discharging
  <2>2. 0 * duration = 0
    BY <1>1
  <2> QED
    BY <1>1, <1>2, <2>1, <2>2
<1> QED
  BY <1>3, <1>4

\* Between the steps that change what it reads, the allocation is that of the state.
CurrentInv == pc \in {"due", "group", "loop"} => summary = solve_capacity(state)

\* Every step keeps CurrentInv.
LEMMA NextCurrentInv ==
  ASSUME SafetyInv, SafetyInv', CurrentInv, [Next]_vars PROVE CurrentInv'
<1>1. CASE RunSegment
  <2> DEFINE m == next_battery_milestone
             left == integrate_batteries(next_boundary(m) - current_time)
  <2>1. /\ pc = "loop" /\ current_time < scenario.horizon_ms /\ ExactMilestones
        /\ state' = left /\ UNCHANGED summary
        /\ pc' \in {"due", "milestone", "stopped"}
        /\ pc' = "due" => m.time_ms # next_boundary(m)
    BY <1>1 DEF RunSegment, AtLoopHead, Continue
  <2>2. ASSUME pc' = "due" PROVE solve_capacity(state) = solve_capacity(left)
    <3>1. /\ state \in RuntimeState /\ left \in RuntimeState
      BY <2>1 DEF SafetyInv, Ahead, EngineTypes
    <3>2. /\ state.component_status = left.component_status
          /\ state.connection_closed = left.connection_closed
          /\ state.generator_running = left.generator_running
          /\ state.demand_w = left.demand_w
      BY <3>1 DEF integrate_batteries, RuntimeState
    <3>3. \A u \in Upses : state.battery_energy_mj[u] > 0 <=> left.battery_energy_mj[u] > 0
      BY <2>1, <2>2, DrainLeaves DEF SafetyInv
    <3> HIDE DEF left
    <3> QED
      BY <3>1, <3>2, <3>3, AllocationReads
  <2> HIDE DEF left, m
  <2> QED
    BY <2>1, <2>2 DEF CurrentInv
<1>2. CASE ProcessExternal \/ ProcessInternal
  <2>1. summary' = solve_capacity(state')
    BY <1>2 DEF ProcessExternal, ProcessInternal
  <2> QED
    BY <2>1 DEF CurrentInv
<1>3. CASE ~ (RunSegment \/ ProcessExternal \/ ProcessInternal)
  <2>1. UNCHANGED <<state, summary>>
        /\ (pc' \in {"due", "group", "loop"} => pc \in {"due", "group", "loop"})
    BY <1>3 DEF Next, BeginGroup, NothingDue, RejectParallelSources,
       RejectInexactMilestone, NoTimePasses, AtLoopHead, Finish, Stopped, vars, run
  <2> QED
    BY <2>1 DEF CurrentInv
<1> QED
  BY <1>1, <1>2, <1>3

\* CurrentInv is an invariant.
LEMMA CurrentInvariant == Spec => []CurrentInv
<1>1. Init => CurrentInv
  BY DEF Init, CurrentInv
<1>2. SafetyInv /\ SafetyInv' /\ CurrentInv /\ [Next]_vars => CurrentInv'
  BY NextCurrentInv
<1> QED
  BY <1>1, <1>2, SafetyInvariant, PTL DEF Spec

\* No segment is charged with a stale allocation: batteries drain without the
\* allocation being solved again, and solving it would change nothing until the next
\* milestone or event.
THEOREM SummaryIsCurrentHolds == Spec => []SummaryIsCurrent
<1>1. CurrentInv => SummaryIsCurrent
  BY DEF CurrentInv, SummaryIsCurrent
<1> QED
  BY <1>1, CurrentInvariant, PTL

-----------------------------------------------------------------------------
(* The alarm ledger.                                                       *)

IsSeq(q) == \E S : q \in Seq(S)

\* What Append does, whatever the sequence holds.
LEMMA Appended ==
  ASSUME NEW q, IsSeq(q), NEW x
  PROVE  /\ IsSeq(Append(q, x))
         /\ Len(q) \in Nat /\ Len(Append(q, x)) = Len(q) + 1
         /\ DOMAIN q = 1 .. Len(q) /\ DOMAIN Append(q, x) = 1 .. Len(q) + 1
         /\ \A i \in 1 .. Len(q) : Append(q, x)[i] = q[i]
         /\ Append(q, x)[Len(q) + 1] = x
<1>1. PICK S : q \in Seq(S)
  BY DEF IsSeq
<1> DEFINE T == S \cup {x}
<1>2. q \in Seq(T)
  BY <1>1
<1>3. x \in T
  OBVIOUS
<1> HIDE DEF T
<1>4. Append(q, x) \in Seq(T)
  BY <1>2, <1>3
<1> QED
  BY <1>2, <1>3, <1>4 DEF IsSeq

\* The alarm of an active key is one of the list, and it is of that key.
LedgerOK(l) ==
  /\ l = [alarms |-> l.alarms, active |-> l.active]
  /\ IsSeq(l.alarms)
  /\ l.active = [key \in DOMAIN l.active |-> l.active[key]]
  /\ \A key \in DOMAIN l.active :
       /\ l.active[key] \in 1 .. Len(l.alarms)
       /\ l.alarms[l.active[key]].code = key[1]
       /\ l.alarms[l.active[key]].component_id = key[2]

AlarmOf(time, key, cause) ==
  [time_ms |-> time, code |-> key[1], component_id |-> key[2], causal_event_id |-> cause]

\* From l to m nothing changes but the key, and a new alarm is its own.
Touches(l, m, key, time, cause) ==
  /\ LedgerOK(m)
  /\ \A k : k # key => /\ IsActive(m, k) <=> IsActive(l, k)
                       /\ IsActive(l, k) => m.active[k] = l.active[k]
  /\ \A n \in 1 .. Len(l.alarms) : m.alarms[n] = l.alarms[n]
  /\ \/ /\ Len(m.alarms) = Len(l.alarms)
        /\ IsActive(m, key) => IsActive(l, key)
     \/ /\ Len(m.alarms) = Len(l.alarms) + 1
        /\ ~ IsActive(l, key) /\ IsActive(m, key)
        /\ m.active[key] = Len(m.alarms)
        /\ m.alarms[Len(m.alarms)] = AlarmOf(time, key, cause)

\* A ledger that does not change.
LEMMA SameLedger ==
  ASSUME NEW l, LedgerOK(l), NEW key, NEW time, NEW cause
  PROVE  Touches(l, l, key, time, cause)
BY DEF Touches

\* raise_alarm adds an alarm exactly if the key has none.
LEMMA RaiseFacts ==
  ASSUME NEW l, LedgerOK(l), NEW key, NEW time, NEW cause
  PROVE  /\ Touches(l, raise_alarm(l, time, key, cause), key, time, cause)
         /\ IsActive(raise_alarm(l, time, key, cause), key)
         /\ ~ IsActive(l, key) =>
              Len(raise_alarm(l, time, key, cause).alarms) = Len(l.alarms) + 1
<1>1. CASE IsActive(l, key)
  BY <1>1, SameLedger DEF raise_alarm
<1>2. CASE ~ IsActive(l, key)
  <2> DEFINE m == raise_alarm(l, time, key, cause)
             new == Len(l.alarms) + 1
             D == DOMAIN l.active
             a == AlarmOf(time, key, cause)
             active == [k \in D \cup {key} |-> IF k = key THEN new ELSE l.active[k]]
  <2>2. m = [alarms |-> Append(l.alarms, a), active |-> active]
    BY <1>2 DEF raise_alarm, AlarmOf
  <2>3. /\ IsSeq(m.alarms)
        /\ Len(l.alarms) \in Nat /\ Len(m.alarms) = new
        /\ \A i \in 1 .. Len(l.alarms) : m.alarms[i] = l.alarms[i]
        /\ m.alarms[new] = a
    BY <2>2, Appended DEF LedgerOK
  <2>4. /\ m.active = active /\ DOMAIN m.active = D \cup {key}
        /\ m.active[key] = new
        /\ \A k \in D : m.active[k] = l.active[k]
    BY <1>2, <2>2 DEF IsActive
  <2>5. m = [alarms |-> m.alarms, active |-> m.active]
        /\ m.active = [k \in DOMAIN m.active |-> m.active[k]]
    BY <2>2, <2>4
  <2> HIDE DEF m
  <2>6. ASSUME NEW k \in DOMAIN m.active
        PROVE  /\ m.active[k] \in 1 .. Len(m.alarms)
               /\ m.alarms[m.active[k]].code = k[1]
               /\ m.alarms[m.active[k]].component_id = k[2]
    <3>1. CASE k = key
      BY <2>3, <2>4, <3>1 DEF AlarmOf
    <3>2. CASE k # key
      BY <2>3, <2>4, <3>2 DEF LedgerOK
    <3> QED
      BY <3>1, <3>2
  <2>7. LedgerOK(m)
    BY <2>3, <2>5, <2>6 DEF LedgerOK
  <2> QED
    BY <1>2, <2>3, <2>4, <2>7 DEF Touches, IsActive, m
<1> QED
  BY <1>1, <1>2

\* clear removes the key and keeps the alarm.
LEMMA ClearFacts ==
  ASSUME NEW l, LedgerOK(l), NEW key, NEW time, NEW cause
  PROVE  /\ Touches(l, clear(l, key), key, time, cause)
         /\ ~ IsActive(clear(l, key), key)
         /\ clear(l, key).alarms = l.alarms
<1> DEFINE m == clear(l, key)
           D == DOMAIN l.active
<1>1. m = [alarms |-> l.alarms, active |-> [k \in D \ {key} |-> l.active[k]]]
  BY DEF clear, LedgerOK
<1>2. /\ m.alarms = l.alarms
      /\ DOMAIN m.active = D \ {key}
      /\ \A k \in D \ {key} : m.active[k] = l.active[k]
      /\ m = [alarms |-> m.alarms, active |-> m.active]
      /\ m.active = [k \in DOMAIN m.active |-> m.active[k]]
  BY <1>1
<1> HIDE DEF m
<1>3. LedgerOK(m)
  BY <1>2 DEF LedgerOK
<1> QED
  BY <1>2, <1>3 DEF Touches, IsActive, m

\* From l to m nothing is lost, and each new alarm is of the step and active under a
\* key that was not.
Grows(l, m, time, cause) ==
  /\ LedgerOK(m)
  /\ Len(l.alarms) \in Nat /\ Len(m.alarms) \in Nat
  /\ Len(l.alarms) <= Len(m.alarms)
  /\ \A n \in 1 .. Len(l.alarms) : m.alarms[n] = l.alarms[n]
  /\ \A n \in Len(l.alarms) + 1 .. Len(m.alarms) :
       /\ m.alarms[n].time_ms = time
       /\ m.alarms[n].causal_event_id = cause
       /\ \E k : IsActive(m, k) /\ ~ IsActive(l, k) /\ m.active[k] = n
  /\ \A k : IsActive(m, k) /\ ~ IsActive(l, k) =>
       m.active[k] \in Len(l.alarms) + 1 .. Len(m.alarms)

\* Two keys touched one after the other.
LEMMA TouchTwice ==
  ASSUME NEW l, LedgerOK(l), NEW a, NEW m, NEW key, NEW other, key # other,
         NEW time, NEW cause,
         Touches(l, a, key, time, cause), Touches(a, m, other, time, cause)
  PROVE  Grows(l, m, time, cause)
<1> DEFINE n0 == Len(l.alarms)
           n1 == Len(a.alarms)
           n2 == Len(m.alarms)
<1>1. n0 \in Nat /\ n1 \in Nat /\ n2 \in Nat
  BY Appended DEF Touches, LedgerOK
<1>2. /\ \A k : k # key => /\ IsActive(a, k) <=> IsActive(l, k)
                           /\ IsActive(l, k) => a.active[k] = l.active[k]
      /\ \A k : k # other => /\ IsActive(m, k) <=> IsActive(a, k)
                             /\ IsActive(a, k) => m.active[k] = a.active[k]
      /\ LedgerOK(m)
      /\ \A n \in 1 .. n0 : a.alarms[n] = l.alarms[n]
      /\ \A n \in 1 .. n1 : m.alarms[n] = a.alarms[n]
  BY DEF Touches
<1>3. \/ n1 = n0 /\ (IsActive(a, key) => IsActive(l, key))
      \/ /\ n1 = n0 + 1 /\ ~ IsActive(l, key) /\ IsActive(a, key) /\ a.active[key] = n1
         /\ a.alarms[n1] = AlarmOf(time, key, cause)
  BY DEF Touches
<1>4. \/ n2 = n1 /\ (IsActive(m, other) => IsActive(a, other))
      \/ /\ n2 = n1 + 1 /\ ~ IsActive(a, other) /\ IsActive(m, other) /\ m.active[other] = n2
         /\ m.alarms[n2] = AlarmOf(time, other, cause)
  BY DEF Touches
<1> HIDE DEF n0, n1, n2
<1>5. n0 <= n1 /\ n1 <= n2
  BY <1>1, <1>3, <1>4
<1>6. \A n \in 1 .. n0 : m.alarms[n] = l.alarms[n]
  BY <1>1, <1>2, <1>5
<1>7. ASSUME NEW n \in n0 + 1 .. n2
      PROVE  /\ m.alarms[n].time_ms = time
             /\ m.alarms[n].causal_event_id = cause
             /\ \E k : IsActive(m, k) /\ ~ IsActive(l, k) /\ m.active[k] = n
  <2>1. CASE n \in 1 .. n1
    <3>1. n = n1 /\ n1 = n0 + 1
      BY <1>1, <1>3, <2>1
    <3>2. m.alarms[n] = AlarmOf(time, key, cause) /\ ~ IsActive(l, key)
      BY <1>1, <1>2, <1>3, <2>1, <3>1
    <3>3. IsActive(m, key) /\ m.active[key] = n
      BY <1>1, <1>2, <1>3, <3>1
    <3> QED
      BY <3>2, <3>3 DEF AlarmOf
  <2>2. CASE n \notin 1 .. n1
    <3>1. n = n2 /\ n2 = n1 + 1
      BY <1>1, <1>4, <1>5, <2>2
    <3>2. m.alarms[n] = AlarmOf(time, other, cause) /\ IsActive(m, other)
          /\ m.active[other] = n /\ ~ IsActive(a, other)
      BY <1>1, <1>4, <3>1
    <3>3. ~ IsActive(l, other)
      BY <1>2, <3>2
    <3> QED
      BY <3>2, <3>3 DEF AlarmOf
  <2> QED
    BY <2>1, <2>2
<1>8. ASSUME NEW k, IsActive(m, k), ~ IsActive(l, k)
      PROVE  m.active[k] \in n0 + 1 .. n2
  <2>1. CASE k = other
    <3>1. ~ IsActive(a, other)
      BY <1>2, <1>8, <2>1
    <3> QED
      BY <1>1, <1>4, <1>5, <1>8, <2>1, <3>1
  <2>2. CASE k # other
    <3>1. IsActive(a, k) /\ m.active[k] = a.active[k]
      BY <1>2, <1>8, <2>2
    <3>2. k = key
      BY <1>2, <1>8, <3>1
    <3> QED
      BY <1>1, <1>3, <1>5, <1>8, <3>1, <3>2
  <2> QED
    BY <2>1, <2>2
<1> QED
  BY <1>1, <1>2, <1>5, <1>6, <1>7, <1>8 DEF Grows, n0, n1, n2

\* _service_alarms keeps the alarm of the service in step with the unserved power.
LEMMA ServiceFacts ==
  ASSUME NEW l, LedgerOK(l), NEW time, NEW cause, NEW before \in Nat, NEW after \in Nat
  PROVE  LET m == service_alarms(l, time, cause, before, after)
         IN  /\ Touches(l, m, LoadUnserved, time, cause)
             /\ (IsActive(l, LoadUnserved) <=> before > 0) =>
                  (IsActive(m, LoadUnserved) <=> after > 0)
<1>1. CASE before = 0 /\ after > 0
  BY <1>1, RaiseFacts DEF service_alarms
<1>2. CASE before > 0 /\ after = 0
  BY <1>2, ClearFacts DEF service_alarms
<1>3. CASE before = 0 <=> after = 0
  <2>1. service_alarms(l, time, cause, before, after) = l
    BY <1>3 DEF service_alarms
  <2> QED
    BY <1>3, <2>1, SameLedger
<1> QED
  BY <1>1, <1>2, <1>3

EventAlarms == {"component_failed", "maintenance_active", "generator_start_failed"}

\* _apply_event touches one alarm of the component that the event names: a pair of
\* events raises and clears its own alarm only.
LEMMA EventAlarmFacts ==
  ASSUME NEW l, LedgerOK(l), NEW e \in Event
  PROVE  LET m == apply_event_alarms(l, e)
         IN  /\ \E code \in EventAlarms :
                  Touches(l, m, <<code, e.component_id>>, e.time_ms, EventId(e))
             /\ \A pair \in EventPairs : \A c :
                  IsActive(m, <<pair[3], c>>) <=>
                    IF c = e.component_id /\ e.kind = pair[1] THEN TRUE
                    ELSE IF c = e.component_id /\ e.kind = pair[2] THEN FALSE
                    ELSE IsActive(l, <<pair[3], c>>)
<1> DEFINE m == apply_event_alarms(l, e)
           Follows(pair, c) ==
             IsActive(m, <<pair[3], c>>) <=>
               IF c = e.component_id /\ e.kind = pair[1] THEN TRUE
               ELSE IF c = e.component_id /\ e.kind = pair[2] THEN FALSE
               ELSE IsActive(l, <<pair[3], c>>)
<1>1. ASSUME NEW pair \in EventPairs, e.kind \in {pair[1], pair[2]}
      PROVE  /\ pair[3] \in EventAlarms
             /\ Touches(l, m, <<pair[3], e.component_id>>, e.time_ms, EventId(e))
             /\ IsActive(m, <<pair[3], e.component_id>>) <=> e.kind = pair[1]
  <2> DEFINE key == <<pair[3], e.component_id>>
  <2>1. /\ pair[3] \in EventAlarms
        /\ e.kind = pair[1] => m = raise_alarm(l, e.time_ms, key, EventId(e))
        /\ e.kind = pair[2] => m = clear(l, key)
        /\ pair[1] # pair[2]
    BY <1>1 DEF EventPairs, EventAlarms, apply_event_alarms, RaisedCode, ClearedCode
  <2> HIDE DEF key, m
  <2>2. Touches(l, m, key, e.time_ms, EventId(e)) /\ (IsActive(m, key) <=> e.kind = pair[1])
    BY <1>1, <2>1, RaiseFacts, ClearFacts
  <2> QED
    BY <2>1, <2>2 DEF key
<1>2. CASE \E pair \in EventPairs : e.kind \in {pair[1], pair[2]}
  <2>1. PICK own \in EventPairs : e.kind \in {own[1], own[2]}
    BY <1>2
  <2>2. ASSUME NEW pair \in EventPairs, NEW c PROVE Follows(pair, c)
    <3>1. CASE c = e.component_id /\ pair = own
      <4>1. own[1] # own[2]
        BY DEF EventPairs
      <4> QED
        BY <1>1, <2>1, <3>1, <4>1
    <3>2. CASE c # e.component_id \/ pair # own
      <4>1. pair # own => pair[3] # own[3] /\ e.kind \notin {pair[1], pair[2]}
        BY <2>1 DEF EventPairs
      <4>2. <<pair[3], c>> # <<own[3], e.component_id>>
        BY <3>2, <4>1
      <4>3. IsActive(m, <<pair[3], c>>) <=> IsActive(l, <<pair[3], c>>)
        BY <1>1, <2>1, <4>2 DEF Touches
      <4> QED
        BY <3>2, <4>1, <4>3
    <3> QED
      BY <3>1, <3>2
  <2> HIDE DEF m, Follows
  <2>3. \E code \in EventAlarms :
          Touches(l, m, <<code, e.component_id>>, e.time_ms, EventId(e))
    BY <1>1, <2>1
  <2> QED
    BY <2>2, <2>3 DEF m, Follows
<1>3. CASE ~ \E pair \in EventPairs : e.kind \in {pair[1], pair[2]}
  <2>1. m = l
    BY <1>3 DEF EventPairs, apply_event_alarms, RaisedCode, ClearedCode
  <2>2. Touches(l, l, <<"component_failed", e.component_id>>, e.time_ms, EventId(e))
    BY SameLedger
  <2> QED
    BY <1>3, <2>1, <2>2 DEF EventAlarms
<1> QED
  BY <1>2, <1>3

-----------------------------------------------------------------------------
(* The alarms of the service and of the events.                            *)

AlarmInv ==
  /\ LedgerOK(ledger)
  /\ IsSeq(transitions)
  /\ pc = "group" => (IsActive(ledger, LoadUnserved) <=> group.baseline_w > 0)
  /\ pc # "group" /\ outcome \in {"running", "completed"} =>
       (IsActive(ledger, LoadUnserved) <=> summary.unserved_w > 0)
  /\ EventAlarmsPaired

\* A step with this id that appends one transition and the alarms it lists.
Records(id) ==
  \E t : /\ transitions' = Append(transitions, t)
         /\ t.time_ms = current_time
         /\ t.event_id = id
         /\ \A k : IsActive(ledger', k) /\ ~ IsActive(ledger, k) =>
                     ledger'.active[k] \in t.alarms_raised

\* Record lists every alarm that the step made active.
LEMMA RecordFacts ==
  ASSUME NEW time, NEW id, NEW kind, NEW target, NEW l, NEW m, NEW raised
  PROVE  LET t == Record(time, id, kind, target, l, m, raised)
         IN  /\ t.time_ms = time /\ t.event_id = id
             /\ t.event_kind = kind /\ t.target_id = target
             /\ \A k : IsActive(m, k) /\ ~ IsActive(l, k) => m.active[k] \in t.alarms_raised
BY DEF Record, transition, IsActive

\* What ProcessExternal does to the ledger and the transitions.
LEMMA ExternalRecords ==
  ASSUME SafetyInv, SafetyInv', AlarmInv, ProcessExternal
  PROVE  LET e == scenario.events[event_index + 1]
         IN  /\ Grows(ledger, ledger', current_time, EventId(e))
             /\ Records(EventId(e))
             /\ \E t : /\ transitions' = Append(transitions, t)
                       /\ t.event_kind = e.kind /\ t.target_id = e.component_id
             /\ \A pair \in EventPairs : \A c :
                  IsActive(ledger', <<pair[3], c>>) <=>
                    IF c = e.component_id /\ e.kind = pair[1] THEN TRUE
                    ELSE IF c = e.component_id /\ e.kind = pair[2] THEN FALSE
                    ELSE IsActive(ledger, <<pair[3], c>>)
             /\ IF LastOfGroup
                THEN IsActive(ledger', LoadUnserved) <=> summary'.unserved_w > 0
                ELSE IsActive(ledger', LoadUnserved) <=> IsActive(ledger, LoadUnserved)
<1> DEFINE e == scenario.events[event_index + 1]
           id == EventId(e)
           a == apply_event_alarms(ledger, e)
           m == ledger'
           t == Record(e.time_ms, id, e.kind, e.component_id, ledger, m, EventKeys(e))
<1>1. /\ pc = "group"
      /\ m = IF LastOfGroup THEN service_alarms(a, e.time_ms, id, group.baseline_w,
                                                summary'.unserved_w)
             ELSE a
      /\ transitions' = Append(transitions, t)
  BY DEF ProcessExternal
<1>2. e \in Event /\ e.time_ms = current_time
  BY <1>1, NextEvent DEF SafetyInv
<1>3. /\ LedgerOK(ledger)
      /\ IsActive(ledger, LoadUnserved) <=> group.baseline_w > 0
  BY <1>1 DEF AlarmInv
<1>4. group.baseline_w \in Nat /\ summary'.unserved_w \in Nat
  BY DEF SafetyInv, Ahead, EngineTypes, Summary
<1>5. /\ t.time_ms = e.time_ms /\ t.event_id = id
      /\ t.event_kind = e.kind /\ t.target_id = e.component_id
      /\ \A k : IsActive(m, k) /\ ~ IsActive(ledger, k) => m.active[k] \in t.alarms_raised
  BY RecordFacts
<1> HIDE DEF e, id, m, t
<1>6. PICK code \in EventAlarms : Touches(ledger, a, <<code, e.component_id>>, e.time_ms, id)
  BY <1>2, <1>3, EventAlarmFacts DEF id
<1>7. \A pair \in EventPairs : \A c :
        IsActive(a, <<pair[3], c>>) <=>
          IF c = e.component_id /\ e.kind = pair[1] THEN TRUE
          ELSE IF c = e.component_id /\ e.kind = pair[2] THEN FALSE
          ELSE IsActive(ledger, <<pair[3], c>>)
  BY <1>2, <1>3, EventAlarmFacts
<1> HIDE DEF a
<1>8. <<code, e.component_id>> # LoadUnserved
  BY DEF EventAlarms, LoadUnserved
<1>9. /\ LedgerOK(a)
      /\ IsActive(a, LoadUnserved) <=> IsActive(ledger, LoadUnserved)
  BY <1>6, <1>8 DEF Touches
<1>10. /\ Touches(a, m, LoadUnserved, e.time_ms, id)
       /\ IF LastOfGroup THEN IsActive(m, LoadUnserved) <=> summary'.unserved_w > 0
          ELSE IsActive(m, LoadUnserved) <=> IsActive(ledger, LoadUnserved)
  <2>1. CASE LastOfGroup
    BY <1>1, <1>3, <1>4, <1>9, <2>1, ServiceFacts
  <2>2. CASE ~ LastOfGroup
    BY <1>1, <1>9, <2>2, SameLedger
  <2> QED
    BY <2>1, <2>2
<1>11. Grows(ledger, m, e.time_ms, id)
  BY <1>3, <1>6, <1>8, <1>10, TouchTwice
<1>12. \A pair \in EventPairs : \A c :
         IsActive(m, <<pair[3], c>>) <=> IsActive(a, <<pair[3], c>>)
  <2> TAKE pair \in EventPairs
  <2> TAKE c
  <2>1. <<pair[3], c>> # LoadUnserved
    BY DEF EventPairs, LoadUnserved
  <2> QED
    BY <1>10, <2>1 DEF Touches
<1>13. Records(id)
  BY <1>1, <1>2, <1>5 DEF Records, m
<1> QED
  BY <1>1, <1>2, <1>5, <1>7, <1>10, <1>11, <1>12, <1>13 DEF e, id, m

\* What ProcessInternal does to the ledger and the transitions.
LEMMA InternalRecords ==
  ASSUME SafetyInv, SafetyInv', AlarmInv, ProcessInternal
  PROVE  LET id == InternalId(milestone.kind, milestone.component_id, current_time)
         IN  /\ Grows(ledger, ledger', current_time, id)
             /\ Records(id)
             /\ \E t : transitions' = Append(transitions, t) /\ t.event_kind = milestone.kind
             /\ IsActive(ledger', MilestoneKey(milestone))
             /\ \A pair \in EventPairs : \A c :
                  IsActive(ledger', <<pair[3], c>>) <=> IsActive(ledger, <<pair[3], c>>)
             /\ IsActive(ledger', LoadUnserved) <=> summary'.unserved_w > 0
<1> DEFINE id == InternalId(milestone.kind, milestone.component_id, current_time)
           key == MilestoneKey(milestone)
           a == raise_alarm(ledger, current_time, key, id)
           m == ledger'
           t == Record(current_time, id, milestone.kind, milestone.component_id, ledger, m, {key})
<1>1. /\ pc = "milestone" /\ outcome = "running"
      /\ m = service_alarms(a, current_time, id, summary.unserved_w, summary'.unserved_w)
      /\ transitions' = Append(transitions, t)
  BY DEF ProcessInternal, SafetyInv
<1>2. milestone.kind \in {"ups_low_energy", "ups_depleted"}
  BY <1>1 DEF SafetyInv, MilestoneType
<1>3. /\ LedgerOK(ledger)
      /\ IsActive(ledger, LoadUnserved) <=> summary.unserved_w > 0
  BY <1>1 DEF AlarmInv
<1>4. summary.unserved_w \in Nat /\ summary'.unserved_w \in Nat
  BY DEF SafetyInv, Ahead, EngineTypes, Summary
<1>5. /\ t.time_ms = current_time /\ t.event_id = id
      /\ t.event_kind = milestone.kind
      /\ \A k : IsActive(m, k) /\ ~ IsActive(ledger, k) => m.active[k] \in t.alarms_raised
  BY RecordFacts
<1>6. key[1] \in {"ups_low_energy", "ups_energy_depleted"} /\ key = <<key[1], key[2]>>
  BY <1>2 DEF MilestoneKey
<1> HIDE DEF id, m, t, key
<1>7. Touches(ledger, a, key, current_time, id) /\ IsActive(a, key)
  BY <1>3, RaiseFacts
<1> HIDE DEF a
<1>8. key # LoadUnserved
  BY <1>6 DEF LoadUnserved
<1>9. LedgerOK(a) /\ (IsActive(a, LoadUnserved) <=> IsActive(ledger, LoadUnserved))
  BY <1>7, <1>8 DEF Touches
<1>10. /\ Touches(a, m, LoadUnserved, current_time, id)
       /\ IsActive(m, LoadUnserved) <=> summary'.unserved_w > 0
  BY <1>1, <1>3, <1>4, <1>9, ServiceFacts
<1>11. Grows(ledger, m, current_time, id)
  BY <1>3, <1>7, <1>8, <1>10, TouchTwice
<1>12. IsActive(m, key)
  BY <1>7, <1>8, <1>10 DEF Touches
<1>13. \A pair \in EventPairs : \A c :
         IsActive(m, <<pair[3], c>>) <=> IsActive(ledger, <<pair[3], c>>)
  <2> TAKE pair \in EventPairs
  <2> TAKE c
  <2>1. <<pair[3], c>> # LoadUnserved /\ <<pair[3], c>> # key
    BY <1>6 DEF EventPairs, LoadUnserved
  <2> QED
    BY <1>7, <1>10, <2>1 DEF Touches
<1>14. Records(id)
  BY <1>1, <1>5 DEF Records, m
<1> QED
  BY <1>1, <1>5, <1>10, <1>11, <1>12, <1>13, <1>14 DEF id, m, key

\* A transition at the end is the last one.
LEMMA LastOfMore ==
  ASSUME NEW n \in Nat, NEW S \in SUBSET (1 .. n)
  PROVE  Max(S \cup {n + 1}) = n + 1
<1> DEFINE T == S \cup {n + 1}
<1>1. n + 1 \in Nat /\ T \in SUBSET (1 .. n + 1) /\ T # {} /\ n + 1 \in T
  OBVIOUS
<1>2. Max(T) \in T /\ \A y \in T : y <= Max(T)
  <2> HIDE DEF T
  <2> QED
    BY <1>1, MaxOfPositions
<1>3. Max(T) \in 1 .. n + 1 /\ n + 1 <= Max(T)
  BY <1>1, <1>2
<1> HIDE DEF T
<1>4. Max(T) = n + 1
  BY <1>3
<1> QED
  BY <1>4 DEF T

\* EventAlarmsPaired follows one more transition.
LEMMA PairedStep ==
  ASSUME AlarmInv, NEW t, transitions' = Append(transitions, t),
         \A pair \in EventPairs : \A c \in Components :
           IsActive(ledger', <<pair[3], c>>) <=>
             IF c = t.target_id /\ t.event_kind = pair[1] THEN TRUE
             ELSE IF c = t.target_id /\ t.event_kind = pair[2] THEN FALSE
             ELSE IsActive(ledger, <<pair[3], c>>)
  PROVE  EventAlarmsPaired'
<1> SUFFICES ASSUME NEW pair \in EventPairs, NEW c \in Components
             PROVE  IsActive(ledger', <<pair[3], c>>) <=>
                      /\ PairedTransitions(pair, c)' # {}
                      /\ transitions'[Max(PairedTransitions(pair, c)')].event_kind = pair[1]
  BY DEF EventAlarmsPaired
<1> DEFINE n == Len(transitions)
           of == PairedTransitions(pair, c)
           ofNext == PairedTransitions(pair, c)'
<1>1. /\ n \in Nat /\ DOMAIN transitions = 1 .. n /\ DOMAIN transitions' = 1 .. n + 1
      /\ \A i \in 1 .. n : transitions'[i] = transitions[i]
      /\ transitions'[n + 1] = t
  BY Appended DEF AlarmInv
<1>2. IsActive(ledger, <<pair[3], c>>) <=> of # {} /\ transitions[Max(of)].event_kind = pair[1]
  BY DEF AlarmInv, EventAlarmsPaired
<1>3. pair[1] # pair[2]
  BY DEF EventPairs
<1>4. of \in SUBSET (1 .. n)
  BY <1>1 DEF PairedTransitions
<1>5. CASE t.target_id = c /\ t.event_kind \in {pair[1], pair[2]}
  <2>1. ofNext = of \cup {n + 1}
    <3>1. ASSUME NEW j PROVE j \in ofNext <=> j \in of \cup {n + 1}
      BY <1>1, <1>5 DEF PairedTransitions
    <3> HIDE DEF of, ofNext, n
    <3> QED
      BY <3>1
  <2> HIDE DEF of, ofNext
  <2>2. Max(ofNext) = n + 1
    BY <1>1, <1>4, <2>1, LastOfMore
  <2> QED
    BY <1>1, <1>3, <1>5, <2>1, <2>2 DEF ofNext
<1>6. CASE ~ (t.target_id = c /\ t.event_kind \in {pair[1], pair[2]})
  <2>1. ofNext = of
    <3>1. ASSUME NEW j PROVE j \in ofNext <=> j \in of
      BY <1>1, <1>6 DEF PairedTransitions
    <3> HIDE DEF of, ofNext, n
    <3> QED
      BY <3>1
  <2>2. IsActive(ledger', <<pair[3], c>>) <=> IsActive(ledger, <<pair[3], c>>)
    BY <1>6
  <2>3. of # {} => transitions'[Max(of)] = transitions[Max(of)]
    <3> HIDE DEF of
    <3> QED
      BY <1>1, <1>4, MaxOfPositions
  <2> HIDE DEF of, ofNext
  <2> QED
    BY <1>2, <2>1, <2>2, <2>3 DEF ofNext
<1> QED
  BY <1>5, <1>6

\* Every step keeps AlarmInv.
LEMMA NextAlarmInv ==
  ASSUME SafetyInv, SafetyInv', AlarmInv, [Next]_vars PROVE AlarmInv'
<1> DEFINE Running == outcome \in {"running", "completed"}
<1>1. CASE ProcessExternal
  <2> DEFINE e == scenario.events[event_index + 1]
  <2>1. PICK t : /\ transitions' = Append(transitions, t)
                 /\ t.event_kind = e.kind /\ t.target_id = e.component_id
    BY <1>1, ExternalRecords
  <2>2. /\ LedgerOK(ledger')
        /\ IF LastOfGroup THEN IsActive(ledger', LoadUnserved) <=> summary'.unserved_w > 0
           ELSE IsActive(ledger', LoadUnserved) <=> IsActive(ledger, LoadUnserved)
    BY <1>1, ExternalRecords DEF Grows
  <2>3. EventAlarmsPaired'
    <3>1. \A pair \in EventPairs : \A c :
            IsActive(ledger', <<pair[3], c>>) <=>
              IF c = e.component_id /\ e.kind = pair[1] THEN TRUE
              ELSE IF c = e.component_id /\ e.kind = pair[2] THEN FALSE
              ELSE IsActive(ledger, <<pair[3], c>>)
      BY <1>1, ExternalRecords
    <3> QED
      BY <2>1, <3>1, PairedStep
  <2>4. IsSeq(transitions')
    BY <2>1, Appended DEF AlarmInv
  <2>5. /\ pc = "group" /\ UNCHANGED group
        /\ pc' = IF outcome' # "running" THEN "stopped" ELSE IF LastOfGroup THEN "loop" ELSE "group"
        /\ outcome' # "completed"
    BY <1>1 DEF ProcessExternal, Continue, Fault
  <2> QED
    BY <2>2, <2>3, <2>4, <2>5 DEF AlarmInv
<1>2. CASE ProcessInternal
  <2>1. PICK t : transitions' = Append(transitions, t) /\ t.event_kind = milestone.kind
    BY <1>2, InternalRecords
  <2>2. /\ LedgerOK(ledger')
        /\ IsActive(ledger', LoadUnserved) <=> summary'.unserved_w > 0
    BY <1>2, InternalRecords DEF Grows
  <2>3. EventAlarmsPaired'
    <3>1. \A pair \in EventPairs : \A c :
            IsActive(ledger', <<pair[3], c>>) <=> IsActive(ledger, <<pair[3], c>>)
      BY <1>2, InternalRecords
    <3>2. t.event_kind \in {"ups_low_energy", "ups_depleted"}
      BY <1>2, <2>1 DEF ProcessInternal, SafetyInv, MilestoneType
    <3>3. \A pair \in EventPairs : t.event_kind # pair[1] /\ t.event_kind # pair[2]
      BY <3>2 DEF EventPairs
    <3> QED
      BY <2>1, <3>1, <3>3, PairedStep
  <2>4. IsSeq(transitions')
    BY <2>1, Appended DEF AlarmInv
  <2>5. pc' # "group"
    BY <1>2 DEF ProcessInternal, Continue
  <2> QED
    BY <2>2, <2>3, <2>4, <2>5 DEF AlarmInv
<1>3. CASE ~ (ProcessExternal \/ ProcessInternal)
  <2>1. UNCHANGED <<ledger, transitions, summary>>
    BY <1>3 DEF Next, BeginGroup, NothingDue, RejectParallelSources,
       RejectInexactMilestone, RunSegment, NoTimePasses, Finish, Stopped, vars, run
  <2>2. EventAlarmsPaired'
    <3>1. EventAlarmsPaired
      BY DEF AlarmInv
    <3>2. ledger' = ledger /\ transitions' = transitions
      BY <2>1
    <3>3. \A pair, c : PairedTransitions(pair, c)' = PairedTransitions(pair, c)
      BY <3>2 DEF PairedTransitions
    <3>4. \A k : IsActive(ledger', k) <=> IsActive(ledger, k)
      BY <3>2
    <3> QED
      BY <3>1, <3>2, <3>3, <3>4, Zenon DEF EventAlarmsPaired
  <2>3. /\ outcome' \in {"running", "completed"} => outcome \in {"running", "completed"}
        /\ pc' = "group" => \/ pc = "group" /\ UNCHANGED group
                            \/ pc = "due" /\ outcome = "running"
                               /\ group'.baseline_w = summary.unserved_w
        /\ pc' # "group" /\ pc = "group" => outcome' \notin {"running", "completed"}
    BY <1>3 DEF Next, BeginGroup, NothingDue, RejectParallelSources, AtLoopHead,
       RejectInexactMilestone, RunSegment, NoTimePasses, Finish, Stopped, vars, run,
       Continue, SafetyInv
  <2> QED
    BY <2>1, <2>2, <2>3 DEF AlarmInv
<1> QED
  BY <1>1, <1>2, <1>3

\* AlarmInv holds in the initial states.
LEMMA InitAlarmInv == ASSUME Init PROVE AlarmInv
<1> DEFINE t == Record(0, Initialized, "system_initialization", 0, EmptyLedger, ledger, {})
<1>1. /\ ledger = service_alarms(EmptyLedger, 0, Initialized, 0, summary.unserved_w)
      /\ transitions = << t >>
      /\ pc # "group"
      /\ summary.unserved_w \in Nat
  <2>1. SafetyInv /\ pc = "due"
    BY InitSafetyInv, InitiallyRunning
  <2> QED
    BY <2>1 DEF Init, SafetyInv, Ahead, EngineTypes, Summary
<1>2. LedgerOK(EmptyLedger) /\ DOMAIN EmptyLedger.active = {}
  BY DEF LedgerOK, EmptyLedger, IsSeq
<1>3. \A k : ~ IsActive(EmptyLedger, k)
  BY <1>2 DEF IsActive
<1>4. /\ Touches(EmptyLedger, ledger, LoadUnserved, 0, Initialized)
      /\ IsActive(ledger, LoadUnserved) <=> summary.unserved_w > 0
  BY <1>1, <1>2, <1>3, ServiceFacts
<1>5. EventAlarmsPaired
  <2> SUFFICES ASSUME NEW pair \in EventPairs, NEW c \in Components
               PROVE  /\ ~ IsActive(ledger, <<pair[3], c>>)
                      /\ PairedTransitions(pair, c) = {}
    BY DEF EventAlarmsPaired
  <2>1. <<pair[3], c>> # LoadUnserved
    BY DEF EventPairs, LoadUnserved
  <2>2. ~ IsActive(ledger, <<pair[3], c>>)
    BY <1>3, <1>4, <2>1 DEF Touches
  <2>3. t.event_kind = "system_initialization"
    BY DEF Record, transition
  <2> HIDE DEF t
  <2>4. \A j \in DOMAIN transitions : transitions[j] = t
    BY <1>1
  <2>5. "system_initialization" \notin {pair[1], pair[2]}
    BY DEF EventPairs
  <2> QED
    BY <2>2, <2>3, <2>4, <2>5 DEF PairedTransitions
<1>6. IsSeq(transitions)
  <2> HIDE DEF t
  <2>1. transitions \in Seq({t})
    BY <1>1
  <2> QED
    BY <2>1 DEF IsSeq
<1> QED
  BY <1>1, <1>4, <1>5, <1>6 DEF AlarmInv, Touches

\* AlarmInv is an invariant.
LEMMA AlarmInvariant == Spec => []AlarmInv
<1>1. Init => AlarmInv
  BY InitAlarmInv
<1>2. SafetyInv /\ SafetyInv' /\ AlarmInv /\ [Next]_vars => AlarmInv'
  BY NextAlarmInv
<1> QED
  BY <1>1, <1>2, SafetyInvariant, PTL DEF Spec

-----------------------------------------------------------------------------
(* The warnings of the batteries.                                          *)

WarnedBy(l, u, time) ==
  \E n \in 1 .. Len(l.alarms) : /\ l.alarms[n].code = "ups_low_energy"
                                /\ l.alarms[n].component_id = u
                                /\ l.alarms[n].time_ms <= time

WarnedInv ==
  /\ IsSeq(timeline)
  /\ \A n \in 1 .. Len(ledger.alarms) : ledger.alarms[n].time_ms \in 0 .. current_time
  /\ \A u \in Upses :
       state.battery_energy_mj[u] < threshold_mj(u) => u \in state.low_energy_alarm_raised
  /\ \A u \in state.low_energy_alarm_raised : WarnedBy(ledger, u, current_time)
  /\ \A i \in 1 .. Len(timeline) : \A u \in Upses :
       timeline[i].battery_energy_mj[u] < threshold_mj(u) => WarnedBy(ledger, u, timeline[i].start_ms)

\* The reserve of a UPS is a percentage.
LEMMA UpsFields ==
  ASSUME NEW u \in Upses, RequiredFields(u)
  PROVE  /\ component[u].low_energy_threshold_pct > 0
         /\ component[u].low_energy_threshold_pct < 100
BY DEF RequiredFields

\* A threshold lies within the energy of its battery.
LEMMA ThresholdFacts ==
  ASSUME NEW u \in Upses
  PROVE  /\ threshold_mj(u) \in 0 .. component[u].usable_energy_mj
         /\ component[u].usable_energy_mj \in Nat
<1> DEFINE usable  == component[u].usable_energy_mj
           percent == component[u].low_energy_threshold_pct
<1>1. u \in Components /\ component[u] \in Component /\ RequiredFields(u)
  BY ComponentFacts, ComponentsParsed
<1>2. usable \in Nat /\ percent \in 1 .. 99
  <2>1. usable \in Nat
    BY <1>1 DEF Component
  <2>2. percent \in 1 .. 99
    <3>1. percent > 0 /\ percent < 100 /\ percent \in Nat
      BY <1>1, UpsFields DEF Component
    <3> HIDE DEF percent
    <3> QED
      BY <3>1
  <2> QED
    BY <2>1, <2>2
<1>3. threshold_mj(u) = (usable * percent) \div 100
  BY DEF threshold_mj
<1> HIDE DEF usable, percent
<1>4. percent \in Nat /\ 100 \in Nat /\ percent <= 100
  BY <1>2
<1>5. usable * percent \in Nat /\ usable * percent <= 100 * usable
  BY <1>2, <1>4, ProductGrows
<1> DEFINE product == usable * percent
<1>6. /\ product \in Nat /\ product <= 100 * usable
      /\ threshold_mj(u) = product \div 100
  BY <1>3, <1>5
<1> HIDE DEF product
<1>7. product \div 100 \in 0 .. usable
  BY <1>2, <1>6
<1> QED
  BY <1>2, <1>6, <1>7 DEF usable

\* A segment takes no battery across its threshold without a warning.
LEMMA DrainWarned ==
  ASSUME Ahead, current_time < scenario.horizon_ms, ExactMilestones,
         NEW left, left = integrate_batteries(next_boundary(next_battery_milestone) - current_time),
         NEW u \in Upses, u \notin state.low_energy_alarm_raised,
         state.battery_energy_mj[u] >= threshold_mj(u)
  PROVE  ~ (left.battery_energy_mj[u] < threshold_mj(u))
<1> DEFINE m == next_battery_milestone
           duration == next_boundary(m) - current_time
           power  == summary.source_power_w[u]
           energy == state.battery_energy_mj[u]
           threshold == threshold_mj(u)
<1>1. current_time \in Nat /\ duration \in Nat /\ next_boundary(m) \in Nat
  <2>1. current_time \in Nat /\ scenario.horizon_ms \in Nat
    BY ScenarioFacts DEF Ahead, EngineTypes
  <2>2. next_boundary(m) \in current_time .. scenario.horizon_ms
    BY BoundaryFacts
  <2> QED
    BY <2>1, <2>2
<1>2. energy \in Nat /\ power \in Nat /\ threshold \in Nat
  <2>1. u \in Components /\ component[u].usable_energy_mj \in Nat /\ threshold \in Nat
    BY ComponentFacts, ThresholdFacts
  <2>2. energy \in 0 .. component[u].usable_energy_mj /\ power \in Nat
    BY <2>1 DEF Ahead, EngineTypes, Charged, Summary
  <2> HIDE DEF energy, power, threshold
  <2> QED
    BY <2>1, <2>2
<1>3. left.battery_energy_mj[u] =
        IF u \in summary.battery_source_ids THEN energy - power * duration ELSE energy
  BY DEF integrate_batteries, Ahead, EngineTypes, RuntimeState
<1>4. CASE u \in Discharging
  <2> DEFINE time == Candidate(u).time_ms
  <2>1. /\ time \in Nat
        /\ (time - current_time) * power <= energy - threshold
    <3>1. EnergyToMilestone(u) = energy - threshold
      BY DEF EnergyToMilestone, WarnsNext
    <3> QED
      BY <1>4, <3>1, CandidateFacts DEF Ahead
  <2>2. next_boundary(m) <= time
    <3>1. m # NoMilestone /\ m.time_ms <= time
      BY <1>4, BoundaryFacts, MilestoneFacts DEF Ahead
    <3>2. next_boundary(m) <= m.time_ms /\ m \in MilestoneType
      BY <3>1, BoundaryFacts
    <3> QED
      BY <1>1, <2>1, <3>1, <3>2 DEF MilestoneType
  <2> HIDE DEF power, time, energy, threshold
  <2>3. duration <= time - current_time /\ time - current_time \in Nat
    BY <1>1, <2>1, <2>2
  <2> HIDE DEF duration
  <2>4. power * duration \in Nat /\ power * duration <= (time - current_time) * power
    BY <1>1, <1>2, <2>3, ProductGrows
  <2>5. (time - current_time) * power \in Int
    BY <1>2, <2>3
  <2> DEFINE drained == power * duration
             needed  == (time - current_time) * power
  <2>6. drained \in Nat /\ drained <= needed /\ needed <= energy - threshold /\ needed \in Int
    BY <2>1, <2>4, <2>5
  <2>7. left.battery_energy_mj[u] = energy - drained
    BY <1>3, <1>4 DEF Discharging, power, energy, duration
  <2> HIDE DEF drained, needed
  <2>8. ~ (energy - drained < threshold)
    BY <1>2, <2>6
  <2> QED
    BY <2>7, <2>8 DEF threshold
<1>5. CASE u \notin Discharging
  <2>1. u \in summary.battery_source_ids => power = 0
    BY <1>2, <1>5 DEF Discharging
  <2>2. 0 * duration = 0
    BY <1>1
  <2>3. left.battery_energy_mj[u] = energy
    BY <1>2, <1>3, <2>1, <2>2
  <2> QED
    BY <1>2, <2>3
<1> QED
  BY <1>4, <1>5

\* A warning stays.
LEMMA WarnedStays ==
  ASSUME NEW time, NEW cause, Grows(ledger, ledger', time, cause), NEW u, NEW upto,
         WarnedBy(ledger, u, upto)
  PROVE  WarnedBy(ledger', u, upto)
<1>1. PICK n \in 1 .. Len(ledger.alarms) : /\ ledger.alarms[n].code = "ups_low_energy"
                                            /\ ledger.alarms[n].component_id = u
                                            /\ ledger.alarms[n].time_ms <= upto
  BY DEF WarnedBy
<1>2. n \in 1 .. Len(ledger'.alarms) /\ ledger'.alarms[n] = ledger.alarms[n]
  BY DEF Grows
<1> QED
  BY <1>1, <1>2 DEF WarnedBy

\* The times of the alarms after a step at the current time.
LEMMA AlarmTimes ==
  ASSUME WarnedInv, current_time \in Nat, NEW cause,
         Grows(ledger, ledger', current_time, cause)
  PROVE  \A n \in 1 .. Len(ledger'.alarms) : ledger'.alarms[n].time_ms \in 0 .. current_time
<1> TAKE n \in 1 .. Len(ledger'.alarms)
<1>1. Len(ledger.alarms) \in Nat /\ Len(ledger'.alarms) \in Nat
  BY DEF Grows
<1>2. CASE n \in 1 .. Len(ledger.alarms)
  BY <1>2 DEF Grows, WarnedInv
<1>3. CASE n \notin 1 .. Len(ledger.alarms)
  <2>1. n \in Len(ledger.alarms) + 1 .. Len(ledger'.alarms)
    BY <1>1, <1>3
  <2> QED
    BY <2>1 DEF Grows
<1> QED
  BY <1>2, <1>3

\* Every step keeps WarnedInv.
LEMMA NextWarnedInv ==
  ASSUME SafetyInv, SafetyInv', AlarmInv, WarnedInv, [Next]_vars
  PROVE  WarnedInv'
<1>0. /\ current_time \in Nat /\ current_time' \in Nat
      /\ IsSeq(timeline)
      /\ state.low_energy_alarm_raised \subseteq Upses
      /\ state \in RuntimeState
  BY DEF SafetyInv, Ahead, EngineTypes, WarnedInv, RuntimeState
<1>1. CASE ProcessExternal
  <2> DEFINE e == scenario.events[event_index + 1]
  <2>1. /\ Grows(ledger, ledger', current_time, EventId(e))
        /\ UNCHANGED <<current_time, timeline>>
        /\ state' = apply_event(state, e)
    BY <1>1, ExternalRecords DEF ProcessExternal
  <2>2. e \in Event /\ TargetSuits(e)
    BY <1>1, NextEvent DEF SafetyInv, ProcessExternal
  <2>3. UNCHANGED <<state.battery_energy_mj, state.low_energy_alarm_raised>>
    BY <1>0, <2>1, <2>2, ApplyType DEF apply_event, RuntimeState
  <2> QED
    BY <1>0, <2>1, <2>3, WarnedStays, AlarmTimes DEF WarnedInv
<1>2. CASE ProcessInternal
  <2> DEFINE id == InternalId(milestone.kind, milestone.component_id, current_time)
             w == milestone.component_id
             key == MilestoneKey(milestone)
  <2>1. /\ Grows(ledger, ledger', current_time, id)
        /\ IsActive(ledger', key)
        /\ UNCHANGED <<current_time, timeline>>
        /\ state' = AfterMilestone(milestone)
        /\ milestone \in MilestoneType
    BY <1>2, InternalRecords DEF ProcessInternal, SafetyInv
  <2> HIDE DEF id
  <2>2. /\ UNCHANGED state.battery_energy_mj
        /\ state.low_energy_alarm_raised \subseteq state'.low_energy_alarm_raised
        /\ \A u \in state'.low_energy_alarm_raised \ state.low_energy_alarm_raised :
             u = w /\ milestone.kind = "ups_low_energy"
    BY <1>0, <2>1 DEF AfterMilestone, MilestoneType, RuntimeState
  <2>3. \A n \in 1 .. Len(ledger'.alarms) : ledger'.alarms[n].time_ms \in 0 .. current_time
    BY <1>0, <2>1, AlarmTimes
  <2>4. ASSUME milestone.kind = "ups_low_energy" PROVE WarnedBy(ledger', w, current_time')
    <3>1. key = <<"ups_low_energy", w>>
      BY <2>4 DEF MilestoneKey
    <3>2. /\ ledger'.active[key] \in 1 .. Len(ledger'.alarms)
          /\ ledger'.alarms[ledger'.active[key]].code = key[1]
          /\ ledger'.alarms[ledger'.active[key]].component_id = key[2]
      BY <2>1 DEF Grows, LedgerOK, IsActive
    <3> QED
      BY <1>0, <2>1, <2>3, <3>1, <3>2 DEF WarnedBy
  <2>5. ASSUME NEW u \in state'.low_energy_alarm_raised PROVE WarnedBy(ledger', u, current_time')
    <3>1. CASE u \in state.low_energy_alarm_raised
      BY <2>1, <3>1, WarnedStays DEF WarnedInv
    <3>2. CASE u \notin state.low_energy_alarm_raised
      BY <2>2, <2>4, <2>5, <3>2
    <3> QED
      BY <3>1, <3>2
  <2> QED
    BY <1>0, <2>1, <2>2, <2>3, <2>5, WarnedStays DEF WarnedInv
<1>3. CASE RunSegment
  <2> DEFINE boundary == next_boundary(next_battery_milestone)
             left == integrate_batteries(boundary - current_time)
             s == segment(current_time, boundary, summary, left, causes)
  <2>1. /\ current_time < scenario.horizon_ms /\ ExactMilestones
        /\ state' = left /\ timeline' = Append(timeline, s)
        /\ UNCHANGED <<ledger>> /\ current_time' = boundary
    BY <1>3 DEF RunSegment, AtLoopHead
  <2>2. current_time <= current_time'
    BY <1>3, <1>0, SegmentStep DEF SafetyInv
  <2>3. UNCHANGED state.low_energy_alarm_raised
    BY <1>0, <2>1 DEF integrate_batteries, RuntimeState
  <2>4. ASSUME NEW u \in Upses, left.battery_energy_mj[u] < threshold_mj(u)
        PROVE  u \in state.low_energy_alarm_raised /\ WarnedBy(ledger, u, current_time)
    <3>1. state.battery_energy_mj[u] \in Int /\ threshold_mj(u) \in Int
      BY <1>0, ThresholdFacts DEF RuntimeState
    <3>2. u \in state.low_energy_alarm_raised
      BY <2>1, <2>4, <3>1, DrainWarned DEF WarnedInv, SafetyInv
    <3> QED
      BY <3>2 DEF WarnedInv
  <2>5. s.start_ms = current_time /\ s.battery_energy_mj = left.battery_energy_mj
    BY DEF segment
  <2> HIDE DEF left, s
  <2>6. \A n \in 1 .. Len(ledger'.alarms) : ledger'.alarms[n].time_ms \in 0 .. current_time'
    BY <1>0, <2>1, <2>2 DEF WarnedInv
  <2>7. ASSUME NEW u, WarnedBy(ledger, u, current_time) PROVE WarnedBy(ledger', u, current_time')
    <3>1. PICK n \in 1 .. Len(ledger.alarms) : /\ ledger.alarms[n].code = "ups_low_energy"
                                                /\ ledger.alarms[n].component_id = u
      BY <2>7 DEF WarnedBy
    <3>2. ledger'.alarms[n].time_ms \in 0 .. current_time'
      BY <2>1, <2>6
    <3> QED
      BY <1>0, <2>1, <3>1, <3>2 DEF WarnedBy
  <2>8. ASSUME NEW i \in 1 .. Len(timeline'), NEW u \in Upses,
               timeline'[i].battery_energy_mj[u] < threshold_mj(u)
        PROVE  WarnedBy(ledger', u, timeline'[i].start_ms)
    <3>1. /\ Len(timeline) \in Nat /\ Len(timeline') = Len(timeline) + 1
          /\ \A j \in 1 .. Len(timeline) : timeline'[j] = timeline[j]
          /\ timeline'[Len(timeline) + 1] = s
      BY <1>0, <2>1, Appended
    <3>2. CASE i \in 1 .. Len(timeline)
      BY <2>1, <2>8, <3>1, <3>2 DEF WarnedInv, WarnedBy
    <3>3. CASE i \notin 1 .. Len(timeline)
      <4>1. timeline'[i] = s
        BY <3>1, <3>3
      <4> QED
        BY <2>1, <2>4, <2>5, <2>8, <4>1 DEF WarnedBy
    <3> QED
      BY <3>2, <3>3
  <2>9. IsSeq(timeline')
    BY <1>0, <2>1, Appended
  <2> QED
    BY <2>1, <2>3, <2>4, <2>6, <2>7, <2>8, <2>9 DEF WarnedInv
<1>4. CASE ~ (ProcessExternal \/ ProcessInternal \/ RunSegment)
  <2>1. UNCHANGED <<state, ledger, timeline, current_time>>
    BY <1>4 DEF Next, BeginGroup, NothingDue, RejectParallelSources,
       RejectInexactMilestone, NoTimePasses, Finish, Stopped, vars, run
  <2> QED
    BY <2>1 DEF WarnedInv, WarnedBy
<1> QED
  BY <1>1, <1>2, <1>3, <1>4

\* WarnedInv holds in the initial states.
LEMMA InitWarnedInv == ASSUME Init PROVE WarnedInv
<1>1. /\ timeline = << >> /\ current_time = 0 /\ state = initial_state
      /\ ledger = service_alarms(EmptyLedger, 0, Initialized, 0, summary.unserved_w)
      /\ summary.unserved_w \in Nat
  BY InitSafetyInv DEF Init, SafetyInv, Ahead, EngineTypes, Summary
<1>2. LedgerOK(EmptyLedger) /\ Len(EmptyLedger.alarms) = 0
  BY DEF LedgerOK, EmptyLedger, IsSeq
<1>3. Touches(EmptyLedger, ledger, LoadUnserved, 0, Initialized)
  BY <1>1, <1>2, ServiceFacts
<1>4. \A n \in 1 .. Len(ledger.alarms) : ledger.alarms[n].time_ms \in 0 .. current_time
  <2>1. Len(ledger.alarms) = 0 \/ (/\ Len(ledger.alarms) = 1
                                   /\ ledger.alarms[1] = AlarmOf(0, LoadUnserved, Initialized))
    BY <1>2, <1>3 DEF Touches
  <2> QED
    BY <1>1, <2>1 DEF AlarmOf
<1>5. \A u \in Upses : ~ (state.battery_energy_mj[u] < threshold_mj(u))
  <2> TAKE u \in Upses
  <2>1. state.battery_energy_mj[u] = component[u].usable_energy_mj
    BY <1>1 DEF initial_state
  <2> QED
    BY <2>1, ThresholdFacts
<1>6. state.low_energy_alarm_raised = {}
  BY <1>1 DEF initial_state
<1>7. IsSeq(timeline) /\ Len(timeline) = 0
  BY <1>1 DEF IsSeq
<1> QED
  BY <1>4, <1>5, <1>6, <1>7 DEF WarnedInv

\* The alarms of a run are true: the service alarm is active exactly while load is
\* unserved, each alarm of a component follows its own pair of events, and no battery
\* runs below its threshold unannounced.
THEOREM AlarmsAreTrueHolds == Spec => []AlarmsAreTrue
<1>1. Init => WarnedInv
  BY InitWarnedInv
<1>2. SafetyInv /\ SafetyInv' /\ AlarmInv /\ WarnedInv /\ [Next]_vars => WarnedInv'
  BY NextWarnedInv
<1>3. AlarmInv /\ WarnedInv => AlarmsAreTrue
  <2> SUFFICES ASSUME AlarmInv, WarnedInv PROVE AlarmsAreTrue
    OBVIOUS
  <2>1. AlarmFollowsService
    BY DEF AlarmInv, AlarmFollowsService, Settled
  <2>2. EventAlarmsPaired
    BY DEF AlarmInv
  <2>3. /\ DOMAIN timeline = 1 .. Len(timeline)
        /\ DOMAIN ledger.alarms = 1 .. Len(ledger.alarms)
    BY Appended DEF WarnedInv, AlarmInv, LedgerOK
  <2>4. WarnedBeforeLow
    BY <2>3 DEF WarnedInv, WarnedBeforeLow, WarnedBy, Segments, Range
  <2> QED
    BY <2>1, <2>2, <2>4 DEF AlarmsAreTrue
<1> QED
  BY <1>1, <1>2, <1>3, SafetyInvariant, AlarmInvariant, PTL DEF Spec

-----------------------------------------------------------------------------
(* The timeline.                                                           *)

TileInv ==
  /\ IsSeq(timeline)
  /\ \A j \in 1 .. event_index : scenario.events[j].time_ms <= current_time
  /\ \A i \in Segments : /\ timeline[i].start_ms \in Nat
                         /\ timeline[i].end_ms \in Nat
                         /\ timeline[i].end_ms <= current_time
                         /\ timeline[i].unserved_w \in Nat
  /\ accumulator.interruption_duration_ms \in Nat
  /\ TimelineTiles

\* The energy and the interruption of the segments.
UnservedEnergy(q) == [i \in DOMAIN q |-> q[i].unserved_w * (q[i].end_ms - q[i].start_ms)]

Interruption(q) ==
  [i \in DOMAIN q |-> IF q[i].unserved_w > 0 THEN q[i].end_ms - q[i].start_ms ELSE 0]

\* Total counts what was there and what is appended.
LEMMA TotalOfAppended ==
  ASSUME NEW n \in Nat, NEW f, NEW g, f \in [1 .. n + 1 -> Int], g \in [1 .. n -> Int],
         \A i \in 1 .. n : g[i] = f[i]
  PROVE  Total(g) \in Int /\ Total(f) = Total(g) + f[n + 1]
<1>1. Total(f) = SumOf(f) /\ Total(g) = SumOf(g)
  BY DEF Total, SumOf, MapThenSumSet, MapThenFoldSet
<1> QED
  BY <1>1, SumOfAppended

\* Total of nothing.
LEMMA TotalOfNone == \A f : f \in [{} -> Int] => Total(f) = 0
<1> SUFFICES ASSUME NEW f \in [{} -> Int] PROVE Total(f) = 0
  OBVIOUS
<1>1. Total(f) = SumOf(f)
  BY DEF Total, SumOf, MapThenSumSet, MapThenFoldSet
<1> QED
  BY <1>1, SumOfNone

\* The segment that RunSegment appends.
LEMMA NewSegment ==
  ASSUME SafetyInv, SafetyInv', RunSegment, IsSeq(timeline)
  PROVE  \E s : /\ timeline' = Append(timeline, s)
                /\ s.start_ms = current_time /\ s.end_ms = current_time'
                /\ s.unserved_w = summary.unserved_w /\ s.unserved_w \in Nat
                /\ s.redundancy_state = summary.redundancy_state
                /\ s.source_power_w = summary.source_power_w
                /\ s.battery_energy_mj = state'.battery_energy_mj
                /\ s.cause = causes
                /\ current_time \in Nat /\ current_time' \in Nat
                /\ current_time' > current_time
                /\ current_time' - current_time \in 1 .. scenario.resolution_ms
                /\ accumulator' = add_segment(accumulator, summary, current_time' - current_time)
                /\ state' = integrate_batteries(current_time' - current_time)
                /\ UNCHANGED <<scenario, summary, event_index, ledger, transitions, causes>>
<1> DEFINE boundary == next_boundary(next_battery_milestone)
           left == integrate_batteries(boundary - current_time)
           s == segment(current_time, boundary, summary, left, causes)
<1>1. /\ timeline' = Append(timeline, s) /\ current_time' = boundary /\ state' = left
      /\ accumulator' = add_segment(accumulator, summary, boundary - current_time)
      /\ UNCHANGED <<scenario, summary, event_index, ledger, transitions, causes>>
      /\ current_time < scenario.horizon_ms
  BY DEF RunSegment, AtLoopHead
<1>2. /\ current_time \in Nat /\ current_time' \in Nat
      /\ current_time' > current_time
      /\ summary.unserved_w \in Nat
      /\ scenario.resolution_ms \in Nat
  BY SegmentStep, ScenarioFacts DEF SafetyInv, Ahead, EngineTypes, Summary
<1>3. boundary <= current_time + scenario.resolution_ms
  BY <1>1, BoundaryFacts DEF SafetyInv
<1>4. /\ s.start_ms = current_time /\ s.end_ms = boundary
      /\ s.unserved_w = summary.unserved_w
      /\ s.redundancy_state = summary.redundancy_state
      /\ s.source_power_w = summary.source_power_w
      /\ s.battery_energy_mj = left.battery_energy_mj
      /\ s.cause = causes
  BY DEF segment
<1> HIDE DEF boundary, s, left
<1>5. current_time' - current_time \in 1 .. scenario.resolution_ms
  BY <1>1, <1>2, <1>3
<1> QED
  BY <1>1, <1>2, <1>4, <1>5 DEF left

\* What an interval without its ends leaves out.
LEMMA Outside ==
  \A t, a, b \in Nat : t <= a \/ b <= t => t \notin a + 1 .. b - 1
OBVIOUS

\* No event lies inside the segment.
LEMMA NoEventInside ==
  ASSUME SafetyInv, SafetyInv', RunSegment,
         \A j \in 1 .. event_index : scenario.events[j].time_ms <= current_time
  PROVE  \A j \in DOMAIN scenario.events :
           scenario.events[j].time_ms \notin current_time + 1 .. current_time' - 1
<1> TAKE j \in DOMAIN scenario.events
<1> DEFINE time == scenario.events[j].time_ms
           n == Len(scenario.events)
<1>1. /\ j \in 1 .. n /\ n \in Nat /\ time \in Nat
      /\ event_index \in 0 .. n
      /\ current_time \in Nat /\ current_time' \in Nat
  <2>1. /\ scenario \in Scenarios /\ event_index \in 0 .. Len(scenario.events)
        /\ current_time \in Nat
    BY DEF SafetyInv, Ahead, EngineTypes
  <2>2. current_time' \in Nat
    BY DEF SafetyInv, Ahead, EngineTypes
  <2>3. /\ scenario.events \in Seq(Event) /\ n \in Nat
        /\ \A i \in 1 .. n : scenario.events[i].time_ms \in 0 .. scenario.horizon_ms
        /\ scenario.horizon_ms \in Nat
    BY <2>1, ScenarioFacts
  <2>4. j \in 1 .. n
    BY <2>3
  <2> QED
    BY <2>1, <2>2, <2>3, <2>4
<1>2. CASE j <= event_index
  <2>1. time <= current_time
    BY <1>1, <1>2
  <2> HIDE DEF time
  <2>2. time \notin current_time + 1 .. current_time' - 1
    BY <1>1, <2>1, Outside
  <2> QED
    BY <2>2 DEF time
<1>3. CASE j > event_index
  <2> DEFINE next == scenario.events[event_index + 1].time_ms
  <2>1. event_index + 1 \in 1 .. n /\ event_index + 1 <= j /\ event_index < n
    BY <1>1, <1>3
  <2>2. next \in Nat /\ next <= time /\ current_time' <= next
    <3>1. scenario \in Scenarios /\ EventInv'
      BY DEF SafetyInv, Ahead
    <3>2. current_time' <= next
      BY <2>1, <3>1, SegmentStep
    <3> QED
      BY <1>1, <2>1, <3>1, <3>2, ScenarioFacts
  <2> HIDE DEF next, time
  <2>3. time \notin current_time + 1 .. current_time' - 1
    <3>1. current_time' <= time
      BY <1>1, <2>2
    <3> QED
      BY <1>1, <3>1, Outside
  <2> QED
    BY <2>3 DEF time
<1> QED
  BY <1>1, <1>2, <1>3

\* One more segment counts in both totals.
LEMMA TotalsGrow ==
  ASSUME TileInv, NEW s, timeline' = Append(timeline, s),
         s.unserved_w \in Nat, s.start_ms \in Nat, s.end_ms \in Nat
  PROVE  /\ Total(UnservedEnergy(timeline)) \in Int
         /\ Total(UnservedEnergy(timeline'))
              = Total(UnservedEnergy(timeline)) + s.unserved_w * (s.end_ms - s.start_ms)
         /\ Total(Interruption(timeline)) \in Int
         /\ Total(Interruption(timeline'))
              = Total(Interruption(timeline))
                  + IF s.unserved_w > 0 THEN s.end_ms - s.start_ms ELSE 0
<1> DEFINE n == Len(timeline)
           q == timeline
           r == timeline'
<1>1. /\ n \in Nat /\ DOMAIN q = 1 .. n /\ DOMAIN r = 1 .. n + 1
      /\ \A i \in 1 .. n : r[i] = q[i]
      /\ r[n + 1] = s
  BY Appended DEF TileInv
<1>2. \A i \in 1 .. n : /\ q[i].unserved_w \in Nat
                        /\ q[i].start_ms \in Nat /\ q[i].end_ms \in Nat
  BY <1>1 DEF TileInv, Segments
<1> HIDE DEF n, q, r
<1>3. \A i \in 1 .. n + 1 : /\ r[i].unserved_w \in Nat
                            /\ r[i].start_ms \in Nat /\ r[i].end_ms \in Nat
  <2> TAKE i \in 1 .. n + 1
  <2>1. i = n + 1 \/ i \in 1 .. n
    BY <1>1
  <2> QED
    BY <1>1, <1>2, <2>1
<1> DEFINE f1 == UnservedEnergy(r)
           g1 == UnservedEnergy(q)
           f2 == Interruption(r)
           g2 == Interruption(q)
<1>4. f1 \in [1 .. n + 1 -> Int] /\ f2 \in [1 .. n + 1 -> Int]
  BY <1>1, <1>3 DEF UnservedEnergy, Interruption
<1>5. g1 \in [1 .. n -> Int] /\ g2 \in [1 .. n -> Int]
  BY <1>1, <1>2 DEF UnservedEnergy, Interruption
<1>6. \A i \in 1 .. n : g1[i] = f1[i] /\ g2[i] = f2[i]
  BY <1>1 DEF UnservedEnergy, Interruption
<1>7. /\ f1[n + 1] = s.unserved_w * (s.end_ms - s.start_ms)
      /\ f2[n + 1] = IF s.unserved_w > 0 THEN s.end_ms - s.start_ms ELSE 0
  BY <1>1 DEF UnservedEnergy, Interruption
<1> HIDE DEF f1, f2, g1, g2
<1>8. Total(g1) \in Int /\ Total(f1) = Total(g1) + f1[n + 1]
  BY <1>1, <1>4, <1>5, <1>6, TotalOfAppended
<1>9. Total(g2) \in Int /\ Total(f2) = Total(g2) + f2[n + 1]
  BY <1>1, <1>4, <1>5, <1>6, TotalOfAppended
<1> QED
  BY <1>7, <1>8, <1>9 DEF f1, f2, g1, g2, q, r

\* The totals of TimelineTiles are of these functions.
LEMMA TilesUnfolded ==
  TimelineTiles <=>
    /\ \A i \in Segments :
         /\ timeline[i].start_ms = IF i = 1 THEN 0 ELSE timeline[i - 1].end_ms
         /\ Duration(i) \in 1 .. scenario.resolution_ms
         /\ \A j \in DOMAIN scenario.events :
              scenario.events[j].time_ms \notin timeline[i].start_ms + 1 .. timeline[i].end_ms - 1
    /\ current_time = IF timeline = << >> THEN 0 ELSE timeline[Len(timeline)].end_ms
    /\ accumulator.unserved_energy_mj = Total(UnservedEnergy(timeline))
    /\ accumulator.interruption_duration_ms = Total(Interruption(timeline))
BY DEF TimelineTiles, UnservedEnergy, Interruption, Segments, Duration

\* One more segment keeps TileInv.
LEMMA SegmentTiles ==
  ASSUME SafetyInv, SafetyInv', RunSegment, TileInv PROVE TileInv'
<1>1. IsSeq(timeline)
  BY DEF TileInv
<1>2. PICK s : /\ timeline' = Append(timeline, s)
               /\ s.start_ms = current_time /\ s.end_ms = current_time'
               /\ s.unserved_w = summary.unserved_w /\ s.unserved_w \in Nat
               /\ current_time \in Nat /\ current_time' \in Nat
               /\ current_time' > current_time
               /\ current_time' - current_time \in 1 .. scenario.resolution_ms
               /\ accumulator' = add_segment(accumulator, summary, current_time' - current_time)
               /\ UNCHANGED <<scenario, event_index>>
  BY <1>1, NewSegment
<1> DEFINE n == Len(timeline)
<1>3. /\ n \in Nat /\ DOMAIN timeline = 1 .. n /\ DOMAIN timeline' = 1 .. n + 1
      /\ Len(timeline') = n + 1
      /\ IsSeq(timeline')
      /\ \A i \in 1 .. n : timeline'[i] = timeline[i]
      /\ timeline'[n + 1] = s
  BY <1>1, <1>2, Appended
<1>4. /\ accumulator'.unserved_energy_mj =
           accumulator.unserved_energy_mj + s.unserved_w * (s.end_ms - s.start_ms)
      /\ accumulator'.interruption_duration_ms =
           accumulator.interruption_duration_ms
             + IF s.unserved_w > 0 THEN s.end_ms - s.start_ms ELSE 0
  BY <1>2 DEF add_segment, SafetyInv, Balanced, AccumulatorFields
<1>5. /\ accumulator'.unserved_energy_mj = Total(UnservedEnergy(timeline'))
      /\ accumulator'.interruption_duration_ms = Total(Interruption(timeline'))
  <2>1. /\ accumulator.unserved_energy_mj = Total(UnservedEnergy(timeline))
        /\ accumulator.interruption_duration_ms = Total(Interruption(timeline))
    BY TilesUnfolded DEF TileInv
  <2>2. /\ Total(UnservedEnergy(timeline'))
             = Total(UnservedEnergy(timeline)) + s.unserved_w * (s.end_ms - s.start_ms)
        /\ Total(Interruption(timeline'))
             = Total(Interruption(timeline))
                 + IF s.unserved_w > 0 THEN s.end_ms - s.start_ms ELSE 0
    BY <1>2, TotalsGrow
  <2> QED
    BY <1>4, <2>1, <2>2
<1>6. accumulator'.interruption_duration_ms \in Nat
  <2> DEFINE more == s.end_ms - s.start_ms
             before == accumulator.interruption_duration_ms
  <2>1. more \in Nat /\ before \in Nat
    BY <1>2 DEF TileInv
  <2> HIDE DEF more, before
  <2>2. before + (IF s.unserved_w > 0 THEN more ELSE 0) \in Nat
    BY <2>1
  <2> QED
    BY <1>4, <2>2 DEF more, before
<1>7. current_time' = timeline'[Len(timeline')].end_ms /\ timeline' # << >>
  BY <1>2, <1>3
<1>8. \A j \in DOMAIN scenario.events :
        scenario.events[j].time_ms \notin current_time + 1 .. current_time' - 1
  BY NoEventInside DEF TileInv
<1>9. current_time = IF n = 0 THEN 0 ELSE timeline[n].end_ms
  BY <1>1, <1>3, TilesUnfolded DEF TileInv, IsSeq
<1>10. ASSUME NEW i \in 1 .. n + 1
       PROVE  /\ timeline'[i].start_ms \in Nat
              /\ timeline'[i].end_ms \in Nat
              /\ timeline'[i].end_ms <= current_time'
              /\ timeline'[i].unserved_w \in Nat
              /\ timeline'[i].start_ms = IF i = 1 THEN 0 ELSE timeline'[i - 1].end_ms
              /\ timeline'[i].end_ms - timeline'[i].start_ms \in 1 .. scenario.resolution_ms
              /\ \A j \in DOMAIN scenario.events :
                   scenario.events[j].time_ms \notin
                     timeline'[i].start_ms + 1 .. timeline'[i].end_ms - 1
  <2>1. CASE i \in 1 .. n
    <3>1. timeline'[i] = timeline[i] /\ (i # 1 => timeline'[i - 1] = timeline[i - 1])
      BY <1>3, <2>1
    <3>2. /\ timeline[i].start_ms \in Nat
          /\ timeline[i].end_ms \in Nat
          /\ timeline[i].end_ms <= current_time
          /\ timeline[i].unserved_w \in Nat
          /\ timeline[i].start_ms = IF i = 1 THEN 0 ELSE timeline[i - 1].end_ms
          /\ timeline[i].end_ms - timeline[i].start_ms \in 1 .. scenario.resolution_ms
          /\ \A j \in DOMAIN scenario.events :
               scenario.events[j].time_ms \notin
                 timeline[i].start_ms + 1 .. timeline[i].end_ms - 1
      BY <1>3, <2>1 DEF TileInv, TimelineTiles, Segments, Duration
    <3>3. timeline[i].end_ms <= current_time'
      BY <1>2, <3>2
    <3> QED
      BY <3>1, <3>2, <3>3
  <2>2. CASE i \notin 1 .. n
    <3>1. i = n + 1 /\ timeline'[i] = s
      BY <1>3, <2>2
    <3>2. i # 1 => timeline'[i - 1] = timeline[n] /\ n # 0
      BY <1>3, <3>1
    <3>3. s.start_ms = IF i = 1 THEN 0 ELSE timeline'[i - 1].end_ms
      <4>1. CASE n = 0
        BY <1>2, <1>9, <3>1, <4>1
      <4>2. CASE n # 0
        <5>1. i # 1
          BY <1>3, <3>1, <4>2
        <5> QED
          BY <1>2, <1>9, <3>2, <4>2, <5>1
      <4> QED
        BY <4>1, <4>2
    <3> QED
      BY <1>2, <1>8, <3>1, <3>3
  <2> QED
    BY <2>1, <2>2
<1>11. \A j \in 1 .. event_index' : scenario'.events[j].time_ms <= current_time'
  <2> SUFFICES ASSUME NEW j \in 1 .. event_index PROVE scenario.events[j].time_ms <= current_time'
    BY <1>2
  <2>1. scenario.events[j].time_ms \in Nat /\ scenario.events[j].time_ms <= current_time
    <3>1. scenario \in Scenarios /\ event_index \in 0 .. Len(scenario.events)
      BY DEF SafetyInv, Ahead
    <3>2. j \in 1 .. Len(scenario.events)
      BY <3>1, ScenarioFacts
    <3>3. scenario.events[j].time_ms <= current_time
      BY DEF TileInv
    <3> QED
      BY <3>1, <3>2, <3>3, ScenarioFacts
  <2> QED
    BY <1>2, <2>1
<1>12. TimelineTiles'
  BY <1>2, <1>3, <1>5, <1>7, <1>10
     DEF TimelineTiles, UnservedEnergy, Interruption, Segments, Duration
<1> QED
  BY <1>3, <1>6, <1>10, <1>11, <1>12 DEF TileInv, Segments

\* Every step keeps TileInv.
LEMMA NextTileInv ==
  ASSUME SafetyInv, SafetyInv', TileInv, [Next]_vars PROVE TileInv'
<1>1. CASE RunSegment
  BY <1>1, SegmentTiles
<1>2. CASE ~ RunSegment
  <2>1. /\ UNCHANGED <<scenario, timeline, accumulator, current_time>>
        /\ \/ UNCHANGED event_index
           \/ /\ event_index' = event_index + 1
              /\ scenario.events[event_index + 1].time_ms = current_time
    <3>1. CASE ProcessExternal
      BY <3>1, NextEvent DEF SafetyInv, ProcessExternal
    <3>2. CASE ~ ProcessExternal
      BY <1>2, <3>2 DEF Next, BeginGroup, NothingDue, RejectParallelSources,
         RejectInexactMilestone, NoTimePasses, ProcessInternal, Finish, Stopped, vars, run
    <3> QED
      BY <3>1, <3>2
  <2>2. \A j \in 1 .. event_index' : scenario'.events[j].time_ms <= current_time'
    <3>1. event_index \in Nat /\ current_time \in Nat
      BY ScenarioFacts DEF SafetyInv, Ahead, EngineTypes
    <3> QED
      BY <2>1, <3>1 DEF TileInv
  <2>3. TimelineTiles'
    BY <2>1 DEF TileInv, TimelineTiles, Segments, Duration
  <2> QED
    BY <2>1, <2>2, <2>3 DEF TileInv, Segments
<1> QED
  BY <1>1, <1>2

\* TileInv holds in the initial states.
LEMMA InitTileInv == ASSUME Init PROVE TileInv
<1>1. timeline = << >> /\ current_time = 0 /\ event_index = 0 /\ accumulator = EmptyAccumulator
  BY DEF Init
<1>2. Len(timeline) = 0 /\ DOMAIN timeline = {} /\ IsSeq(timeline)
  BY <1>1 DEF IsSeq
<1>3. Total(UnservedEnergy(timeline)) = 0 /\ Total(Interruption(timeline)) = 0
  <2>1. UnservedEnergy(timeline) \in [{} -> Int] /\ Interruption(timeline) \in [{} -> Int]
    BY <1>2 DEF UnservedEnergy, Interruption
  <2> QED
    BY <2>1, TotalOfNone
<1>4. accumulator.unserved_energy_mj = 0 /\ accumulator.interruption_duration_ms = 0
  BY <1>1 DEF EmptyAccumulator
<1>5. TimelineTiles
  BY <1>1, <1>2, <1>3, <1>4, TilesUnfolded DEF Segments
<1> QED
  BY <1>1, <1>2, <1>4, <1>5 DEF TileInv, Segments

\* TileInv is an invariant.
LEMMA TileInvariant == Spec => []TileInv
<1>1. Init => TileInv
  BY InitTileInv
<1>2. SafetyInv /\ SafetyInv' /\ TileInv /\ [Next]_vars => TileInv'
  BY NextTileInv
<1> QED
  BY <1>1, <1>2, SafetyInvariant, PTL DEF Spec

-----------------------------------------------------------------------------
(* The causes.                                                             *)

Before(time) == {j \in DOMAIN transitions : transitions[j].time_ms <= time}

AlarmCaused(n) ==
  \E j \in DOMAIN transitions :
    /\ transitions[j].event_id = ledger.alarms[n].causal_event_id
    /\ transitions[j].time_ms = ledger.alarms[n].time_ms
    /\ n \in transitions[j].alarms_raised

CauseInv ==
  /\ Len(transitions) # 0
  /\ \A j \in DOMAIN transitions : transitions[j].time_ms \in 0 .. current_time
  /\ causes = transitions[Len(transitions)].event_id
  /\ \A i \in Segments : /\ Before(timeline[i].start_ms) # {}
                         /\ timeline[i].cause
                              = transitions[Max(Before(timeline[i].start_ms))].event_id
  /\ \A n \in DOMAIN ledger.alarms : AlarmCaused(n)

\* A transition comes after every segment of the timeline.
LEMMA TransitionCauses ==
  ASSUME SafetyInv, AlarmInv, TileInv, CauseInv, UNCHANGED <<timeline, current_time>>,
         NEW id, causes' = id, Records(id), Grows(ledger, ledger', current_time, id)
  PROVE  CauseInv'
<1>1. PICK t : /\ transitions' = Append(transitions, t)
               /\ t.time_ms = current_time
               /\ t.event_id = id
               /\ \A k : IsActive(ledger', k) /\ ~ IsActive(ledger, k) =>
                           ledger'.active[k] \in t.alarms_raised
  BY DEF Records
<1> DEFINE n == Len(transitions)
<1>2. /\ n \in Nat /\ DOMAIN transitions = 1 .. n /\ DOMAIN transitions' = 1 .. n + 1
      /\ Len(transitions') = n + 1
      /\ \A j \in 1 .. n : transitions'[j] = transitions[j]
      /\ transitions'[n + 1] = t
  BY <1>1, Appended DEF AlarmInv
<1>3. current_time \in Nat
  BY DEF SafetyInv, Ahead, EngineTypes
<1>4. \A j \in DOMAIN transitions' : transitions'[j].time_ms \in 0 .. current_time'
  <2> TAKE j \in DOMAIN transitions'
  <2>1. CASE j \in 1 .. n
    BY <1>2, <2>1 DEF CauseInv
  <2>2. CASE j \notin 1 .. n
    <3>1. j = n + 1
      BY <1>2, <2>2
    <3> QED
      BY <1>1, <1>2, <1>3, <3>1
  <2> QED
    BY <2>1, <2>2
<1>5. ASSUME NEW i \in Segments
      PROVE  /\ Before(timeline[i].start_ms)' # {}
             /\ timeline'[i].cause = transitions'[Max(Before(timeline[i].start_ms)')].event_id
  <2> DEFINE start == timeline[i].start_ms
             b == Before(start)
             bNext == Before(start)'
  <2>1. start \in Nat /\ start < current_time
    <3>1. /\ start \in Nat /\ timeline[i].end_ms \in Nat /\ timeline[i].end_ms <= current_time
      BY DEF TileInv
    <3>2. timeline[i].end_ms - start \in 1 .. scenario.resolution_ms
      BY DEF TileInv, TimelineTiles, Duration
    <3> HIDE DEF start
    <3> QED
      BY <1>3, <3>1, <3>2
  <2>2. bNext = b
    <3>1. ASSUME NEW j PROVE j \in bNext <=> j \in b
      <4>1. CASE j \in 1 .. n
        BY <1>2, <4>1 DEF Before
      <4>2. CASE j = n + 1
        <5>1. ~ (t.time_ms <= start)
          BY <1>1, <1>3, <2>1
        <5> QED
          BY <1>2, <4>2, <5>1 DEF Before
      <4>3. CASE j \notin 1 .. n + 1
        BY <1>2, <4>3 DEF Before
      <4> QED
        BY <1>2, <4>1, <4>2, <4>3
    <3> HIDE DEF b, bNext
    <3> QED
      BY <3>1
  <2>3. b \in SUBSET (1 .. n) /\ b # {} /\ timeline[i].cause = transitions[Max(b)].event_id
    BY <1>2 DEF CauseInv, Before
  <2> HIDE DEF b, bNext
  <2>4. Max(b) \in 1 .. n
    BY <1>2, <2>3, MaxOfPositions
  <2>5. bNext # {} /\ timeline'[i].cause = transitions'[Max(bNext)].event_id
    BY <1>2, <2>2, <2>3, <2>4
  <2> QED
    BY <2>5 DEF bNext
<1>6. ASSUME NEW a \in DOMAIN ledger'.alarms PROVE AlarmCaused(a)'
  <2>1. /\ DOMAIN ledger'.alarms = 1 .. Len(ledger'.alarms)
        /\ DOMAIN ledger.alarms = 1 .. Len(ledger.alarms)
        /\ Len(ledger.alarms) \in Nat /\ Len(ledger'.alarms) \in Nat
    BY Appended DEF Grows, AlarmInv, LedgerOK
  <2>2. CASE a \in 1 .. Len(ledger.alarms)
    <3>1. PICK j \in DOMAIN transitions :
            /\ transitions[j].event_id = ledger.alarms[a].causal_event_id
            /\ transitions[j].time_ms = ledger.alarms[a].time_ms
            /\ a \in transitions[j].alarms_raised
      BY <2>1, <2>2 DEF CauseInv, AlarmCaused
    <3>2. ledger'.alarms[a] = ledger.alarms[a]
      BY <2>2 DEF Grows
    <3>3. j \in DOMAIN transitions' /\ transitions'[j] = transitions[j]
      BY <1>2, <3>1
    <3> QED
      BY <3>1, <3>2, <3>3 DEF AlarmCaused
  <2>3. CASE a \notin 1 .. Len(ledger.alarms)
    <3>1. a \in Len(ledger.alarms) + 1 .. Len(ledger'.alarms)
      BY <2>1, <2>3
    <3>2. PICK k : IsActive(ledger', k) /\ ~ IsActive(ledger, k) /\ ledger'.active[k] = a
      BY <3>1 DEF Grows
    <3>3. /\ ledger'.alarms[a].time_ms = current_time
          /\ ledger'.alarms[a].causal_event_id = id
      BY <3>1 DEF Grows
    <3>4. n + 1 \in DOMAIN transitions' /\ transitions'[n + 1] = t
      BY <1>2
    <3> QED
      BY <1>1, <3>2, <3>3, <3>4 DEF AlarmCaused
  <2> QED
    BY <2>2, <2>3
<1>7. causes' = transitions'[Len(transitions')].event_id /\ Len(transitions') # 0
  BY <1>1, <1>2
<1> QED
  BY <1>4, <1>5, <1>6, <1>7 DEF CauseInv, Segments

\* A new segment names the last transition.
LEMMA SegmentCause ==
  ASSUME SafetyInv, SafetyInv', AlarmInv, TileInv, CauseInv, RunSegment PROVE CauseInv'
<1>1. PICK s : /\ timeline' = Append(timeline, s)
               /\ s.start_ms = current_time
               /\ s.cause = causes
               /\ current_time \in Nat /\ current_time' \in Nat
               /\ current_time' > current_time
               /\ UNCHANGED <<ledger, transitions, causes>>
  BY NewSegment DEF TileInv
<1> DEFINE n == Len(transitions)
           m == Len(timeline)
<1>2. /\ n \in Nat /\ DOMAIN transitions = 1 .. n
      /\ m \in Nat /\ DOMAIN timeline = 1 .. m /\ DOMAIN timeline' = 1 .. m + 1
      /\ \A i \in 1 .. m : timeline'[i] = timeline[i]
      /\ timeline'[m + 1] = s
  BY <1>1, Appended DEF AlarmInv, TileInv
<1>3. \A j \in 1 .. n : transitions[j].time_ms \in 0 .. current_time
  BY <1>2 DEF CauseInv
<1>4. n # 0 /\ causes = transitions[n].event_id
  BY DEF CauseInv
<1>5. Before(current_time) = 1 .. n
  BY <1>1, <1>2, <1>3 DEF Before
<1> DEFINE b == Before(current_time)
<1>6. Max(b) = n
  <2>1. b = 1 .. n
    BY <1>5
  <2> HIDE DEF b, n
  <2>2. b \in SUBSET (1 .. n) /\ b # {} /\ n \in b
    BY <1>2, <1>4, <2>1
  <2>3. Max(b) \in 1 .. n /\ n <= Max(b)
    BY <1>2, <2>2, MaxOfPositions
  <2> DEFINE last == Max(b)
  <2>4. last \in 1 .. n /\ n <= last
    BY <2>3
  <2> HIDE DEF last
  <2>5. last = n
    BY <1>2, <2>4
  <2> QED
    BY <2>5 DEF last
<1>7. ASSUME NEW i \in Segments'
      PROVE  /\ Before(timeline'[i].start_ms) # {}
             /\ timeline'[i].cause = transitions[Max(Before(timeline'[i].start_ms))].event_id
  <2>1. CASE i \in 1 .. m
    <3>1. timeline'[i] = timeline[i] /\ i \in Segments
      BY <1>2, <2>1 DEF Segments
    <3> QED
      BY <3>1 DEF CauseInv
  <2>2. CASE i \notin 1 .. m
    <3>1. timeline'[i] = s
      BY <1>2, <1>7, <2>2 DEF Segments
    <3>2. b # {}
      BY <1>2, <1>4, <1>5
    <3> HIDE DEF n
    <3> QED
      BY <1>1, <1>4, <1>6, <3>1, <3>2
  <2> QED
    BY <2>1, <2>2
<1>8. \A j \in DOMAIN transitions' : transitions'[j].time_ms \in 0 .. current_time'
  BY <1>1, <1>2, <1>3
<1>9. \A i \in Segments' :
        /\ Before(timeline[i].start_ms)' # {}
        /\ timeline'[i].cause = transitions'[Max(Before(timeline[i].start_ms)')].event_id
  BY <1>1, <1>7 DEF Before
<1>10. \A a \in DOMAIN ledger'.alarms : AlarmCaused(a)'
  BY <1>1 DEF CauseInv, AlarmCaused
<1> QED
  BY <1>1, <1>4, <1>8, <1>9, <1>10 DEF CauseInv

\* Every step keeps CauseInv.
LEMMA NextCauseInv ==
  ASSUME SafetyInv, SafetyInv', AlarmInv, TileInv, CauseInv, [Next]_vars
  PROVE  CauseInv'
<1>1. CASE RunSegment
  BY <1>1, SegmentCause
<1>2. CASE ProcessExternal
  <2> DEFINE id == EventId(scenario.events[event_index + 1])
  <2>1. UNCHANGED <<timeline, current_time>> /\ causes' = id
    BY <1>2 DEF ProcessExternal
  <2>2. Records(id) /\ Grows(ledger, ledger', current_time, id)
    BY <1>2, ExternalRecords
  <2> HIDE DEF id
  <2> QED
    BY <2>1, <2>2, TransitionCauses
<1>3. CASE ProcessInternal
  <2> DEFINE id == InternalId(milestone.kind, milestone.component_id, current_time)
  <2>1. UNCHANGED <<timeline, current_time>> /\ causes' = id
    BY <1>3 DEF ProcessInternal
  <2>2. Records(id) /\ Grows(ledger, ledger', current_time, id)
    BY <1>3, InternalRecords
  <2> HIDE DEF id
  <2> QED
    BY <2>1, <2>2, TransitionCauses
<1>4. CASE ~ (RunSegment \/ ProcessExternal \/ ProcessInternal)
  <2>1. UNCHANGED <<timeline, current_time, transitions, causes, ledger>>
    BY <1>4 DEF Next, BeginGroup, NothingDue, RejectParallelSources,
       RejectInexactMilestone, NoTimePasses, Finish, Stopped, vars, run
  <2> QED
    BY <2>1 DEF CauseInv, AlarmCaused, Before, Segments
<1> QED
  BY <1>1, <1>2, <1>3, <1>4

\* CauseInv holds in the initial states.
LEMMA InitCauseInv == ASSUME Init PROVE CauseInv
<1> DEFINE t == Record(0, Initialized, "system_initialization", 0, EmptyLedger, ledger, {})
<1>1. /\ ledger = service_alarms(EmptyLedger, 0, Initialized, 0, summary.unserved_w)
      /\ transitions = << t >>
      /\ timeline = << >> /\ current_time = 0 /\ causes = Initialized
      /\ summary.unserved_w \in Nat
  BY InitSafetyInv DEF Init, SafetyInv, Ahead, EngineTypes, Summary
<1>2. /\ t.time_ms = 0 /\ t.event_id = Initialized
      /\ \A k : IsActive(ledger, k) /\ ~ IsActive(EmptyLedger, k) =>
                  ledger.active[k] \in t.alarms_raised
  BY RecordFacts
<1> HIDE DEF t
<1>3. Len(transitions) = 1 /\ DOMAIN transitions = {1} /\ transitions[1] = t
  BY <1>1
<1>4. LedgerOK(EmptyLedger) /\ Len(EmptyLedger.alarms) = 0 /\ \A k : ~ IsActive(EmptyLedger, k)
  BY DEF LedgerOK, EmptyLedger, IsSeq, IsActive
<1>5. Touches(EmptyLedger, ledger, LoadUnserved, 0, Initialized)
  BY <1>1, <1>4, ServiceFacts
<1>6. ASSUME NEW a \in DOMAIN ledger.alarms PROVE AlarmCaused(a)
  <2>1. DOMAIN ledger.alarms = 1 .. Len(ledger.alarms) /\ Len(ledger.alarms) \in Nat
    BY <1>5, Appended DEF Touches, LedgerOK
  <2>2. /\ Len(ledger.alarms) = 1 /\ a = 1
        /\ ~ IsActive(EmptyLedger, LoadUnserved) /\ IsActive(ledger, LoadUnserved)
        /\ ledger.active[LoadUnserved] = 1
        /\ ledger.alarms[1] = AlarmOf(0, LoadUnserved, Initialized)
    BY <1>4, <1>5, <2>1 DEF Touches
  <2> QED
    BY <1>2, <1>3, <2>2 DEF AlarmCaused, AlarmOf
<1>7. Segments = {}
  BY <1>1 DEF Segments
<1> QED
  BY <1>1, <1>2, <1>3, <1>6, <1>7 DEF CauseInv

\* CauseInv is an invariant.
LEMMA CauseInvariant == Spec => []CauseInv
<1>1. Init => CauseInv
  BY InitCauseInv
<1>2. SafetyInv /\ SafetyInv' /\ AlarmInv /\ TileInv /\ CauseInv /\ [Next]_vars => CauseInv'
  BY NextCauseInv
<1> QED
  BY <1>1, <1>2, SafetyInvariant, AlarmInvariant, TileInvariant, PTL DEF Spec

\* The timeline records the whole run: its segments tile the time from 0, the totals of
\* the accumulator are their sums, each names the transition that was in force, and each
\* alarm a transition of its time that lists it.
THEOREM TimelineIsTrueHolds == Spec => []TimelineIsTrue
<1>1. ASSUME AlarmInv, CauseInv PROVE CausesRecorded
  <2>1. \A n \in DOMAIN ledger.alarms : \E t \in Range(transitions) :
          /\ t.event_id = ledger.alarms[n].causal_event_id
          /\ t.time_ms = ledger.alarms[n].time_ms
          /\ n \in t.alarms_raised
    BY <1>1 DEF CauseInv, AlarmCaused, Range
  <2> QED
    BY <1>1, <2>1 DEF CausesRecorded, CauseInv, Before
<1>2. TileInv => TimelineTiles
  BY DEF TileInv
<1> QED
  BY <1>1, <1>2, AlarmInvariant, TileInvariant, CauseInvariant, PTL DEF TimelineIsTrue

-----------------------------------------------------------------------------
(* The figures.                                                            *)

Short == {"no_path", "partial_service"}

\* The redundancy state tells whether load is dropped.
Tells(sum) == sum.unserved_w > 0 <=> sum.redundancy_state \in Short

Dropped(l) == {n \in DOMAIN l.alarms : l.alarms[n].code = "load_unserved"}

Unreported == IF IsActive(ledger, LoadUnserved) /\ ~ accumulator.previous_unserved THEN 1 ELSE 0

Agree(acc) ==
  /\ acc.interruption_duration_ms \in Nat
  /\ acc.interruption_count \in Nat
  /\ acc.previous_unserved \in BOOLEAN
  /\ acc.redundancy_states \subseteq Range(RedundancyStates)
  /\ acc.previous_unserved => acc.interruption_duration_ms > 0
  /\ acc.interruption_duration_ms > 0 <=> acc.interruption_count > 0
  /\ acc.interruption_duration_ms > 0 <=> acc.unserved_energy_mj > 0
  /\ acc.interruption_duration_ms > 0 <=> acc.redundancy_states \cap Short # {}

MetricsInv ==
  /\ Tells(summary)
  /\ Agree(accumulator)
  /\ accumulator.interruption_count + Unreported <= Cardinality(Dropped(ledger))
  /\ outcome = "completed" => metrics = build_metrics(accumulator)

\* The redundancy state of every allocation tells.
LEMMA SolutionTells ==
  ASSUME NEW s \in RuntimeState, Charged(s)
  PROVE  Tells(solve_capacity(s))
<1> DEFINE sum == solve_capacity(s)
<1>1. sum \in Summary
  BY SolutionIsSound
<1>2. PICK n, live, batteries, used, demand, served :
        sum = Summarize(n, live, batteries, used, demand, served)
  <2> DEFINE live == NonBatterySources(s)
             batteries == BatterySources(s)
             n == Network(s)
             used == allocate(n, live, batteries)
  <2>1. sum = Summarize(n, live, batteries, used, Total(n.demand_w), Total(used.load))
    BY DEF solve_capacity
  <2> QED
    BY <2>1
<1> HIDE DEF sum
<1>3. /\ sum.demand_w = demand /\ sum.served_w = served /\ sum.unserved_w = demand - served
      /\ sum.redundancy_state = redundancy_state(n, live, batteries, demand, served)
  BY <1>2 DEF Summarize
<1>4. demand \in Nat /\ served \in Nat /\ demand - served \in Nat
  BY <1>1, <1>3 DEF Summary
<1> DEFINE level == redundancy_state(n, live, batteries, demand, served)
<1>5. /\ demand = 0 => level = "no_demand"
      /\ demand # 0 /\ served = 0 => level = "no_path"
      /\ demand # 0 /\ served # 0 /\ served < demand => level = "partial_service"
      /\ demand # 0 /\ served # 0 /\ ~ (served < demand) =>
           level \in {"two_n", "single_path", "battery_backed", "supported"}
  BY DEF redundancy_state
<1> HIDE DEF level
<1>6. demand - served > 0 <=> level \in Short
  BY <1>4, <1>5 DEF Short
<1> QED
  BY <1>3, <1>6 DEF Tells, sum, level

\* The set of alarms of the service, from one ledger to the next.
LEMMA DroppedGrows ==
  ASSUME NEW l, LedgerOK(l), NEW m, NEW time, NEW cause, Grows(l, m, time, cause)
  PROVE  /\ Cardinality(Dropped(l)) \in Nat /\ Cardinality(Dropped(m)) \in Nat
         /\ Cardinality(Dropped(l)) <= Cardinality(Dropped(m))
         /\ IsActive(m, LoadUnserved) /\ ~ IsActive(l, LoadUnserved) =>
              Cardinality(Dropped(l)) + 1 <= Cardinality(Dropped(m))
<1> DEFINE a == Len(l.alarms)
           b == Len(m.alarms)
           d == Dropped(l)
           e == Dropped(m)
<1>1. /\ a \in Nat /\ b \in Nat /\ a <= b
      /\ DOMAIN l.alarms = 1 .. a /\ DOMAIN m.alarms = 1 .. b
      /\ \A n \in 1 .. a : m.alarms[n] = l.alarms[n]
  BY Appended DEF Grows, LedgerOK
<1> HIDE DEF a, b
<1>2. d \subseteq 1 .. a /\ e \subseteq 1 .. b /\ d \subseteq e
  BY <1>1 DEF Dropped
<1>3. IsFiniteSet(e) /\ IsFiniteSet(d)
  <2>1. IsFiniteSet(1 .. b)
    <3>1. 1 \in Int /\ b \in Int
      BY <1>1
    <3> QED
      BY <3>1, FS_Interval
  <2> HIDE DEF d, e
  <2> QED
    BY <1>2, <2>1, FS_Subset
<1>4. ASSUME IsActive(m, LoadUnserved), ~ IsActive(l, LoadUnserved)
      PROVE  \E n : n \in e /\ n \notin d
  <2> DEFINE n == m.active[LoadUnserved]
  <2>1. n \in a + 1 .. b
    BY <1>4 DEF Grows, a, b
  <2>2. m.alarms[n].code = LoadUnserved[1]
    BY <1>4 DEF Grows, LedgerOK, IsActive
  <2>3. n \in 1 .. b /\ n \notin 1 .. a
    BY <1>1, <2>1
  <2> QED
    BY <1>1, <1>2, <2>2, <2>3 DEF Dropped, LoadUnserved
<1> HIDE DEF d, e
<1>5. Cardinality(d) \in Nat /\ Cardinality(e) \in Nat /\ Cardinality(d) <= Cardinality(e)
  BY <1>2, <1>3, FS_CardinalityType, FS_Subset
<1>6. ASSUME NEW n, n \in e, n \notin d PROVE Cardinality(d) + 1 <= Cardinality(e)
  <2>1. Cardinality(d) # Cardinality(e)
    BY <1>2, <1>3, <1>6, FS_Subset
  <2> QED
    BY <1>5, <2>1
<1> QED
  BY <1>4, <1>5, <1>6 DEF d, e

\* One more segment counts in all figures or in none.
LEMMA SegmentAgrees ==
  ASSUME NEW acc, Balanced(acc), Agree(acc), NEW sum \in Summary, Tells(sum),
         NEW duration \in Nat \ {0}
  PROVE  LET next == add_segment(acc, sum, duration)
         IN  /\ Agree(next)
             /\ next.previous_unserved = (sum.unserved_w > 0)
             /\ next.interruption_count
                  = acc.interruption_count
                      + IF sum.unserved_w > 0 /\ ~ acc.previous_unserved THEN 1 ELSE 0
<1> DEFINE next == add_segment(acc, sum, duration)
           short == sum.unserved_w > 0
           energy == sum.unserved_w * duration
<1>1. /\ sum.unserved_w \in Nat
      /\ sum.redundancy_state \in Range(RedundancyStates)
      /\ short <=> sum.redundancy_state \in Short
  BY DEF Summary, Tells
<1>2. /\ next.unserved_energy_mj = acc.unserved_energy_mj + energy
      /\ next.interruption_duration_ms =
           acc.interruption_duration_ms + IF short THEN duration ELSE 0
      /\ next.interruption_count =
           acc.interruption_count + IF short /\ ~ acc.previous_unserved THEN 1 ELSE 0
      /\ next.previous_unserved = short
      /\ next.redundancy_states = acc.redundancy_states \cup {sum.redundancy_state}
  BY DEF add_segment, Interrupted, Balanced, AccumulatorFields
<1>3. energy \in Nat /\ (energy > 0 <=> short)
  BY <1>1
<1>4. /\ acc.unserved_energy_mj \in Nat
      /\ acc.interruption_duration_ms \in Nat /\ acc.interruption_count \in Nat
  BY DEF Balanced, Agree
<1> HIDE DEF next, short, energy
<1>5. CASE short
  <2>1. /\ next.interruption_duration_ms = acc.interruption_duration_ms + duration
        /\ next.unserved_energy_mj = acc.unserved_energy_mj + energy /\ energy > 0
        /\ next.redundancy_states \cap Short # {}
    BY <1>1, <1>2, <1>3, <1>5
  <2>2. next.interruption_count \in Nat /\ next.interruption_count > 0
    <3>1. CASE acc.previous_unserved
      <4>1. acc.interruption_count > 0 /\ next.interruption_count = acc.interruption_count + 0
        BY <1>2, <3>1 DEF Agree
      <4> QED
        BY <1>4, <4>1
    <3>2. CASE ~ acc.previous_unserved
      <4>1. next.interruption_count = acc.interruption_count + 1
        BY <1>2, <1>5, <3>2
      <4> QED
        BY <1>4, <4>1
    <3> QED
      BY <3>1, <3>2
  <2>3. /\ next.interruption_duration_ms \in Nat /\ next.interruption_duration_ms > 0
        /\ next.unserved_energy_mj > 0
    BY <1>3, <1>4, <2>1
  <2>4. next.redundancy_states \subseteq Range(RedundancyStates)
    BY <1>1, <1>2 DEF Agree
  <2>5. next.previous_unserved \in BOOLEAN
    BY <1>2, <1>5
  <2>6. Agree(next)
    BY <2>1, <2>2, <2>3, <2>4, <2>5 DEF Agree
  <2> QED
    BY <1>2, <2>6 DEF next, short
<1>6. CASE ~ short
  <2>1. energy = 0
    BY <1>3, <1>6
  <2>2. /\ next.interruption_duration_ms = acc.interruption_duration_ms
        /\ next.unserved_energy_mj = acc.unserved_energy_mj
        /\ next.interruption_count = acc.interruption_count
        /\ next.previous_unserved = FALSE
    BY <1>2, <1>4, <1>6, <2>1
  <2>3. /\ next.redundancy_states \cap Short = acc.redundancy_states \cap Short
        /\ next.redundancy_states \subseteq Range(RedundancyStates)
    BY <1>1, <1>2, <1>6 DEF Agree
  <2>4. Agree(next)
    BY <2>2, <2>3 DEF Agree
  <2> QED
    BY <1>2, <2>4 DEF next, short
<1> QED
  BY <1>5, <1>6

\* A step that may drop load raises an alarm of it.
LEMMA TransitionAgrees ==
  ASSUME SafetyInv, SafetyInv', AlarmInv, MetricsInv,
         NEW id, Grows(ledger, ledger', current_time, id),
         summary' = solve_capacity(state'), UNCHANGED <<accumulator, metrics>>,
         outcome' # "completed"
  PROVE  MetricsInv'
<1>1. Tells(summary')
  BY SolutionTells DEF SafetyInv, Ahead, EngineTypes
<1>2. Agree(accumulator') /\ accumulator.interruption_count \in Nat
  BY DEF MetricsInv, Agree
<1> DEFINE before == Cardinality(Dropped(ledger))
           after == Cardinality(Dropped(ledger'))
           count == accumulator.interruption_count
           u == Unreported
           v == Unreported'
<1>3. /\ before \in Nat /\ after \in Nat /\ before <= after
      /\ IsActive(ledger', LoadUnserved) /\ ~ IsActive(ledger, LoadUnserved) =>
           before + 1 <= after
  BY DroppedGrows DEF AlarmInv
<1>4. count + u <= before /\ count \in Nat
  BY <1>2 DEF MetricsInv
<1>5. /\ u \in {0, 1} /\ v \in {0, 1}
      /\ v = 1 => IsActive(ledger', LoadUnserved) /\ (u = 1 \/ ~ IsActive(ledger, LoadUnserved))
  BY DEF Unreported
<1> HIDE DEF before, after, count, u, v
<1>6. count + v <= after
  BY <1>3, <1>4, <1>5
<1> QED
  BY <1>1, <1>2, <1>6 DEF MetricsInv, after, count, v

\* Every step keeps MetricsInv.
LEMMA NextMetricsInv ==
  ASSUME SafetyInv, SafetyInv', AlarmInv, TileInv, MetricsInv, [Next]_vars
  PROVE  MetricsInv'
<1>1. CASE ProcessExternal
  <2> DEFINE id == EventId(scenario.events[event_index + 1])
  <2>1. /\ summary' = solve_capacity(state') /\ UNCHANGED <<accumulator, metrics>>
        /\ outcome' # "completed"
    BY <1>1 DEF ProcessExternal, Continue, Fault
  <2>2. Grows(ledger, ledger', current_time, id)
    BY <1>1, ExternalRecords
  <2> HIDE DEF id
  <2> QED
    BY <2>1, <2>2, TransitionAgrees
<1>2. CASE ProcessInternal
  <2> DEFINE id == InternalId(milestone.kind, milestone.component_id, current_time)
  <2>1. /\ summary' = solve_capacity(state') /\ UNCHANGED <<accumulator, metrics>>
        /\ outcome' # "completed"
    BY <1>2 DEF ProcessInternal, Continue, Fault
  <2>2. Grows(ledger, ledger', current_time, id)
    BY <1>2, InternalRecords
  <2> HIDE DEF id
  <2> QED
    BY <2>1, <2>2, TransitionAgrees
<1>3. CASE RunSegment
  <2> DEFINE duration == current_time' - current_time
             short == summary.unserved_w > 0
             next == add_segment(accumulator, summary, duration)
             count == accumulator.interruption_count
  <2>1. /\ accumulator' = next
        /\ current_time \in Nat /\ current_time' \in Nat /\ current_time' > current_time
        /\ UNCHANGED <<summary, ledger>>
    BY <1>3, NewSegment DEF TileInv
  <2>2. duration \in Nat \ {0}
    <3>1. duration \in Nat /\ duration # 0
      <4>1. current_time \in Nat /\ current_time' \in Nat /\ current_time' > current_time
        BY <2>1
      <4>2. \A a, b \in Nat : b > a => b - a \in Nat /\ b - a # 0
        OBVIOUS
      <4> QED
        BY <4>1, <4>2
    <3> HIDE DEF duration
    <3> QED
      BY <3>1
  <2>3. /\ summary \in Summary /\ Tells(summary)
        /\ Balanced(accumulator) /\ Agree(accumulator)
    BY DEF SafetyInv, Ahead, EngineTypes, MetricsInv
  <2>4. /\ Agree(next)
        /\ next.previous_unserved = short
        /\ next.interruption_count
             = count + IF short /\ ~ accumulator.previous_unserved THEN 1 ELSE 0
    <3> HIDE DEF duration
    <3> QED
      BY <2>2, <2>3, SegmentAgrees
  <2>5. IsActive(ledger, LoadUnserved) <=> short
    BY <1>3 DEF AlarmInv, RunSegment, AtLoopHead, SafetyInv
  <2>6. outcome' # "completed"
    BY <1>3 DEF RunSegment, Continue
  <2> HIDE DEF next, short
  <2>7. next.interruption_count + Unreported' = count + Unreported
    <3>1. Unreported' = 0
      BY <2>1, <2>4, <2>5 DEF Unreported
    <3>2. Unreported = IF short /\ ~ accumulator.previous_unserved THEN 1 ELSE 0
      BY <2>5 DEF Unreported
    <3>3. count \in Nat
      BY <2>3 DEF Agree
    <3> QED
      BY <2>4, <3>1, <3>2, <3>3
  <2> QED
    BY <2>1, <2>3, <2>4, <2>6, <2>7 DEF MetricsInv
<1>4. CASE ~ (ProcessExternal \/ ProcessInternal \/ RunSegment)
  <2>1. /\ UNCHANGED <<summary, accumulator, ledger>>
        /\ outcome' = "completed" =>
             \/ metrics' = build_metrics(accumulator)
             \/ UNCHANGED <<outcome, metrics>>
    BY <1>4 DEF Next, BeginGroup, NothingDue, RejectParallelSources,
       RejectInexactMilestone, NoTimePasses, Finish, Stopped, vars, run
  <2> QED
    BY <2>1 DEF MetricsInv, Unreported
<1> QED
  BY <1>1, <1>2, <1>3, <1>4

\* MetricsInv holds in the initial states.
LEMMA InitMetricsInv == ASSUME Init PROVE MetricsInv
<1>1. /\ summary = solve_capacity(initial_state) /\ accumulator = EmptyAccumulator
      /\ ledger = service_alarms(EmptyLedger, 0, Initialized, 0, summary.unserved_w)
      /\ summary.unserved_w \in Nat
      /\ outcome = "running"
  BY InitSafetyInv, InitiallyRunning DEF Init, SafetyInv, Ahead, EngineTypes, Summary
<1>2. Tells(summary)
  BY <1>1, InitialStateType, SolutionTells
<1>3. /\ Agree(accumulator)
      /\ accumulator.interruption_count = 0
  BY <1>1 DEF Agree, EmptyAccumulator
<1>4. LedgerOK(EmptyLedger) /\ \A k : ~ IsActive(EmptyLedger, k)
  BY DEF LedgerOK, EmptyLedger, IsSeq, IsActive
<1>5. /\ Touches(EmptyLedger, ledger, LoadUnserved, 0, Initialized)
      /\ Touches(ledger, ledger, <<"component_failed", 0>>, 0, Initialized)
      /\ LoadUnserved # <<"component_failed", 0>>
  <2>1. Touches(EmptyLedger, ledger, LoadUnserved, 0, Initialized)
    BY <1>1, <1>4, ServiceFacts
  <2>2. LedgerOK(ledger)
    BY <2>1 DEF Touches
  <2>3. LoadUnserved # <<"component_failed", 0>>
    BY DEF LoadUnserved
  <2> QED
    BY <2>1, <2>2, <2>3, SameLedger
<1>6. Grows(EmptyLedger, ledger, 0, Initialized)
  BY <1>4, <1>5, TouchTwice
<1>7. Unreported <= Cardinality(Dropped(ledger))
  <2>1. /\ Cardinality(Dropped(EmptyLedger)) \in Nat /\ Cardinality(Dropped(ledger)) \in Nat
        /\ IsActive(ledger, LoadUnserved) =>
             Cardinality(Dropped(EmptyLedger)) + 1 <= Cardinality(Dropped(ledger))
    BY <1>4, <1>6, DroppedGrows
  <2>2. Unreported \in {0, 1} /\ (Unreported = 1 => IsActive(ledger, LoadUnserved))
    BY DEF Unreported
  <2> QED
    BY <2>1, <2>2
<1>8. Unreported \in Nat
  BY DEF Unreported
<1> QED
  BY <1>1, <1>2, <1>3, <1>7, <1>8 DEF MetricsInv

\* MetricsInv is an invariant.
LEMMA MetricsInvariant == Spec => []MetricsInv
<1>1. Init => MetricsInv
  BY InitMetricsInv
<1>2. SafetyInv /\ SafetyInv' /\ AlarmInv /\ TileInv /\ MetricsInv /\ [Next]_vars => MetricsInv'
  BY NextMetricsInv
<1> QED
  BY <1>1, <1>2, SafetyInvariant, AlarmInvariant, TileInvariant, PTL DEF Spec

\* The quotient of a ratio that is not below one, rounded.
LEMMA WholeRatio ==
  ASSUME NEW d \in Nat, d # 0
  PROVE  (d * 1000000 + d \div 2) \div d >= 1000000
<1> DEFINE half == d \div 2
           all == d * 1000000 + half
           q == all \div d
<1>1. half \in Nat /\ all \in Nat
  OBVIOUS
<1>2. all = d * q + (all % d) /\ all % d \in 0 .. d - 1 /\ q \in Nat
  <2> HIDE DEF all
  <2> QED
    BY <1>1
<1>3. all >= 1000000 * d
  BY <1>1
<1> DEFINE r == all % d
           p == d * q
<1>4. r \in 0 .. d - 1 /\ all = p + r
  BY <1>2
<1>5. q < 1000000 => p <= 999999 * d /\ p \in Nat
  <2> SUFFICES ASSUME q < 1000000 PROVE d * q <= 999999 * d /\ d * q \in Nat
    OBVIOUS
  <2>1. q \in Nat /\ q <= 999999 /\ 999999 \in Nat
    BY <1>2
  <2> HIDE DEF q
  <2> QED
    BY <2>1, ProductGrows
<1> HIDE DEF half, all, q, r, p
<1>6. ~ (q < 1000000)
  BY <1>1, <1>3, <1>4, <1>5
<1>7. q >= 1000000
  BY <1>2, <1>6
<1> QED
  BY <1>7 DEF q, all, half

\* The worst state that was seen is one of dropped load iff one was seen.
LEMMA WorstState ==
  ASSUME NEW seen, seen \subseteq Range(RedundancyStates), seen # {}
  PROVE  RedundancyStates[worst_severity(seen)] \in Short <=> seen \cap Short # {}
<1> DEFINE at == {i \in DOMAIN RedundancyStates : RedundancyStates[i] \in seen}
<1>1. /\ DOMAIN RedundancyStates = 1 .. 7
      /\ RedundancyStates[1] = "no_path" /\ RedundancyStates[2] = "partial_service"
      /\ \A i \in 3 .. 7 : RedundancyStates[i] \notin Short
  BY DEF RedundancyStates, Short
<1>2. at \in SUBSET (1 .. 7) /\ at # {}
  BY <1>1 DEF Range
<1>3. worst_severity(seen) = Min(at)
  BY DEF worst_severity
<1>4. (1 \in at \/ 2 \in at) <=> seen \cap Short # {}
  BY <1>1 DEF Short
<1> HIDE DEF at
<1>5. \E x \in at : \A y \in at : x <= y
  <2>1. at \in SUBSET Nat
    BY <1>2
  <2> QED
    BY <1>2, <2>1, LeastNat
<1>6. Min(at) \in at /\ \A y \in at : Min(at) <= y
  BY <1>2, <1>5, MinOfSet
<1> DEFINE w == Min(at)
<1>7. w \in 1 .. 7 /\ (w \in {1, 2} <=> 1 \in at \/ 2 \in at)
  <2>1. w \in 1 .. 7 /\ w \in at /\ \A y \in at : w <= y
    BY <1>2, <1>6
  <2> HIDE DEF w
  <2> QED
    BY <2>1
<1> HIDE DEF w
<1>8. RedundancyStates[w] \in Short <=> w \in {1, 2}
  <2>1. w \in {1, 2} \/ w \in 3 .. 7
    BY <1>7
  <2> QED
    BY <1>1, <1>7, <2>1 DEF Short
<1> QED
  BY <1>3, <1>4, <1>7, <1>8 DEF w

\* The figures of a completed run tell the same story, whatever the run: duration, count,
\* energy and redundancy state of the interruptions agree, and each had an alarm.
THEOREM MetricsAgreeHolds == Spec => []MetricsAgree
<1>1. ASSUME SafetyInv, AlarmInv, MetricsInv, outcome = "completed"
      PROVE  LET dropped == metrics.interruption_duration_ms > 0
             IN  /\ dropped <=> metrics.interruption_count > 0
                 /\ dropped <=> metrics.unserved_energy_mj > 0
                 /\ dropped <=> metrics.modeled_redundancy_state \in Short
                 /\ metrics.interruption_count <= Cardinality(Dropped(ledger))
                 /\ metrics.service_ratio_ppm < 1000000 => dropped
  <2> DEFINE acc == accumulator
             seen == acc.redundancy_states
  <2>1. /\ metrics.interruption_duration_ms = acc.interruption_duration_ms
        /\ metrics.interruption_count = acc.interruption_count
        /\ metrics.unserved_energy_mj = acc.unserved_energy_mj
        /\ metrics.modeled_redundancy_state =
             IF seen = {} THEN "no_demand" ELSE RedundancyStates[worst_severity(seen)]
        /\ metrics.service_ratio_ppm =
             IF acc.demanded_energy_mj = 0 THEN 1000000
             ELSE (acc.served_energy_mj * 1000000 + acc.demanded_energy_mj \div 2)
                    \div acc.demanded_energy_mj
    BY <1>1 DEF MetricsInv, build_metrics
  <2>2. /\ Agree(acc) /\ acc.interruption_count \in Nat
        /\ acc.interruption_count + Unreported <= Cardinality(Dropped(ledger))
    BY <1>1 DEF MetricsInv, Agree
  <2>3. metrics.modeled_redundancy_state \in Short <=> seen \cap Short # {}
    <3>1. CASE seen = {}
      BY <2>1, <3>1 DEF Short
    <3>2. CASE seen # {}
      BY <2>1, <2>2, <3>2, WorstState DEF Agree
    <3> QED
      BY <3>1, <3>2
  <2>4. metrics.interruption_count <= Cardinality(Dropped(ledger))
    <3>1. Unreported \in {0, 1}
      BY DEF Unreported
    <3>2. Cardinality(Dropped(ledger)) \in Nat
      <4>1. Grows(ledger, ledger, 0, Initialized)
        BY <1>1, Appended DEF AlarmInv, LedgerOK, Grows
      <4> QED
        BY <1>1, <4>1, DroppedGrows DEF AlarmInv
    <3> QED
      BY <2>1, <2>2, <3>1, <3>2
  <2>5. ASSUME ~ (acc.interruption_duration_ms > 0)
        PROVE  ~ (metrics.service_ratio_ppm < 1000000)
    <3>1. /\ acc.demanded_energy_mj \in Nat /\ acc.served_energy_mj \in Nat
          /\ acc.unserved_energy_mj \in Nat
          /\ acc.demanded_energy_mj = acc.served_energy_mj + acc.unserved_energy_mj
          /\ ~ (acc.unserved_energy_mj > 0)
      BY <1>1, <2>2, <2>5 DEF SafetyInv, Balanced, Agree
    <3>2. acc.served_energy_mj = acc.demanded_energy_mj
      BY <3>1
    <3> DEFINE d == acc.demanded_energy_mj
               ratio == (d * 1000000 + d \div 2) \div d
    <3>3. CASE d = 0
      BY <2>1, <3>3
    <3>4. CASE d # 0
      <4>1. metrics.service_ratio_ppm = ratio
        BY <2>1, <3>2, <3>4
      <4>2. ratio >= 1000000 /\ ratio \in Int
        BY <3>1, <3>4, WholeRatio
      <4> HIDE DEF ratio
      <4> QED
        BY <4>1, <4>2
    <3> QED
      BY <3>3, <3>4
  <2> QED
    BY <2>1, <2>2, <2>3, <2>4, <2>5 DEF Agree
<1>2. SafetyInv /\ AlarmInv /\ MetricsInv => MetricsAgree
  BY <1>1 DEF MetricsAgree, Short, Dropped
<1> QED
  BY <1>2, SafetyInvariant, AlarmInvariant, MetricsInvariant, PTL

-----------------------------------------------------------------------------
(* The batteries.                                                          *)

\* What the segments report of a UPS.
Discharged(q, u) == [i \in DOMAIN q |-> q[i].source_power_w[u] * (q[i].end_ms - q[i].start_ms)]

\* The inductive invariant: only a battery source delivers, and what the segments
\* report of a UPS is what it has lost.
DrawInv ==
  /\ \A u \in Upses : summary.source_power_w[u] # 0 => u \in summary.battery_source_ids
  /\ \A i \in Segments : \A u \in Upses : timeline[i].source_power_w[u] \in Nat
  /\ \A u \in Upses : component[u].usable_energy_mj - state.battery_energy_mj[u]
                        = Total(Discharged(timeline, u))

\* The energy of a battery is a number.
LEMMA EnergyType == \A u \in Upses : u \in Components /\ component[u].usable_energy_mj \in Nat
BY ComponentFacts DEF Component

\* One more segment counts what was drained in it.
LEMMA SegmentDraws ==
  ASSUME SafetyInv, SafetyInv', TileInv, DrawInv, RunSegment PROVE DrawInv'
<1> DEFINE duration == current_time' - current_time
<1>1. PICK seg : /\ timeline' = Append(timeline, seg)
                 /\ seg.start_ms = current_time /\ seg.end_ms = current_time'
                 /\ seg.source_power_w = summary.source_power_w
                 /\ current_time \in Nat /\ current_time' \in Nat /\ duration \in Nat
                 /\ state' = integrate_batteries(duration)
                 /\ summary' = summary
  BY NewSegment DEF TileInv
<1>2. /\ Len(timeline) \in Nat /\ Segments = 1 .. Len(timeline) /\ Segments' = 1 .. Len(timeline) + 1
      /\ \A i \in 1 .. Len(timeline) : timeline'[i] = timeline[i]
      /\ timeline'[Len(timeline) + 1] = seg
  BY <1>1, Appended DEF TileInv, Segments
<1>3. \A u \in Upses : u \in Components /\ summary.source_power_w[u] \in Nat
  BY DEF SafetyInv, Ahead, EngineTypes, Summary, Upses, OfKind
<1>4. ASSUME NEW i \in Segments', NEW u \in Upses PROVE timeline'[i].source_power_w[u] \in Nat
  <2>1. i = Len(timeline) + 1 \/ i \in 1 .. Len(timeline)
    BY <1>2
  <2> QED
    BY <1>1, <1>2, <1>3, <2>1 DEF DrawInv
<1>5. ASSUME NEW u \in Upses
      PROVE  component[u].usable_energy_mj - state'.battery_energy_mj[u] = Total(Discharged(timeline', u))
  <2> DEFINE n == Len(timeline)
             q == timeline
             r == timeline'
             f == Discharged(r, u)
             g == Discharged(q, u)
             power == summary.source_power_w[u]
             full == component[u].usable_energy_mj
             before == state.battery_energy_mj[u]
             after == state'.battery_energy_mj[u]
  <2>1. /\ full \in Nat /\ before \in Int /\ power \in Nat
        /\ power # 0 => u \in summary.battery_source_ids
        /\ full - before = Total(g)
    BY <1>3, EnergyType DEF SafetyInv, Ahead, EngineTypes, RuntimeState, DrawInv
  <2>2. after = IF u \in summary.battery_source_ids THEN before - power * duration ELSE before
    <3>1. state \in RuntimeState
      BY DEF SafetyInv, Ahead, EngineTypes
    <3> HIDE DEF duration
    <3> QED
      BY <1>1, <3>1 DEF integrate_batteries, RuntimeState
  <2>3. power * duration \in Nat /\ (power = 0 => power * duration = 0)
    <3> HIDE DEF power, duration
    <3> QED
      BY <1>1, <2>1
  <2>4. after = before - power * duration
    <3> HIDE DEF power, duration, before, after
    <3> QED
      BY <2>1, <2>2, <2>3
  <2>5. /\ \A i \in 1 .. n : /\ q[i].source_power_w[u] \in Nat
                             /\ q[i].start_ms \in Nat /\ q[i].end_ms \in Nat
        /\ DOMAIN q = 1 .. n /\ DOMAIN r = 1 .. n + 1
    BY <1>2 DEF TileInv, DrawInv, Segments
  <2> HIDE DEF n, q, r
  <2>6. \A i \in 1 .. n + 1 : /\ r[i].source_power_w[u] \in Nat
                              /\ r[i].start_ms \in Nat /\ r[i].end_ms \in Nat
    <3> TAKE i \in 1 .. n + 1
    <3>1. i = n + 1 \/ i \in 1 .. n
      BY <1>2 DEF n
    <3> QED
      BY <1>1, <1>2, <1>3, <2>5, <3>1 DEF n, q, r
  <2>7. f \in [1 .. n + 1 -> Int] /\ g \in [1 .. n -> Int]
    BY <2>5, <2>6 DEF Discharged
  <2>8. \A i \in 1 .. n : g[i] = f[i]
    BY <1>2, <2>5 DEF Discharged, n, q, r
  <2>9. f[n + 1] = power * duration
    BY <1>1, <1>2, <2>5 DEF Discharged, n, q, r
  <2> HIDE DEF f, g
  <2>10. Total(g) \in Int /\ Total(f) = Total(g) + f[n + 1]
    BY <1>2, <2>7, <2>8, TotalOfAppended DEF n
  <2> DEFINE drained == power * duration
  <2> HIDE DEF power, duration, full, before, after, drained
  <2>11. full - after = Total(f)
    BY <2>1, <2>3, <2>4, <2>9, <2>10 DEF drained
  <2> QED
    BY <2>11 DEF full, after, f, r
<1> QED
  BY <1>1, <1>4, <1>5 DEF DrawInv

\* Only a segment drains batteries, by the power that it reports; every other step leaves both alone.
LEMMA NextDrawInv ==
  ASSUME SafetyInv, SafetyInv', TileInv, DrawInv, [Next]_vars PROVE DrawInv'
<1>1. CASE RunSegment
  BY <1>1, SegmentDraws
<1>2. CASE ProcessExternal \/ ProcessInternal
  <2>1. summary' = solve_capacity(state') /\ UNCHANGED timeline
    BY <1>2 DEF ProcessExternal, ProcessInternal
  <2>2. state \in RuntimeState /\ state' \in RuntimeState
    BY DEF SafetyInv, Ahead, EngineTypes
  <2>3. state'.battery_energy_mj = state.battery_energy_mj
    <3>1. state' = apply_event(state, scenario.events[event_index + 1])
          \/ state' = AfterMilestone(milestone)
      BY <1>2 DEF ProcessExternal, ProcessInternal
    <3>2. \A s \in RuntimeState : \A e : apply_event(s, e).battery_energy_mj = s.battery_energy_mj
      BY DEF apply_event, RuntimeState
    <3>3. AfterMilestone(milestone).battery_energy_mj = state.battery_energy_mj
      BY <2>2 DEF AfterMilestone, RuntimeState
    <3> QED
      BY <2>2, <3>1, <3>2, <3>3
  <2>4. \A u \in Upses : summary'.source_power_w[u] # 0 => u \in summary'.battery_source_ids
    BY <2>1, <2>2, OnlyBatteriesDischarge
  <2> QED
    BY <2>1, <2>3, <2>4 DEF DrawInv, Segments
<1>3. CASE ~ (RunSegment \/ ProcessExternal \/ ProcessInternal)
  <2>1. UNCHANGED <<state, summary, timeline>>
    BY <1>3 DEF Next, BeginGroup, NothingDue, RejectParallelSources,
       RejectInexactMilestone, NoTimePasses, Finish, Stopped, vars, run
  <2> QED
    BY <2>1 DEF DrawInv, Segments
<1> QED
  BY <1>1, <1>2, <1>3

\* DrawInv holds in the initial states.
LEMMA InitDrawInv == ASSUME Init PROVE DrawInv
<1>1. /\ state = initial_state /\ summary = solve_capacity(initial_state) /\ timeline = << >>
      /\ initial_state \in RuntimeState
  BY InitialStateType DEF Init
<1>2. \A u \in Upses : summary.source_power_w[u] # 0 => u \in summary.battery_source_ids
  BY <1>1, OnlyBatteriesDischarge
<1>3. DOMAIN timeline = {}
  BY <1>1
<1>4. ASSUME NEW u \in Upses
      PROVE  component[u].usable_energy_mj - state.battery_energy_mj[u] = Total(Discharged(timeline, u))
  <2>1. Discharged(timeline, u) \in [{} -> Int]
    BY <1>3 DEF Discharged
  <2>2. Total(Discharged(timeline, u)) = 0
    BY <2>1, TotalOfNone
  <2>3. component[u].usable_energy_mj \in Nat /\ state.battery_energy_mj[u] = component[u].usable_energy_mj
    BY <1>1, EnergyType DEF initial_state
  <2> QED
    BY <2>2, <2>3
<1> QED
  BY <1>2, <1>3, <1>4 DEF DrawInv, Segments

\* DrawInv is an invariant.
LEMMA DrawInvariant == Spec => []DrawInv
<1>1. Init => DrawInv
  BY InitDrawInv
<1>2. SafetyInv /\ SafetyInv' /\ TileInv /\ DrawInv /\ [Next]_vars => DrawInv'
  BY NextDrawInv
<1> QED
  BY <1>1, <1>2, SafetyInvariant, TileInvariant, PTL DEF Spec

\* The energy that left a battery is the power that the segments report of it, and no
\* battery is overdrawn (_integrate_batteries, engine.py): whatever the run.
THEOREM BatteryAccountingHolds == Spec => []BatteryAccounting
<1>1. SafetyInv /\ DrawInv => BatteryAccounting
  <2> SUFFICES ASSUME SafetyInv, DrawInv, NEW u \in Upses
               PROVE  /\ state.battery_energy_mj[u] >= 0
                      /\ component[u].usable_energy_mj - state.battery_energy_mj[u] =
                           Total([i \in Segments |-> timeline[i].source_power_w[u] * Duration(i)])
    BY DEF BatteryAccounting
  <2>1. state.battery_energy_mj[u] >= 0
    BY EnergyType DEF SafetyInv, Ahead, EngineTypes, Charged
  <2>2. Discharged(timeline, u) = [i \in Segments |-> timeline[i].source_power_w[u] * Duration(i)]
    BY DEF Discharged, Segments, Duration
  <2> QED
    BY <2>1, <2>2 DEF DrawInv
<1> QED
  BY <1>1, SafetyInvariant, DrawInvariant, PTL

-----------------------------------------------------------------------------
(* The estimate: segments and transitions.                                 *)

\* The boundaries of the resolution grid up to t, of a run of h with steps of r.
Grid(h, r, t) == IF t = h THEN (h + r - 1) \div r ELSE t \div r

\* Dividing by a step is between two multiples of it.
LEMMA Quotient ==
  ASSUME NEW r \in Nat \ {0}
  PROVE  \A t \in Nat : \E k \in Nat : t \div r = k /\ k * r <= t /\ t < (k + 1) * r
<1> SUFFICES ASSUME NEW t \in Nat PROVE \E k \in Nat : t \div r = k /\ k * r <= t /\ t < (k + 1) * r
  OBVIOUS
<1>1. t \div r \in Nat /\ (t \div r) * r <= t /\ (t \div r + 1) * r > t
  BY DivBound, NextMultiple
<1> QED
  BY <1>1

\* Multiples of a step are in the order of their factors.
LEMMA FactorOrder ==
  ASSUME NEW r \in Nat \ {0}, NEW j \in Nat, NEW k \in Nat, k * r < j * r
  PROVE  k + 1 <= j
<1>1. SUFFICES ASSUME j <= k PROVE FALSE
  OBVIOUS
<1>2. j * r <= k * r
  BY <1>1, ProductGrows
<1>3. j * r \in Nat /\ k * r \in Nat
  OBVIOUS
<1> QED
  BY <1>2, <1>3

\* The grid grows with the time, by one at its boundaries, and is the estimate at most.
LEMMA GridFacts ==
  ASSUME NEW h \in Nat \ {0}, NEW r \in Nat \ {0}, NEW a \in Nat, NEW b \in Nat, a < b, b <= h
  PROVE  /\ Grid(h, r, a) \in Nat /\ Grid(h, r, b) \in Nat
         /\ Grid(h, r, a) <= Grid(h, r, b)
         /\ b = h \/ b = (a \div r + 1) * r => Grid(h, r, a) + 1 <= Grid(h, r, b)
         /\ Grid(h, r, a) <= (h + r - 1) \div r
         /\ Grid(h, r, b) <= (h + r - 1) \div r
<1>1. PICK i \in Nat : a \div r = i /\ i * r <= a /\ a < (i + 1) * r
  BY Quotient
<1>2. PICK j \in Nat : b \div r = j /\ j * r <= b /\ b < (j + 1) * r
  BY Quotient
<1>3. h + r - 1 \in Nat
  OBVIOUS
<1>4. PICK k \in Nat : (h + r - 1) \div r = k /\ k * r <= h + r - 1 /\ h + r - 1 < (k + 1) * r
  BY <1>3, Quotient
<1>5. /\ i * r \in Nat /\ j * r \in Nat /\ k * r \in Nat
      /\ (i + 1) * r = i * r + r /\ (j + 1) * r = j * r + r /\ (k + 1) * r = k * r + r
      /\ (k + 1) * r \in Nat /\ (j + 1) * r \in Nat /\ (i + 1) * r \in Nat
  BY <1>1, <1>2, <1>4
<1>6. i + 1 <= k
  <2>1. i * r < k * r
    BY <1>1, <1>4, <1>5
  <2> QED
    BY <2>1, FactorOrder
<1>7. b < h => j + 1 <= k
  <2> SUFFICES ASSUME b < h PROVE j + 1 <= k
    OBVIOUS
  <2>1. j * r < k * r
    BY <1>2, <1>4, <1>5
  <2> QED
    BY <2>1, FactorOrder
<1>8. i <= j
  <2>1. i * r < (j + 1) * r
    BY <1>1, <1>2, <1>5
  <2>2. i + 1 <= j + 1
    BY <2>1, FactorOrder
  <2> QED
    BY <2>2
<1>9. b = (i + 1) * r => i + 1 <= j
  <2> SUFFICES ASSUME b = (i + 1) * r PROVE i + 1 <= j
    OBVIOUS
  <2>1. (i + 1) * r < (j + 1) * r
    BY <1>2
  <2>2. i + 1 + 1 <= j + 1
    BY <2>1, FactorOrder
  <2> QED
    BY <2>2
<1>10. /\ Grid(h, r, a) = i
       /\ Grid(h, r, b) = IF b = h THEN k ELSE j
  BY <1>1, <1>2, <1>4 DEF Grid
<1> QED
  <2>1. b = h \/ b < h
    OBVIOUS
  <2>2. a \div r = i /\ (h + r - 1) \div r = k
    BY <1>1, <1>4
  <2> QED
    BY <1>6, <1>7, <1>8, <1>9, <1>10, <2>1, <2>2
\* A condition that counts.
One(b) == IF b THEN 1 ELSE 0

\* The alarms of the UPSs that were raised already.
Marks == Cardinality(state.low_energy_alarm_raised) + Cardinality(state.depletion_alarm_raised)

\* The UPS of a milestone has not had it yet.
Unmarked(m) ==
  IF m.kind = "ups_low_energy" THEN m.component_id \notin state.low_energy_alarm_raised
  ELSE m.component_id \notin state.depletion_alarm_raised

\* What the segments so far are counted against.
Boundaries == Grid(scenario.horizon_ms, scenario.resolution_ms, current_time)
                + event_index + One(EventDue) + Marks + One(pc = "milestone")

\* A segment is counted against the boundary that ends it, and each alarm of a battery
\* against its one transition: an empty battery discharges no more, and a milestone that is
\* found was not reported yet.
BudgetInv ==
  /\ Len(timeline) <= Boundaries
  /\ Len(transitions) = 1 + event_index + Marks
  /\ \A u \in state.depletion_alarm_raised : state.battery_energy_mj[u] = 0
  /\ pc = "milestone" => Unmarked(milestone)

\* The numbers of the budget.
LEMMA BudgetTypes ==
  ASSUME SafetyInv
  PROVE  /\ scenario.horizon_ms \in Nat \ {0} /\ scenario.resolution_ms \in Nat \ {0}
         /\ current_time \in Nat /\ current_time <= scenario.horizon_ms
         /\ event_index \in Nat /\ Len(scenario.events) \in Nat /\ event_index <= Len(scenario.events)
         /\ IsFiniteSet(Upses) /\ Cardinality(Upses) \in Nat
         /\ IsFiniteSet(state.low_energy_alarm_raised) /\ IsFiniteSet(state.depletion_alarm_raised)
         /\ Cardinality(state.low_energy_alarm_raised) \in Nat
         /\ Cardinality(state.depletion_alarm_raised) \in Nat
         /\ Cardinality(state.low_energy_alarm_raised) <= Cardinality(Upses)
         /\ Cardinality(state.depletion_alarm_raised) <= Cardinality(Upses)
         /\ Marks \in Nat /\ Marks <= 2 * Cardinality(Upses)
<1>1. /\ scenario \in Scenarios /\ event_index \in 0 .. Len(scenario.events)
      /\ current_time \in Nat /\ current_time <= scenario.horizon_ms
      /\ state.low_energy_alarm_raised \in SUBSET Upses
      /\ state.depletion_alarm_raised \in SUBSET Upses
  BY DEF SafetyInv, Ahead, EngineTypes, RuntimeState
<1>2. /\ scenario.horizon_ms \in Nat \ {0} /\ scenario.resolution_ms \in Nat \ {0}
      /\ Len(scenario.events) \in Nat
  BY <1>1, ScenarioFacts
<1>3. IsFiniteSet(Upses)
  BY SiteFacts, FS_Subset DEF Upses, OfKind
<1>4. Cardinality(Upses) \in Nat
  BY <1>3, FS_CardinalityType
<1>5. \A A \in SUBSET Upses : IsFiniteSet(A) /\ Cardinality(A) \in Nat /\ Cardinality(A) <= Cardinality(Upses)
  BY <1>3, FS_Subset, FS_CardinalityType
<1>6. \A x, y, z \in Nat : x <= z /\ y <= z => x + y \in Nat /\ x + y <= 2 * z
  OBVIOUS
<1>7. Marks \in Nat /\ Marks <= 2 * Cardinality(Upses)
  BY <1>1, <1>4, <1>5, <1>6 DEF Marks
<1> QED
  BY <1>1, <1>2, <1>3, <1>4, <1>5, <1>7

\* The next boundary is one of the four.
LEMMA BoundaryIsOne ==
  ASSUME Ahead, current_time < scenario.horizon_ms
  PROVE  next_boundary(next_battery_milestone)
           \in {boundary_external, boundary_internal(next_battery_milestone),
                boundary_resolution, scenario.horizon_ms}
<1> DEFINE m == next_battery_milestone
           external == boundary_external
           internal == boundary_internal(m)
           resolution == boundary_resolution
           four == {external, internal, resolution, scenario.horizon_ms}
<1>1. current_time \in Nat /\ scenario.horizon_ms \in Nat /\ scenario.resolution_ms \in Nat \ {0}
  BY ScenarioFacts DEF Ahead, EngineTypes
<1>2. external \in Int
  <2>1. event_index < Len(scenario.events) => event_index + 1 \in 1 .. Len(scenario.events)
    BY ScenarioFacts DEF Ahead
  <2> QED
    BY <1>1, <2>1, ScenarioFacts DEF Ahead, boundary_external
<1>3. internal \in Int
  BY <1>1, BoundaryFacts DEF boundary_internal, MilestoneType
<1>4. resolution \in Int
  <2>1. (current_time \div scenario.resolution_ms + 1) * scenario.resolution_ms \in Nat
    BY <1>1, NextMultiple
  <2>2. \A x \in Nat : x \in Int
    OBVIOUS
  <2> QED
    BY <2>1, <2>2 DEF boundary_resolution
<1> HIDE DEF external, internal, resolution
<1>5. four \in SUBSET Int /\ \E x \in four : \A y \in four : x <= y
  BY <1>1, <1>2, <1>3, <1>4
<1>6. next_boundary(m) = Min(four)
  BY DEF next_boundary, external, internal, resolution
<1>7. Min(four) \in four
  <2> HIDE DEF four
  <2> QED
    BY <1>5, MinOfSet
<1> QED
  BY <1>6, <1>7 DEF external, internal, resolution

\* A new segment ends at a boundary that is counted: an event comes due, a milestone is
\* pending, or the grid has one more.
LEMMA SegmentIsCounted ==
  ASSUME SafetyInv, SafetyInv', RunSegment
  PROVE  /\ ~ EventDue
         /\ Grid(scenario.horizon_ms, scenario.resolution_ms, current_time) + 1
              <= Grid(scenario.horizon_ms, scenario.resolution_ms, current_time')
                   + One(EventDue') + One(pc' = "milestone")
<1> DEFINE m == next_battery_milestone
           b == next_boundary(m)
           h == scenario.horizon_ms
           r == scenario.resolution_ms
<1>1. /\ pc = "loop" /\ current_time < h /\ current_time' = b /\ b # current_time
      /\ scenario' = scenario /\ event_index' = event_index
      /\ outcome' # "engine.time_regression" /\ outcome' # "engine.energy_overdraw"
  BY DEF RunSegment, AtLoopHead, SafetyInv, Outcomes, InputErrors
<1>2. m.time_ms = b => pc' = "milestone"
  <2>1. pc' = IF m.time_ms = b THEN "milestone" ELSE "due"
    BY <1>1 DEF RunSegment, Continue
  <2> QED
    BY <2>1
<1>3. /\ h \in Nat \ {0} /\ r \in Nat \ {0} /\ current_time \in Nat
      /\ event_index \in Nat /\ Len(scenario.events) \in Nat /\ event_index <= Len(scenario.events)
  BY BudgetTypes
<1>4. /\ b \in current_time .. h
      /\ event_index < Len(scenario.events) => b <= scenario.events[event_index + 1].time_ms
      /\ m = NoMilestone \/ m \in MilestoneType
      /\ b \in {boundary_external, boundary_internal(m), boundary_resolution, h}
  BY <1>1, BoundaryFacts, BoundaryIsOne DEF SafetyInv
<1>5. b \in Nat /\ current_time < b /\ b <= h
  BY <1>1, <1>3, <1>4
<1>6. ~ EventDue
  <2> SUFFICES ASSUME EventDue PROVE FALSE
    OBVIOUS
  <2>1. event_index < Len(scenario.events) /\ scenario.events[event_index + 1].time_ms = current_time
    BY DEF EventDue
  <2> HIDE DEF b
  <2> QED
    BY <1>3, <1>4, <1>5, <2>1
<1>7. /\ Grid(h, r, current_time) \in Nat /\ Grid(h, r, b) \in Nat
      /\ Grid(h, r, current_time) <= Grid(h, r, b)
      /\ b = h \/ b = (current_time \div r + 1) * r => Grid(h, r, current_time) + 1 <= Grid(h, r, b)
  <2> HIDE DEF b, h, r
  <2> QED
    BY <1>3, <1>5, GridFacts
<1>8. One(EventDue') \in 0 .. 1 /\ One(pc' = "milestone") \in 0 .. 1
  BY DEF One
<1>9. \/ b = h \/ b = (current_time \div r + 1) * r \/ One(EventDue') = 1 \/ One(pc' = "milestone") = 1
  <2>1. CASE b = boundary_external
    <3>1. event_index < Len(scenario.events) => EventDue'
      BY <1>1, <2>1 DEF EventDue, boundary_external
    <3> QED
      BY <2>1, <3>1 DEF boundary_external, One
  <2>2. CASE b = boundary_internal(m)
    BY <1>2, <2>2 DEF boundary_internal, One
  <2>3. CASE b = boundary_resolution
    BY <2>3 DEF boundary_resolution
  <2> QED
    BY <1>4, <2>1, <2>2, <2>3
<1>10. Grid(h, r, current_time') = Grid(h, r, b)
  BY <1>1
<1> DEFINE x == Grid(h, r, current_time)
           y == Grid(h, r, b)
           e == One(EventDue')
           p == One(pc' = "milestone")
<1>11. x + 1 <= y + e + p
  <2>1. x \in Nat /\ y \in Nat /\ e \in 0 .. 1 /\ p \in 0 .. 1 /\ x <= y
        /\ (x + 1 <= y \/ e = 1 \/ p = 1)
    BY <1>7, <1>8, <1>9
  <2> HIDE DEF x, y, e, p
  <2> QED
    BY <2>1
<1> QED
  BY <1>6, <1>10, <1>11

\* The battery sources of an allocation have energy left, and every source is a utility, a
\* generator or a UPS.
LEMMA SourceFacts ==
  ASSUME NEW s \in RuntimeState
  PROVE  /\ \A u \in solve_capacity(s).battery_source_ids : s.battery_energy_mj[u] > 0
         /\ solve_capacity(s).source_ids \subseteq Upses \cup (Utilities \cup Generators)
<1>1. /\ solve_capacity(s).battery_source_ids = BatterySources(s)
      /\ solve_capacity(s).source_ids = NonBatterySources(s) \cup BatterySources(s)
  BY DEF solve_capacity, Summarize
<1>2. s.generator_running \in SUBSET Generators
  BY DEF RuntimeState
<1> QED
  BY <1>1, <1>2 DEF BatterySources, NonBatterySources

\* A milestone that the loop finds was not reported before: the warning since it is sought
\* only then, the depletion since an empty UPS is no source any more.
LEMMA FoundIsUnmarked ==
  ASSUME SafetyInv, BudgetInv, CurrentInv, pc = "loop", next_battery_milestone # NoMilestone
  PROVE  Unmarked(next_battery_milestone)
<1>1. Ahead /\ EngineTypes /\ state \in RuntimeState
  BY DEF SafetyInv, Ahead, EngineTypes
<1>2. Discharging # {}
  BY DEF next_battery_milestone
<1>3. PICK u \in Discharging : next_battery_milestone = Candidate(u)
  BY <1>1, <1>2, MilestoneFacts
<1>4. /\ Candidate(u).component_id = u
      /\ Candidate(u).kind = IF WarnsNext(u) THEN "ups_low_energy" ELSE "ups_depleted"
  BY <1>1, CandidateFacts
<1>5. u \notin state.depletion_alarm_raised
  <2>1. u \in summary.battery_source_ids /\ summary = solve_capacity(state)
    BY DEF Discharging, CurrentInv
  <2>2. state.battery_energy_mj[u] > 0
    BY <1>1, <2>1, SourceFacts
  <2> QED
    BY <2>2 DEF BudgetInv
<1>6. WarnsNext(u) => u \notin state.low_energy_alarm_raised
  BY DEF WarnsNext
<1> QED
  BY <1>3, <1>4, <1>5, <1>6 DEF Unmarked

\* A segment is one of the boundaries that are counted.
LEMMA SegmentBudget ==
  ASSUME SafetyInv, SafetyInv', CurrentInv, BudgetInv, IsSeq(timeline), RunSegment
  PROVE  BudgetInv'
<1> DEFINE m == next_battery_milestone
           left == integrate_batteries(next_boundary(m) - current_time)
<1>1. /\ pc = "loop" /\ current_time < scenario.horizon_ms
      /\ state' = left /\ milestone' = m
      /\ pc' = "milestone" => m.time_ms = next_boundary(m)
      /\ UNCHANGED <<scenario, transitions, event_index>>
  BY DEF RunSegment, AtLoopHead, Continue
<1>2. state \in RuntimeState /\ Ahead /\ summary \in Summary /\ summary = solve_capacity(state)
  BY <1>1 DEF SafetyInv, Ahead, EngineTypes, CurrentInv
<1>3. /\ left.low_energy_alarm_raised = state.low_energy_alarm_raised
      /\ left.depletion_alarm_raised = state.depletion_alarm_raised
      /\ \A u \in Upses : u \notin summary.battery_source_ids =>
           left.battery_energy_mj[u] = state.battery_energy_mj[u]
  BY <1>2 DEF integrate_batteries, RuntimeState
<1> HIDE DEF left
<1>4. Marks' = Marks
  BY <1>1, <1>3 DEF Marks
<1>5. Len(timeline) \in Nat /\ Len(timeline') = Len(timeline) + 1
  <2>1. PICK q : timeline' = Append(timeline, q)
    BY DEF RunSegment
  <2> QED
    BY <2>1, Appended
<1>6. Len(timeline') <= Boundaries'
  <2> DEFINE h == scenario.horizon_ms
             r == scenario.resolution_ms
             x == Grid(h, r, current_time)
             y == Grid(h, r, current_time')
             e == One(EventDue')
             p == One(pc' = "milestone")
  <2>1. ~ EventDue /\ x + 1 <= y + e + p
    BY SegmentIsCounted
  <2>2. Boundaries = x + event_index + 0 + Marks + 0
    BY <1>1, <2>1 DEF Boundaries, One
  <2>3. Boundaries' = y + event_index + e + Marks + p
    BY <1>1, <1>4 DEF Boundaries
  <2>4. /\ h \in Nat \ {0} /\ r \in Nat \ {0} /\ Marks \in Nat /\ event_index \in Nat
        /\ current_time \in Nat /\ current_time < h /\ current_time' \in Nat /\ current_time' <= h
        /\ current_time < current_time'
    <3>1. current_time' \in Nat /\ current_time' > current_time
      BY NewSegment
    <3> QED
      BY <1>1, <3>1, BudgetTypes, SegmentStep DEF SafetyInv, Ahead
  <2>5. x \in Nat /\ y \in Nat
    <3> HIDE DEF h, r
    <3> QED
      BY <2>4, GridFacts
  <2>6. e \in 0 .. 1 /\ p \in 0 .. 1
    BY DEF One
  <2>7. Len(timeline) <= Boundaries
    BY DEF BudgetInv
  <2> HIDE DEF x, y, e, p
  <2> QED
    BY <1>5, <2>1, <2>2, <2>3, <2>4, <2>5, <2>6, <2>7
<1>7. ASSUME NEW u \in state'.depletion_alarm_raised PROVE state'.battery_energy_mj[u] = 0
  <2>1. u \in Upses /\ u \in state.depletion_alarm_raised /\ state.battery_energy_mj[u] = 0
    BY <1>1, <1>2, <1>3 DEF RuntimeState, BudgetInv
  <2>2. u \notin summary.battery_source_ids
    BY <1>2, <2>1, SourceFacts
  <2> QED
    BY <1>1, <1>3, <2>1, <2>2
<1>8. ASSUME pc' = "milestone" PROVE Unmarked(milestone)'
  <2>1. m # NoMilestone
    <3>1. next_boundary(m) \in current_time .. scenario.horizon_ms /\ current_time \in Nat
      BY <1>1, <1>2, BoundaryFacts DEF Ahead, EngineTypes
    <3>2. NoMilestone.time_ms = -1
      BY DEF NoMilestone
    <3> HIDE DEF m
    <3> QED
      BY <1>1, <1>8, <3>1, <3>2
  <2>2. Unmarked(m)
    BY <1>1, <2>1, FoundIsUnmarked
  <2> HIDE DEF m
  <2> QED
    BY <1>1, <1>3, <2>2 DEF Unmarked
<1> QED
  BY <1>1, <1>4, <1>6, <1>7, <1>8 DEF BudgetInv

\* An external event is counted by its place in the order.
LEMMA ExternalBudget ==
  ASSUME SafetyInv, SafetyInv', BudgetInv, IsSeq(transitions), IsSeq(timeline), ProcessExternal
  PROVE  BudgetInv'
<1>1. /\ pc = "group" /\ pc' # "milestone"
      /\ state' = apply_event(state, scenario.events[event_index + 1])
      /\ event_index' = event_index + 1
      /\ UNCHANGED <<scenario, current_time, milestone, timeline>>
  BY DEF ProcessExternal, Continue
<1>2. PICK t : transitions' = Append(transitions, t)
  BY DEF ProcessExternal
<1>3. Len(transitions) \in Nat /\ Len(transitions') = Len(transitions) + 1
  BY <1>2, Appended
<1>4. /\ state'.low_energy_alarm_raised = state.low_energy_alarm_raised
      /\ state'.depletion_alarm_raised = state.depletion_alarm_raised
      /\ state'.battery_energy_mj = state.battery_energy_mj
  <2>1. \A s \in RuntimeState : \A e :
          /\ apply_event(s, e).low_energy_alarm_raised = s.low_energy_alarm_raised
          /\ apply_event(s, e).depletion_alarm_raised = s.depletion_alarm_raised
          /\ apply_event(s, e).battery_energy_mj = s.battery_energy_mj
    BY DEF apply_event, RuntimeState
  <2> QED
    BY <1>1, <2>1 DEF SafetyInv, Ahead, EngineTypes
<1>5. Marks' = Marks /\ Marks \in Nat /\ event_index \in Nat
  BY <1>4, BudgetTypes DEF Marks
<1>6. Len(timeline') <= Boundaries'
  <2> DEFINE x == Grid(scenario.horizon_ms, scenario.resolution_ms, current_time)
             e == One(EventDue)
             f == One(EventDue')
  <2>1. Boundaries = x + event_index + e + Marks + 0
    BY <1>1 DEF Boundaries, One
  <2>2. Boundaries' = x + event_index' + f + Marks + 0
    BY <1>1, <1>5 DEF Boundaries, One
  <2>3. x \in Int
    BY BudgetTypes DEF Grid
  <2>4. e \in 0 .. 1 /\ f \in 0 .. 1
    BY DEF One
  <2>5. Len(timeline) <= Boundaries /\ Len(timeline') = Len(timeline) /\ Len(timeline) \in Nat
    BY <1>1, Appended DEF BudgetInv
  <2> HIDE DEF x, e, f
  <2> QED
    BY <1>1, <1>5, <2>1, <2>2, <2>3, <2>4, <2>5
<1>7. Len(transitions') = 1 + event_index' + Marks'
  BY <1>1, <1>3, <1>5 DEF BudgetInv
<1> QED
  BY <1>1, <1>4, <1>6, <1>7 DEF BudgetInv

\* A milestone is counted by the alarm that it raises for the first and only time.
LEMMA InternalBudget ==
  ASSUME SafetyInv, SafetyInv', BudgetInv, IsSeq(transitions), IsSeq(timeline), ProcessInternal
  PROVE  BudgetInv'
<1> DEFINE c == milestone.component_id
           low == state.low_energy_alarm_raised
           depleted == state.depletion_alarm_raised
<1>1. /\ pc = "milestone" /\ pc' # "milestone"
      /\ state' = AfterMilestone(milestone)
      /\ UNCHANGED <<scenario, current_time, event_index, milestone, timeline>>
  BY DEF ProcessInternal, Continue
<1>2. PICK t : transitions' = Append(transitions, t)
  BY DEF ProcessInternal
<1>3. Len(transitions) \in Nat /\ Len(transitions') = Len(transitions) + 1
  BY <1>2, Appended
<1>4. /\ state \in RuntimeState /\ milestone \in MilestoneType /\ c \in Upses
      /\ milestone.kind = "ups_depleted" => state.battery_energy_mj[c] = 0
      /\ Unmarked(milestone)
  BY <1>1 DEF SafetyInv, Ahead, EngineTypes, MilestoneType, BudgetInv
<1>5. /\ state'.battery_energy_mj = state.battery_energy_mj
      /\ \/ /\ milestone.kind = "ups_low_energy" /\ c \notin low
            /\ state'.low_energy_alarm_raised = low \cup {c}
            /\ state'.depletion_alarm_raised = depleted
         \/ /\ milestone.kind = "ups_depleted" /\ c \notin depleted
            /\ state'.low_energy_alarm_raised = low
            /\ state'.depletion_alarm_raised = depleted \cup {c}
  BY <1>1, <1>4 DEF AfterMilestone, RuntimeState, MilestoneType, Unmarked
<1>6. /\ IsFiniteSet(low) /\ IsFiniteSet(depleted)
      /\ Cardinality(low) \in Nat /\ Cardinality(depleted) \in Nat
  BY BudgetTypes
<1>7. Marks' = Marks + 1 /\ Marks \in Nat
  <2>1. /\ c \notin low => Cardinality(low \cup {c}) = Cardinality(low) + 1
        /\ c \notin depleted => Cardinality(depleted \cup {c}) = Cardinality(depleted) + 1
    <3> HIDE DEF c, low, depleted
    <3> QED
      BY <1>6, FS_AddElement
  <2>2. Marks = Cardinality(low) + Cardinality(depleted)
    BY DEF Marks
  <2>3. Marks' = Cardinality(state'.low_energy_alarm_raised) + Cardinality(state'.depletion_alarm_raised)
    BY DEF Marks
  <2> HIDE DEF c, low, depleted
  <2> QED
    BY <1>5, <1>6, <2>1, <2>2, <2>3
<1>8. Len(timeline') <= Boundaries'
  <2> DEFINE x == Grid(scenario.horizon_ms, scenario.resolution_ms, current_time)
             e == One(EventDue)
  <2>1. Boundaries = x + event_index + e + Marks + 1
    BY <1>1 DEF Boundaries, One
  <2>2. Boundaries' = x + event_index + e + (Marks + 1) + 0
    <3>1. EventDue' <=> EventDue
      BY <1>1 DEF EventDue
    <3> QED
      BY <1>1, <1>7, <3>1 DEF Boundaries, One
  <2>3. x \in Int /\ event_index \in Nat
    BY BudgetTypes DEF Grid
  <2>4. e \in 0 .. 1
    BY DEF One
  <2>5. Len(timeline) <= Boundaries /\ Len(timeline') = Len(timeline) /\ Len(timeline) \in Nat
    BY <1>1, Appended DEF BudgetInv
  <2> HIDE DEF x, e
  <2> QED
    BY <1>7, <2>1, <2>2, <2>3, <2>4, <2>5
<1>9. Len(transitions') = 1 + event_index' + Marks'
  BY <1>1, <1>3, <1>7, BudgetTypes DEF BudgetInv
<1>10. \A u \in state'.depletion_alarm_raised : state'.battery_energy_mj[u] = 0
  BY <1>4, <1>5 DEF BudgetInv
<1> QED
  BY <1>1, <1>8, <1>9, <1>10 DEF BudgetInv

\* Every step keeps BudgetInv.
LEMMA NextBudgetInv ==
  ASSUME SafetyInv, SafetyInv', CurrentInv, BudgetInv, IsSeq(timeline), IsSeq(transitions), [Next]_vars
  PROVE  BudgetInv'
<1>1. CASE RunSegment
  BY <1>1, SegmentBudget
<1>2. CASE ProcessExternal
  BY <1>2, ExternalBudget
<1>3. CASE ProcessInternal
  BY <1>3, InternalBudget
<1>4. CASE NoTimePasses
  <2> DEFINE m == next_battery_milestone
             x == Grid(scenario.horizon_ms, scenario.resolution_ms, current_time)
  <2>1. /\ pc = "loop" /\ current_time < scenario.horizon_ms /\ milestone' = m
        /\ pc' = "milestone" => m.time_ms = current_time
        /\ UNCHANGED <<scenario, state, current_time, event_index, timeline, transitions>>
    BY <1>4 DEF NoTimePasses, AtLoopHead, run
  <2>2. ASSUME pc' = "milestone" PROVE Unmarked(milestone)'
    <3>1. m # NoMilestone
      BY <2>1, <2>2 DEF NoMilestone, SafetyInv, Ahead, EngineTypes
    <3>2. Unmarked(m)
      BY <2>1, <3>1, FoundIsUnmarked
    <3> HIDE DEF m
    <3> QED
      BY <2>1, <3>2 DEF Unmarked
  <2>3. Marks' = Marks /\ (EventDue' <=> EventDue)
    BY <2>1 DEF Marks, EventDue
  <2>4. Boundaries' = Boundaries + One(pc' = "milestone") /\ Boundaries \in Int
    <3> DEFINE e == One(EventDue)
               p == One(pc' = "milestone")
    <3>1. Boundaries = x + event_index + e + Marks + 0
      BY <2>1 DEF Boundaries, One
    <3>2. Boundaries' = x + event_index + e + Marks + p
      BY <2>1, <2>3 DEF Boundaries, One
    <3>3. x \in Int /\ event_index \in Nat /\ Marks \in Nat
      BY BudgetTypes DEF Grid
    <3>4. e \in 0 .. 1 /\ p \in 0 .. 1
      BY DEF One
    <3> HIDE DEF x, e, p
    <3>5. Boundaries' = Boundaries + p /\ Boundaries \in Int
      BY <3>1, <3>2, <3>3, <3>4
    <3> QED
      BY <3>5 DEF p
  <2>5. Len(timeline') <= Boundaries'
    <3>1. Len(timeline) \in Nat /\ Len(timeline) <= Boundaries /\ One(pc' = "milestone") \in 0 .. 1
      BY Appended DEF BudgetInv, One
    <3> QED
      BY <2>1, <2>4, <3>1
  <2> QED
    BY <2>1, <2>2, <2>3, <2>5 DEF BudgetInv
<1>5. CASE ~ (RunSegment \/ ProcessExternal \/ ProcessInternal \/ NoTimePasses)
  <2>1. /\ UNCHANGED <<scenario, state, current_time, event_index, timeline, transitions, milestone>>
        /\ pc' = "milestone" <=> pc = "milestone"
    BY <1>5 DEF Next, BeginGroup, NothingDue, RejectParallelSources, AtLoopHead,
       RejectInexactMilestone, Finish, Stopped, vars, run
  <2>2. Marks' = Marks /\ (EventDue' <=> EventDue)
    BY <2>1 DEF Marks, EventDue
  <2>3. Boundaries' = Boundaries
    BY <2>1, <2>2 DEF Boundaries, One
  <2>4. Unmarked(milestone)' <=> Unmarked(milestone)
    BY <2>1 DEF Unmarked
  <2> QED
    BY <2>1, <2>2, <2>3, <2>4 DEF BudgetInv
<1> QED
  BY <1>1, <1>2, <1>3, <1>4, <1>5

\* BudgetInv holds in the initial states.
LEMMA InitBudgetInv == ASSUME Init PROVE BudgetInv
<1>1. /\ state = initial_state /\ timeline = << >> /\ event_index = 0 /\ current_time = 0
      /\ pc # "milestone" /\ scenario \in Scenarios
      /\ \E t : transitions = << t >>
  <2>1. pc # "milestone"
    BY DEF Init
  <2> QED
    BY <2>1 DEF Init
<1>2. /\ state.low_energy_alarm_raised = {} /\ state.depletion_alarm_raised = {}
  BY <1>1 DEF initial_state
<1>3. Marks = 0
  BY <1>2, FS_EmptySet DEF Marks
<1>4. Grid(scenario.horizon_ms, scenario.resolution_ms, current_time) \in Nat
  <2> DEFINE h == scenario.horizon_ms
             r == scenario.resolution_ms
  <2>1. h \in Nat \ {0} /\ r \in Nat \ {0} /\ 0 < h
    BY <1>1, ScenarioFacts
  <2> HIDE DEF h, r
  <2>2. Grid(h, r, 0) \in Nat
    BY <2>1, GridFacts
  <2> QED
    BY <1>1, <2>2 DEF h, r
<1>5. 0 <= Boundaries
  BY <1>1, <1>3, <1>4 DEF Boundaries, One
<1>6. Len(timeline) = 0 /\ Len(transitions) = 1
  BY <1>1
<1> QED
  BY <1>1, <1>2, <1>3, <1>5, <1>6 DEF BudgetInv

\* BudgetInv is an invariant.
LEMMA BudgetInvariant == Spec => []BudgetInv
<1>1. Init => BudgetInv
  BY InitBudgetInv
<1>2. TileInv /\ AlarmInv => IsSeq(timeline) /\ IsSeq(transitions)
  BY DEF TileInv, AlarmInv
<1>3. SafetyInv /\ SafetyInv' /\ CurrentInv /\ BudgetInv /\ TileInv /\ AlarmInv /\ [Next]_vars
        => BudgetInv'
  BY <1>2, NextBudgetInv
<1> QED
  BY <1>1, <1>3, SafetyInvariant, CurrentInvariant, TileInvariant, AlarmInvariant, PTL DEF Spec

\* While a milestone is pending its alarm is still to come.
LEMMA MarksLeft ==
  ASSUME SafetyInv, pc = "milestone", Unmarked(milestone)
  PROVE  Marks + 1 <= 2 * Cardinality(Upses)
<1> DEFINE c == milestone.component_id
           low == state.low_energy_alarm_raised
           depleted == state.depletion_alarm_raised
           n == Cardinality(Upses)
<1>1. /\ IsFiniteSet(Upses) /\ n \in Nat /\ low \in SUBSET Upses /\ depleted \in SUBSET Upses
      /\ IsFiniteSet(low) /\ IsFiniteSet(depleted)
      /\ Cardinality(low) \in Nat /\ Cardinality(depleted) \in Nat
      /\ Cardinality(low) <= n /\ Cardinality(depleted) <= n
  BY BudgetTypes DEF SafetyInv, Ahead, EngineTypes, RuntimeState
<1>2. c \in Upses /\ (c \notin low \/ c \notin depleted)
  BY DEF SafetyInv, MilestoneType, Unmarked
<1>3. Marks = Cardinality(low) + Cardinality(depleted)
  BY DEF Marks
<1> HIDE DEF c, low, depleted
<1>4. ASSUME NEW A \in SUBSET Upses, IsFiniteSet(A), Cardinality(A) \in Nat, c \notin A
      PROVE  Cardinality(A) + 1 <= n
  <2>1. Cardinality(A \cup {c}) = Cardinality(A) + 1
    BY <1>4, FS_AddElement
  <2>2. A \cup {c} \in SUBSET Upses
    BY <1>2
  <2> QED
    BY <1>1, <2>1, <2>2, FS_Subset
<1>5. Cardinality(low) + 1 <= n \/ Cardinality(depleted) + 1 <= n
  BY <1>1, <1>2, <1>4
<1> HIDE DEF n
<1> QED
  BY <1>1, <1>3, <1>5 DEF n

\* The first two parts of the estimate.
LEMMA CountsWithinEstimate ==
  ASSUME SafetyInv, BudgetInv, IsSeq(timeline)
  PROVE  /\ Len(timeline) <= estimated_segments(scenario.horizon_ms, scenario.resolution_ms,
                                                Len(scenario.events))
         /\ Len(transitions) <= 1 + event_index + 2 * Cardinality(Upses)
<1> DEFINE h == scenario.horizon_ms
           r == scenario.resolution_ms
           n == Len(scenario.events)
           x == Grid(h, r, current_time)
           top == (h + r - 1) \div r
           e == One(EventDue)
           p == One(pc = "milestone")
           twice == 2 * Cardinality(Upses)
<1>1. /\ h \in Nat \ {0} /\ r \in Nat \ {0} /\ current_time \in Nat /\ current_time <= h
      /\ event_index \in Nat /\ n \in Nat /\ event_index <= n
      /\ Marks \in Nat /\ Marks <= twice /\ twice \in Nat
  BY BudgetTypes
<1>2. x \in Nat /\ x <= top /\ top \in Int
  <2> HIDE DEF h, r
  <2>1. CASE current_time = h
    <3>1. 0 \in Nat /\ 0 < h /\ h <= h
      BY <1>1
    <3>2. Grid(h, r, h) \in Nat /\ Grid(h, r, h) <= (h + r - 1) \div r
      BY <1>1, <3>1, GridFacts
    <3> QED
      BY <2>1, <3>2 DEF Grid
  <2>2. CASE current_time # h
    <3>1. current_time < h /\ h <= h
      BY <1>1, <2>2
    <3> QED
      BY <1>1, <3>1, GridFacts DEF Grid
  <2> QED
    BY <2>1, <2>2
<1>3. e \in 0 .. 1 /\ p \in 0 .. 1
  BY DEF One
<1>4. event_index + e <= n
  <2>1. e = 1 => event_index < n
    BY DEF One, EventDue
  <2> HIDE DEF e, n
  <2> QED
    BY <1>1, <1>3, <2>1
<1>5. Marks + p <= twice
  <2>1. CASE pc # "milestone"
    <3>1. p = 0
      BY <2>1 DEF One
    <3> HIDE DEF p, twice
    <3> QED
      BY <1>1, <3>1
  <2>2. CASE pc = "milestone"
    <3>1. Marks + 1 <= twice
      BY <2>2, MarksLeft DEF BudgetInv
    <3>2. p = 1
      BY <2>2 DEF One
    <3> HIDE DEF p, twice
    <3> QED
      BY <3>1, <3>2
  <2> QED
    BY <2>1, <2>2
<1>6. Len(timeline) <= x + event_index + e + Marks + p /\ Len(timeline) \in Nat
  BY Appended DEF BudgetInv, Boundaries
<1>7. estimated_segments(h, r, n) = top + n + twice
  BY DEF estimated_segments
<1>8. Len(timeline) <= top + n + twice
  <2> HIDE DEF x, n, e, p, twice, top
  <2> QED
    BY <1>1, <1>2, <1>3, <1>4, <1>5, <1>6
<1>9. Len(transitions) <= 1 + event_index + twice
  <2>1. Len(transitions) = 1 + event_index + Marks
    BY DEF BudgetInv
  <2> HIDE DEF twice
  <2> QED
    BY <1>1, <2>1
<1> QED
  BY <1>7, <1>8, <1>9

-----------------------------------------------------------------------------
(* The estimate: telemetry.                                                *)

\* One step of the loop over the segments: the points of the last of them come last.
Collect(g, q, S) ==
  IF S = {} THEN << >> ELSE g[S \ {Max(S)}] \o segment_points(q[Max(S)])

\* g has the points of each set of at most n segments.
CollectsUpTo(g, q, n) ==
  \A S \in SUBSET DOMAIN q : Cardinality(S) <= n => g[S] = Collect(g, q, S)

Collects(g, q) == g = [S \in SUBSET DOMAIN q |-> Collect(g, q, S)]

\* A collection exists.
LEMMA CollectionExists ==
  ASSUME NEW q, IsSeq(q)
  PROVE  \E g : Collects(g, q)
<1> DEFINE D == DOMAIN q
           Bad == {n \in Nat : ~ \E g : g = [S \in SUBSET D |-> g[S]] /\ CollectsUpTo(g, q, n)}
<1>1. PICK m \in Nat : D = 1 .. m
  BY DEF IsSeq
<1>2. IsFiniteSet(D) /\ Cardinality(D) \in Nat
  BY <1>1, FS_Interval, FS_CardinalityType
<1>3. Bad = {}
  <2> SUFFICES ASSUME Bad # {} PROVE FALSE
    OBVIOUS
  <2>1. PICK n \in Bad : \A k \in Bad : n <= k
    <3>1. Bad \in SUBSET Nat
      OBVIOUS
    <3> HIDE DEF Bad
    <3> QED
      BY <3>1, LeastNat
  <2>2. CASE n = 0
    <3> DEFINE g == [S \in SUBSET D |-> << >>]
    <3>1. \A S \in SUBSET D : Cardinality(S) <= 0 => S = {}
      <4> TAKE S \in SUBSET D
      <4> QED
        BY <1>2, FS_Subset, FS_CardinalityType, FS_EmptySet
    <3>2. CollectsUpTo(g, q, 0)
      BY <3>1 DEF CollectsUpTo, Collect
    <3>3. g = [S \in SUBSET D |-> g[S]]
      OBVIOUS
    <3> QED
      BY <2>2, <3>2, <3>3
  <2>3. CASE n # 0
    <3>1. n - 1 \in Nat /\ n - 1 \notin Bad
      <4>1. n \in Nat
        BY <2>1
      <4> HIDE DEF Bad
      <4> QED
        BY <2>1, <2>3, <4>1
    <3>2. PICK f : CollectsUpTo(f, q, n - 1)
      BY <3>1
    <3> DEFINE g == [S \in SUBSET D |-> Collect(f, q, S)]
    <3>3. ASSUME NEW S \in SUBSET D, Cardinality(S) <= n PROVE g[S] = Collect(g, q, S)
      <4>1. CASE S = {}
        BY <4>1 DEF Collect
      <4>2. CASE S # {}
        <5> DEFINE x == Max(S)
                   t == S \ {x}
        <5>1. x \in S
          BY <1>1, <4>2, MaxOfPositions
        <5>2. t \in SUBSET D /\ Cardinality(t) <= n - 1
          <6> HIDE DEF x
          <6>1. Cardinality(S) \in Nat \ {0} /\ Cardinality(t) = Cardinality(S) - 1 /\ n \in Nat
            BY <1>2, <2>1, <5>1, Smaller
          <6> QED
            BY <3>3, <6>1
        <5>3. f[t] = Collect(f, q, t) /\ g[t] = Collect(f, q, t)
          BY <3>2, <5>2 DEF CollectsUpTo
        <5>4. g[S] = f[t] \o segment_points(q[x])
          BY <4>2 DEF Collect
        <5> QED
          BY <4>2, <5>3, <5>4 DEF Collect
      <4> QED
        BY <4>1, <4>2
    <3>4. CollectsUpTo(g, q, n)
      <4> HIDE DEF g
      <4> QED
        BY <3>3 DEF CollectsUpTo
    <3>5. g = [S \in SUBSET D |-> g[S]]
      OBVIOUS
    <3> HIDE DEF g
    <3> QED
      BY <2>1, <3>4, <3>5
  <2> QED
    BY <2>2, <2>3
<1>4. PICK g : g = [S \in SUBSET D |-> g[S]] /\ CollectsUpTo(g, q, Cardinality(D))
  BY <1>2, <1>3
<1>5. \A S \in SUBSET D : g[S] = Collect(g, q, S)
  BY <1>2, <1>4, FS_Subset DEF CollectsUpTo
<1>6. g = [S \in SUBSET D |-> Collect(g, q, S)]
  BY <1>4, <1>5
<1> QED
  BY <1>6 DEF Collects

\* build_telemetry is one.
LEMMA TelemetryCollects ==
  ASSUME NEW q, IsSeq(q)
  PROVE  \E g : Collects(g, q) /\ build_telemetry(q) = g[DOMAIN q]
<1> DEFINE IsFold(g) == g = [S \in SUBSET DOMAIN q |->
                               IF S = {} THEN << >>
                               ELSE g[S \ {Max(S)}] \o segment_points(q[Max(S)])]
           h == CHOOSE g : IsFold(g)
<1>1. build_telemetry(q) = h[DOMAIN q]
  BY DEF build_telemetry, FoldLeft, MapThenFoldSet
<1>2. \E g : IsFold(g)
  BY CollectionExists DEF Collects, Collect
<1>3. IsFold(h)
  <2> HIDE DEF IsFold
  <2> QED
    BY <1>2
<1> QED
  BY <1>1, <1>3 DEF Collects, Collect

\* Sequences of any kind, one after the other.
LEMMA Joined ==
  ASSUME NEW p, IsSeq(p), NEW q, IsSeq(q)
  PROVE  IsSeq(p \o q) /\ Len(p) \in Nat /\ Len(q) \in Nat /\ Len(p \o q) = Len(p) + Len(q)
<1>1. PICK S : p \in Seq(S)
  BY DEF IsSeq
<1>2. PICK T : q \in Seq(T)
  BY DEF IsSeq
<1> DEFINE U == S \cup T
<1>3. p \in Seq(U) /\ q \in Seq(U)
  BY <1>1, <1>2
<1> HIDE DEF U
<1>4. p \o q \in Seq(U) /\ Len(p) \in Nat /\ Len(q) \in Nat /\ Len(p \o q) = Len(p) + Len(q)
  BY <1>3
<1> QED
  BY <1>4 DEF IsSeq

\* A function on 1 .. n is a sequence of n.
LEMMA Listed ==
  ASSUME NEW n \in Nat, NEW f, DOMAIN f = 1 .. n, f = [i \in 1 .. n |-> f[i]]
  PROVE  IsSeq(f) /\ Len(f) = n
<1> DEFINE S == {f[i] : i \in 1 .. n}
<1>1. f \in [1 .. n -> S]
  OBVIOUS
<1> HIDE DEF S
<1>2. f \in Seq(S)
  BY <1>1, IsASeq
<1>3. Len(f) = n
  BY <1>2, LenProperties
<1> QED
  BY <1>2, <1>3 DEF IsSeq

\* The points of one segment: four of the site, and one for each UPS, source and load.
LEMMA SegmentPoints ==
  ASSUME NEW seg, seg.source_ids \in SUBSET Components
  PROVE  /\ IsSeq(segment_points(seg))
         /\ Len(segment_points(seg)) = 4 + Cardinality(Upses) + Cardinality(seg.source_ids)
                                         + Cardinality(Loads)
<1> DEFINE point(c, metric, value) == [time_ms |-> seg.end_ms, component_id |-> c,
                                       metric |-> metric, value |-> value]
           each(ids, metric, f) == [i \in DOMAIN sorted(ids) |->
                                      point(sorted(ids)[i], metric, f[sorted(ids)[i]])]
           first == << point(0, "demand_w", seg.demand_w), point(0, "served_w", seg.served_w),
                       point(0, "unserved_w", seg.unserved_w) >>
           stored == each(Upses, "stored_energy_mj", seg.battery_energy_mj)
           sources == each(seg.source_ids, "source_power_w", seg.source_power_w)
           served == each(Loads, "served_power_w", seg.load_service_w)
           last == << point(0, "modeled_redundancy_state", seg.redundancy_state) >>
<1>1. segment_points(seg) = first \o stored \o sources \o served \o last
  BY DEF segment_points
<1>2. ASSUME NEW ids \in SUBSET Components, NEW metric, NEW f
      PROVE  /\ Cardinality(ids) \in Nat
             /\ IsSeq(each(ids, metric, f)) /\ Len(each(ids, metric, f)) = Cardinality(ids)
  <2>1. Cardinality(ids) \in Nat
    BY SiteFacts, FS_Subset, FS_CardinalityType
  <2>2. DOMAIN sorted(ids) = 1 .. Cardinality(ids)
    BY DEF sorted
  <2> DEFINE e == each(ids, metric, f)
  <2>3. DOMAIN e = 1 .. Cardinality(ids) /\ e = [i \in 1 .. Cardinality(ids) |-> e[i]]
    BY <2>2
  <2> HIDE DEF e
  <2>4. IsSeq(e) /\ Len(e) = Cardinality(ids)
    BY <2>1, <2>3, Listed
  <2> QED
    BY <2>1, <2>4 DEF e
<1>3. Upses \in SUBSET Components /\ Loads \in SUBSET Components
  BY DEF Upses, Loads, OfKind
<1>4. /\ IsSeq(first) /\ Len(first) = 3 /\ IsSeq(last) /\ Len(last) = 1
      /\ IsSeq(stored) /\ Len(stored) = Cardinality(Upses) /\ Cardinality(Upses) \in Nat
      /\ IsSeq(sources) /\ Len(sources) = Cardinality(seg.source_ids)
      /\ Cardinality(seg.source_ids) \in Nat
      /\ IsSeq(served) /\ Len(served) = Cardinality(Loads) /\ Cardinality(Loads) \in Nat
  <2>1. \A a, b, c : IsSeq(<< a, b, c >>) /\ Len(<< a, b, c >>) = 3
    <3> TAKE a, b, c
    <3>1. << a, b, c >> \in Seq({a, b, c})
      OBVIOUS
    <3> QED
      BY <3>1 DEF IsSeq
  <2>2. \A a : IsSeq(<< a >>) /\ Len(<< a >>) = 1
    <3> TAKE a
    <3>1. << a >> \in Seq({a})
      OBVIOUS
    <3> QED
      BY <3>1 DEF IsSeq
  <2> HIDE DEF point
  <2> QED
    BY <1>2, <1>3, <2>1, <2>2
<1> HIDE DEF first, stored, sources, served, last
<1>5. /\ IsSeq(first \o stored) /\ Len(first \o stored) = 3 + Cardinality(Upses)
  BY <1>4, Joined
<1>6. /\ IsSeq(first \o stored \o sources)
      /\ Len(first \o stored \o sources) = 3 + Cardinality(Upses) + Cardinality(seg.source_ids)
  BY <1>4, <1>5, Joined
<1>7. /\ IsSeq(first \o stored \o sources \o served)
      /\ Len(first \o stored \o sources \o served)
           = 3 + Cardinality(Upses) + Cardinality(seg.source_ids) + Cardinality(Loads)
  BY <1>4, <1>6, Joined
<1>8. /\ IsSeq(first \o stored \o sources \o served \o last)
      /\ Len(first \o stored \o sources \o served \o last)
           = 3 + Cardinality(Upses) + Cardinality(seg.source_ids) + Cardinality(Loads) + 1
  BY <1>4, <1>7, Joined
<1> QED
  BY <1>1, <1>4, <1>8

\* The points of the first k segments, the k-th's last.
Accumulates(g, q, n) ==
  /\ g[1 .. 0] = << >>
  /\ \A k \in 1 .. n : g[1 .. k] = g[1 .. k - 1] \o segment_points(q[k])

\* A collection accumulates.
LEMMA CollectedUpTo ==
  ASSUME NEW q, NEW n \in Nat, DOMAIN q = 1 .. n, NEW g, Collects(g, q)
  PROVE  Accumulates(g, q, n)
<1>1. ASSUME NEW S \in SUBSET (1 .. n) PROVE g[S] = Collect(g, q, S)
  BY <1>1 DEF Collects
<1>2. g[1 .. 0] = << >>
  <2>1. 1 .. 0 = {}
    OBVIOUS
  <2> QED
    BY <1>1, <2>1 DEF Collect
<1>3. ASSUME NEW k \in 1 .. n PROVE g[1 .. k] = g[1 .. k - 1] \o segment_points(q[k])
  <2>1. 1 .. k \in SUBSET (1 .. n) /\ 1 .. k # {} /\ (1 .. k) \ {k} = 1 .. k - 1 /\ k \in 1 .. k
    OBVIOUS
  <2>2. Max(1 .. k) = k
    <3>1. Max(1 .. k) \in 1 .. k /\ \A y \in 1 .. k : y <= Max(1 .. k)
      BY <2>1, MaxOfPositions
    <3> QED
      BY <2>1, <3>1
  <2> QED
    BY <1>1, <2>1, <2>2 DEF Collect
<1> QED
  BY <1>2, <1>3 DEF Accumulates

\* The telemetry of nothing is nothing.
LEMMA TelemetryOfNone == build_telemetry(<< >>) = << >>
<1> DEFINE q == << >>
<1>1. IsSeq(q) /\ DOMAIN q = 1 .. 0
  <2>1. q \in Seq({})
    OBVIOUS
  <2> QED
    BY <2>1 DEF IsSeq
<1> HIDE DEF q
<1>2. PICK g : Collects(g, q) /\ build_telemetry(q) = g[DOMAIN q]
  BY <1>1, TelemetryCollects
<1>3. g[1 .. 0] = << >>
  BY <1>1, <1>2, CollectedUpTo DEF Accumulates
<1>4. build_telemetry(q) = << >>
  BY <1>1, <1>2, <1>3
<1> QED
  BY <1>4 DEF q

\* The telemetry of one segment more is that of the others and then its own points.
LEMMA TelemetryOfAppended ==
  ASSUME NEW q, IsSeq(q), NEW x
  PROVE  build_telemetry(Append(q, x)) = build_telemetry(q) \o segment_points(x)
<1> DEFINE p == Append(q, x)
           n == Len(q)
<1>1. /\ IsSeq(p) /\ n \in Nat /\ DOMAIN q = 1 .. n /\ DOMAIN p = 1 .. n + 1
      /\ p[n + 1] = x /\ \A i \in 1 .. n : p[i] = q[i]
  BY Appended
<1> HIDE DEF p, n
<1>2. PICK g : Collects(g, q) /\ build_telemetry(q) = g[1 .. n]
  BY <1>1, TelemetryCollects
<1>3. PICK h : Collects(h, p) /\ build_telemetry(p) = h[1 .. n + 1]
  BY <1>1, TelemetryCollects
<1>4. Accumulates(g, q, n)
  BY <1>1, <1>2, CollectedUpTo
<1>5. Accumulates(h, p, n + 1)
  <2>1. n + 1 \in Nat
    BY <1>1
  <2> QED
    BY <1>1, <1>3, <2>1, CollectedUpTo
<1>6. g[1 .. n] = h[1 .. n]
  <2> DEFINE Bad == {k \in 0 .. n : g[1 .. k] # h[1 .. k]}
  <2>1. SUFFICES ASSUME Bad # {} PROVE FALSE
    BY <1>1
  <2>2. PICK k \in Bad : \A j \in Bad : k <= j
    <3>1. Bad \in SUBSET Nat
      BY <1>1
    <3> HIDE DEF Bad
    <3> QED
      BY <2>1, <3>1, LeastNat
  <2>3. k \in 0 .. n /\ k # 0
    BY <1>4, <1>5, <2>2 DEF Accumulates
  <2>4. k \in 1 .. n /\ k \in 1 .. n + 1 /\ k - 1 \in 0 .. n /\ k - 1 < k
    BY <1>1, <2>3
  <2>5. k - 1 \notin Bad
    <3> HIDE DEF Bad
    <3> QED
      BY <2>2, <2>3, <2>4
  <2>6. g[1 .. k - 1] = h[1 .. k - 1]
    BY <2>4, <2>5
  <2>7. g[1 .. k] = h[1 .. k]
    <3>1. g[1 .. k] = g[1 .. k - 1] \o segment_points(q[k])
      BY <1>4, <2>4 DEF Accumulates
    <3>2. h[1 .. k] = h[1 .. k - 1] \o segment_points(p[k])
      BY <1>5, <2>4 DEF Accumulates
    <3>3. p[k] = q[k]
      BY <1>1, <2>4
    <3> QED
      BY <2>6, <3>1, <3>2, <3>3
  <2> QED
    BY <2>2, <2>7
<1>7. h[1 .. n + 1] = h[1 .. n] \o segment_points(x)
  <2>1. n + 1 \in 1 .. n + 1 /\ n + 1 - 1 = n
    BY <1>1
  <2> DEFINE k == n + 1
  <2>2. k \in 1 .. k /\ k - 1 = n
    BY <1>1
  <2> HIDE DEF k
  <2>3. Accumulates(h, p, k)
    BY <1>5 DEF k
  <2>4. h[1 .. k] = h[1 .. k - 1] \o segment_points(p[k])
    BY <2>2, <2>3 DEF Accumulates
  <2> QED
    BY <1>1, <2>2, <2>4 DEF k
<1> QED
  BY <1>2, <1>3, <1>6, <1>7 DEF p

\* The points that the estimate has for a segment, and one for each battery in use.
Allowance(q) == [i \in DOMAIN q |-> points_per_segment + Cardinality(q[i].source_ids \cap Upses)]

\* The sources are utilities, generators and batteries.
Supplying(ids) == ids \subseteq Upses \cup (Utilities \cup Generators)

\* The points of the run are within the allowance of its segments.
TelemetryInv ==
  /\ IsSeq(build_telemetry(timeline))
  /\ \A i \in Segments : Supplying(timeline[i].source_ids)
  /\ Len(build_telemetry(timeline)) <= Total(Allowance(timeline))

\* The parts of the allowance are numbers.
LEMMA AllowanceParts ==
  /\ points_per_segment \in Nat
  /\ \A ids : Cardinality(ids \cap Upses) \in Nat
  /\ \A ids : Supplying(ids) =>
       (/\ ids \in SUBSET Components
        /\ 4 + Cardinality(Upses) + Cardinality(ids) + Cardinality(Loads)
             <= points_per_segment + Cardinality(ids \cap Upses))
<1> DEFINE grid == Utilities \cup Generators
<1>1. Upses \in SUBSET Components /\ Loads \in SUBSET Components /\ grid \in SUBSET Components
  BY DEF Upses, Loads, Utilities, Generators, OfKind
<1>2. \A A \in SUBSET Components : IsFiniteSet(A) /\ Cardinality(A) \in Nat
  BY SiteFacts, FS_Subset, FS_CardinalityType
<1>3. points_per_segment = 4 + Cardinality(Upses) + Cardinality(Loads) + Cardinality(grid)
  BY DEF points_per_segment
<1>4. /\ Cardinality(Upses) \in Nat /\ Cardinality(Loads) \in Nat /\ Cardinality(grid) \in Nat
      /\ IsFiniteSet(grid)
  BY <1>1, <1>2
<1> HIDE DEF grid
<1>5. ASSUME NEW ids PROVE Cardinality(ids \cap Upses) \in Nat
  BY <1>1, <1>2
<1>6. ASSUME NEW ids, ids \subseteq Upses \cup grid
      PROVE  ids \in SUBSET Components /\ Cardinality(ids) <= Cardinality(ids \cap Upses) + Cardinality(grid)
  <2> DEFINE used == ids \cap Upses
             rest == ids \ Upses
  <2>1. ids \in SUBSET Components /\ rest \in SUBSET grid /\ ids = used \cup rest /\ used \cap rest = {}
    BY <1>1, <1>6
  <2>2. used \in SUBSET Components /\ rest \in SUBSET Components
    BY <2>1
  <2> HIDE DEF used, rest
  <2>3. IsFiniteSet(used) /\ IsFiniteSet(rest) /\ Cardinality(used) \in Nat /\ Cardinality(rest) \in Nat
    BY <1>2, <2>2
  <2>4. Cardinality(rest) <= Cardinality(grid)
    BY <1>4, <2>1, FS_Subset
  <2>5. Cardinality(ids) = Cardinality(used) + Cardinality(rest)
    <3>1. Cardinality(used \cap rest) = 0
      BY <2>1, FS_EmptySet
    <3>2. Cardinality(used \cup rest) = Cardinality(used) + Cardinality(rest) - Cardinality(used \cap rest)
      BY <2>3, FS_Union
    <3> QED
      BY <2>1, <2>3, <3>1, <3>2
  <2>6. Cardinality(ids) <= Cardinality(used) + Cardinality(grid)
    BY <1>4, <2>3, <2>4, <2>5
  <2> QED
    BY <2>1, <2>6 DEF used
<1>7. ASSUME NEW ids, Supplying(ids)
      PROVE  /\ ids \in SUBSET Components
             /\ 4 + Cardinality(Upses) + Cardinality(ids) + Cardinality(Loads)
                  <= points_per_segment + Cardinality(ids \cap Upses)
  <2>1. ids \subseteq Upses \cup grid
    BY <1>7 DEF Supplying, grid
  <2>2. ids \in SUBSET Components /\ Cardinality(ids) <= Cardinality(ids \cap Upses) + Cardinality(grid)
    BY <1>6, <2>1
  <2>3. Cardinality(ids) \in Nat /\ Cardinality(ids \cap Upses) \in Nat
    BY <1>2, <1>5, <2>2
  <2> QED
    BY <1>3, <1>4, <2>2, <2>3
<1> QED
  BY <1>3, <1>4, <1>5, <1>7

\* The points of a segment are within its allowance.
LEMMA SegmentTelemetry ==
  ASSUME SafetyInv, CurrentInv, TileInv, TelemetryInv, RunSegment
  PROVE  TelemetryInv'
<1> DEFINE boundary == next_boundary(next_battery_milestone)
           s == segment(current_time, boundary, summary,
                        integrate_batteries(boundary - current_time), causes)
           n == Len(timeline)
           room == points_per_segment + Cardinality(s.source_ids \cap Upses)
           points == segment_points(s)
<1>1. timeline' = Append(timeline, s) /\ pc = "loop"
  BY DEF RunSegment, AtLoopHead
<1>2. s.source_ids = summary.source_ids /\ summary = solve_capacity(state) /\ state \in RuntimeState
  BY <1>1 DEF segment, CurrentInv, SafetyInv, Ahead, EngineTypes
<1> HIDE DEF s
<1>3. Supplying(s.source_ids)
  BY <1>2, SourceFacts DEF Supplying
<1>4. IsSeq(points) /\ Len(points) \in Nat /\ Len(points) <= room /\ room \in Nat
  <2>1. /\ s.source_ids \in SUBSET Components
        /\ 4 + Cardinality(Upses) + Cardinality(s.source_ids) + Cardinality(Loads) <= room
        /\ room \in Nat
    <3> DEFINE ids == s.source_ids
    <3> HIDE DEF ids
    <3>1. Supplying(ids)
      BY <1>3 DEF ids
    <3>2. /\ ids \in SUBSET Components
          /\ 4 + Cardinality(Upses) + Cardinality(ids) + Cardinality(Loads)
               <= points_per_segment + Cardinality(ids \cap Upses)
      BY <3>1, AllowanceParts
    <3>3. points_per_segment + Cardinality(ids \cap Upses) \in Nat
      <4>1. points_per_segment \in Nat /\ Cardinality(ids \cap Upses) \in Nat
        BY AllowanceParts
      <4> QED
        BY <4>1
    <3> QED
      BY <3>2, <3>3 DEF ids
  <2>2. IsSeq(points) /\ Len(points) = 4 + Cardinality(Upses) + Cardinality(s.source_ids) + Cardinality(Loads)
    BY <2>1, SegmentPoints
  <2>3. Len(points) \in Nat
    BY <2>2, Appended
  <2> QED
    BY <2>1, <2>2, <2>3
<1>5. build_telemetry(timeline') = build_telemetry(timeline) \o points
  BY <1>1, TelemetryOfAppended DEF TileInv
<1> HIDE DEF points
<1>6. /\ IsSeq(build_telemetry(timeline'))
      /\ Len(build_telemetry(timeline')) = Len(build_telemetry(timeline)) + Len(points)
      /\ Len(build_telemetry(timeline)) \in Nat
  BY <1>4, <1>5, Joined DEF TelemetryInv
<1>7. /\ n \in Nat /\ DOMAIN timeline = 1 .. n /\ DOMAIN timeline' = 1 .. n + 1
      /\ \A i \in 1 .. n : timeline'[i] = timeline[i]
      /\ timeline'[n + 1] = s
  BY <1>1, Appended DEF TileInv
<1> HIDE DEF n
<1>8. Total(Allowance(timeline)) \in Int /\ Total(Allowance(timeline')) = Total(Allowance(timeline)) + room
  <2> DEFINE share(ids) == points_per_segment + Cardinality(ids \cap Upses)
  <2>1. \A ids : share(ids) \in Int
    <3> TAKE ids
    <3>1. points_per_segment \in Nat /\ Cardinality(ids \cap Upses) \in Nat
      BY AllowanceParts
    <3> QED
      BY <3>1
  <2>2. /\ Allowance(timeline) \in [1 .. n -> Int] /\ Allowance(timeline') \in [1 .. n + 1 -> Int]
        /\ \A i \in 1 .. n : Allowance(timeline)[i] = Allowance(timeline')[i]
    <3>1. /\ Allowance(timeline) = [i \in 1 .. n |-> share(timeline[i].source_ids)]
          /\ Allowance(timeline') = [i \in 1 .. n + 1 |-> share(timeline'[i].source_ids)]
      BY <1>7 DEF Allowance
    <3>2. \A i \in 1 .. n : i \in 1 .. n + 1 /\ timeline'[i] = timeline[i]
      BY <1>7
    <3> HIDE DEF share
    <3> QED
      BY <2>1, <3>1, <3>2
  <2>3. Allowance(timeline')[n + 1] = room
    <3>1. n + 1 \in 1 .. n + 1
      BY <1>7
    <3> QED
      BY <1>7, <3>1 DEF Allowance
  <2> HIDE DEF room
  <2> QED
    BY <1>7, <2>2, <2>3, TotalOfAppended
<1>9. \A i \in Segments' : Supplying(timeline'[i].source_ids)
  <2>1. \A i \in 1 .. n + 1 : i \in 1 .. n \/ i = n + 1
    BY <1>7
  <2> QED
    BY <1>3, <1>7, <2>1 DEF Segments, TelemetryInv
<1>10. Len(build_telemetry(timeline')) <= Total(Allowance(timeline'))
  <2>1. Len(build_telemetry(timeline)) <= Total(Allowance(timeline))
    BY DEF TelemetryInv
  <2> HIDE DEF room
  <2> QED
    BY <1>4, <1>6, <1>8, <2>1
<1> QED
  BY <1>6, <1>9, <1>10 DEF TelemetryInv

\* Only a segment adds points.
LEMMA NextTelemetryInv ==
  ASSUME SafetyInv, CurrentInv, TileInv, TelemetryInv, [Next]_vars PROVE TelemetryInv'
<1>1. CASE RunSegment
  BY <1>1, SegmentTelemetry
<1>2. CASE ~ RunSegment
  <2>1. timeline' = timeline
    BY <1>2 DEF Next, BeginGroup, NothingDue, ProcessExternal, RejectParallelSources,
       RejectInexactMilestone, NoTimePasses, ProcessInternal, Finish, Stopped, vars, run
  <2> QED
    BY <2>1 DEF TelemetryInv, Segments
<1> QED
  BY <1>1, <1>2

\* TelemetryInv holds in the initial states.
LEMMA InitTelemetryInv == ASSUME Init PROVE TelemetryInv
<1>1. timeline = << >> /\ DOMAIN timeline = {}
  BY DEF Init
<1>2. build_telemetry(timeline) = << >>
  BY <1>1, TelemetryOfNone
<1>3. IsSeq(build_telemetry(timeline)) /\ Len(build_telemetry(timeline)) = 0
  <2> DEFINE q == build_telemetry(timeline)
  <2>1. q = << >>
    BY <1>2
  <2> HIDE DEF q
  <2>2. q \in Seq({}) /\ Len(q) = 0
    BY <2>1
  <2> QED
    BY <2>2 DEF IsSeq, q
<1>4. Total(Allowance(timeline)) = 0
  <2>1. Allowance(timeline) \in [{} -> Int]
    BY <1>1 DEF Allowance
  <2> QED
    BY <2>1, TotalOfNone
<1> QED
  BY <1>1, <1>3, <1>4 DEF TelemetryInv, Segments

\* TelemetryInv is an invariant.
LEMMA TelemetryInvariant == Spec => []TelemetryInv
<1>1. Init => TelemetryInv
  BY InitTelemetryInv
<1>2. SafetyInv /\ CurrentInv /\ TileInv /\ TelemetryInv /\ [Next]_vars => TelemetryInv'
  BY NextTelemetryInv
<1> QED
  BY <1>1, <1>2, SafetyInvariant, CurrentInvariant, TileInvariant, PTL DEF Spec

\* What parse_scenario estimated (validation.py) bounds every run of simulate: a segment
\* ends at a multiple of the resolution, an event or a battery milestone that is reported
\* once, and its telemetry exceeds the estimate by the batteries in use alone.
THEOREM WithinEstimateHolds == Spec => []WithinEstimate
<1>1. SafetyInv /\ BudgetInv /\ TileInv /\ TelemetryInv => WithinEstimate
  <2> HAVE SafetyInv /\ BudgetInv /\ TileInv /\ TelemetryInv
  <2>1. IsSeq(timeline)
    BY DEF TileInv
  <2>2. Allowance(timeline) =
          [i \in Segments |-> points_per_segment + Cardinality(timeline[i].source_ids \cap Upses)]
    BY DEF Allowance, Segments
  <2> QED
    BY <2>1, <2>2, CountsWithinEstimate DEF WithinEstimate, TelemetryInv
<1> QED
  BY <1>1, SafetyInvariant, BudgetInvariant, TileInvariant, TelemetryInvariant, PTL
=============================================================================
