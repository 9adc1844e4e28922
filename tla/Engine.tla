------------------------------- MODULE Engine -------------------------------
(***************************************************************************)
(* simulate (engine.py): one deterministic run of an accepted scenario.    *)
(*                                                                         *)
(* pc says where the run is:                                               *)
(*   "due"       about to look for external events at current_time         *)
(*   "group"     inside _process_external_group                            *)
(*   "loop"      at the head of the main loop                              *)
(*   "milestone" the segment ended at a battery milestone                  *)
(*   "stopped"   simulate returned (outcome "completed") or raised         *)
(*               (outcome is the code of the error)                        *)
(***************************************************************************)
EXTENDS Capacity, ScenarioContract, Telemetry, Alarms

CONSTANTS
  Scenarios,       \* the accepted scenarios under study
  MAX_TRANSITIONS  \* 10000 in the code

ASSUME ScenarioAssumption ==
  /\ \A s \in Scenarios : ParsedScenario(s)
  /\ MAX_TRANSITIONS \in Nat \ {0}

VARIABLES
  scenario,      \* the input
  pc,
  outcome,       \* "running", "completed" or the code of the error raised
  state,         \* the RuntimeState
  summary,       \* the capacity of the last transition: it is not solved again
                 \* while the batteries discharge
  current_time,
  event_index,   \* how many events are processed
  group,         \* baseline and end of the group in progress
  milestone,     \* the milestone that the last loop head found
  ledger,        \* the alarms
  transitions,
  causes,        \* the event that the next segment names
  timeline,
  accumulator,
  metrics        \* published by a completed run

run  == <<state, summary, ledger, transitions, causes>>
vars == <<scenario, pc, outcome, run, current_time, event_index, group, milestone,
          timeline, accumulator, metrics>>

-----------------------------------------------------------------------------
(* Events.                                                                 *)

Initialized == <<"system.initialized", 0, 0>>
EventId(e)  == <<"event", e.id, 0>>
InternalId(kind, u, time) == <<kind, u, time>>

StatusOf(kind) ==
  CASE kind \in {"component_failure", "generator_start_failure"} -> "failed"
    [] kind = "maintenance_start" -> "maintenance"
    [] kind \in {"component_restore", "maintenance_end", "generator_running"} -> "available"

\* Mutant: a failed generator keeps running.
generators_running_after_failure(s, e) ==
  IF e.kind = "generator_running" THEN s.generator_running \cup {e.component_id}
  ELSE s.generator_running

\* Mutant: whatever becomes available runs.
generators_running_when_available(s, e) ==
  IF StatusOf(e.kind) = "available" THEN s.generator_running \cup {e.component_id}
  ELSE s.generator_running \ {e.component_id}

\* The generators that a status event or the outcome of a start leaves running.
generators_running(s, e) ==
  IF e.kind = "generator_running" THEN s.generator_running \cup {e.component_id}
  ELSE IF StatusOf(e.kind) = "available" THEN s.generator_running
  ELSE s.generator_running \ {e.component_id}

\* _apply_event and _apply_status_event, their effect on the runtime state.
apply_event(s, e) ==
  LET c == e.component_id IN
  CASE e.kind = "atomic_transfer" ->
         [s EXCEPT !.connection_closed = [k \in Connections |->
            k \in e.close_connection_ids \/ (@[k] /\ k \notin e.open_connection_ids)]]
    [] e.kind = "load_step" -> [s EXCEPT !.demand_w[c] = e.demand_w]
    [] OTHER ->
         [s EXCEPT !.component_status[c] = StatusOf(e.kind),
                   !.generator_running = generators_running(s, e)]

RaisedCode == [component_failure       |-> "component_failed",
               maintenance_start       |-> "maintenance_active",
               generator_start_failure |-> "generator_start_failed"]
ClearedCode == [component_restore |-> "component_failed",
                maintenance_end   |-> "maintenance_active",
                generator_running |-> "generator_start_failed"]

\* Mutant: a component that is available again has no alarm left.
apply_event_alarms_by_status(l, e) ==
  IF e.kind \in DOMAIN RaisedCode
  THEN raise_alarm(l, e.time_ms, <<RaisedCode[e.kind], e.component_id>>, EventId(e))
  ELSE IF e.kind \in DOMAIN ClearedCode
  THEN clear(clear(l, <<"maintenance_active", e.component_id>>),
             <<"component_failed", e.component_id>>)
  ELSE l

\* The same two functions, their effect on the alarms.
apply_event_alarms(l, e) ==
  IF e.kind \in DOMAIN RaisedCode
  THEN raise_alarm(l, e.time_ms, <<RaisedCode[e.kind], e.component_id>>, EventId(e))
  ELSE IF e.kind \in DOMAIN ClearedCode
  THEN clear(l, <<ClearedCode[e.kind], e.component_id>>)
  ELSE l

\* Mutant: only the inputs of an available source count.
SwitchingValidOfAvailable(s) ==
  \A c \in Switches :
    \A j, k \in {i \in InputsOf(c) : IsAvailable(s, connection[i].from_component)} :
      s.connection_closed[j] /\ s.connection_closed[k] => j = k

\* _validate_runtime_switching
SwitchingValid(s) ==
  \A c \in Switches : \A j, k \in InputsOf(c) :
    s.connection_closed[j] /\ s.connection_closed[k] => j = k

-----------------------------------------------------------------------------
(* Battery milestones.                                                     *)

threshold_mj(u) ==
  (component[u].usable_energy_mj * component[u].low_energy_threshold_pct) \div 100

\* Mutant: a UPS is not followed any longer once it was warned about.
DischargingUnwarned ==
  {u \in summary.battery_source_ids \ state.low_energy_alarm_raised :
     summary.source_power_w[u] > 0}

Discharging == {u \in summary.battery_source_ids : summary.source_power_w[u] > 0}

WarnsNext(u) == /\ u \notin state.low_energy_alarm_raised
                /\ state.battery_energy_mj[u] >= threshold_mj(u)

EnergyToMilestone(u) ==
  state.battery_energy_mj[u] - IF WarnsNext(u) THEN threshold_mj(u) ELSE 0

\* The milestone of a discharging UPS.
Candidate(u) ==
  [time_ms |-> current_time + EnergyToMilestone(u) \div summary.source_power_w[u],
   kind |-> IF WarnsNext(u) THEN "ups_low_energy" ELSE "ups_depleted",
   component_id |-> u]

\* The order of the tuples (time, 10 or 20, id).
MilestoneBefore(m, n) ==
  \/ m.time_ms < n.time_ms
  \/ /\ m.time_ms = n.time_ms
     /\ \/ m.kind = "ups_low_energy" /\ n.kind = "ups_depleted"
        \/ m.kind = n.kind /\ m.component_id < n.component_id

NoMilestone == [time_ms |-> -1, kind |-> "none", component_id |-> 0]

next_battery_milestone ==
  IF Discharging = {} THEN NoMilestone
  ELSE LET candidates == {Candidate(u) : u \in Discharging}
       IN  CHOOSE m \in candidates : \A n \in candidates : n = m \/ MilestoneBefore(m, n)

\* _exact_duration divides without remainder for every candidate.
ExactMilestones ==
  \A u \in Discharging : EnergyToMilestone(u) % summary.source_power_w[u] = 0

\* Mutants: a boundary that is left out, and a resolution that rounds down.
boundary_at_horizon == scenario.horizon_ms
boundary_without_milestone(m) == scenario.horizon_ms
boundary_rounded_down == (current_time \div scenario.resolution_ms) * scenario.resolution_ms

\* The end of the next segment: the next event, the milestone m, the next multiple of
\* the resolution or the horizon.
boundary_external ==
  IF event_index < Len(scenario.events)
  THEN scenario.events[event_index + 1].time_ms ELSE scenario.horizon_ms

boundary_internal(m) == IF m = NoMilestone THEN scenario.horizon_ms ELSE m.time_ms

boundary_resolution ==
  (current_time \div scenario.resolution_ms + 1) * scenario.resolution_ms

next_boundary(m) ==
  Min({boundary_external, boundary_internal(m), boundary_resolution, scenario.horizon_ms})

\* Mutant: each segment drains a whole step of the resolution.
integrate_whole_steps(duration) ==
  [state EXCEPT !.battery_energy_mj = [u \in Upses |->
     IF u \in summary.battery_source_ids
     THEN @[u] - summary.source_power_w[u] * scenario.resolution_ms ELSE @[u]]]

\* _integrate_batteries
integrate_batteries(duration) ==
  [state EXCEPT !.battery_energy_mj = [u \in Upses |->
     IF u \in summary.battery_source_ids
     THEN @[u] - summary.source_power_w[u] * duration ELSE @[u]]]

-----------------------------------------------------------------------------
(* Segments, metrics, transitions.                                         *)

NoMinimum == -1

EmptyAccumulator ==
  [demanded_energy_mj |-> 0, served_energy_mj |-> 0, unserved_energy_mj |-> 0,
   interruption_duration_ms |-> 0, interruption_count |-> 0, peak_demand_w |-> 0,
   peak_served_w |-> 0, minimum_served_w |-> NoMinimum,
   peak_stranded_capacity_w |-> 0, previous_unserved |-> FALSE,
   redundancy_states |-> {}]

\* Mutant: each unserved segment is an interruption of its own.
InterruptedAgain(acc, sum) == sum.unserved_w > 0

Interrupted(acc, sum) == sum.unserved_w > 0 /\ ~ acc.previous_unserved

\* _Accumulator.add_segment
add_segment(acc, sum, duration) ==
  LET short == sum.unserved_w > 0 IN
  [acc EXCEPT
     !.demanded_energy_mj = @ + sum.demand_w * duration,
     !.served_energy_mj   = @ + sum.served_w * duration,
     !.unserved_energy_mj = @ + sum.unserved_w * duration,
     !.interruption_duration_ms = @ + IF short THEN duration ELSE 0,
     !.interruption_count = @ + IF Interrupted(acc, sum) THEN 1 ELSE 0,
     !.previous_unserved  = short,
     !.peak_demand_w      = Max({@, sum.demand_w}),
     !.peak_served_w      = Max({@, sum.served_w}),
     !.minimum_served_w   = IF sum.demand_w = 0 THEN @
                            ELSE IF @ = NoMinimum THEN sum.served_w
                            ELSE Min({@, sum.served_w}),
     !.peak_stranded_capacity_w = Max({@, sum.stranded_capacity_w}),
     !.redundancy_states  = @ \cup {sum.redundancy_state}]

segment(start, end, sum, s, cause) ==
  [start_ms |-> start, end_ms |-> end, demand_w |-> sum.demand_w,
   served_w |-> sum.served_w, unserved_w |-> sum.unserved_w,
   redundancy_state |-> sum.redundancy_state,
   battery_energy_mj |-> s.battery_energy_mj, source_ids |-> sum.source_ids,
   source_power_w |-> sum.source_power_w, load_service_w |-> sum.load_service_w,
   cause |-> cause]

\* The order of RedundancyStates is the severity order, the worst first.
worst_severity(seen) == Min({i \in DOMAIN RedundancyStates : RedundancyStates[i] \in seen})

\* _build_metrics
build_metrics(acc) ==
  [demanded_energy_mj |-> acc.demanded_energy_mj,
   served_energy_mj   |-> acc.served_energy_mj,
   unserved_energy_mj |-> acc.unserved_energy_mj,
   service_ratio_ppm  |->
     IF acc.demanded_energy_mj = 0 THEN 1000000
     ELSE (acc.served_energy_mj * 1000000 + acc.demanded_energy_mj \div 2)
            \div acc.demanded_energy_mj,
   interruption_duration_ms |-> acc.interruption_duration_ms,
   interruption_count |-> acc.interruption_count,
   peak_demand_w      |-> acc.peak_demand_w,
   peak_served_w      |-> acc.peak_served_w,
   minimum_served_w   |-> Max({acc.minimum_served_w, 0}),
   peak_stranded_capacity_w |-> acc.peak_stranded_capacity_w,
   modeled_redundancy_state |->
     IF acc.redundancy_states = {} THEN "no_demand" ELSE RedundancyStates[worst_severity(acc.redundancy_states)]]

NoMetrics == [demanded_energy_mj |-> -1]

transition(time, id, kind, target, raised, cleared) ==
  [time_ms |-> time, event_id |-> id, event_kind |-> kind, target_id |-> target,
   alarms_raised |-> raised, alarms_cleared |-> cleared]

\* Mutant: the service alarm of the step is not listed.
RecordEventAlarms(time, id, kind, target, l, m, raised) ==
  transition(time, id, kind, target, UNION {Ids(m, key) : key \in raised},
             {l.active[key] : key \in DOMAIN l.active \ DOMAIN m.active})

\* The transition of a step from ledger l to ledger m that raised, perhaps again,
\* the alarms of the keys in raised.
Record(time, id, kind, target, l, m, raised) ==
  transition(time, id, kind, target,
             (UNION {Ids(m, key) : key \in raised})
               \cup {m.active[key] : key \in DOMAIN m.active \ DOMAIN l.active},
             {l.active[key] : key \in DOMAIN l.active \ DOMAIN m.active})

\* What _record and solve_capacity raise.
Fault(s, sum, count) ==
  IF ~ capacity_invariants(s, sum) THEN "engine.capacity_invariants"
  ELSE IF count > MAX_TRANSITIONS THEN "scenario.transition_limit"
  ELSE "running"

\* Go on at label, or stop with the error.
Continue(label, fault) ==
  /\ outcome' = fault
  /\ pc' = IF fault = "running" THEN label ELSE "stopped"

-----------------------------------------------------------------------------
(* The run.                                                                *)

\* _Run.__init__
Init ==
  /\ scenario \in Scenarios
  /\ state = initial_state
  /\ summary = solve_capacity(initial_state)
  /\ outcome = Fault(initial_state, summary, 1)
  /\ pc = IF outcome = "running" THEN "due" ELSE "stopped"
  /\ current_time = 0
  /\ event_index = 0
  /\ group = [baseline_w |-> 0, end |-> 0]
  /\ milestone = NoMilestone
  /\ ledger = service_alarms(EmptyLedger, 0, Initialized, 0, summary.unserved_w)
  /\ transitions = << Record(0, Initialized, "system_initialization", 0,
                             EmptyLedger, ledger, {}) >>
  /\ causes = Initialized
  /\ timeline = << >>
  /\ accumulator = EmptyAccumulator
  /\ metrics = NoMetrics

EventDue == /\ event_index < Len(scenario.events)
            /\ scenario.events[event_index + 1].time_ms = current_time

\* _process_external_group: its bounds and its service baseline.
BeginGroup ==
  /\ pc = "due"
  /\ EventDue
  /\ group' = [baseline_w |-> summary.unserved_w,
               end |-> Max({i \in DOMAIN scenario.events :
                              scenario.events[i].time_ms = current_time})]
  /\ pc' = "group"
  /\ UNCHANGED <<scenario, outcome, run, current_time, event_index, milestone,
                 timeline, accumulator, metrics>>

NothingDue ==
  /\ pc = "due"
  /\ ~ EventDue
  /\ pc' = "loop"
  /\ UNCHANGED <<scenario, outcome, run, current_time, event_index, group,
                 milestone, timeline, accumulator, metrics>>

\* _Run.process_external; only the last event of a group looks at the service.
EventKeys(e) ==
  IF e.kind \in DOMAIN RaisedCode THEN {<<RaisedCode[e.kind], e.component_id>>} ELSE {}

LastOfGroup == event_index + 1 = group.end

ProcessExternal ==
  /\ pc = "group"
  /\ \E e \in {scenario.events[event_index + 1]} :
     \E next \in {apply_event(state, e)} : \E after \in {solve_capacity(next)} :
     \E applied \in {apply_event_alarms(ledger, e)} :
     \E l \in {IF LastOfGroup
               THEN service_alarms(applied, e.time_ms, EventId(e),
                                   group.baseline_w, after.unserved_w)
               ELSE applied} :
       /\ SwitchingValid(next)
       /\ state' = next
       /\ summary' = after
       /\ ledger' = l
       /\ transitions' = Append(transitions,
            Record(e.time_ms, EventId(e), e.kind, e.component_id, ledger, l, EventKeys(e)))
       /\ causes' = EventId(e)
       /\ event_index' = event_index + 1
       /\ Continue(IF LastOfGroup THEN "loop" ELSE "group",
                   Fault(next, after, Len(transitions) + 1))
       /\ UNCHANGED <<scenario, current_time, group, milestone, timeline,
                      accumulator, metrics>>

\* process_external raises when a transfer would parallel the inputs of a switch.
RejectParallelSources ==
  /\ pc = "group"
  /\ ~ SwitchingValid(apply_event(state, scenario.events[event_index + 1]))
  /\ pc' = "stopped"
  /\ outcome' = "topology.parallel_sources"
  /\ UNCHANGED <<scenario, run, current_time, event_index, group, milestone,
                 timeline, accumulator, metrics>>

AtLoopHead == pc = "loop" /\ current_time < scenario.horizon_ms

\* _exact_duration raises for a milestone off the millisecond grid.
RejectInexactMilestone ==
  /\ AtLoopHead
  /\ ~ ExactMilestones
  /\ pc' = "stopped"
  /\ outcome' = "scenario.temporal_precision"
  /\ UNCHANGED <<scenario, run, current_time, event_index, group, milestone,
                 timeline, accumulator, metrics>>

\* The loop head, when time passes: one segment up to the next boundary.  After an
\* error nothing is published: what a failed step leaves behind is not observable.
RunSegment ==
  /\ AtLoopHead
  /\ ExactMilestones
  /\ \E found \in {next_battery_milestone} : \E boundary \in {next_boundary(found)} :
     \E left \in {integrate_batteries(boundary - current_time)} :
       /\ boundary # current_time
       /\ milestone' = found
       /\ current_time' = boundary
       /\ state' = left
       /\ accumulator' = add_segment(accumulator, summary, boundary - current_time)
       /\ timeline' = Append(timeline,
                        segment(current_time, boundary, summary, left, causes))
       /\ Continue(IF found.time_ms = boundary THEN "milestone" ELSE "due",
            IF boundary < current_time THEN "engine.time_regression"
            ELSE IF \E u \in summary.battery_source_ids : left.battery_energy_mj[u] < 0
            THEN "engine.energy_overdraw"
            ELSE "running")
       /\ UNCHANGED <<scenario, summary, ledger, transitions, causes, event_index,
                      group, metrics>>

\* The loop head, when the boundary is now.
NoTimePasses ==
  /\ AtLoopHead
  /\ ExactMilestones
  /\ \E found \in {next_battery_milestone} :
       /\ next_boundary(found) = current_time
       /\ milestone' = found
       /\ pc' = IF found.time_ms = current_time THEN "milestone" ELSE "due"
       /\ UNCHANGED <<scenario, outcome, run, current_time, event_index, group,
                      timeline, accumulator, metrics>>

\* _Run.process_internal: the state after it, the key and the id of its alarm.
AfterMilestone(m) ==
  IF m.kind = "ups_low_energy"
  THEN [state EXCEPT !.low_energy_alarm_raised = @ \cup {m.component_id}]
  ELSE [state EXCEPT !.depletion_alarm_raised = @ \cup {m.component_id}]

MilestoneKey(m) ==
  <<IF m.kind = "ups_low_energy" THEN m.kind ELSE "ups_energy_depleted", m.component_id>>

ProcessInternal ==
  /\ pc = "milestone"
  /\ \E id \in {InternalId(milestone.kind, milestone.component_id, current_time)} :
     \E next \in {AfterMilestone(milestone)} : \E after \in {solve_capacity(next)} :
     \E l \in {service_alarms(raise_alarm(ledger, current_time, MilestoneKey(milestone), id),
                              current_time, id, summary.unserved_w, after.unserved_w)} :
       /\ state' = next
       /\ summary' = after
       /\ ledger' = l
       /\ transitions' = Append(transitions,
            Record(current_time, id, milestone.kind, milestone.component_id, ledger, l,
                   {MilestoneKey(milestone)}))
       /\ causes' = id
       /\ Continue("loop",
            IF milestone.kind = "ups_depleted"
               /\ state.battery_energy_mj[milestone.component_id] # 0
            THEN "engine.depletion_timing"
            ELSE Fault(next, after, Len(transitions) + 1))
       /\ UNCHANGED <<scenario, current_time, event_index, group, milestone, timeline,
                      accumulator, metrics>>

\* The loop is over: the last checks, and the result.
Finish ==
  LET balanced == accumulator.demanded_energy_mj =
                    accumulator.served_energy_mj + accumulator.unserved_energy_mj
      fault == IF event_index # Len(scenario.events) THEN "engine.unconsumed_events"
               ELSE IF ~ balanced THEN "engine.energy_balance"
               ELSE IF Len(build_telemetry(timeline)) > MAX_TELEMETRY_POINTS
                    THEN "result.telemetry_limit"
               ELSE "completed"
  IN  /\ pc = "loop"
      /\ current_time >= scenario.horizon_ms
      /\ pc' = "stopped"
      /\ outcome' = fault
      /\ metrics' = IF fault = "completed" THEN build_metrics(accumulator) ELSE metrics
      /\ UNCHANGED <<scenario, run, current_time, event_index, group, milestone,
                     timeline, accumulator>>

\* The program is over.
Stopped == pc = "stopped" /\ UNCHANGED vars

Next ==
  \/ BeginGroup
  \/ NothingDue
  \/ ProcessExternal
  \/ RejectParallelSources
  \/ RejectInexactMilestone
  \/ RunSegment
  \/ NoTimePasses
  \/ ProcessInternal
  \/ Finish
  \/ Stopped

Spec == Init /\ [][Next]_vars

\* simulate runs without blocking, one step after the other.
FairSpec == Spec /\ WF_vars(Next)
=============================================================================
