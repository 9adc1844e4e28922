-------------------------- MODULE EngineProperties --------------------------
(***************************************************************************)
(* What the engine promises of a run.                                      *)
(***************************************************************************)
EXTENDS Engine

InternalFaults == {"engine.capacity_invariants", "engine.time_regression",
                   "engine.energy_overdraw", "engine.depletion_timing",
                   "engine.energy_balance"}
InputErrors == {"topology.parallel_sources", "scenario.temporal_precision",
                "scenario.transition_limit", "engine.unconsumed_events",
                "result.telemetry_limit"}

-----------------------------------------------------------------------------
(* Types.                                                                  *)

TransitionKind == EventKind \cup {"system_initialization", "ups_low_energy", "ups_depleted"}
AlarmCode == {"load_unserved", "component_failed", "maintenance_active",
              "generator_start_failed", "ups_low_energy", "ups_energy_depleted"}

EventIds == {Initialized} \cup {EventId(e) : e \in Range(scenario.events)}
              \cup {"ups_low_energy", "ups_depleted"} \X Upses \X Nat

Times   == 0 .. scenario.horizon_ms
TargetIds == Components \cup {0}

Alarm == [time_ms : Times, code : AlarmCode, component_id : TargetIds,
          causal_event_id : EventIds]

\* A key that is active has the number of an alarm.
Ledger(l) ==
  /\ l = [alarms |-> l.alarms, active |-> l.active]
  /\ l.alarms \in Seq(Alarm)
  /\ DOMAIN l.active \subseteq AlarmCode \X TargetIds
  /\ l.active \in [DOMAIN l.active -> 1 .. Len(l.alarms)]

\* A transition lists alarms by number, of which there are so many.
Transition(count) ==
  [time_ms : Times, event_id : EventIds, event_kind : TransitionKind, target_id : TargetIds,
   alarms_raised : SUBSET (1 .. count), alarms_cleared : SUBSET (1 .. count)]

Segment ==
  [start_ms : Times, end_ms : Times, demand_w : Nat, served_w : Nat, unserved_w : Nat,
   redundancy_state : Range(RedundancyStates), battery_energy_mj : [Upses -> Nat],
   source_ids : SUBSET Components, source_power_w : [Components -> Nat],
   load_service_w : [Loads -> Nat], cause : EventIds]

Accumulator ==
  [demanded_energy_mj : Nat, served_energy_mj : Nat, unserved_energy_mj : Nat,
   interruption_duration_ms : Nat, interruption_count : Nat, peak_demand_w : Nat,
   peak_served_w : Nat, minimum_served_w : Nat \cup {NoMinimum},
   peak_stranded_capacity_w : Nat, previous_unserved : BOOLEAN,
   redundancy_states : SUBSET Range(RedundancyStates)]

Metrics ==
  [demanded_energy_mj : Nat, served_energy_mj : Nat, unserved_energy_mj : Nat,
   service_ratio_ppm : Nat, interruption_duration_ms : Nat, interruption_count : Nat,
   peak_demand_w : Nat, peak_served_w : Nat, minimum_served_w : Nat,
   peak_stranded_capacity_w : Nat, modeled_redundancy_state : Range(RedundancyStates)]

\* What the run records: its alarms, transitions, segments and figures.
RecordsTyped ==
  /\ Ledger(ledger)
  /\ transitions \in Seq(Transition(Len(ledger.alarms)))
  /\ causes \in EventIds
  /\ timeline \in Seq(Segment)
  /\ accumulator \in Accumulator
  /\ metrics \in Metrics \cup {NoMetrics}

\* The type of every variable: those of the computation here, those it records above.
TypeOK ==
  /\ ParsedScenario(scenario)
  /\ pc \in {"due", "group", "loop", "milestone", "stopped"}
  /\ outcome \in {"running", "completed"} \cup InternalFaults \cup InputErrors
  /\ pc = "stopped" <=> outcome # "running"
  /\ state \in RuntimeState
  /\ summary \in Summary
  /\ current_time \in 0 .. scenario.horizon_ms
  /\ event_index \in 0 .. Len(scenario.events)
  /\ group \in [baseline_w : Nat, end : 0 .. Len(scenario.events)]
  /\ milestone \in [time_ms : Nat, kind : {"ups_low_energy", "ups_depleted"},
                    component_id : Upses] \cup {NoMilestone}
  /\ RecordsTyped

-----------------------------------------------------------------------------
(* Properties.                                                             *)

Duration(i) == timeline[i].end_ms - timeline[i].start_ms
Segments == DOMAIN timeline

\* A run that has not failed, between two steps of the code that change it.
Settled == pc # "group" /\ outcome \in {"running", "completed"}

\* The assertions of engine.py and capacity.py never fail: no capacity rule is
\* broken, no battery is overdrawn, time never goes back, a battery is empty when
\* its depletion is reported, and demanded energy is served plus unserved energy.
\* engine.unconsumed_events is not among them, although the code calls it an invariant as
\* well: an accepted scenario reaches it (UnconsumedOnlyAtHorizon).
NoInternalFault == outcome \notin InternalFaults

\* The load_unserved alarm is active exactly while the allocation leaves load
\* unserved, although each evaluation only compares two allocations and a group
\* of simultaneous events is compared as a whole.
AlarmFollowsService ==
  Settled => (IsActive(ledger, LoadUnserved) <=> summary.unserved_w > 0)

\* The kinds of event that raise and that clear an alarm of their component, with it.
EventPairs == {<<"component_failure", "component_restore", "component_failed">>,
               <<"maintenance_start", "maintenance_end", "maintenance_active">>,
               <<"generator_start_failure", "generator_running", "generator_start_failed">>}

PairedTransitions(pair, c) ==
  {j \in DOMAIN transitions : /\ transitions[j].target_id = c
                              /\ transitions[j].event_kind \in {pair[1], pair[2]}}

\* Each alarm of a component follows its own pair of events and nothing else: failure,
\* maintenance and a failed start may overlap on one component, whose single status they
\* overwrite, and each alarm stays until its own end (docs/user-guide/12).
EventAlarmsPaired ==
  \A pair \in EventPairs, c \in Components :
    LET of == PairedTransitions(pair, c)
    IN  IsActive(ledger, <<pair[3], c>>)
          <=> of # {} /\ transitions[Max(of)].event_kind = pair[1]

\* A segment never ends below the low-energy threshold of a UPS unless the UPS
\* was warned about when the segment started, or before.
WarnedBeforeLow ==
  \A i \in Segments, u \in Upses :
    timeline[i].battery_energy_mj[u] < threshold_mj(u) =>
      \E a \in Range(ledger.alarms) : /\ a.code = "ups_low_energy"
                                      /\ a.component_id = u
                                      /\ a.time_ms <= timeline[i].start_ms

\* What the operator reads in the list of alarms is what happens in the run: of the service,
\* of failures, maintenance and starts, and of batteries that run low.
AlarmsAreTrue == AlarmFollowsService /\ EventAlarmsPaired /\ WarnedBeforeLow

\* The energy that left a battery is the power the segments report of it.
BatteryAccounting ==
  \A u \in Upses :
    /\ state.battery_energy_mj[u] >= 0
    /\ component[u].usable_energy_mj - state.battery_energy_mj[u] =
         Total([i \in Segments |-> timeline[i].source_power_w[u] * Duration(i)])

\* The segments tile the run from 0 to the current time, none is empty, none is
\* longer than the resolution or crosses an event, and the totals of the
\* accumulator are their sums.
TimelineTiles ==
  /\ \A i \in Segments :
       /\ timeline[i].start_ms = IF i = 1 THEN 0 ELSE timeline[i - 1].end_ms
       /\ Duration(i) \in 1 .. scenario.resolution_ms
       /\ \A j \in DOMAIN scenario.events :
            scenario.events[j].time_ms \notin timeline[i].start_ms + 1 .. timeline[i].end_ms - 1
  /\ current_time = IF timeline = << >> THEN 0 ELSE timeline[Len(timeline)].end_ms
  /\ accumulator.unserved_energy_mj =
       Total([i \in Segments |-> timeline[i].unserved_w * Duration(i)])
  /\ accumulator.interruption_duration_ms =
       Total([i \in Segments |-> IF timeline[i].unserved_w > 0 THEN Duration(i) ELSE 0])

\* A segment names the last transition that happened before it started, and an
\* alarm names a transition of its own time that lists it.
CausesRecorded ==
  /\ \A i \in Segments :
       timeline[i].cause = transitions[Max({j \in DOMAIN transitions :
                             transitions[j].time_ms <= timeline[i].start_ms})].event_id
  /\ \A n \in DOMAIN ledger.alarms : \E t \in Range(transitions) :
       /\ t.event_id = ledger.alarms[n].causal_event_id
       /\ t.time_ms = ledger.alarms[n].time_ms
       /\ n \in t.alarms_raised

\* The timeline is a record of the whole run: no time is missing, counted twice or put down
\* to a transition that was not the last one, and no alarm to one that did not raise it.
TimelineIsTrue == TimelineTiles /\ CausesRecorded

\* A run never outgrows what parse_scenario estimated: its segments, and one
\* transition per event, two per UPS and the first.  Its telemetry does so by the power
\* of the batteries in use alone, for which the estimate has no points.
WithinEstimate ==
  /\ Len(timeline) <= estimated_segments(scenario.horizon_ms, scenario.resolution_ms,
                                         Len(scenario.events))
  /\ Len(transitions) <= 1 + event_index + 2 * Cardinality(Upses)
  /\ Len(build_telemetry(timeline)) <=
       Total([i \in Segments |->
                points_per_segment + Cardinality(timeline[i].source_ids \cap Upses)])

\* A generator counts as running only while it is available, so a restored
\* generator does not come back as a source before it starts again.
RunningIsAvailable ==
  \A g \in state.generator_running : g \in Generators /\ IsAvailable(state, g)

Names(e, k) ==
  e.kind = "atomic_transfer" /\ k \in e.open_connection_ids \cup e.close_connection_ids

\* Where the schedule alone puts k by its first n events: the last transfer that names k
\* decides.
ClosedAfter(n, k) ==
  \/ connection[k].initial_closed /\ \A i \in 1 .. n : ~ Names(scenario.events[i], k)
  \/ \E i \in 1 .. n :
       /\ Names(scenario.events[i], k)
       /\ k \in scenario.events[i].close_connection_ids
       /\ \A j \in i + 1 .. n : ~ Names(scenario.events[j], k)

ParallelAfter(n) ==
  \E c \in Switches : \E j, k \in InputsOf(c) : j # k /\ ClosedAfter(n, j) /\ ClosedAfter(n, k)

\* The positions of the connections are those of the schedule, whatever failures and
\* maintenance happen to the components in between, and a run is refused for parallel inputs
\* at exactly the first event after which the transfers so far add up to two closed inputs
\* of one switch: not for the state of a group, in which a later transfer of the same time
\* might open one again, nor for a source that has failed.
SwitchingFollowsSchedule ==
  /\ \A k \in Connections : state.connection_closed[k] <=> ClosedAfter(event_index, k)
  /\ \A n \in 0 .. event_index : ~ ParallelAfter(n)
  /\ outcome = "topology.parallel_sources" => ParallelAfter(event_index + 1)

\* An event stays unconsumed only when it falls on the horizon together with a
\* battery milestone.
UnconsumedOnlyAtHorizon ==
  outcome = "engine.unconsumed_events" =>
    /\ scenario.events[event_index + 1].time_ms = scenario.horizon_ms
    /\ milestone.time_ms = scenario.horizon_ms

\* The figures of a completed run tell the same story: the worst redundancy state
\* says that load was dropped iff the interruption has a duration, iff it has a
\* count, iff it has energy; and each interruption had an alarm of its own.
MetricsAgree ==
  outcome = "completed" =>
    LET dropped == metrics.interruption_duration_ms > 0
        raised  == {n \in DOMAIN ledger.alarms : ledger.alarms[n].code = "load_unserved"}
    IN  /\ dropped <=> metrics.interruption_count > 0
        /\ dropped <=> metrics.unserved_energy_mj > 0
        /\ dropped <=> metrics.modeled_redundancy_state \in {"no_path", "partial_service"}
        /\ metrics.interruption_count <= Cardinality(raised)
        /\ metrics.service_ratio_ppm < 1000000 => dropped

\* The allocation is not solved again while the batteries drain, and yet no segment
\* is charged with a stale one: after a segment that ended at no milestone the last
\* summary is still the one that solve_capacity would give.
SummaryIsCurrent == pc = "due" => summary = solve_capacity(state)

Verdict == CASE outcome \in {"running", "completed"} -> outcome [] OTHER -> "failed"

Schedule == INSTANCE EventSchedule
              WITH clock <- current_time, applied <- event_index, verdict <- Verdict

\* The engine implements the event schedule: it applies each event once, in order,
\* when the clock is at its time, never steps over one, and publishes a result only
\* at the horizon with no event left.
ImplementsSchedule == Schedule!Spec

\* Every run returns or raises.
Terminates == <>(pc = "stopped")

\* Each UPS that ran empty was reported as depleted.
DepletionReported ==
  outcome = "completed" =>
    \A u \in Upses : state.battery_energy_mj[u] = 0 =>
      IsActive(ledger, <<"ups_energy_depleted", u>>)

\* Every validated event is consumed.
EveryEventConsumed == outcome # "engine.unconsumed_events"
=============================================================================
