---------------------------- MODULE EngineProofs ----------------------------
(***************************************************************************)
(* Theorems about the engine, for every site and every set of accepted     *)
(* scenarios.                                                              *)
(***************************************************************************)
EXTENDS EngineProperties, CapacityProofs

(***************************************************************************)
(* The part of the runtime state that no allocation feeds back into: the   *)
(* events alone decide it, so what follows holds whatever solve_capacity   *)
(* returns.                                                                *)
(***************************************************************************)
Shape(s) ==
  /\ s = [component_status        |-> s.component_status,
          connection_closed       |-> s.connection_closed,
          generator_running       |-> s.generator_running,
          demand_w                |-> s.demand_w,
          battery_energy_mj       |-> s.battery_energy_mj,
          low_energy_alarm_raised |-> s.low_energy_alarm_raised,
          depletion_alarm_raised  |-> s.depletion_alarm_raised]
  /\ s.component_status \in [Components -> Availability]
  /\ s.connection_closed \in [Connections -> BOOLEAN]
  /\ s.generator_running \in SUBSET Generators

RunningOnlyAvailable(s) ==
  \A g \in s.generator_running : g \in Generators /\ IsAvailable(s, g)

GroupInProgress ==
  pc = "group" =>
    /\ group.end \in event_index + 1 .. Len(scenario.events)
    /\ \A i \in event_index + 1 .. group.end : scenario.events[i].time_ms = current_time

EventInv ==
  /\ scenario \in Scenarios
  /\ event_index \in 0 .. Len(scenario.events)
  /\ GroupInProgress
  /\ Shape(state)
  /\ RunningOnlyAvailable(state)
  /\ SwitchingValid(state)

-----------------------------------------------------------------------------
(* Events.                                                                 *)

\* What a position of an accepted scenario holds.
LEMMA ScenarioFacts ==
  ASSUME NEW s \in Scenarios
  PROVE  /\ s.events \in Seq(Event)
         /\ Len(s.events) \in Nat
         /\ s.horizon_ms \in Nat \ {0}
         /\ s.resolution_ms \in Nat \ {0}
         /\ \A i \in 1 .. Len(s.events) :
              /\ s.events[i] \in Event
              /\ s.events[i].time_ms \in 0 .. s.horizon_ms
              /\ TargetSuits(s.events[i])
         /\ \A i, j \in 1 .. Len(s.events) :
              i <= j => s.events[i].time_ms <= s.events[j].time_ms
<1>1. ParsedScenario(s)
  BY ScenarioAssumption
<1>2. /\ s.events \in Seq(Event)
      /\ Len(s.events) \in Nat
      /\ DOMAIN s.events = 1 .. Len(s.events)
      /\ s.horizon_ms \in Nat \ {0}
      /\ s.resolution_ms \in Nat \ {0}
  BY <1>1 DEF ParsedScenario
<1>3. \A i \in 1 .. Len(s.events) :
        /\ s.events[i] \in Event
        /\ s.events[i].time_ms \in Nat
        /\ s.events[i].time_ms <= s.horizon_ms
        /\ TargetSuits(s.events[i])
  <2> TAKE i \in 1 .. Len(s.events)
  <2>1. s.events[i] \in Event
    BY <1>2
  <2>2. s.events[i].time_ms \in Nat
    BY <2>1 DEF Event
  <2> QED
    BY <1>1, <1>2, <2>1, <2>2 DEF ParsedScenario
<1>4. ASSUME NEW i \in 1 .. Len(s.events), NEW j \in 1 .. Len(s.events), i <= j
      PROVE  s.events[i].time_ms <= s.events[j].time_ms
  <2>1. CASE i = j
    BY <1>3, <2>1
  <2>2. CASE i < j
    <3>1. EventBefore(s.events[i], s.events[j])
      BY <1>1, <1>2, <2>2 DEF ParsedScenario
    <3> QED
      BY <1>3, <3>1 DEF EventBefore
  <2> QED
    BY <1>4, <2>1, <2>2
<1> QED
  BY <1>2, <1>3, <1>4

\* An event keeps the shape of the state and leaves only available generators running.
LEMMA ApplyKeeps ==
  ASSUME NEW s, Shape(s), RunningOnlyAvailable(s),
         NEW e \in Event, TargetSuits(e)
  PROVE  Shape(apply_event(s, e)) /\ RunningOnlyAvailable(apply_event(s, e))
<1> DEFINE c == e.component_id
           next == apply_event(s, e)
<1>1. CASE e.kind = "atomic_transfer"
  <2> DEFINE closed == [k \in Connections |->
               k \in e.close_connection_ids
                 \/ (s.connection_closed[k] /\ k \notin e.open_connection_ids)]
  <2>1. next = [s EXCEPT !.connection_closed = closed]
    BY <1>1 DEF apply_event, Shape
  <2>2. closed \in [Connections -> BOOLEAN]
    BY Zenon
  <2>3. Shape(next)
    BY <2>1, <2>2 DEF Shape
  <2> QED
    BY <2>1, <2>3 DEF Shape, RunningOnlyAvailable, IsAvailable
<1>2. CASE e.kind = "load_step"
  <2>1. next = [s EXCEPT !.demand_w[c] = e.demand_w]
    BY <1>2 DEF apply_event
  <2> QED
    BY <2>1 DEF Shape, RunningOnlyAvailable, IsAvailable
<1>3. CASE e.kind \notin {"atomic_transfer", "load_step"}
  <2> DEFINE running == generators_running(s, e)
  <2>1. next = [s EXCEPT !.component_status[c] = StatusOf(e.kind),
                         !.generator_running = running]
    BY <1>3 DEF apply_event
  <2>2. e.kind \in StatusKind \cup GeneratorOutcome /\ c \in Components
    BY <1>3 DEF Event, EventKind, TargetSuits
  <2>3. /\ StatusOf(e.kind) \in Availability
        /\ e.kind = "generator_running" => StatusOf(e.kind) = "available" /\ c \in Generators
    BY <2>2 DEF StatusOf, Availability, StatusKind, GeneratorOutcome, TargetSuits
  <2>4. /\ next.component_status = [s.component_status EXCEPT ![c] = StatusOf(e.kind)]
        /\ next.generator_running = running
        /\ next = [s EXCEPT !.component_status = next.component_status,
                            !.generator_running = running]
    BY <2>1 DEF Shape
  <2>5. /\ next.component_status \in [Components -> Availability]
        /\ running \in SUBSET Generators
    BY <2>2, <2>3, <2>4 DEF Shape, generators_running
  <2>6. Shape(next)
    BY <2>4, <2>5 DEF Shape
  <2> QED
    BY <2>2, <2>3, <2>4, <2>6 DEF Shape, RunningOnlyAvailable, IsAvailable,
       generators_running
<1> QED
  BY <1>1, <1>2, <1>3

-----------------------------------------------------------------------------
(* EventInv is inductive.                                                  *)

\* parse_snapshot leaves no transfer switch with two closed inputs.
LEMMA InitialSwitching == SwitchingValid(initial_state)
<1> SUFFICES ASSUME NEW c \in Switches, NEW j \in InputsOf(c), NEW k \in InputsOf(c),
                    initial_state.connection_closed[j], initial_state.connection_closed[k]
             PROVE  j = k
  BY DEF SwitchingValid
<1> DEFINE closed == {i \in InputsOf(c) : connection[i].initial_closed}
<1>1. j \in Connections /\ k \in Connections /\ closed \subseteq Connections
  BY DEF InputsOf
<1>2. j \in closed /\ k \in closed
  BY <1>1 DEF initial_state
<1>3. IsFiniteSet(closed)
  <2>1. IsFiniteSet(1 .. MAX_CONNECTIONS)
    <3>1. 1 \in Int /\ MAX_CONNECTIONS \in Int
      BY DEF MAX_CONNECTIONS
    <3> QED
      BY <3>1, FS_Interval
  <2> QED
    BY <1>1, <2>1, FS_Subset, SnapshotAssumption
<1>4. c \in Components /\ Cardinality(closed) <= 1
  BY SnapshotAssumption DEF ValidTopology, Switches, OfKind
<1>5. Cardinality(closed) \in Nat /\ Cardinality(closed) # 0
  BY <1>2, <1>3, FS_CardinalityType, FS_EmptySet
<1>6. \E x : closed = {x}
  <2>1. Cardinality(closed) = 1
    BY <1>4, <1>5
  <2> HIDE DEF closed
  <2> QED
    BY <1>3, <2>1, FS_Singleton, Zenon
<1> QED
  BY <1>2, <1>6

\* Every component of a parsed site has its fields.
LEMMA ComponentsParsed ==
  ASSUME NEW c \in Components
  PROVE  component[c] \in Component /\ RequiredFields(c)
<1>1. ParsedComponent(c)
  BY SnapshotAssumption
<1> QED
  BY <1>1 DEF ParsedComponent

\* EventInv holds in the initial states.
LEMMA InitEventInv == Init => EventInv
<1> SUFFICES ASSUME Init PROVE EventInv
  OBVIOUS
<1>1. Shape(initial_state) /\ RunningOnlyAvailable(initial_state)
  <2>1. \A c \in Components : component[c].initial_status \in Availability
    <3> TAKE c \in Components
    <3>1. component[c] \in Component
      BY ComponentsParsed
    <3> QED
      BY <3>1 DEF Component
  <2>2. \A k \in Connections : connection[k].initial_closed \in BOOLEAN
    BY SnapshotAssumption DEF Connection
  <2> QED
    BY <2>1, <2>2 DEF Shape, RunningOnlyAvailable, initial_state
<1>2. scenario \in Scenarios /\ event_index = 0 /\ pc # "group" /\ state = initial_state
  BY DEF Init
<1>3. event_index \in 0 .. Len(scenario.events)
  BY <1>2, ScenarioFacts
<1> QED
  BY <1>1, <1>2, <1>3, InitialSwitching DEF EventInv, GroupInProgress

\* The next event is the one that ProcessExternal applies.
LEMMA NextEvent ==
  ASSUME EventInv, pc = "group"
  PROVE  /\ event_index + 1 \in 1 .. Len(scenario.events)
         /\ scenario.events[event_index + 1] \in Event
         /\ TargetSuits(scenario.events[event_index + 1])
         /\ scenario.events[event_index + 1].time_ms = current_time
<1>1. /\ event_index \in 0 .. Len(scenario.events)
      /\ Len(scenario.events) \in Nat
      /\ group.end \in event_index + 1 .. Len(scenario.events)
      /\ \A i \in event_index + 1 .. group.end : scenario.events[i].time_ms = current_time
  BY ScenarioFacts DEF EventInv, GroupInProgress
<1>2. event_index + 1 \in 1 .. Len(scenario.events)
      /\ event_index + 1 \in event_index + 1 .. group.end
  BY <1>1
<1> QED
  BY <1>1, <1>2, ScenarioFacts DEF EventInv

\* Every step keeps EventInv.
LEMMA NextEventInv == EventInv /\ [Next]_vars => EventInv'
<1> SUFFICES ASSUME EventInv, [Next]_vars PROVE EventInv'
  OBVIOUS
<1> DEFINE events == scenario.events
<1>0. /\ scenario \in Scenarios
      /\ Len(events) \in Nat
      /\ event_index \in 0 .. Len(events)
      /\ Shape(state)
      /\ RunningOnlyAvailable(state)
      /\ SwitchingValid(state)
  BY ScenarioFacts DEF EventInv
<1>1. CASE BeginGroup
  <2> DEFINE due == {i \in DOMAIN events : events[i].time_ms = current_time}
  <2>1. /\ event_index + 1 \in due
        /\ group'.end = Max(due)
        /\ UNCHANGED <<scenario, state, event_index, current_time>>
    BY <1>0, <1>1, ScenarioFacts DEF BeginGroup, EventDue, run
  <2>2. due \in SUBSET (1 .. Len(events)) /\ due # {}
    BY <2>1, <1>0, ScenarioFacts
  <2>3. Max(due) \in due /\ \A i \in due : i <= Max(due)
    <3> HIDE DEF due
    <3> QED
      BY <1>0, <2>2, MaxOfPositions
  <2>4. group'.end \in event_index + 1 .. Len(events)
    BY <1>0, <2>1, <2>2, <2>3
  <2>5. ASSUME NEW i \in event_index + 1 .. group'.end
        PROVE  events[i].time_ms = current_time
    <3>0. i \in 1 .. Len(events) /\ event_index + 1 <= i /\ i <= group'.end
      BY <1>0, <2>4
    <3>1. /\ events[event_index + 1].time_ms <= events[i].time_ms
          /\ events[i].time_ms <= events[group'.end].time_ms
      BY <1>0, <2>4, <3>0, ScenarioFacts
    <3>2. /\ events[event_index + 1].time_ms = current_time
          /\ events[group'.end].time_ms = current_time
      BY <2>1, <2>3
    <3>3. events[i].time_ms \in Nat /\ current_time \in Nat
      BY <1>0, <2>4, <3>1, <3>2, ScenarioFacts
    <3> QED
      BY <3>1, <3>2, <3>3
  <2> QED
    BY <1>0, <2>1, <2>4, <2>5 DEF EventInv, GroupInProgress, SwitchingValid,
       RunningOnlyAvailable, IsAvailable, Shape
<1>2. CASE NothingDue
  BY <1>0, <1>2 DEF NothingDue, EventInv, GroupInProgress, run
<1>3. CASE ProcessExternal
  <2>1. pc = "group"
    BY <1>3 DEF ProcessExternal
  <2> DEFINE e == events[event_index + 1]
             next == apply_event(state, e)
  <2>2. /\ event_index + 1 \in 1 .. Len(events)
        /\ e \in Event
        /\ TargetSuits(e)
    BY <2>1, NextEvent
  <2>3. /\ state' = next
        /\ SwitchingValid(next)
        /\ event_index' = event_index + 1
        /\ UNCHANGED <<scenario, current_time, group>>
        /\ pc' = "group" => group.end # event_index + 1
    <3>1. /\ pc' \in {"stopped", IF LastOfGroup THEN "loop" ELSE "group"}
          /\ state' = next
          /\ SwitchingValid(next)
          /\ event_index' = event_index + 1
          /\ UNCHANGED <<scenario, current_time, group>>
      BY <1>3 DEF ProcessExternal, Continue
    <3> QED
      BY <3>1 DEF LastOfGroup
  <2>4. Shape(next) /\ RunningOnlyAvailable(next)
    BY <1>0, <2>2, ApplyKeeps
  <2>5. GroupInProgress'
    BY <1>0, <2>1, <2>3 DEF EventInv, GroupInProgress
  <2> QED
    BY <1>0, <2>2, <2>3, <2>4, <2>5 DEF EventInv
<1>4. CASE RejectParallelSources
  BY <1>0, <1>4 DEF RejectParallelSources, EventInv, GroupInProgress, run
<1>5. CASE RejectInexactMilestone
  BY <1>0, <1>5 DEF RejectInexactMilestone, EventInv, GroupInProgress, run
<1>6. CASE RunSegment
  <2>1. PICK duration : state' = integrate_batteries(duration)
    BY <1>6 DEF RunSegment
  <2>2. Shape(state') /\ RunningOnlyAvailable(state') /\ SwitchingValid(state')
    BY <1>0, <2>1 DEF integrate_batteries, Shape, RunningOnlyAvailable, IsAvailable,
       SwitchingValid
  <2>3. pc' # "group" /\ UNCHANGED <<scenario, event_index>>
    BY <1>6 DEF RunSegment, Continue
  <2> QED
    BY <1>0, <2>2, <2>3 DEF EventInv, GroupInProgress
<1>7. CASE NoTimePasses
  BY <1>0, <1>7 DEF NoTimePasses, EventInv, GroupInProgress, run
<1>8. CASE ProcessInternal
  <2>1. state' = AfterMilestone(milestone)
    BY <1>8 DEF ProcessInternal
  <2>2. Shape(state') /\ RunningOnlyAvailable(state') /\ SwitchingValid(state')
    BY <1>0, <2>1 DEF AfterMilestone, Shape, RunningOnlyAvailable, IsAvailable,
       SwitchingValid
  <2>3. pc' # "group" /\ UNCHANGED <<scenario, event_index>>
    BY <1>8 DEF ProcessInternal, Continue
  <2> QED
    BY <1>0, <2>2, <2>3 DEF EventInv, GroupInProgress
<1>9. CASE Finish
  BY <1>0, <1>9 DEF Finish, EventInv, GroupInProgress, run
<1>10. CASE Stopped \/ UNCHANGED vars
  BY <1>0, <1>10 DEF Stopped, vars, EventInv, GroupInProgress, run
<1> QED
  BY <1>1, <1>2, <1>3, <1>4, <1>5, <1>6, <1>7, <1>8, <1>9, <1>10 DEF Next

\* EventInv is an invariant.
LEMMA EventInvariant == Spec => []EventInv
<1> QED
  BY InitEventInv, NextEventInv, PTL DEF Spec

-----------------------------------------------------------------------------
(* What follows.                                                           *)

\* A generator counts as running only while it is available, in every run of every
\* site: _apply_status_event and _apply_event never leave one behind.
THEOREM RunningIsAvailableHolds == Spec => []RunningIsAvailable
<1>1. EventInv => RunningIsAvailable
  BY DEF EventInv, RunningOnlyAvailable, RunningIsAvailable
<1> QED
  BY <1>1, EventInvariant, PTL

\* An event puts a connection where it says, if it names it, and leaves it otherwise.
LEMMA ClosedAfterNext ==
  ASSUME NEW n \in Nat, NEW k \in Connections
  PROVE  ClosedAfter(n + 1, k) <=>
           IF Names(scenario.events[n + 1], k)
           THEN k \in scenario.events[n + 1].close_connection_ids
           ELSE ClosedAfter(n, k)
<1>1. \A i : i \in 1 .. n + 1 <=> i \in 1 .. n \/ i = n + 1
  OBVIOUS
<1>2. \A i \in 1 .. n : \A j : j \in i + 1 .. n + 1 <=> j \in i + 1 .. n \/ j = n + 1
  OBVIOUS
<1>3. \A j : j \notin (n + 1) + 1 .. n + 1
  OBVIOUS
<1>4. CASE Names(scenario.events[n + 1], k)
  <2>1. ClosedAfter(n + 1, k) => k \in scenario.events[n + 1].close_connection_ids
    BY <1>1, <1>2, <1>4 DEF ClosedAfter
  <2>2. k \in scenario.events[n + 1].close_connection_ids => ClosedAfter(n + 1, k)
    BY <1>1, <1>3, <1>4 DEF ClosedAfter
  <2> QED
    BY <1>4, <2>1, <2>2
<1>5. CASE ~ Names(scenario.events[n + 1], k)
  <2>1. ClosedAfter(n + 1, k) => ClosedAfter(n, k)
    BY <1>1, <1>2, <1>5 DEF ClosedAfter
  <2>2. ClosedAfter(n, k) => ClosedAfter(n + 1, k)
    BY <1>1, <1>2, <1>5 DEF ClosedAfter
  <2> QED
    BY <1>5, <2>1, <2>2
<1> QED
  BY <1>4, <1>5

\* _apply_event does to a connection what the event says.
LEMMA TransferApplied ==
  ASSUME NEW s, Shape(s), NEW e \in Event, NEW k \in Connections
  PROVE  apply_event(s, e).connection_closed[k] <=>
           IF Names(e, k) THEN k \in e.close_connection_ids ELSE s.connection_closed[k]
<1>1. CASE e.kind = "atomic_transfer"
  <2> DEFINE closed == [i \in Connections |->
               i \in e.close_connection_ids
                 \/ (s.connection_closed[i] /\ i \notin e.open_connection_ids)]
  <2>1. apply_event(s, e).connection_closed = closed
    BY <1>1 DEF apply_event, Shape
  <2>2. closed[k] <=> k \in e.close_connection_ids
                        \/ (s.connection_closed[k] /\ k \notin e.open_connection_ids)
    BY Zenon
  <2>3. Names(e, k) <=> k \in e.open_connection_ids \/ k \in e.close_connection_ids
    BY <1>1 DEF Names
  <2> HIDE DEF closed
  <2>4. apply_event(s, e).connection_closed[k] = closed[k]
    BY <2>1
  <2> QED
    BY <2>2, <2>3, <2>4, Zenon
<1>2. CASE e.kind # "atomic_transfer"
  <2>1. apply_event(s, e).connection_closed = s.connection_closed
    BY <1>2 DEF apply_event, Shape
  <2> QED
    BY <1>2, <2>1, Zenon DEF Names
<1> QED
  BY <1>1, <1>2

\* Where a schedule puts two inputs of a switch, a state that follows it has them.
LEMMA ParallelIsInvalid ==
  ASSUME NEW s, NEW n, \A k \in Connections : s.connection_closed[k] <=> ClosedAfter(n, k)
  PROVE  SwitchingValid(s) <=> ~ ParallelAfter(n)
BY DEF SwitchingValid, ParallelAfter, InputsOf

\* Each step keeps the connections where the schedule puts them.
LEMMA NextSwitching ==
  ASSUME EventInv, SwitchingFollowsSchedule, [Next]_vars PROVE SwitchingFollowsSchedule'
<1>1. /\ Shape(state) /\ event_index \in Nat /\ SwitchingValid(state)
      /\ \A k \in Connections : state.connection_closed[k] <=> ClosedAfter(event_index, k)
      /\ \A n \in 0 .. event_index : ~ ParallelAfter(n)
  BY ScenarioFacts DEF EventInv, SwitchingFollowsSchedule
<1>2. ASSUME scenario' = scenario
      PROVE  /\ \A n, k : ClosedAfter(n, k)' <=> ClosedAfter(n, k)
             /\ \A n : ParallelAfter(n)' <=> ParallelAfter(n)
  BY <1>2 DEF ClosedAfter, ParallelAfter
<1>3. ASSUME UNCHANGED <<scenario, event_index>>, state'.connection_closed = state.connection_closed,
             outcome' = "topology.parallel_sources" => ParallelAfter(event_index + 1)
      PROVE  SwitchingFollowsSchedule'
  BY <1>1, <1>2, <1>3 DEF SwitchingFollowsSchedule
<1> DEFINE e == scenario.events[event_index + 1]
           next == apply_event(state, e)
<1>4. ASSUME pc = "group"
      PROVE  /\ Shape(next)
             /\ \A k \in Connections : next.connection_closed[k] <=> ClosedAfter(event_index + 1, k)
             /\ SwitchingValid(next) <=> ~ ParallelAfter(event_index + 1)
  <2>1. e \in Event /\ TargetSuits(e)
    BY <1>4, NextEvent
  <2>2. Shape(next)
    BY <1>1, <2>1, ApplyKeeps DEF EventInv
  <2> HIDE DEF e
  <2>3. ASSUME NEW k \in Connections
        PROVE  next.connection_closed[k] <=> ClosedAfter(event_index + 1, k)
    <3>1. next.connection_closed[k] <=>
            IF Names(e, k) THEN k \in e.close_connection_ids ELSE state.connection_closed[k]
      BY <1>1, <2>1, TransferApplied
    <3>2. ClosedAfter(event_index + 1, k) <=>
            IF Names(e, k) THEN k \in e.close_connection_ids ELSE ClosedAfter(event_index, k)
      BY <1>1, ClosedAfterNext DEF e
    <3>3. state.connection_closed[k] <=> ClosedAfter(event_index, k)
      BY <1>1
    <3> HIDE DEF next
    <3> QED
      BY <3>1, <3>2, <3>3, Zenon
  <2> HIDE DEF next
  <2>4. SwitchingValid(next) <=> ~ ParallelAfter(event_index + 1)
    BY <2>3, ParallelIsInvalid
  <2> QED
    BY <2>2, <2>3, <2>4
<1>5. CASE ProcessExternal
  <2>1. /\ pc = "group" /\ state' = next /\ SwitchingValid(next)
        /\ event_index' = event_index + 1 /\ scenario' = scenario
        /\ outcome' \in {"engine.capacity_invariants", "scenario.transition_limit", "running"}
    BY <1>5 DEF ProcessExternal, Continue, Fault
  <2> HIDE DEF next
  <2>2. \A n \in 0 .. event_index + 1 : n \in 0 .. event_index \/ n = event_index + 1
    BY <1>1
  <2> QED
    BY <1>1, <1>2, <1>4, <2>1, <2>2 DEF SwitchingFollowsSchedule
<1>6. CASE RejectParallelSources
  <2>1. /\ pc = "group" /\ ~ SwitchingValid(next)
        /\ UNCHANGED <<scenario, event_index, state>>
    BY <1>6 DEF RejectParallelSources, run
  <2> HIDE DEF next
  <2> QED
    BY <1>3, <1>4, <2>1
<1>7. CASE RunSegment
  <2>1. PICK duration : state' = integrate_batteries(duration)
    BY <1>7 DEF RunSegment
  <2>2. state'.connection_closed = state.connection_closed
    BY <1>1, <2>1 DEF integrate_batteries, Shape
  <2>3. /\ UNCHANGED <<scenario, event_index>>
        /\ outcome' \in {"engine.time_regression", "engine.energy_overdraw", "running"}
    BY <1>7 DEF RunSegment, Continue
  <2> QED
    BY <1>3, <2>2, <2>3
<1>8. CASE ProcessInternal
  <2>1. state' = AfterMilestone(milestone)
    BY <1>8 DEF ProcessInternal
  <2>2. state'.connection_closed = state.connection_closed
    BY <1>1, <2>1 DEF AfterMilestone, Shape
  <2>3. /\ UNCHANGED <<scenario, event_index>>
        /\ outcome' \in {"engine.depletion_timing", "engine.capacity_invariants",
                         "scenario.transition_limit", "running"}
    BY <1>8 DEF ProcessInternal, Continue, Fault
  <2> QED
    BY <1>3, <2>2, <2>3
<1>9. CASE Finish
  <2>1. /\ UNCHANGED <<scenario, event_index, state>>
        /\ outcome' \in {"engine.unconsumed_events", "engine.energy_balance",
                         "result.telemetry_limit", "completed"}
    BY <1>9 DEF Finish, run
  <2> QED
    BY <1>3, <2>1
<1>10. CASE RejectInexactMilestone
  BY <1>3, <1>10 DEF RejectInexactMilestone, run
<1>11. CASE BeginGroup \/ NothingDue \/ NoTimePasses \/ Stopped \/ UNCHANGED vars
  <2>1. UNCHANGED <<scenario, event_index, state, outcome>>
    BY <1>11 DEF BeginGroup, NothingDue, NoTimePasses, Stopped, vars, run
  <2> QED
    BY <1>3, <2>1 DEF SwitchingFollowsSchedule
<1> QED
  BY <1>5, <1>6, <1>7, <1>8, <1>9, <1>10, <1>11 DEF Next

\* At the start the connections are where the site puts them.
LEMMA InitSwitching == ASSUME Init PROVE SwitchingFollowsSchedule
<1>1. /\ state = initial_state /\ event_index = 0
      /\ outcome \in {"engine.capacity_invariants", "scenario.transition_limit", "running"}
  BY DEF Init, Fault
<1>2. \A k : ClosedAfter(0, k) <=> connection[k].initial_closed
  <2>1. \A i : i \notin 1 .. 0
    OBVIOUS
  <2> QED
    BY <2>1, Zenon DEF ClosedAfter
<1>3. \A k \in Connections : state.connection_closed[k] <=> ClosedAfter(0, k)
  BY <1>1, <1>2, Zenon DEF initial_state
<1>4. ~ ParallelAfter(0)
  BY <1>1, <1>3, InitialSwitching, ParallelIsInvalid
<1>5. \A n : n \in 0 .. 0 <=> n = 0
  OBVIOUS
<1> QED
  BY <1>1, <1>3, <1>4, <1>5 DEF SwitchingFollowsSchedule

\* In every run the connections are where the transfers so far put them, and a run is
\* refused at exactly the first event after which two inputs of a switch are closed.
THEOREM SwitchingFollowsScheduleHolds == Spec => []SwitchingFollowsSchedule
<1>1. EventInv /\ SwitchingFollowsSchedule /\ [Next]_vars => SwitchingFollowsSchedule'
  BY NextSwitching
<1>2. Init => SwitchingFollowsSchedule
  BY InitSwitching
<1> QED
  BY <1>1, <1>2, EventInvariant, PTL DEF Spec

\* An external event is applied exactly when the clock is at its time, and after the
\* one before it: the order of the parsed scenario is the order of the run.
THEOREM EventsAppliedOnTime ==
  Spec => [][event_index' # event_index =>
               /\ event_index' = event_index + 1
               /\ scenario.events[event_index'].time_ms = current_time]_vars
<1> DEFINE OnTime == event_index' # event_index =>
                       /\ event_index' = event_index + 1
                       /\ scenario.events[event_index'].time_ms = current_time
<1>1. ASSUME EventInv, [Next]_vars PROVE [OnTime]_vars
  <2>1. CASE ProcessExternal
    <3>1. pc = "group" /\ event_index' = event_index + 1
      BY <2>1 DEF ProcessExternal
    <3> QED
      BY <1>1, <3>1, NextEvent
  <2>2. CASE ~ ProcessExternal
    <3>1. event_index' = event_index
      BY <1>1, <2>2 DEF Next, BeginGroup, NothingDue, RejectParallelSources,
         RejectInexactMilestone, RunSegment, NoTimePasses, ProcessInternal, Finish,
         Stopped, vars
    <3> QED
      BY <3>1
  <2> QED
    BY <2>1, <2>2
<1> QED
  BY <1>1, EventInvariant, PTL DEF Spec

-----------------------------------------------------------------------------
(* Runtime states.                                                         *)

\* What the proofs use of a parsed site.
LEMMA ComponentFacts ==
  /\ \A c \in Components : component[c] \in Component
  /\ \A k \in Connections : connection[k] \in Connection
  /\ Components \subseteq Nat
  /\ Loads \subseteq Components /\ Upses \subseteq Components
  /\ Generators \subseteq Components
<1>1. \A c \in Components : component[c] \in Component
  BY ComponentsParsed
<1>2. Components \subseteq 1 .. MAX_COMPONENTS
  BY SnapshotAssumption
<1>3. Components \subseteq Nat
  BY <1>2 DEF MAX_COMPONENTS
<1>4. \A k \in Connections : connection[k] \in Connection
  BY SnapshotAssumption
<1>5. \A kinds : OfKind(kinds) \subseteq Components
  BY DEF OfKind
<1> QED
  BY <1>1, <1>3, <1>4, <1>5 DEF Loads, Upses, Generators

\* The engine starts with a runtime state of its type and full batteries.
LEMMA InitialStateType == initial_state \in RuntimeState /\ Charged(initial_state)
<1>1. \A c \in Components :
        /\ component[c].initial_status \in Availability
        /\ component[c].demand_w \in Nat
        /\ component[c].usable_energy_mj \in Nat
  BY ComponentFacts DEF Component
<1>2. \A k \in Connections : connection[k].initial_closed \in BOOLEAN
  BY ComponentFacts DEF Connection
<1>3. initial_state \in RuntimeState
  BY <1>1, <1>2, ComponentFacts DEF initial_state, RuntimeState
<1>4. Charged(initial_state)
  BY <1>1, ComponentFacts DEF initial_state, Charged
<1> QED
  BY <1>3, <1>4

\* An event keeps the type of the runtime state and touches no battery.
LEMMA ApplyType ==
  ASSUME NEW s \in RuntimeState, NEW e \in Event, TargetSuits(e)
  PROVE  /\ apply_event(s, e) \in RuntimeState
         /\ apply_event(s, e).battery_energy_mj = s.battery_energy_mj
<1> DEFINE c == e.component_id
           next == apply_event(s, e)
<1>1. CASE e.kind = "atomic_transfer"
  <2> DEFINE closed == [k \in Connections |->
               k \in e.close_connection_ids
                 \/ (s.connection_closed[k] /\ k \notin e.open_connection_ids)]
  <2>1. next = [s EXCEPT !.connection_closed = closed]
    BY <1>1 DEF apply_event, RuntimeState
  <2>2. closed \in [Connections -> BOOLEAN]
    BY Zenon
  <2> QED
    BY <2>1, <2>2 DEF RuntimeState
<1>2. CASE e.kind = "load_step"
  <2>1. next = [s EXCEPT !.demand_w[c] = e.demand_w]
    BY <1>2 DEF apply_event
  <2>2. c \in Loads /\ e.demand_w \in Nat
    BY <1>2 DEF TargetSuits, Event
  <2> QED
    BY <2>1, <2>2 DEF RuntimeState
<1>3. CASE e.kind \notin {"atomic_transfer", "load_step"}
  <2> DEFINE running == generators_running(s, e)
  <2>1. next = [s EXCEPT !.component_status[c] = StatusOf(e.kind),
                         !.generator_running = running]
    BY <1>3 DEF apply_event
  <2>2. e.kind \in StatusKind \cup GeneratorOutcome /\ c \in Components
    BY <1>3 DEF Event, EventKind, TargetSuits
  <2>3. /\ StatusOf(e.kind) \in Availability
        /\ e.kind = "generator_running" => c \in Generators
    BY <2>2 DEF StatusOf, Availability, StatusKind, GeneratorOutcome, TargetSuits
  <2>4. /\ running \in SUBSET Generators
        /\ [s.component_status EXCEPT ![c] = StatusOf(e.kind)] \in [Components -> Availability]
    BY <2>2, <2>3 DEF RuntimeState, generators_running
  <2> HIDE DEF running
  <2> QED
    BY <2>1, <2>4 DEF RuntimeState
<1> QED
  BY <1>1, <1>2, <1>3

-----------------------------------------------------------------------------
(* Milestones.                                                             *)

EngineTypes ==
  /\ state \in RuntimeState
  /\ Charged(state)
  /\ summary \in Summary
  /\ current_time \in Nat

\* The milestone of a UPS is the time at which its energy runs out.
LEMMA CandidateFacts ==
  ASSUME EngineTypes, NEW u \in Discharging
  PROVE  /\ u \in Upses /\ u \in Nat
         /\ summary.source_power_w[u] \in Nat \ {0}
         /\ state.battery_energy_mj[u] \in Nat
         /\ EnergyToMilestone(u) \in 0 .. state.battery_energy_mj[u]
         /\ Candidate(u).component_id = u
         /\ Candidate(u).kind = IF WarnsNext(u) THEN "ups_low_energy" ELSE "ups_depleted"
         /\ Candidate(u).time_ms \in Nat
         /\ Candidate(u).time_ms >= current_time
         /\ (Candidate(u).time_ms - current_time) * summary.source_power_w[u]
              <= EnergyToMilestone(u)
         /\ EnergyToMilestone(u) % summary.source_power_w[u] = 0 =>
              (Candidate(u).time_ms - current_time) * summary.source_power_w[u]
                = EnergyToMilestone(u)
<1> DEFINE power  == summary.source_power_w[u]
           energy == state.battery_energy_mj[u]
           needed == EnergyToMilestone(u)
<1>1. u \in Upses /\ u \in Components /\ u \in Nat
  BY ComponentFacts DEF Discharging, EngineTypes, Summary
<1>2. power \in Nat \ {0}
  BY <1>1 DEF Discharging, EngineTypes, Summary
<1>3. component[u].usable_energy_mj \in Nat /\ component[u].low_energy_threshold_pct \in Nat
  BY <1>1, ComponentFacts DEF Component
<1>4. energy \in Nat
  BY <1>1, <1>3 DEF EngineTypes, Charged
<1>5. threshold_mj(u) \in Nat
  <2>1. component[u].usable_energy_mj * component[u].low_energy_threshold_pct \in Nat
    BY <1>3
  <2> QED
    BY <2>1, DivBound DEF threshold_mj
<1>6. needed \in 0 .. energy
  BY <1>4, <1>5 DEF EnergyToMilestone, WarnsNext
<1>7. /\ needed \div power \in Nat
      /\ (needed \div power) * power <= needed
      /\ needed % power = 0 => (needed \div power) * power = needed
  <2>1. needed \in Nat
    BY <1>4, <1>6
  <2> HIDE DEF needed, power
  <2> QED
    BY <1>2, <2>1, DivBound
<1>8. /\ Candidate(u).time_ms = current_time + needed \div power
      /\ Candidate(u).component_id = u
      /\ Candidate(u).kind = IF WarnsNext(u) THEN "ups_low_energy" ELSE "ups_depleted"
  BY DEF Candidate
<1>9. Candidate(u).time_ms - current_time = needed \div power
  BY <1>7, <1>8 DEF EngineTypes
<1> HIDE DEF needed, power, energy
<1>10. Candidate(u).time_ms \in Nat /\ Candidate(u).time_ms >= current_time
  BY <1>7, <1>8 DEF EngineTypes
<1> QED
  BY <1>1, <1>2, <1>4, <1>6, <1>7, <1>8, <1>9, <1>10 DEF needed, power, energy

\* next_battery_milestone is the first candidate: it exists, and no UPS has an
\* earlier one.
LEMMA MilestoneFacts ==
  ASSUME EngineTypes, Discharging # {}
  PROVE  /\ \E u \in Discharging : next_battery_milestone = Candidate(u)
         /\ \A v \in Discharging : next_battery_milestone.time_ms <= Candidate(v).time_ms
<1> DEFINE D == Discharging
           time(u) == Candidate(u).time_ms
<1>1. \A u \in D : time(u) \in Nat /\ u \in Nat
  BY CandidateFacts
<1>2. PICK u1 \in D : \A v \in D : time(u1) <= time(v)
  <2> DEFINE T == {time(u) : u \in D}
  <2>1. T \in SUBSET Nat
    BY <1>1
  <2>2. T # {}
    OBVIOUS
  <2>3. PICK t \in T : \A y \in T : t <= y
    <3> HIDE DEF T
    <3> QED
      BY <2>1, <2>2, LeastNat
  <2>4. PICK u \in D : t = time(u)
    OBVIOUS
  <2> QED
    BY <2>3, <2>4
<1> DEFINE First == {u \in D : time(u) = time(u1)}
           Warns == {u \in First : WarnsNext(u)}
           Best  == IF Warns # {} THEN Warns ELSE First
<1>3. PICK m \in Best : \A v \in Best : m <= v
  <2>1. Best \in SUBSET Nat /\ Best # {}
    BY <1>1, <1>2
  <2> HIDE DEF Best
  <2> QED
    BY <2>1, LeastNat
<1>4. m \in D /\ time(m) = time(u1)
  BY <1>3
<1>5. ASSUME NEW v \in D
      PROVE  Candidate(v) = Candidate(m) \/ MilestoneBefore(Candidate(m), Candidate(v))
  <2>1. time(m) <= time(v) /\ time(m) \in Nat /\ time(v) \in Nat
    BY <1>1, <1>2, <1>4
  <2>2. CASE time(m) < time(v)
    BY <2>2 DEF MilestoneBefore
  <2>3. CASE v = m
    BY <2>3
  <2>4. CASE time(m) = time(v) /\ v # m
    <3>1. v \in First /\ m \in First /\ v \in Nat /\ m \in Nat
      BY <1>1, <1>4, <2>4
    <3>2. CASE WarnsNext(v)
      <4>1. v \in Best /\ WarnsNext(m)
        BY <1>3, <3>1, <3>2
      <4>2. m < v
        BY <1>3, <2>4, <3>1, <4>1
      <4> QED
        BY <1>4, <2>4, <3>2, <4>1, <4>2, CandidateFacts DEF MilestoneBefore
    <3>3. CASE ~ WarnsNext(v) /\ WarnsNext(m)
      BY <1>4, <2>4, <3>3, CandidateFacts DEF MilestoneBefore
    <3>4. CASE ~ WarnsNext(v) /\ ~ WarnsNext(m)
      <4>1. v \in Best
        BY <1>3, <3>1, <3>4
      <4>2. m < v
        BY <1>3, <2>4, <3>1, <4>1
      <4> QED
        BY <1>4, <2>4, <3>4, <4>2, CandidateFacts DEF MilestoneBefore
    <3> QED
      BY <3>2, <3>3, <3>4
  <2> QED
    BY <2>1, <2>2, <2>3, <2>4
<1> DEFINE candidates == {Candidate(u) : u \in D}
           first(x) == \A n \in candidates : n = x \/ MilestoneBefore(x, n)
<1>6. next_battery_milestone = CHOOSE x \in candidates : first(x)
  BY DEF next_battery_milestone
<1>7. Candidate(m) \in candidates /\ first(Candidate(m))
  BY <1>4, <1>5
<1>8. next_battery_milestone \in candidates /\ first(next_battery_milestone)
  <2> HIDE DEF candidates, first
  <2> QED
    BY <1>6, <1>7
<1>9. PICK w \in D : next_battery_milestone = Candidate(w)
  BY <1>8
<1>10. ASSUME NEW v \in D PROVE time(w) <= time(v)
  <2>1. Candidate(v) = Candidate(w) \/ MilestoneBefore(Candidate(w), Candidate(v))
    BY <1>8, <1>9
  <2> QED
    BY <1>1, <2>1 DEF MilestoneBefore
<1> QED
  BY <1>9, <1>10

\* What the loop head relies on.
Ahead ==
  /\ EngineTypes
  /\ scenario \in Scenarios
  /\ event_index \in 0 .. Len(scenario.events)
  /\ current_time <= scenario.horizon_ms
  /\ event_index < Len(scenario.events) =>
       current_time <= scenario.events[event_index + 1].time_ms

MilestoneType ==
  [time_ms : Nat, kind : {"ups_low_energy", "ups_depleted"}, component_id : Upses]

\* The next boundary lies ahead, and nothing happens before it.
LEMMA BoundaryFacts ==
  ASSUME Ahead, current_time < scenario.horizon_ms
  PROVE  /\ next_battery_milestone \in MilestoneType \cup {NoMilestone}
         /\ next_battery_milestone = NoMilestone <=> Discharging = {}
         /\ next_boundary(next_battery_milestone) \in current_time .. scenario.horizon_ms
         /\ event_index < Len(scenario.events) =>
              next_boundary(next_battery_milestone) <= scenario.events[event_index + 1].time_ms
         /\ next_battery_milestone # NoMilestone =>
              next_boundary(next_battery_milestone) <= next_battery_milestone.time_ms
         /\ next_boundary(next_battery_milestone) <= current_time + scenario.resolution_ms
<1> DEFINE m == next_battery_milestone
           external == boundary_external
           internal == boundary_internal(m)
           resolution == boundary_resolution
<1>1. /\ current_time \in Nat
      /\ scenario.horizon_ms \in Nat
      /\ scenario.resolution_ms \in Nat \ {0}
  BY ScenarioFacts DEF Ahead, EngineTypes
<1>2. external \in current_time .. scenario.horizon_ms
  <2>1. CASE event_index < Len(scenario.events)
    <3>1. event_index + 1 \in 1 .. Len(scenario.events)
      BY <2>1, ScenarioFacts DEF Ahead
    <3> QED
      BY <1>1, <2>1, <3>1, ScenarioFacts DEF Ahead, boundary_external
  <2>2. CASE ~ (event_index < Len(scenario.events))
    BY <1>1, <2>2 DEF Ahead, boundary_external
  <2> QED
    BY <2>1, <2>2
<1>3. /\ m \in MilestoneType \cup {NoMilestone}
      /\ m = NoMilestone <=> Discharging = {}
      /\ m # NoMilestone => m.time_ms >= current_time
  <2>1. CASE Discharging = {}
    BY <2>1 DEF next_battery_milestone
  <2>2. CASE Discharging # {}
    <3>1. PICK u \in Discharging : m = Candidate(u)
      BY <2>2, MilestoneFacts DEF Ahead
    <3>2. /\ u \in Upses
          /\ Candidate(u).time_ms \in Nat
          /\ Candidate(u).time_ms >= current_time
          /\ Candidate(u).kind \in {"ups_low_energy", "ups_depleted"}
          /\ Candidate(u).component_id = u
      BY CandidateFacts DEF Ahead
    <3>3. m \in MilestoneType
      BY <3>1, <3>2 DEF MilestoneType, Candidate
    <3>4. m # NoMilestone
      BY <3>1, <3>2 DEF NoMilestone
    <3> QED
      BY <2>2, <3>1, <3>2, <3>3, <3>4
  <2> QED
    BY <2>1, <2>2
<1>4. internal \in Nat /\ internal >= current_time
  BY <1>1, <1>3 DEF MilestoneType, Ahead, boundary_internal
<1>5. /\ resolution \in Nat /\ resolution >= current_time
      /\ resolution <= current_time + scenario.resolution_ms
  <2>1. /\ resolution \in Nat /\ resolution > current_time
        /\ resolution <= current_time + scenario.resolution_ms
    BY <1>1, NextMultiple DEF boundary_resolution
  <2> HIDE DEF resolution
  <2> QED
    BY <1>1, <2>1
<1> HIDE DEF external, internal, resolution
<1>6. next_boundary(m) = Min({external, internal, resolution, scenario.horizon_ms})
  BY DEF next_boundary, external, internal, resolution
<1>7. /\ next_boundary(m) \in {external, internal, resolution, scenario.horizon_ms}
      /\ \A x \in {external, internal, resolution, scenario.horizon_ms} : next_boundary(m) <= x
  <2>1. /\ external \in Int /\ internal \in Int /\ resolution \in Int
        /\ scenario.horizon_ms \in Int
    BY <1>1, <1>2, <1>4, <1>5
  <2> DEFINE boundary == next_boundary(m)
             four == {external, internal, resolution, scenario.horizon_ms}
  <2>2. four \in SUBSET Int
    BY <2>1
  <2>3. \E x \in four : \A y \in four : x <= y
    BY <2>1
  <2>4. boundary = Min(four)
    BY <1>6
  <2> HIDE DEF boundary, four
  <2>5. boundary \in four /\ \A x \in four : boundary <= x
    BY <2>2, <2>3, <2>4, MinOfSet
  <2> QED
    BY <2>5 DEF boundary, four
<1>8. /\ next_boundary(m) \in current_time .. scenario.horizon_ms
      /\ next_boundary(m) <= current_time + scenario.resolution_ms
  BY <1>1, <1>2, <1>4, <1>5, <1>7
<1> QED
  BY <1>3, <1>7, <1>8 DEF external, internal, boundary_external, boundary_internal

\* Up to the boundary no battery is overdrawn, and the one whose depletion ends the
\* segment is empty.
LEMMA DrainFacts ==
  ASSUME Ahead, current_time < scenario.horizon_ms, ExactMilestones,
         NEW m, m = next_battery_milestone,
         NEW left, left = integrate_batteries(next_boundary(m) - current_time)
  PROVE  /\ left \in RuntimeState /\ Charged(left)
         /\ \A u \in summary.battery_source_ids : ~ (left.battery_energy_mj[u] < 0)
         /\ m # NoMilestone /\ m.time_ms = next_boundary(m) /\ m.kind = "ups_depleted" =>
              left.battery_energy_mj[m.component_id] = 0
<1> DEFINE duration == next_boundary(m) - current_time
           after(u) == IF u \in summary.battery_source_ids
                       THEN state.battery_energy_mj[u] - summary.source_power_w[u] * duration
                       ELSE state.battery_energy_mj[u]
<1>1. /\ current_time \in Nat
      /\ duration \in Nat
      /\ next_boundary(m) \in Nat
  BY BoundaryFacts, ScenarioFacts DEF Ahead, EngineTypes
<1>2. left = [state EXCEPT !.battery_energy_mj = [u \in Upses |-> after(u)]]
  BY DEF integrate_batteries, Ahead, EngineTypes, RuntimeState
<1>3. /\ summary.battery_source_ids \subseteq Upses
      /\ \A u \in Upses : summary.source_power_w[u] \in Nat
      /\ \A u \in Upses : state.battery_energy_mj[u] \in 0 .. component[u].usable_energy_mj
      /\ \A u \in Upses : component[u].usable_energy_mj \in Nat
  BY ComponentFacts DEF Ahead, EngineTypes, Summary, Charged, Component
<1>4. ASSUME NEW u \in Upses
      PROVE  after(u) \in 0 .. component[u].usable_energy_mj
  <2>1. CASE u \in Discharging
    <3> DEFINE power == summary.source_power_w[u]
               time == Candidate(u).time_ms
    <3>1. /\ power \in Nat
          /\ time \in Nat
          /\ (time - current_time) * power <= EnergyToMilestone(u)
          /\ EnergyToMilestone(u) \in 0 .. state.battery_energy_mj[u]
      BY <2>1, CandidateFacts DEF Ahead
    <3>2. next_boundary(m) <= time
      <4>1. m # NoMilestone /\ m.time_ms <= time
        BY <2>1, BoundaryFacts, MilestoneFacts DEF Ahead
      <4>2. next_boundary(m) <= m.time_ms /\ m \in MilestoneType
        BY <4>1, BoundaryFacts
      <4> QED
        BY <1>1, <3>1, <4>1, <4>2 DEF MilestoneType
    <3> HIDE DEF power, time
    <3>3. duration <= time - current_time /\ time - current_time \in Nat
      BY <1>1, <3>1, <3>2
    <3> HIDE DEF duration
    <3>4. power * duration \in Nat /\ power * duration <= (time - current_time) * power
      BY <1>1, <3>1, <3>3, ProductGrows
    <3>5. after(u) = state.battery_energy_mj[u] - power * duration
      BY <2>1 DEF Discharging, power, duration
    <3> DEFINE energy  == state.battery_energy_mj[u]
               drained == power * duration
               usable  == component[u].usable_energy_mj
    <3>6. /\ energy \in 0 .. usable /\ usable \in Nat
          /\ drained \in Nat /\ drained <= energy
          /\ after(u) = energy - drained
      <4>1. (time - current_time) * power \in Int
        BY <3>1, <3>3
      <4> HIDE DEF after
      <4> QED
        BY <1>3, <3>1, <3>4, <3>5, <4>1
    <3> HIDE DEF energy, drained, usable, after
    <3>7. after(u) \in 0 .. usable
      BY <3>6
    <3> QED
      BY <3>7 DEF usable
  <2>2. CASE u \notin Discharging
    <3>1. u \in summary.battery_source_ids => summary.source_power_w[u] = 0
      BY <1>3, <2>2 DEF Discharging
    <3>2. 0 * duration = 0
      BY <1>1
    <3>3. after(u) = state.battery_energy_mj[u]
      BY <1>3, <3>1, <3>2
    <3> QED
      BY <1>3, <3>3
  <2> QED
    BY <2>1, <2>2
<1> HIDE DEF after
<1>5. /\ left.battery_energy_mj = [u \in Upses |-> after(u)]
      /\ [u \in Upses |-> after(u)] \in [Upses -> Int]
  BY <1>2, <1>3, <1>4 DEF Ahead, EngineTypes, RuntimeState
<1>6. left \in RuntimeState
  BY <1>2, <1>5 DEF Ahead, EngineTypes, RuntimeState
<1>7. Charged(left)
  BY <1>4, <1>5 DEF Charged
<1>8. ASSUME m # NoMilestone, m.time_ms = next_boundary(m), m.kind = "ups_depleted"
      PROVE  left.battery_energy_mj[m.component_id] = 0
  <2>1. PICK u \in Discharging : m = Candidate(u)
    BY <1>8, BoundaryFacts, MilestoneFacts DEF Ahead
  <2> DEFINE power == summary.source_power_w[u]
  <2>2. /\ u \in Upses
        /\ u \in summary.battery_source_ids
        /\ m.component_id = u
        /\ ~ WarnsNext(u)
        /\ power \in Nat
        /\ state.battery_energy_mj[u] \in Nat
        /\ EnergyToMilestone(u) % power = 0
        /\ EnergyToMilestone(u) % power = 0 =>
             (Candidate(u).time_ms - current_time) * power = EnergyToMilestone(u)
    BY <1>8, <2>1, CandidateFacts DEF Ahead, ExactMilestones, Discharging
  <2>3. EnergyToMilestone(u) = state.battery_energy_mj[u]
    BY <2>2 DEF EnergyToMilestone
  <2>4. duration * power = state.battery_energy_mj[u]
    BY <1>8, <2>1, <2>2, <2>3
  <2>5. after(u) = state.battery_energy_mj[u] - power * duration
    BY <2>2 DEF after
  <2> HIDE DEF power, duration
  <2>6. after(u) = 0
    BY <1>1, <2>2, <2>4, <2>5
  <2> QED
    BY <1>5, <2>2, <2>6
<1> QED
  BY <1>3, <1>4, <1>5, <1>6, <1>7, <1>8

-----------------------------------------------------------------------------
(* The invariant.                                                         *)

Outcomes == {"running", "completed"} \cup InputErrors

AccumulatorFields ==
  {"demanded_energy_mj", "served_energy_mj", "unserved_energy_mj",
   "interruption_duration_ms", "interruption_count", "peak_demand_w",
   "peak_served_w", "minimum_served_w", "peak_stranded_capacity_w",
   "previous_unserved", "redundancy_states"}

Balanced(acc) ==
  /\ DOMAIN acc = AccumulatorFields
  /\ acc.demanded_energy_mj \in Nat
  /\ acc.served_energy_mj \in Nat
  /\ acc.unserved_energy_mj \in Nat
  /\ acc.demanded_energy_mj = acc.served_energy_mj + acc.unserved_energy_mj

SafetyInv ==
  /\ EventInv
  /\ Ahead
  /\ pc \in {"due", "group", "loop", "milestone", "stopped"}
  /\ outcome \in Outcomes
  /\ pc = "stopped" <=> outcome # "running"
  /\ summary.demand_w = summary.served_w + summary.unserved_w
  /\ group \in [baseline_w : Nat, end : 0 .. Len(scenario.events)]
  /\ milestone \in MilestoneType \cup {NoMilestone}
  /\ pc = "milestone" =>
       /\ milestone # NoMilestone
       /\ milestone.kind = "ups_depleted" =>
            state.battery_energy_mj[milestone.component_id] = 0
  /\ Balanced(accumulator)

-----------------------------------------------------------------------------
(* Initially.                                                              *)

\* The initial allocation passes the assertions, and one transition is within the limit.
LEMMA InitiallyRunning ==
  ASSUME Init
  PROVE  outcome = "running" /\ pc = "due"
<1>1. capacity_invariants(initial_state, solve_capacity(initial_state))
  BY InitialStateType, SolutionIsSound
<1>2. Fault(initial_state, solve_capacity(initial_state), 1) = "running"
  BY <1>1, ScenarioAssumption DEF Fault
<1> QED
  BY <1>2 DEF Init

\* SafetyInv holds in the initial states.
LEMMA InitSafetyInv == Init => SafetyInv
<1> SUFFICES ASSUME Init PROVE SafetyInv
  OBVIOUS
<1>1. EventInv
  BY InitEventInv
<1>2. /\ scenario \in Scenarios
      /\ state = initial_state
      /\ summary = solve_capacity(initial_state)
      /\ pc = "due" /\ outcome = "running"
      /\ current_time = 0 /\ event_index = 0
      /\ group = [baseline_w |-> 0, end |-> 0]
      /\ milestone = NoMilestone
      /\ accumulator = EmptyAccumulator
  BY InitiallyRunning DEF Init
<1>3. /\ state \in RuntimeState /\ Charged(state)
      /\ summary \in Summary
      /\ summary.demand_w = summary.served_w + summary.unserved_w
  <2>1. initial_state \in RuntimeState /\ Charged(initial_state)
    BY InitialStateType
  <2>2. /\ solve_capacity(initial_state) \in Summary
        /\ capacity_invariants(initial_state, solve_capacity(initial_state))
    BY <2>1, SolutionIsSound
  <2> QED
    BY <1>2, <2>1, <2>2 DEF capacity_invariants
<1>4. Ahead
  <2>1. /\ scenario.horizon_ms \in Nat
        /\ Len(scenario.events) \in Nat
        /\ 0 < Len(scenario.events) => scenario.events[0 + 1].time_ms \in Nat
    BY <1>2, ScenarioFacts
  <2> QED
    BY <1>2, <1>3, <2>1 DEF Ahead, EngineTypes
<1>5. group \in [baseline_w : Nat, end : 0 .. Len(scenario.events)]
  BY <1>2, ScenarioFacts
<1>6. Balanced(accumulator)
  BY <1>2 DEF Balanced, EmptyAccumulator, AccumulatorFields
<1> QED
  BY <1>1, <1>2, <1>3, <1>4, <1>5, <1>6 DEF SafetyInv, Outcomes

-----------------------------------------------------------------------------
(* The steps.                                                              *)

\* A step that solves the capacity again raises no InvariantError.
LEMMA SolvedSoundly ==
  ASSUME NEW s \in RuntimeState, Charged(s), NEW count
  PROVE  /\ solve_capacity(s) \in Summary
         /\ solve_capacity(s).demand_w =
              solve_capacity(s).served_w + solve_capacity(s).unserved_w
         /\ Fault(s, solve_capacity(s), count) \in {"running", "scenario.transition_limit"}
<1> DEFINE sum == solve_capacity(s)
<1>1. sum \in Summary /\ capacity_invariants(s, sum)
  BY SolutionIsSound
<1> HIDE DEF sum
<1> QED
  BY <1>1 DEF capacity_invariants, Fault, sum

\* A milestone marks its UPS and leaves everything else of the state.
LEMMA MarkFacts ==
  ASSUME state \in RuntimeState, Charged(state), NEW m \in MilestoneType
  PROVE  /\ AfterMilestone(m) \in RuntimeState
         /\ Charged(AfterMilestone(m))
BY DEF AfterMilestone, RuntimeState, Charged, MilestoneType

\* The energy of a segment is served or unserved.
LEMMA SegmentBalance ==
  ASSUME NEW acc, Balanced(acc), NEW sum \in Summary,
         sum.demand_w = sum.served_w + sum.unserved_w, NEW duration \in Nat
  PROVE  Balanced(add_segment(acc, sum, duration))
<1> DEFINE demanded == sum.demand_w * duration
           served   == sum.served_w * duration
           unserved == sum.unserved_w * duration
           next     == add_segment(acc, sum, duration)
<1>1. sum.demand_w \in Nat /\ sum.served_w \in Nat /\ sum.unserved_w \in Nat
  BY DEF Summary
<1>2. demanded \in Nat /\ served \in Nat /\ unserved \in Nat /\ demanded = served + unserved
  <2>1. sum.demand_w * duration = sum.served_w * duration + sum.unserved_w * duration
    BY <1>1
  <2> QED
    BY <1>1, <2>1
<1> HIDE DEF demanded, served, unserved
<1>3. /\ DOMAIN next = AccumulatorFields
      /\ next.demanded_energy_mj = acc.demanded_energy_mj + demanded
      /\ next.served_energy_mj = acc.served_energy_mj + served
      /\ next.unserved_energy_mj = acc.unserved_energy_mj + unserved
  BY DEF add_segment, Balanced, AccumulatorFields, demanded, served, unserved
<1> HIDE DEF next
<1>4. Balanced(next)
  BY <1>2, <1>3 DEF Balanced
<1> QED
  BY <1>4 DEF next

\* The steps that touch nothing but the control.
LEMMA ControlSteps ==
  ASSUME SafetyInv, EventInv',
         \/ BeginGroup \/ NothingDue \/ RejectParallelSources \/ RejectInexactMilestone
         \/ NoTimePasses \/ Finish \/ Stopped \/ UNCHANGED vars
  PROVE  SafetyInv'
<1> DEFINE Same == UNCHANGED <<scenario, state, summary, current_time, event_index, accumulator>>
<1>1. ASSUME Same, pc' # "milestone",
             pc' \in {"due", "group", "loop", "stopped"},
             outcome' \in Outcomes, pc' = "stopped" <=> outcome' # "running",
             group' \in [baseline_w : Nat, end : 0 .. Len(scenario.events)],
             UNCHANGED milestone
      PROVE  SafetyInv'
  BY <1>1 DEF SafetyInv, Ahead, EngineTypes
<1>2. CASE BeginGroup
  <2>1. Same /\ pc = "due" /\ UNCHANGED <<outcome, milestone>> /\ pc' = "group"
    BY <1>2 DEF BeginGroup, run
  <2>2. group'.end \in 0 .. Len(scenario.events)
    <3>1. /\ group'.end \in event_index + 1 .. Len(scenario.events)
          /\ event_index \in Nat
          /\ Len(scenario.events) \in Nat
      BY <2>1, ScenarioFacts DEF EventInv, GroupInProgress, SafetyInv
    <3> QED
      BY <3>1
  <2>3. group' = [baseline_w |-> summary.unserved_w, end |-> group'.end]
    BY <1>2 DEF BeginGroup
  <2>4. summary.unserved_w \in Nat
    BY DEF SafetyInv, Ahead, EngineTypes, Summary
  <2> QED
    BY <1>1, <2>1, <2>2, <2>3, <2>4 DEF SafetyInv
<1>3. CASE NothingDue
  <2>1. Same /\ pc = "due" /\ UNCHANGED <<outcome, milestone, group>> /\ pc' = "loop"
    BY <1>3 DEF NothingDue, run
  <2> QED
    BY <1>1, <2>1 DEF SafetyInv
<1>4. CASE RejectParallelSources \/ RejectInexactMilestone
  <2>1. /\ Same /\ UNCHANGED <<milestone, group>>
        /\ pc' = "stopped" /\ outcome' \in InputErrors
    BY <1>4 DEF RejectParallelSources, RejectInexactMilestone, run, InputErrors
  <2> QED
    BY <1>1, <2>1 DEF SafetyInv, Outcomes, InputErrors
<1>5. CASE NoTimePasses
  <2>1. /\ pc = "loop" /\ current_time < scenario.horizon_ms /\ ExactMilestones
        /\ Same /\ UNCHANGED <<outcome, group>>
        /\ milestone' = next_battery_milestone
        /\ next_boundary(milestone') = current_time
        /\ pc' = IF milestone'.time_ms = current_time THEN "milestone" ELSE "due"
    BY <1>5 DEF NoTimePasses, AtLoopHead, run
  <2>2. milestone' \in MilestoneType \cup {NoMilestone}
    BY <2>1, BoundaryFacts DEF SafetyInv
  <2>3. ASSUME pc' = "milestone"
        PROVE  /\ milestone' # NoMilestone
               /\ milestone'.kind = "ups_depleted" =>
                    state.battery_energy_mj[milestone'.component_id] = 0
    <3>1. milestone'.time_ms = current_time /\ milestone' # NoMilestone
      BY <2>1, <2>3 DEF NoMilestone, SafetyInv, Ahead, EngineTypes
    <3>2. milestone'.kind = "ups_depleted" =>
            integrate_batteries(next_boundary(milestone') - current_time)
              .battery_energy_mj[milestone'.component_id] = 0
      BY <2>1, <3>1, DrainFacts DEF SafetyInv
    <3>3. ASSUME milestone'.kind = "ups_depleted"
          PROVE  state.battery_energy_mj[milestone'.component_id] = 0
      <4> DEFINE u == milestone'.component_id
                 now == next_boundary(milestone') - current_time
      <4>1. now = 0 /\ u \in Upses /\ u \in Components
        <5>1. now = 0
          BY <2>1 DEF SafetyInv, Ahead, EngineTypes
        <5>2. u \in Upses
          BY <2>2, <3>1 DEF MilestoneType
        <5> QED
          BY <5>1, <5>2, ComponentFacts
      <4>2. summary.source_power_w[u] \in Nat /\ state.battery_energy_mj[u] \in Int
        BY <4>1 DEF SafetyInv, Ahead, EngineTypes, Summary, RuntimeState
      <4>3. integrate_batteries(0).battery_energy_mj[u] = state.battery_energy_mj[u]
        BY <4>1, <4>2 DEF integrate_batteries, SafetyInv, Ahead, EngineTypes, RuntimeState
      <4> QED
        BY <3>2, <3>3, <4>1, <4>3
    <3> QED
      BY <3>1, <3>3
  <2> QED
    BY <2>1, <2>2, <2>3 DEF SafetyInv, Ahead, EngineTypes
<1>6. CASE Finish
  <2>1. /\ Same /\ UNCHANGED <<milestone, group>> /\ pc' = "stopped"
    BY <1>6 DEF Finish, run
  <2>2. outcome' \in Outcomes \ {"running"}
    <3>1. outcome' \in {"engine.unconsumed_events", "result.telemetry_limit", "completed"}
      BY <1>6 DEF Finish, SafetyInv, Balanced
    <3> QED
      BY <3>1 DEF Outcomes, InputErrors
  <2> QED
    BY <1>1, <2>1, <2>2 DEF SafetyInv
<1>7. CASE Stopped \/ UNCHANGED vars
  BY <1>7 DEF Stopped, vars, run, SafetyInv, Ahead, EngineTypes
<1> QED
  BY <1>2, <1>3, <1>4, <1>5, <1>6, <1>7

\* Processing an external event keeps SafetyInv.
LEMMA ExternalStep ==
  ASSUME SafetyInv, EventInv', ProcessExternal
  PROVE  SafetyInv'
<1> DEFINE events == scenario.events
           e == events[event_index + 1]
           next == apply_event(state, e)
           after == solve_capacity(next)
<1>1. /\ pc = "group"
      /\ state' = next
      /\ summary' = after
      /\ event_index' = event_index + 1
      /\ Continue(IF LastOfGroup THEN "loop" ELSE "group",
                  Fault(next, after, Len(transitions) + 1))
      /\ UNCHANGED <<scenario, current_time, group, milestone, accumulator>>
  BY DEF ProcessExternal
<1>2. /\ event_index + 1 \in 1 .. Len(events)
      /\ e \in Event /\ TargetSuits(e)
      /\ e.time_ms = current_time
  BY <1>1, NextEvent DEF SafetyInv
<1>3. next \in RuntimeState /\ Charged(next)
  BY <1>2, ApplyType DEF SafetyInv, Ahead, EngineTypes, Charged
<1>4. /\ after \in Summary
      /\ after.demand_w = after.served_w + after.unserved_w
      /\ Fault(next, after, Len(transitions) + 1) \in {"running", "scenario.transition_limit"}
  BY <1>3, SolvedSoundly
<1> HIDE DEF next, after
<1>5. /\ outcome' \in Outcomes
      /\ pc' \in {"loop", "group", "stopped"}
      /\ pc' = "stopped" <=> outcome' # "running"
  BY <1>1, <1>4 DEF Continue, Outcomes, InputErrors
<1>6. ASSUME event_index' < Len(events)
      PROVE  current_time <= events[event_index' + 1].time_ms
  <2>1. /\ event_index \in Nat /\ Len(events) \in Nat
        /\ event_index' + 1 \in 1 .. Len(events)
    BY <1>1, <1>6, ScenarioFacts DEF SafetyInv, Ahead
  <2>2. event_index + 1 <= event_index' + 1
    BY <1>1, <2>1
  <2>3. events[event_index + 1].time_ms <= events[event_index' + 1].time_ms
    BY <1>2, <2>1, <2>2, ScenarioFacts DEF SafetyInv, Ahead
  <2> QED
    BY <1>2, <2>3
<1>7. Ahead'
  BY <1>1, <1>2, <1>3, <1>4, <1>6 DEF SafetyInv, Ahead, EngineTypes
<1> QED
  BY <1>1, <1>4, <1>5, <1>7 DEF SafetyInv

\* A segment keeps SafetyInv, takes time and steps over no event.
LEMMA SegmentStep ==
  ASSUME SafetyInv, EventInv', RunSegment
  PROVE  /\ SafetyInv'
         /\ current_time' > current_time
         /\ event_index < Len(scenario.events) =>
              current_time' <= scenario.events[event_index + 1].time_ms
<1> DEFINE m == next_battery_milestone
           boundary == next_boundary(m)
           left == integrate_batteries(boundary - current_time)
           fault == IF boundary < current_time THEN "engine.time_regression"
                    ELSE IF \E u \in summary.battery_source_ids : left.battery_energy_mj[u] < 0
                    THEN "engine.energy_overdraw" ELSE "running"
<1>1. /\ pc = "loop" /\ current_time < scenario.horizon_ms /\ ExactMilestones
      /\ boundary # current_time
      /\ milestone' = m
      /\ current_time' = boundary
      /\ state' = left
      /\ accumulator' = add_segment(accumulator, summary, boundary - current_time)
      /\ Continue(IF m.time_ms = boundary THEN "milestone" ELSE "due", fault)
      /\ UNCHANGED <<scenario, summary, event_index, group>>
  BY DEF RunSegment, AtLoopHead
<1>2. /\ m \in MilestoneType \cup {NoMilestone}
      /\ boundary \in current_time .. scenario.horizon_ms
      /\ event_index < Len(scenario.events) =>
           boundary <= scenario.events[event_index + 1].time_ms
  BY <1>1, BoundaryFacts DEF SafetyInv
<1>3. /\ left \in RuntimeState /\ Charged(left)
      /\ \A u \in summary.battery_source_ids : ~ (left.battery_energy_mj[u] < 0)
      /\ m # NoMilestone /\ m.time_ms = boundary /\ m.kind = "ups_depleted" =>
           left.battery_energy_mj[m.component_id] = 0
  BY <1>1, DrainFacts DEF SafetyInv
<1>4. /\ current_time \in Nat /\ scenario.horizon_ms \in Nat
      /\ boundary \in Nat /\ boundary > current_time
      /\ boundary - current_time \in Nat
  <2>1. current_time \in Nat /\ scenario.horizon_ms \in Nat
    BY ScenarioFacts DEF SafetyInv, Ahead, EngineTypes
  <2> HIDE DEF boundary
  <2> QED
    BY <1>1, <1>2, <2>1
<1>5. Balanced(accumulator')
  BY <1>1, <1>4, SegmentBalance DEF SafetyInv, Ahead, EngineTypes
<1>6. fault = "running"
  BY <1>3, <1>4
<1> HIDE DEF m, boundary, left, fault
<1>7. /\ outcome' = "running"
      /\ pc' = IF m.time_ms = boundary THEN "milestone" ELSE "due"
  BY <1>1, <1>6 DEF Continue
<1>8. pc' = "milestone" =>
        /\ m # NoMilestone
        /\ m.kind = "ups_depleted" => left.battery_energy_mj[m.component_id] = 0
  BY <1>3, <1>4, <1>7 DEF NoMilestone
<1>9. Ahead'
  BY <1>1, <1>2, <1>3, <1>4 DEF SafetyInv, Ahead, EngineTypes
<1>10. SafetyInv'
  BY <1>1, <1>2, <1>5, <1>7, <1>8, <1>9 DEF SafetyInv, Outcomes
<1> QED
  BY <1>1, <1>2, <1>4, <1>10

\* Processing a battery milestone keeps SafetyInv.
LEMMA InternalStep ==
  ASSUME SafetyInv, EventInv', ProcessInternal
  PROVE  SafetyInv'
<1> DEFINE next == AfterMilestone(milestone)
           after == solve_capacity(next)
           fault == Fault(next, after, Len(transitions) + 1)
<1>1. /\ pc = "milestone"
      /\ state' = next
      /\ summary' = after
      /\ Continue("loop", IF milestone.kind = "ups_depleted"
                             /\ state.battery_energy_mj[milestone.component_id] # 0
                          THEN "engine.depletion_timing" ELSE fault)
      /\ UNCHANGED <<scenario, current_time, event_index, group, milestone, accumulator>>
  BY DEF ProcessInternal
<1>2. milestone \in MilestoneType
  BY <1>1 DEF SafetyInv
<1>3. next \in RuntimeState /\ Charged(next)
  BY <1>2, MarkFacts DEF SafetyInv, Ahead, EngineTypes
<1>4. /\ after \in Summary
      /\ after.demand_w = after.served_w + after.unserved_w
      /\ fault \in {"running", "scenario.transition_limit"}
  BY <1>3, SolvedSoundly
<1> HIDE DEF next, after, fault
<1>5. /\ outcome' = fault
      /\ pc' = IF fault = "running" THEN "loop" ELSE "stopped"
  BY <1>1 DEF SafetyInv, Continue
<1>6. Ahead'
  BY <1>1, <1>3, <1>4 DEF SafetyInv, Ahead, EngineTypes
<1> QED
  BY <1>1, <1>4, <1>5, <1>6 DEF SafetyInv, Outcomes, InputErrors

\* Every step keeps SafetyInv.
LEMMA NextSafetyInv ==
  SafetyInv /\ [Next]_vars => SafetyInv'
<1> SUFFICES ASSUME SafetyInv, [Next]_vars PROVE SafetyInv'
  OBVIOUS
<1>1. EventInv'
  BY NextEventInv DEF SafetyInv
<1> QED
  BY <1>1, ControlSteps, ExternalStep, SegmentStep, InternalStep DEF Next

\* SafetyInv is an invariant.
LEMMA SafetyInvariant == Spec => []SafetyInv
<1>1. Init => SafetyInv
  BY InitSafetyInv
<1>2. SafetyInv /\ [Next]_vars => SafetyInv'
  BY NextSafetyInv
<1> QED
  BY <1>1, <1>2, PTL DEF Spec

-----------------------------------------------------------------------------
(* What a run records.                                                     *)

\* A sequence over a set is one over a larger set, and so is what Append makes of it.
LEMMA AppendedType ==
  ASSUME NEW S, NEW T, S \subseteq T, NEW q \in Seq(S), NEW x \in T
  PROVE  Append(q, x) \in Seq(T)
<1>1. q \in Seq(T)
  <2>1. Len(q) \in Nat /\ q \in [1 .. Len(q) -> S]
    OBVIOUS
  <2>2. q \in [1 .. Len(q) -> T]
    BY <2>1
  <2> QED
    BY <2>1, <2>2
<1> QED
  BY <1>1

\* A longer list of alarms leaves the transitions their type.
LEMMA MoreAlarms ==
  ASSUME NEW m \in Nat, NEW n \in Nat, m <= n
  PROVE  Transition(m) \subseteq Transition(n)
<1>1. 1 .. m \subseteq 1 .. n
  OBVIOUS
<1>2. SUBSET (1 .. m) \subseteq SUBSET (1 .. n)
  BY <1>1
<1> QED
  BY <1>2, Zenon DEF Transition

\* From l to m the ledger keeps its type and its alarms.
Extends(l, m) == Ledger(m) /\ Len(l.alarms) \in Nat /\ Len(l.alarms) <= Len(m.alarms)

\* A ledger extends itself, and what extends an extension extends the first.
LEMMA ExtendsTwice ==
  /\ \A l : Ledger(l) => Extends(l, l)
  /\ \A l, a, m : Extends(l, a) /\ Extends(a, m) => Extends(l, m)
<1>1. ASSUME NEW l, Ledger(l) PROVE Extends(l, l)
  <2>1. Len(l.alarms) \in Nat
    BY <1>1 DEF Ledger
  <2> QED
    BY <1>1, <2>1 DEF Extends
<1>2. ASSUME NEW l, NEW a, NEW m, Extends(l, a), Extends(a, m) PROVE Extends(l, m)
  <2>1. Len(m.alarms) \in Nat
    BY <1>2 DEF Extends, Ledger
  <2> QED
    BY <1>2, <2>1 DEF Extends
<1> QED
  BY <1>1, <1>2

\* raise_alarm keeps the type of the ledger.
LEMMA RaiseType ==
  ASSUME NEW l, Ledger(l), NEW time \in Times, NEW key \in AlarmCode \X TargetIds,
         NEW cause \in EventIds
  PROVE  Extends(l, raise_alarm(l, time, key, cause))
<1> DEFINE m == raise_alarm(l, time, key, cause)
           count == Len(l.alarms)
           alarm == [time_ms |-> time, code |-> key[1], component_id |-> key[2],
                     causal_event_id |-> cause]
           keys == DOMAIN l.active \cup {key}
           active == [k \in keys |-> IF k = key THEN count + 1 ELSE l.active[k]]
<1>1. count \in Nat
  BY DEF Ledger
<1>2. CASE IsActive(l, key)
  BY <1>1, <1>2 DEF raise_alarm, Extends
<1>3. CASE ~ IsActive(l, key)
  <2>1. m = [alarms |-> Append(l.alarms, alarm), active |-> active]
    BY <1>3 DEF raise_alarm
  <2>2. alarm \in Alarm
    BY DEF Alarm
  <2>3. Append(l.alarms, alarm) \in Seq(Alarm) /\ Len(Append(l.alarms, alarm)) = count + 1
    <3> HIDE DEF alarm
    <3> QED
      BY <2>2 DEF Ledger
  <2>4. \A k \in keys : active[k] \in 1 .. count + 1
    <3>1. \A k \in DOMAIN l.active : l.active[k] \in 1 .. count
      BY DEF Ledger
    <3> HIDE DEF count
    <3> QED
      BY <1>1, <3>1
  <2>5. /\ DOMAIN active = keys
        /\ keys \subseteq AlarmCode \X TargetIds
        /\ active \in [keys -> 1 .. count + 1]
    BY <2>4, Zenon DEF Ledger
  <2> HIDE DEF alarm, active, keys
  <2>6. m.alarms = Append(l.alarms, alarm) /\ m.active = active
        /\ m = [alarms |-> m.alarms, active |-> m.active]
    BY <2>1
  <2> HIDE DEF m, count
  <2>7. Ledger(m)
    BY <2>3, <2>5, <2>6 DEF Ledger
  <2>8. count <= Len(m.alarms)
    BY <1>1, <2>3, <2>6
  <2> QED
    BY <1>1, <2>7, <2>8 DEF Extends, m, count
<1> QED
  BY <1>2, <1>3

\* clear keeps the type of the ledger.
LEMMA ClearType ==
  ASSUME NEW l, Ledger(l), NEW key
  PROVE  Extends(l, clear(l, key))
<1> DEFINE m == clear(l, key)
           active == [k \in DOMAIN l.active \ {key} |-> l.active[k]]
<1>1. m = [alarms |-> l.alarms, active |-> active]
  BY DEF clear, Ledger
<1>2. /\ DOMAIN active = DOMAIN l.active \ {key}
      /\ DOMAIN active \subseteq AlarmCode \X TargetIds
      /\ active \in [DOMAIN active -> 1 .. Len(l.alarms)]
  BY DEF Ledger
<1>3. Len(l.alarms) \in Nat
  BY DEF Ledger
<1> HIDE DEF active
<1>4. m.alarms = l.alarms /\ m.active = active /\ m = [alarms |-> m.alarms, active |-> m.active]
  BY <1>1
<1> HIDE DEF m
<1> QED
  BY <1>2, <1>3, <1>4 DEF Ledger, Extends, m

\* So do the service alarms,
LEMMA ServiceType ==
  ASSUME NEW l, Ledger(l), NEW time \in Times, NEW cause \in EventIds, NEW before, NEW after
  PROVE  Extends(l, service_alarms(l, time, cause, before, after))
<1>1. LoadUnserved \in AlarmCode \X TargetIds
  BY DEF LoadUnserved, AlarmCode, TargetIds
<1> QED
  BY <1>1, RaiseType, ClearType, ExtendsTwice DEF service_alarms

\* and the alarms of an event.
LEMMA EventType ==
  ASSUME NEW l, Ledger(l), NEW e \in Event, e.time_ms \in Times, EventId(e) \in EventIds
  PROVE  Extends(l, apply_event_alarms(l, e))
<1>1. CASE e.kind \in DOMAIN RaisedCode
  <2>1. <<RaisedCode[e.kind], e.component_id>> \in AlarmCode \X TargetIds
    BY <1>1 DEF RaisedCode, AlarmCode, TargetIds, Event
  <2> QED
    BY <1>1, <2>1, RaiseType DEF apply_event_alarms
<1>2. CASE e.kind \notin DOMAIN RaisedCode
  BY <1>2, ClearType, ExtendsTwice DEF apply_event_alarms
<1> QED
  BY <1>1, <1>2

\* Record lists alarms of the ledgers.
LEMMA RecordType ==
  ASSUME NEW l, NEW m, Extends(l, m), Ledger(l), NEW time \in Times, NEW id \in EventIds,
         NEW kind \in TransitionKind, NEW target \in TargetIds, NEW raised
  PROVE  Record(time, id, kind, target, l, m, raised) \in Transition(Len(m.alarms))
<1> DEFINE count == Len(m.alarms)
           listed == (UNION {Ids(m, key) : key \in raised})
                       \cup {m.active[key] : key \in DOMAIN m.active \ DOMAIN l.active}
           cleared == {l.active[key] : key \in DOMAIN l.active \ DOMAIN m.active}
<1>1. count \in Nat /\ Len(l.alarms) \in Nat /\ Len(l.alarms) <= count
  BY DEF Extends, Ledger
<1>2. \A key \in DOMAIN m.active : m.active[key] \in 1 .. count
  BY DEF Extends, Ledger
<1>3. \A key \in DOMAIN l.active : l.active[key] \in 1 .. count
  <2>1. \A key \in DOMAIN l.active : l.active[key] \in 1 .. Len(l.alarms)
    BY DEF Ledger
  <2> HIDE DEF count
  <2> QED
    BY <1>1, <2>1
<1> HIDE DEF count
<1>4. listed \subseteq 1 .. count
  BY <1>2 DEF Ids, IsActive
<1>5. cleared \subseteq 1 .. count
  BY <1>3
<1>6. Record(time, id, kind, target, l, m, raised) =
        [time_ms |-> time, event_id |-> id, event_kind |-> kind, target_id |-> target,
         alarms_raised |-> listed, alarms_cleared |-> cleared]
  BY DEF Record, transition
<1> HIDE DEF listed, cleared
<1> QED
  BY <1>4, <1>5, <1>6 DEF Transition, count

\* A transition that a step adds, with the alarms that it raises.
LEMMA TransitionType ==
  ASSUME NEW l, NEW m, Ledger(l), Extends(l, m),
         NEW q \in Seq(Transition(Len(l.alarms))), NEW t \in Transition(Len(m.alarms))
  PROVE  Append(q, t) \in Seq(Transition(Len(m.alarms)))
<1>1. Len(m.alarms) \in Nat /\ Len(l.alarms) \in Nat /\ Len(l.alarms) <= Len(m.alarms)
  BY DEF Extends, Ledger
<1>2. Transition(Len(l.alarms)) \subseteq Transition(Len(m.alarms))
  BY <1>1, MoreAlarms
<1> QED
  BY <1>2, AppendedType

\* The types are those of the scenario, which no step changes.
LEMMA TypedAfter ==
  ASSUME scenario' = scenario, Ledger(ledger'),
         transitions' \in Seq(Transition(Len(ledger'.alarms))), causes' \in EventIds,
         timeline' \in Seq(Segment), accumulator' \in Accumulator,
         metrics' \in Metrics \cup {NoMetrics}
  PROVE  RecordsTyped'
<1>1. Times' = Times /\ EventIds' = EventIds
  BY DEF Times, EventIds
<1>2. Alarm' = Alarm /\ Segment' = Segment
  BY <1>1 DEF Alarm, Segment
<1>3. Transition(Len(ledger.alarms))' = Transition(Len(ledger'.alarms))
  BY <1>1 DEF Transition
<1>4. Ledger(ledger)'
  BY <1>2 DEF Ledger
<1> QED
  BY <1>1, <1>2, <1>3, <1>4 DEF RecordsTyped

\* The largest and the least of two numbers are numbers.
LEMMA OneOfTwo ==
  ASSUME NEW a \in Nat, NEW b \in Nat
  PROVE  Max({a, b}) \in Nat /\ Min({a, b}) \in Nat
<1>1. \E x \in {a, b} : \A y \in {a, b} : x >= y
  OBVIOUS
<1>2. \E x \in {a, b} : \A y \in {a, b} : x <= y
  OBVIOUS
<1>3. Max({a, b}) \in {a, b}
  BY <1>1 DEF Max
<1>4. Min({a, b}) \in {a, b}
  BY <1>2 DEF Min
<1> QED
  BY <1>3, <1>4

\* A segment keeps the type of the accumulator.
LEMMA AccumulatorType ==
  ASSUME NEW acc \in Accumulator, NEW sum \in Summary, NEW duration \in Nat
  PROVE  add_segment(acc, sum, duration) \in Accumulator
<1> DEFINE next == add_segment(acc, sum, duration)
           demanded == sum.demand_w * duration
           served   == sum.served_w * duration
           unserved == sum.unserved_w * duration
           peak     == Max({acc.peak_demand_w, sum.demand_w})
           peak2    == Max({acc.peak_served_w, sum.served_w})
           stranded == Max({acc.peak_stranded_capacity_w, sum.stranded_capacity_w})
           least    == IF sum.demand_w = 0 THEN acc.minimum_served_w
                       ELSE IF acc.minimum_served_w = NoMinimum THEN sum.served_w
                       ELSE Min({acc.minimum_served_w, sum.served_w})
           seen     == acc.redundancy_states \cup {sum.redundancy_state}
           short    == sum.unserved_w > 0
<1>1. /\ sum.demand_w \in Nat /\ sum.served_w \in Nat /\ sum.unserved_w \in Nat
      /\ sum.stranded_capacity_w \in Nat /\ sum.redundancy_state \in Range(RedundancyStates)
  BY DEF Summary
<1>2. demanded \in Nat /\ served \in Nat /\ unserved \in Nat
  BY <1>1
<1>3. /\ acc.peak_demand_w \in Nat /\ acc.peak_served_w \in Nat
      /\ acc.peak_stranded_capacity_w \in Nat
      /\ acc.minimum_served_w \in Nat \cup {NoMinimum}
      /\ acc.redundancy_states \in SUBSET Range(RedundancyStates)
      /\ acc.demanded_energy_mj \in Nat /\ acc.served_energy_mj \in Nat
      /\ acc.unserved_energy_mj \in Nat /\ acc.interruption_duration_ms \in Nat
      /\ acc.interruption_count \in Nat
  BY DEF Accumulator
<1>4. peak \in Nat /\ peak2 \in Nat /\ stranded \in Nat
  BY <1>1, <1>3, OneOfTwo
<1>5. least \in Nat \cup {NoMinimum}
  <2>1. CASE sum.demand_w = 0
    BY <1>3, <2>1
  <2>2. CASE sum.demand_w # 0 /\ acc.minimum_served_w = NoMinimum
    BY <1>1, <2>2
  <2>3. CASE sum.demand_w # 0 /\ acc.minimum_served_w # NoMinimum
    <3>1. acc.minimum_served_w \in Nat
      BY <1>3, <2>3
    <3>2. Min({acc.minimum_served_w, sum.served_w}) \in Nat
      BY <1>1, <3>1, OneOfTwo
    <3> QED
      BY <1>1, <2>3, <3>1, <3>2
  <2> QED
    BY <2>1, <2>2, <2>3
<1>6. seen \in SUBSET Range(RedundancyStates) /\ short \in BOOLEAN
  BY <1>1, <1>3
<1> DEFINE energy == acc.demanded_energy_mj + demanded
           energy2 == acc.served_energy_mj + served
           energy3 == acc.unserved_energy_mj + unserved
           time == acc.interruption_duration_ms + IF short THEN duration ELSE 0
           count == acc.interruption_count + IF Interrupted(acc, sum) THEN 1 ELSE 0
<1>7. /\ energy \in Nat /\ energy2 \in Nat /\ energy3 \in Nat
      /\ time \in Nat /\ count \in Nat
  <2> HIDE DEF demanded, served, unserved, short
  <2> QED
    BY <1>2, <1>3
<1> DEFINE mid == [acc EXCEPT
             !.demanded_energy_mj = energy, !.served_energy_mj = energy2,
             !.unserved_energy_mj = energy3, !.interruption_duration_ms = time,
             !.interruption_count = count]
<1>8. next = [mid EXCEPT
        !.previous_unserved = short, !.peak_demand_w = peak, !.peak_served_w = peak2,
        !.minimum_served_w = least, !.peak_stranded_capacity_w = stranded,
        !.redundancy_states = seen]
  BY DEF add_segment
<1> HIDE DEF next, energy, energy2, energy3, time, count, peak, peak2, least, stranded, seen,
             short
<1>9. mid \in Accumulator
  BY <1>7 DEF Accumulator
<1> HIDE DEF mid
<1>10. next \in Accumulator
  BY <1>4, <1>5, <1>6, <1>8, <1>9 DEF Accumulator
<1> QED
  BY <1>10 DEF next

\* The figures of an accumulator have their types.
LEMMA MetricsType ==
  ASSUME NEW acc \in Accumulator
  PROVE  build_metrics(acc) \in Metrics
<1> DEFINE half == acc.demanded_energy_mj \div 2
           share == acc.served_energy_mj * 1000000 + half
           ratio == IF acc.demanded_energy_mj = 0 THEN 1000000
                    ELSE share \div acc.demanded_energy_mj
           least == Max({acc.minimum_served_w, 0})
           worst == IF acc.redundancy_states = {} THEN "no_demand"
                    ELSE RedundancyStates[worst_severity(acc.redundancy_states)]
<1>1. acc.demanded_energy_mj \in Nat /\ acc.served_energy_mj \in Nat
  BY DEF Accumulator
<1>2. ratio \in Nat
  <2>1. half \in Nat /\ acc.served_energy_mj * 1000000 \in Nat
    BY <1>1
  <2> HIDE DEF half
  <2>2. share \in Nat
    BY <1>1, <2>1
  <2> HIDE DEF share
  <2> QED
    BY <1>1, <2>2, DivBound
<1>3. least \in Nat
  <2>1. acc.minimum_served_w \in Nat \cup {-1}
    BY DEF Accumulator, NoMinimum
  <2> DEFINE low == acc.minimum_served_w
  <2> HIDE DEF low
  <2>2. \E x \in {low, 0} : \A y \in {low, 0} : x >= y
    BY <2>1 DEF low
  <2>3. Max({low, 0}) \in {low, 0} /\ Max({low, 0}) >= 0
    BY <2>2 DEF Max
  <2> QED
    BY <2>1, <2>3 DEF low
<1>4. worst \in Range(RedundancyStates)
  <2>1. /\ DOMAIN RedundancyStates = 1 .. 7 /\ RedundancyStates[7] = "no_demand"
    BY DEF RedundancyStates
  <2>2. "no_demand" \in Range(RedundancyStates)
    <3>1. 7 \in DOMAIN RedundancyStates
      BY <2>1
    <3> QED
      BY <2>1, <3>1, Zenon DEF Range
  <2>3. ASSUME acc.redundancy_states # {}
        PROVE  RedundancyStates[worst_severity(acc.redundancy_states)] \in Range(RedundancyStates)
    <3> DEFINE seen == acc.redundancy_states
               at == {i \in DOMAIN RedundancyStates : RedundancyStates[i] \in seen}
    <3>1. seen \subseteq Range(RedundancyStates)
      BY DEF Accumulator
    <3>2. at # {} /\ at \in SUBSET (1 .. 7)
      BY <2>1, <2>3, <3>1 DEF Range
    <3> HIDE DEF at
    <3>3. \E x \in at : \A y \in at : x <= y
      <4>1. at \in SUBSET Nat
        BY <3>2
      <4> QED
        BY <3>2, <4>1, LeastNat
    <3>4. Min(at) \in at
      BY <3>2, <3>3, MinOfSet
    <3>5. worst_severity(seen) \in DOMAIN RedundancyStates
      BY <2>1, <3>2, <3>4 DEF worst_severity, at
    <3> QED
      BY <3>5 DEF Range
  <2> QED
    BY <2>2, <2>3
<1>5. build_metrics(acc) =
        [demanded_energy_mj |-> acc.demanded_energy_mj,
         served_energy_mj   |-> acc.served_energy_mj,
         unserved_energy_mj |-> acc.unserved_energy_mj,
         service_ratio_ppm  |-> ratio,
         interruption_duration_ms |-> acc.interruption_duration_ms,
         interruption_count |-> acc.interruption_count,
         peak_demand_w      |-> acc.peak_demand_w,
         peak_served_w      |-> acc.peak_served_w,
         minimum_served_w   |-> least,
         peak_stranded_capacity_w |-> acc.peak_stranded_capacity_w,
         modeled_redundancy_state |-> worst]
  BY DEF build_metrics
<1> HIDE DEF ratio, least, worst
<1> QED
  BY <1>2, <1>3, <1>4, <1>5 DEF Metrics, Accumulator

\* The times of a run are within its horizon.
LEMMA NowIsTime ==
  ASSUME SafetyInv
  PROVE  current_time \in Times
BY ScenarioFacts DEF SafetyInv, Ahead, EngineTypes, Times

\* An external event records what has its type.
LEMMA ExternalTyped ==
  ASSUME SafetyInv, RecordsTyped, ProcessExternal
  PROVE  RecordsTyped'
<1> DEFINE e == scenario.events[event_index + 1]
           id == EventId(e)
           a == apply_event_alarms(ledger, e)
           m == ledger'
           t == Record(e.time_ms, id, e.kind, e.component_id, ledger, m, EventKeys(e))
<1>1. /\ pc = "group"
      /\ m = IF LastOfGroup THEN service_alarms(a, e.time_ms, id, group.baseline_w,
                                                summary'.unserved_w)
             ELSE a
      /\ transitions' = Append(transitions, t)
      /\ causes' = id
      /\ UNCHANGED <<scenario, timeline, accumulator, metrics>>
  BY DEF ProcessExternal
<1>2. /\ event_index + 1 \in 1 .. Len(scenario.events)
      /\ e \in Event /\ e.time_ms = current_time
  BY <1>1, NextEvent DEF SafetyInv
<1>3. e.time_ms \in Times
  BY <1>2, NowIsTime
<1>4. id \in EventIds
  <2>1. DOMAIN scenario.events = 1 .. Len(scenario.events)
    BY ScenarioFacts DEF SafetyInv, Ahead
  <2>2. e \in Range(scenario.events)
    BY <1>2, <2>1, Zenon DEF Range
  <2> HIDE DEF e
  <2> QED
    BY <2>2, Zenon DEF EventIds
<1>5. e.kind \in TransitionKind /\ e.component_id \in TargetIds
  BY <1>2 DEF Event, TransitionKind, TargetIds
<1> HIDE DEF e, id, m, t
<1>6. Ledger(ledger)
  BY DEF RecordsTyped
<1>7. Extends(ledger, a)
  BY <1>2, <1>3, <1>4, <1>6, EventType DEF id
<1> HIDE DEF a
<1>8. Extends(ledger, m)
  <2>1. Ledger(a)
    BY <1>7 DEF Extends
  <2>2. CASE LastOfGroup
    <3>1. Extends(a, m)
      BY <1>1, <1>3, <1>4, <2>1, <2>2, ServiceType
    <3> QED
      BY <1>7, <3>1, ExtendsTwice
  <2>3. CASE ~ LastOfGroup
    BY <1>1, <1>7, <2>3
  <2> QED
    BY <2>2, <2>3
<1>9. t \in Transition(Len(m.alarms))
  BY <1>3, <1>4, <1>5, <1>6, <1>8, RecordType DEF t
<1>10. transitions' \in Seq(Transition(Len(m.alarms)))
  BY <1>1, <1>6, <1>8, <1>9, TransitionType DEF RecordsTyped
<1>11. Ledger(m)
  BY <1>8 DEF Extends
<1> QED
  BY <1>1, <1>4, <1>10, <1>11, TypedAfter DEF RecordsTyped, m

\* A milestone does, too.
LEMMA InternalTyped ==
  ASSUME SafetyInv, RecordsTyped, ProcessInternal
  PROVE  RecordsTyped'
<1> DEFINE id == InternalId(milestone.kind, milestone.component_id, current_time)
           key == MilestoneKey(milestone)
           a == raise_alarm(ledger, current_time, key, id)
           m == ledger'
           t == Record(current_time, id, milestone.kind, milestone.component_id, ledger, m,
                       {key})
<1>1. /\ pc = "milestone"
      /\ m = service_alarms(a, current_time, id, summary.unserved_w, summary'.unserved_w)
      /\ transitions' = Append(transitions, t)
      /\ causes' = id
      /\ UNCHANGED <<scenario, timeline, accumulator, metrics>>
  BY DEF ProcessInternal
<1>2. milestone \in MilestoneType
  BY <1>1 DEF SafetyInv
<1>3. current_time \in Times
  BY NowIsTime
<1>4. milestone.component_id \in Upses /\ milestone.component_id \in TargetIds
  BY <1>2, ComponentFacts DEF MilestoneType, TargetIds
<1>5. /\ milestone.kind \in {"ups_low_energy", "ups_depleted"}
      /\ milestone.kind \in TransitionKind
  BY <1>2 DEF MilestoneType, TransitionKind
<1>6. key \in AlarmCode \X TargetIds
  BY <1>4, <1>5 DEF MilestoneKey, AlarmCode
<1>7. id \in EventIds
  BY <1>4, <1>5 DEF InternalId, EventIds, SafetyInv, Ahead, EngineTypes
<1> HIDE DEF id, key, m, t
<1>8. Ledger(ledger)
  BY DEF RecordsTyped
<1>9. Extends(ledger, a)
  BY <1>3, <1>6, <1>7, <1>8, RaiseType
<1> HIDE DEF a
<1>10. Extends(ledger, m)
  <2>1. Extends(a, m)
    BY <1>1, <1>3, <1>7, <1>9, ServiceType DEF Extends
  <2> QED
    BY <1>9, <2>1, ExtendsTwice
<1>11. t \in Transition(Len(m.alarms))
  BY <1>3, <1>4, <1>5, <1>7, <1>8, <1>10, RecordType DEF t
<1>12. transitions' \in Seq(Transition(Len(m.alarms)))
  BY <1>1, <1>8, <1>10, <1>11, TransitionType DEF RecordsTyped
<1>13. Ledger(m)
  BY <1>10 DEF Extends
<1> QED
  BY <1>1, <1>7, <1>12, <1>13, TypedAfter DEF RecordsTyped, m

\* So does a segment.
LEMMA SegmentTyped ==
  ASSUME SafetyInv, SafetyInv', RecordsTyped, RunSegment
  PROVE  RecordsTyped'
<1> DEFINE boundary == next_boundary(next_battery_milestone)
           left == integrate_batteries(boundary - current_time)
           s == segment(current_time, boundary, summary, left, causes)
<1>1. /\ timeline' = Append(timeline, s) /\ current_time' = boundary /\ state' = left
      /\ accumulator' = add_segment(accumulator, summary, boundary - current_time)
      /\ UNCHANGED <<scenario, ledger, transitions, causes, metrics>>
  BY DEF RunSegment
<1>2. current_time \in Times /\ current_time' \in Times' /\ Times' = Times
  BY <1>1, NowIsTime DEF SafetyInv, Ahead, EngineTypes, Times
<1>3. current_time' > current_time /\ current_time \in Nat /\ current_time' \in Nat
  BY SegmentStep DEF SafetyInv, Ahead, EngineTypes
<1>4. summary \in Summary
  BY DEF SafetyInv, Ahead, EngineTypes
<1>5. left.battery_energy_mj \in [Upses -> Nat]
  <2>1. state' \in RuntimeState /\ Charged(state')
    BY DEF SafetyInv, Ahead, EngineTypes, Charged
  <2>2. \A u \in Upses : component[u].usable_energy_mj \in Nat
    BY ComponentFacts DEF Component
  <2> QED
    BY <1>1, <2>1, <2>2 DEF RuntimeState, Charged
<1> HIDE DEF boundary, left
<1>6. s \in Segment
  BY <1>1, <1>2, <1>4, <1>5 DEF segment, Segment, Summary, RecordsTyped
<1> HIDE DEF s
<1>7. timeline' \in Seq(Segment)
  BY <1>1, <1>6 DEF RecordsTyped
<1>8. accumulator' \in Accumulator
  <2>1. boundary - current_time \in Nat
    BY <1>1, <1>3
  <2> QED
    BY <1>1, <1>4, <2>1, AccumulatorType DEF RecordsTyped
<1> QED
  BY <1>1, <1>7, <1>8, TypedAfter DEF RecordsTyped

\* The other steps record nothing but the figures of the whole run.
LEMMA NextTyped ==
  ASSUME SafetyInv, SafetyInv', RecordsTyped, [Next]_vars
  PROVE  RecordsTyped'
<1>1. CASE ~ (ProcessExternal \/ ProcessInternal \/ RunSegment)
  <2>1. /\ UNCHANGED <<scenario, ledger, transitions, causes, timeline, accumulator>>
        /\ metrics' = metrics \/ metrics' = build_metrics(accumulator)
    BY <1>1 DEF Next, BeginGroup, NothingDue, RejectParallelSources,
      RejectInexactMilestone, NoTimePasses, Finish, Stopped, vars, run
  <2>2. metrics' \in Metrics \cup {NoMetrics}
    BY <2>1, MetricsType DEF RecordsTyped
  <2> QED
    BY <2>1, <2>2, TypedAfter DEF RecordsTyped
<1> QED
  BY <1>1, ExternalTyped, InternalTyped, SegmentTyped

\* The first transition and what comes before all segments have their types.
LEMMA InitTyped ==
  ASSUME Init
  PROVE  RecordsTyped
<1> DEFINE t == Record(0, Initialized, "system_initialization", 0, EmptyLedger, ledger, {})
<1>1. /\ ledger = service_alarms(EmptyLedger, 0, Initialized, 0, summary.unserved_w)
      /\ transitions = << t >> /\ causes = Initialized /\ timeline = << >>
      /\ accumulator = EmptyAccumulator /\ metrics = NoMetrics /\ scenario \in Scenarios
  BY DEF Init
<1>2. 0 \in Times /\ Initialized \in EventIds /\ 0 \in TargetIds
      /\ "system_initialization" \in TransitionKind
  BY <1>1, ScenarioFacts DEF Times, EventIds, TargetIds, TransitionKind
<1>3. Ledger(EmptyLedger)
  BY DEF EmptyLedger, Ledger
<1>4. Extends(EmptyLedger, ledger)
  BY <1>1, <1>2, <1>3, ServiceType
<1>5. t \in Transition(Len(ledger.alarms))
  BY <1>2, <1>3, <1>4, RecordType
<1> HIDE DEF t
<1>6. transitions \in Seq(Transition(Len(ledger.alarms)))
  BY <1>1, <1>5
<1>7. accumulator \in Accumulator
  BY <1>1 DEF EmptyAccumulator, Accumulator
<1>8. Ledger(ledger)
  BY <1>4 DEF Extends
<1> QED
  BY <1>1, <1>2, <1>6, <1>7, <1>8 DEF RecordsTyped

\* RecordsTyped is an invariant.
LEMMA RecordsInvariant == Spec => []RecordsTyped
<1>1. Init => RecordsTyped
  BY InitTyped
<1>2. SafetyInv /\ SafetyInv' /\ RecordsTyped /\ [Next]_vars => RecordsTyped'
  BY NextTyped
<1> QED
  BY <1>1, <1>2, SafetyInvariant, PTL DEF Spec

-----------------------------------------------------------------------------
(* What follows.                                                           *)

\* Every variable keeps its type: the parsed scenario, a runtime state and a summary, a
\* clock within the horizon, alarms, transitions and segments that name components of the
\* site and events of the scenario, and figures that are natural numbers.
THEOREM TypeCorrect == Spec => []TypeOK
<1>1. SafetyInv /\ RecordsTyped => TypeOK
  <2> SUFFICES ASSUME SafetyInv, RecordsTyped PROVE TypeOK
    OBVIOUS
  <2>1. ParsedScenario(scenario)
    BY ScenarioAssumption DEF SafetyInv, Ahead
  <2>2. current_time \in 0 .. scenario.horizon_ms
    BY ScenarioFacts DEF SafetyInv, Ahead, EngineTypes
  <2> QED
    BY <2>1, <2>2 DEF SafetyInv, Ahead, EngineTypes, MilestoneType, Outcomes, TypeOK
<1> QED
  BY <1>1, SafetyInvariant, RecordsInvariant, PTL

\* No assertion of engine.py or capacity.py fails: time never goes back, no battery
\* is overdrawn, a battery is empty when its depletion is reported, and demanded
\* energy is served plus unserved energy.
THEOREM NoInternalFaultHolds == Spec => []NoInternalFault
<1>1. SafetyInv => NoInternalFault
  BY DEF SafetyInv, Outcomes, InputErrors, InternalFaults, NoInternalFault
<1> QED
  BY <1>1, SafetyInvariant, PTL

\* Each step of the engine is a step of the event schedule, or none.
LEMMA NextSchedule ==
  ASSUME SafetyInv, [Next]_vars PROVE [Schedule!Next]_Schedule!vars
<1> USE DEF Verdict
<1>1. CASE ProcessExternal
  <2>1. /\ pc = "group" /\ event_index' = event_index + 1
        /\ UNCHANGED <<scenario, current_time>>
    BY <1>1 DEF ProcessExternal
  <2>2. Verdict = "running" /\ Verdict' \in {"running", "failed"}
    <3>1. PICK s, sum, n : outcome' = Fault(s, sum, n)
      BY <1>1 DEF ProcessExternal, Continue
    <3> QED
      BY <2>1, <3>1 DEF SafetyInv, Fault
  <2>3. event_index < Len(scenario.events)
    BY <2>1, NextEvent, ScenarioFacts DEF SafetyInv, Ahead
  <2>4. scenario.events[event_index + 1].time_ms = current_time
    BY <2>1, NextEvent DEF SafetyInv
  <2> QED
    BY <2>1, <2>2, <2>3, <2>4
       DEF Schedule!Next, Schedule!Apply, Schedule!Pending, Schedule!NextTime
<1>2. CASE RunSegment
  <2>1. /\ SafetyInv' /\ current_time' > current_time
        /\ event_index < Len(scenario.events) =>
             current_time' <= scenario.events[event_index + 1].time_ms
    BY <1>2, NextEventInv, SegmentStep DEF SafetyInv
  <2>2. /\ pc = "loop" /\ UNCHANGED <<scenario, event_index>>
        /\ outcome' \in {"engine.time_regression", "engine.energy_overdraw", "running"}
    BY <1>2 DEF RunSegment, AtLoopHead, Continue
  <2>3. Verdict = "running" /\ Verdict' \in {"running", "failed"}
    BY <2>2 DEF SafetyInv
  <2>4. /\ current_time \in Nat /\ current_time' \in Nat
        /\ current_time' <= scenario.horizon_ms
        /\ scenario.horizon_ms \in Nat
    BY <2>1, <2>2, ScenarioFacts DEF SafetyInv, Ahead, EngineTypes
  <2>5. event_index < Len(scenario.events) => scenario.events[event_index + 1].time_ms \in Nat
    BY ScenarioFacts DEF SafetyInv, Ahead
  <2> DEFINE limit == IF event_index < Len(scenario.events)
                      THEN scenario.events[event_index + 1].time_ms
                      ELSE scenario.horizon_ms
  <2>6. current_time' \in current_time + 1 .. limit
    BY <2>1, <2>4, <2>5
  <2> QED
    BY <2>2, <2>3, <2>6 DEF Schedule!Next, Schedule!Advance, Schedule!Limit,
       Schedule!Pending, Schedule!NextTime
<1>3. CASE Finish
  <2>1. /\ pc = "loop" /\ UNCHANGED <<scenario, event_index, current_time>>
        /\ current_time >= scenario.horizon_ms
        /\ outcome' = "completed" => event_index = Len(scenario.events)
        /\ outcome' # "running"
    BY <1>3 DEF Finish
  <2>2. /\ current_time = scenario.horizon_ms
        /\ Len(scenario.events) \in Nat
    BY <2>1, ScenarioFacts DEF SafetyInv, Ahead, EngineTypes
  <2>3. Verdict = "running"
    BY <2>1 DEF SafetyInv
  <2>4. CASE outcome' = "completed"
    BY <2>1, <2>2, <2>3, <2>4 DEF Schedule!Next, Schedule!Complete, Schedule!Pending
  <2>5. CASE outcome' # "completed"
    BY <2>1, <2>3, <2>5 DEF Schedule!Next, Schedule!Abandon
  <2> QED
    BY <2>4, <2>5
<1>4. CASE RejectParallelSources \/ RejectInexactMilestone
  <2>1. /\ pc # "stopped" /\ UNCHANGED <<scenario, event_index, current_time>>
        /\ outcome' \in {"topology.parallel_sources", "scenario.temporal_precision"}
    BY <1>4 DEF RejectParallelSources, RejectInexactMilestone, AtLoopHead
  <2> QED
    BY <2>1 DEF SafetyInv, Schedule!Next, Schedule!Abandon
<1>5. CASE ProcessInternal
  <2>1. pc = "milestone" /\ UNCHANGED <<scenario, event_index, current_time>>
    BY <1>5 DEF ProcessInternal
  <2>2. outcome = "running" /\ outcome' # "completed"
    <3>1. PICK s, sum, n : outcome' \in {"engine.depletion_timing", Fault(s, sum, n)}
      BY <1>5 DEF ProcessInternal, Continue
    <3> QED
      BY <2>1, <3>1 DEF SafetyInv, Fault
  <2>3. CASE outcome' = "running"
    BY <2>1, <2>2, <2>3 DEF Schedule!vars
  <2>4. CASE outcome' # "running"
    BY <2>1, <2>2, <2>4 DEF Schedule!Next, Schedule!Abandon
  <2> QED
    BY <2>3, <2>4
<1>6. CASE BeginGroup \/ NothingDue \/ NoTimePasses \/ Stopped \/ UNCHANGED vars
  BY <1>6 DEF BeginGroup, NothingDue, NoTimePasses, Stopped, vars, Schedule!vars
<1> QED
  BY <1>1, <1>2, <1>3, <1>4, <1>5, <1>6 DEF Next

\* The engine implements the event schedule.
THEOREM ScheduleImplemented == Spec => ImplementsSchedule
<1>1. Init => Schedule!Init
  <2> SUFFICES ASSUME Init PROVE Schedule!Init
    OBVIOUS
  <2>1. /\ scenario \in Scenarios /\ current_time = 0 /\ event_index = 0
        /\ outcome = "running"
    BY InitiallyRunning DEF Init
  <2>2. DOMAIN scenario.events = 1 .. Len(scenario.events)
    BY <2>1, ScenarioFacts
  <2> QED
    BY <2>1, <2>2, ScenarioFacts DEF Schedule!Init, Verdict
<1>2. SafetyInv /\ [Next]_vars => [Schedule!Next]_Schedule!vars
  BY NextSchedule
<1> QED
  BY <1>1, <1>2, SafetyInvariant, PTL DEF Spec, ImplementsSchedule, Schedule!Spec
=============================================================================
