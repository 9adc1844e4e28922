-------------------------- MODULE ScenarioContract --------------------------
(***************************************************************************)
(* What parse_scenario (validation.py) accepts, and the Scenario it hands  *)
(* to the engine: the events sorted by time, semantic priority and id.     *)
(*                                                                         *)
(* The shape of the JSON document, its strings and its strict keys are     *)
(* left out; a raw scenario is a record whose events form a set, since the *)
(* parser sorts them and refuses a duplicate id.                           *)
(***************************************************************************)
EXTENDS Snapshot, Sequences, SequencesExt

CONSTANTS
  MAX_TIMELINE_SEGMENTS,  \* 10000 in the code
  MAX_TELEMETRY_POINTS    \* 250000 in the code

MAX_EVENTS     == 1000
MAX_HORIZON_MS == 7 * 24 * 60 * 60 * 1000

ASSUME LimitAssumption ==
  MAX_TIMELINE_SEGMENTS \in Nat /\ MAX_TELEMETRY_POINTS \in Nat

GeneratorOutcome == {"generator_running", "generator_start_failure"}
StatusKind == {"component_failure", "component_restore",
               "maintenance_start", "maintenance_end"}
EventKind == StatusKind \cup GeneratorOutcome \cup {"atomic_transfer", "load_step"}

\* component_id is 0 for a transfer; demand_w is 0 unless the event is a load step.
Event ==
  [id : Nat, time_ms : Nat, kind : EventKind, component_id : Components \cup {0},
   open_connection_ids : SUBSET Connections,
   close_connection_ids : SUBSET Connections, demand_w : Nat]

semantic_priority(kind) ==
  CASE kind \in {"component_failure", "generator_start_failure"} -> 10
    [] kind = "maintenance_start" -> 20
    [] kind \in {"component_restore", "maintenance_end"} -> 30
    [] kind = "generator_running" -> 35
    [] kind = "atomic_transfer" -> 40
    [] kind = "load_step" -> 50

\* The order of the sort key (time, semantic priority, id).
EventBefore(e, f) ==
  \/ e.time_ms < f.time_ms
  \/ /\ e.time_ms = f.time_ms
     /\ \/ semantic_priority(e.kind) < semantic_priority(f.kind)
        \/ /\ semantic_priority(e.kind) = semantic_priority(f.kind)
           /\ e.id < f.id

-----------------------------------------------------------------------------
(* The checks.                                                             *)

\* _parse_event: the fields that the kind of the event requires.
ParsedEvent(e, horizon) ==
  /\ e \in Event
  /\ e.time_ms <= horizon
  /\ IF e.kind = "atomic_transfer"
     THEN /\ e.component_id = 0
          /\ e.open_connection_ids \cup e.close_connection_ids # {}
          /\ e.open_connection_ids \cap e.close_connection_ids = {}
     ELSE /\ e.open_connection_ids \cup e.close_connection_ids = {}

\* _validate_event_references: the target exists and suits the kind of the event,
TargetSuits(e) ==
  /\ e.kind # "atomic_transfer" => e.component_id \in Components
  /\ e.kind \in GeneratorOutcome => e.component_id \in Generators
  /\ e.kind = "load_step" =>
       /\ e.component_id \in Loads
       /\ e.demand_w <= component[e.component_id].capacity_w

\* and no two events name one component at one time.
ReferencesValid(events) ==
  \A e \in events :
    /\ TargetSuits(e)
    /\ \A f \in events \ {e} :
         e.time_ms = f.time_ms /\ e.component_id = f.component_id => e.component_id = 0

\* The utility failures of the generator's path up to the event.
SourceLosses(events, e) ==
  {f \in events : /\ f.kind = "component_failure"
                  /\ f.time_ms <= e.time_ms
                  /\ f.component_id \in Utilities
                  /\ component[f.component_id].path = component[e.component_id].path}

\* _validate_generator_timing: the outcome of a start comes no sooner than the
\* start delay after the latest of those failures.
GeneratorTimingValid(events) ==
  \A e \in {f \in events : f.kind \in GeneratorOutcome} :
    LET losses == {f.time_ms : f \in SourceLosses(events, e)}
    IN  /\ losses # {}
        /\ e.time_ms - Max(losses) >= component[e.component_id].start_delay_ms

\* Mutant: the batteries cut no segment.
estimated_segments_without_batteries(horizon, resolution, events) ==
  (horizon + resolution - 1) \div resolution + events

\* The segments that the parser expects of a run with so many events.
estimated_segments(horizon, resolution, events) ==
  (horizon + resolution - 1) \div resolution + events + 2 * Cardinality(Upses)

points_per_segment ==
  4 + Cardinality(Upses) + Cardinality(Loads) + Cardinality(Utilities \cup Generators)

accepts_scenario(raw) ==
  LET segments == estimated_segments(raw.horizon_ms, raw.resolution_ms,
                                     Cardinality(raw.events))
  IN
  /\ raw.horizon_ms \in 1 .. MAX_HORIZON_MS
  /\ raw.resolution_ms \in 1 .. raw.horizon_ms
  /\ Cardinality(raw.events) <= MAX_EVENTS
  /\ segments <= MAX_TIMELINE_SEGMENTS
  /\ segments * points_per_segment <= MAX_TELEMETRY_POINTS
  /\ \A e \in raw.events : ParsedEvent(e, raw.horizon_ms)
  /\ \A e, f \in raw.events : e.id = f.id => e = f
  /\ ReferencesValid(raw.events)
  /\ GeneratorTimingValid(raw.events)

\* The Scenario of an accepted document.
parse_scenario(raw) ==
  [horizon_ms    |-> raw.horizon_ms,
   resolution_ms |-> raw.resolution_ms,
   events        |-> SetToSortSeq(raw.events, EventBefore)]

\* What the engine relies on of a Scenario.
ParsedScenario(s) ==
  /\ s = [horizon_ms |-> s.horizon_ms, resolution_ms |-> s.resolution_ms,
          events |-> s.events]
  /\ s.horizon_ms \in Nat \ {0}
  /\ s.resolution_ms \in 1 .. s.horizon_ms
  /\ s.events \in Seq(Event)
  /\ \A i \in DOMAIN s.events :
       /\ s.events[i].time_ms <= s.horizon_ms
       /\ TargetSuits(s.events[i])
  /\ \A i, j \in DOMAIN s.events : i < j => EventBefore(s.events[i], s.events[j])
=============================================================================
