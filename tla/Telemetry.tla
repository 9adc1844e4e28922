----------------------------- MODULE Telemetry ------------------------------
(***************************************************************************)
(* build_telemetry (telemetry.py): the points that a run publishes, derived *)
(* from the segments of its timeline.                                      *)
(***************************************************************************)
EXTENDS Snapshot, Sequences, SequencesExt

\* The identifiers in ascending order: the i-th has i of them up to it.
sorted(ids) ==
  [i \in 1 .. Cardinality(ids) |-> CHOOSE c \in ids : Cardinality({d \in ids : d <= c}) = i]

\* Component 0 stands for "system".
segment_points(segment) ==
  LET point(c, metric, value) ==
        [time_ms |-> segment.end_ms, component_id |-> c, metric |-> metric,
         value |-> value]
      each(ids, metric, f) ==
        LET order == sorted(ids)
        IN  [i \in DOMAIN order |-> point(order[i], metric, f[order[i]])]
  IN  << point(0, "demand_w", segment.demand_w),
         point(0, "served_w", segment.served_w),
         point(0, "unserved_w", segment.unserved_w) >>
        \o each(Upses, "stored_energy_mj", segment.battery_energy_mj)
        \o each(segment.source_ids, "source_power_w", segment.source_power_w)
        \o each(Loads, "served_power_w", segment.load_service_w)
        \o << point(0, "modeled_redundancy_state", segment.redundancy_state) >>

build_telemetry(timeline) ==
  FoldLeft(LAMBDA points, segment : points \o segment_points(segment), << >>, timeline)
=============================================================================
