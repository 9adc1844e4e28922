------------------------------- MODULE Sites --------------------------------
(***************************************************************************)
(* Small design snapshots for the model checker.                           *)
(***************************************************************************)
EXTENDS Integers, TLC

LOCAL Part(kind, path, capacity) ==
  [kind |-> kind, path |-> path, capacity_w |-> capacity,
   initial_status |-> "available", demand_w |-> 0, priority |-> 0,
   service_order |-> 0, usable_energy_mj |-> 0,
   low_energy_threshold_pct |-> 0, start_delay_ms |-> 0]

LOCAL LoadPart(capacity, demand, order) ==
  [Part("load", "shared", capacity) EXCEPT
     !.demand_w = demand, !.priority = 1, !.service_order = order]

LOCAL UpsPart(path, capacity, energy, percent) ==
  [Part("ups", path, capacity) EXCEPT
     !.usable_energy_mj = energy, !.low_energy_threshold_pct = percent]

LOCAL GeneratorPart(path, capacity, delay) ==
  [Part("generator", path, capacity) EXCEPT !.start_delay_ms = delay]

LOCAL Wire(a, b, capacity, closed) ==
  [from_component |-> a, to_component |-> b, capacity_w |-> capacity,
   initial_closed |-> closed]

\* Two independent paths, a utility and a UPS on each, and two loads that both
\* paths feed: the shape of examples/reference-2n.
TwoPathComponents == 1 .. 6
TwoPathComponent ==
  << LoadPart(3, 2, 1), LoadPart(3, 2, 2),
     UpsPart("A", 4, 16, 50), UpsPart("B", 4, 16, 50),
     Part("utility", "A", 4), Part("utility", "B", 4) >>
TwoPathConnections == 1 .. 6
TwoPathConnection ==
  << Wire(5, 3, 4, TRUE), Wire(6, 4, 4, TRUE),
     Wire(3, 1, 3, TRUE), Wire(4, 1, 3, FALSE),
     Wire(3, 2, 2, FALSE), Wire(4, 2, 2, TRUE) >>

\* One path behind an automatic transfer switch, between a utility and a
\* generator, with a UPS before the loads: the shape of the backup chain.
SwitchedComponents == 1 .. 6
SwitchedComponent ==
  << Part("ats", "A", 4), GeneratorPart("A", 3, 2),
     LoadPart(3, 2, 1), LoadPart(2, 1, 2),
     UpsPart("A", 4, 12, 25), Part("utility", "A", 4) >>
SwitchedConnections == 1 .. 5
SwitchedConnection ==
  << Wire(6, 1, 4, TRUE), Wire(2, 1, 4, FALSE), Wire(1, 5, 4, TRUE),
     Wire(5, 3, 3, TRUE), Wire(5, 4, 2, TRUE) >>

\* Two utilities that feed both loads through a shared PDU, the first also through
\* a UPS beside it, behind a feed that may be open: a load may have to give back flow
\* of the first utility to get all that the two can bring.
SharedComponents == 1 .. 6
SharedComponent ==
  << LoadPart(3, 2, 2), LoadPart(3, 3, 1), Part("pdu", "A", 3),
     UpsPart("B", 2, 8, 50), Part("utility", "A", 2), Part("utility", "B", 1) >>
SharedConnections == 1 .. 7
SharedConnection ==
  << Wire(5, 3, 2, TRUE), Wire(3, 1, 2, TRUE), Wire(3, 2, 2, TRUE),
     Wire(4, 3, 2, TRUE), Wire(4, 1, 1, TRUE), Wire(5, 4, 1, FALSE),
     Wire(6, 3, 1, TRUE) >>
=============================================================================
