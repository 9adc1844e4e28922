------------------------------ MODULE MCEngine ------------------------------
(***************************************************************************)
(* The engine on the two sites of Sites.tla, over every accepted scenario  *)
(* of at most MaxEvents events of a pool.                                  *)
(***************************************************************************)
EXTENDS EngineProperties, Sites

LOCAL Targets(id, time, kind, c) ==
  [id |-> id, time_ms |-> time, kind |-> kind, component_id |-> c,
   open_connection_ids |-> {}, close_connection_ids |-> {}, demand_w |-> 0]
LOCAL Transfer(id, time, open, close) ==
  [Targets(id, time, "atomic_transfer", 0) EXCEPT
     !.open_connection_ids = open, !.close_connection_ids = close]
LOCAL Step(id, time, c, demand) ==
  [Targets(id, time, "load_step", c) EXCEPT !.demand_w = demand]

LOCAL ScenariosOf(pool, horizon, resolution, most) ==
  {parse_scenario(raw) : raw \in
     {r \in [horizon_ms : {horizon}, resolution_ms : {resolution},
             events : UNION {kSubset(n, pool) : n \in 0 .. most}] :
        accepts_scenario(r)}}

\* Utilities 5 and 6, UPSs 3 and 4, loads 1 and 2.
TwoPathPool ==
  { Targets(1, 0, "component_failure", 5), Targets(2, 2, "component_failure", 6),
    Targets(3, 2, "component_failure", 5), Targets(4, 6, "component_restore", 5),
    Targets(5, 4, "component_failure", 3), Targets(6, 5, "maintenance_start", 3),
    Targets(7, 6, "maintenance_end", 3),   Targets(8, 10, "component_restore", 6),
    Transfer(9, 3, {6}, {5}),          Transfer(10, 4, {}, {4}),
    Step(11, 2, 1, 0),                 Step(12, 4, 2, 3),
    Targets(13, 4, "maintenance_start", 1), Targets(14, 0, "component_failure", 6) }
TwoPathScenarios == ScenariosOf(TwoPathPool, 10, 4, 3)

\* ATS 1, generator 2, loads 3 and 4, UPS 5, utility 6.
SwitchedPool ==
  { Targets(1, 1, "component_failure", 6),  Targets(2, 3, "generator_running", 2),
    Transfer(3, 3, {1}, {2}),           Transfer(4, 4, {}, {2}),
    Targets(5, 5, "component_failure", 2),  Targets(6, 6, "component_restore", 2),
    Targets(7, 3, "generator_start_failure", 2), Targets(8, 7, "generator_running", 2),
    Transfer(9, 7, {2}, {1}),           Targets(10, 6, "component_restore", 6),
    Step(11, 2, 3, 3),                  Targets(12, 8, "component_failure", 5),
    Targets(13, 2, "maintenance_start", 1), Targets(14, 4, "maintenance_end", 1) }
SwitchedScenarios == ScenariosOf(SwitchedPool, 8, 3, 3)

\* The two-path site when batteries run empty at the horizon, together, and with an
\* external event.
CrossingPool ==
  { Targets(1, 0, "component_failure", 5), Targets(2, 0, "component_failure", 6),
    Targets(3, 2, "component_failure", 6), Targets(4, 8, "component_restore", 5),
    Step(5, 4, 1, 0),                      Transfer(6, 4, {3}, {4}) }
CrossingScenarios == ScenariosOf(CrossingPool, 8, 4, 2)
=============================================================================
