---------------------------- MODULE MCAllocation ----------------------------
(***************************************************************************)
(* The allocator on the shared site of Sites.tla: every position of the    *)
(* connections, with a utility, a load, the UPS and the demands varied.    *)
(***************************************************************************)
EXTENDS AllocationProperties, Sites

\* Loads 1 and 2, PDU 3, UPS 4, utilities 5 and 6.
SharedStates ==
  {[component_status        |-> [c \in Components |->
                                   IF c \in down THEN "failed" ELSE "available"],
    connection_closed       |-> closed,
    generator_running       |-> {},
    demand_w                |-> (1 :> d1) @@ (2 :> d2),
    battery_energy_mj       |-> (4 :> energy),
    low_energy_alarm_raised |-> {},
    depletion_alarm_raised  |-> {}] :
     down \in {{}, {5}, {2}}, closed \in {f \in [Connections -> BOOLEAN] : f[3]},
     d1 \in {0, 3}, d2 \in {1, 3}, energy \in {0, 8}}
=============================================================================
