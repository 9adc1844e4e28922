------------------------ MODULE AllocationProperties ------------------------
(***************************************************************************)
(* What the allocator promises.                                            *)
(***************************************************************************)
EXTENDS Allocation

\* The type of every variable.
TypeOK ==
  /\ s \in RuntimeState
  /\ stage \in 1 .. 4
  /\ waiting \in Seq(Loads)
  /\ used \in Usage
  /\ summary \in Summary \cup {NoSummary}

OutputsOf(c) == {k \in Connections : connection[k].from_component = c}

Inflow(c)  == Total([k \in InputsOf(c) |-> used.connection[k]])
Outflow(c) == Total([k \in OutputsOf(c) |-> used.connection[k]])

\* Between any two loads, no rating is exceeded, nothing flows through an open
\* connection or an unavailable component, a load gets no more than it demands,
\* and what enters a component leaves it or is the service of the load: the
\* overlay of the flows of all the loads is a flow.
FlowIsPhysical ==
  /\ \A c \in Components :
       /\ used.component[c] \in 0 .. component[c].capacity_w
       /\ used.source[c] \in 0 .. component[c].capacity_w
       /\ used.component[c] > 0 => IsAvailable(s, c)
       /\ used.component[c] = Inflow(c) + used.source[c]
       /\ used.component[c] = IF c \in Loads THEN used.load[c] ELSE Outflow(c)
  /\ \A k \in Connections :
       /\ used.connection[k] \in 0 .. connection[k].capacity_w
       /\ used.connection[k] > 0 => s.connection_closed[k]
  /\ \A c \in Loads : used.load[c] <= s.demand_w[c]

\* Every stage of the allocation is a flow over values of the right type.
FlowIsSound == TypeOK /\ FlowIsPhysical

Standing == {c \in Components : IsAvailable(s, c)}

\* What is left across a cut between the sources and a load.  reached are the
\* components that the cut lets in, passed the ones that it also lets out.
Across(sources, load, reached, passed) ==
  Total([c \in reached \ passed |-> component[c].capacity_w - used.component[c]])
  + Total([k \in {l \in LiveConnections(s) : /\ connection[l].from_component \in passed
                                             /\ connection[l].to_component \notin reached} |->
             connection[k].capacity_w - used.connection[k]])
  + Total([c \in (sources \cap Standing) \ reached |-> component[c].capacity_w - used.source[c]])
  + IF load \in passed THEN Unmet(s, used, load) ELSE 0

\* The least of it, over all cuts.
MinCut(sources, load) ==
  Min({Across(sources, load, cut[1], cut[2]) :
         cut \in {q \in (SUBSET Standing) \X (SUBSET Standing) : q[2] \subseteq q[1]}})

\* A load takes exactly the least cut between the sources of the stage and it: the
\* augmenting paths never stop early and never push more than fits.
TakesTheMinCut ==
  [][waiting # << >> /\ waiting' = Tail(waiting) =>
       used'.load[Head(waiting)] - used.load[Head(waiting)] =
         IF IsAvailable(s, Head(waiting)) THEN MinCut(Offered, Head(waiting)) ELSE 0]_vars

\* No battery discharges while a live source can still reach a load: in the stored
\* stage the live sources have nothing more to give, to any load.
LiveSourcesFirst ==
  /\ \A u \in Upses : used.source[u] > 0 => stage > 1 /\ u \in Batteries
  /\ stage = 2 => \A c \in Loads : NeedsPower(s, used, c) => MinCut(Live, c) = 0

\* The returned summary is what solve_capacity returns, it passes the assertions of
\* the code, and the sources deliver what the loads get.
SummaryIsSound ==
  stage = 4 =>
    /\ summary = solve_capacity(s)
    /\ summary \in Summary
    /\ capacity_invariants(s, summary)
    /\ Total(summary.source_power_w) = summary.served_w

\* By priority, then by service order.
Outranks(a, b) ==
  \/ component[a].priority < component[b].priority
  \/ /\ component[a].priority = component[b].priority
     /\ component[a].service_order < component[b].service_order

\* A higher-priority load never gives up a watt for a lower one, although a later
\* load takes live power before the earlier one is offered the batteries: with the
\* demand of the later loads gone, it gets the same.
PriorityIsKept ==
  stage = 4 => \A a \in Loads :
    LET alone == [s EXCEPT !.demand_w =
                    [c \in Loads |-> IF Outranks(a, c) THEN 0 ELSE @[c]]]
    IN  solve_capacity(alone).load_service_w[a] = summary.load_service_w[a]
=============================================================================
