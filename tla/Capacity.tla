------------------------------ MODULE Capacity ------------------------------
(***************************************************************************)
(* solve_capacity (capacity.py): who is served, by which source and        *)
(* through which connections, in one instant.  Every load in service order *)
(* is offered the live sources; a second stage offers the batteries that   *)
(* no live source reaches.  Each offer is one deterministic Edmonds-Karp   *)
(* maximum flow over what the earlier offers left.                         *)
(***************************************************************************)
EXTENDS Snapshot, Sequences, SequencesExt

RuntimeState ==
  [component_status        : [Components -> Availability],
   connection_closed       : [Connections -> BOOLEAN],
   generator_running       : SUBSET Generators,
   demand_w                : [Loads -> Nat],
   battery_energy_mj       : [Upses -> Int],
   low_energy_alarm_raised : SUBSET Upses,
   depletion_alarm_raised  : SUBSET Upses]

\* No battery holds more than it can, or less than nothing.
Charged(s) ==
  \A u \in Upses : s.battery_energy_mj[u] \in 0 .. component[u].usable_energy_mj

initial_state ==
  [component_status        |-> [c \in Components |-> component[c].initial_status],
   connection_closed       |-> [k \in Connections |-> connection[k].initial_closed],
   generator_running       |-> {},
   demand_w                |-> [c \in Loads |-> component[c].demand_w],
   battery_energy_mj       |-> [c \in Upses |-> component[c].usable_energy_mj],
   low_energy_alarm_raised |-> {},
   depletion_alarm_raised  |-> {}]

Total(f) == MapThenSumSet(LAMBDA x : f[x], DOMAIN f)

-----------------------------------------------------------------------------
(* Sources and energised components.                                       *)

IsAvailable(s, c) == s.component_status[c] = "available"

\* What the allocator reads of the runtime state.  Of a battery it only asks whether
\* any energy is left, for which see BatterySources.
Network(s) == [component_status  |-> s.component_status,
               connection_closed |-> s.connection_closed,
               demand_w          |-> s.demand_w]

\* Mutant: an open connection carries power.
LiveConnectionsEvenOpen(s) ==
  {k \in Connections : /\ IsAvailable(s, connection[k].from_component)
                       /\ IsAvailable(s, connection[k].to_component)}

\* A connection that can carry power: closed between two available components.
LiveConnections(s) ==
  {k \in Connections : /\ s.connection_closed[k]
                       /\ IsAvailable(s, connection[k].from_component)
                       /\ IsAvailable(s, connection[k].to_component)}

NonBatterySources(s) ==
  {c \in Utilities \cup s.generator_running : IsAvailable(s, c)}

ReachableComponents(s, sources) ==
  LET next(V) == {connection[k].to_component :
                    k \in {l \in LiveConnections(s) :
                             connection[l].from_component \in V}}
      visit[V \in SUBSET Components] ==
        IF next(V) \subseteq V THEN V ELSE visit[V \cup next(V)]
  IN  visit[sources]

\* Mutant: an empty battery still counts as a source.
BatterySourcesEvenEmpty(s) ==
  {u \in Upses : IsAvailable(s, u) /\ u \notin ReachableComponents(s, NonBatterySources(s))}

BatterySources(s) ==
  {u \in Upses : /\ IsAvailable(s, u)
                 /\ s.battery_energy_mj[u] > 0
                 /\ u \notin ReachableComponents(Network(s), NonBatterySources(s))}

-----------------------------------------------------------------------------
(* The flow network of one load.  Nodes are numbered in the order of their *)
(* names in the code: "@sink", "@source", "connection:..", "in:..",        *)
(* "out:..".  An edge that the code leaves out has the capacity 0 here, as  *)
(* every reverse arc has there.                                            *)

Sink   == 0
Source == 1
ConnectionNode(k) == 1000 + k
In(c)  == 2000 + c
Out(c) == 3000 + c

ComponentEdge(c) == <<In(c), Out(c)>>
FirstEdge(k)     == <<Out(connection[k].from_component), ConnectionNode(k)>>
SecondEdge(k)    == <<ConnectionNode(k), In(connection[k].to_component)>>
SourceEdge(c)    == <<Source, In(c)>>
SinkEdge(c)      == <<Out(c), Sink>>

ComponentEdges == {ComponentEdge(c) : c \in Components}
FirstEdges     == {FirstEdge(k) : k \in Connections}
SecondEdges    == {SecondEdge(k) : k \in Connections}
SourceEdges    == {SourceEdge(c) : c \in Components}
SinkEdges      == {SinkEdge(c) : c \in Loads}

Edges == ComponentEdges \cup FirstEdges \cup SecondEdges \cup SourceEdges \cup SinkEdges

\* Mutant: no residual arc takes flow back.
ArcsForward == Edges

Arcs == Edges \cup {<<e[2], e[1]>> : e \in Edges}

\* What the loads get and the components, connections and sources deliver.
Usage == [load : [Loads -> Int], component : [Components -> Int],
          connection : [Connections -> Int], source : [Components -> Int]]

NothingUsed ==
  [load |-> [c \in Loads |-> 0], component |-> [c \in Components |-> 0],
   connection |-> [k \in Connections |-> 0], source |-> [c \in Components |-> 0]]

\* The capacities that the allocations in used leave.
build_network(s, sources, load, demand, used) ==
  LET C == {c \in Components : IsAvailable(s, c)}
      K == LiveConnections(s)
      componentLeft(c)  == component[c].capacity_w - used.component[c]
      connectionLeft(k) == connection[k].capacity_w - used.connection[k]
      sourceLeft(c)     == component[c].capacity_w - used.source[c]
      left(e) == CASE e \in ComponentEdges -> componentLeft(e[1] - In(0))
                   [] e \in FirstEdges     -> connectionLeft(e[2] - ConnectionNode(0))
                   [] e \in SecondEdges    -> connectionLeft(e[1] - ConnectionNode(0))
                   [] e \in SourceEdges    -> sourceLeft(e[2] - In(0))
                   [] e \in SinkEdges      -> demand
      network[present \in SUBSET Edges] ==
        [a \in Arcs |-> IF a \in present THEN left(a) ELSE 0]
  IN  network[{ComponentEdge(c) : c \in C} \cup {FirstEdge(k) : k \in K}
              \cup {SecondEdge(k) : k \in K} \cup {SourceEdge(c) : c \in sources \cap C}
              \cup {SinkEdge(load)}]

\* The nodes by their distance to the sink: first the layer that holds the source,
\* last the sink; empty when no path exists.
Layers(arcs) ==
  LET before(found) == {a[1] : a \in {b \in arcs : b[2] \in Head(found)}} \ UNION Range(found)
      layers[found \in Seq(SUBSET Nat)] ==
        IF Source \in Head(found) THEN found
        ELSE IF before(found) = {} THEN << >>
        ELSE layers[<<before(found)>> \o found]
  IN  layers[<<{Sink}>>]

\* _breadth_first_parents visits neighbours in name order: of the shortest
\* augmenting paths it finds the first in lexicographic order.  The arcs of it.
AugmentingPath(arcs) ==
  LET along[layers \in Seq(SUBSET Nat)] ==
        LET ahead(path) == IF Len(path) >= Len(layers) THEN {}
                           ELSE {m \in layers[Len(path) + 1] : <<Last(path), m>> \in arcs}
            walk[path \in Seq(Nat)] ==
              IF ahead(path) = {} THEN {<<path[i], path[i + 1]>> : i \in 1 .. Len(path) - 1}
              ELSE walk[Append(path, Min(ahead(path)))]
        IN  walk[<<Source>>]
  IN  along[Layers(arcs)]

\* What is left once the increment has been pushed along the path.
push(residual, step, increment) ==
  [a \in Arcs |-> IF a \in step THEN residual[a] - increment
                  ELSE IF <<a[2], a[1]>> \in step THEN residual[a] + increment
                  ELSE residual[a]]

\* What is left once no augmenting path is.
augment[residual \in [Arcs -> Int]] ==
  LET along[step \in SUBSET Arcs] ==
        IF step = {} THEN residual
        ELSE augment[push(residual, step, Min({residual[a] : a \in step}))]
  IN  along[AugmentingPath({a \in Arcs : residual[a] > 0})]

\* The flow on every edge once no augmenting path is left.
edmonds_karp(capacities) ==
  LET flow[full \in [Arcs -> Int]] ==
        LET taken[left \in [Arcs -> Int]] == [e \in Edges |-> full[e] - left[e]]
        IN  taken[augment[full]]
  IN  flow[capacities]

-----------------------------------------------------------------------------
(* The two stages.                                                         *)

\* Mutant: the loads in the order of their identifiers.
ServiceOrderById == SetToSortSeq(Loads, <)

ServedBefore(a, b) ==
  LET key(c) == <<component[c].priority, component[c].service_order, c>>
  IN  \E i \in 1 .. 3 : /\ key(a)[i] < key(b)[i]
                        /\ \A j \in 1 .. i - 1 : key(a)[j] = key(b)[j]

ServiceOrder ==
  CHOOSE q \in [1 .. Cardinality(Loads) -> Loads] :
    \A i, j \in 1 .. Cardinality(Loads) : i < j => ServedBefore(q[i], q[j])

Unmet(s, used, load) == s.demand_w[load] - used.load[load]

NeedsPower(s, used, load) == Unmet(s, used, load) > 0 /\ IsAvailable(s, load)

\* A load takes all that the sources can still bring it.
Offer(s, sources, used, load) ==
  LET commit[flow \in [Edges -> Int]] ==
        [load       |-> [used.load EXCEPT ![load] = @ + flow[SinkEdge(load)]],
         component  |-> [c \in Components |-> used.component[c] + flow[ComponentEdge(c)]],
         connection |-> [k \in Connections |-> used.connection[k] + flow[FirstEdge(k)]],
         source     |-> [c \in Components |-> used.source[c] + flow[SourceEdge(c)]]]
  IN  IF NeedsPower(s, used, load)
      THEN commit[edmonds_karp(build_network(s, sources, load,
                                             Unmet(s, used, load), used))]
      ELSE used

\* The sources of a stage offered to every load in turn.
Stage(s, sources, before) ==
  LET serve[turn \in Usage \X Seq(Loads)] ==
        IF turn[2] = << >> THEN turn[1]
        ELSE serve[<<Offer(s, sources, turn[1], Head(turn[2])), Tail(turn[2])>>]
  IN  IF sources = {} THEN before ELSE serve[<<before, ServiceOrder>>]

\* The stored stage adds the batteries, when there is one.
StoredStage(live, batteries) == IF batteries = {} THEN {} ELSE live \cup batteries

allocate(s, live, batteries) ==
  Stage(s, StoredStage(live, batteries), Stage(s, live, NothingUsed))

-----------------------------------------------------------------------------
(* The redundancy state and the summary.                                   *)

\* A source can serve everything alone once the load inputs of its path close.
source_path_can_serve_total(s, source, demand) ==
  LET closes(k) == /\ connection[k].to_component \in Loads
                   /\ component[connection[k].from_component].path = component[source].path
                   /\ IsAvailable(s, connection[k].from_component)
                   /\ IsAvailable(s, connection[k].to_component)
      candidate == [s EXCEPT !.connection_closed =
                      [k \in Connections |-> closes(k) \/ @[k]]]
  IN  Total(allocate(candidate, {source}, {}).load) = demand

RedundancyStates == <<"no_path", "partial_service", "battery_backed", "single_path",
                      "supported", "two_n", "no_demand">>

redundancy_state(s, live, batteries, demand, served) ==
  LET paths == {component[c].path : c \in
                  {d \in live : /\ component[d].path \in {"A", "B"}
                                /\ source_path_can_serve_total(s, d, demand)}}
  IN  IF demand = 0 THEN "no_demand"
      ELSE IF served = 0 THEN "no_path"
      ELSE IF served < demand THEN "partial_service"
      ELSE IF Cardinality(paths) = 2 THEN "two_n"
      ELSE IF Cardinality(paths) = 1 THEN "single_path"
      ELSE IF batteries # {} THEN "battery_backed" ELSE "supported"

\* source_ids are the keys of source_power_w in the code, where an absent key reads
\* as 0.
Summary ==
  [demand_w : Nat, served_w : Nat, unserved_w : Nat, stranded_capacity_w : Nat,
   redundancy_state : Range(RedundancyStates), load_service_w : [Loads -> Nat],
   connection_flow_w : [Connections -> Nat], component_flow_w : [Components -> Nat],
   source_power_w : [Components -> Nat], source_ids : SUBSET Components,
   battery_source_ids : SUBSET Upses]

\* The summary of an allocation.
Summarize(s, live, batteries, used, demand, served) ==
  LET spare == Total([c \in live \cup batteries |-> component[c].capacity_w]) - Total(used.source)
  IN  [demand_w            |-> demand,
       served_w            |-> served,
       unserved_w          |-> demand - served,
       stranded_capacity_w |-> IF demand = served THEN 0
                               ELSE Min({demand - served, Max({0, spare})}),
       redundancy_state    |-> redundancy_state(s, live, batteries, demand, served),
       load_service_w      |-> used.load,
       connection_flow_w   |-> used.connection,
       component_flow_w    |-> used.component,
       source_power_w      |-> used.source,
       source_ids          |-> live \cup batteries,
       battery_source_ids  |-> batteries]

solve_capacity(s) ==
  LET live      == NonBatterySources(s)
      batteries == BatterySources(s)
      n         == Network(s)
      of(used)  == Summarize(n, live, batteries, used, Total(n.demand_w), Total(used.load))
  IN  of(allocate(n, live, batteries))

\* What _assert_capacity_invariants raises an InvariantError without.
capacity_invariants(s, summary) ==
  /\ summary.demand_w = summary.served_w + summary.unserved_w
  /\ \A c \in Loads : summary.load_service_w[c] \in 0 .. s.demand_w[c]
  /\ \A k \in Connections :
       /\ summary.connection_flow_w[k] \in 0 .. connection[k].capacity_w
       /\ summary.connection_flow_w[k] # 0 => s.connection_closed[k]
  /\ \A c \in Components :
       /\ summary.component_flow_w[c] \in 0 .. component[c].capacity_w
       /\ summary.component_flow_w[c] # 0 => IsAvailable(s, c)
  /\ \A u \in summary.battery_source_ids :
       s.battery_energy_mj[u] \in 1 .. component[u].usable_energy_mj
=============================================================================
