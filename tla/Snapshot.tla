------------------------------ MODULE Snapshot ------------------------------
(***************************************************************************)
(* The immutable electrical design snapshot that the engine runs on        *)
(* (models.py), and what parse_snapshot accepts of it (validation.py).     *)
(*                                                                         *)
(* Identifiers are naturals.  Their order is the order of the identifier   *)
(* strings in the code, which decides every deterministic tie.  A field    *)
(* that is None for a kind of component is 0 here: every reader of such a  *)
(* field writes "or 0".                                                    *)
(***************************************************************************)
EXTENDS Integers, FiniteSets

CONSTANTS
  Components,   \* identifiers of the components
  Connections,  \* identifiers of the connections
  component,    \* component[c]  : the Component record of c
  connection    \* connection[k] : the Connection record of k

MAX_COMPONENTS  == 250
MAX_CONNECTIONS == 500

MAX_SERVICE_ORDER == 10000

ComponentKind == {"utility", "generator", "switchgear", "transformer", "ups",
                  "ats", "sts", "pdu", "load"}
Availability  == {"available", "failed", "maintenance"}
PathName      == {"A", "B", "shared"}

Component ==
  [kind : ComponentKind, path : PathName, capacity_w : Nat \ {0},
   initial_status : Availability, demand_w : Nat, priority : Nat,
   service_order : Nat, usable_energy_mj : Nat,
   low_energy_threshold_pct : Nat, start_delay_ms : Nat]

Connection ==
  [from_component : Components, to_component : Components,
   capacity_w : Nat \ {0}, initial_closed : BOOLEAN]

OfKind(kinds) == {c \in Components : component[c].kind \in kinds}

Loads      == OfKind({"load"})
Upses      == OfKind({"ups"})
Generators == OfKind({"generator"})
Utilities  == OfKind({"utility"})
Switches   == OfKind({"ats", "sts"})

InputsOf(c) == {k \in Connections : connection[k].to_component = c}

\* The fields that the kind of a component requires, each within its range.
RequiredFields(c) ==
  /\ (c \in Loads => /\ component[c].priority \in 1 .. 100
                      /\ component[c].service_order \in 1 .. MAX_SERVICE_ORDER)
  /\ (c \in Upses => /\ component[c].usable_energy_mj > 0
                      /\ component[c].low_energy_threshold_pct \in 1 .. 99)

ParsedComponent(c) == component[c] \in Component /\ RequiredFields(c)

\* A directed cycle exists iff some non-empty set of components has, for each
\* member, a connection that stays inside the set.
Acyclic ==
  \A S \in SUBSET Components :
    S = {} \/ \E c \in S : \A k \in Connections :
                ~ (/\ connection[k].from_component = c
                   /\ connection[k].to_component \in S)

ValidTopology ==
  /\ \A k \in Connections :
       connection[k].from_component # connection[k].to_component
  /\ \A c \in Switches :
       Cardinality({k \in InputsOf(c) : connection[k].initial_closed}) <= 1
  /\ \A c \in Loads, k \in Connections : connection[k].from_component # c
  /\ Acyclic

\* What parse_snapshot accepts.
ASSUME SnapshotAssumption ==
  /\ Components \subseteq 1 .. MAX_COMPONENTS
  /\ Connections \subseteq 1 .. MAX_CONNECTIONS
  /\ DOMAIN component = Components
  /\ DOMAIN connection = Connections
  /\ \A c \in Components : ParsedComponent(c)
  /\ \A k \in Connections : connection[k] \in Connection
  /\ ValidTopology
=============================================================================
