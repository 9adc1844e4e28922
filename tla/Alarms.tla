------------------------------- MODULE Alarms -------------------------------
(***************************************************************************)
(* _AlarmLedger (engine.py): the alarms ever raised, in order, and the     *)
(* identifiers of the active ones by key.  A key is the code of the alarm  *)
(* and the component it names, 0 for the system.                           *)
(***************************************************************************)
EXTENDS Integers, Sequences

EmptyLedger == [alarms |-> << >>, active |-> [key \in {} |-> 0]]

IsActive(ledger, key) == key \in DOMAIN ledger.active

\* A key that is active already keeps the alarm it has.
raise_alarm(ledger, time, key, cause) ==
  IF IsActive(ledger, key) THEN ledger
  ELSE [alarms |-> Append(ledger.alarms,
                     [time_ms |-> time, code |-> key[1], component_id |-> key[2],
                      causal_event_id |-> cause]),
        active |-> [k \in DOMAIN ledger.active \cup {key} |->
                      IF k = key THEN Len(ledger.alarms) + 1 ELSE ledger.active[k]]]

clear(ledger, key) ==
  [ledger EXCEPT !.active = [k \in DOMAIN @ \ {key} |-> @[k]]]

\* The alarm of a key, as a transition lists it.
Ids(ledger, key) == IF IsActive(ledger, key) THEN {ledger.active[key]} ELSE {}

LoadUnserved == <<"load_unserved", 0>>

\* _service_alarms: the system alarm follows unserved power across zero.
service_alarms(ledger, time, cause, before, after) ==
  IF before = 0 /\ after > 0 THEN raise_alarm(ledger, time, LoadUnserved, cause)
  ELSE IF before > 0 /\ after = 0 THEN clear(ledger, LoadUnserved)
  ELSE ledger
=============================================================================
