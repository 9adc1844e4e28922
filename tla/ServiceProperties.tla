------------------------- MODULE ServiceProperties -------------------------
(***************************************************************************)
(* What the API promises the clients that share it.                        *)
(***************************************************************************)
EXTENDS RunService, FiniteSets

\* History: what the properties compare the state with.
VARIABLES
  computed,     \* the runs that this process has computed for a run request
  ever,         \* the runs that any process has
  acknowledged  \* the runs that a client was answered with, since the store was last lost

historyVars == <<computed, ever, acknowledged>>

serviceVars == <<vars, historyVars>>

\* The runs that a step computes for a run request, and those that it answers.
NowComputed == {run'[w] : w \in {v \in Workers : pc[v] = "handle" /\ pc'[v] = "save"}}
NowAnswered ==
  LET answered == {w \in Workers : pc[w] # "idle" /\ reply'[w] = "ok"}
  IN  {run[w] : w \in {v \in answered : Op(v) = "run"}}
        \cup {Arg(w) : w \in {v \in answered : Op(v) = "get"}}

Remember ==
  /\ computed' = IF process' = "stopped" THEN {} ELSE computed \cup NowComputed
  /\ ever' = ever \cup NowComputed
  /\ acknowledged' = IF process' = "stopped" /\ ~ Durable THEN {}
                      ELSE acknowledged \cup NowAnswered

ServiceInit == Init /\ computed = {} /\ ever = {} /\ acknowledged = {}

ServiceNext ==
  \/ Operate /\ Remember
  \/ \E w \in Workers : \/ Handle(w) /\ Remember
                       \/ \E r \in Requests : Ask(w, r) /\ Remember

ServiceSpec == ServiceInit /\ [][ServiceNext]_serviceVars

\* The type of every variable.
TypeOK ==
  /\ process \in {"serving", "stopped"}
  /\ build \in Builds
  /\ store \in Stores
  /\ schema \in BOOLEAN
  /\ age \in [Results -> 0 .. MaxRuns]
  /\ pc \in [Workers -> {"idle", "handle", "save", "verify"}]
  /\ request \in [Workers -> Requests \cup {NoRequest}]
  /\ run \in [Workers -> Results \cup {NoRun}]
  /\ reply \in [Workers -> {"none", "ok", "not_found", "unknown_scenario", "unavailable",
                            "matches", "mismatch", "rejected", "store_error",
                            "internal_error", "ready", "not_ready", "dropped"}]
  /\ computed \cup acknowledged \subseteq ever
  /\ ever \subseteq Results

StoreIsFull == Cardinality({r \in Results : Retained(r)}) = MaxRuns

\* A client that was answered with a run gets 404 for it only from a memory store at its
\* limit, or after that store was lost; from PostgreSQL never, whatever failed or was
\* restarted since.  And a build that started can answer for every fixture it lists: no
\* lookup fails inside a handler.
AnswersAreExplained ==
  [][\A w \in Workers :
       /\ pc[w] = "handle" /\ reply'[w] = "not_found" /\ Arg(w) \in acknowledged
            => ~ Durable /\ StoreIsFull
       /\ reply'[w] # "internal_error"]_serviceVars

\* A run of this very process replays and matches, even when it is evicted between the
\* read and the comparison.
OwnRunsMatch ==
  [][\A w \in Workers :
       pc[w] = "verify" /\ pc'[w] = "idle" /\ run[w] \in computed
         => reply'[w] \in {"matches", "dropped"}]_serviceVars

\* Whatever is retained was computed for a run request: no replay inserts a replacement
\* (docs/API.md), even after the engine or the fixture has changed.
RetainedWasRun == \A r \in Results : Retained(r) => r \in ever

\* The history above grows with the service, and the store holds a part of it.
StoreIsHistory == TypeOK /\ RetainedWasRun
=============================================================================
