# A formal model of dc-twin

dc-twin simulates the power of a data-centre site: utilities, generators, UPSs, transfer
switches and loads, a scenario of failures, transfers and load steps, and for each interval
of constant state an allocation of power to the loads. The result is content-addressed and is
kept by a run store. This directory holds TLA+ modules of that program, the TLC
configurations that check them, and proofs about them for TLAPS.

Paths below are relative to the repository (`src/dc_twin/...` is the Python package).

## 1. Inventory

| Part | State it keeps | Operations | What is hard | What makes it correct |
|---|---|---|---|---|
| Contracts (`models.py`, `validation.py`) | none | parse a snapshot, parse a scenario | rules that later code relies on without checking them again; limits estimated before a run | a parsed scenario never makes the engine fail, and stays within the estimate |
| Capacity solver (`capacity.py`) | residual network, power used so far | `solve_capacity`: each load is offered live sources, then stored energy; redundancy state | residual arcs, order of the loads, batteries beside live sources | each offer is a maximum flow, flows are physical, priorities hold, no battery is used while a live source could be |
| Engine (`engine.py`) | runtime state, last allocation, clock, next event, timeline, accumulator | `simulate`: event groups, battery milestones, segments | coincidence of milestones, events, resolution steps and horizon; the allocation is cached between transitions | events are applied once, in order and on time; batteries and totals account for the segments; no assertion fails |
| Alarm ledger (`engine.py`) | alarms and active keys | raise, clear, compare the service before and after | groups of simultaneous events | the service alarm follows the service |
| Telemetry (`telemetry.py`) | none | derive points from the timeline | its size limit is estimated by the parser | it outgrows the estimate by the batteries in use at most |
| PostgreSQL run store (`storage.py`, `tables.py`) | three tables | `save_run`, `get_run` | concurrent savers, IntegrityError, broken connections | an acknowledged run is kept with its inputs; nothing partial is |
| Memory run store (`storage.py`) | a dictionary in insertion order, behind a lock | `save_run` with eviction, `get_run` | the limit, and the moment between making room and assigning | at most `max_runs`; it gives back exactly the latest ones |
| HTTP API (`api.py`, `server.py`) | the store, the catalog | run, fetch, replay, list, readiness | requests run in threads; the process may stop, and restart as another build | a run that was answered is found; a run of this process replays and matches; nothing else is stored |
| Reference catalog (`reference.py`) | fixtures, read-only after start | load, look up | a build with unsound fixtures | no lookup fails inside a handler |
| Replay verification (`engine.py`) | none | `verify_replay` | inputs that are not those of the run | a mismatch means a change |
| Command line (`cli.py`) | files | validate, run, compare, replay; atomic write | a crash between any two system calls; a second writer between the check and the rename | the target is the old or the whole new result; success and refusal are reported truly |
| Canonical JSON (`canonical.py`) | none | `loads_strict`, `canonical_dumps`, `sha256_json` | objects inside lists, keys in another order, keys that repeat, numbers and strings in several spellings | one hash exactly for one value |
| Web explorer (`web/app.js`) | selections, result, `busy`, the attributes of its controls | load, run, replay, compare | client time-out while the server goes on; the selection is read after an `await`; five places set the same attributes | the displayed result belongs to the scenario it names; the page never stays busy |
| Explanations, scripts, docs | none | formatting, packaging | none | not a subject of the model |

`simulate` calls the solver after each transition and uses its summary for segments,
milestones, metrics and alarms. The API and the command line call `simulate`; the API passes
the result to the one run store that its request threads share. The explorer only sees the
API. The engine and the solver are sequential: their difficulty is the coincidence of
instants, the cached allocation and long sequences of legal events. Concurrency and failure
are in the stores, in the service over them, in the file that two commands share, and in the
page, which awaits answers of a service that other threads, restarts and deployments change.

`PROJECT.json` lists the hazards, each at its line with the properties that watch it.

## 2. The modules

| Module | Models | Correspondence |
|---|---|---|
| `Snapshot` | a parsed site | constants `Components`, `component`, `Connections`, `connection`; `SnapshotAssumption` is `_parse_component` and `validate_topology` |
| `ScenarioContract` | a parsed scenario | `accepts_scenario` collects the rules of `parse_scenario`, `parse_scenario` sorts the events by time, semantic priority and id |
| `Capacity` | `solve_capacity` as a function of the runtime state | split network, breadth-first augmenting paths in the code's neighbour order, two stages, redundancy state, asserted rules |
| `Allocation`, `AllocationProperties` | the same allocation, one offer to one load per step | `ServeLoad` / `PassOver` per load, `NextStage` from live to stored, `Publish` |
| `Alarms`, `Telemetry` | `_AlarmLedger` and `_service_alarms`; `build_telemetry` | operators, used by `Engine` |
| `Engine`, `EngineProperties` | `simulate` and `_Run` | see below |
| `EventSchedule` | abstract: what a run promises of time and events | refined by `Engine` |
| `PostgresRunStore`, `PostgresProperties` | `PostgresRunStore.save_run` per statement and thread | see below |
| `RunStore` | abstract: what a durable store promises | refined by `PostgresRunStore` |
| `MemoryRunStore` | `MemoryRunStore`, one step at a time under its lock | `Acquire`, `MakeRoom`, `Store` or `Read`, `Release` per thread |
| `RecentRuns` | abstract: a store of the latest runs | refined by `MemoryRunStore` |
| `ReferenceCatalog` | `ReferenceCatalog.load`, `snapshot_for` | operators over the files of a build |
| `RunService`, `ServiceProperties` | the handlers of `api.py` over one store | composes `ReferenceCatalog` with `RecentRuns` or a durable store |
| `Explorer`, `ExplorerProperties` | `web/app.js` | composed with `RunService` |
| `CommandLine` | `run` and `replay` on one result file, per system call | see below |
| `CanonicalJson` | `loads_strict`, `canonical_dumps` | recursive operators over trees |
| `Sites` | three small sites | shaped on `examples/` |
| `MCEngine`, `MCAllocation`, `MCPostgres`, `MCMemory`, `MCService`, `MCExplorer`, `MCCommandLine`, `MCCanonical` | constants for TLC | |
| `CapacityProofs` | theorem about `solve_capacity`; lemmas on sums and loops | section 5 |
| `AllocationProofs` | theorems about the flow, one offer at a time | section 5 |
| `EngineProofs`, `RunProofs` | theorems about a run of the engine | section 5 |
| `StoreProofs`, `MemoryProofs`, `ServiceProofs`, `CommandLineProofs` | theorems about the stores, the service with its page, the file | section 5 |

The modules compose in three groups: `Engine` over `Capacity`, `Alarms`, `Telemetry` and
`ScenarioContract`; `Explorer` over `RunService` over `ReferenceCatalog` and the abstract
stores, which the two concrete stores refine; and `CommandLine` by itself. Between the groups
a run of the engine is one value: the engine version and the two files it was computed from.

**Engine.** One variable per field of `_Run` (`state`, `summary`, `ledger`, `transitions`,
`causes`, `timeline`, `accumulator`, `current_time`, `event_index`), and `pc` for the place
in `simulate`: `due` (are events due?), `group` (inside `_process_external_group`), `loop`
(loop head), `milestone` (a battery milestone is due), `stopped`. The actions:

- `BeginGroup`, `NothingDue`: lines 304-307, with the service baseline of the group;
- `ProcessExternal`, `RejectParallelSources`: `process_external`, with the state change, the
  topology check, the new allocation with its assertions, the alarms and the transition;
- `RejectInexactMilestone`: `_exact_duration` raises;
- `RunSegment`: the loop head when the boundary lies ahead - boundary, drained batteries,
  accumulator, segment;
- `NoTimePasses`: the loop head when the boundary is now;
- `ProcessInternal`: the milestone, with the `continue` that leads back to the loop head;
- `Finish`: the checks after the loop and the result.

An error is an `outcome` with the code's own error name. Identifiers of components are
numbers, ordered as the code orders the strings; watts, millijoules and milliseconds are
exact, but small.

**PostgreSQL store.** Each thread has a `pc` (`select`, `insert`, `commit`, `lookup`), the
table it is at, the rows of its open transaction, and the answer of its last call. Of the
database the model has what the adapter relies on under READ COMMITTED: a statement sees
committed rows and its own, an insert waits while another transaction holds the key and fails
once the key is committed, foreign keys need their row, and a failed transaction leaves
nothing. A connection may break at any statement, and during the commit, after the database
has committed (`CommitUnacknowledged`). A row is its table and its hash: rows are
content-addressed and the code never updates one. That a run identifier names one computation
(16 hex digits of the hash) is taken as given.

**Memory store.** `save_run` and `get_run` are each a `with` block. The model cuts the block
between making room and assigning, since that is where the dictionary is one run short: the
lock must hide it. `RecentRuns` says what remains visible: each run has an age, the number of
runs stored after it, and is retained until `MaxRuns` others were. The refinement maps the
position of a key to its age and counts a save as done once it has made room.

**Service.** A handler is a thread with a `pc`: `handle` (nothing read yet), `save` (a result
computed, not stored), `verify` (a run read for a replay, not compared). Between these points
other handlers run, the store answers or fails, the process stops (`Stop`, which drops the
requests and, with the memory store, its runs) and starts as another build (`Start`). Which
store it has is chosen at the start. The store is not modelled a third time: `RunService` uses
the operators of `RecentRuns`, or, when `Durable`, a store that keeps every run, as `RunStore`
promises. A statement to PostgreSQL may fail before or after it took effect. The history that
the properties compare with - `computed`, `ever`, `acknowledged` - is added by
`ServiceProperties` beside the steps.

**Explorer.** `disabled` holds the attributes that `setBusy` and the `change` listeners set,
and a click needs an enabled control, as in a browser; the guards inside `runScenario` and
`runComparison` are separate conjuncts. A request is a record in `operations`; `Deliver` gives
it to a thread of `RunService`, `Take` consumes its response, and `Fail` - an error, a lost
response, the time-out - may come at any moment, while the thread goes on. The functions assign
between awaits in one step, because the page is single-threaded. `state.comparison` is written
and never read, so it is not a variable.

**Command line.** `_atomic_write_json` is cut at its system calls: the check for an existing
output, the temporary file, the write, `fsync`, the rename, the removal after an error, the
line on stdout. A reader is cut between `stat`, `read` and the verdict: what it has read is in
`seen` while it simulates and writes its own line. Each of these steps may fail. `main` turns
a `DCTwinError` and an `OSError` into 1 to 4; every other exception (a path that stdout cannot
encode, a closed stream) ends Python with 1, and a stream that cannot be flushed at the end
with 120, so 1, 4 and 120 tell nothing about the file. A kill skips the `except` clause,
which catches `Exception` only. The directory is not synced by the code, so after a loss of
power the name may still list an older file (`listed`); which of them is not promised.

**Canonical JSON.** A text is a tree whose objects are sequences of members and whose leaves
are spelled as the author spelled them. `Rejects` is what `loads_strict` raises on, `load` the
value that `json.loads` makes of a text, `canonical_dumps` the tokens of a value, which are
hashed. Loading and dumping again is what makes `1e0` and `1.0` one number, `-0` the integer 0
and an escape its character, while `1` and `1.0` stay two. Which value a spelling has
(`loaded`) and how a value is written (`dumped`) are constants: that what is written is read
back (`DumpedIsLoaded`) is Python's. `Meaning`, the reference definition, says of a text what it
says of each key.

## 3. What TLC checks

| Run | Instance | Shows |
|---|---|---|
| `two_path` | two utilities, two UPSs, two loads; every accepted scenario of at most 3 events of a pool of 14, horizon 10 ms, resolution 4 ms | every variable has its type; no assertion fails; the alarms are true: the service alarm follows the service, the others their own events, no UPS falls low unwarned (`AlarmsAreTrue`); batteries account for the segments, no segment uses a stale allocation, an event is left over only in the one way below, the metrics agree |
| `switched` | transfer switch, generator, UPS, two loads; at most 3 events of 14, horizon 8 ms, resolution 3 ms | the run stops and refines `EventSchedule`; segments tile the horizon within the estimate and name their cause (`TimelineIsTrue`, `WithinEstimate`); a failed generator never comes back running; connections are where the schedule puts them, and a run is refused at exactly the first transfer that would put two inputs of a switch in parallel (`SwitchingFollowsSchedule`) |
| `allocation` | two utilities and a UPS that share a PDU; every switch position, demands, failures and an empty battery | every offer equals a minimum cut computed from the definition; flows are physical; live before stored; priorities hold; the function and the step-wise allocation agree |
| `postgres` | 3 threads, 2 runs that share both parents | an acknowledged save is durable; all rows of a run or none; a conflict means a committed row and is settled by retrying; refines `RunStore`; no save waits for ever |
| `memory` | 2 threads, 4 runs, a limit of 2 | one thread at a time holds the lock, the limit holds (`StoreIsBounded`), and the store refines `RecentRuns` |
| `service` | 2 clients, a memory store of 1 run or PostgreSQL, three builds, one of them with a new engine that rejects a fixture and one that does not load | a run that was answered is missing only after an eviction or the loss of a memory store; no handler meets a missing fixture; a run of this process replays and matches; nothing is stored but what a run request computed |
| `explorer` | a page over PostgreSQL, 2 threads, 2 scenarios, a deployment that revises one and drops the other | one call at a time; a result is shown under its own scenario; the controls agree with what a click would do; a mismatch means a change; a request that was given up runs on beside its retry and what is shown is stored; the page always becomes usable again |
| `command_line` | a forced and two unforced writers with a result each, one of them too long to replay, and a replay | the file is whole after any kill or loss of power; 0 means that the result is in place, 2 and 3 that it is not, and temporary files are left only by a kill or a failed removal (`OutcomeIsTrue`); a replay never finds the file gone or broken once it has found it, and its verdict is about a result that was put in place (`VerdictIsTrue`); a run without `--force` never replaces what was there when it started |
| `canonical` | pairs of texts of up to three levels over two keys, in several spellings | two accepted texts have one hash exactly when they say the same, of each key one thing (`HashIsTheValue`) |

Each property also has a mutant in `PROJECT.json`: a plausible bug in one definition under
which TLC finds that property violated on that very instance.

**Why these bounds.** The pools put the events on the instants at which the batteries of the
site reach their thresholds, run empty, and meet the resolution grid and the horizon. Three
events are what the known interactions need: lose a source, change its replacement, restore.
The shared site is the smallest in which a shortest augmenting path has to be taken back. Its
seven connections are all varied but the one before its second load. Three savers allow a
queue for one key behind a transaction that may still abort; their two runs, of one scenario
under two engines, meet on the snapshot and on the scenario, and `save_conflict` has the pair
that meets on the snapshot only. Two threads and four runs fill a memory store of two and push
both out again while the other thread reads. Two clients of the service are enough for one to
evict or replace what the other holds between its steps, and one place in the store makes each
save an eviction; three builds give a change of engine, of fixture, and a failure to start.
The page needs two threads because the first goes on after a time-out, and two scenarios for
one selection to meet the answer of another. One forced and two unforced writers give each
order of check and rename, with a third in between; the result of each differs, so a verdict
that comes from the wrong file shows. The limits `MAX_TIMELINE_SEGMENTS`,
`MAX_TRANSITIONS` and `MAX_TELEMETRY_POINTS` have the code's values. The names of threads are
a symmetry of the service, which has no liveness property.

**Fairness.** `simulate` runs alone and never blocks, so `Terminates` assumes weak fairness of
the whole next-state relation. A saver is a thread, and a thread that is not waiting for a
lock runs: `FairSpec` of the store is weak fairness of each thread's own steps. A save that
is called or a connection that breaks is never assumed. `EverySaveReturns` holds from the
point on at which connections stop breaking, which is its premise: savers that keep taking
the key and losing it could delay another one for ever. Of the
memory store no liveness is claimed: Python's lock is not fair, so threads that call for ever
may keep it from another one. The page assumes that each `requestJson`
ends (`WF(Ends)`): an `AbortController` fires after `REQUEST_TIMEOUT_MS` whatever the service
does. Nothing is assumed of the service, which may never answer.

`Terminates` is checked for the accepted scenarios, under the code's limits. Deadlock is
checked in every run but those of `CommandLine` and `CanonicalJson`, whose processes end: a
stopped engine and a published allocation stutter explicitly.

## 4. Where the code departs from its texts

Three runs expect a violation. Each states what the repository says and finds a behaviour of
the code that contradicts it.

- `depletion` (`engine.py:534`): two UPSs run empty in the same millisecond, or one does as
  an event takes it off. The allocation solved after the first transition drops every UPS
  without energy, and milestones are sought among its sources only, so the second depletion is
  never reported. `docs/user-guide/12-reading-alarms.md:15` has the alarm raised whenever a
  discharging UPS reaches zero.
- `horizon_event` (`engine.py:303`): a milestone at the horizon makes the loop end before the
  external events at the horizon are due, and `engine.unconsumed_events` is raised for an
  accepted scenario. `UnconsumedOnlyAtHorizon` shows that this is the only way to reach it.
- `save_conflict` (`storage.py:129`): two first runs of different scenarios of one snapshot
  collide on the snapshot row; the loser's IntegrityError leaves the handler.
  `ConflictIsSettled` shows what still holds: the conflicting row is committed, so a retry
  gets past it.

Six more departures are in the models as the code has them, and the passing runs state what
holds instead:

- `validation.py:454`: the estimate has no telemetry points for the power of UPSs that act as
  sources, so an accepted scenario may outgrow the limit; `WithinEstimate` says by how much.
- `capacity.py:374`: the state `battery_backed` is reported while no battery delivers power.
- `api.py:228`: the fixture of a replay is looked up by `scenario_id` alone, so a run whose
  fixture was revised is answered with a mismatch, where `docs/API.md:143` has 409;
  `OwnRunsMatch` says when it is not.
- `storage.py:146`: `SELECT 1` needs no table, so a service without its migrations is ready,
  where `docs/OPERATIONS.md:83` says that it should not be.
- `cli.py:154`: the rename replaces a file that was created after the check, without `--force`
  too; `EarlierResultSurvives` says which results are safe.
- `cli.py:93`: a replay reads at most 20,000,000 bytes of a result, and a run may write more;
  such a file is refused with 2 (`Stat`, `ReadFails`) although it is whole.

## 5. What is proved

### The allocator

For every site that satisfies `SnapshotAssumption` and every runtime state with batteries
between empty and full, `SolutionIsSound` (`CapacityProofs`): `solve_capacity` returns a summary
of its type that passes every rule of `_assert_capacity_invariants`.

The allocator is made of loops, which `Capacity` writes as functions that call themselves, and
nothing in the prover does induction over them. `LoopExists` shows that the equation of a loop
has a solution at all, whether it ends or not, and `LoopEnds` that a loop ends where a natural
number falls with every turn: of the values from which it did not, take one with the least
number. Every loop has such a number: the search the nodes it has not layered, the path its
distance from the sink, `augment` what the source edges still hold, a stage the loads that wait.
`LoopEnds` also gives, for any set of states that a turn does not leave, that the result is in
that set. So `PushFacts` and `ResidualKept` (an arc and its reverse add up to the capacity and
neither falls below 0) become `FlowWithinCapacity`, that with `NetworkBuilt` becomes
`OfferIsSound`, and that `AllocationIsSound`. `PathFound` shows besides that an augmentation
stops only at a cut. Sums are over sets without an order; `SumsExist` and `SumsAnyOrder` give
them their usual laws.

Of the same allocation, one offer at a time, for the same sites and states
(`AllocationProofs`): `FlowIsSoundHolds`, `TakesTheMinCutHolds`, `LiveSourcesFirstHolds`,
`SummaryIsSoundHolds`, `PriorityIsKeptHolds`.

- An augmenting path passes every node once, so what it adds enters a node as often as it
  leaves it; the net flow over the arcs is therefore balanced at each node, and what the
  components, connections and sources are charged with for one offer (`OfferIsFlow`) is a flow
  that fits into what was left and fills a cut.
- `OnTheWay` is the invariant of `Allocation`: the usage so far is sound and balanced, and
  doing the rest gives what `solve_capacity` returns. It is what the function and the stepwise
  form have in common, and it makes `FlowIsSound` and `SummaryIsSound`.
- No flow exceeds a cut (`FlowWithinCut`, over the balances of the nodes behind it) and the
  offer fills one, so that cut is the least (`LeastCut`) and the load takes exactly as much:
  `TakesTheMinCut`, which is the max-flow min-cut theorem for this allocator, its split
  network and its search order.
- `InTurn` says that each load which has had its turn, or all in the stored stage, either needs
  nothing more or is behind a cut that the live sources have exhausted. Offers to other loads
  take nothing back (`FlowGrows`), so an exhausted cut stays so; hence `LiveSourcesFirst`.
- `PriorityIsKept` compares two whole allocations: of the state as it is, and without the
  demand of the loads that load `a` outranks. They are the same until the live stage has served
  `a`, and from then on differ. `Together` says how they may: each load served so far is behind
  a cut that the live sources have exhausted, the same in both, and what differs is on the side
  of the sources. Live power for a later load stays on that side (`LiveOfferStays`). In the
  stored stage the batteries add power to the network of a load, but no arc with capacity left
  leads out of that side, so an augmenting path that enters it never gets to the load
  (`PathPassesBy`); the search, which looks for paths from the load back to the sources, finds
  the same ones in both networks (`SameFlow`), although the two differ there.

### The engine

For every site that satisfies `SnapshotAssumption` and every set of accepted scenarios:

- `RunningIsAvailableHolds`, `SwitchingFollowsScheduleHolds`, `EventsAppliedOnTime`
  (`EngineProofs`) and `UnconsumedOnlyAtHorizonHolds` (`RunProofs`). The inductive invariant
  `EventInv` says that the state has its shape, that running generators are available, that
  switches are valid and that the events from `event_index + 1` to the end of the group in
  progress are all due now. The last part is what makes the clock of `ProcessExternal` the time
  of its event. `SwitchingFollowsSchedule` is inductive with it: the last transfer that names a
  connection among `n + 1` events is the new one or the last among `n` (`ClosedAfterNext`), and
  so the refused event is the first with parallel inputs. `HorizonInv` adds that no event
  behind the group in progress is due at its time, and that a loop which ends with events left
  has just taken a milestone at the horizon.
- `TypeCorrect`, `NoInternalFaultHolds`, `ScheduleImplemented` (`EngineProofs`), with
  `SolutionIsSound` for the allocations. `SafetyInv` adds
  that the clock is at or before the next event and the horizon, that batteries are within
  their bounds, that the summary balances, that the accumulator does, and that a pending
  depletion milestone has an empty battery. This last conjunct is where the arithmetic is
  (`BoundaryFacts`): the boundary is the least of all milestones, so no battery is drained
  below its own, and the one whose milestone it is gets exactly there. `TypeCorrect` covers the
  records of the run as well, from an invariant of their own, `RecordsTyped`: an active alarm
  has the number of an alarm, a transition lists numbers that exist, and each names components
  of the site and events of the scenario.
- `SummaryIsCurrentHolds`, `AlarmsAreTrueHolds`, `TimelineIsTrueHolds`,
  `BatteryAccountingHolds`, `MetricsAgreeHolds`, `WithinEstimateHolds` (`RunProofs`), from
  `SafetyInv`. Each has its own invariant:
  - `CurrentInv`: the summary is the solver's answer for the state now. A drained battery
    changes the state without a new allocation, so `AllocationReads` shows that the solver
    reads of a battery only whether it is empty, and none runs empty inside a segment without
    a milestone.
  - `AlarmInv` and `WarnedInv`: the raised alarms are those whose condition holds, keys do not
    repeat, and a UPS below its reserve threshold has been reported. During a group the
    service alarm still follows the baseline of the group, and a pending milestone excuses the
    UPS it is about.
  - `TileInv` and `CauseInv`: the segments follow each other from 0 to the clock, no applied
    event is later than the clock, and the accumulator holds the sums over the segments. The
    causes in force are those of the last transition, no transition is later than the clock,
    and so a transition that comes now is not the cause of any segment already there.
  - `DrawInv`, for `BatteryAccountingHolds`: what each battery is short of is the sum over the
    segments. A segment reports the power of every source, and drains those that the summary
    lists as batteries; that no other UPS delivers anything (`OnlyBatteriesDischarge`) comes
    from the allocation.
  - `MetricsInv`: the duration, the count, the energy and the redundancy states of the
    accumulator agree on whether load was ever dropped. The count of interruptions, with the
    one that no segment has shown yet, is at most the number of service alarms.
  - `BudgetInv` and `TelemetryInv`, for `WithinEstimateHolds`: every segment ends at a multiple
    of the resolution, at the horizon, with an event come due or with a milestone pending, and
    is counted against that. A milestone is paid for by the mark its alarm leaves on the UPS,
    which is why a pending one must be unreported: a warning is only sought while there was
    none, and a UPS whose depletion was reported is empty and supplies nothing any more. The
    telemetry is the fold of the segments' points (`TelemetryOfAppended`), which exceed the
    estimate only by the UPSs among the sources.

### The PostgreSQL store

For any finite or infinite sets of threads, runs, snapshots and scenarios in which a scenario
determines its snapshot (`StoreProofs`), with no further hypothesis:

- `StoreTypeCorrect`, `SavedIsKeptHolds`, `RowsBelongToRunsHolds`, `ConflictIsSettledHolds`,
  `ConflictLosesNothingHolds`, and `RunStoreImplemented`, the refinement of `RunStore`.
  `StoreInv` says that a transaction sees the rows of the tables it has passed, that what it
  inserted is its own and of those tables, that no two transactions hold one key and none
  holds a committed one. From it follows `InsertConflict`: a foreign key never fails, and a
  transaction that meets a duplicate has inserted nothing (who inserted the snapshot is alone
  with everything below it), so the rollback discards nothing.

### The memory store

For any threads, runs and positive limit (`MemoryProofs`): `StoreIsBoundedHolds`, and
`RecentRunsImplemented`, the refinement of `RecentRuns`. `MemoryInv` says that only the holder
of the lock is inside a block (which `StoreIsBounded` states, too), that the dictionary repeats
no key, and that between making room and assigning it is one short of the limit and without the
key to come. The refinement needs all three: the age of a key is its distance from the end of
the dictionary, so evicting the oldest, moving a known key to the end and appending a new one
each have to come out as the ages that `RecentRuns` gives.

### The service and the page

For any clients, scenarios, builds and limit (`ServiceProofs`):

- of the service, `StoreIsHistoryHolds`, `AnswersAreExplainedHold`, `OwnRunsMatchHolds`.
  `HandlerInv` says that only a process which has loaded its fixtures serves, and what each
  `pc` of a handler implies for the run it holds. `HistoryInv` relates the store to the
  history: what is stored or is being saved was once computed, what this process computed is
  what its build computes, the runs of a memory store have the ages 0, 1, 2, ..., and an
  acknowledged run is missing only from a memory store that has reached its limit. The ages
  matter to the last part: a save evicts only the run that `MaxRuns` others followed.
- of the page, `OneStateHolds`, `ResultIsOfItsScenarioHolds`, `ControlsAreCurrentHold`,
  `ShownRunsAreKeptHold`, `MismatchMeansChangeHolds`. `PageInv` says what each control's
  attribute is at any time, wherever it was last set; that at most one call is in progress;
  that the thread it waits for works on its request or has the answer to it; and that
  PostgreSQL has what the page shows, holds or is being sent. A call reads the selection after
  an `await`; that the selection is still the one it named follows from the disabled controls,
  so the calls and the controls have to be proved together.

`ExplorerAssumption` says that the marks for no worker and no name are not themselves names;
identifiers are non-empty (`validation.py:35`), so nothing is lost.

### The file

For any commands and results (`CommandLineProofs`): `TargetIsWholeHolds`, `OutcomeIsTrueHolds`,
`VerdictIsTrueHolds`, `EarlierResultSurvivesHolds`. `FileInv` says that the target and
every version of it that a loss of power may restore is whole, that a temporary file is as far
as its writer is, that what a command has seen of the target is not taken away while it runs,
that every result under the name, listed on disk or seen by a reader is that of a writer which
has put it in place, and that each `pc` and exit code has had the effects it claims.

### Only model-checked

- Liveness: `Terminates`, `EverySaveReturns`, `PageRecovers`.
- `HashIsTheValue`: induction over texts is out of the prover's reach, so `CanonicalJson` is
  written with recursive operators.

## 6. Not modelled

Left out for good: what only formats (labels, messages, `_build_explanations`, problem
documents, headers, CSV, HTML, the timeline slider, downloads), character decoding (a lone
surrogate, which `json.loads` accepts and no hash can encode) and sizes in bytes but for the
one limit above, and packaging, schemas and scripts. They change no state
and decide nothing that the properties tell apart. Taken as given: SHA-256 and the run
identifier made of its first 16 digits are injective; that Python reads back the
numbers and strings it writes; the database and the file system do
what the adapters rely on, as the modules say. `validate` and `compare` read as `replay` does
and write nothing. That a rename survives a loss of power is not promised by any text, so it
is not asked of the code.
