# Concord: a TLA+ development of the run API, its streams and its diagnosis

Concord takes the trace of a run of a multi-agent workflow, checks it against
contracts, blames an agent, proposes patches, tests them in a sandbox and shows
the result on a dashboard that follows the run live.  This directory holds TLA+
modules of the parts of the repository whose correctness depends on the order of
events, the TLC configurations that check them on small instances, and TLAPS
proofs of theorems that hold for every instance.

    tlc -config <run>.cfg <MC module>     # one of the runs listed below
    tlapm <module>Proofs.tla              # the proofs

Contents: 1 inventory · 2 assumptions about the deployment · 3 modules and code ·
4 runs, bounds and what they show · 5 fairness · 6 proofs · 7 only model-checked ·
8 not modelled · 9 plan.

## 1. Inventory

| component | state it keeps | operations | interacts with | what makes it correct |
|---|---|---|---|---|
| **Run lifecycle** `api/background.py`, `api/store.py`, `api/index.py` | a row per run (status, history, error, report) in the database; one thread per run | `create_run`, `set_run_status`, `process_run`, `recover_interrupted_runs` | publishes to the event bus after each commit; calls the diagnosis | statuses in order, each history ends with the status, terminal rows final, no run forgotten over a restart, none failed under a live task |
| **Run event streams** `api/events.py`, `api/routes/runs.py`, `public/app.jsx` | subscriptions and stream tokens in memory; the generator of each connection; the client's last event | `publish`, `subscribe`, `run_events`, `openLiveRun`, reconnect | reads rows of the lifecycle, pushed to by its commits | no status missed between replay and live events, none heard twice, the watcher hears the end |
| **Reports, approvals, recurrences** `api/store.py`, `post_approval` | report and cost in the run row; violation rows | `put_run`, `_upsert_run_record`, `get_run`, `_build_recurrence_rows` | written by the lifecycle and by operators' requests in threads | child rows match the report; approvals change the decision only; recurrences count runs truly |
| **Daytona executor pool** `zone_b/sandbox/daytona_pool.py` | a bounded LIFO queue, a set of executors, a closed flag, a lock | `acquire`, `run_python`, `release`, `_replace_executor`, `close` | called by the regression tests of concurrent runs | one user per executor, clean sandboxes, no slot or sandbox lost, calls return |
| **Repair and regression loop** `zone_b/orchestrator.py`, `zone_b/agents/regression_test.py` | attempts, costs, provenance | repair, generate, execute, fall back, judge, aggregate | pool or subprocess, LLM | stops at the cap, charges what was used, a sandbox failure is never a verdict |
| **Contracts and trace collector** `zone_b/contracts`, `zone_b/agents/{trace_collector,contract_checker}.py` | none (pure) | snapshot folding, five checks, violations | all drivers of the diagnosis | checks mean what their rules say |
| **Trace sources** `zone_a/swarm.py` | none (pure), AG2 outside | stub with failure modes, conversion of a chat | feed the diagnosis | a gated run is a clean run |
| **Diagnosis pipeline** `zone_b/agents/*`, `zone_b/group_chat.py`, `api/background.py`, `api/adapter.py` | events, violations, attribution, patches, test rows, report | seven stages under three drivers; cards, routes, flags of the dashboard | everything above | the report speaks of each violation once and in one voice, and shows it |
| **SDK session** `sdk/concord_sdk` | exporter's events and spans (no lock), the call in progress | `export`, `complete`, `reset`, `to_run_trace_dict`, `to_spans_payload` | agents' threads; `POST /api/runs` | no event lost between calls, none submitted twice, trace in order, spans a tree |
| **Store set-up and seeding** `api/db.py`, `_ensure_store` and `_seed_fixture` of `api/store.py` | tables, columns and fixture rows of the database | create tables, add columns, seed or repair the fixture and its earlier runs | done by every process before it recovers or serves | a server finds a complete store, whatever stopped before |
| **Workflows and contract DSL** `zone_b/contracts/parser.py`, `api/routes/workflows.py`, `create_workflow` | a row per workflow | parse and check the contracts of a body, store it | the graph, the runs submitted for it | the documents accepted are the well-formed ones |
| **Graph projection** `graph/` and the `_safe_persist` functions of `api/store.py` | nodes and edges in FalkorDB | project a topology, project the violations of a run | after a commit of the two above, before the run's event | shows only what is stored, loses no edge silently, disturbs no run |
| Pool singleton, auth and API keys, logging, scripts | see section 8 | | | |

Behaviours that are hard here: the background thread, the request threads and the
bus run interleaved; a process may stop anywhere and only the database survives,
statement by statement while it is set up; database and graph share no transaction;
connections break and clients reconnect with or without `Last-Event-ID`; the pool
is closed under running calls; rows are written back from copies read earlier; an
LLM, a sandbox or a server may answer late, badly or not at all.  `PROJECT.json`
lists these hazards with the line where each bites and the property that watches it.

## 2. Assumptions about the deployment

`Dockerfile` and `docs/DEPLOYMENT.md` start a single uvicorn process, so the
constant `Instances` is a singleton wherever the properties of section 6 say
"with one process".  The modules allow more (two processes overlap in a rolling
restart); what still holds then is proved.  What does not is known: the start-up
recovery of a second process fails runs the first is working on
(`LifecycleOrder`, `RecoverySparesLiveTasks` and `TerminalIsFinal` need
`SingleInstance`).

External, modelled from how the code uses them: SQLAlchemy's flush (an UPDATE names
the columns whose value changed since they were loaded; `Flush`), the sandbox
provider, FalkorDB (a MERGE of an edge whose ends are not MATCHed succeeds and writes
nothing), SQLite's DDL (each statement commits by itself), the LLM, AG2's scheduling of
a chat, OpenTelemetry's span processor (`SimpleSpanProcessor` exports in the thread that
ends a span).

## 3. Modules and code

**RunRecords** — the row of a run as `api/models.py` declares it and the updates
`api/store.py` makes to it, as operators: `AppendStatus`, `WithStatus`
(`set_run_status`), `Recovered`, `StatusEvent`, `ReplayEvents`.

**RunLifecycle** — `Submit` is `create_run`; a task then goes through
`set_run_status` three times at most, each time in the steps the code has: `ReadRow`
(`session.get`), `WriteRow` (flush and commit), `Publish` (`publish_run_event`, after
the session is closed).  `FinishAnalysis` and `RaiseInAnalysis` abstract the stages
of `process_run`; `StoreFault` is any store operation raising, after which the
handler records a failure, or leaves the task "stuck" when that raises too.  `Start`
and `Recover` are the lifespan hook; `Crash` drops all but `db`.  Exception texts may
be empty, so that a failed row may carry no error.  Rows are never deleted, so that
the branch of `process_run` for missing inputs is unreachable.

**RunFeed** — the abstract specification of the streams: histories grow by one legal
status; watchers hear the history from its beginning without gap or repetition, and
display what they last heard, or looked up, or "unavailable" when a lookup fails before
they have heard the end.

**RunEvents** — `ListSubscribers`/`PutEvent`/`EndPublish` are `RunEventBus.publish`
(the lock covers the listing only); `Replay`, `Subscribe`, `Reread`, `Forward` are the
generator of `run_events` with its early returns; `FetchRun`, `FetchToken`, `Connect`,
`Receive`, `RefreshAtEnd` are the dashboard's effect in `app.jsx`, or a plain
`EventSource` that resumes (`FetchRun`, `Connect`, `Receive`).  A dashboard displays the
fetched status before the stream opens (page state "fetched"), so that one that opens a
finished run shows its end, goes back to "queued" with the replay and comes to the end
again; after a terminal event it fetches the run once more ("refreshing").  Before any
fetch it displays the built-in sample run.  `FeedImplemented` checks `RunFeed` under
`history <- db.history`, `heard <-` what the stream told the page and `display <-` the
status on it.  The events of a replay are sent in one step (a partial delivery is a
lost wire); the browser's own reconnect is pre-empted by the dashboard's 1000 ms
timer, which is shorter than the 1500 ms the server announces.  A stream token belongs
to the process that minted it (`Minted`, `CrashServer`) and has a lifetime
(`ExpireToken`); it is looked at when a stream connects and never again.

**StoreSetup** — `setup[i]` is where process i stands in `ensure_store`: tables, columns
of runs, columns of violations, seed, insert, repair, history, ready.  Each stage
inspects once (`Missing`) and then works off what it found, one `ChangeSchema` per
statement; finding done what it set out to do is the error a second process makes,
which ends it.  `SetupInit` has databases of every earlier version.  The module wraps
`RunLifecycle`: `StartReady` is its `Start` once the set-up returned, and a stop of the
process is possible in every stage (`StopInSetup`, `CrashReady`).

**ContractDsl** — `Parse` is `parse_contracts_yaml`: a root that is no list or mapping, or
keys that are no strings, end it; `ParseEntries` is its loop, one turn (`ParseEntry`) per
entry with the checks in the parser's order (`EntryFault`); `AcceptedBody` is what `POST
/api/workflows` lets pass.  A `severity` or `failed_agent` that is null, empty or otherwise
false in Python is replaced by the registry's, like one that is absent (`blank`,
`ContractOf`).  When the root has the key `contracts` twice, the data has its last value
and the tree of nodes, which gives places and labels, is found by the first (`first`,
`LabelFault`, `Readable`).  A document is what the YAML library makes of the text
(`IsDocument`); `Documents` are those that may be posted.  `ParsesAsMeant` compares the
parser with `WellFormed`, `IsContract` and `IsMeant`, which say without any order what the
language promises.

**GraphProjection** — composes StoreSetup, ContractDsl and the graph.  `PostWorkflow`
commits the row, `ProjectTopology` then writes a half of its projection (all nodes, then
all edges); `CommitRow` is the commit of a report, `ProjectRun` the halves of its
projection, `PublishRow` the event, in that order as in `set_run_status`.  The MERGEs of
a half commute and nothing reads between them, so a half is one step; a query that
raises (`TopologyFault`, `RunFault`) has a proper part of its half written, and a stop
(`CrashAll`) leaves either.  A graph that is switched off is one whose first query
raises.  An approval writes a run again but names no workflow, so that it projects
nothing (`put_run`).

**RunReports** — `ReadForApproval` and `PutApproval` are the two halves of
`post_approval`, a synchronous endpoint that runs in a thread pool; a put is one step
because the UPDATE of the run row precedes the queries for child rows and takes the
write lock.  A row keeps its id for good: a deleted one leaves a place (`Deleted`).
`Recurrence` goes through the rows of one key as `_build_recurrence_rows` does, in the
order of their ids.  Every write bumps `updated_at` (`seen`), an approval's too: an old run
that is approved becomes the one last seen, and with it comes the latest severity.

**DaytonaPool** — one action per statement that touches shared state in `acquire`,
`run_python`, `release`, `_replace_executor` and `close`; the lock is implied by the
program counters in `Critical`.  `restart()`, `delete()` and the factory may raise;
`run_python_in_daytona` turns every exception of the code into a result, so that
`Execute` always goes on to `release`, which raises on a closed pool and drops an executor
the pool no longer lists.  `Init` is the warmed pool.

**RepairLoop** — `run_repair_test_iterations` with `run_regression_test` inside: an
iteration is `Repair`, then `GenerateTest`, `GenerationFails`, `UseLocalTest` or
`SkipTest`, then `Execute` once or twice (`RerunWithFallback`), then `Judge`, which
decides with `Continue` whether there is another.  `CallerTests` is an injected
`regression_func`, the only way the loop repairs more than once today: the fallback
test asserts constants, so that a real "fail" never survives it.

**ContractChecks** — `SnapshotOf` is the fold of the trace collector, `Holds` the five
checks, `Violations` the contract checker.  The checks fold over the events in list
order, but the routing check sorts by step (stably).

**TraceSources** — `Stub` and `LiveTrace`: the traces this repository makes itself.

**Diagnosis** — the stages as actions with the driver (`worker`, `pipeline`, `chat`)
deciding which happen; `ContractCard`, `AgentCard`, `Flagged`, `RouteStatus` are what
`api/adapter.py` shows.

**SdkSession** — `StartSpan`/`EndSpan` in any thread, `Export` as in
`ConcordSpanExporter.export`, and `complete()` in the steps at which another thread may
export: capture, `ResetForReplay`, `Replay` (one span of the raw trace at a time, with the step and
time its event has; `RaiseInReplay` is a malformed one), `Recapture`, `Accept` (the server has the run), `Return` (reset) or `Raise`.  `RunTrace`
says of `to_run_trace_dict` where its stable sort puts each event.

`*Proofs` hold the theorems of section 6; `MC*` give constants values for TLC.
Operators marked "Mutant" are plausible bugs, each with the property that catches it.

## 4. Runs, bounds and what they show

All runs but `loop` set `CHECK_DEADLOCK FALSE`: a server with no request, and a pool
nobody calls, rest.  In `loop` a state without a step would be a coroutine that hangs,
so deadlock is checked (`Returned` is the stutter of a loop that is done).

| run | instance | shows |
|---|---|---|
| `lifecycle` | 2 symmetric runs, 1 process, 1 stop serving, 1 in the set-up, 1 failing store operation, 1 failing query, workflows "seeded" and "posted", 3 bodies, 1 violation (1,178,935 states) | rows in documented order and consistent; recovery forgets no lost run (`NoOrphans`), fails no live one (`RecoverySparesLiveTasks`), rewrites no terminal row (`TerminalIsFinal`); `StoreIsComplete`; `DslMeansItsRules`; `GraphIsBacked`, `GraphIsComplete`; neither set-up nor graph changes the life of a run (`LifecycleImplemented`) |
| `events` | 1 run, 1 process, 1 client of either kind, 2 stops, 1 fault, 2 lost connections or expired tokens; fair (88,831 states) | `NothingMissed`: the re-read after subscribing closes the race; `FeedImplemented`: the streams implement `RunFeed`; runs end and watchers hear the end |
| `pool` | 2 threads, 2 slots, 4 executors, one failure each of restart, delete, factory; fair (464,924 states) | exclusive and clean use, slots and sandboxes accounted for, every call and `close()` return |
| `loop` | 2 types, 3 iterations, 3 runners, 6 outputs, durations and usages 1..2; fair | `StopsWhenDecided`, `ChargesWhatWasUsed`, `InfrastructureErrorsStayErrors`, `ProvenanceIsTrue`, `LoopReturns` |
| `diagnosis` | traces of up to 2 of 24 events, all stub modes and live chats, 3 drivers | the routing scan means its rule; reports are coherent; clean traces look clean; violations can be found on the dashboard |
| `reports` | 3 runs of 2 workflows, 2 symmetric operators, 2 keys, 6 writes (390,055 states) | violation rows match reports whatever order approvals are written back in; recurrences are true; of a run approvals change the decision only, of a recurrence only which run is first and last |
| `sdk` | 2 symmetric threads, nested spans, 3 spans with or without steps and with equal times, 2 runs, 1 raise (3,587,284 states) | no event exported between calls is lost; traces in order; payload a tree |
| `events_reconnect` | 1 dashboard, 1 stop | **refuted**: the dashboard reconnects (`LiveReconnects`) |
| `pool_ready` | 1 thread, 1 slot | **refuted**: the pool keeps N executors ready |
| `diagnosis_approval` | traces in order | **refuted**: the Action agent required approval *before running* |
| `diagnosis_live` | live chats | **refuted**: a live run in which the verifier's gate let the Reporter run breaks no contract on routing |
| `sdk_resubmit` | 1 thread | **refuted**: each `complete()` leaves no spans for later submissions |

Why these bounds are enough.  *Runs*: tasks share nothing but the process, and recovery
is one transaction over all of them; two runs show the interference there is.  *Clients*:
all stream properties are about one client, and another client only delays a publisher
between two `PutEvent`s, which a single client's own slowness does too.  *Stops*: in `events`
two let a recovery itself be interrupted; `lifecycle`, which interleaves far more, has
one, and its properties of runs are proved for any number (section 6).  *Graph*: the
bodies have a name that is both tool and agent, an edge to an unlisted name, a gate named
like the charged agent, and one that is refused; one violation on a workflow that is
projected, not projected, or being projected shows all that can happen to its edges.
*Documents*: all of up to two entries over both forms, two types in both cases and every
kind of wrong value, and those that write `contracts` twice; checks look at one entry, or at two of the same type.  *Pool*: two threads contend for the lock and the
queue; four executors cover the two initial ones and two replacements, one of a
replacement.  *Traces*: the longest chain any check looks for is two events
(verifier then Reporter, gate then Action).  The refutation of the approval rule uses
three.  *Reports*: six writes are two runs completed and two approvals that overlap.
*SDK*: three spans give a nested pair and one beside it, or one and a raw trace of two.

The five refuted statements are quoted with their places under "findings" in
`PROJECT.json`.  In short: `openLiveRun` sets no further timer when one of its fetches
fails; `_replace_executor` deletes before it calls the factory; the approval (and the
evidence) contract is judged on the final snapshot; `_chat_history_to_trace_events` drops
the verifier's tool events; and `complete()` does not reset when `submit_run` raises.

Some properties say less than a reader may expect, because the code does:

* `DashboardsSettle` lets a page end in "error" when the serving process has stopped
  (the first finding); `EventuallyTerminal` and both settle properties except a "stuck"
  task, whose row stays unfinished until the next restart.
* `NoLeakWhileOpen`, and of `RunsAreIsolated` that the sandbox exists, stop at `close()`.
  While it runs, an executor that it has deleted may still be taken from the queue, one
  that is no longer listed is dropped when it is released, and a replacement made after
  `close()` listed the executors is never deleted.
* `HistoryEndsWithStatus` is checked with one process, where no two writers meet; that it
  holds when two processes overlap is proved only (`HistoryTracksStatus`), and so is that
  a completed run has a report then (`CompletedRunsHaveReports`).  With one process that
  is a part of `RowMatchesOutcome`.
* `ChargesWhatWasUsed` excludes `masked` seconds (the run happened, the replacement of
  its executor raised, and the result became an error without a sandbox) and covers the
  test generation's tokens; those of repair, attribution and narrative are not charged.
* `EventsAreSubmitted` speaks of events exported between calls: those exported while
  `complete()` waits for the server are wiped by its reset.
* `TraceIsInOrder` speaks of traces whose events all have steps or all have none; in a
  mixed one the assigned steps need not ascend.  Without steps causes come before effects
  only when each event's time is the start of its span: `concord.timestamp` may say
  something else, and of equal times the one exported first, the effect, comes first.
* `ViolationsAreVisible` needs the charged agent to have an event.  A routing violation
  by the Action agent is charged to the Reporter, so that the edge into the Action agent
  is shown as ok.
* `GraphIsComplete` excepts an edge from an agent the workflow does not declare as one:
  declared as a tool or a gate, it has no Agent node and its Triggered edge is lost without
  an error.  The fixture workflow is never projected, so its runs are not linked to it.
* `DashboardsSettle` includes tokens that expire before they are used: the refused page
  comes back with a new one.
* `StoreIsComplete` is about SQLite; `api/db.py` adds columns there only.
* Two operators deciding at once: the later write wins.  Nothing documents otherwise.

## 5. Fairness

Safety runs assume none.  `FairSpec` of RunLifecycle and `FairEventsSpec`: weak fairness
of each task's own steps (its thread goes on; LLM and sandbox calls have timeouts and
the loop is capped), of each process's start and recovery (the container is restarted),
of each generator and of each page's event loop.  Submitting, stopping, failing and
losing a connection get none.  A client that is open stays open only because drops are
bounded (`MaxDrops`, which bounds expired tokens too); without a bound no client could
be promised anything.  `FairSpec` of DaytonaPool: a call in progress goes on, because
waiting has a timeout (`GiveUp`) and so have runs; `close()` goes on once called.
`FairSpec` of RepairLoop: the coroutine goes on.  Strong fairness is never needed.

## 6. Proofs

Every invariant and action property that a passing run checks is stated by a theorem, for
all values of the constants.  Assumptions: `LifecycleAssumption`, `EventsAssumption`,
`SetupAssumption`, `DslAssumption`, `DocumentsAssumption`, `GraphAssumption`,
`PoolAssumption`, `RepairLoopAssumption`, `DiagnosisAssumption`, `ReportsAssumption` and
`SessionAssumption`, which give the constants their types and are evaluated by TLC in the
runs, and `SingleInstance` where stated.  Three say more than a type.
`GraphAssumption`: the violations a run can have differ in their keys.  `DslAssumption`:
the words that stand for a missing type or label are no strings of a document.
`ReportsAssumption`: recurrence keys are finitely many, and the empty string is the name of
nothing.  Each proof module extends the module it is about; a composition cites the
theorems of what it composes through the refinement.

The facts that say what a loop over data computes need induction, and the library's
induction theorems cannot be cited here.  They are proved from well-foundedness of the
naturals alone: a non-empty set of naturals has a least element (`NatMin`), so a set that
holds 0 and successors holds all (`NatInd`), so a recursive function equals its equations
(`Iteration`).  A fold of the community modules is first shown to have a table of its
partial results (`Table`, `SumTable`), which is then followed from one entry to the next.

**RunLifecycleProofs** (any sets of runs and processes, any bounds)

* First the lemmas about the operators of RunRecords, for every row.
* `TypeCorrect`.
* `HistoryTracksStatus`: with *any* number of processes the status is the last entry of
  the history.  Not inductive alone: the row a task or a recovery has read must be
  consistent too (`ConsistencyInv`), and a write computed from one consistent row over
  another is consistent because status and history change together
  (`FlushWithStatusConsistent`, `FlushRecoveredConsistent`).
* `CompletedRunsHaveReports`: also for any number; `ReportInv` says that a call that
  completes a run carries a report, and that a report some reader has seen is still
  stored, because a flush leaves alone a column it believes unchanged.
* With one process, `SingleInv` ties the row to the task's program counter: what is
  stored is what the task last wrote, the row it read is still the stored one, and no
  task is alive while the process recovers.  From it follow `StatusesInOrder`,
  `ColumnsAgree`, `NobodyWaitsForLostTasks`, and the action properties
  `TerminalRowsAreFinal`, `LiveTasksAreSpared`, `HistoriesGrow`.
* What `EventuallyTerminal` rests on: `TasksAreBounded` (any number of processes; a task has
  at most eleven steps, failing ones included, each uses one up and nobody else gives any
  back) and `TasksEndTerminal` (while a process serves, a task without a step left has
  brought its run to a terminal status, or is "stuck").

**RunEventsProofs** (one process, any runs, clients, drops and expired tokens)

* `NothingIsMissed`, from `EventsInvariant`.  With one process the number of an event is
  the place of its status in the stored history (`StatusesInOrder` is used here).  Every
  queue and every wire therefore holds consecutive numbers (`Excerpt`); a queue ends with
  the last number its subscriber was told of, a wire ends with what the generator has
  sent and begins no later than one after what the page has.  A gap would need a status
  that is neither in what the generator reads nor in its queue; since it subscribes
  before it reads again, there is none.
* `StreamsImplementFeed`: under the mapping of `FeedImplemented` a publish is a stutter,
  a write of the task a step of the history, a receipt makes the next status heard and
  displayed or changes nothing, and a fetch is a lookup or loses sight of the run.  The
  last fetch of a dashboard cannot lose it: it leaves the display alone when it fails.

**GraphProjectionProofs**, the store (any number of processes and of stops, any earlier
version)

* `SetupImplementsLifecycle`: every step of a set-up is a stutter of RunLifecycle, whose
  theorems so hold of the store as it starts.
* `StoresAreComplete`: a process that serves has all tables, columns and earlier runs,
  whichever version it found and whoever stopped where.  The invariant says what a
  process past a stage may rely on; nobody takes back what a stage established.

**GraphProjectionProofs**, the graph (any number of processes, workflows and faults)

* `GraphImplementsSetup`, `GraphImplementsLifecycle`, `StoresStayComplete`: the graph,
  whatever it does, changes nothing in the store.
* `GraphsAreBacked`: what the graph shows is stored.  `FinishedInv` and `ReportsKept`
  (a report is written once, whatever process rewrites the row) come first; `BackedInv`
  then says that a projection begins after the commit of the report, by which time what
  was found is settled, and that nodes and edges of a run come from nowhere else.
* `GraphsAreComplete`: a projection that ended without an error is in the graph whole.
  `CompleteInv` says that the nodes of a half are there before its edges are written,
  because an edge whose ends are missing is lost without an error.

**GraphProjectionProofs**, the language of contracts (any types, registry and document)

* `ParserKeepsRules`: every document is parsed as it is meant, however long it is, blank
  values and a key written twice included: accepted when and only when it is well formed, rejected at its first wrong entry, and turned into
  the contracts that are meant.  `EntryIsJudged` says that the checks of one entry, made in
  order and given the types before it, find a fault exactly when the entry is no contract or
  repeats a type; induction on the number of entries read (`AllEntriesRead`) does the rest.
* `DocumentsAreUnderstood` says so of what is posted.

**DaytonaPoolProofs** (any threads, executors, size and numbers of failures)

* `TypeCorrect`; `ExclusiveUse` from `HandsInv`, which adds that fresh executors were
  never created before, because all that is queued, listed or held was.
* `IsolatedRuns` from `CleanInv` (while the pool is open, queued executors are undeleted
  and listed) and `ResetInv` (whatever `close()` does, what is queued or about to be queued
  is clean, because only what was restarted or made is put and only its holder dirties it).
* `SlotsNeverVanish`, `PutsNeverBlock` from `SlotInv`: queue, holders and factory
  failures add up to the size (at most, once closing).  This is why a put made with
  the lock held cannot block, and hence why the lock is always released.
* `NothingLeaks` from `LeakInv`: what is listed is undeleted, and what a replacement is
  about to delete or to list is not listed.
* `CloseIsBounded`, what `CloseReturns` rests on: the steps `close()` has left are bounded
  by what still circulates, what it has listed and the stage it is in.  Each of its steps
  uses one up, and a call that puts an executor into the queue being drained adds none.

**DiagnosisProofs** (traces of any length and order, from any source; any driver, blame and
outcome of the tests)

* `StagesAgree`: `DiagnosisInv` says of each stage what it has left for the next: the
  violations are those the contracts yield for the events, patches and test rows are for
  these violations, and a report that was built speaks of all of them.
* `RoutingIsOrdered`: the routing check sorts the events by step, stably, and scans them
  with three variables.  `StepOrder` says what the sort yields, `ScanMeaning` what the scan
  knows after each event (by induction over its table), and `RoutingScan` that it fails
  exactly the traces that break the rule as it is stated.
* `ReportsAreCoherent`: one row and one patch for each violation, with the status its own
  test gave it (`OwnStatus`).
* `CleanTracesReportedClean` and `ViolationsStayVisible` relate that to what the dashboard
  shows.

**RunReportsProofs** (any runs, operators and interleavings of their requests)

* `CopiesOnlyDecide`: of a run an approval changes nothing but the decision, and the usage
  of a tenant moves only with the first report of a run.  `RequestInv` carries the argument:
  an operator's copy may be stale in the decision, but in its keys and cost it equals
  what is stored, because every writer since copied them.
* `CopiesMoveOnlyEnds`: while no run gets its first report a recurrence keeps its runs and
  its count; the run just written may become its last and stop being its first, and nothing
  else moves.  `SeenInv` (no two runs were written at the same turn, none later than now)
  makes the ends unique, so that they are compared before and after the write.
* `RowsMirrorReports`, `RowsAreTheReports`: the violation rows of a run are the violations
  of its report, each once and in its workflow.  `RowsInv` is kept by a put because the rows
  written anew are listed from a copy that has the stored keys.
* `RecurrencesCountRuns`: over a table of any length a recurrence lists each run of its
  workflow that has the violation once, and its ends are the first and the last of them
  written.  `GroupsAreMade` is the induction over the rows read so far.

**RepairLoopProofs** (any violations, outputs, durations and any cap)

* `StopsAsDecided` and `IterationsAreCapped`, from `LoopInv`: in an iteration all earlier
  attempts failed and there are as many as iterations before it.
* `UsageIsCharged`, from `CostInv`: what was spent is what the attempts charge and, while
  one is under way, what its generation and its runs so far have used.  The charges of a
  report are sums over its attempts (`Total`), of which `TotalAppended` says that one more
  attempt adds its own.
* `OriginsAreTrue`, from `OriginInv`: the test under way carries the reason of what it
  replaced, so that origin, reason and generated status of an attempt describe its runs.
* `StepsAreBounded`, what `LoopReturns` rests on: at most five steps for each iteration the
  cap allows, and every step uses one up.
* `ErrorsStayErrors`, from `RunsInv`: only the last of the runs of an attempt can be an
  infrastructure error, because only a test that ran is rerun, and the attempt judged
  last is the one whose runs are still there.

**SdkSessionProofs** (any threads, steps and bounds)

* `PayloadsAreTrees`: `TreeInv` says that every span, open or exported, has a start of
  its own, which the clock has passed, and a parent that started before it.  It holds
  whenever threads export, also while `complete()` waits, replays or resets.
* `SessionsAreKept` is the invariant of a call (`CallInv`).  Whatever was exported between
  calls is held by the exporter or by the server (`KeptInv`); the server has an event of the
  exporter no more often than answers were lost, unless one is on its way now (`OnceInv`);
  and the trace being submitted is the one its events make.  `EventsReachServer` follows.
* `TracesAreOrdered`: `TraceOrder` says that the ranks of a stable sort are the places of a
  sequence, each taken once, for any number of events.  A span is exported after its
  children, and yet, when times are starts, its event comes before theirs.

## 7. Only model-checked

Liveness: `EventuallyTerminal`, `ResumingClientsSettle`, `DashboardsSettle`, `CallsReturn`,
`CloseReturns`, `LoopReturns`.  Fairness, and that a step which is due is enabled, are
beyond the prover.  What can be proved of them is: the steps that are left are bounded
(`TasksAreBounded`, `StepsAreBounded`, `CloseIsBounded`), a put with the lock held does not
block (`PutsNeverBlock`), a page misses nothing it waits for (`NothingIsMissed`), and where a
task has ended the run has too (`TasksEndTerminal`).

## 8. Not modelled

* The pool singleton (`get_daytona_pool`), which checks and sets a global without a lock.
* Authentication and API keys; every request stands for one tenant.  The
  creation of the first keys by two processes has no effect on runs.
* The edge of the workflow a recurrence is drawn on (`_workflow_edge_for_recurrence`),
  the rounding of costs to 3 and 8 decimals.
* Properties of the nodes and edges of the graph, its connection and health report.
* Line numbers and texts of the errors of the contract parser.  A workflow's own
  contracts are parsed, stored and projected, but the checker always uses
  `DEFAULT_CONTRACTS`, so that they do not reach the diagnosis.
* Adapter details: tool nodes, declared handoffs, the span timeline, texts.
* Contract checks on values of the wrong type (a count that is not an integer raises
  and the run fails).
* Comments of approvals, time zones of stored timestamps, rows of the fixture without a
  run row.
* Legacy Zone A script, command-line drivers, the sandbox probe, logging.

Five hazards have no property: the pool singleton (`runner.py:126`), the capitals in a
test's output (`regression_test.py:195`: the overall status and the rows read it
differently, and no document says which is right), the places of events when only some
have a step (`trace_adapter.py:425`), the spans that end while `complete()` waits
(`instrumentation.py:70`: the code loses them, and no document promises them), and the
first API key (`api_keys.py:46`).

## 9. Plan

Order: what a restart or a race can damage first, then what is computed.

1. *done* RunRecords → RunLifecycle → proofs; RunFeed → RunEvents (composes RunLifecycle)
   → proofs, tokens and their expiry.
2. *done* StoreSetup (refines RunLifecycle) → proofs; ContractDsl; GraphProjection
   (composes all three) → proofs.
3. *done* DaytonaPool → proofs; RepairLoop → proofs.
4. *done* ContractChecks → TraceSources → Diagnosis → proofs; RunReports → proofs;
   SdkSession → proofs.
5. *left* the pool singleton over DaytonaPool; the first API key with two processes; the
   edge a recurrence is drawn on.
6. *left, proofs* the pool as an implementation of a bag of clean slots.

Abstract specifications: `RunFeed` for the streams, `RunLifecycle` for StoreSetup and
`StoreSetup` for GraphProjection are stated and proved to be implemented.
