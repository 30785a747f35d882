# Formal models of openclaw-trader

openclaw-trader is one FastAPI process that lets LLM agents trade perpetual
futures.  The agents (PM, the portfolio manager; RT, the risk trader; MEA, the
macro analyst; the Chief) run outside of the process: they *pull* a runtime
pack, think for minutes, and *submit* a strategy, an execution or a retro.
Inside of the process a dozen daemon threads scan the world, wake the agents
and, in the case of the risk brake, trade on their own authority.  All of them
share one SQLite store of assets, in which a save replaces the row, with no
transaction from a read to a later write and no lock between the threads.

The project models the parts whose correctness hangs on that: state read, used
minutes later and saved whole; messages sent before they are recorded; scans
cut off in between; leases, claims and keys that must be used once.  Beside the
store there are files and memories of their own kind, with the same troubles:
caches of candles, features and artifacts, a price cache, the exchange's client,
a file RT answers with.

Paths below are relative to `src/src/openclaw_trader/modules/` unless they begin
with `docs`, `specs` or `tests`.

## 1. Inventory

### What runs at the same time

| who | how often | what it writes |
|---|---|---|
| risk brake monitor | loop | orders, `risk_brake_state`, `rt_trigger_state`, PM trigger events, messages to RT and PM |
| RT trigger monitor | loop | `rt_trigger_state`, RT's cron job |
| PM recheck, price recheck monitors | loop | their key lists, PM trigger events, messages to PM |
| agent wake monitor | loop | `agent_wake_state`, PM trigger events, messages or cron jobs |
| retro monitor | loop, and `run_retro_prep` commands on worker threads | cycle, case, directives, the Chief's job |
| runtime bridge monitor | every 10 s, and any pull that finds the snapshot older than 30 s | `runtime_bridge_state` |
| failure alert, memory retention monitors | loop | their state, alerts; deleted rows |
| forecasts and retrainings | pulls, the bridge, a script | candle and feature files, artifacts, the models in memory |
| daily reset loop | loop | a `reset_agent_sessions` command |
| command workers | a pool of four | `workflows` rows, whatever the handler does |
| pulls, control commands | HTTP, thread pool: concurrent | leases, claims, command rows |
| submissions | HTTP, event loop: one at a time | strategies, orders, results, briefs, retros |

A monitor's loop swallows every exception of a scan, whose local variables are
then gone; a restart does the same to all of them at once.  Only the daily reset
loop has no handler.

### Components

For each: state; operations; what is hard; what makes it correct.

Risk and orders

* **Risk brake** (`workflow_orchestrator/risk_brake.py`).  State: the day, price
  and equity peaks, a ladder of fired lines for the portfolio and every coin, a
  lock (`reduce_only`, `flat_only`) for each, the strategy seen last.
  `scan_once`: read, plan, order, wake, save.  Hard: everything is saved last; a
  strategy may come out during the scan; midnight resets ladders but not locks.
  Correct: one order per line and day, locks that only a later strategy lifts, a
  lock that the PM has been told of.
* **Policy risk** (`policy_risk/service.py`).  No state.  Levels, locks in force,
  authorisation of a decision.  Correct: no action that a lock in force forbids.
* **Execution gateway, Coinbase client** (`trade_gateway/execution`,
  `shared/integrations/coinbase`).  State: positions and orders at the exchange, a product
  cache of five seconds, requests that are repeated.  Hard: a decision is a share,
  an order is contracts, and position and price move in between; a reply may be
  lost after the order was taken.  Correct: an order does to the position what was
  decided; a plan is placed once and the result says so.

The gateway of the agents

* **Packs and leases** (`agent_gateway/service.py`).  State: leases (issued,
  consumed, expired) with the pack frozen inside.  Pull, submit for each role.
  Hard: an order is judged by what a snapshot said, up to 15 minutes before; the
  lease is consumed after the orders.  Correct: no order that every lock of its
  reading forbade; one submission per input id.
* **Strategy submission** (`agent_gateway/service.py`, `memory_assets/service.py`).
  State: a row in two tables, a revision number read before it is written, a gate
  against what happened since the last strategy.  Hard: five writes without a
  transaction.  Correct: a strategy that wakes nobody leaves nothing unanswered;
  numbers grow; an input gives one strategy.
* **Panels** (same file).  Figures counted for a pack and checked again at the
  submission, while the ladder moves.  Correct: what is refused later was warned
  of before; two panels of one pack agree.
* **RT tactical map** (same file).  State: maps under a strategy and a lock mode.
  Correct: RT is asked for a map until it has drawn it.
* **Agent runners** (`agent_gateway/adapters/openclaw.py`).  A CLI run, a retry in
  a fresh session, a repair, an answer read from a file.  Correct: the file's
  answer belongs to the run.
* **Runtime bridge** (`agent_gateway/runtime_bridge.py`).  State: the cached
  snapshot.  Refresh by the monitor and by pulls, which overlap.  Hard: the parts
  are read by different pool threads, a slow refresh overwrites a newer one.

Those who wake

* **RT trigger** (`workflow_orchestrator/rt_trigger.py`).  State: seen ids, wakes
  of the last hour, cooldowns, follow-ups.  Hard: detection and marking read
  separately; the brake writes the same asset; lists are cut.  Correct: each
  event wakes RT once, ordinary wakes keep their distance, silence has an end.
* **PM recheck, price recheck** (`pm_recheck.py`, `price_recheck.py`).  State:
  handled keys, cut to a length.  Correct: each item or subscription is sent once.
* **PM trigger events** (`pm_trigger.py`, `memory_assets/service.py`).  State: the
  events with their claims.  Recorded after the message they explain, claimed by
  a pull.  Correct: one pack per event, and the right one.
* **Agent wake** (`agent_wake.py`).  State: per rule the last evaluation and the
  last firing, saved together at the end of a scan.  Correct: a calendar time
  wakes once, and does wake; messages keep their distance.
* **Failure alert** (`agent_failure_alert.py`).  State: what was told when, the end
  of the last scan.  Hard: a log that others write, read by time and from its end.
  Correct: a failure is told, and not again for the cooldown.
* **Notification** (`notification_service`, `_record_events`).  State: results and
  appended events.  Correct: the record says who was told what.

The course of the day

* **Retro** (`retro_prep.py`, with `submit_retro` and `submit_retro_brief`).
  State: cycle, case, briefs, retro, directives of a day.  Hard: scans last
  minutes, overlap with those of a command and save the copy of the cycle they
  read at the start.  Correct: one case a day and of that day, one wake of the
  Chief and not too early, directives for all before the cycle closes; a directive
  is complete only when its file was written.
* **Workflow commands** (`workflow_orchestrator/service.py`).  State: a row per
  command, a queue and workers in memory.  Hard: look and insert are two calls;
  rows survive a restart and workers do not.  Correct: a command runs once, and
  what was accepted ends.
* **News and macro desk** (`news_events`, `submit_news`, `submit_macro_brief`).
  State: the poller's batch, a row per event, briefs with the review of the one
  before.  Correct: what was reported stays; doubt about the Chief has a reason.
* **Memory retention** (`memory_retention.py`).  Deletes old rows by kind among
  readers and writers.  Correct: no reader misses a row.

Market and model

* **Market data** (`trade_gateway/market_data`).  Six concurrent calls, a shared
  product cache.  Correct: a bundle is fresh and of one piece.
* **Macro data** (`trade_gateway/macro_data`).  A snapshot cached for an interval.
  Correct: no price older than the interval.
* **Quant intelligence** (`quant_intelligence`).  State: files of candles, of raw
  and merged derivative metrics, artifacts, models in memory, the acceptance
  policy.  Hard: concurrent windows over one file, bars that still form, holes,
  retrainings under forecasts, labels that look ahead.  Correct: a fetch catches
  up; a gap has a reason; nothing is judged by what it was trained on; a forecast
  is of one training; the policy accepts what it counted on.

**Trigger bridge**, **macro brief trigger**, **replay**, **CLI**, **configuration**,
**web frontend**, **skills**, **scripts**: see section 7 and `PROJECT.json`, where
every component is listed with what is modelled of it and why the rest is not.

The hazards of this code are listed in `PROJECT.json` at the line where each
bites, with the properties that cover it.

## 2. Modules

| module | models | composed with |
|---|---|---|
| `PolicyRisk` | the decision rules as operators: levels, lock modes, what a lock allows | extended by `RiskBrake`, `ExecutionLease` |
| `RiskLock` | what the brake promises about locks: the abstract specification | implemented by `RiskBrake`, extended by `ExecutionLease` |
| `RiskBrake` | the brake's monitor | `PolicyRisk`; refines `RiskLock` |
| `ExecutionLease` | runtime bridge, packs, leases and `submit_execution` | `RiskLock` as its environment |
| `StrategyGate` | `submit_strategy` between its gate and its last write | `Gateway` |
| `PMPanels` | the panels of PM's and RT's packs and the checks that go back to them | `Gateway` |
| `RTTacticalMap` | when RT is asked for a map, which map serves, what is accepted | `Gateway` |
| `AgentRun` | a run of an agent's CLI, its retry, its file, its repair | `Gateway` |
| `OrderSizing` | from a share of the budget to contracts, on a position that moves | `Gateway` |
| `OrderPlacement` | a batch of plans through a client that repeats requests | `Gateway` |
| `RTTrigger` | the RT trigger and the brake's writes into its state | `MCRTTrigger` |
| `PMRecheck` | the recheck of due items | `MCPMRecheck` |
| `PriceRecheck` | the recheck of price subscriptions | `Monitors` |
| `PMTriggerClaim` | messages, events, pulls and claims | `Monitors` |
| `AgentWake` | the wake rules | `Monitors` |
| `FailureAlert` | a log, its failures, the alerts | `Monitors` |
| `MemoryRetention` | rows, their writers and readers, and the deletion | `Monitors` |
| `Learning` | a directive from its issue to its completion | `Monitors` |
| `Notification` | the events and messages of a submitted strategy | `Monitors` |
| `MacroDesk` | feeds, the bridge's news, MEA's events, the Chief's briefs | `Monitors` |
| `RetroCycle` | the retro of the day | `MCRetroCycle` |
| `WorkflowCommand` | commands, workers, the daily reset | |
| `MarketBundle` | the six calls of a bundle and the product cache they share | `Data` |
| `MacroPrices` | the cached snapshot of macro prices | `Data` |
| `CandleCache` | the candle file of a coin and those who fetch into it | `Data` |
| `FeatureStore` | raw, merged and daily derivative metrics | `Data` |
| `WalkForward` | rows, labels, folds and specialists of a training | `Data` |
| `AcceptancePolicy` | the selection of a training and the policy made from it | `Data` |
| `QuantArtifacts` | artifacts as files and in memory, retrainings, forecasts | `Data` |
| `Gateway`, `Monitors`, `Data` | components that do not meet, side by side | one instance of each module above |
| `MC...` | constants that a configuration cannot write down | extend the module they name |
| `...Proofs` | theorems | extend the module they name |

In every module a scan, a pull or a command is a record of its local variables
with a program counter, and is cut into steps where its effects become visible
to others or where it reads what others write; between the steps everybody else
may move.  `ScanAbort` (`SubmissionFails`, `StartRaises`, `Restart`) is
an exception or a restart at any step: the local variables are gone, what was
sent or saved stays.  History variables record what the outside world saw (orders
and messages sent) and why a record was lost; no guard reads them.

* **`RiskBrake`.**  `ScanPlan` is `scan_once` up to the plan: load, release locks
  of superseded strategies, rise of the ladders, choice of the scope, locks.
  `ScanExecute` sends the orders, `ScanDispatch` wakes RT or PM and records the
  event, `ScanSave` saves.  `SubmitStrategy` and `Midnight` are the surroundings.
  Peaks and prices are abstracted to the level they yield at a scan.
* **`RiskLock`.**  `SetLocks`: the stricter lock of a coin may change as long as a
  locked coin stays locked, unless a later strategy was seen.  `Publish`.
* **`ExecutionLease`.**  `StartReading`, `ReadStrategy`, `ReadRisk` and
  `FinishRefresh` are `refresh_once` with its two reads in either order;
  `PullCached`, `PullRefreshing`, `RefreshFails` and `FinishDirect` the ways in
  which a pull gets its snapshot; `Issue` the lease; `Submit`, the orders one by
  one, `Consume` and `SubmissionFails` are `submit_execution`; `Age` is time.
* **`RTTrigger`.**  `ScanDetect` runs the detectors in their order; `ScanHandle`
  decides on the first decision, wakes or skips; `ScanSave` reads again, marks and
  cuts.  `BrakeScan`, `BrakeWake` and `BrakeRecord` are the brake's wake of RT with
  `_record_rt_dispatch`.
* **`PMRecheck`**: `ScanLoad`, `Dispatch`, `ScanSave`.  **`PriceRecheck`**:
  `ScanMatch`, `Dispatch`, `ScanSave`.  The metric of a subscription is free to
  cross its threshold at every scan.
* **`PMTriggerClaim`.**  A wake's `Send` puts a message into the PM's session,
  `Record` records its event; `PullRead` reads the recent events, `PullClaim`
  saves the claim, `PullEnd` issues the pack.  `Expire` moves the age limit,
  `Kept` is the window of rows that a listing returns.
* **`AgentWake`.**  `ScanStart` loads, `Pass` is a rule that does not fire,
  `NoMessage` one whose message cannot be had, `Fire` one that fires, `ScanSave`
  saves all.  A calendar expression is the set of its instants.
* **`RetroCycle`.**  `ScanStart` reads or `CreateCycle` creates the cycle,
  `PrepareCase` makes the case, `CollectBriefs` asks the roles and saves the
  cycle's phase, `Dispatch` and `Record` wake the Chief, `Learn`, `Teach` and
  `Finish` hand out the directives and close.  Thread `loop` scans in the window
  before midnight, thread `command` at any hour.  `SubmitBrief` and `SubmitRetro`
  are the gateway's.
* **`WorkflowCommand`.**  `Look`, `Save` and `Enqueue` are `submit_command`, by API
  calls and by the reset loop; `Start` and `Finish` are `_run`; `SubmitRaises`,
  `StartRaises` and `FinishRaises` are database errors; `Restart` forgets the
  queue, the workers and the loop.

* **`StrategyGate`.**  `Pull` freezes the last strategy in a lease; `Gate` decides
  whether anything happened outside since; `SaveAsset`, `SaveTable`,
  `SaveSnapshot`, `Announce` and `Consume` write one after the other, `CutOff`
  ends the submission between any two.  `RecordFact` is news, a breach, an order of
  the owner; `RTScan` is RT's trigger looking for a strategy.
* **`PMPanels`.**  `Pull` counts streaks, holds, moves, ceiling and eligibility from
  the log and freezes them; `SubmitStrategy`, `SubmitExecution`, `SubmitNews` check
  and append; `LadderMoves` is the brake.
* **`RTTacticalMap`.**  `Pull` picks the map of the strategy and lock and decides
  whether to ask for one; `SubmitMap`, `SubmitWithoutMap` answer an open pack.
  Strategies, positions, locks, triggers and the bridge move at any time.
* **`AgentRun`.**  `Ask` starts a run, `End` is each way it can end, with the look
  into RT's file; `Reset` the fresh session, `Repair`, `Accept`, `Refuse` what
  becomes of the answer.  `WriteFile` is RT in whatever session.
* **`OrderSizing`.**  `RTDecides` and `BrakeDecides` fix a size, `Look` reads the
  position, `Fill` orders at a price that may be the cached one.
* **`OrderPlacement`.**  A request goes out (`Reach`), is answered (`Reply`), or
  fails before or after the exchange took it (`Busy`, `Broken`, `Closed`,
  `Refused`), and is repeated as the client repeats it.
* **`FailureAlert`.**  `ScanStart` notes the time, `ScanRead` reads the end of the
  log, `Alert` tells, `ScanSave` saves; `Write` appends a line of this or the last
  tick.  **`MemoryRetention`.**  `Start`, `Prune` kind by kind, `End`, beside
  `Save`; `OfflinePrune` is the script.  **`Learning`.**  `ScanStart` lists, `Look`
  compares one directive's file and saves, `ScanEnd`; `Write` is the role.
* **`Notification`.**  `Submit`, then `Record`, `Send`, `Store` for each recipient,
  `Consume`; `Fail` anywhere.  **`MacroDesk`.**  `Publish` and `SyncCommand`,
  `Refresh` and `Age` of the bridge, MEA's pull, rows and consumption, the Chief's
  pull, brief and consumption; `CutOff`.
* **`MarketBundle`.**  The six calls read one thing after the other (`Read`), the
  product from the cache or anew (`Cached`, `Missed`, `Fetched`), and `Together`
  waits for all.  **`MacroPrices`.**  `Collect` gives the cache or begins a fetch,
  `Quote` and `Error` are the sources, `Store` and `Done` its end.
* **`CandleCache`.**  `Load`, `Forward` page by page, `Back`, `SaveBegin` and
  `SaveEnd` of one caller beside another's; `FillBegin` and `Fill` are the script's
  windows.  **`FeatureStore`.**  `Load`, `Fetch` metric by metric, `FetchTardis`,
  `Save`, `BuildDaily`, each with its failure and cut-off.
* **`WalkForward`.**  `WalkPanel` orders the rows and cuts the windows, `Fold` trains
  and judges one, `Holdout` the rest, `Specialist` walks a coin again.
  **`AcceptancePolicy`.**  `Weigh`, then `BuildRanked` or `BuildFilters`, then
  `Serve`.  **`QuantArtifacts`.**  `SaveBegin` and `SaveEnd` write an artifact,
  `Horizon` and `Read` load it into memory, `Served` answers, `RetrainDone` forgets.

A definition named "Mutant of ..." in its comment is a plausible bug: used in
place of the definition it names, it makes the checker find a violation of a
property, which shows that the property says something about that definition.

## 3. Runs

A run checks the properties of one module or, in `MCGateway`, `MCMonitors` and
`MCData`, of several that share no state.  `Gateway`, `Monitors` and `Data` hold one
instance of each under names of its own (`price_MaxRevision` is `MaxRevision` of
`PriceRecheck`), and `part` says which of them a behaviour runs; the others stay
where they begin, so the states of the run are the sum of theirs and not the
product.  Every run below holds but `MCPMRecheck_EveryItemSent`
(section 6).

| configuration | properties | bounds and why they suffice |
|---|---|---|
| `RiskBrake_scans` | `NoRepeatedOrders`, `LockAnnounced`, `ExitLocks`, `KeepsPromise`, `StaleLockReleased` | One coin and the portfolio, so that two scopes compete; two days, so that a ladder restarts under a standing lock; one strategy after the first, so that a lock is superseded; one cut-off scan. |
| `ExecutionLease_pulls` | `OrdersAllowedWhenRead` | The monitor and one pull read side by side over one publication and any changes of the lock: a torn read needs two writes between two reads. |
| `ExecutionLease_retries` | `RepeatedOnlyWhenCut`, `LockReachesBridge` | The same threads with one failure and no publication, under fairness: an overtaking refresh and a repeated submission. |
| `MCRTTrigger_scans` | `WakesHeldBack`, `HandledOnce`, `HeartbeatKept` | One event of every kind, lists of length one so that they are cut, a clock hour of four units so that its boundary is crossed, one brake wake, one cut-off. |
| `MCPMRecheck_keys` | `SentOnce`, `FirstItemSent` | Three strategies and a list of one key, so that keys are dropped; two cut-offs. |
| `MCPMRecheck_EveryItemSent` | `EveryItemSent` (violated) | Two items in one list. |
| `WorkflowCommand_runs` | `RunsOnce`, `AcceptedEnds`, `ResetUnlessDisturbed` | Two commands, one of them the daily reset, three submissions for one worker, one error, one restart. |
| `MCRetroCycle_days` | `RetroInOrder`, `RetroSettles` | A day of three ticks with a window and the midnight after it; deadlines that pass within the window; two learning roles, so that a scan can be cut off between their directives; a second scan or a cut-off. |
| `MCGateway` | `SilentMeansAnswered`, `SavedInOrder` (`StrategyGate`) | Two inputs, one fact beside the submission, three saved rows so that a revision is revised, one cut-off. |
| | `AcceptedIsOfTheRun` (`AgentRun`) | Two runs and two writes of the file over three instants, so that a write falls before, into and between the runs. |
| | `FillsAsDecided` (`OrderSizing`) | RT and the brake, two prices, orders of a third and two thirds of the limit's budget, three orders on positions up to eight increments: a position shrinks, turns and vanishes between look and fill. |
| | `PlacedOnceAsTold` (`OrderPlacement`) | Two callers, batches of two plans, one repetition, two faults: a reply is lost twice in one batch. |
| | `PanelsWarn` (`PMPanels`) | Two packs at once, three strategies of either tier and every direction, a log of three, windows of two and three: a streak leaves its window. |
| | `AskedUntilDrawn` (`RTTacticalMap`) | Two packs at once, one coin, one later strategy, one lock, two maps. |
| `MCMonitors` | `WakesOnce` (`AgentWake`) | A heartbeat rule with a calendar time and a silence, a cron job with two calendar times; five instants, a cooldown of two, one cut-off. |
| | `ClaimedOnce` (`PMTriggerClaim`) | Two wakes, two pulls, a window of two: claimed events push unclaimed ones out. |
| | `PriceSentOnce` (`PriceRecheck`) | Two subscriptions on two strategies and a list of two keys, ids in the unlucky order; one cut-off. |
| | `ToldOncePerCooldown` (`FailureAlert`) | Two keys, three lines where the monitor reads the last two, a cooldown of two. |
| | `RetentionUnseen` (`MemoryRetention`) | Two kinds that live two and three ticks with readers that look back one and two; three ticks; a limit of one row, so that a backlog is skipped. |
| | `CompletedWasWritten` (`Learning`) | Two roles and two directives where a scan lists one; the loop and a command; two writes. |
| | `SentIsTold` (`Notification`) | Two handlers, two strategies, one failure. |
| | `EventsKept` (`MacroDesk`) | One feed with a dated and an undated item, two submissions, two briefs where two falsified ones raise doubt, two cut-offs. |
| `MCData` | `CaughtUp` (`CandleCache`) | Two callers with windows of two and three bars and pages of two, bars with up to two holes, four instants, two fetches; a script's window. |
| | `GapsExplained` (`FeatureStore`) | Windows of one and three bars, days of two, one hole, requests that fail or are cut off; two askings. |
| | `PolicyKeepsSelection` (`AcceptancePolicy`) | Three rows, two regimes, caps that bind neither or both, scores that are rounded and tie. |
| | `OutOfSample` (`WalkForward`) | Two coins, one with a specialist, seven bars, two windows, a missing candle and a dropped row. |
| | `OneTraining` (`QuantArtifacts`) | Two horizons, two trainings under two forecasts, a restart: an artifact is loaded while written. |
| | `BundleIsFresh` (`MarketBundle`) | Two calls, a cache of two instants, four instants, two bundles, a failure; closes that break out, stay and fall back. |
| | `GivenIsRecent` (`MacroPrices`) | Two callers, two sources, an interval of two in three instants, one error. |

`Keys`, `Inputs` and `Callers` are interchangeable, hence the symmetry of the three
combined runs; no property of theirs is a liveness property, for which symmetry
would not be sound.

Several properties are conjunctions of parts that have names of their own in the
module, each with its comment: `WakesHeldBack`, `HandledOnce` (`RTTrigger`:
`CooldownKept`, `ClockHourLimit`, `WokenOnce`, `HandledUnlessOvertaken`),
`RetroInOrder` (`RetroCycle`: `CaseOfTheDay`, `DispatchedOnce`, `ClosedIsLearned`,
`DispatchWaits`), `WakesOnce`, `SavedInOrder`, `PanelsWarn`.  Every module with a
type invariant states it as `TypeOK`; `Monitors` and `Data` collect theirs as
`TypesOK`.  The runs do not list them, in favour of properties that say more, and
several are proved (section 5); `INVARIANTS TypeOK`, or `TypesOK`, checks them with
the configurations above.

`CHECK_DEADLOCK FALSE` stands where the clock, the submissions or the pulls are
bounded: the model then stops, the program would go on.

What the conditional properties say (e.g. `NoRepeatedOrders`: a line is not
ordered twice *unless a scan was cut off behind its orders*) is meant literally:
the condition names the only ways in which the program loses the guarantee, and
section 6 shows that it does lose it there.

## 4. Fairness

The monitors are daemon threads whose loops wait for an interval, scan, swallow
every exception and go on; every agent turn, subprocess and HTTP call has a
timeout.  Hence weak fairness of the monitors' own steps, and of a pull or a
command once it has begun (`FairSpec` in `RiskBrake`, `ExecutionLease`,
`WorkflowCommand`, `RetroCycle`).  `PMRecheck` also assumes that a dispatch
tried again and again succeeds at some time (strong fairness of `Dispatch(TRUE)`)
and that time passes: without the former nothing can be sent at all.  Nothing is
assumed of the agents, the market, the owner, failures or restarts, nor, except in
`PMRecheck`, of the clock.  `AllFairSpec` of `RetroCycle` adds that the scan of a
command ends.  The combined runs check safety only and assume no
fairness.

## 5. Proofs

Checked by TLAPS for every value of the constants, from the named assumptions in
the modules: bounds are naturals, sets of coins, ids and levels have their types, ids
differ.  An assumption says no more than the code does: a cooldown lasts at least a
tick, a batch has a plan, rows live as long as their readers look back, labels look
ahead by at least a bar, prices are not negative and series are as long as the
candles asked for.

Each theorem is `Spec => []Property` (or the action property) of a run, by an
inductive invariant `IInv`: `InitInv`, one lemma per action, `StepInv`, and that `IInv`
gives the property.  Almost no property is inductive, because what a scan decides at
its end it read at its start; `IInv` adds what is true in between, and was checked by
TLC at the bounds of section 3 before it was proved.  What the parts of the
invariants say:

**The brake, the leases, the rechecks, commands** (`RiskBrakeProofs`,
`ExecutionLeaseProofs`, `PMRecheckProofs`, `WorkflowCommandProofs`, `RTTriggerProofs`).

* `RiskBrake`: `TypeCorrect`, `OrdersNotRepeated`, `LocksAnnounced`,
  `LocksKeyedBySeen`, `LocksOutlastAllButRevisions`, `ExitsLocked`, `PromiseKept`.  A
  scan in progress carries the keys of its locks (`KeysInv`), the shape of each step
  (`StepInv`), that a planned lock's event is recorded before the save
  (`AnnouncedInv`), and for every line whether it is in the saved ladder, in the scan,
  or in the history of cut-off scans (`LinesInv`).  `PlanKeeps`, `PlanLocksExits`,
  `PlanAnnounces` and `PlanLines` say what a plan does to each; `PromiseKept` is the
  refinement of `RiskLock`, step by step.
* `ExecutionLease`: `TypeCorrect`, `OrdersAllowed`, `OrdersOncePerInput`.  `ReaderInv`
  compares what a thread has read so far with the locks in force now and since it
  started, for each of the four orders in which reads and writes can fall; a thread
  that sees the strategy move knows of an instant at which every coin was free.
  `PolicyInv` carries that to snapshots, packs and orders; `InputInv` says who may
  still issue, submit or repeat an input id.
* `PMRecheck`: `SentOnceHolds`, `TypeCorrect`.  What was sent is remembered in the
  saved keys, in the scan that has not saved yet, or in the history of lost keys; what
  a scan holds was not marked when it loaded.
* `WorkflowCommand`: `RunsOnceHolds`, `TypeCorrect`.  The insert of a command's row
  gives one submission a token, which moves to the queue and to a worker and is spent
  there; the row stays, so that there is never another.
* `RTTrigger`: `WakesHeldBackAlways`, `HandledOnceAlways`, `HeartbeatKeptAlways`.  The
  asset is saved by two threads that each read it earlier.  For each of the three
  copies (saved, RT's, the brake's) and each wake whose record was not lost, the copy
  knows a stamp as late as the wake's, and the wakes of its clock hour (`StateKnows`,
  `ScanKnows`, `BrakeKnows`); what the trigger chose respects what its copy knows
  (`Chosen`); a handled key is marked, or pushed out, or counted as lost
  (`KeysKnown`).

**What watches and tells** (`MonitorsProofs`, one section per component).

* `ClaimedOnceAlways` (`PMTriggerClaim`): pulls that *hold* the same event, with a
  saved claim or without, overlapped (`HeldTogether`); whoever reads an event reads
  it unclaimed, and a saved claim stays (`ClaimStays`).
* `PriceSentOnceAlways` (`PriceRecheck`): `Remembered` and `FoundIsNew` as in
  `PMRecheck`, over a list that drops keys by their rank; `Paced` and `Stamped` for
  the cooldown, whose stamp is saved last.
* `WakesOnceAlways` (`AgentWake`): every message is stamped in the saved states, or in
  those the scan will save, or was lost with a scan (`Stamped`, `Remembered`); the
  candidates a scan may still fire lie after every one that was (`Pending`).
* `ToldOnceAlways` (`FailureAlert`): a failure before the time of the last saved scan
  was told, in the cooldown before it at the latest, unless it came late or was missed
  (`SeenTold`); the same of what the scan that alerts has read, or it is among those
  it will tell (`ReadTold`).  Alerts of a key are a cooldown apart if the earlier one
  was saved (`Apart`).
* `RetentionUnseenAlways` (`MemoryRetention`): what is gone had outlived its
  kind (`GoneWasOld`), hence is outside of every window.
* `WrittenAlways` (`Learning`): a scan works on rows it read earlier (`Copies`); a
  file that was not written since is as the directive found it (`AtRest`), so that
  what is not pending any more was written (`Written`); and a directive that a scan
  has behind it is not pending if its file differs and was at rest (`Looked`).  The theorem
  assumes that files can be read; without it the property fails (section 6).
* `SentIsToldAlways` (`Notification`): `InStep` says for each step of a handler which
  events, messages and rows there are; `Apart`, that handlers have different
  strategies; `Over` and `Reported`, what remains of the others.
* `EventsKeptAlways` (`MacroDesk`): rows are of submissions (`RowsOf`), one per event
  (`OneRow`); of a submission in progress the events that are not left have a row
  (`Progress`); `Doubt` counts falsified briefs in a row.

**From an agent's answer to the exchange** (`GatewayProofs`).

* `SilentAlways`, `SavedInOrderAlways` (`StrategyGate`): a stamp is given
  out once (`Stamped`); a submission in progress works on the last strategy under a
  lease that is not consumed (`InProgress`), the table has the last strategy that came
  so far (`Tabled`), and every fact before the gate of a silent strategy is answered
  by one before it (`Answered`).
* `AcceptedAlways` (`AgentRun`): the file a run found when it began is no newer than
  that, and no run before it took a later one (`SeenFirst`); what nobody said is neither
  complete nor valid (`SaidIsBy`); `Stages` orders a task's attempts.
* `FilledAsDecided` (`OrderSizing`, an action property): no induction over states,
  but arithmetic: `Quotient`, `NotionalIs` and `BaseIs` bound the rounded sizes, `Cut`
  and `Uncut` compare an order with the position it meets, which may have turned.
* `PlacedOnce` (`OrderPlacement`): `CallInv` says for each place in which a batch can
  be (before a request, at the exchange, on the way back, between two plans) which of
  its plans have an order; `OrdersInv`, that an order is of a batch begun and of one
  plan; `BatchesInv`, that two callers have different batches.
* `AskedAlways` (`RTTacticalMap`, an action property): `Covered` says that a stored map
  has a plan for every first entry its pack lacked, `LatestFits`, that among the maps
  of a strategy and lock the latest is looked at first.
* `WarnedAlways` (`PMPanels`, an action property with the invariant behind it):
  `StreakKnown`, `DayKnown`, `HoldsKnown` and `TierKnown` say what a pack knows as long
  as no newer asset of its role is there.  `RecentMany` and `RunMany` count the last n
  of a set of places, `Envelope`, `Scaled` and `Quotient` bound the rounded quotients.

**Data and the model** (`DataProofs`).

* `PricesRecent` (`MacroPrices`): a snapshot has no value from before it was asked for
  (`FetchInv`, `CacheInv`), and the cache is given by the time it was asked for.
* `OneTrainingAlways` (`QuantArtifacts`): the three parts of a horizon, as files
  (`Written`, and `Trained` for those a retraining has behind it) and in memory
  (`Kept`), are of one training, none older than the newest that succeeded, but for
  horizons whose files were loaded while written; `Forecasts` says so of what a
  forecast has so far.
* `OutOfSampleAlways` (`WalkForward`): the windows of a walk are cut from rows ordered by
  time (`WindowsAre`, from `Nth`, `Ordered` and `Highest` about the n-th bar of a
  set), so that the training of a fold ends an embargo before its window; `Walks`
  ties a specialist's walk to the panel's.
* `PolicyKeepsAlways` (`AcceptancePolicy`): the policy is that of the rows and the
  weights (`Ranked`), and the selection, defined as the fixpoint of taking the rows in
  their order while their regime has room, exists and is unique.
* `CaughtUpAlways` (`CandleCache`): what came forward so far has no gap up to where the
  next page begins (`Forwards`); of a window of which nothing was loaded, the bars from
  m on are held and as many pages are left as it takes (`Backwards`, `Reached`), because
  each page ends exactly where the last began (`PageReaches`).  An empty page ends the
  search only if no bar of it traded, which is an outage.  The theorem assumes that the
  exchange does not trim its replies (`~candle_Trims`): a page asks for one bar more than
  the limit, and a trimmed one would lose it.
* `GapsExplainedAlways` (`FeatureStore`): from the moment a metric was fetched, a row of
  its window is gathered or has its reason (`Gathered`), and a reason stays one: no other
  request touches the metric's files before the window is over, and a row too old for
  the exchange grows older.
* `BundlesFresh` (`MarketBundle`): each call's readings so far are fresh, in order and
  of its program (`Reads`), and a product is no older than its stamp; `Shape` relates
  breakout, trend, mean and extremes of any series.

Two kinds of argument replace an induction, which the library states for an operator
parameter that the provers cannot instantiate.  A fact about the first n rows, places or
closes follows from the least n for which it fails (`Least`, from
`WellFoundedInduction`); a recursive function is the value of a `CHOOSE` whose existence
is proved in the same way (`SumExists`).

The proofs changed the models where these were wrong.  `FailureAlert` keeps the
history of a save that was missed; a specialist of `WalkForward` walks windows of its
own when the panel had none (ensemble.py:125, direct_training.py:298-307);
`PolicyKeepsSelection` said that rounding refuses at most a regime's lowest row, and it refuses each within the rounding of the lowest.
Two `CASE`s of `RTTacticalMap` and `PMPanels` had arms that overlap, of which TLA+ lets
any be chosen: they are `IF` chains in the code's order now.  `PanelsAgree` said that a
panel's gain and gap are positive together; a positive gap may be rounded to no gain.

Some theorems state properties that no run lists, because a deeper one is checked in
their place or TLC checked them before: `TypeCorrect`, `LocksKeyedBySeen`,
`LocksOutlastAllButRevisions`.

The composition: `RiskBrake` is proved to implement `RiskLock`, and
`ExecutionLease` is proved correct over `RiskLock`.  So the lease's guarantee
rests on the brake's own code, without either model containing the other.

Model-checked only:

* every liveness property (`StaleLockReleased`, `LockReachesBridge`, `FirstItemSent`,
  `AcceptedEnds`, `ResetUnlessDisturbed`, `RetroSettles`): liveness under fairness is
  out of the prover's reach;
* `RetroInOrder`, the one safety property whose invariant has not been proved
  (section 8);
* `TypeOK` of `RTTrigger`, whose bound on a list is by the number of its keys, and of
  the components of the three combined modules.

## 6. Divergences

One run of `PROJECT.json` shows that the code does not keep what its documents say:
`MCPMRecheck_EveryItemSent` (only the first due item of a strategy is ever sent).
The modules state more such properties, each with a comment that says that it does
not hold.  To see the counterexample, put the property in the place of the
properties of the configuration that is named, with the changes given; for a
combined module, define `Shown == Alias!Property` in it first, where `Alias` is the
name of the module's instance in `Gateway`, `Monitors` or `Data`.

Of the wakes, locks, leases, commands and the retro:

* `RiskBrake!FlatOnlyUntilRevision` (workflow_orchestrator/risk_brake.py:731):
  _updated_state_after_scan overwrites a lock with the newest event's lock; the
  ladders restart at midnight UTC, so the first reduce line of the next day
  replaces a flat_only lock by reduce_only under the same strategy.
  src/specs/008-risk-peak-brakes/spec.md:44 says: "`reduce_only` 或 `flat_only`
  风险锁在新 PM strategy revision 到来前持续生效".
  *Shown by* `RiskBrake_scans` with `Spec`, `CoinLevels = {0, 2, 3}`, `MaxRevision = 2`; a property.
* `RiskBrake!OneOrderPerEdge` (workflow_orchestrator/risk_brake.py:117): The ladder that makes a rising
  edge fire once is saved only at the end of scan_once, after the orders were
  sent (line 514): a scan cut off in between is repeated by the next one and
  the same line is ordered twice. src/specs/008-risk-peak-brakes/spec.md:62
  says: "风控动作必须是幂等的；相同状态不能在同一上升沿上重复下单".
  *Shown by* `RiskBrake_scans` with `Spec`, `CoinLevels = {0, 2, 3}`, `MaxRevision = 2`; an invariant.
* `RiskBrake!ReleaseKnowsTheBrake` (workflow_orchestrator/risk_brake.py:833): Locks carry the strategy key read
  at the start of the scan and are released for any other key: a strategy the
  PM published while the scan was executing, in ignorance of it, releases the
  lock at the next scan. src/specs/008-risk-peak-brakes/spec.md:40 says: "PM
  会基于系统已执行的风控动作重新提交策略".
  *Shown by* the same configuration; a property.
* `ExecutionLease!InputIdempotent` (agent_gateway/service.py:926): submit_execution consumes the lease last,
  after execute (line 915) and the result saves: an exception in between
  leaves the lease usable, and the resubmission sends the orders again under
  the same input_id. src/specs/modules/agent_gateway/spec.md:98 says:
  "`input_id` 是最小租约与幂等单位".
  *Shown by* `ExecutionLease_pulls` with `MaxRevision = 0`, `Pulls = {}`, `MaxFailures = 1`; an invariant.
* `ExecutionLease!LockBindsPacks` (agent_gateway/service.py:1739): A pull serves RT from the cached
  runtime_bridge_state (or, when a refresh fails, from a state of any age) and
  submit_execution judges orders by the policies frozen in the lease (line
  849), so a pack issued after the lock was saved may allow to add risk back.
  src/specs/008-risk-peak-brakes/spec.md:55 says: "RT 的第一次风险复查必须绕过普通
  cooldown，但受 `reduce_only` 或 `flat_only` 风险锁约束，不能立即加回风险".
  *Shown by* `ExecutionLease_pulls` with `Pulls = {}`; a property.
* `RTTrigger!EveryStrategyHandled` (workflow_orchestrator/rt_trigger.py:626): _updated_state_after_scan reads
  the latest strategy again and stores its key as seen, although
  _detect_strategy_update (line 276) may have read an older one: a strategy
  published in between wakes nobody.
  src/specs/modules/workflow_orchestrator/spec.md:85 says: "每次收到新的 PM
  正式策略都触发一次 RT 条件唤醒，且该触发可绕过普通冷却".
  *Shown by* `MCRTTrigger_scans` as it is; an invariant.
* `RTTrigger!SlidingHourLimit` (workflow_orchestrator/risk_brake.py:664): _record_rt_dispatch keeps only the
  wakes of the current clock hour in the list over which RTTriggerMonitor
  counts sixty minutes back (rt_trigger.py:649): after a brake wake more
  ordinary wakes than the limit fit into one hour.
  src/specs/modules/workflow_orchestrator/spec.md:104 says: "RT 条件触发使用全局冷却 `5`
  分钟、同币同类冷却 `15` 分钟、每小时普通触发上限 `4` 次";
  src/tests/test_v2_workflow_orchestrator.py:1083 counts back across a clock
  hour.
  *Shown by* `MCRTTrigger_scans` with `Macro`, `Submissions`, `Results`, `High`, `Critical`, `Filled` empty, `Conditions = {"exposure", "reference"}`, `GlobalCooldown = 2`, `KeyCooldown = 4`, `Hour = 5`, `MarkLimit = 2`, `SeenLimit = 2`, `MaxRevision = 0`, `FirstTime = 7`, `MaxTime = 13`, `MaxAborts = 0`; an invariant.
* `RTTrigger!FollowupOnce` (workflow_orchestrator/rt_trigger.py:639): sorted(ids)[-200:] keeps the 200
  largest ids, and asset ids are random: once 200 marks are kept, a newer fill
  with a smaller id is marked and dropped in the same statement, and is
  followed up again after each key cooldown while it is among the last 20.
  src/specs/modules/workflow_orchestrator/spec.md:102 says: "成功成交且有 fills 后
  `3-5` 分钟内触发一次 RT 复查，同一 execution result 只触发一次".
  *Shown by* `MCRTTrigger_scans` as it is; an invariant.
* `PriceRecheck!FiredWasSent` (workflow_orchestrator/price_recheck.py:180): scan_once adds every fired key
  to fired_keys whether or not _dispatch_combined succeeded, and nothing sends
  it again. The module's comment,
  src/src/openclaw_trader/modules/workflow_orchestrator/price_recheck.py:4-5,
  says: "Each subscription is a one-shot promise: \"wake me when this metric
  crosses this threshold\"".
  *Shown by* `MCMonitors` with `price_MaxRevision = 1`, `Price!FiredWasSent`.
* `PriceRecheck!FiresAtMostOnce` (workflow_orchestrator/price_recheck.py:182): sorted(completed)[-128:] keeps
  the largest keys, and keys begin with a random strategy id: in a full list
  the key of a strategy with a small id is dropped in the statement that adds
  it, and its subscription fires again after each global cooldown. The
  module's comment,
  src/src/openclaw_trader/modules/workflow_orchestrator/price_recheck.py:18-19,
  says: "Per-subscription dedup: each (strategy_id, subscription_id) fires at
  most once".
  *Shown by* `MCMonitors`, `Price!FiresAtMostOnce`.
* `PMTriggerClaim!ClaimIsOfPack` (memory_assets/service.py:914): claim_pending_pm_trigger_event reads the
  recent events and saves the chosen one again with no transaction around the
  two, and pulls run in the thread pool: two pulls that overlap both take the
  event, and its claimed_ref names the one that saved last.
  src/tests/test_v2_agent_gateway.py:605 says:
  "self.assertEqual(claimed_asset["payload"]["claimed_ref"], pack.trace_id)".
  *Shown by* `MCMonitors` with `claim_Window = 3`, `claim_MaxPulls = 3`, `claim_MaxQueue = 1`, `Claim!ClaimIsOfPack`.
* `PMTriggerClaim!PackExplainsWake` (agent_gateway/service.py:1506): A pull takes the oldest unclaimed event
  whatever message the PM is answering, so that a pull for an earlier message
  takes the event of a later wake and the wake's own pack carries another
  event or one the pull makes.
  src/skills/pm-strategy-cycle/references/price-rechecks-authoring.md:49 says:
  "**每个订阅触发后 PM 会被叫醒**——你会收到一条 wake
  message，`latest_pm_trigger_event.trigger_type == "price_recheck"`".
  *Shown by* the same configuration, `Claim!PackExplainsWake`.
* `AgentWake!WitnessedCandidateFires` (workflow_orchestrator/agent_wake.py:204): A scan that cannot read the
  message, or cannot start the CLI, advances _last_eval_at_utc past the
  calendar time all the same, and nothing returns to it.
  src/src/openclaw_trader/modules/workflow_orchestrator/agent_wake.py:308
  says: "fire each calendar candidate exactly once, but only if".
  *Shown by* `MCMonitors`, `Wake!WitnessedCandidateFires`.
* `AgentWake!FirstScanOnlyRecords` (workflow_orchestrator/agent_wake.py:339): Only the calendar predicate waits
  for a baseline: with no recent strategy the silence predicate fires in the
  first scan. src/docs/dispatch-and-sessions.md:76 says: "Semantics are
  defensive: the first scan after a cold start only records".
  *Shown by* `MCMonitors`, `Wake!FirstScanOnlyRecords`.
* `WorkflowCommand!ResubmissionIsDuplicate` (workflow_orchestrator/service.py:115): submit_command looks for the command
  id and inserts its row in two database calls, and API calls run in a thread
  pool: the second of two submissions of one id fails on the unique column and
  is answered with an internal error instead of duplicate_command and its
  trace. src/specs/003-workflow-control-plane/spec.md:73 says: "控制 API
  必须是幂等可重放的，同一命令重复提交不会产生语义冲突".
  *Shown by* `WorkflowCommand_runs` with `Spec`, `Submits = 2`, `MaxFaults = 0`, `MaxCrashes = 0`; an invariant.
* `WorkflowCommand!DailyResetRuns` (workflow_orchestrator/service.py:351): After a restart that came between the
  saved row and the work, the reset loop is told duplicate_command and takes
  the day for done; nothing resumes workflows that were left accepted or
  running. src/specs/modules/workflow_orchestrator/spec.md:80 says:
  "`workflow_orchestrator` 在每天 `UTC 00:30` 统一执行 4 个 agent 的 session reset".
  *Shown by* `WorkflowCommand_runs` with `Submits = 1`, `MaxFaults = 0`; a property.
* `RetroCycle!CycleEnds` (workflow_orchestrator/retro_prep.py:354): chief_deadline_utc is written and
  never read: a cycle whose Chief does not answer, or whose preparation keeps
  failing, stays in case_created, brief_collection or chief_pending.
  src/specs/013-retro-rebuild/spec.md:109 says: "任何 retro 阶段失败都必须明确进入
  `degraded` 或 `failed`，不得长期停留在语义不清的中间态".
  *Shown by* `MCRetroCycle_days`; a property.
* `RetroCycle!NotRedispatched` (workflow_orchestrator/retro_prep.py:455): The Chief is started before the
  cycle says so, and the scan of the loop and that of a run_retro_prep command
  each decide by the copy they read at their start: both may wake the Chief
  for one cycle. src/tests/test_v2_workflow_orchestrator.py:638 says:
  "test_retro_prep_monitor_does_not_redispatch_same_cycle".
  *Shown by* `MCRetroCycle_days` with `Spec`; an invariant.
* `RetroCycle!EveryRoleLearns` (workflow_orchestrator/retro_prep.py:535): The directives are saved one by
  one, and a scan that finds any of them takes them for complete: after a scan
  that was cut off between two, the cycle is completed and the remaining roles
  get no directive. src/specs/013-retro-rebuild/spec.md:93 says: "每个角色的
  `learning_directive`".
  *Shown by* `MCRetroCycle_days` with `AllFairSpec`; a property.

Of the other modules; these follow from the code rather than from a document unless
one is named:

* `StrategyGate!SpokenWakesRT`: a silent strategy that comes before RT's next scan
  hides the one it revises, and RT is not woken for it, although
  specs/modules/workflow_orchestrator/spec.md:85 has every formal strategy wake RT.
* `AgentRun!AcceptedWasSaid` (agent_gateway/service.py, about 4872-4885): a repair of
  news that is no JSON object is accepted as news without events.
* `OrderSizing!FlipWithinLimit`: a flip is not checked to be one; if the position
  already stands on its side, it adds both at once.
* `OrderPlacement!ErrorPlacedNothing` (trade_gateway/execution/service.py:61-98): a
  batch that raised may have placed orders, and nothing of it is recorded.
* `MarketBundle!PositionsAgree`: each of the six calls reads the positions for
  itself, so a bundle's account and portfolio may show different ones (`Calls` of
  `"accounts"` and `"portfolio"`).
* `MacroPrices!NewestIsCached`, `PriceStays`: a slow refresh stores its snapshot over a
  newer one, and a source that failed once is missing for an interval.
* `MacroDesk!RefreshGoesOn` (agent_gateway/runtime_bridge.py:283): a news item without
  a date makes every refresh raise, which the bridge's loop swallows (200-207), until
  a poll no longer brings it.  `ReviewedOnce`: two inputs of the Chief review one
  brief (two `ChiefInputs`, `MaxBriefs = 3`).
* `Notification!ToldOnce` (agent_gateway/service.py:425-444): what is cut off after the
  message leaves the input usable, and the owner is told twice.
* `MemoryRetention!BacklogShrinks` (about 139-146): a kind that has outgrown the limit
  is skipped by every later scan.
* `Learning!PackShowsPending` (agent_gateway/service.py:3823): a role's pending
  directives are looked for among the newest of all roles.  `CompletedIsFinal`
  (retro_prep.py:595-629): a second scan saves the copy it read.  With `Unreadable =
  TRUE` an unreadable file completes a directive nobody answered (662-692), and
  `CompletedWasWritten` fails.
* `CandleCache!WindowWhole`, `FinalOnceOver`: what is missing between the window's
  start and the oldest cached candle is asked for before the window instead, and a
  candle fetched while its bar formed stays.  `FeatureStore!ClaimedIsHeld` (snapshot_history.py, about 553-575;
  `MaxAsks = 3`),
  `DayWholeOnceOver` (604-618), `RawOnlyGrows` (611-618, 735-750), `DailyIsPast`
  (daily_macro_history.py:587-594): a store that claims days it does not hold, a file
  of today that is never completed, a file overwritten by one row, a day's value given
  before the day is over.
* `WalkForward!LabelsAreOld`: the embargo counts bars and a label candles, so that a
  hole lets a label of the window into the training.  `AcceptancePolicy!CapsHold`: ties
  and a regime without selected rows pass the caps.  `QuantArtifacts!NeverMixed`,
  `NewestServed`: an artifact loaded while it is written, or put into memory after a
  retraining forgot it.

Code that no longer has a caller: the market handlers (their commands are refused
first), `macro_brief_trigger.py`, `build_workflow_notifications`.  The warning on news
in `PMPanels` looks for `impact` (agent_gateway/service.py, about 1337 and 1452) where events
carry `impact_level`.  A forced news sync comes only after the bridge is stale
(1738-1750).

## 7. Not modelled, and why

Numbers that decide nothing but a level, a limit or a score (prices, peaks,
notional and leverage limits, the features and the fitted models of the quant
intelligence, calibration, reports) are abstracted to their outcome or left out: TLC
has no floating point.  Prompts, messages, schemas, notification texts, queries, the
frontend and the wiring have no state that another part depends on.  The exchange,
the data providers, the openclaw CLI and the agents are outside: they accept, refuse,
fail or answer, in any order.

* Trigger bridge: audit rows that no decision reads.  Macro brief trigger: a pure
  decision without a caller.
* Replay and frontend queries, web frontend, command line: read-only, or they start
  the server.
* Configuration: values; those that matter are constants of the modules.
* `scripts/benchmark_quant_intelligence.py`: calls the training code modelled in
  `WalkForward` and `AcceptancePolicy` on stored data and prints scores.
* Skills: instructions for the external agents.
* The other control handlers and the spot brokerage pass a call on.
* A graceful stop waits for the workers; only the kill is modelled.

Within modelled components: how a feed, a log line or an answer is parsed; the
leverage limit and the breaker fields, which are never set; how a policy's peaks are
computed.  Components that share a combined run are not composed: they have no state
in common.  The ones that have are composed by the abstract specification
(`RiskLock`) or modelled within one module with the other's writes as actions of the
environment (`RTTrigger` with the brake, `StrategyGate` with RT, `RTTacticalMap` with
locks and strategies, `OrderSizing` with both traders).

## 8. Plan

Done: the brake and its promise, the leases over that promise, the wakes, the claims,
commands, the retro; the gateway's other submissions, the path from a decision to the
exchange, what watches and tells, the market's data and the training; and proofs of
nearly every safety property of the runs.

Left, in this order:

1. A proof of `RetroInOrder` (`RetroCycle`; its invariant relates the copy a scan
   carries to the saved cycle).
2. An abstract strategy register (one current strategy, numbers that grow) that
   `StrategyGate` implements and that `RiskLock`'s `Publish` and the recheck modules'
   strategies are instances of.
3. Liveness of the caches and of the notification under fairness of their callers.
4. `OrderPlacement` over `OrderSizing`: a batch whose plans see the position the one
   before left.

## 9. Running

    tlc -workers 2 -config RiskBrake_scans.cfg RiskBrake
    tlc -workers 2 -config MCGateway.cfg MCGateway
    tlapm RiskBrakeProofs.tla
    tlapm MonitorsProofs.tla

A configuration `X_name.cfg`, or `X.cfg`, belongs to module `X`.
