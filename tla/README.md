# Verification of QuantMind V2

This directory is a TLA+ verification of the parts of QuantMind V2 in which an
interleaving, a crash or a retry costs something: the L4 staged execution of
risk sells, the rebalance orders of the daily run, the outbox and the consumer
that carry a fill to the risk engine, the circuit breaker, the tasks that raise
alerts and the window that keeps them from repeating, the budget for language
models, and the gate a strategy passes to go live. Modules are checked with TLC
on small instances; the theorems are checked with TLAPS for every value of the
constants. `PROJECT.json` ties every definition to the lines it models, every
run to its properties, and every property to a faulty variant of the code that
it catches.

## 1. The system

QuantMind V2 is an A-share quantitative trading platform (Python, FastAPI,
Celery, PostgreSQL/TimescaleDB, Redis, miniQMT as the broker). The process
landscape that matters here:

* the **API process** (FastAPI/uvicorn): serves the DingTalk webhook on a thread
  per request (`asyncio.to_thread`), risk endpoints, approvals;
* the **Celery worker**, `--pool=solo --concurrency=1` (one task at a time),
  with `acks_late` and `reject_on_worker_lost` (a crash redelivers the task);
* **Celery beat**: sends the periodic tasks (`app/tasks/beat_schedule.py`);
* the **miniQMT client**, whose callbacks arrive on a thread of its own;
* **PostgreSQL** at READ COMMITTED, psycopg2 connections without autocommit
  (except where noted), Redis streams and hashes.

### Inventory

Which parts are modelled is settled in `PROJECT.json` under `components`; this
table says what each part is, what it keeps and why it is hard.

| Component (source under `src/backend`) | State | Operations | Hard behaviour | Correct when |
|---|---|---|---|---|
| **L4 staged execution** (`qm_platform/risk/execution/planner.py`, `app/services/risk/dingtalk_webhook_service.py`, `staged_execution_service.py`, `app/tasks/l4_sweep_tasks.py`, broker executors) | rows of `execution_plans`; orders at the broker | create plan, confirm, cancel, deadline sweep, stuck sweep, execute | the broker call comes before its record and cannot be rolled back; row locks and compare-and-set; a batch in one transaction; deadline boundary | a cancelled plan is not sold, a plan is sold once, every plan is settled |
| **Event outbox** (`qm_platform/observability/outbox.py`, `app/tasks/outbox_publisher.py`) | rows of `event_outbox`; Redis streams | enqueue inside a business transaction, poll with `SKIP LOCKED`, append, retry, dead letter | at-least-once, crash between append and commit, two publishers, lost dead letters | nothing sent before its business commit, every committed event settled |
| **Fill event consumer** (`app/services/risk/trade_event_consumer.py`, `app/tasks/trade_event_risk_tasks.py`) | consumer group, pending entries | read, evaluate, acknowledge | a blocking read on the worker that must also publish; entries read and never evaluated | no acknowledgement without evaluation; a failure costs one fill, a death one read |
| **Circuit breaker L0-L4** (`app/services/risk_control_service.py`, `scripts/approve_l4.py`, `scripts/run_paper_trading.py`) | level, streak and linked approval; `approval_queue`; audit log | check (both phases of the daily run), approval request, approve, reject, force reset | an autocommit connection, so no two writes are one; administrators between them | every change logged, stop left only on a fresh approval |
| **QMT execution adapter** (`engines/qmt_execution_adapter.py`, `engines/broker_qmt.py`) | order tracker, fill collector | clean up, plan, place, wait, cancel, retry in rounds | the broker's callback thread against the thread that places; a retry before the cancel is final; a run that dies | what is reported was traded and planned; every buy has one outcome |
| **Alert delivery** (`app/services/dingtalk_alert.py`, `app/services/risk/meta_monitor_service.py`, `qm_platform/risk/realtime/alert.py`) | `alert_dedup` rows; the dispatcher's buffers | send with dedup, P0 at once, P1 batched, escalation chain | check then act, a window taken though delivery failed, a buffer in the memory of one worker | a window silences only what was told; a meta alert reaches a channel; what lasts is told again |
| **Realtime risk tick** (`app/tasks/realtime_risk_tasks.py`, `qm_platform/risk/realtime/engine.py`) | the plans of its transaction | evaluate, alert, persist plans, flush | one transaction for several plans, statements that fail in the middle | one plan that fails costs only itself |
| **LLM budget** (`qm_platform/llm/bootstrap.py`, `qm_platform/llm/_internal/budget.py`, `router.py`) | router of each process; monthly cost rows | get the router, check, call, record | a double-checked lock; check then act across threads and processes; costs never booked | the cap is passed by at most the calls under way and those not booked |
| **Strategy registry** (`qm_platform/strategy/registry.py`, `app/services/strategy_bootstrap.py`) | `strategy_registry`, its status log, verdicts | register, record an evaluation, update the status through its LIVE gate, list the live ones | reads without locks before writes that do not repeat them | live only on a fresh verdict that passed; the log ends in the status |
| Factor registry and lifecycle (`qm_platform/factor/*`) | `factor_registry` rows, cache | register, retire | stale cache | - |
| QMT connection manager, data service | connection flag, Redis portfolio | reconnect, refresh | stale cache when the client dies | - |
| Batched planner, re-entry tracker (`qm_platform/risk/execution/*`) | none | split a sell into batches | rounding to lots | batches sum to the holding |
| Backtest, factor computation, mining, data ingestion, research scripts, frontend | data | batch computation | numeric, not concurrent | not modelled |

How they interact: a risk hit makes an `execution_plans` row (realtime tick →
planner); the webhook and the two sweeps end it through
`StagedExecutionService.execute_plan` and a broker; a fill writes an
`event_outbox` row in its own transaction; the publisher appends it to
`qm:fill:executed`; the fill consumer, on the same solo worker, reads it back
into the risk engine. The circuit breaker gates the daily run, fed by
`performance_series`, and is opened by an administrator; a run it does not stop
rebalances through the QMT adapter, whose fills go to `trade_log` and the outbox.
The realtime tick and the meta monitor send alerts through the same dedup table;
what the daily run trades comes from the strategies the registry calls live.

What is hard to test in each of them is listed line by line under `hazards` in
`PROJECT.json`, with the properties that cover it or the reason none does.

## 2. Modules

| Module | Models | Composed of |
|---|---|---|
| `StagedExecution` | L4 staged execution: table, row locks, webhook threads, workers, broker, faults | - |
| `PlanLifecycle` | the table's promise to its readers: `L4ExecutionPlanner.valid_transition` seen at commits | refined by `StagedExecution` |
| `Outbox` | producer transactions, publisher ticks, streams, faults | - |
| `OutboxPromise` | what the outbox promises producers and consumers | refined by `Outbox` |
| `EventPipeline` | a fill from producer to risk engine: the consumer tick, the solo worker it shares | extends `Outbox` |
| `CircuitBreaker` | the breaker's check step by step, its scheduler, its administrators | - |
| `OrderRounds` | one day's rebalance: main thread, callback thread, exchange, runs that die | - |
| `AlertDedup` | `send_with_dedup`: any number of senders, the table, time in minutes, faults | - |
| `RiskTick` | the two tasks that raise alerts, their workers, beat, the plans of a tick | extends `AlertDedup` |
| `LLMBudget` | the router of each process, completions under the monthly cap | - |
| `StrategyGate` | the strategy registry: managers' transactions, the bootstrap | - |
| `MC*` | constants, symmetries for TLC | extend the module they name |
| `*_proofs` | the theorems | extend the module they name and `TLAPS` |

A definition named `X_Something` is a faulty variant of `X`, used by a mutant of
`PROJECT.json`: with it in place of `X` the property must fail.

### StagedExecution

State and code:

* `row` is the committed table, `draft` the versions written by open
  transactions, `lock` the row locks. `Seen(w, p)` is what a statement of `w`
  reads; `Unlocked` makes an `UPDATE` wait for the row lock, and its `WHERE` is
  then evaluated on the newest version, as READ COMMITTED does.
* `pc`, `task`, `now`, `todo`, `cur`, `reply` are the control point and the
  locals of a webhook thread or a Celery task. `now` is `received_at` or the
  transaction's `NOW()`, which PostgreSQL fixes at the transaction's start.
* `sold` counts orders the broker accepted. `inflight` (orders of the open
  transaction) and `lost` (orders whose transaction left no record of them) are
  history variables: no action's guard reads them.

Actions and code: `WebhookArrives`/`WebhookResolve`/`WebhookDecide` are
`process_command` (prefix resolution, window check, the compare-and-set
`UPDATE`); `LoadPlan`/`CallBroker`/`RecordOutcome`/`Commit` are `execute_plan`
and the commit of its caller; `SweepScan`/`SweepRow`/`SweepEnd` are
`_sweep_inner` (one transaction for the batch), `StuckScan`/`StuckRow` are
`_sweep_stuck_inner` (one transaction per plan); `Fault` rolls the open
transaction back at any point, `StuckPlanFault` is the exception the stuck
sweep survives. `CallBroker` has three answers because the code tells them
apart: accepted, accepted although the call raised, rejected.

Choices a reader should know of:

* A scan that finds no row changes nothing and is left out. The stuck sweep
  takes its cutoff a moment before its `SELECT`; the two are one step.
* The sweeps run inside trading hours (`open`); the stuck sweep runs whenever
  beat sends it.
* A `FAILED` row may have a live order (accepted, answer lost). That is the
  code's behaviour and `CancelledUnsold` and `ExecutedHasOrder` are stated so
  that they do not hide it: only the rows they name are claimed clean.
* Two sweep workers that lock the same rows in different orders (equal
  deadlines) would deadlock in PostgreSQL and one would be aborted: a `Fault`.
* The paper-mode stub broker and the live adapter are one broker with the same
  answers.

### Outbox and EventPipeline

* `stage[e]` is the business transaction of event `e`; `older[e]` are the
  events whose `created_at` is smaller, which is the order of the beginnings of
  their transactions, not of their commits.
* `outbox` holds the committed columns `retries` and `published_at`, `draft`
  what the row's publisher has written, `batch` the rows it locked. `Locked` is
  what `SKIP LOCKED` skips. The append and the row's `UPDATE` are one step:
  nobody can see the row between them, and a fault after the step stands for
  one in the middle of it.
* `sent` and `dead` count copies in the stream and in the dead letter stream;
  `MAXLEN` trimming and payloads are left out. `fresh` and `wasted` are history
  variables that say which copies left no record in their row.
* `FailRow` covers the two ways `publish_sync` fails (refused, or appended and
  the answer lost), the retry counter, and the last retry's dead letter, whose
  own failure is only logged.
* In `EventPipeline` a message is `<<event, n>>`, the n-th copy. `phase` is
  what the consumer tick does, `inhand` what it has read. `Free(w)` is the solo
  pool: a process inside one task starts no other. `Read` is enabled only when
  there is a new message because `BLOCK 0` waits in Redis.
* `AfterRaise` is what is left of a read after an exception: the `try` is inside
  the loop, so all but the message that raised. Nothing reads the pending
  entries, so that message stays among them: `Dropped` is what was delivered
  and is neither evaluated nor in hand. `LossIsBounded` says how much that can
  be; that it need not be nothing is told in section 5. `failures` counts the
  exceptions and deaths, `died` is a history variable for the deaths.

### CircuitBreaker

* `row` is the strategy's row in `circuit_breaker_state`, `status` the
  `approval_queue`, `logged` the audit log counted by new level, `latest` the
  newest row of `performance_series`: its day, its return and the level the
  losses call for. A missing state row is read as level 0 by the code and is
  the level-0 row here. The streak is the code's: it counts checks.
* Each statement of `check_circuit_breaker_sync` that writes is an action
  (`LogRecovery`, `WriteRecovery`, `LogEscalation`, `WriteEscalation`, `Hold`,
  `Clear`), because the connection of `run_paper_trading.py` is autocommit.
  What was read at the start of the check (`seen`, `data`) stays in `check`
  until its end.
* The administrators' requests through the API read first (`RequestRead`,
  `ApproveLookup`) and then write and commit in one transaction
  (`RequestCommit`, `ApproveCommit`); `approve_l4.py` reads, then decides
  (`CliRead`, `CliCommit`) or resets by force (`CliForceReset`, which writes
  the row of mode `paper` whatever mode runs).
* `Advance` is the calendar: odd half days are mornings (09:31, execute), even
  ones evenings (16:30, signal). A phase not started within its half day is
  lost, as a task the scheduler missed is. `NavMayFail` lets an evening pass
  without a new row, which neither phase treats as an error.
* A phase that finds the advisory lock taken ends at once.
* The asynchronous `check_and_update` and the retired daily rule have no caller
  in the daily run and are not modelled.

### OrderRounds

* `book` is the exchange: every order ever placed with the lots still open;
  `asked` the orders whose cancellation the broker accepted; `bought` and
  `sold` what was really traded. A limit order may be rejected whole, fills lot
  by lot, and ends when it is filled or cancelled; a market order (the third
  round) may also lose its rest.
* `tracker` is the `_WaitTracker` of the order in hand. There is one, because
  `_safe_place_and_wait` is sequential: later news of an earlier order changes
  a tracker nobody reads and is left out. `news` are the callbacks under way;
  `OnTrade` and `OnFinal` take them in any order, and drop them while the order
  is not registered (`Place` and `Register` are two steps).
* `rec` and `total` are `OrderTracker`; `round` 0 sells, 1 buys, 2 and 3 retry.
  `failed` is `buy_failed`, and `still_failed` while a retry round runs.
* `CleanUp`, `MakePlan`, `Take`, `Place`/`NotPlaced`, `Register`, `Wake`,
  `Cancel`, `Confirm`, `Record`, `NextRound` are `execute_rebalance` and
  `_safe_place_and_wait` in the order of their calls. Cash, price protection
  and the broker's refusal are choices of `Take` and `NotPlaced`. What may be
  sold is what is held since yesterday, less what open orders have frozen
  (`Frozen`, the number of `OpenLots` on offer).
* `Crash` is the death of the process or an exception out of the adapter: the
  order tracker, the collector and the list of fills are gone, the orders stay.
  The next run has new ones, and so the limits per day are limits per run.
* `dangling` is a history variable: orders whose cancel was not confirmed, and
  those alive when a run died.

What the properties do not claim: that a code is bought at most once. Lots that
fill before the order is registered, after the filled volume is read, or whose
final status is reported before the trade, are not counted; an order none of
whose lots are counted is retried. `FillsWithinPlan` is about what is reported.

### AlertDedup

* `row[k]` is the committed row: the minutes left of `suppress_until`,
  `last_push_ok`, and `muted`, a history field that says the window was opened
  by a call that did not have to post. `draft` and `held` are what open
  transactions have written and locked, `call` where each sender is.
* `Miss` is the `SELECT` without a lock, `OpenWindow` the upsert, which waits
  for the row and then writes whatever the row has become, `PostSent`,
  `PostFailed` and `PostSkipped` the three outcomes of the POST with the
  `last_push_ok` each leaves, `Commit` the `finally` (or the caller's commit).
  `Suppress` is a hit, which locks the row when its transaction lasts.
* Time is a countdown: `Minute` ages every row, and no call is older than
  `Lag`. `age` is what a window loses because it starts at the time read before
  the upsert.
* `since` and `excused` are history variables: when the key was last told, and
  the keys whose window was overwritten by an overlapping call or undone.

### RiskTick

* A worker is a sender of `AlertDedup`; every step of the two tasks is a step of
  `AlertDedup` or leaves its variables alone (theorem `TasksAreDedup`).
  `StartTick`, `StartSend`, `Write`, `DidSend`/`NotSent`, `EndSend`, `AlertsDone`,
  `PersistPlan`, `CommitPlans`, `EndTick` are `realtime_risk_tick` in the order
  of its calls, with a transaction per alert and one for all its plans;
  `StartMeta`, `Escalate` and `EndMeta` are `meta_monitor_tick`, with one
  transaction for all its alerts.
* `due` holds the messages beat has sent for this minute; a tick not taken
  within its minute has expired. Outside the session and on stale data the task
  returns at once, which is the same as a tick not taken. `TaskEnds` is an
  exception or the death of the worker, which loses `buffer`.
* What rules and collectors find is a choice; results in `Lasting` are found by
  every evaluation. Each P0 result is actionable.
* `buffer` is a set: duplicates of a result in the list are one after dedup. P2
  results are left out: the tick buffers them and nothing flushes them.
* `planned` is a history variable: which of the plans counted in `written` the
  commit has kept. That each tick writes a new plan for a hit that lasts
  (`ON CONFLICT (plan_id, created_at)` never conflicts) is not a matter of this
  module; `StagedExecution` sells each of them.

### LLMBudget

* `singleton` is `_router_singleton` of each process, `router` what its callers
  were given: `GetRouter` is the test without the lock, `BuildRouter` the
  critical section. A router is known by who built it and whether that caller
  passed a `conn_factory`, which is what gives it a guard.
* `Check`, `Answer`/`AllFail` and `RecordCost` are the three steps of
  `BudgetAwareRouter.completion`, with nothing held between them. A capped call
  goes to the local model, which costs nothing.
* `spent` is what `llm_cost_daily` says of the month, `paid` what its guarded
  calls cost. `hidden` is what a response does not report: an unknown price, or
  the attempts before a fallback. `lost` counts calls that were not booked in
  full. Alerts at 80 percent and audit rows are left out.

### StrategyGate

* A manager is a transaction of a caller of the registry: `Record`
  (`record_evaluation`), `ReadStatus`, `Gate` and `WriteStatus` (the three parts
  of `update_status`), `Commit`, `Rollback`. As the registry documents
  (`registry.py:352`), the verdict is recorded before the update it is for.
* A booter is a run of `get_live_strategies_for_risk_check`: `Look` and `Upsert`
  for each strategy of the bundle, `CommitBoot`, `List`, and `FailBoot` for any
  exception. Its fallback is S1 alone.
* Statuses are read without a lock; `lock` is the row lock a write takes.
  `txs` orders the `NOW()` of transactions, which is `evaluated_at`.
* `doubled` and `overlap` are history variables: strategies whose first
  registration was logged twice, and transactions that were overtaken, by a
  verdict or by midnight, after they looked.

## 3. Runs

| Run | Instance | Shows |
|---|---|---|
| `staged_one_worker` | 2 plans, 1 webhook thread, 1 worker, 1 fault, prefixes matching one plan or both | types; a cancelled or undecided plan is unsold; no plan sold twice without a failed transaction; an EXECUTED row has its order; decision and sale commit together; nothing settled is sold; an early sale has a confirmation; the table implements `PlanLifecycle` |
| `staged_liveness` | 2 plans, batch limit 1 | every plan is settled, with a batch limit below the backlog and a fault |
| `pipeline_safety` | 2 events, 2 workers that publish and consume, batches and reads of 2, 2 tries, 1 fault, 1 failed evaluation or dead consumer | types; a duplicate has a fault or a lost answer behind it; no unpublished row without a retry; the outbox keeps `OutboxPromise`; what is acknowledged was evaluated; what is read and never evaluated is one message for a failed evaluation, one read for a dead consumer |
| `pipeline_liveness` | 2 events, publisher and consumer on workers of their own | every committed event is settled, every committed fill evaluated or given up |
| `pipeline_blocked` | 1 event, the one deployed worker | **finding**: the consumer tick waits in Redis for ever and the publisher never runs |
| `breaker_safety` | 1 administrator, 2 approvals, 2 days, 1 crash | types; every arrival at a level but 3 has a log row; a check leaves level 4 only on an approval given since the stop |
| `rounds_safety` | a sale of 1 lot and a purchase of 2, 3 orders, 2 retry rounds, 2 attempts per stock, 1 crash | types; reported fills were traded and stay within the plan; an open order out of hand is a known dangling one; every buy ends filled, skipped or pending; the rebalance ends |
| `alert_dedup` | 2 senders, 2 keys with windows of 3 and 2 minutes, calls of up to a minute, 2 faults | types; a key is not told twice in its window unless calls overlapped or a transaction was undone; what silences a key was told, or its failure recorded, or alerts are off |
| `risk_tick` | the deployed worker with both tasks, 2 lasting P0 results, a lasting P1 result, a meta alert, 1 fault | types; a meta alert in its window was told on some channel; a lasting P0 result is told again and again; so is a P1 result if ticks are taken on boundaries again and again |
| `tick_bad_plan` | 2 P0 results, 1 fault | **finding**: one failed INSERT takes every plan of the tick with it |
| `llm_budget` | 3 callers in 2 processes, one of them without a guard, a cap of 2 with calls of up to 2, 2 calls not booked, a month's end | types; one router per process, with a guard for who asked unless another came first; the cap is passed by no more than a call per caller and per call not booked |
| `strategy_gate` | 2 managers with 2 transactions, 2 booters, S1 declared live and S2 not, one midnight that makes a verdict stale | types; the log ends in the status unless first registrations overlapped; a strategy goes live evaluated, declared, or overtaken |

Bounds, and why they are enough. Two plans are what an ambiguous prefix, a batch
in one transaction and a sweep racing a webhook on another row need; two
events what a batch with one row sent and one refused needs, and, with a batch
of one in `pipeline_liveness`, a batch that leaves a row out. One fault is one more
than none: the properties are stated relative to what failed (`lost`,
`wasted`), so a second fault adds one to both sides; the theorems hold for any
number. `MaxClock` 3 with windows of 1 lets a plan be decided before, at and
after its deadline and be found stuck; plans whose deadline would fall beyond
`MaxClock` are not created, so that the end of time settles nothing. `MaxNow` 4
is two whole days, in which an L3 streak of two, a stop, an approval, a reset
and a second stop fit. Windows of two and three minutes with calls of up to one let
a call end after its window's last minute began, and two overlap at its end;
two faults undo one sender and fail the other. Five minutes are two in
`risk_tick`: a minute on the boundary and one off it. A cap of one call's cost
lets two callers pass the check together, and two unbooked calls let a third
follow. One midnight with a freshness of 0 days makes each verdict go stale in
mid-transaction. Two lots tell a partial fill
from none and from all; three orders let the purchase be retried at its limit of
two attempts beside the sale, or the daily limit be met before. Two webhook threads with a worker exceed what TLC can
enumerate here; the theorems cover any number of threads and workers.

Fairness. A running job goes on: a hung one is killed by Celery's time limit,
which is a fault, so `WF` of its steps. Beat sends the sweeps every minute and
every five minutes, the publisher every 30 seconds and the consumer every 10,
whatever happened to the last, so each is taken if it is possible again and
again (`SF`), which is more than `WF` only where another task or the closing of
the market disables it in between; the realtime tick, sent every minute, likewise (`SF` of
`StartTick`), with `WF` of the clock and of a running task. That one of those
ticks falls on a boundary is not assumed but a premise of `BufferIsSent`. Trading days go on (`WF` of `OpenOrClose`).
The broker and Redis answer, one way or the other; no answer is assumed to be a
success, except that `MaxFaults`, `MaxFailures` and the retry limit bound how
often the same thing can fail. In `OrderRounds` only the main thread is fair,
because each of its waits has a time limit (`:684`, `:765`): neither a callback nor
the exchange is assumed to move. Administrators and users are never assumed to
act.

## 4. Proofs

`tlapm` checks every module `*_proofs`. All constants are arbitrary, subject
only to the assumptions declared with them (numbers are naturals, process sets
are disjoint, `Nobody` and `None` are not members).

* `StagedExecution_proofs`. The inductive invariant `IInv` is `TypeOK`,
  `DecisionAndSaleAtomic` and five parts: `DraftInv` (an uncommitted version
  settles the committed row, or is halfway there in the hand of the process
  that will sell it), `HoldInv` (what a process may hold at each control
  point), `CallInv` and `InflightInv` (a plan about to be sold, or with an
  order under way, is not cancelled, in the version its holder wrote or else in
  the committed one), and `UnsoldInv` (the account of `sold`, `lost` and
  `inflight` for a row that is not sold or to be sold). `CancelledUnsold` is
  not inductive alone: that only the holder of the row lock can have an order
  under way for such a row, so that no cancellation can commit beside it, is
  what carries it. From `IInv`: `TypeCorrect`, `AtomicCorrect`,
  `CancelledUnsoldCorrect`, and `LifecycleImplemented`, a step simulation of
  `PlanLifecycle`.
  `SaleInv` adds who sells what: `JobInv` (which process does which job),
  `LockInv` (a row is locked by a decision on a pending plan, overdue if the
  sweep took it, or by a stuck sweep that has recorded it), `HandInv` (outside
  the stuck sweep a plan about to be sold is in the hand that holds its row, and
  was decided there; the stuck sweep sells `OFF` plans only) and `OrderInv` (an
  order under way is recorded in its transaction or about to be). From it
  `EarlySaleConfirmed`, for any number of workers.
  `AccountInv` is the account of a plan's orders, for any number of workers: its
  carriers are the processes with an order of it under way, and `sold` exceeds
  `lost` by one for each of them, and by one more for the order that the row
  records: always once it is `EXECUTED`, never before it is sold. From it `ExecutedHasOrderCorrect` and
  `SettledAccountCorrect` (when no order is under way, all but one are `lost`).
  `HandInv` leaves a STAGED plan one carrier at most, the holder of its row:
  `StagedSoldOnceCorrect` and `StagedNeverSellSettledCorrect` therefore need no
  single worker.
  Under `OneWorker`, the deployed configuration, `LoneInv` adds `StuckInv` (a plan
  the stuck sweep is about to sell is executable and nobody's row).
  `OnlyOne` is the heart of it: a plan with an order
  under way is in no other process' hand. From it `NoDoubleSellCorrect`
  and `NeverSellSettledCorrect`, for `OFF` plans too. The assumption is
  needed: with two workers the stuck sweeps can both load one executable row.
* `Outbox_proofs`. `BatchInv` (a locked row is committed, unpublished and in one
  batch only), `DraftInv` (what a transaction has written of the rows it has
  handled) and `CountInv` (every accepted copy is recorded by the committed
  row, belongs to an open transaction, or is wasted), with `TypeOK` and
  `NoZombieRow`, are inductive. From them `TypeCorrect`, `NoZombieRowCorrect`,
  `DuplicatesExplainedCorrect` and `PromiseKept`, the refinement of
  `OutboxPromise`.
* `EventPipeline_proofs`. `DeliveryInv`: messages in hand are delivered,
  unevaluated and in nobody else's hand, and what is evaluated was delivered;
  so the new messages of the next read are none of them. From it
  `AckedIsEvaluatedCorrect`. `PipelineInv` joins
  it with the invariant of `Outbox_proofs`; that a stream only grows
  (`StreamGrows`) gives `PipelineTypes`. `PipelineIsOutbox`: every step of the
  path is a step of the outbox or a stutter, so that all that is proved of the
  outbox holds with consumers on its workers: `PipelineKeepsPromise` and, by a
  count of the evaluated copies of a fill, `EvaluationsExplainedCorrect`.
  `DropInv` counts what was delivered and is neither evaluated nor in hand;
  a read in hand is no larger than the limit, and each failure adds at most its
  `Cost` (`LossIsBoundedCorrect`). That reads deliver only what is new also gives
  `LostForGood`: what is dropped stays dropped.
* `CircuitBreaker_proofs`. `LockInv` (only the lock holder runs a check),
  `SeriesInv` (no level but normal is written until the series has a row), `AuditInv` (the log is ahead of
  the arrivals at each level but 3, by one between the log row and the write of
  a check) and `StopInv` (a linked approval that is approved at level 4 was
  granted since the breaker came there, and so was the one a running check
  read). From them `TypeCorrect`, `ChangesAuditedCorrect` and
  `StopNeedsFreshApprovalCorrect`, for both modes, any thresholds and any
  returns.
  `ChangesAudited` says that no arrival misses its log row;
  `EscalationsHappenedCorrect` says the converse, that no log row is of an
  arrival that was not, except one for each check that died between the two. It
  needs `SeenInv` (since a check read the row others have at most reset its level, and
  what it escalates to is above the level there) and `SurplusInv` (the log's surplus at a level is at most the crashes
  and the check that is about to write).
  `StreakInv` bounds the recovery streak: its days, two for each day before
  level 3 was entered, and the checks still due today are at most the half days
  begun and the phases that a crash had run again, whatever the resets. From it `StreakIsEarnedCorrect` and
  `RecoveryTakesTimeCorrect`: `l3_recovery_days` are that many half days at
  least.

* `OrderRounds_proofs`. `HandInv` (which code and order are in hand at each
  control point, and that the tracker is off outside the wait), `PlaceInv` (no
  code is in two of the lists `todo`, `failed`, `skipped` and the hand, and one
  with a fill is in none) and `LotsInv` (the lots of the order in hand that are
  open, under way or heard of are within the plan, and those heard of were
  traded), with `TypeOK`, `FillsAreTrades`, `FillsWithinPlan` and
  `StraysAreDangling`, are inductive. `PlaceInv` is what carries
  `FillsAreTrades` and `FillsWithinPlan`: a code is ordered again only while
  nothing is reported of it, so its one report is that of its last order. From
  them the first five theorems of the module, for any holdings, targets and
  limits.
  Three more bound what really happens at the exchange, where the reports are
  wrong. `OrdersInv` (an order keeps its code and side; the orders placed are
  those of the present run and at most the limit for each run that died) gives
  `OrdersLimitedCorrect`. `TradeInv` has `OfferInv` (what is sold, on offer and
  planned of the sells still to place is within the holding) and `BidInv` with
  `BuysInv` (what is bought of a stock and bid for is within the target for each
  of its orders, since no plan to buy exceeds it): from it `NeverShortCorrect`,
  which rests on the broker freezing what open orders offer, and
  `BuysLimitedCorrect`.
* `RiskTick_proofs`, for any keys, windows, workers and faults. `WindowInv`
  (the window of a message that was told lasts as long as it should, in the
  draft while the row is locked and else in the row, so that a call that reads
  it expired knows the message is old) gives `NoRepeat`; `SilenceInv` (the same
  account for rows and drafts that silence) gives `Silence`. `WorkerInv` (a
  worker's locks, call and alerts belong to its task) and `CallsAreLocal` give
  `TickTypes` and `TasksAreDedup`, so that the two theorems above hold of the
  tasks too (`TasksKeepWindows`). `MetaInv` adds that a meta alert's draft that was not told is being
  posted or escalated, which is what `MetaIsTold` needs at the commit.
* `LLMBudget_proofs`. `RouterInv` (a router knows the process that built it)
  gives `RouterIsShared`. `BookedInv` (what is booked, and one call for each
  caller that passed the check and has not booked, stays below the cap and a
  call for each caller) gives `BookedIsBounded`, a bound on the booked cost for
  any number of callers and any cap. What callers have paid and not yet booked
  is a sum over them; `Pending` has it as a set of pairs of a caller and a unit
  of cost, whose cardinality the theorems on finite sets reach without
  induction. `PaidInv` (what is paid is booked, pending or lost) then gives
  `PaidIsBounded`, which states `CapHolds`.
* `StrategyGate_proofs`. `LogInv` with `BootLocks` (what a booter is about to
  register it has locked, and found without a row, or doubled) gives
  `LogIsTrue`. Both callers of `get_live_strategies_for_risk_check` are tasks of
  the solo worker; for one booter at a time `LoneInv` (a first registration is
  one) shows that nothing is ever doubled: `LoneBooterLogsTruth`. `GateInv` with
  `Decided` (who is about to make a strategy live has looked at the verdict that
  is still the newest, or was overtaken) gives `LiveIsEvaluated`.

Only model-checked: the liveness properties (`EveryPlanSettles`,
`EveryEventSettled`, `EveryFillEvaluated`, `Terminates`, `LastingIsTold`,
`BufferIsSent`), which TLAPS does not reach under fairness.
Every other property a passing run checks is a theorem. The theorems that state
no property of a run (`SettledAccountCorrect`,
`RecoveryTakesTimeCorrect`, `NeverShortCorrect` and the like) were checked with
TLC on small instances before they were proved (the staged ones with two
workers).

## 5. Where the code and its words disagree

Two are runs that fail as described, each an entry of `findings` in
`PROJECT.json` with the line quoted there: `pipeline_blocked` and
`tick_bad_plan`.

Seen while modelling, without a run of their own:

* A plan whose order was placed and whose transaction was lost is sold again by
  the stuck sweep: `l4_sweep_tasks.py:471` calls a retry idempotent. The model
  has it as `lost`, and `NoDoubleSell` is stated relative to it.
* The consumer reads with `>` only (`trade_event_consumer.py:88`) and nothing
  reads or claims the pending entries: a fill whose evaluation raised, or that a
  consumer had in hand when it died, is never evaluated, though the file says
  at-least-once (lines 4 and 123) and names its consumers for a recovery with
  `XCLAIM` (line 34). The theorem `LostForGood` proves it, `LossIsBounded` bounds
  it.
* The L3 recovery streak counts checks, two a day, where
  `risk_control_service.py` speaks of consecutive days (`:1369`, `:1469`).
* A check that read level 3 writes it back over a force reset
  (`risk_control_service.py:1616`): no log row says so, and `ChangesAudited`
  excepts level 3 for it. `risk_repository.py:57` calls the log the history of
  the changes of state.
* A cancel that is not confirmed within 30 seconds is followed by a second order
  while the first is open (`qmt_execution_adapter.py:695`; line 4 announces the
  confirmation).
* A first caller without `conn_factory` (`market_regime_tasks.py:77`,
  `risk_reflector_tasks.py:184`, `app/api/agent.py:257`) leaves its process a
  router without a guard, also for callers that ask for one later.
  `llm/bootstrap.py` says (lines 79 to 85) that production callers, the
  reflector by name, must pass it.
* `budget.py:22` calls `strict=True` the ultimate protection: it tests the same
  snapshot as the default, and nothing builds a strict router. When
  `record_cost` fails, the answer that was paid for is lost with its audit row.
* Rows of capped calls count as provider failures in
  `meta_monitor_service.py:308`.
* `registry.py:233` calls it a safety incident to skip a live strategy in
  production; `strategy_bootstrap.py` catches that error with every other and
  runs S1 alone, S1 that was paused included. A first registration with a class
  declared live does not pass the gate.
* An outbox row whose append is refused to the last retry, and whose dead letter
  is refused too, is marked published and is in no stream (`outbox_publisher.py:186`
  to `:200`; line 14 says it is not lost in silence). A log line remains.
* An OFF plan, born CONFIRMED, is picked up by the stuck sweep after its age
  limit, and not by the 60-second sweep that `realtime_risk_tasks.py:323`
  speaks of, whose `WHERE` asks for `PENDING_CONFIRM`.
* `ORDER BY created_at` is the order of transaction beginnings: a transaction
  that began first and committed last is sent last (`outbox_publisher.py:125`).
* After an approval the same check recovers to level 0 and, if the newest loss
  still calls for level 4, goes straight back to it: `approve_l4.py:5` and
  `:194` announce a recovery at the next run.
* `approve_l4.py --force-reset` writes the row of mode `paper` only, and
  cancels the pending approvals of a live strategy while its level stays.

## 6. Not modelled

`PROJECT.json` lists every component with the reason. In short: numeric code
(backtest, factors, mining, signals) has no interleaving and its data is out of
TLC's reach; ingestion, scripts, backup and the frontend are input and output;
the agents call language models. Within the modelled parts: message wording,
webhook signatures, payloads, prices and quantities, metrics and logging.

## 7. Plan

Done: the nine parts above, in the order of what a failure costs.

Left, extending the model:

1. `SellBatches`: the batched planner as pure operators, checked against a
   reference over bounded inputs.
2. `FactorRegistry`: the direction cache and its time to live against status
   changes made by the lifecycle task.
3. Portfolio snapshots in Redis and the staleness their readers accept.

To keep the number of runs at what one reader can take in, runs of one module
are merged where their instances agree, and a disagreement with a comment gives
way to a component.

Left to prove: no safety property of a run. Worth a theorem: that managers who
do not overlap need no exception of `GoesLiveEvaluated`, and senders who do not
overlap none of `NoRepeatInWindow`.

## 8. Running

`tlc -workers 2 -config <run>.cfg <module>` for a run, `tlapm <module>_proofs.tla`
for the proofs; `PROJECT.json` gives the module of each run.
