# Verification of the paper-trading runtime

The repository runs one-share paper orders at the Korean broker KIS. Its risk is
in its coordination with the outside: a broker that fills while the program cancels, a
store written in several transactions, processes that die, several schedulers, executors
and loaders on one database, one token file for all clients. These modules model that core
in TLA+. TLC checks it on small instances and TLAPS proves its safety properties for every
instance. Paths are relative to the repository root; line numbers are in `PROJECT.json`, under `map`.

## 1. Inventory

### Components that carry the core logic

| Component | Source | State | Operations |
|---|---|---|---|
| Trade runner | `src/app/run_trade_once.py`, `src/execution/cancel_loop.py` | `run()`'s local variables; rows of orders, fills, positions, position_events, trade_runs | gate on UNKNOWN, reconcile, gate on a duplicate intent, submit, record, poll, book a fill, cancel until terminal, except and finally clauses |
| Reconciliation | `src/app/reconciliation.py` | none (pure) | `map_broker_status`, `reconcile_local_and_broker` |
| Trade loop | `src/app/run_trade_loop.py` | the lock file, a kill switch | acquire, release, stale test, the loop |
| KIS order client | `src/integration/kis_client.py` | none that lasts | submit, cancel, two order endpoints, snapshot, position |
| KIS token cache | `src/integration/kis_auth_manager.py` | `.kis_token_cache.json`, a token in each client's memory | load, check, issue, persist, fall back |
| State store | `src/state/store.py` | the SQLite tables | one transaction per function |
| Scheduler lease | `src/state/store.py` 1096-1283 | one `scheduler_leases` row per key | acquire, heartbeat, release, validate |
| Diagnostic scheduler | `src/app/diagnostic_scheduler.py`, `runtime_scheduler_supervisor.py`, `src/brain/diagnostic_orchestration.py` | `diagnostic_runtime_heartbeats` rows, a held token | decide, take the lease, validate, write the heartbeat, release |
| Paper order intents | `src/state/store.py` 1345-1566, `src/execution/broker_submit_state.py` | `paper_order_intents` rows | create, compare-and-set transition, resolve |
| Paper order execution | `src/app/task_585_kis_paper_order_execution.py` | `run_task585`'s locals; rows of orders, fills and execution events | check active orders, refresh them, claim, submit, record, snapshot, book, remember |
| Market-hours loop | `src/app/task_588_kis_paper_market_hours_runtime_loop.py` | a heartbeat row per 5-minute bucket | guard, iterate, catch all |
| Broker truth reconciliation | `src/app/broker_truth_reconciliation.py` | `broker_orders` of one call | fetch, list, resolve |
| Paper eligibility path | `src/execution/paper_eligibility_path.py`, `src/brain/runtime_authority.py` | none | judge evidence, create an intent |
| Source acquisition | `tools/db/run_source_acquisition_once.py` | leases, fingerprints, receipts, freshness, ledger, the family's table; raw files | take the bucket's lease, fetch, drop a known input, write the raw file, upsert, commit or roll back, record a failure |

How they interact. The trade loop holds the lock file and calls `run()` again and again; only
the store carries anything from one run to the next. `run()` reads and writes the
store through single-transaction functions and calls the client, which polls a
broker that moves by itself. The cancel loop gets its broker and store calls as
callbacks. The market-hours loop calls `run_task585` once in a bucket. Supervisors, executors
and reconciliations are separate processes that meet only in the store, through `INSERT OR IGNORE`,
compare-and-set updates and the lease. Acquisitions meet on the write lock of `trading.db` and in
the raw files; all clients meet in the token file.

### What is hard, and what makes each part correct

- **Trade runner.** Crash or exception between any two of its transactions; a reply
  lost after the broker acted; a fill during the cancel loop; a broker view that is
  incomplete, worded strangely, or of the wrong day. Correct: no second live
  order for one intent, no submission over an unresolved or unbooked order, no
  execution booked twice, records that agree, no status rewritten that is settled.
- **Trade loop.** Loops started at the same time over a dead loop's lock. Correct: one
  loop runs.
- **Lease and scheduler.** Time read once per run, expiry under the owner's feet, late
  release. Correct: one believer at a time, evidence written under one's own lease.
- **Paper intents.** Executors and reconciliations racing on one row. Correct: one
  submission per decision, the order behind an intent can always be found.
- **Paper order tracking.** An order is remembered in three places (intent, orders table,
  execution event), its fill is read from two (order query, account position), and an iteration can be
  cut anywhere while its heartbeat is already there. Correct: one live order per symbol, a fill row
  for each execution and for nothing else, executions booked at last.
- **Source acquisition.** One long transaction around a network fetch, and a file that does not roll back
  with it. Correct: evidence complete and consistent, data never replaced by older data, the latest arriving.
- **Token cache.** A file written in place by clients of two environments, and a broker that issues one token a
  minute. Correct: no foreign and no expired token in use, and nobody shut out.

`PROJECT.json` lists every hazard at its line with the properties that watch it.

## 2. Modules

| Module | What it is |
|---|---|
| `Reconciliation` | pure operators: `Reconcile(local, booked, rows)` with the events of the code |
| `FillLedger` | abstract: orders are placed, executed and booked, never more than executed |
| `TradeRun` | the runner, its store and the broker; EXTENDS `Reconciliation` |
| `TradeRunProperties` | what TradeRun satisfies, its refinement of `FillLedger`, strengthenings for the proofs |
| `TradeLoopLock` | the lock protocol that lets TradeRun assume one loop |
| `SchedulerLease` | abstract and concrete at once: the lease row and its owners; specification `LeaseSpec` |
| `DiagnosticScheduler` | runs of the scheduler over that row; refines `LeaseSpec` |
| `PaperOrderIntent` | abstract: the transition table of an intent; specification `IntentSpec` |
| `PaperOrderExecution` | executors, reconciliations and broker; refines `IntentSpec` |
| `PaperOrderTracking` | the iterations of the market-hours loop, and in them the refresh, submission, booking and events of `run_task585` |
| `SourceAcquisition` | runs of one source family by several processes |
| `KisTokenCache` | clients of two environments on one token file |
| `*Proofs` | the theorems; the trade runner has two such modules: `TradeRunProofs`, and `TradeRunLedgerProofs` for what is said of sums |
| `MC*` | symmetry sets; the `.cfg` files give the constants |

Three refinements. `FillLedger` is instantiated in `TradeRunProperties`,
`INSTANCE FillLedger WITH placed <- ..., executed <- bfilled, entered <- booked`: its variables
are functions of the runner's, and `BooksExecutions` says that every behaviour of the runner is one of the
ledger. `LeaseSpec` and `IntentSpec` are refined by EXTENDS: the detailed module uses
the abstract module's variables and operators and adds its own, so the mapping is the identity.

### TradeRun against the code

One action is one store transaction or one broker call, because those are the points where
the process can die or the broker can move. `pc` names the point in `run()`:

| `pc` | code in `run()` |
|---|---|
| `idle`, `recon`, `price` | `_assert_trading_allowed`, `_run_reconciliation_check`, `has_blocking_order_intent` |
| `submit`, `record` | `submit_order_with_response`, `record_order` |
| `poll`, `filled` | the polling loop, `update_order_status(FILLED)` |
| `fix`, `position`, `event`, `settle` | `_apply_broker_fill_correction`: `record_fill`, `update_position`, `record_position_event`, its return |
| `cancel`, `cancelTop`, `cancelReq`, `cancelSave`, `audit` | `cancel_until_terminal` and the reconciliation after it |
| `announce`, `handler`, `finish` | Slack notice, `except`, `finally` |

`fills[o]` is the set of quantities of the fill rows of `o`: the code's dedupe key is made
of order id, quantity, price and time source, of which the quantity alone varies here.
`booked[o]` is their sum as the correction reads it; `BookedIsFillSumCorrect` proves that it is. The broker variables change by
`BrokerFills`, `BrokerCloses`, `NewDay`, `BrokerTakes` and accepted cancels.

`faults` is chosen once, at the start of a behaviour, from the constant `FaultSets`: a
property that needs a clean environment states so in its own hypothesis, and one
run covers several environments. `PaperOrderTracking` and `PaperOrderExecution` do the same.

Deliberate abstractions: one view `v` stands for both order endpoints of one query; one
failing history date is a failing endpoint; the average fill price is constant;
cancel replies never carry a mapped status word, as the endpoint's `msg_cd` never does.
Control-state checks and candidate selection only prevent a run, which the model
may do at any moment.

### PaperOrderTracking against the code

| `at` | code |
|---|---|
| `idle`, `decide`, `read` | task 588: heartbeat guard, Task 584's decision; task 585: the decision it reads |
| `list`, `refresh`, `position`, `write`, `mirror` | `_refresh_active_local_orders`: its list, the order query, the position fallback, the order row with its fill, the event |
| `claim`, `baseline`, `submit`, `unknown`, `fail` | the intent's claim, the position before, the submission and its two except clauses |
| `record`, `snap`, `save`, `book`, `settle`, `event`, `audit` | the order row, the first snapshot, its status, the fill, the final status, the execution event, and the baseline added to it in a transaction of its own |

A decision's intent is only its claim here (`claimed`); `PaperOrderExecution` has its races. A
broker answer is any member of `Answers(d)`, the answers the broker's state and the
faults allow. `beat` is the heartbeat of the present bucket, written before the work is done.

### The other modules against the code

- `TradeLoopLock`: a step is one system call of `_acquire_lock`, `_is_stale_lock` and
  `_release_lock`. A lock whose file holds no pid yet never counts as stale.
- `SchedulerLease`: `now` is any time up to the clock, since callers pass the time
  they read earlier. `Renew` (`heartbeat_scheduler_lease`) has no caller outside the tests yet.
- `DiagnosticScheduler`: `started` is the `now` read once at the start and used in every
  call. A heartbeat's idempotency key is the state's hash; inserts ignore a key that exists. `Paper` has the
  answers `is_paper_environment` may give: both in `scheduler`, only TRUE in `evidence`, since the supervisor rejects every
  other environment before it gets here (`runtime_scheduler_supervisor.py` 106).
- `PaperOrderExecution`: `at` names the call of `run_task585` an executor is before. A
  reconciliation fetches the broker's rows, lists the intents, then reads and resolves
  each one in two transactions. An active order that blocks a symbol just keeps
  an executor from starting.
- `SourceAcquisition`: what a run writes before `Commit`, the end of `with con`, is in the draft variables and in its own; `writer` is the
  database's write lock, taken with the lease and kept through the fetch. The evidence is written row by row inside
  that transaction and shown by `Commit` all at once, as SQLite does it. The raw file is outside. An input is
  a bucket with a content, and contents are numbered in the order the provider publishes them.
- `KisTokenCache`: a token is its environment and the ticks it has left. `EmptyFile` and `WriteFile` are the two
  halves of `write_text`; a read between them, or of what two writers left, finds no token. `WriteFails` is an error of the
  operating system in either half: the client's call fails with the token it had just been issued.

## 3. Runs

Each run's state space is explored completely.

| Run | Instance | What it shows |
|---|---|---|
| `gates` | 2 orders, BUY and SELL, 2 prices, 1 share, 2 polls, 2 cancel attempts, 4 fault sets | the nine properties of the runner as configured |
| `ledger` | 2 orders of 2 shares, BUY, 1 poll, 2 cancel attempts, all seven faults at once | the runner implements `FillLedger`, its records stay in order, every run ends |
| `lock_starts` | 4 processes | one loop runs if starts do not overlap, or until somebody leaves |
| `lease` | 3 owners, ttl 2, clock to 5, 4 tokens | mutual exclusion of believers |
| `scheduler` | 2 owners, 2 states, clock to 3, any environment | runs keep to `LeaseSpec` and fence their heartbeat |
| `intent_once` | 1 decision, 3 executors, 2 reconciliations, 2 orders, 2 symbols, 2 fault sets | one submission, traceable orders, `IntentSpec` |
| `tracking` | 2 decisions for 1 symbol, 1 open and 2 daily orders, 2 days, 4 fault sets | one live order, real fills, booked once and at last; iterations go on |
| `acquisition` | 2 processes, 2 buckets, 2 contents, 2 captures | receipts match files, evidence is complete, nothing goes back, the latest arrives |
| `token` | 2 clients, 2 environments, life 3, margin 1, 2 faults (`MaxFaults`: crashes and failing writes) | no foreign token, no expired one in use, everybody served |

Why the bounds are enough.

- Two orders suffice for two live orders of one intent, for
  a late fill over a new submission and for a position bought and sold again. Two polls and two
  cancel attempts make the first, the repeated and the last turn of each loop
  happen (`ledger` polls once; its corrections all follow the polling). Two shares are the least
  that can be filled in parts, and two equal parts collide in the dedupe key.
- Two reconciliations with three executors give every race on an intent row: two losers of the claim,
  and a row that is resolved between another's read and its update. Four processes give a dead
  lock owner, two contenders and a bystander.
- A clock to 5 with ttl 2 lets a lease expire twice and a token from the first term come back in the third.
- Two decisions for one symbol are an order and the one that must wait for it, or the one whose position change could
  be mistaken for the first one's; `MaxOpen` 1 is the code's default, and a daily limit of 2 is reached by the second.
  Two days let an order outlive its day.
- Two processes, two buckets and two contents let one bucket hold two inputs, one content come in two
  buckets, and a run carry older content than the one beside it. Two capture hashes tell a file from its rewriting.
- Life 3 and margin 1 give a token that is fresh, one inside the margin, and one that has expired.

The fault sets of `gates`: crashes, exceptions, lost replies and day ends with
complete views; everything but exceptions; lost replies and late fills; lost replies
alone. The first serves the properties about the broker's book (`LiveIntentUnique`,
`SubmitOnlyWhenAccounted`), the second those about statuses (`UnknownPreserved`,
`TerminalIsFinal`, `FinishedRunClosesOrder`), the third `ResultTellsBooking`, the last
`PositionIsLedger`. `HaltedOnUnknown` needs no hypothesis. A late fill is an execution
the broker shows only after the cancellation, as
`docs/contracts/cancel_reconcile_loop_contract.md` 172-180 expects: with it a partial
fill and its late other half meet in the dedupe key, and a late fill after the
last run is an execution nobody books until the reconciliation gate finds it.

The fault sets of `tracking`: exceptions, failing queries and day ends; failing queries, unmapped texts and
events pushed out of the window of 200; crashes; lost replies. `OneLiveOrder` and `FillIsReal` hold as long as every
submission is remembered (`Remembering`): no crash, no lost reply, and no exception together with a forgotten event, so
under the first two. `BookedOnce` asks that nothing cuts a booking short (no crash, no exception); `FilledIsBooked` says two things, the
stronger without crashes and exceptions, the weaker without exceptions only: an order that is FILLED without a fill row has no execution event
either. `IterationsGoOn` holds under all. `ExecutionIsBooked` is stated without exceptions and day ends, so under the
last three: iterations may die, but for the run that submitted the order, which may yet take it from the later ones by writing
FILLED.

`CHECK_DEADLOCK FALSE` stands where the system really stops: the runner refuses to start
while an order is UNKNOWN, and order ids run out; a pid is used once; days and decisions of `tracking` run out.

**Fairness.**

- `ledger`: weak fairness of the program's own steps while a run is in progress: the loop is a sequential process that
  always has a next statement. Nothing is asked of the broker, which may never
  answer a poll usefully, and nothing makes a new run start. Crashes are allowed too: they end a run.
- `tracking`: weak fairness of the program (`run_task588` is a loop, and its supervisor script starts it again), of the
  passing of buckets, and strong fairness of the answer FILLED for an executed order that is asked for again and again: a broker that
  never tells cannot be reconciled by any program. `ExecutionIsBooked` also supposes that runs get to their refresh again
  and again, because a candidate for a blocked symbol returns before it (592); nothing in the code sees to that.
- `acquisition`: weak fairness of each run's steps and of its failure row; strong fairness of taking the write
  lock, since SQLite retries for 30 seconds and the others release it (weak fairness of `OthersUnlock`). Crashes,
  exceptions and timeouts may go on for ever; `LatestArrives` starts when they stop.
- `token`: at most `MaxFaults` crashes and failing writes (a file that can never be written leaves a client unserved whenever
  another one takes the token of the minute); time passes, clients go on, and strong fairness of asking and of issuing, since another client may take the one token
  of a tick again and again, but not for ever.

### Claims of the documents that the code does not keep

| Run | Claim | What the trace shows |
|---|---|---|
| `unknown_rewritten` | exceptions keep UNKNOWN | the cancel loop stores UNKNOWN; an exception before `run()` has taken that over makes the `except` clause store FAILED |
| `evidence` | a tick that took the lease records its evidence | both supervisors are in the paper environment; one holds the lease and has not yet written, the other is refused and writes LEASE_HELD_SKIPPED under the same idempotency key first |
| `phantom_fill` | unfilled orders are not shown as fills | the reply of a first order is lost; it fills while a second one is open, and the grown position is taken for the second one's fill |

### Seen while modelling, without a run of their own

Trade runner and client:

- `kis_client.py` 414 and 481 return no rows when an endpoint fails, so the reconciliation
  cannot block on it (`docs/audits/task_090_full_project_audit.md` 89 says it does). This is the `fetch`
  fault, and the reason why `LiveIntentUnique` speaks of the market only with complete views, and of the store always.
- `kis_client.py` 322: an accepted cancel request is stored as CANCELLED without asking the broker again, and
  `run_trade_once.py` 481 submits for a new price while an interrupted run's order is open on both sides. The contract
  `docs/contracts/cancel_reconcile_loop_contract.md` has the broker settle terminal states, and no new order before that.
- FILLED is stored before its fill row (`run_trade_once.py` 737), and the fill row before the
  position (199, 211): a crash in between leaves what `execution_state_contract.md` 204 and 210
  exclude. `LedgerBracket` says what remains true.
- A broker-side REJECTED or EXPIRED is rewritten to UNKNOWN by the `except` clause (909) and halts the loop although the order
  is settled, so `TerminalIsFinal` names FILLED and CANCELLED only.
- `run_trade_loop.py` 59: two starts that find the same dead lock both unlink it, the slower one the
  faster one's new lock; `tasks/task-032-execution-loop-foundation.md` asks for a single-process lock. `SingleLoop` has
  the hypothesis `~overlap` for it.
- `run_trade_loop.py` 188: the persistence capture runs in the `else` of the `try`, where no `except` catches its errors: a locked
  database there ends the loop.

Scheduler, intents, paper orders:

- The scheduler's token is checked before the write and with the time of the start
  (`diagnostic_scheduler.py` 233): `FencedRun` allows a write after the lease ran out.
- `store.py` 1546 returns a resolution whether or not its compare-and-set found the row.
- Task 585, 920: a lost reply leaves the intent BLOCKED with a live order behind it; the report of tasks 3481-3530 has a timeout
  leave UNKNOWN. `TakenOrderTraceable` excludes lost replies for it.
- Task 585, 289: on a day without orders the daily limit counts those of the latest day that has any, so that after a
  full day nothing is submitted again (`Counted`; the test in `tests/test_task585_kis_paper_order_execution.py` 77 expects the fallback).
- An event older than the latest 200 is forgotten. That is harmless for an order that is in the orders table; an order that failed
  to be recorded is forgotten with it, and its symbol is free again (fault `window` together with `raise`).

Source acquisition and token cache:

- The branch for a held lease is dead: HELD is never committed (`LeaseNeverLeftHeld`). The test at
  `tests/test_db_source_acquisition_runner.py` 589 inserts such a row by hand.
- The write lock of `trading.db` is held through the network fetch; other writers time out after 30 seconds, and
  the FAILURE row of a run may be lost the same way (`FailureTimeout`).
- Content that comes back within a bucket after another one is dropped as a duplicate. The model's provider never goes
  back; for one that does, the table keeps the other content until the next bucket.
- `kis_auth_manager.py` 92-96, the fallback to the cached token, is reached only with a forced refresh; and an expired token in
  memory is never replaced from the file, so that a rate-limited client fails although the file has a valid one.

## 4. What is proved

TLAPS checks every theorem for all values of the constants, from the named assumptions in the
modules (`ConstantsAssumption`, `LeaseAssumption`, `SchedulerAssumption`, `IntentAssumption`,
`ExecutionAssumption`, `LockAssumption`, `TrackingAssumption`, `AcquisitionAssumption`, `TokenAssumption`): positive
quantity and bounds, fault sets made of known faults, `None` outside the sets it stands next to.

| Theorem | Inductive invariant and argument |
|---|---|
| `TypeCorrect` | `TypeInv` = `TypeOK` and `RunMemory`: a run inside its order knows its order, so `status[cur]` makes sense; a correction in progress is positive |
| `NoOverBookingCorrect` | `SnapshotBounds`: no view shows more than was executed; the correction books the difference |
| `BooksExecutionsCorrect` | with `NoOverBooking` and `ExecutedPlaced` (what is executed was placed) each step is a placement, an execution, a booking, or leaves the ledger alone (`LedgerStep`) |
| `HaltedOnUnknownCorrect` | `HaltInv`: between the check and the submission no step writes a status |
| `LiveIntentUniqueCorrect` | `StoreInv`, under all faults: a run's order is the only open one of its intent in the store (`OwnStatusOnly`). `CompleteViews => GateInv`: a live order is in both endpoints; past the reconciliation every live order of the symbol is locally open; past the second gate none of those has the intent (`ReconciliationSeesLiveOrders`) |
| `UnknownPreservedCorrect`, `TerminalIsFinalCorrect`, `FinishedRunClosesOrderCorrect` | `NothingRaises => OrderPhase`: the stored status of the run's order at each program point; `SettledKept` says which steps can then write |
| `SubmitOnlyWhenAccountedCorrect` | for one share, `OneShareInv`: a fill row is the booked share, an executed share is FILLED; `AccountedGate`: past a reconciliation that does not block, every order of the day on the symbol is fully booked or still locally open, also when fills come in before the submission (`ReconciliationSeesFills`) |
| `ResultTellsBookingCorrect` | for one share, `ReportPhase`: what the run knows of its order's execution at each program point, from `Unbooked` points to the result |
| `RunIsBounded` | `CallsLeft`, a number that every step of a run lowers and nothing else touches: the program point, and how many polls and cancel attempts are left (`AttemptsCounted`) |
| `BookedIsFillSumCorrect` | `LedgerRows`: rows belong to placed orders, a correction that is under way adds a quantity no row has yet |
| `LedgerBracketCorrect` | for buys, `BracketInv`: the bracket with what the correction at hand has still to write (`Pending`); `LedgerEffect` sorts all steps into the four that touch the ledger |
| `PositionIsLedgerCorrect` | for one share, with lost replies at most: `PositionInv`, the position is the net of what is booked but for the share being written (`Outstanding`); a sale is not cut off at zero (`PositionCovers`), because the account is never short (`NotShort`) and past the reconciliation all other orders of the symbol are booked in full and off the book (`OthersSettled`) |
| `LeaseMutexCorrect`, `BelieverHoldsRowCorrect` | `LeaseInv`: tokens are fresh and personal, a believer's expiry is the row's |
| `SchedulerImplementsLease`, `FencedRunCorrect`, `SchedulerTypesCorrect` | `StartedInPast` (no run is ahead of the clock) makes each step a lease step; `HoldsToken` carries the validated token to the write |
| `OneSubmissionCorrect`, `ExecutionImplementsIntent` | `ExecInv`: one executor owns a claimed intent, which is SUBMITTING meanwhile; an order belongs to a claimed intent; no order id before SUBMITTING is left |
| `ExecutionTypesCorrect`, `TakenOrderTraceableCorrect` | `TraceInv`: an order is with an executor that still holds its id (`Sending`), or its row or its intent names it |
| `SingleLoopCorrect`, `LockTypesCorrect` | `LockInv`: with serialised starts, a running process owns the written lock file, or nobody runs |
| `UntilFirstExitCorrect` | `FirstOwner`: as long as nobody has left, the file is its creator's, who is alive, so nobody comes to unlink it |
| `TrackingTypesCorrect`, `OneLiveOrderCorrect`, `FillIsRealCorrect`, `BookedOnceCorrect`, `FilledIsBookedCorrect` | `TrackInv`: what the run at each point knows of its decision (`Working`), that a live order is active in the store or in an event and so blocks the next (`Blocks`), what the position can say of an open order (`Reports`), which points lie between fill and status (`Booking`), and what is left of that in the store when a run dies (`Survives`) |
| `ExecutedNotGivenUpCorrect` | `ClosedIsClosed` beside `TrackInv`: CLOSED is written only of an order the broker closed, under all faults |
| `IterationIsBounded` | `StepsLeft`, four for every order that is still to be refreshed and one for each point after: every step of an iteration lowers it |
| `AcquisitionTypesCorrect`, `ReceiptMatchesFileCorrect`, `EvidenceCompleteCorrect`, `LeaseNeverLeftHeldCorrect`, `TableNeverGoesBackCorrect` | `RunInv`: one writer (`OneWriter`); what a run inside its transaction knows (`Knows`): its frame is not older than the table, the file has its hash |
| `SeenInputIsInTableCorrect` | `PrintsInTable` beside `RunInv`: fingerprints are not ahead of the table, so that a dropped input is in it |
| `TokenTypesCorrect`, `OwnEnvironmentCorrect`, `TokenOutlivesRequestCorrect` | `TokenInv`: a token in hand is of the client's environment and outlives the margin less the time waited (`Holdings`) |

The properties are not inductive on their own. `LiveIntentUnique`
says nothing about what a run has already checked when it submits, `UnknownPreserved`
fails from a state whose memory and stored status disagree, `OneLiveOrder` says nothing of what would block the second
order; the strengthenings supply this. The hypotheses on `faults` go through because no step changes it (`FaultsFixed`).

Sums. The ledger's properties add up the rows of an order and the orders of a symbol, with the folds of the
community modules. `TradeRunLedgerProofs` proves from the folds' definitions what its theorems need of them: the sum over
the empty set, over a set with one more element, and after one value has changed (`SumEmpty`, `SumAdd`, `SumChange`). The
fold's value is a table over the subsets of a finite set; there is exactly one such table (`SumTableUnique`,
`SumTableExists`), by the smallest subset that would contradict it (`SmallestSet`, from the well-founded order of
the finite subsets), which needs no induction theorem with an operator parameter.

All safety properties of the runs are proved: every invariant, every action property and the three refinements. Only
model-checked is the liveness: `RunTerminates`, `IterationsGoOn`, `ExecutionIsBooked`, `LatestArrives`,
`ClientsAreServed`; fairness and ENABLED are out of the prover's reach. What they need of single states and
steps is proved for the first four: runs and iterations cannot go on for ever (`RunIsBounded`, `IterationIsBounded`), an
executed order is not lost to the refresh (`ExecutedNotGivenUpCorrect`), and no fingerprint keeps content out
(`SeenInputIsInTableCorrect`). What is left to TLC there is that a step is always possible and is taken. What
a recursive definition computes for every input is out of reach too; no module declares a RECURSIVE operator.

The hypotheses. `SubmitOnlyWhenAccountedCorrect`, `ResultTellsBookingCorrect` and `PositionIsLedgerCorrect` assume `Qty = 1`, the
quantity the code orders (`run_trade_once.py` 472), and `LedgerBracketCorrect` assumes `Sides = {"BUY"}`: for a sale, position and
fill rows move apart the other way round. Everything else holds for all values the assumptions allow.

## 5. Limits of the models

- TradeRun assumes one loop process. `TradeLoopLock` shows when that is so.
- With more than one share per order `SubmitOnlyWhenAccounted` would fail, because the reconciliation
  asks for any fill row, not for the right total: hence the assumption `Qty = 1` of its theorem. The code orders one share
  (`run_trade_once.py` 472); `ledger` uses two for the arithmetic of corrections.
- A view answers both endpoints at one instant; the code makes two or more requests. A split between
  them is covered only as far as `fetch` faults drop one side.
- `TakenOrderTraceable` is checked for one decision: intents do not share an order.
- `PaperOrderTracking` has one executor and buys only; `PaperOrderExecution` has several and their intents, but not the orders table.
- `SourceAcquisition` has one family in a run. A run of several has them in the same transaction, one after the other.
- The store's transactions are atomic and durable, as SQLite provides. `EvidenceComplete` and `LeaseNeverLeftHeld` rest on this
  more than the others: they hold because `run_once` puts a family's whole run into one `with con`, and would show a write that
  is moved out of it, not one that SQLite loses.

### Not modelled

- **Continuation capture** (`state/continuation_capture.py`): it records the lifecycle of a setup for research. Both callers swallow its
  errors, except for the one named in section 3, and nothing in the runtime reads it back. Seen in it: an event whose snapshot or
  closing was cut off is found again by the retry, which then returns early, so that the lifecycle stays open; ids are counts
  (`life_`, `evt_`), so two processes can compute the same one; and the setup id has the UTC date, so that
  after midnight the persistence of an open lifecycle opens a new, empty one beside it.
- **Runtime exit engine and exit reconciliation**: batch passes over data frames, started by hand and by tests.
- **Decision pipeline, backtests, research, reports**: numeric work without shared state; in the models its result is an
  arbitrary intent or decision. This is by far the largest part of the repository's lines, and the reason why the map covers a small share of them.
- **Replay, data ingestion, notifications, iOS frontend**: output of recorded rows, downloads, messages and read-only screens.
- **Registered database jobs**: one sequential pass, with nothing beside it; the source acquisition it starts is modelled.
- **Authority rules** (`brain/runtime_authority.py`): a comparison of the evidence with a list of required fields.

## 6. Reading order

`Reconciliation`, `FillLedger`, `TradeRun`, `TradeRunProperties`, `TradeRunProofs`, `TradeRunLedgerProofs`; then the lease
pair, the intent pair, `PaperOrderTracking`, the lock, `SourceAcquisition` and `KisTokenCache`, each with its proofs.
Mutants, the operators whose comment starts with "Mutant:", are wrong versions of the definition that follows them; each
property is violated by one of them.

## 7. Plan

Done, in this order: `Reconciliation`, `TradeRun` with its gates, ledger and statuses,
`SchedulerLease`, `DiagnosticScheduler`, `PaperOrderIntent`, `PaperOrderExecution`, `TradeLoopLock` and their
proofs; then `FillLedger` and its refinement, `PaperOrderTracking` with the market-hours loop, `SourceAcquisition`,
`KisTokenCache`, their proofs and liveness, and the booking theorems of the runner; then the sums
of the ledger, and the bounds on runs and iterations.

Left, should the code come to depend on it: continuation capture, once something reads it back;
`TradeLoopLock` composed with two abstract runs on one store, which would show what an overlap of starts costs;
the exit engine, once the runtime calls it; several families in one acquisition.
