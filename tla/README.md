# A TLA+ development of BOTMEV

BOTMEV is a Rust workspace (`crates/`) for a trading bot: it listens to the HyperLiquid exchange over
WebSocket and JSON-RPC and to an Ethereum-style mempool, evaluates strategies on what it sees, signs and
submits bundles of transactions, and tracks what becomes of them. This directory holds TLA+ modules for
the parts whose correctness depends on the order in which concurrent tasks take their steps or on
arithmetic at a boundary, TLC configurations for small instances, and TLAPS proofs for all instances.

Sections: 1 the system, 2 the plan, 3 the modules and runs, 4 fairness, 5 the proofs, 6 where code and its
comments differ, 7 what is not modelled. `PROJECT.json` holds the same facts for tools: which lines each
definition models, which mutation of it each property detects, and the list of hazards.

## 1. Inventory

`mev-bot/src/main.rs` starts a metrics server, a strategy engine and `HyperLiquidServiceManager`, and calls
the manager's `stop()` on ctrl-c. The bundle pipeline, the state manager, the decision path and the mempool
crate are libraries used by tests and by other binaries. The release profile has no overflow checks
(arithmetic wraps) and aborts on panic.

| Component | State | Operations | Interacts with |
|---|---|---|---|
| RPC service (`mev-hyperliquid/src/rpc_service.rs`) | circuit breaker: three atomics (state, failure count, opening time); the attempt count of each call | `execute_with_retry`, `poll_blockchain_state`, `start_polling`, `submit_transaction`, `wait_for_confirmation` | called by the manager's polling task and by submitters, concurrently; JSON-RPC endpoint |
| WebSocket service (`websocket.rs`) | connection, reconnection state (failures, last success, degraded), per-coin subscription states, message queue, shutdown flag | `start`, `connect_and_run`, `shutdown`, subscriptions and their retries, message parsing (`reconnect` is public and never called) | exchange; channel of parsed messages; metrics |
| Service manager (`service_manager.rs`) | own shutdown flag, two task handles, two receivers | `start`, `stop`, `run_rpc_polling`, `process_ws_messages` | owns both services |
| Opportunity detector, adapter, parser (`mev-hyperliquid`) | prices per coin and DEX, current state snapshot | `process_market_data`, `process_state_update`, conversions | fed by the manager's channels |
| Strategy engine and strategies (`mev-strategies`) | registered strategies, configuration, statistics | `evaluate_transaction`, configuration reload | fed by main |
| Signer and bundle builder (`mev-core/src/bundle/signer.rs`, `builder.rs`, `key_manager.rs`) | nonce tracker, default wallet, templates | `sign_transaction*`, `build_bundle*`, `reset_nonce`, `set_default_wallet` | several tasks share one signer |
| Bundle submitter (`submitter.rs`) | active submissions | direct, relay and racing paths, resubmission with gas bumps | node and relays |
| Execution tracker (`execution_tracker.rs`) | tracked bundles and the last processed block | per-block inclusion checks, cleanup | node |
| Failure handler (`failure_handler.rs`) | kill switch, failure history, rollbacks under way | failure handling with retries, escalation, rollback | everybody may report failures |
| State manager and persistence (`state_manager.rs`, `persistence.rs`) | chain head, block history, pending transactions, nonces; SQLite | block and transaction updates, reorg handling, maintenance, restart | SQLite |
| Ring buffer, backpressure (`mev-mempool`) | bounded queues, drop counters, the pressure flag | push, pop, send and receive under a drop policy | mempool ingestion |
| Mempool ingestion (`mev-mempool`) | filters, decoders, WebSocket connection | parse, filter, forward | node |
| Decision path (`decision_path*.rs`) | stage channels, worker tasks | filter, simulate, build, deliver; shutdown | simulation, bundle building |
| Simulation (`simulation*.rs`, `rpc_client.rs`, `grpc_service.rs`) | permits, pending results, account pool, health of endpoints | single and batched simulations, failover | node |
| Dry run (`bundle/mainnet_dry_run.rs`) | results, status per bundle | `run`: hand over, wait, report | execution tracker |
| Monitoring (`monitoring/health.rs`, `latency_monitor.rs`, `metrics.rs`) | registered checks and results, latency windows | probes, the monitor, recording, reset | HTTP probes |
| Bot binary, configuration (`mev-bot`, `mev-config`) | the tasks it started | startup, event processors, `select!`, shutdown | everything above |

Hard behaviours: several tasks act on unprotected atomics or on state they read before an `await`;
connections fail, break and close at any moment; timers race answers; long-lived counters drift; a stop
waits for tasks that may not be listening. `PROJECT.json` lists the hazards with the lines where they bite.

What makes each component correct:

- RPC service: the circuit opens only after as many failures as configured, keeps its cooldown, and a
  recovered endpoint is used again.
- WebSocket service: it reconnects for as long as it is meant to run, slows down as configured, and no
  subscription is lost or believed to be served when it is not.
- Service manager: one feed and one polling loop at a time; `stop()` returns and leaves nothing behind.
- Signing and building: no nonce twice for one wallet; a bundle is one sequence of nonces of one wallet;
  an abandoned build does no harm.
- Submitter, tracker, failure handler: a bundle is not broadcast in part, tracked twice or dropped while
  pending; an active kill switch stops everything.
- State manager: head, history and nonces agree with each other, a reorganisation loses nothing, a restart
  loads what was stored.
- Decision path: a transaction is in one place, leaves once, and is accounted for; the stages all get to run; a
  shutdown ends every task.
- Queues: bounds hold, what is dropped is counted.
- Mempool, filters and decoders: a transaction is noticed once and counted once; a verdict depends on the rules
  and not on their history; no slice outside the data; the shared pool stays bounded.
- Strategy engine, configuration: the cache stays bounded, nothing is planned for a strategy that is gone,
  listeners know the configuration in force.
- Simulation: permits come back, a result belongs to its request and never claims more than was simulated.
- Bot: no service is left behind by a failed start, and no trade is lost between the tasks.

## 2. Plan

Done:

1. `Breaker`, `RpcService`, `RpcServiceProofs`: the circuit breaker as an abstract machine, the concurrent
   atomics, refinement for one caller. `BundleSigning`: nonces and bundles.
2. `WsService`; `ServiceManager`, which composes it. `Pipeline` and `DecisionPath`, which implements it.
3. After a bundle is built: `BundleSubmitter`, `ExecutionTracker`, `DryRun` (composed with the tracker),
   `FailureHandler`, `RpcRequests`, `KeyManager`, `BundleBuilding`.
4. What comes in: `MarketFeed`, `Mempool` (with the backpressure buffer), `StateManager`, `Persistence`.
5. The engines: `StrategyEngine`, `StrategyConfig`, `HealthChecker`, `ForkSimulator`, `SimulationOptimizer`,
   `RpcClient`, `LatencyMonitor`.
6. From a transaction to a plan, and the binary: `FilterEngine`, `AbiDecoder`, `Strategies`, `Bot`, `DecisionStats`.

7. Proofs, for all values of the constants, of every invariant that a run checks (section 5), with the lemmas about
   sequences they share in `SubsequenceProofs`.

With these every invariant and every action property of a run is a theorem; what is left to TLC is liveness.

Modelling left: the calldata and parameter types of decoded calls, the WebSocket connection pool of the
RPC client, the profit and gas estimates of the detector.

## 3. Modules and runs

A property of a run is one named conjunction of a component's parts; the parts are defined and explained one by one
in the modules. The runs `Bundles`, `Feeds`, `Engines` and `Intake` hold several components each. These
components share no state in the code either (each owns its fields, and the bot wires them by channels that are
modelled on both sides), so the MC module has a variable `focus` that picks one component at the
start; the others stay in their initial state. This makes the state space the sum and not the product of the components.
Where components do interact they are composed: the manager with its feed, the dry run with the tracker, the market
queue with converter and detector, the RPC loop with its breaker.

### Breaker, RpcService

`RpcService` has one action per access to the breaker's atomics: the loads of `should_allow_request`
(`AllowLoad`, `CooldownCheck`), its store of `HalfOpen` (`ProbeStore`), `record_success` (`SuccessLoad`,
`CloseStore`, `ResetStore`) and `record_failure` (`FailLoad`, `FailCount`, `TripStore`, `StampStore`), with the
retry loop of `execute_with_retry` between them (`AttemptOk`, `AttemptFails`). `state`, `failures` and `age` are
the atomics; `age` is the difference of the clock and `opened_at`, the only form in which the code uses them.
Both counters stop at the constant they are compared with, so the model has no bound on time or calls. The
code's `Relaxed` accesses are taken in program order of each task: the model shows what interleaving alone
does. `SystemTime` is assumed not to step back.

`Breaker` is what the module documentation promises, one action per method.

| Run | Question | Instance |
|---|---|---|
| `RpcOne` | Does the service with its one polling task (as the manager starts it) implement `Breaker`, keep the cooldown and never meet an open circuit in `record_success`? | 1 task, threshold 3, cooldown 2, 2 attempts |
| `RpcShared` | With three tasks that interleave: no circuit opened without `THRESHOLD` failures, attempts bounded, recovery after an outage | a loop, a `start_polling` loop, a submitter |

A threshold of 3 lets failures and successes alternate below it; a cooldown of 2 tells "no wait", "too short" and
"over" apart; 2 attempts give a first, a last and no middle. Three tasks are enough for one to be between
load and count, one between state and opening time, and one about to succeed.

`start_polling` alone never leaves an open circuit: it skips its turn while the circuit is open, before the check that
ends the cooldown; the loop of the manager, `run_rpc_polling`, calls `poll_blockchain_state` directly and does. `RpcShared` has both.

The two properties that `RpcOne` checks with one caller do not survive a second one: a task that loads the
state between `TripStore` and `StampStore` uses the previous opening time, and a request admitted before the
circuit opened closes it when it succeeds. `CooldownRespected` and `NoSuccessWhileOpen` are therefore stated,
run and proved for one caller, which is what the manager creates.

Fairness: tokio runs every ready task and every attempt ends (`time::timeout`), so `Proceed` is weakly fair; the
polling loops tick; the clock advances. Submitters owe nothing.

### BundleSigning

One action per stretch of code between two awaits of `sign_transaction*` (`Alloc`, `SignAllocated`, `Update`)
and of `build_bundle_with_params` (`ReadStart`, `PickWallet`, `SignFixed`, `Advance`, `Target`, `Validate`), with
the failures that leave early. `tracker` is `nonce_tracker`, `default` the key manager's default wallet; `signed`
and `reused` are history variables. `Plans` are the shapes the strategy builders ask for: one post-transaction
(arbitrage, backrun) or one on each side (sandwich). `MaxNonce` bounds the runs: no call starts for a wallet that
has reached it.

| Run | Question | Instance |
|---|---|---|
| `Signing` | A wallet per task: no nonce twice, tracker ahead of everything signed, bundles in sequence, with failures, resets and changes of the default wallet | a builder with two wallets, a signer with a third, nonces to 2, resets to 0 and 1 |

`reset_nonce` is taken as the caller's statement that the transactions from that nonce on are lost. Two tasks that share a wallet can sign one nonce twice, because `build_bundle` reserves nothing and `update_nonce`
overwrites; `Signing` and the theorems are therefore about wallets with one task each. If several
tasks may set the default wallet, a bundle can also mix wallets, since `sign_transaction` takes the default again
for each transaction; `Signing` lets only the task that builds change it.

### WsService

A runner is a task inside `start()`; `reconnect()` is called by nothing in the repository and is left out. The
program counter follows `start()`: check the flag
(`Top`), connect, send the subscriptions one by one, run the select loop (`HandleReply`, `RetryTick`,
`ShutdownTick`, `StreamEnds`, `StreamFails`), record the outcome (`RecordOk`, `RecordErr`), check the flag, wait.
The exchange answers, refuses, closes or breaks (`Answer`, `LinkLost`), and `Outside` makes it reachable or not and
the market busy or quiet. `busy` matters because the 100 ms timer that looks at the shutdown flag is made anew
in each round of the select loop. Durations are not counted; the u64 backoff arithmetic is scaled to `WIDTH`
bits, and `failures` stops at `WIDTH`, where the wrapped product no longer changes. `failures` is `consecutive_failures`, which
counts since the start: `record_success` never resets it (section 6). `streak`, the failures since the last success, is history.

| Run | Question | Instance |
|---|---|---|
| `WsFeed` | `SubscriptionsTracked` (types, limits of requests, no stale confirmation), `WaitsAsConfigured` (degraded exactly when as many connections failed since the start as allowed and the last one did, waits within bounds, overflow included), `LoopGoesOn` (reconnects, subscribes or gives up, ends after `shutdown()`) | trades and order book of one coin, 2 failures to degrade, 2 requests, 4 bits |

Two subscriptions of one coin share `last_attempt` and count attempts apart, which is all the coupling there is;
a second coin adds an independent copy. The product of the backoff wraps in the release profile, in the end to zero, and so does the
wait. `BackoffInRange` says when: never after a failure, if the product fits up to the count that degrades (the degraded
interval is used from there on), but after an orderly end, since the count stays. `gauge`, the degraded metric, is never set
back by `start()`, because it looks at the state after `record_success` has cleared it; of the metric `DegradedAsCounted`
says only that it is not raised early.

Fairness: a connection attempt ends (the code sets no timeout on `connect_async`, so this is an assumption on the
operating system), waits expire, and `select!` polls its branches in random order, so a branch that is ready again
and again is taken. The retry interval ticks every 5 s and leaves the 100 ms timer room in between, hence strong
fairness of `ShutdownTick`. The exchange owes nothing: `Reconnects` assumes that it stays reachable and
`StopsWhenQuiet` that the market is quiet at last, in the formula.

### ServiceManager

`start()` and `stop()` of the manager with the polling loop, composed with `WsService`
(`Ws == INSTANCE WsService`). The owner calls them one after the other, any number of times up
to `Services`; it may also take the feed from `ws_service()` and shut it down.

| Run | Question | Instance |
|---|---|---|
| `Manager` | `CleanRestarts` (never two feeds or loops, nothing left after `stop()`); `stop()` returns if the feed is told to stop too | two starts, owner stops the feed |
| `ManagerStopHangs` (violation) | `stop()` as main calls it: the feed has a flag of its own that nothing sets | one start |

The flags are never reset, so the loops of a second `start()` end at once; the model shows this too.
Fairness: ready tasks run; nothing obliges the owner to call.

### Pipeline, DecisionPath

A task of `DecisionPath` is a worker of one of the three stages or the manager's results processor. Its loop is
`CheckShutdown`, then `RecvTimeout` or the receipt of an item (`RecvItem`, `RecvDecision`), then its stage: `Filter`,
`Simulate`, `SendDecision` with `CountDecision`, or `ProcessDecision`. `queue` is the four bounded channels, `hand` the
item a worker holds, `call` the transaction a caller of `process_transaction` has counted (`Receive`) and not yet
sent (`Send`), or `Sent` until the manager has counted what it sent (`CountSent`). `shutdown` is the set of flags: the manager's and the path's, set in this order.

`onThread` is the set of tasks that have a thread of the runtime. `recv_timeout` blocks the thread, and the strategies
of `MockStrategyEngine` never wait, so a task gives its thread back only where it awaits the lock of the statistics
(`AwaitLock`) or ends. `interesting` is chosen at the start: `fast_filter` looks at the transaction alone.

`Pipeline` says what a pipeline promises: each transaction enters at most once, leaves once, delivered or discarded,
and at most `Room` are inside. `DecisionPath` implements it with the sum of the channel sizes and the number of
workers as `Room`; what was offered and is neither inside nor delivered is discarded.

| Run | Question | Instance |
|---|---|---|
| `Decision` | A thread for each task: `BooksBalance` (types, bounds, counters), implements `Pipeline`, `EverythingEnds` (everything leaves, shutdown ends all tasks), `AtMostOneLate` (one more item at most) | one worker per stage, channels of one, two transactions, interesting or not |
| `DecisionStarves` (violation) | One thread, as under `#[tokio::test]`: no stage but the first to be scheduled runs | one thread |

With channels of one, two transactions meet every full channel; one worker per stage is the shape of the bundle stage,
and two workers of a stage differ from one in the order of the items only, of which nothing is claimed.
`Accounted` shows what the counters tell: `decision_tx_count` includes what the full input dropped, and a decision that
the full output loses is in `transactions_processed` and in no counter of drops.

Fairness: a task on a thread runs (`WF` of its steps); the runtime's queue is first in, first out, so a task for which a
thread is free again and again gets it (`SF` of `Schedule`); a caller finishes its call, and `shutdown` its second
store. Nobody is obliged to call or to shut down. The run without `CHECK_DEADLOCK` stops after a shutdown.

### Bundles: BundleSubmitter, ExecutionTracker, DryRun, FailureHandler, RpcRequests, KeyManager, BundleBuilding

- `BundleSubmitter`: a call of `submit_bundle` or of a `FastResubmitter` is an actor. Each request to a node is a step
  that fails before the node acted, after it, or not at all (`SendRawTransaction`, `SendRawTransactionFails`); `Finish` is the
  end of a path in `submit_race`, which cancels the other at whatever await it has reached. The lock of
  `active_submissions` covers single steps only, as in the code, and two resubmitters may work on one submission. A failed call, a
  lost answer or a race between clean-up and resubmission is an interleaving of these. `above` is history: how often a resubmitter
  has raised a price beyond the cap.
- `ExecutionTracker`: one tick of `start_monitoring` is a sequence of steps: the newest block number, then one block after the
  other under the write lock; each request may fail. `chain` grows up to `MAX_BLOCK`.
- `DryRun` drives the tracker as `MainnetDryRun::run` does: hand over all bundles, then rounds of status queries.
- `FailureHandler`: `handle_failure` split at its awaits; the locks are guards (`handle_retry` sleeps with the failure
  lock, `execute_rollback` with the rollback lock). The kill switch comes at any time, and so does the clean-up, which takes the first
  lock (`LockForCleanup`) and waits for the second with it (`CleanupOldRecords`); everybody else waits meanwhile.
- `RpcRequests`: one attempt of `submit_transaction` (`nonce`, `gas price`, `sign`, `send`) may time out at each request,
  and what it sent may arrive at any later step; `wait_for_confirmation` races the receipt with its timer.
  The other retried request, `poll_blockchain_state`: number, then block, on a chain that grows and takes blocks back between the two.
- `KeyManager`: wallets and default wallet behind two locks; key files that a crash tears.
- `BundleBuilding`: which templates, fees and expiry a bundle gets, and the two judgements about
  it. They are functions of their input; each step takes another input of a small set.

`SubmitterSafe`, `TrackerSafe`, `HandlerSafe`, `RpcSafe`, `KeysSafe` say what each keeps, `BundlesSound` that the functions of
an input (the parts of a bundle, the checks, the verdict on the order of a bundle in its block) are right; `BundlesTemporal` that
every loop and call ends and that nobody but the caller replaces the default wallet. Bounds: bundles of two transactions (one already sent, one not), prices 9 and
10 with a cap of 11 and bumps of 10% (a bump within, at and over the cap), two resubmitters with two resubmissions each, three blocks, two handlers and a clean-up,
three attempts, two key tasks with two files. The 60 s, 500 ms and similar waits are single steps.

### Feeds: MarketFeed, Mempool, StateManager, Persistence

- `MarketFeed` follows a text from the socket through `parse_message` and validation, the message queue of the WebSocket
  service, the converter task of the manager, and the channel to the opportunity detector, which polls the
  chain before it emits (`verify_via_rpc`), or emits at once. Messages carry the exchange's own time, before or after our `clock`;
  `arrived` is history. Responses to a subscription have both forms, and an array of trades more than one trade.
- `Mempool`: streaming, polling and the fallback of the auto mode, `seen_txs` with its clean-up, the ring buffer with consumers;
  the backpressure buffer with concurrent `push`, its fill level computed as the code does, in a machine word (`WORD`).
- `StateManager`: `update_block_header` split at its locks with readers between; pending transactions with TTL and limit. A new row has
  the `first_seen` of its caller; `panicked` is the row whose look-up panicked under the lock (section 6).
- `Persistence`: one action per SQL statement, a stop of the program between any two, times as text in the
  two formats the code compares.

`MarketSafe`, `MempoolSafe`, `StateSafe`, `TablesSafe`, `FeedsLive`. Bounds: a clock to 2, with times of the exchange that are stale on
arrival, current or ahead; three texts at most of the kinds of `MCTexts`, among them prices 2% apart and a "NaN"; three transactions, one without sender and one without hash, a ring buffer of
one; two pushers and a channel of three; two forks of three blocks and a history of two; days of two hours. Most
limits are below what the environment offers, so that they are exceeded.

### Engines: StrategyEngine, StrategyConfig, HealthChecker, ForkSimulator, SimulationOptimizer, RpcClient, LatencyMonitor

- `StrategyEngine`: evaluations and plans split at their awaits, with the locks of the maps; clean-up, reset, registration.
- `StrategyConfig`: a reload is `exists`, read and parse, compare, apply; an editor changes the file between them. `fs::write` may
  fail before or after it has truncated the file (`WriteFails`), also when the defaults are created; `unwritten` is history: the defaults are in
  force since such a failure.
- `HealthChecker`: tokio's fair read-write locks as first-come queues, taken in the order of each function.
- `ForkSimulator`: permits, the timeout at any await, batched and gRPC requests. `SimulationOptimizer`: callers, the
  processor with its rounds, one task per batch, receivers, accounts, profit totals.
- `RpcClient`: calls under the semaphore, choice by recorded health, the probing task. `LatencyMonitor`: recording,
  reading (which sorts the window) and reset, each under its own lock.

`StrategiesSafe`, `SimulationSafe`, `MonitoringSafe`, `EnginesTemporal`. Bounds: two evaluators and a cache of one with two ids for each
strategy and second (`Stamps`: the start of a hash with a millisecond), two
edits of the file, one probe and one registrar (two tasks are enough for a lock cycle), two concurrent simulations with one
permit fewer than jobs, two callers and one batch permit, two endpoints, a window of two.

### Intake: FilterEngine, AbiDecoder, Strategies, Bot, DecisionStats

- `FilterEngine`: rules are loaded, added and removed between transactions; `filter_transaction` is one action, with the
  token buckets of the limiters on a clock.
- `AbiDecoder`: decoding tasks split at the three locks of the optimized decoder; guards and slices as
  functions of the length.
- `Strategies`: what a strategy finds in a transaction and the plan made later under a configuration that may have changed, with the
  parameters each strategy reads from it (`DefaultParameters`), which nothing checks: a premium or a multiple may be negative.
- `Bot`: `main()` step by step with its failures, the two event processors, the arms of `select!`.
- `DecisionStats`: counters, the processor of results and the two reporters, one step per lock; default core assignment.

`FiltersSafe`, `DecodersSafe`, `PlansSafe`, `BotSafe`, `StatsSound`. Bounds: three transactions, changes and ticks, with a
second of three ticks (below, at and over a refill); three decoding tasks and a pool of two; lengths around each
guard (9, 10, 11, 73, 74, 75, 137, 138, 139 characters); values around each threshold of impact and profit, and settings with
a premium above, at and below zero; eleven
configurations, each with one thing wrong; two transactions for the statistics.

## 4. Fairness

The fairness of the first five modules is given with them. In the four composite runs: tasks run whenever they can
(weak fairness of each task's step), requests with a timeout end, timers fire and time passes. Strong fairness is used twice:
for `FailureHandler`, whose locks are first come, first served, so a task for which the lock is free again and again gets it; and
for the polls of the mempool, of which infinitely many are assumed to succeed (a node that never answers owes nothing).
Nobody is obliged to call, to edit, to crash or to register. The composite runs have `CHECK_DEADLOCK FALSE` because
their counters are bounded and their environments may stop.

## 5. Proofs

`RpcServiceProofs` (constants as in `RpcConstants`, any set of callers unless stated):

- `TypeCorrect`: `TypeOK` is inductive.
- `NoFalseTripAlways`: the invariant relates the failure counter and what each task has loaded to the history
  count: `failures` never exceeds `failed`, and every task that is to open the circuit, or has loaded a state that
  is not closed, has `THRESHOLD` failures behind it. `NoFalseTrip` alone is not inductive, since a stale load may
  precede the store.
- `SoloCooldown`, `SoloSuccess`, `SoloRefines`, for one caller (`Callers = {c}`): the invariant says, for each
  place of the program counter, which state the breaker is in and that `age` equals the time since the circuit
  opened except between the two stores. `SoloRefines` maps every step to a step of `Breaker` or a stutter.

`BundlesProofs`, its last section, about `BundleSigning`: `TypeCorrect` for all constants; the others under `Separated` (no
wallet shared between tasks, at most one task uses the default wallet and it is one of its own):

- `SeparatedNonces`, `SeparatedTracker`: the invariant `SeparatedInv` says that a task holds one of its own wallets,
  how the nonce it holds relates to the wallet's tracker at each place, and that everything signed is below the
  tracker except between the signature and the update of a build.
- `SeparatedBundles`: the transactions of a bundle count up to the nonce the build holds (`SequenceInv`).

`WsServiceProofs` (any subscriptions, limits and width of the arithmetic). `WsInv` adds to the types: a connection belongs to the part
of `start()` that runs it (`LinkHasTask`) and leaves nothing behind (`LinksEnd`); what is confirmed or about to be is served
(`RepliesAreTrue`); a request in a pass may still be sent (`TodoMayBeSent`); the wait follows from the failures since the start
and the end of the last connection (`WaitIsCurrent`, `StreakCounted`). Without `LinksEnd` a reply of the last connection would count for the next one. `Tracked` and `Waits` hold for one
service (`OneService`): two tasks inside `start()` share the state of the subscriptions, and the repository starts one.
`WsInvariant` needs only that one is at work at a time (`OneAtWork`), which is what the manager guarantees.

`IntakeProofs`, its last section, about `ServiceManager` (any number of starts). `ManagerInv` accounts for every task by a handle: while `stop()` waits, the handle has
moved from the manager to the call, and the tasks of earlier starts are stopped for good. `CleanlyRestarted` follows;
`ManagedFeedIsAFeed` shows that the composition takes only steps of `WsService`.

`DecisionPathProofs` (any workers, callers, transactions and channel sizes; the callers of `process_transaction` are finitely many). `PathInv` says
where each worker is with what in its hand, that channels keep their bounds, that a transaction is in one place only, and
what the counters add up to with the calls and decisions under way. The numbers are cardinalities of sets of workers and callers, so each
action has a lemma on what it does to each number. `Balanced`, `OneLate` and the refinement `PipelineImplemented` follow; `Room` is reached by bounding
the size of a union by the sum of the sizes.

`BundlesProofs`, `FeedsProofs`, `EnginesProofs`, `IntakeProofs` are about the composite runs. Each component has an invariant proved for the
specification of the component alone, a lemma that every behaviour of the composite is one of the component, and the
conjunction that the run checks as the last theorem.

| Theorem | Invariant and why it is needed |
|---|---|
| `HandlerIsSafe` | `HandlerInv`: which lock each call holds at each await, and which rollback is in progress under it; `FailuresLocked`: what the clean-up holds while it waits. The property says nothing of the calls between the check of the kill switch and the store. |
| `KeysAreSafe`, `SignerStays` | `KeyInv`: the content of a file under each call that truncates or fills it; a crash drops the calls and keeps the files. |
| `RpcIsSafe` | `PollingInv`; `SubmissionInv`: every copy of a transaction in flight, in the pool or mined has the nonce of its request (`NoncesFit`), and events belong to waits that ended (`EventsOfWaits`). |
| `SubmitterIsSafe` | `SubmitterInv`: what each frame has still to send, who owns which submission, and that a resubmitter which raised a price beyond the cap is at the place where it compares, after it has sent, or done (`TaskInv`, `TasksRemember`, `Capped`): alone on its submission it goes over by one bump, and each further task by one more. `Bump` is shown monotone. |
| `TrackerIsSafe` | `FollowInv` and `ReportInv`: a check that is under way starts after the last block that was seen, and the run has handed over what it asks about. |
| `BundlesAreSound` | `BuildingInv`: what a bundle was built from. `SimulatedInv`, `OrderingInv`: a verdict is that of its input. What the verdicts are worth is then arithmetic (`ViolationsCatch`) and a fact about sequences (`OrderByPlaces`): the positions compared and the block without the others number the same places of the block, and there is one way to number them from left to right (`NumberingsAgree`). |
| `MarketIsSafe` | `MarketInv` over all the queues between socket and detector: the events in them, in this order, are those of the texts that were read; an event arrived before now, which bounds what it waited whatever its own time. |
| `MempoolIsSafe` | `MempoolInv`, `BufferInv`: what is in flight in each poll and push completes the sums. `BufferInv` bounds the items over the level by the pushers between measurement and send. |
| `StateIsSafe` | `HeadInv`: what an update has stored at each of its locks; `PendingInv`: rows within the limit or not expired, and what was left when a look-up panicked. |
| `TablesAreSafe` | `TablesInv`: rows that were saved and are recent are still there at each statement of the clean-up. |
| `StrategiesAreSafe`, `DefaultsAreNotSilent` | `EngineInv`: the set of evaluations and the opportunities each may still add; `ConfigInv`: what a reload that is midway has read, and that listeners know it (`Known`) unless a write of the defaults failed. |
| `MonitoringIsSafe`, `ReadyHidesNothing` | `HealthInv`: holders and waiters of both locks, in order; a cycle of waiting needs a writer of the first lock, and only a registration is one. `LatencyInv`: the window is the newest samples after those that were sorted; sorting permutes, so counts survive. |
| `SimulationIsSafe` | `SimulatorInv`: attempts counted by the place of each simulation, results that claim no more than was simulated. `OptimizerInv`: one owner of each number and one place of each batch. `RoundsInv`, `AccountsInv` (the accounts handed out last are the end of the queue), `PnlInv` (the results counted are the pairs of a finished batch and a number up to its results). `ClientInv`. |
| `FiltersAreSafe` | `FiltersInv`: names in the configuration and in the rules in force are unique and the rules descend (`ConfigInv`, `RulesInv`); what a limiter let through since it was filled up is what its bucket lacks, and of the second before that it was a bucket at most (`Within` in `LimitersInv`), which gives twice the rate in any second; the loop over the rules keeps this place by place. |
| `DecodersAreSafe` | `PoolInv`: the decoders in the pool and those that calls still have to return are at most the calls, so the pool never grows from nothing. `CountsInv`, `ParserInv`. |
| `PlansAreSafe` | `StrategiesInv`: an opportunity has the profit of its strategy for its transaction, whose type the strategy handles, and a plan exists only with its opportunity. Profits are shown monotone through products, quotients and caps, for the multiple the opportunity was found with; the legs' prices follow from the premium (`PremiumOutbids`). |
| `BotIsSafe` | `MainInv`: services run only after their configuration was validated. `TradesInv`: adapted trades, both channels and arrivals in one order. `PriceKept`: the rounding of the two conversions is less than a unit. |
| `StatsAreSafe` | `StatsInv`: at each lock, what the processor and the reporters have read is at most what has been counted; the average as a sum that is weighted anew. |

What the proofs assume of the constants is stated in the modules that declare them, and TLC evaluates it in every run: sets of tasks, callers,
pushers, recorders and transactions are finite where they are counted; the values that stand for "none" (`Idle`, `Absent`, `NoHeader`, `Missing`, `NaN`,
"none", `Nothing`, `NoFile`) are not values of the thing itself; rules, configurations, messages, calls and transactions have the types of their fields
(a price or a size is a number or `NaN`; a gas price is a hundredth of a gwei at least, since the model has whole numbers where the code takes a tenth of a price in floating point); a bundle and the list of a dry run are not empty; a torn key file is not a whole one; coins and
requests have their types. Limits are any numbers that the code's types allow, zero included where the code accepts it.

Only model-checked: every liveness property (`BundlesTemporal`, `FeedsLive`, `EnginesTemporal` but for their action
properties; `StatsCatchUp` in `StatsSound`; those of the first five modules). Liveness under fairness is out of the prover's reach.

Sequences that the code scans are proved about in `SubsequenceProofs`. The library's induction schemes cannot be used here, so what holds at
every place is a set of places that has all of them (`UpToPlace`), from the least number outside it (`LeastNatural`).
`Recursion` gives from this that a recursive function is defined everywhere, and `OnlyPlaces` what `retain` and `filter` keep: the items at
increasing places, and all of them.

## 6. Where the code does not do what it says or suggests

Two disagreements have a run that shows them: `ManagerStopHangs` and `DecisionStarves`. The others were met while
translating; the models contain the behaviour of the code, and the properties are stated so that they are true of it.

- `consecutive_failures` of the WebSocket service is not what its name and its doc say (websocket.rs:112): `record_success` sets `last_success`
  and then asks whether it is 5 minutes old, so "Reset failure count if connection was stable" (:139) never happens. Once as many
  connections failed as degrade the service, each single failure does so again; and after an orderly end the exponent goes on growing
  until the product overflows (at 63 failures or so) and the wait falls to 0 s.
- `max_resubmissions`, "Maximum number of resubmission attempts" (submitter.rs:22), limits only bumps that were not sent: a success makes
  `submit_direct` replace the tracker with one whose `submission_attempts` is 1 (:130-140). What ends a resubmitter is its own count
  (`max_attempts`) and the price. Nothing keeps two resubmitters off one submission; each may then go one bump beyond the cap.
- Resubmission changes the gas fields of a bundle and sends the same signed transaction again. The target of a built bundle has no
  raw transaction, so direct submission of it fails after the pre-transactions went out. `submit_bundle` never returns the id a
  resubmission needs. The comment of `BundleParams::max_gas_price` (types.rs:105) speaks of a maximum that the computed fee ignores.
- The tracker never asks again for a block whose request failed, and `confirmation_blocks` is unused. It forgets an included bundle in the
  tick that found it, so a dry run that asks afterwards fails as a whole.
- The failure handler never counts more than one retry; escalation answers `Rollback` without starting one.
- A transaction can be executed twice when its first copy was mined before the retry read the nonce; a node that
  answers "already known" turns success into an error.
- Two creations of one key file lose a key that was returned; `fs::write` is not atomic.
- Data whose exchange time is ahead of our clock counts as fresh however long it waits (`saturating_sub`, opportunity_detector.rs:305).
- In the feed only the first trade of an array is used (parser.rs:63-68), so a jump between two trades of one message goes unseen, "NaN" passes the price check, and each message pops one and
  sends one, so the queue never holds more than one parse leaves. The detector checks the age of data before the poll, not after.
- The mempool's clean-up forgets arbitrary hashes (the comment says it keeps the last 10k); the WebSocket path keeps none. The
  fill level of the backpressure buffer wraps as soon as it holds anything, and the "oldest" policy drops the newest.
- `update_pending_transaction` unwraps the look-up of the row it has just inserted (state_manager.rs:250). Over the limit the clean-up before
  it removes what has expired by the caller's `first_seen`, this row included: the look-up panics under the write lock of the standard library, which stays
  poisoned, and every later use of the pending transactions panics too, the maintenance task included.
- A duplicated header is reported as a reorganisation; the affected transactions are always empty. Clean-up deletes up to a day early.
- `is_ready` and `register_check` take the two locks of the health checker in opposite orders. `is_ready` counts an unknown check as ready.
- `create_default_config` puts the defaults in force before it writes them (config_manager.rs:97-101). If the write fails, the error is all there
  is: the defaults stay in force, are not on disk, and `on_change` is not called; should a file with the defaults appear later, it never is.
- The RPC client never resets its error count; the latency window drops the smallest sample, not the oldest, after it was read.
- Filters keep the limiters of rules that were replaced; a rate limit takes its token though a later rule rejects the transaction.
  Across the edge of a second a rule of "max per second" (filters.rs:81) lets twice its rate through.
- The back-run leg of a sandwich is said to have the "same gas price as front-run" (sandwich.rs:199) and has 1 gwei less. Both legs bid over the
  target, so by gas price the target comes last; with a premium of zero or less the back leg does not outbid it, and with
  a negative one not even the front leg need. The sandwich never reads `max_gas_price_gwei`, and its profit is net of gas at 100 gwei whatever price it plans.
  A gross profit of 0 gives a margin of 0/0, which counts as a full one.
- Strategies read decimal texts where the mempool delivers hexadecimal ones. The bot registers one strategy, and the adapter
  gives its transactions the value 0, so nothing is ever found from the live feed.
- A monitoring server that cannot bind ends the bot; with one CPU the default configuration of the decision path
  panics after the filter workers were started; a report between count and average distorts the average for a while.

## 7. Not modelled

- `mev-core/src/optimization.rs` and `bundle/submission.rs` are not declared by their crates and never compiled.
- The victim generator: its work is a private method that nothing calls. `reconnect()` of the WebSocket service: nothing calls it.
- The liquidation strategy finds nothing and plans nothing. The load and save of the state manager are stubs.
- Calldata, ABI parameter values, text formats of hashes and addresses, Prometheus counters, dashboards, logging and benchmarks
  have no control worth a model. The estimates of profit and gas of the detector are floating-point formulas.
- `pnl_tracking_enabled = false` of the simulation optimizer, which only skips the totals.
- The system clock is assumed not to step back (`rpc_service.rs:106` would underflow), and a TCP handshake to end
  (`websocket.rs:502` sets no timeout). Atomics are taken in program order.
