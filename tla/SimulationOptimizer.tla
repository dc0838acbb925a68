------------------------- MODULE SimulationOptimizer -------------------------
(***************************************************************************)
(* The batching simulation engine of mev-core (simulation_optimizer.rs):   *)
(* callers hand a batch to a processor task and wait for its result with a *)
(* timeout; the processor collects batches and runs a task for each of     *)
(* them, with as many permits as max_concurrent_batches.                   *)
(***************************************************************************)
EXTENDS Integers, Sequences, FiniteSets, FiniteSetsExt, SequencesExt

CONSTANTS
  Callers,
  BUNDLES,                 \* bundles of a batch
  BATCH_SIZE,              \* batch_size
  BATCH_PERMITS,           \* max_concurrent_batches
  ACCOUNTS,                \* accounts of the pool
  MAX_REUSE,               \* account_reuse_count
  MAX_BATCHES              \* bound

ASSUME OptimizerConstants ==
  /\ {BUNDLES, MAX_BATCHES} \subseteq Nat
  /\ {BATCH_SIZE, BATCH_PERMITS, ACCOUNTS, MAX_REUSE} \subseteq Nat \ {0}

VARIABLES
  caller,                  \* [at, id]
  simulation_counter,      \* the next batch id
  result_receivers,        \* ids with a result sender
  batch_channel,           \* external: the unbounded channel of requests
  pending_batches,         \* local of the processor
  processor,               \* "select", "start" or "join"
  batch,                   \* id -> [at, left, results]: the spawned tasks
  account_pool,            \* [queue, usage]
  pnl,                     \* successful and failed simulations
  lastAccounts,            \* history: the accounts handed out last
  gaveUp                   \* history: ids whose caller timed out

optVars == <<caller, simulation_counter, result_receivers, batch_channel,
             pending_batches, processor, batch, account_pool, pnl, lastAccounts,
             gaveUp>>
work == <<processor, batch, account_pool, pnl, lastAccounts>>

Ids == 0..(MAX_BATCHES - 1)
NewBatch == [at |-> "new", left |-> 0, results |-> 0]

OptimizerInit ==
  /\ caller = [c \in Callers |-> [at |-> "idle", id |-> 0]]
  /\ simulation_counter = 0 /\ result_receivers = {}
  /\ batch_channel = <<>> /\ pending_batches = <<>> /\ processor = "select"
  /\ batch = [id \in Ids |-> NewBatch]
  /\ account_pool = [queue |-> [i \in 1..ACCOUNTS |-> i],
                     usage |-> [a \in 1..ACCOUNTS |-> 0]]
  /\ pnl = [successful |-> 0, failed |-> 0]
  /\ lastAccounts = <<>> /\ gaveUp = {}

-----------------------------------------------------------------------------
\* simulate_batch takes a number and enters the sender of its result channel ...
EnterReceiver(c) ==
  /\ caller[c].at = "idle" /\ simulation_counter < MAX_BATCHES
  /\ simulation_counter' = simulation_counter + 1
  /\ result_receivers' = result_receivers \cup {simulation_counter}
  /\ caller' = [caller EXCEPT ![c] = [at |-> "send", id |-> simulation_counter]]
  /\ UNCHANGED <<batch_channel, pending_batches, work, gaveUp>>

\* ... before it sends the request.
SendRequest(c) ==
  /\ caller[c].at = "send"
  /\ batch_channel' = Append(batch_channel, caller[c].id)
  /\ caller' = [caller EXCEPT ![c].at = "wait"]
  /\ UNCHANGED <<simulation_counter, result_receivers, pending_batches, work, gaveUp>>

\* The result arrived: the entry is removed.
TakeResult(c) ==
  /\ caller[c].at = "wait" /\ batch[caller[c].id].at = "sent"
  /\ result_receivers' = result_receivers \ {caller[c].id}
  /\ caller' = [caller EXCEPT ![c].at = "idle"]
  /\ UNCHANGED <<simulation_counter, batch_channel, pending_batches, work, gaveUp>>

\* After ten times batch_timeout_ms the caller leaves, and its entry stays.
GiveUp(c) ==
  /\ caller[c].at = "wait" /\ batch[caller[c].id].at # "sent"
  /\ gaveUp' = gaveUp \cup {caller[c].id}
  /\ caller' = [caller EXCEPT ![c].at = "idle"]
  /\ UNCHANGED <<simulation_counter, result_receivers, batch_channel,
                 pending_batches, work>>

-----------------------------------------------------------------------------
\* The processor takes a request, and starts when batch_size of them wait.
ReceiveRequest ==
  /\ processor = "select" /\ batch_channel # <<>>
  /\ pending_batches' = Append(pending_batches, Head(batch_channel))
  /\ batch_channel' = Tail(batch_channel)
  /\ processor' = IF Len(pending_batches') >= BATCH_SIZE THEN "start" ELSE "select"
  /\ UNCHANGED <<caller, simulation_counter, result_receivers, batch, account_pool,
                 pnl, lastAccounts, gaveUp>>

\* The timer.
BatchTick ==
  /\ processor = "select" /\ pending_batches # <<>>
  /\ processor' = "start"
  /\ UNCHANGED <<caller, simulation_counter, result_receivers, batch_channel,
                 pending_batches, batch, account_pool, pnl, lastAccounts, gaveUp>>

Running(id) == batch[id].at \in {"run", "collect"}

\* process_pending_batches waits for a permit for each batch (all have the same
\* priority) ...
StartBatch ==
  /\ processor = "start" /\ pending_batches # <<>>
  /\ Cardinality({id \in Ids : Running(id)}) < BATCH_PERMITS
  /\ batch' = [batch EXCEPT ![Head(pending_batches)] =
       [at |-> "run", left |-> BUNDLES, results |-> 0]]
  /\ pending_batches' = Tail(pending_batches)
  /\ processor' = IF Tail(pending_batches) = <<>> THEN "join" ELSE "start"
  /\ UNCHANGED <<caller, simulation_counter, result_receivers, batch_channel,
                 account_pool, pnl, lastAccounts, gaveUp>>

\* ... and for the end of all of them.
JoinBatches ==
  /\ processor = "join" /\ \A id \in Ids : ~Running(id)
  /\ processor' = "select"
  /\ UNCHANGED <<caller, simulation_counter, result_receivers, batch_channel,
                 pending_batches, batch, account_pool, pnl, lastAccounts, gaveUp>>

-----------------------------------------------------------------------------

\* AccountPool::get_account: the front of the queue, whatever its usage.
GetAccount(pool) ==
  LET a == Head(pool.queue)
  IN [queue |-> Append(Tail(pool.queue), a),
      usage |-> [pool.usage EXCEPT ![a] = IF @ < MAX_REUSE THEN @ + 1 ELSE 1]]

\* One simulation of a batch: an account, then the calls of
\* simulate_bundle_optimized.  An error of the block number drops the result.
SimulateOne(id) ==
  /\ batch[id].at = "run" /\ batch[id].left > 0
  /\ account_pool' = GetAccount(account_pool)
  /\ lastAccounts' = LET all == Append(lastAccounts, Head(account_pool.queue))
                     IN SubSeq(all, Max({1, Len(all) - ACCOUNTS + 1}), Len(all))
  /\ \E result \in {0, 1} :
       batch' = [batch EXCEPT ![id].left = @ - 1, ![id].results = @ + result]
  /\ UNCHANGED <<caller, simulation_counter, result_receivers, batch_channel,
                 pending_batches, processor, pnl, gaveUp>>

\* The results are in: update_pnl_tracking, under the lock of the tracker.
UpdatePnl(id) ==
  /\ batch[id].at = "run" /\ batch[id].left = 0
  /\ \E good \in 0..batch[id].results :
       pnl' = [successful |-> pnl.successful + good,
               failed |-> pnl.failed + batch[id].results - good]
  /\ batch' = [batch EXCEPT ![id].at = "collect"]
  /\ UNCHANGED <<caller, simulation_counter, result_receivers, batch_channel,
                 pending_batches, processor, account_pool, lastAccounts, gaveUp>>

\* Variant: looks for the sender under the number of the latest batch.
SendToNumber(id) ==
  /\ batch[id].at = "collect"
  /\ batch' = [batch EXCEPT ![id].at =
       IF simulation_counter - 1 \in result_receivers /\ id \notin gaveUp THEN "sent" ELSE "lost"]
  /\ UNCHANGED <<caller, simulation_counter, result_receivers, batch_channel,
                 pending_batches, processor, account_pool, pnl, lastAccounts, gaveUp>>

\* The result goes to the sender that is still entered; a caller that gave up
\* has dropped the other end.
SendResult(id) ==
  /\ batch[id].at = "collect"
  /\ batch' = [batch EXCEPT ![id].at =
       IF id \in result_receivers /\ id \notin gaveUp THEN "sent" ELSE "lost"]
  /\ UNCHANGED <<caller, simulation_counter, result_receivers, batch_channel,
                 pending_batches, processor, account_pool, pnl, lastAccounts, gaveUp>>

BatchTask(id) == SimulateOne(id) \/ UpdatePnl(id) \/ SendResult(id)
Processor == ReceiveRequest \/ BatchTick \/ StartBatch \/ JoinBatches

OptimizerNext ==
  \/ \E c \in Callers : EnterReceiver(c) \/ SendRequest(c) \/ TakeResult(c)
                          \/ GiveUp(c)
  \/ Processor
  \/ \E id \in Ids : BatchTask(id)

-----------------------------------------------------------------------------
(* Properties                                                              *)

\* An entry of result_receivers belongs to a caller that is under way or gave
\* up: the answered ones are removed, those that timed out leak for good.
OnlyTimeoutsLeak ==
  result_receivers = gaveUp \cup
    {caller[c].id : c \in {d \in Callers : caller[d].at \in {"send", "wait"}}}

\* A result is lost only when its caller gave up, never because it was ready
\* before the caller waited (simulate_batch enters the sender first).
LostOnlyLate == \A id \in Ids : batch[id].at = "lost" => id \in gaveUp

\* While tasks of one round run, no batch of the next one has started: at most
\* as many permits are taken as there are, and rounds do not mix
\* (process_pending_batches).
RoundsDoNotMix ==
  /\ Cardinality({id \in Ids : Running(id)}) <= BATCH_PERMITS
  /\ processor = "select" => \A id \in Ids : ~Running(id)

\* However the tasks of several batches interleave, ACCOUNTS simulations in a
\* row use ACCOUNTS different accounts (AccountPool::get_account).
AccountsRotate == IsInjective(lastAccounts)

\* The tracker counts every result of every finished batch exactly once.
PnlCounts ==
  pnl.successful + pnl.failed =
    Cardinality({r \in Ids \X (1..BUNDLES) :
      /\ batch[r[1]].at \in {"collect", "sent", "lost"}
      /\ r[2] <= batch[r[1]].results})

\* A batch that was sent is processed, also after its caller gave up, as long as
\* every RPC of the batches before it ends.
AllProcessed ==
  \A id \in Ids : (\E i \in 1..Len(batch_channel) : batch_channel[i] = id)
                    ~> batch[id].at \in {"sent", "lost"}
=============================================================================
