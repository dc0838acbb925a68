---------------------------- MODULE ForkSimulator ----------------------------
(***************************************************************************)
(* The simulation service of mev-core (simulation.rs, grpc_service.rs): a  *)
(* batch request simulates its bundles concurrently, each under a permit   *)
(* of a semaphore and a timeout.  An amount counts 0.001 ETH, the profit   *)
(* that calculate_profit_estimate assumes for a transaction.               *)
(***************************************************************************)
EXTENDS Integers, Sequences, FiniteSets, FiniteSetsExt

CONSTANTS
  BatchRequests,           \* client -> [api, bundles]; a bundle is [valid, txs]
                           \* and a transaction [gas_limit, gas_price]
  MAX_CONCURRENT,          \* max_concurrent_simulations
  PROFIT                   \* assumed for each successful transaction

Clients == DOMAIN BatchRequests

ASSUME SimulatorConstants ==
  /\ MAX_CONCURRENT \in Nat \ {0} /\ PROFIT \in Nat
  /\ \A c \in Clients : BatchRequests[c] \in
       [api : {"http", "grpc"},
        bundles : Seq([valid : BOOLEAN,
                       txs : Seq([gas_limit : Nat, gas_price : Nat])])]

BundleOf(j) == BatchRequests[j[1]].bundles[j[2]]
Numbers(c) == 1..Len(BatchRequests[c].bundles)
Jobs == UNION {{<<c, i>> : i \in Numbers(c)} : c \in Clients}

VARIABLES
  simulation,              \* job -> [at, done, cost]: whether each transaction
                           \* simulated so far succeeded, and total_gas_cost
  permit_queue,            \* external: jobs waiting for the semaphore, in order
  simulated,               \* job -> its SimulationResult, or NoResult
  counts,                  \* inc_simulations: attempted, success, error, timeout
  answered,                \* clients that have their answer
  response                 \* client -> the answer, a sequence of results

simVars == <<simulation, permit_queue, simulated, counts, answered, response>>

NoResult == [success |-> FALSE, error |-> "none", bundle |-> 0]
AtRest == [at |-> "new", done |-> <<>>, cost |-> 0]

SimulatorInit ==
  /\ simulation = [j \in Jobs |-> AtRest]
  /\ permit_queue = <<>>
  /\ simulated = [j \in Jobs |-> NoResult]
  /\ counts = [attempted |-> 0, success |-> 0, error |-> 0, timeout |-> 0]
  /\ answered = {} /\ response = [c \in Clients |-> <<>>]

-----------------------------------------------------------------------------
InProgress(j) == simulation[j].at \in {"block", "txs"}
Active == Cardinality({j \in Jobs : InProgress(j)})

\* The members of a set of numbers in ascending order (there is one such
\* sequence).
InOrder(S) ==
  {q \in [1..Cardinality(S) -> S] : \A m, n \in DOMAIN q : m < n => q[m] < q[n]}

\* Over HTTP every bundle has the type that is simulated; the gRPC handler
\* converts it.
Converted(j) == BatchRequests[j[1]].api = "http" \/ BundleOf(j).valid

\* simulate_bundles_batch and simulate_bundles: join_all polls every bundle, but
\* for those that cannot be converted, which are dropped.
Submit(c) ==
  /\ \A i \in Numbers(c) : simulation[<<c, i>>].at = "new"
  /\ simulation' = [j \in Jobs |->
       IF j[1] # c THEN simulation[j]
       ELSE [AtRest EXCEPT !.at = IF Converted(j) THEN "queued" ELSE "rejected"]]
  /\ \E good \in InOrder({i \in Numbers(c) : Converted(<<c, i>>)}) :
       permit_queue' = permit_queue \o [k \in DOMAIN good |-> <<c, good[k]>>]
  /\ UNCHANGED <<simulated, counts, answered, response>>

\* The permit is there: simulate_bundle counts the attempt.
Acquire ==
  /\ permit_queue # <<>> /\ Active < MAX_CONCURRENT
  /\ LET j == Head(permit_queue)
     IN simulation' = [simulation EXCEPT ![j].at = "block"]
  /\ permit_queue' = Tail(permit_queue)
  /\ counts' = [counts EXCEPT !.attempted = @ + 1]
  /\ UNCHANGED <<simulated, answered, response>>

\* The permit goes back with the result.
End(j, result, counter) ==
  /\ simulated' = [simulated EXCEPT ![j] = result]
  /\ simulation' = [simulation EXCEPT ![j].at = "done"]
  /\ counts' = [counts EXCEPT ![counter] = @ + 1]
  /\ UNCHANGED <<permit_queue, answered, response>>

Failed(j, error) == [success |-> FALSE, error |-> error, bundle |-> j[2],
                     gas_cost |-> 0, gross |-> 0, net |-> 0, confidence |-> <<0, 1>>]

\* get_block_number and get_block: an error ends the simulation.
GetBlock(j) ==
  /\ simulation[j].at = "block"
  /\ \/ /\ simulation' = [simulation EXCEPT ![j].at = "txs"]
        /\ UNCHANGED <<permit_queue, simulated, counts, answered, response>>
     \/ End(j, Failed(j, "provider"), "error")

\* simulate_transaction_with_overrides: a call that fails is a result as well,
\* and the next transaction follows.  Without an estimate the gas limit counts.
SimulateTransaction(j) ==
  LET s == simulation[j]
      tx == BundleOf(j).txs[Len(s.done) + 1]
  IN /\ s.at = "txs" /\ Len(s.done) < Len(BundleOf(j).txs)
     /\ \E r \in {[success |-> FALSE, gas_used |-> 0],
                  [success |-> TRUE, gas_used |-> 1],
                  [success |-> TRUE, gas_used |-> tx.gas_limit]} :
          simulation' = [simulation EXCEPT
            ![j].done = Append(@, r.success),
            ![j].cost = @ + tx.gas_price * r.gas_used]
     /\ UNCHANGED <<permit_queue, simulated, counts, answered, response>>

\* calculate_profit_estimate; the confidence is a quotient, NaN for no
\* transactions.
Profit(results, gas_cost) ==
  LET successful == Cardinality({i \in 1..Len(results) : results[i]})
  IN [gross |-> successful * PROFIT,
      net |-> Max({0, successful * PROFIT - gas_cost}),
      confidence |-> <<successful, Len(results)>>]

AllSuccess(results) == \A i \in 1..Len(results) : results[i]

FinishSimulation(j) ==
  LET results == simulation[j].done
      gas_cost == simulation[j].cost
      profit == Profit(results, gas_cost)
  IN /\ simulation[j].at = "txs" /\ Len(results) = Len(BundleOf(j).txs)
     /\ End(j, [success |-> AllSuccess(results), error |-> "none", bundle |-> j[2],
                gas_cost |-> gas_cost, gross |-> profit.gross, net |-> profit.net,
                confidence |-> profit.confidence], "success")

\* timeout(timeout_ms) drops the simulation wherever it is.
Timeout(j) == InProgress(j) /\ End(j, Failed(j, "timeout"), "timeout")

Over(c) == \A j \in Jobs : j[1] = c => simulation[j].at \in {"done", "rejected"}

\* The results in the order of the request, without what was rejected.
Respond(c) ==
  /\ c \notin answered /\ Over(c)
  /\ answered' = answered \cup {c}
  /\ \E kept \in InOrder({i \in Numbers(c) : simulation[<<c, i>>].at = "done"}) :
       response' = [response EXCEPT ![c] =
         [k \in DOMAIN kept |-> simulated[<<c, kept[k]>>]]]
  /\ UNCHANGED <<simulation, permit_queue, simulated, counts>>

SimulatorNext ==
  \/ \E c \in Clients : Submit(c) \/ Respond(c)
  \/ Acquire
  \/ \E j \in Jobs : GetBlock(j) \/ SimulateTransaction(j) \/ FinishSimulation(j)
                       \/ Timeout(j)

-----------------------------------------------------------------------------
(* Properties                                                              *)

\* However simulations overlap, time out or lose their provider, each attempt
\* is counted once as a success, an error or a timeout or is still running, and
\* never more than max_concurrent_simulations run (simulate_bundle).
SimulationsCounted ==
  /\ counts.attempted = counts.success + counts.error + counts.timeout + Active
  /\ Active <= MAX_CONCURRENT

\* A result says success only if every transaction of the bundle was simulated
\* and succeeded, so that a timeout or a provider error midway never looks like
\* one; and the profit it claims never exceeds what is left after the gas
\* (simulate_bundle_internal, calculate_profit_estimate).
ResultsHonest ==
  \A j \in Jobs : simulation[j].at = "done" =>
    LET r == simulated[j] IN
    /\ r.success => /\ r.error = "none"
                    /\ r.confidence = <<Len(BundleOf(j).txs), Len(BundleOf(j).txs)>>
    /\ r.error # "none" => r.net = 0
    /\ r.net <= r.gross /\ (r.gas_cost >= r.gross => r.net = 0)

\* A batch answer has one result for each bundle of the request, in its order;
\* over gRPC the bundles that cannot be converted are missing from it.
BatchAligned ==
  \A c \in answered :
    [k \in DOMAIN response[c] |-> response[c][k].bundle]
      \in InOrder({i \in Numbers(c) : BatchRequests[c].api = "http"
                                       \/ BundleOf(<<c, i>>).valid})

\* Every request is answered, though the node never answers: the timeout frees
\* the permit that the others wait for.
BatchesAnswered ==
  \A c \in Clients :
    (\E j \in Jobs : j[1] = c /\ simulation[j].at # "new") ~> c \in answered
=============================================================================
