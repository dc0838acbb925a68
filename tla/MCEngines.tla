------------------------------ MODULE MCEngines ------------------------------
(***************************************************************************)
(* The engines and the services around them, for TLC.  They share no       *)
(* state, so a behaviour is that of one of them: `focus' picks it.         *)
(***************************************************************************)
EXTENDS StrategyEngine, StrategyConfig, HealthChecker, ForkSimulator,
        SimulationOptimizer, RpcClient, LatencyMonitor

VARIABLE focus

vars == <<engineVars, configVars, healthVars, simVars, optVars, clientVars,
          latVars, focus>>

Tx(limit, price) == [gas_limit |-> limit, gas_price |-> price]
Bundle(valid, txs) == [valid |-> valid, txs |-> txs]
MCBatchRequests ==
  [http |-> [api |-> "http", bundles |-> <<Bundle(TRUE, <<Tx(2, 1), Tx(3, 4)>>),
                                          Bundle(TRUE, <<>>)>>],
   grpc |-> [api |-> "grpc", bundles |-> <<Bundle(FALSE, <<Tx(1, 1)>>),
                                          Bundle(TRUE, <<Tx(4, 2)>>)>>]]

\* Only the component in focus starts in each of its initial states.
Init ==
  /\ focus \in {"engine", "config", "health", "simulator", "optimizer", "client",
                "latency"}
  /\ EngineInit /\ ConfigInit /\ HealthInit /\ SimulatorInit /\ OptimizerInit
  /\ ClientInit /\ LatencyInit
  /\ focus # "engine" => parallel
  /\ focus # "config" => config_on_disk = Absent
  /\ focus # "client" => reachable = {}

On(component) == focus = component /\ UNCHANGED focus
Engine(A) == /\ On("engine") /\ A
             /\ UNCHANGED <<configVars, healthVars, simVars, optVars, clientVars, latVars>>
Config(A) == /\ On("config") /\ A
             /\ UNCHANGED <<engineVars, healthVars, simVars, optVars, clientVars, latVars>>
Health(A) == /\ On("health") /\ A
             /\ UNCHANGED <<engineVars, configVars, simVars, optVars, clientVars, latVars>>
Simulator(A) == /\ On("simulator") /\ A
                /\ UNCHANGED <<engineVars, configVars, healthVars, optVars, clientVars, latVars>>
Optimizer(A) == /\ On("optimizer") /\ A
                /\ UNCHANGED <<engineVars, configVars, healthVars, simVars, clientVars, latVars>>
Client(A) == /\ On("client") /\ A
             /\ UNCHANGED <<engineVars, configVars, healthVars, simVars, optVars, latVars>>
Latency(A) == /\ On("latency") /\ A
              /\ UNCHANGED <<engineVars, configVars, healthVars, simVars, optVars, clientVars>>

Next ==
  \/ Engine(EngineNext) \/ Config(ConfigNext) \/ Health(HealthNext)
  \/ Simulator(SimulatorNext) \/ Optimizer(OptimizerNext) \/ Client(ClientNext)
  \/ Latency(LatencyNext)

\* Spawned tasks run and are woken by their timers; a lock is granted in the
\* order of the requests, a timeout fires, and an RPC of the optimizer or of
\* the client ends (a refused connection is an answer).
Fairness ==
  /\ WF_vars(Engine(CleanupOpportunities)) /\ WF_vars(Engine(CleanupPlans))
  /\ WF_vars(Config(ManagerStep))
  /\ WF_vars(Health(GrantChecks)) /\ WF_vars(Health(GrantResults))
  /\ WF_vars(Health(MonitorStep))
  /\ \A p \in Probes : WF_vars(Health(ProbeStep(p)))
  /\ WF_vars(Simulator(Acquire))
  /\ \A j \in Jobs : WF_vars(Simulator(Timeout(j)))
  /\ \A c \in Clients : WF_vars(Simulator(Respond(c)))
  /\ WF_vars(Optimizer(Processor))
  /\ \A id \in Ids : WF_vars(Optimizer(BatchTask(id)))
  /\ WF_vars(Client(AcquirePermit)) /\ WF_vars(Client(ProbeEndpoint))
  /\ \A c \in RpcCallers : WF_vars(Client(CallStep(c)))

Spec == Init /\ [][Next]_vars /\ Fairness

\* Strategies, their opportunities and their configuration stay consistent
\* while evaluations, registrations, resets and reloads overlap
\* (evaluate_transaction, create_bundle_plan, hot_reload).
StrategiesSafe ==
  /\ CacheBounded
  /\ AverageRecovers
  /\ StrategiesPinned
  /\ ListenersCurrent

\* However simulations, batches and RPC calls overlap and time out, each
\* result belongs to its request, claims no more than was simulated, and is
\* counted once (simulate_bundle, simulate_batch, process_pending_batches,
\* record_error).
SimulationSafe ==
  /\ SimulationsCounted
  /\ ResultsHonest
  /\ BatchAligned
  /\ OnlyTimeoutsLeak
  /\ LostOnlyLate
  /\ RoundsDoNotMix
  /\ AccountsRotate
  /\ PnlCounts
  /\ UnhealthyFailedLast

\* The monitors can be trusted: probes do not block one another and hide no
\* failure, and the latency window holds what was recorded (is_ready,
\* get_health_status, record_latency).
MonitoringSafe ==
  /\ OnlyRegistrationBlocks
  /\ NewSamplesStay
  /\ CounterMatchesWindow

\* Whatever the file, the node and the endpoints do: no reload falls back to the
\* defaults unasked, no probe hides a failure, expired plans go, edits arrive,
\* and probes, batches and calls are answered (load_from_file, is_ready,
\* hot_reload, simulate_bundles, start_batch_processor, call_with_retry).
EnginesTemporal ==
  /\ NoSilentDefaults
  /\ NotReadyIsRight
  /\ ExpiredPlansGo
  /\ EditsArrive
  /\ ProbesAnswered
  /\ BatchesAnswered
  /\ AllProcessed
  /\ FailsOver
  /\ CallsEnd
=============================================================================
