--------------------------- MODULE DecisionStats ---------------------------
(***************************************************************************)
(* The statistics of the decision path and its manager                     *)
(* (decision_path_manager.rs, decision_path.rs): the tasks that count, the *)
(* processor of the results and the two periodic reporters.  The counters  *)
(* are atomics and each record has a lock: between two of them any other   *)
(* task may run.  DecisionPath models what passes through the stages; here *)
(* a result is its number of opportunities and its processing time.        *)
(***************************************************************************)
EXTENDS Naturals, Sequences, FiniteSets

CONSTANTS
  CpuCounts,               \* what num_cpus::get may return
  DecisionResults,         \* records of opportunities and processing time
  MAX_TXS,                 \* bound: transactions
  NoResult                 \* the processor has none

ASSUME DecisionStatsConstants ==
  /\ CpuCounts \subseteq Nat \ {0} /\ MAX_TXS \in Nat
  /\ \A r \in DecisionResults : r.opportunities \in Nat /\ r.ms \in Nat

VARIABLES
  num_cpus,
  stages,                  \* stages whose workers were spawned, or "panic"
  mempool_rx_count,        \* the atomic counters of the manager ...
  decision_tx_count,
  results_count,
  processed_count,         \* ... and of the decision path
  sending,                 \* transactions between their two counters
  output,                  \* results in the channel
  result,                  \* the result counted and not yet in the statistics
  manager_stats,           \* DecisionPathManagerStats
  report,                  \* the local variables of start_stats_reporting
  collect,                 \* the local variables of start_metrics_collection
  history                  \* ghost: what the statistics should tell

statsVars == <<num_cpus, stages, mempool_rx_count, decision_tx_count, results_count,
               processed_count, sending, output, result, manager_stats, report,
               collect, history>>
counters == <<mempool_rx_count, decision_tx_count, sending>>
pipeline == <<results_count, processed_count, output, result>>
reporters == <<report, collect>>

StatsInit ==
  /\ num_cpus \in CpuCounts /\ stages = <<>>
  /\ mempool_rx_count = 0 /\ decision_tx_count = 0 /\ results_count = 0
  /\ processed_count = 0 /\ sending = 0 /\ output = <<>> /\ result = NoResult
  /\ manager_stats = [received |-> 0, sent |-> 0, processed |-> 0, opportunities |-> 0,
                      sum |-> 0, weight |-> 1]       \* the average is sum / weight
  /\ report = [step |-> "tick", mempool |-> 0, decision |-> 0, results |-> 0, last |-> 0,
              first |-> TRUE]
  /\ collect = [last |-> 0, first |-> TRUE]
  /\ history = [opportunities |-> 0, slowest |-> 0, mempool_rate |-> 0,
                processed_rate |-> 0]

-----------------------------------------------------------------------------
(* Starting                                                                *)

AtMostFour(n) == IF n < 4 THEN n ELSE 4

\* DecisionPathConfig::default
SimulationCores(n) == 1..AtMostFour(n) - 1
SimulationWorkers(n) == AtMostFour(n)

\* start_simulation_stage takes the remainder by the number of cores.
StartStage(stage) ==
  /\ stages' = IF /\ stage = "simulation" /\ SimulationWorkers(num_cpus) > 0
                  /\ SimulationCores(num_cpus) = {}
               THEN Append(stages, "panic") ELSE Append(stages, stage)
  /\ UNCHANGED <<num_cpus, counters, pipeline, manager_stats, reporters, history>>

\* DecisionPath::start, then the manager's processor and reporter.
StartOrder == <<"filter", "simulation", "bundle", "collector", "processor", "reporter">>
Panicked == \E i \in DOMAIN stages : stages[i] = "panic"
StartDecisionPath ==
  /\ ~Panicked /\ Len(stages) < Len(StartOrder)
  /\ StartStage(StartOrder[Len(stages) + 1])
Started(stage) == \E i \in DOMAIN stages : stages[i] = stage

-----------------------------------------------------------------------------
(* Counting                                                                *)

\* Transactions are sent to a manager that was started.
CountReceived ==
  /\ Started("reporter") /\ mempool_rx_count < MAX_TXS
  /\ mempool_rx_count' = mempool_rx_count + 1 /\ sending' = sending + 1
  /\ UNCHANGED <<num_cpus, stages, decision_tx_count, pipeline, manager_stats,
                 reporters, history>>

\* process_transaction returns Ok also when the queue was full.
CountSent ==
  /\ sending > 0
  /\ sending' = sending - 1 /\ decision_tx_count' = decision_tx_count + 1
  /\ UNCHANGED <<num_cpus, stages, mempool_rx_count, pipeline, manager_stats, reporters,
                 history>>

\* The bundle stage counts a result and sends it.
OutputResult(r) ==
  /\ processed_count < mempool_rx_count
  /\ processed_count' = processed_count + 1 /\ output' = Append(output, r)
  /\ UNCHANGED <<num_cpus, stages, counters, results_count, result, manager_stats,
                 reporters, history>>

RecvResult ==
  /\ result = NoResult /\ output # <<>>
  /\ result' = Head(output) /\ output' = Tail(output)
  /\ results_count' = results_count + 1
  /\ UNCHANGED <<num_cpus, stages, counters, processed_count, manager_stats, reporters,
                 history>>

\* (average * (count - 1) + x) / count, as a fraction.
Average(stats, ms) ==
  LET count == stats.processed + 1 IN
  [sum |-> stats.sum * (count - 1) + ms * stats.weight, weight |-> stats.weight * count]

\* process_decision_result, in one critical section
UpdateStats ==
  /\ result # NoResult /\ result' = NoResult
  /\ LET a == Average(manager_stats, result.ms) IN
     manager_stats' = [manager_stats EXCEPT !.processed = @ + 1,
                                            !.opportunities = @ + result.opportunities,
                                            !.sum = a.sum, !.weight = a.weight]
  /\ history' = [history EXCEPT !.opportunities = @ + result.opportunities,
                                !.slowest = IF result.ms > @ THEN result.ms ELSE @]
  /\ UNCHANGED <<num_cpus, stages, counters, results_count, processed_count, output,
                 reporters>>

-----------------------------------------------------------------------------
(* Reporting                                                               *)

\* start_stats_reporting loads the three counters one after the other ...
ReadCounter ==
  /\ Started("reporter") /\ report.step \in {"tick", "mempool", "decision"}
  /\ report' =
       CASE report.step = "tick" -> [report EXCEPT !.step = "mempool", !.mempool = mempool_rx_count]
         [] report.step = "mempool" ->
              [report EXCEPT !.step = "decision", !.decision = decision_tx_count]
         [] OTHER -> [report EXCEPT !.step = "write", !.results = results_count]
  /\ UNCHANGED <<num_cpus, stages, counters, pipeline, manager_stats, collect, history>>

\* Variant: the report leaves the number of processed results to the processor.
PartialReport(stats) == [stats EXCEPT !.sent = report.decision]

Reported(stats) ==
  [stats EXCEPT !.received = report.mempool, !.sent = report.decision,
                !.processed = report.results]

NewLast(last, current) == current

\* ... and writes them under the lock, unless no time has passed: the first tick
\* of an interval comes at once.
WriteReport(elapsed) ==
  /\ report.step = "write" /\ (elapsed \/ report.first)
  /\ manager_stats' = IF elapsed THEN Reported(manager_stats) ELSE manager_stats
  /\ history' = IF elapsed
                THEN [history EXCEPT !.mempool_rate = @ + (report.mempool - report.last)]
                ELSE history
  /\ report' = [report EXCEPT !.step = "tick", !.first = FALSE,
                              !.last = NewLast(report.last, report.mempool)]
  /\ UNCHANGED <<num_cpus, stages, counters, pipeline, collect>>

\* start_metrics_collection: only the throughput depends on an earlier step.
CollectMetrics(elapsed) ==
  /\ Started("collector") /\ (elapsed \/ collect.first)
  /\ history' = IF elapsed
                THEN [history EXCEPT !.processed_rate = @ + (processed_count - collect.last)]
                ELSE history
  /\ collect' = [last |-> NewLast(collect.last, processed_count), first |-> FALSE]
  /\ UNCHANGED <<num_cpus, stages, counters, pipeline, manager_stats, report>>

Report == ReadCounter \/ WriteReport(TRUE)
Process == RecvResult \/ UpdateStats
StatsNext ==
  \/ StartDecisionPath \/ CountReceived \/ CountSent
  \/ \E r \in DecisionResults : OutputResult(r)
  \/ Process \/ Report \/ WriteReport(FALSE)
  \/ \E elapsed \in BOOLEAN : CollectMetrics(elapsed)

\* get_stats: the counters replace what the report wrote.
GetStats == [manager_stats EXCEPT !.received = mempool_rx_count,
                                  !.sent = decision_tx_count, !.processed = results_count]

-----------------------------------------------------------------------------
(* Properties                                                              *)

\* Wherever the report falls between counting a result and averaging it, the
\* average stays at or below the slowest result: a count that is off changes the
\* weights, never makes them more than one (process_decision_result).
AverageBelowSlowest ==
  manager_stats.sum <= history.slowest * manager_stats.weight

\* The report overwrites the count of results and no more: the opportunities of
\* every processed result stay counted, and the count is at most one ahead of
\* the counter (start_stats_reporting, process_decision_result).
OpportunitiesKept ==
  /\ manager_stats.opportunities = history.opportunities
  /\ manager_stats.processed <= results_count + 1

\* No transaction is in two reported rates, also when a report is skipped because
\* no time has passed (last_mempool_count, last_count).
RatesCountOnce ==
  /\ history.mempool_rate <= mempool_rx_count
  /\ history.processed_rate <= processed_count

\* While the reporter runs, the statistics catch up with the counters again and
\* again, whatever the races left in them: a count that was one ahead is put
\* right by a later report (start_stats_reporting).
StatsCatchUp ==
  [](Started("reporter") => <>(manager_stats = GetStats))

\* Races between counting and reporting neither lose a result for good nor
\* bend the average beyond it (process_decision_result,
\* start_stats_reporting).
StatsSound ==
  /\ [](AverageBelowSlowest /\ OpportunitiesKept /\ RatesCountOnce)
  /\ StatsCatchUp
=============================================================================
