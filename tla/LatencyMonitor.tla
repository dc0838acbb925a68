---------------------------- MODULE LatencyMonitor ----------------------------
(***************************************************************************)
(* The latency monitor of mev-core (latency_monitor.rs) and its histogram  *)
(* (metrics.rs), for one category: tasks record, read and reset it without *)
(* a common lock, and a spawned task creates its maps.  The list of        *)
(* measurements, a log that only export_measurements reads, is left out.   *)
(***************************************************************************)
EXTENDS Integers, Sequences, FiniteSets, SequencesExt

CONSTANTS
  Recorders,               \* tasks that call record_latency
  Latencies,               \* latencies, as numbers
  TARGET,                  \* the target of the category
  HISTOGRAM_SIZE,          \* histogram_size
  MAX_RECORDS, MAX_CLEARS  \* bounds

ASSUME LatencyConstants ==
  /\ Latencies \subseteq Nat /\ TARGET \in Nat
  /\ IsFiniteSet(Recorders)
  /\ HISTOGRAM_SIZE \in Nat \ {0} /\ {MAX_RECORDS, MAX_CLEARS} \subseteq Nat

VARIABLES
  initialized,             \* the maps have their entries
  samples,                 \* of the histogram
  violations,              \* the counter of target_violations
  total_measurements,
  recorder,                \* task -> [at, latency]
  clearing,                \* the step reset_stats is at
  last_stats,              \* what get_stats returned last
  recent,                  \* history: latencies since samples were last sorted
  early,                   \* history: a record began before the maps were there
  recorded, clears         \* history

latVars == <<initialized, samples, violations, total_measurements,
             recorder, clearing, last_stats, recent, early, recorded, clears>>
latHistory == <<recent, early, recorded, clears>>

NoStats == [count |-> 0, median2 |-> 0, p95 |-> 0, p99 |-> 0]

LatencyInit ==
  /\ initialized = FALSE
  /\ samples = <<>> /\ violations = 0 /\ total_measurements = 0
  /\ recorder = [t \in Recorders |-> [at |-> "idle", latency |-> 0]]
  /\ clearing = "no" /\ last_stats = NoStats
  /\ recent = <<>> /\ early = FALSE /\ recorded = 0 /\ clears = 0

-----------------------------------------------------------------------------
\* The task spawned by new holds both write locks.
Initialize ==
  /\ ~initialized /\ initialized' = TRUE
  /\ UNCHANGED <<samples, violations, total_measurements, recorder,
                 clearing, last_stats, latHistory>>

\* LatencyHistogram::record: a full window loses its first sample.
Push(window, x) ==
  Append(IF Len(window) >= HISTOGRAM_SIZE THEN Tail(window) ELSE window, x)

\* record_latency: the histogram, if it is there ...
RecordInHistogram(t, x) ==
  /\ recorder[t].at = "idle" /\ recorded < MAX_RECORDS
  /\ samples' = IF initialized THEN Push(samples, x) ELSE samples
  /\ recent' = IF initialized THEN Append(recent, x) ELSE recent
  /\ early' = (early \/ ~initialized) /\ recorded' = recorded + 1
  /\ recorder' = [recorder EXCEPT ![t] = [at |-> "target", latency |-> x]]
  /\ UNCHANGED <<initialized, violations, total_measurements, clearing,
                 last_stats, clears>>

\* Variant: on the target counts as a violation.
CheckTargetInclusive(t) ==
  /\ recorder[t].at = "target"
  /\ violations' = IF recorder[t].latency >= TARGET /\ initialized
                   THEN violations + 1 ELSE violations
  /\ recorder' = [recorder EXCEPT ![t].at = "total"]
  /\ UNCHANGED <<initialized, samples, total_measurements, clearing,
                 last_stats, latHistory>>

\* ... then the counter of violations ...
CheckTarget(t) ==
  /\ recorder[t].at = "target"
  /\ violations' = IF recorder[t].latency > TARGET /\ initialized
                   THEN violations + 1 ELSE violations
  /\ recorder' = [recorder EXCEPT ![t].at = "total"]
  /\ UNCHANGED <<initialized, samples, total_measurements, clearing,
                 last_stats, latHistory>>

\* ... and the total.
CountMeasurement(t) ==
  /\ recorder[t].at = "total"
  /\ total_measurements' = total_measurements + 1
  /\ recorder' = [recorder EXCEPT ![t].at = "idle"]
  /\ UNCHANGED <<initialized, samples, violations, clearing,
                 last_stats, latHistory>>

-----------------------------------------------------------------------------
\* The 95th percentile and the like: index floor(count * q), at most the last.
Percentile(sorted, q) ==
  sorted[Min({(Len(sorted) * q) \div 100, Len(sorted) - 1}) + 1]

\* What sorting makes of a window: its samples in ascending order (one sequence,
\* as equal numbers cannot be told apart).
Sorts(window) ==
  {s \in {[i \in DOMAIN window |-> window[p[i]]] :
             p \in Bijection(DOMAIN window, DOMAIN window)} :
     \A i, j \in DOMAIN window : i < j => s[i] <= s[j]}

\* LatencyHistogram::get_stats of a window that is not empty, once it is sorted;
\* median2 is twice the median.
Stats(sorted) ==
  LET n == Len(sorted) IN
  [count |-> n, p95 |-> Percentile(sorted, 95), p99 |-> Percentile(sorted, 99),
   median2 |-> IF n % 2 = 0 THEN sorted[n \div 2] + sorted[n \div 2 + 1]
               ELSE 2 * sorted[n \div 2 + 1]]

\* get_stats sorts the samples in place; the compliance it reports is
\* 1 - violations / count.
GetStats ==
  /\ initialized /\ samples # <<>>
  /\ samples' \in Sorts(samples)
  /\ last_stats' = Stats(samples')
  /\ recent' = <<>>
  /\ UNCHANGED <<initialized, violations, total_measurements, recorder,
                 clearing, early, recorded, clears>>

\* reset_stats: the histograms are only locked; then the counters ...
ResetViolations ==
  /\ clearing = "no" /\ clears < MAX_CLEARS /\ clears' = clears + 1
  /\ violations' = 0 /\ clearing' = "total"
  /\ UNCHANGED <<initialized, samples, total_measurements, recorder,
                 last_stats, recent, early, recorded>>

\* ... and the total, each by itself.
ResetTotal ==
  /\ clearing = "total" /\ clearing' = "no" /\ total_measurements' = 0
  /\ UNCHANGED <<initialized, samples, violations, recorder,
                 last_stats, latHistory>>

LatencyNext ==
  \/ Initialize \/ GetStats
  \/ \E t \in Recorders :
       \/ \E x \in Latencies : RecordInHistogram(t, x)
       \/ CheckTarget(t) \/ CountMeasurement(t)
  \/ ResetViolations \/ ResetTotal

-----------------------------------------------------------------------------
(* Properties                                                              *)

\* What was recorded since the statistics were last read is in the window, in
\* order, as far as it fits; reading them sorts the window, and from then on a
\* new sample pushes out the smallest one, not the oldest (LatencyHistogram).
NewSamplesStay ==
  LET n == Min({Len(recent), HISTOGRAM_SIZE})
  IN /\ Len(samples) <= HISTOGRAM_SIZE
     /\ SubSeq(samples, Len(samples) - n + 1, Len(samples))
          = SubSeq(recent, Len(recent) - n + 1, Len(recent))

\* As long as nothing was reset or pushed out and the maps were there from the
\* start, the counter is the number of samples over the target but for the
\* records under way, so the compliance rate is one; each of the three makes it
\* a number that may be negative (record_latency, reset_stats, new).
CounterMatchesWindow ==
  clears = 0 /\ ~early /\ recorded <= HISTOGRAM_SIZE =>
    violations + Cardinality({t \in Recorders : recorder[t].at = "target"
                                                  /\ recorder[t].latency > TARGET})
      = Cardinality({i \in DOMAIN samples : samples[i] > TARGET})

=============================================================================
