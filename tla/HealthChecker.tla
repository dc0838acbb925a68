---------------------------- MODULE HealthChecker ----------------------------
(***************************************************************************)
(* The health checks of mev-core (monitoring/health.rs): two maps, each    *)
(* behind a fair read-write lock of tokio, and tasks that take both in     *)
(* different orders.                                                       *)
(***************************************************************************)
EXTENDS Naturals, Sequences, FiniteSets

CONSTANTS
  Names,                   \* of the checks
  CriticalNames,           \* is_critical: the RPC and bundle system checks
  Probes,                  \* HTTP requests to /ready and /health
  Registrars,              \* callers of register_check
  MAX_FAILURES             \* bound on failure_count

ASSUME HealthConstants ==
  /\ CriticalNames \subseteq Names /\ MAX_FAILURES \in Nat
  /\ Probes \cap Registrars = {} /\ "monitor" \notin Probes \cup Registrars
  /\ "none" \notin Probes \cup Registrars

VARIABLES
  checks,                  \* names registered
  results,                 \* name -> [status, failures]; only for names in it
  checks_lock, results_lock,   \* [readers, writer, queue]
  task,                    \* per task: [at, name]
  answer                   \* per probe: what it was last told, None before

healthVars == <<checks, results, checks_lock, results_lock, task, answer>>

Monitor == "monitor"
Tasks == Probes \cup Registrars \cup {Monitor}
None == "none"
Free == [readers |-> {}, writer |-> None, queue |-> <<>>]
At(place, name) == [at |-> place, name |-> name, todo |-> {}]

HealthInit ==
  /\ checks = {} /\ results = [n \in Names |-> [status |-> None, failures |-> 0]]
  /\ checks_lock = Free /\ results_lock = Free
  /\ task = [t \in Tasks |-> At("idle", None)]
  /\ answer = [p \in Probes |-> None]

-----------------------------------------------------------------------------
\* external: tokio's RwLock.  A request waits in line behind the earlier ones.
Waiter(t, how) == [task |-> t, how |-> how]
Ask(lock, t, how) == [lock EXCEPT !.queue = Append(@, Waiter(t, how))]
Grantable(lock) ==
  /\ lock.queue # <<>> /\ lock.writer = None
  /\ Head(lock.queue).how = "write" => lock.readers = {}
Grant(lock) ==
  LET w == Head(lock.queue) IN
  [readers |-> IF w.how = "read" THEN lock.readers \cup {w.task} ELSE lock.readers,
   writer |-> IF w.how = "write" THEN w.task ELSE None,
   queue |-> Tail(lock.queue)]
Release(lock, t) ==
  [lock EXCEPT !.readers = @ \ {t}, !.writer = IF @ = t THEN None ELSE @]
Holds(lock, t) == t \in lock.readers \/ lock.writer = t

GrantChecks ==
  /\ Grantable(checks_lock) /\ checks_lock' = Grant(checks_lock)
  /\ UNCHANGED <<checks, results, results_lock, task, answer>>
GrantResults ==
  /\ Grantable(results_lock) /\ results_lock' = Grant(results_lock)
  /\ UNCHANGED <<checks, results, checks_lock, task, answer>>

-----------------------------------------------------------------------------
\* register_check: the checks for writing, then the results.
BeginRegister(t, n) ==
  /\ task[t].at = "idle"
  /\ task' = [task EXCEPT ![t] = At("insert", n)]
  /\ checks_lock' = Ask(checks_lock, t, "write")
  /\ UNCHANGED <<checks, results, results_lock, answer>>

InsertCheck(t) ==
  /\ task[t].at = "insert" /\ Holds(checks_lock, t)
  /\ checks' = checks \cup {task[t].name}
  /\ task' = [task EXCEPT ![t].at = "result"]
  /\ results_lock' = Ask(results_lock, t, "write")
  /\ UNCHANGED <<results, checks_lock, answer>>

InsertResult(t) ==
  /\ task[t].at = "result" /\ Holds(results_lock, t)
  /\ results' = [results EXCEPT ![task[t].name] =
       [status |-> "Unknown", failures |-> 0]]
  /\ task' = [task EXCEPT ![t] = At("idle", None)]
  /\ checks_lock' = Release(checks_lock, t)
  /\ results_lock' = Release(results_lock, t)
  /\ UNCHANGED <<checks, answer>>

-----------------------------------------------------------------------------
\* start_monitoring: run_all_checks reads the names first ...
Tick ==
  /\ task[Monitor].at = "idle"
  /\ task' = [task EXCEPT ![Monitor] = At("names", None)]
  /\ checks_lock' = Ask(checks_lock, Monitor, "read")
  /\ UNCHANGED <<checks, results, results_lock, answer>>

ReadNames ==
  /\ task[Monitor].at = "names" /\ Holds(checks_lock, Monitor)
  /\ task' = [task EXCEPT ![Monitor] = [At("next", None) EXCEPT !.todo = checks]]
  /\ checks_lock' = Release(checks_lock, Monitor)
  /\ UNCHANGED <<checks, results, results_lock, answer>>

\* ... then takes the lock again for each of them, and keeps it over the check.
NextCheck ==
  /\ task[Monitor].at = "next"
  /\ \/ /\ task[Monitor].todo = {}
        /\ task' = [task EXCEPT ![Monitor] = At("idle", None)]
        /\ UNCHANGED checks_lock
     \/ \E n \in task[Monitor].todo :
          /\ task' = [task EXCEPT ![Monitor] =
               [at |-> "check", name |-> n, todo |-> task[Monitor].todo \ {n}]]
          /\ checks_lock' = Ask(checks_lock, Monitor, "read")
  /\ UNCHANGED <<checks, results, results_lock, answer>>

RunCheck ==
  /\ task[Monitor].at = "check" /\ Holds(checks_lock, Monitor)
  /\ task' = [task EXCEPT ![Monitor].at = "store"]
  /\ results_lock' = Ask(results_lock, Monitor, "write")
  /\ UNCHANGED <<checks, results, checks_lock, answer>>

\* How run_single_check ends: a success counts by its duration, a failure by
\* the kind of the check, a timeout is critical.
Outcomes(n) ==
  {[status |-> s, failed |-> FALSE] : s \in {"Healthy", "Warning", "Critical"}}
    \cup {[status |-> IF n \in CriticalNames THEN "Critical" ELSE "Warning",
           failed |-> TRUE],
          [status |-> "Critical", failed |-> TRUE]}

StoreResult ==
  LET n == task[Monitor].name IN
  /\ task[Monitor].at = "store" /\ Holds(results_lock, Monitor)
  /\ \E o \in Outcomes(n) :
       /\ o.failed => results[n].failures < MAX_FAILURES
       /\ results' = [results EXCEPT ![n] =
            [status |-> o.status,
             failures |-> IF o.failed THEN results[n].failures + 1 ELSE 0]]
  /\ task' = [task EXCEPT ![Monitor].at = "next", ![Monitor].name = None]
  /\ checks_lock' = Release(checks_lock, Monitor)
  /\ results_lock' = Release(results_lock, Monitor)
  /\ UNCHANGED <<checks, answer>>

-----------------------------------------------------------------------------
\* is_ready: the results for reading, then the checks.
BeginReady(p) ==
  /\ task[p].at = "idle"
  /\ task' = [task EXCEPT ![p] = At("ready", None)]
  /\ answer' = [answer EXCEPT ![p] = None]
  /\ results_lock' = Ask(results_lock, p, "read")
  /\ UNCHANGED <<checks, results, checks_lock>>

ReadyResults(p) ==
  /\ task[p].at = "ready" /\ Holds(results_lock, p)
  /\ task' = [task EXCEPT ![p].at = "both"]
  /\ checks_lock' = Ask(checks_lock, p, "read")
  /\ UNCHANGED <<checks, results, results_lock, answer>>

IsReady(p) ==
  /\ task[p].at = "both" /\ Holds(checks_lock, p)
  /\ answer' = [answer EXCEPT ![p] =
       IF \E n \in checks \cap CriticalNames : results[n].status = "Critical"
       THEN "not ready" ELSE "ready"]
  /\ task' = [task EXCEPT ![p] = At("idle", None)]
  /\ checks_lock' = Release(checks_lock, p)
  /\ results_lock' = Release(results_lock, p)
  /\ UNCHANGED <<checks, results>>

\* get_health_status needs the results alone.
BeginHealth(p) ==
  /\ task[p].at = "idle"
  /\ task' = [task EXCEPT ![p] = At("health", None)]
  /\ answer' = [answer EXCEPT ![p] = None]
  /\ results_lock' = Ask(results_lock, p, "read")
  /\ UNCHANGED <<checks, results, checks_lock>>

GetHealthStatus(p) ==
  /\ task[p].at = "health" /\ Holds(results_lock, p)
  /\ answer' = [answer EXCEPT ![p] =
       IF \A n \in Names : results[n].status \in {"Healthy", "Warning", None}
       THEN "healthy" ELSE "unhealthy"]
  /\ task' = [task EXCEPT ![p] = At("idle", None)]
  /\ results_lock' = Release(results_lock, p)
  /\ UNCHANGED <<checks, results, checks_lock>>

MonitorStep == ReadNames \/ NextCheck \/ RunCheck \/ StoreResult
ProbeStep(p) == ReadyResults(p) \/ IsReady(p) \/ GetHealthStatus(p)

HealthNext ==
  \/ GrantChecks \/ GrantResults
  \/ \E t \in Registrars : InsertCheck(t) \/ InsertResult(t)
                             \/ \E n \in Names : BeginRegister(t, n)
  \/ Tick \/ MonitorStep
  \/ \E p \in Probes : BeginReady(p) \/ BeginHealth(p) \/ ProbeStep(p)

-----------------------------------------------------------------------------
(* Properties                                                              *)

Registering == \E t \in Registrars : task[t].at # "idle"

\* Waiting for a lock that is not granted while its holder waits as well.
Stuck(t) ==
  LET blocked == {u \in Tasks :
        \/ \E i \in 1..Len(checks_lock.queue) : checks_lock.queue[i].task = u
        \/ \E i \in 1..Len(results_lock.queue) : results_lock.queue[i].task = u}
  IN /\ t \in blocked
     /\ ~Grantable(checks_lock) /\ ~Grantable(results_lock)
     /\ \A u \in Tasks : Holds(checks_lock, u) \/ Holds(results_lock, u)
          => u \in blocked

\* is_ready takes the two locks in the other order than register_check and the
\* monitor do, so they can wait for each other forever; but only while a check
\* is being registered: probes and the monitor alone never block one another.
OnlyRegistrationBlocks == (\E t \in Tasks : Stuck(t)) => Registering

\* "ready" and "healthy" never hide a check that timed out or failed badly: at
\* the moment of the answer no critical check registered so far has failed last
\* (is_ready), and a check that was never run makes the system unhealthy though
\* not unready (get_health_status).
NotReadyIsRight ==
  [][\A p \in Probes : answer'[p] # answer[p] =>
       /\ answer'[p] = "ready" => \A n \in CriticalNames : results[n].failures = 0
       /\ answer'[p] = "healthy" => \A n \in Names :
            results[n].status # "Unknown"]_healthVars

\* With no registration under way forever, a request to /ready or /health is
\* answered.
ProbesAnswered ==
  \A p \in Probes :
    <>[]~Registering => (task[p].at # "idle" ~> task[p].at = "idle")
=============================================================================
