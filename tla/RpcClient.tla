------------------------------ MODULE RpcClient ------------------------------
(***************************************************************************)
(* The RPC client of mev-core with several endpoints (rpc_client.rs):      *)
(* calls under a semaphore choose an endpoint by its recorded health, a    *)
(* background task probes them one after the other.                        *)
(***************************************************************************)
EXTENDS Integers, Sequences, FiniteSets, FiniteSetsExt

CONSTANTS
  RpcCallers,              \* calls through one client
  ENDPOINTS,               \* number of endpoints
  RETRY_ATTEMPTS,          \* retry_attempts
  MAX_REQUESTS,            \* max_concurrent_requests
  ERRORS_TO_UNHEALTHY,     \* 3
  Speeds                   \* response times that are told apart

ASSUME RpcClientConstants ==
  /\ {ENDPOINTS, RETRY_ATTEMPTS, MAX_REQUESTS, ERRORS_TO_UNHEALTHY} \subseteq Nat \ {0}
  /\ Speeds \subseteq Nat \ {0}

VARIABLES
  endpoint_health,         \* endpoint -> [is_healthy, response_time, error_count]
  reachable,               \* external: endpoints that answer
  request,                 \* call -> [at, provider, attempt, ok]
  permit_line,             \* external: calls waiting for the semaphore
  health_check,            \* the endpoint the background task probes next
  failedLast               \* history: endpoints whose last outcome was an error

clientVars == <<endpoint_health, reachable, request, permit_line, health_check,
                failedLast>>

Endpoints == 1..ENDPOINTS
NoRequest == [at |-> "idle", provider |-> 1, attempt |-> 0, ok |-> FALSE]

ClientInit ==
  /\ endpoint_health = [i \in Endpoints |->
       [is_healthy |-> TRUE, response_time |-> 0, error_count |-> 0]]
  /\ reachable \in SUBSET Endpoints
  /\ request = [c \in RpcCallers |-> NoRequest] /\ permit_line = <<>>
  /\ health_check = 1
  /\ failedLast = {}

-----------------------------------------------------------------------------

\* EndpointHealth::record_success: the error count is never reset.
RecordSuccess(health, speed) ==
  [health EXCEPT !.response_time = speed, !.is_healthy = TRUE]

\* EndpointHealth::record_error.  The count is only compared with the limit, so
\* it stays there.
RecordError(health) ==
  LET count == Min({health.error_count + 1, ERRORS_TO_UNHEALTHY})
  IN [health EXCEPT !.error_count = count,
                    !.is_healthy = @ /\ count < ERRORS_TO_UNHEALTHY]

Record(i, ok) ==
  /\ IF ok THEN \E s \in Speeds : endpoint_health' =
                  [endpoint_health EXCEPT ![i] = RecordSuccess(@, s)]
     ELSE endpoint_health' = [endpoint_health EXCEPT ![i] = RecordError(@)]
  /\ failedLast' = IF ok THEN failedLast \ {i} ELSE failedLast \cup {i}

\* get_best_provider: the first of the fastest healthy ones; one that was never
\* tried counts as the fastest; without a healthy one the first.
GetBestProvider ==
  LET healthy == {i \in Endpoints : endpoint_health[i].is_healthy}
      best == Min({endpoint_health[i].response_time : i \in healthy})
  IN IF healthy = {} THEN 1
     ELSE Min({i \in healthy : endpoint_health[i].response_time = best})

-----------------------------------------------------------------------------
Working(c) == request[c].at \in {"call", "record", "sleep"}

\* call_with_retry waits for a permit, which it keeps until it returns, also
\* while it sleeps.
BeginCall(c) ==
  /\ request[c].at = "idle"
  /\ request' = [request EXCEPT ![c] = [NoRequest EXCEPT !.at = "permit"]]
  /\ permit_line' = Append(permit_line, c)
  /\ UNCHANGED <<endpoint_health, reachable, health_check, failedLast>>

\* The next attempt goes to the best endpoint of the moment.
Attempt(r) == [r EXCEPT !.at = "call", !.provider = GetBestProvider]

AcquirePermit ==
  /\ permit_line # <<>>
  /\ Cardinality({c \in RpcCallers : Working(c)}) < MAX_REQUESTS
  /\ request' = [request EXCEPT ![Head(permit_line)] = Attempt(@)]
  /\ permit_line' = Tail(permit_line)
  /\ UNCHANGED <<endpoint_health, reachable, health_check, failedLast>>

\* external: the operation, answered by an endpoint that is reachable.
CallEnds(c) ==
  /\ request[c].at = "call"
  /\ request' = [request EXCEPT ![c].at = "record",
                                ![c].ok = request[c].provider \in reachable]
  /\ UNCHANGED <<endpoint_health, reachable, permit_line, health_check, failedLast>>

\* Variant: the attempts are not counted.
RetryForever(r) == IF r.ok THEN NoRequest ELSE [NoRequest EXCEPT !.at = "sleep"]

\* A success, or the last attempt, ends the call.
AfterAttempt(r) ==
  IF r.ok \/ r.attempt = RETRY_ATTEMPTS - 1 THEN NoRequest
  ELSE [NoRequest EXCEPT !.at = "sleep", !.attempt = r.attempt + 1]

\* The outcome is recorded under the write lock, after other outcomes maybe.
RecordOutcome(c) ==
  /\ request[c].at = "record"
  /\ Record(request[c].provider, request[c].ok)
  /\ request' = [request EXCEPT ![c] = AfterAttempt(@)]
  /\ UNCHANGED <<reachable, permit_line, health_check>>

RetryDelay(c) ==
  /\ request[c].at = "sleep"
  /\ request' = [request EXCEPT ![c] = Attempt(@)]
  /\ UNCHANGED <<endpoint_health, reachable, permit_line, health_check, failedLast>>

-----------------------------------------------------------------------------

\* start_health_check_task: the endpoints in order, at every tick; the outcome
\* of the probe is recorded as it arrives.
ProbeEndpoint ==
  LET i == health_check IN
  /\ Record(i, i \in reachable)
  /\ health_check' = (i % ENDPOINTS) + 1
  /\ UNCHANGED <<reachable, request, permit_line>>

\* external: endpoints come and go.
EndpointsChange(up) ==
  /\ reachable' = up
  /\ UNCHANGED <<endpoint_health, request, permit_line, health_check, failedLast>>

CallStep(c) == CallEnds(c) \/ RecordOutcome(c) \/ RetryDelay(c)

ClientNext ==
  \/ \E c \in RpcCallers : BeginCall(c) \/ CallStep(c)
  \/ AcquirePermit
  \/ ProbeEndpoint
  \/ \E up \in SUBSET Endpoints : EndpointsChange(up)

-----------------------------------------------------------------------------
(* Properties                                                              *)

\* However the outcomes of concurrent calls and probes are recorded, an
\* endpoint that is out of use failed last and failed ERRORS_TO_UNHEALTHY times
\* in its life: one recorded success is enough to use it again, and (the count
\* is never reset) one error after that takes it out again.
UnhealthyFailedLast ==
  \A i \in Endpoints : ~endpoint_health[i].is_healthy
    <=> /\ i \in failedLast
        /\ endpoint_health[i].error_count = ERRORS_TO_UNHEALTHY

\* When one endpoint stays up and the others stay down, calls end up at that
\* one and no attempt fails any more, even if it was out of use before: the
\* probes bring it back (get_best_provider, start_health_check_task).
FailsOver ==
  \A i \in Endpoints :
    <>[](reachable = {i})
      => <>[](\A c \in RpcCallers : request[c].at \in {"call", "record"}
                                      => request[c].provider = i)

\* Every call ends, whatever the endpoints do, although the calls that sleep
\* between attempts keep the permits the others wait for (call_with_retry).
CallsEnd == \A c \in RpcCallers : request[c].at = "permit" ~> request[c].at = "idle"
=============================================================================
