----------------------------- MODULE RpcService -----------------------------
(***************************************************************************)
(* HyperLiquidRpcService (crates/mev-hyperliquid/src/rpc_service.rs): the  *)
(* tasks that share one service run execute_with_retry concurrently, and   *)
(* its circuit breaker is three independent atomics.  Every load, store    *)
(* and fetch_add of the breaker is a step of its own, so that the tasks    *)
(* interleave between them.                                                *)
(*                                                                         *)
(* Three kinds of task call the service:                                   *)
(*   Pollers   run start_polling, which skips its turn while the circuit   *)
(*             reads "open";                                               *)
(*   Loopers   run the service manager's run_rpc_polling, which calls      *)
(*             poll_blockchain_state on every tick;                        *)
(*   the other Callers call submit_transaction when they have something    *)
(*             to submit, and may never do so.                             *)
(*                                                                         *)
(* age is now - opened_at, cut off at COOLDOWN, and failures is cut off at *)
(* THRESHOLD: the code compares them with nothing else, so the model needs *)
(* no bound on time or on the number of calls.  A clock that steps back    *)
(* (SystemTime is not monotonic) is not modelled.                          *)
(***************************************************************************)
EXTENDS Naturals, FiniteSets

CONSTANTS
  Callers,    \* tasks that share the service
  Pollers,    \* those in start_polling
  Loopers,    \* those in run_rpc_polling
  THRESHOLD,  \* CIRCUIT_BREAKER_THRESHOLD
  COOLDOWN,   \* CIRCUIT_BREAKER_COOLDOWN_SECS
  ATTEMPTS    \* MAX_RETRY_ATTEMPTS

ASSUME RpcConstants ==
  /\ Pollers \subseteq Callers
  /\ Loopers \subseteq Callers \ Pollers
  /\ THRESHOLD \in Nat \ {0}
  /\ COOLDOWN \in Nat \ {0}
  /\ ATTEMPTS \in Nat \ {0}

VARIABLES
  state,      \* CircuitBreaker::state
  failures,   \* CircuitBreaker::consecutive_failures
  age,        \* seconds since CircuitBreaker::opened_at
  pc,         \* where each task is
  seen,       \* the circuit state record_success or record_failure loaded
  attempt,    \* execute_with_retry's attempt
  up,         \* the RPC endpoint answers every request
  sinceTrip,  \* history: seconds since the circuit was last set to open
  failed      \* history: operations that have failed so far, up to THRESHOLD

breaker == <<state, failures, age>>
history == <<sinceTrip, failed>>
vars == <<state, failures, age, pc, seen, attempt, up, sinceTrip, failed>>

CircuitStates == {"closed", "open", "halfopen"}

Locations == {"idle", "admit", "cooldown", "probe", "call", "succeeded",
              "close", "reset", "failed", "count", "trip", "stamp"}

UpTo(limit, n) == IF n < limit THEN n ELSE limit

Init ==
  /\ state = "closed"
  /\ failures = 0
  /\ age = COOLDOWN          \* opened_at = 0, the epoch
  /\ pc = [c \in Callers |-> "idle"]
  /\ seen = [c \in Callers |-> "closed"]
  /\ attempt = [c \in Callers |-> 1]
  /\ up \in BOOLEAN
  /\ sinceTrip = COOLDOWN
  /\ failed = 0

Goto(c, from, to) == pc[c] = from /\ pc' = [pc EXCEPT ![c] = to]

-----------------------------------------------------------------------------
(* The polling loops and the entry of execute_with_retry.                  *)

\* start_polling reads the status first and continues its loop when it is
\* "open", before should_allow_request is ever reached.
PollCheck(c) ==
  /\ c \in Pollers
  /\ state # "open"
  /\ Goto(c, "idle", "admit")
  /\ UNCHANGED <<breaker, seen, attempt, up, history>>

\* run_rpc_polling's tick, or a call of submit_transaction.
Call(c) ==
  /\ c \notin Pollers
  /\ Goto(c, "idle", "admit")
  /\ UNCHANGED <<breaker, seen, attempt, up, history>>

\* should_allow_request loads the state.
AllowLoad(c) ==
  /\ Goto(c, "admit", IF state = "open" THEN "cooldown" ELSE "call")
  /\ UNCHANGED <<breaker, seen, attempt, up, history>>

\* Variant: the cooldown ends one second early.
ShortCooldownCheck(c) ==
  /\ Goto(c, "cooldown", IF age + 1 >= COOLDOWN THEN "probe" ELSE "idle")
  /\ UNCHANGED <<breaker, seen, attempt, up, history>>

\* should_allow_request of an open circuit: the cooldown is over, or the
\* request is refused and execute_with_retry returns an error.
CooldownCheck(c) ==
  /\ Goto(c, "cooldown", IF age >= COOLDOWN THEN "probe" ELSE "idle")
  /\ UNCHANGED <<breaker, seen, attempt, up, history>>

\* Variant: the test request leaves the circuit open.
SilentProbeStore(c) ==
  /\ Goto(c, "probe", "call")
  /\ UNCHANGED <<breaker, seen, attempt, up, history>>

ProbeStore(c) ==
  /\ Goto(c, "probe", "call")
  /\ state' = "halfopen"
  /\ UNCHANGED <<failures, age, seen, attempt, up, history>>

-----------------------------------------------------------------------------
(* The retry loop of execute_with_retry.                                   *)

AttemptOk(c) ==
  /\ Goto(c, "call", "succeeded")
  /\ attempt' = [attempt EXCEPT ![c] = 1]
  /\ UNCHANGED <<breaker, seen, up, history>>

\* Variant: one attempt too many.
ExtraAttemptFails(c) ==
  /\ ~up
  /\ IF attempt[c] <= ATTEMPTS
     THEN /\ pc[c] = "call"
          /\ attempt' = [attempt EXCEPT ![c] = attempt[c] + 1]
          /\ UNCHANGED pc
     ELSE /\ Goto(c, "call", "failed")
          /\ attempt' = [attempt EXCEPT ![c] = 1]
  /\ UNCHANGED <<breaker, seen, up, history>>

\* An error or a timeout; the backoff before the next attempt is time that
\* other tasks and the clock may use.
AttemptFails(c) ==
  /\ ~up
  /\ IF attempt[c] < ATTEMPTS
     THEN /\ pc[c] = "call"
          /\ attempt' = [attempt EXCEPT ![c] = attempt[c] + 1]
          /\ UNCHANGED pc
     ELSE /\ Goto(c, "call", "failed")
          /\ attempt' = [attempt EXCEPT ![c] = 1]
  /\ UNCHANGED <<breaker, seen, up, history>>

-----------------------------------------------------------------------------
(* CircuitBreaker::record_success.                                         *)

\* Variant: a success in the half-open state does not close the circuit.
TimidSuccessLoad(c) ==
  /\ Goto(c, "succeeded", IF state # "open" THEN "reset" ELSE "close")
  /\ seen' = [seen EXCEPT ![c] = state]
  /\ UNCHANGED <<breaker, attempt, up, history>>

SuccessLoad(c) ==
  /\ Goto(c, "succeeded", IF state = "closed" THEN "reset" ELSE "close")
  /\ seen' = [seen EXCEPT ![c] = state]
  /\ UNCHANGED <<breaker, attempt, up, history>>

CloseStore(c) ==
  /\ Goto(c, "close", "reset")
  /\ state' = "closed"
  /\ UNCHANGED <<failures, age, seen, attempt, up, history>>

ResetStore(c) ==
  /\ Goto(c, "reset", "idle")
  /\ failures' = 0
  /\ seen' = [seen EXCEPT ![c] = "closed"]
  /\ UNCHANGED <<state, age, attempt, up, history>>

-----------------------------------------------------------------------------
(* CircuitBreaker::record_failure.                                         *)

FailLoad(c) ==
  /\ Goto(c, "failed", "count")
  /\ seen' = [seen EXCEPT ![c] = state]
  /\ UNCHANGED <<breaker, attempt, up, history>>

\* Variant: the circuit opens one failure early.
EagerTrips(c) ==
  \/ seen[c] = "closed" /\ failures + 2 >= THRESHOLD
  \/ seen[c] = "halfopen"

\* The task that counts a failure opens the circuit.
Trips(c) ==
  \/ seen[c] = "closed" /\ failures + 1 >= THRESHOLD
  \/ seen[c] = "halfopen"

FailCount(c) ==
  /\ Goto(c, "count", IF Trips(c) THEN "trip" ELSE "idle")
  /\ failures' = UpTo(THRESHOLD, failures + 1)
  /\ failed' = UpTo(THRESHOLD, failed + 1)
  /\ seen' = [seen EXCEPT ![c] = "closed"]
  /\ UNCHANGED <<state, age, attempt, up, sinceTrip>>

TripStore(c) ==
  /\ Goto(c, "trip", "stamp")
  /\ state' = "open"
  /\ sinceTrip' = 0
  /\ UNCHANGED <<failures, age, seen, attempt, up, failed>>

StampStore(c) ==
  /\ Goto(c, "stamp", "idle")
  /\ age' = 0
  /\ UNCHANGED <<state, failures, seen, attempt, up, history>>

-----------------------------------------------------------------------------
(* The clock and the endpoint.                                             *)

Second ==
  /\ age < COOLDOWN \/ sinceTrip < COOLDOWN
  /\ age' = UpTo(COOLDOWN, age + 1)
  /\ sinceTrip' = UpTo(COOLDOWN, sinceTrip + 1)
  /\ UNCHANGED <<state, failures, pc, seen, attempt, up, failed>>

EndpointChanges ==
  /\ up' = ~up
  /\ UNCHANGED <<breaker, pc, seen, attempt, history>>

Begin(c) == PollCheck(c) \/ Call(c)

\* A task inside execute_with_retry moves to its next step.
Proceed(c) ==
  \/ AllowLoad(c) \/ CooldownCheck(c) \/ ProbeStore(c)
  \/ AttemptOk(c) \/ AttemptFails(c)
  \/ SuccessLoad(c) \/ CloseStore(c) \/ ResetStore(c)
  \/ FailLoad(c) \/ FailCount(c) \/ TripStore(c) \/ StampStore(c)

Next ==
  \/ \E c \in Callers : Begin(c) \/ Proceed(c)
  \/ Second
  \/ EndpointChanges

Spec == Init /\ [][Next]_vars

\* tokio runs every ready task, every attempt ends (time::timeout) and the
\* clock advances; the polling loops call again on every tick, while nothing
\* obliges the other tasks to call at all.
Fairness ==
  /\ \A c \in Callers : WF_vars(Proceed(c))
  /\ \A c \in Pollers \cup Loopers : WF_vars(Begin(c))
  /\ WF_vars(Second)

FairSpec == Spec /\ Fairness

-----------------------------------------------------------------------------
(* Properties.                                                             *)

TypeOK ==
  /\ state \in CircuitStates
  /\ failures \in 0..THRESHOLD
  /\ age \in 0..COOLDOWN
  /\ pc \in [Callers -> Locations]
  /\ seen \in [Callers -> CircuitStates]
  /\ attempt \in [Callers -> 1..ATTEMPTS]
  /\ up \in BOOLEAN
  /\ sinceTrip \in 0..COOLDOWN
  /\ failed \in 0..THRESHOLD

\* However the tasks interleave their stores, a circuit that is not closed
\* was preceded by THRESHOLD failed operations: no mixture of stale loads
\* blocks a service that has failed less often than that.
NoFalseTrip == state # "closed" => failed = THRESHOLD

\* The circuit lets a test request through only when a whole cooldown has
\* passed since it was set to open.
CooldownRespected ==
  \A c \in Callers : pc[c] = "probe" => sinceTrip = COOLDOWN

\* record_success finds the circuit open: "Should not happen, but reset if
\* it does".
NoSuccessWhileOpen ==
  \A c \in Callers : pc[c] \in {"close", "reset"} => seen[c] # "open"

\* Once the endpoint has recovered for good, the circuit ends up closed:
\* polling resumes after the cooldown.
Recovers == <>[]up => []<>(state = "closed")

\* With one caller the steps below are the atomic methods of Breaker: the
\* stores that follow the deciding step are already done in its eyes.
At(l) == \E c \in Callers : pc[c] = l

Abstract == INSTANCE Breaker WITH
  circuit <- IF At("trip") THEN "open" ELSE state,
  failures <- IF At("reset") THEN 0 ELSE failures,
  elapsed <- IF At("trip") \/ At("stamp") THEN 0 ELSE age

\* The service with one caller implements the breaker that the module
\* documentation describes.
ImplementsBreaker == Abstract!Spec
=============================================================================
