------------------------------ MODULE Breaker ------------------------------
(***************************************************************************)
(* What the circuit breaker of the HyperLiquid RPC service promises: the   *)
(* behaviour of rpc_service.rs's CircuitBreaker when each of its methods   *)
(* runs without interference.  RpcService models the same methods one      *)
(* atomic access at a time and is shown to implement this module when the  *)
(* service has a single caller.                                            *)
(*                                                                         *)
(* Time is the number of seconds since the circuit opened, cut off at      *)
(* COOLDOWN: the code only ever compares it with COOLDOWN.  The failure    *)
(* count is cut off at THRESHOLD for the same reason.                      *)
(***************************************************************************)
EXTENDS Naturals

CONSTANTS
  THRESHOLD,  \* CIRCUIT_BREAKER_THRESHOLD
  COOLDOWN    \* CIRCUIT_BREAKER_COOLDOWN_SECS

VARIABLES
  circuit,    \* CircuitBreaker::state
  failures,   \* CircuitBreaker::consecutive_failures
  elapsed     \* now - opened_at

bvars == <<circuit, failures, elapsed>>

CircuitStates == {"closed", "open", "halfopen"}

UpTo(limit, n) == IF n < limit THEN n ELSE limit

Init ==
  /\ circuit = "closed"
  /\ failures = 0
  /\ elapsed = COOLDOWN     \* opened_at = 0, the epoch

\* should_allow_request lets a test request through an open circuit.
Probe ==
  /\ circuit = "open"
  /\ elapsed = COOLDOWN
  /\ circuit' = "halfopen"
  /\ UNCHANGED <<failures, elapsed>>

\* record_success
Succeed ==
  /\ circuit # "open"
  /\ circuit' = "closed"
  /\ failures' = 0
  /\ UNCHANGED elapsed

\* record_failure, below the threshold
Fail ==
  /\ circuit = "closed"
  /\ failures + 1 < THRESHOLD
  /\ failures' = failures + 1
  /\ UNCHANGED <<circuit, elapsed>>

\* record_failure, at the threshold or on a failed test request
Trip ==
  /\ \/ circuit = "closed" /\ failures + 1 >= THRESHOLD
     \/ circuit = "halfopen"
  /\ circuit' = "open"
  /\ failures' = UpTo(THRESHOLD, failures + 1)
  /\ elapsed' = 0

Second ==
  /\ elapsed < COOLDOWN
  /\ elapsed' = elapsed + 1
  /\ UNCHANGED <<circuit, failures>>

Next == Probe \/ Succeed \/ Fail \/ Trip \/ Second

Spec == Init /\ [][Next]_bvars
=============================================================================
