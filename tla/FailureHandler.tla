--------------------------- MODULE FailureHandler ---------------------------
(***************************************************************************)
(* FailureHandler (mev-core/src/bundle/failure_handler.rs): concurrent     *)
(* handle_failure calls, the rollbacks they start, the kill switch and the *)
(* clean-up of old records.                                                *)
(*                                                                         *)
(* Each lock is a variable's guard: handle_retry sleeps with the write     *)
(* lock of the failures, execute_rollback with that of the rollbacks, and  *)
(* cleanup_old_records waits for the second while it holds the first.      *)
(***************************************************************************)
EXTENDS Naturals, FiniteSets

CONSTANTS
  Handlers,                \* tasks that call handle_failure
  Occurring,               \* the types of failure that occur
  auto_rollback,
  MAX_FAILURES,            \* bound: failures that occur
  MAX_ACTIVATIONS,         \* bound: activations of the kill switch
  Cleaner,                 \* the task that cleans up old records
  Free

FailureTypes ==
  {"NonceCollision", "GasUnderpricing", "Reorg", "MempoolEviction",
   "ExecutionFailure", "NetworkError", "InsufficientFunds", "ContractRevert"}

ASSUME HandlerConstants ==
  /\ auto_rollback \in BOOLEAN /\ MAX_FAILURES \in Nat /\ MAX_ACTIVATIONS \in Nat
  /\ Free \notin Handlers /\ Cleaner \notin Handlers \cup {Free}
  /\ Occurring \subseteq FailureTypes

VARIABLES
  handler,                 \* the call of each task
  failures,                \* records by id
  rollbacks,               \* rollback operations by the id of their failure
  failuresLock, rollbacksLock,   \* who sleeps, or waits, with the lock
  kill_switch,
  total_failures, rollbacks_executed, kill_switch_activations,
  occurred,                \* history: failures so far; the next id
  lateRecords              \* history: records stored by each task since the
                           \* switch was activated

failureVars == <<handler, failures, rollbacks, failuresLock, rollbacksLock,
                 kill_switch, total_failures, rollbacks_executed,
                 kill_switch_activations, occurred, lateRecords>>

AtRest == [at |-> "rest", id |-> 0, type |-> "none", result |-> "none"]

HandlerInit ==
  /\ handler = [h \in Handlers |-> AtRest]
  /\ failures = [i \in {} |-> {}]
  /\ rollbacks = [i \in {} |-> {}]
  /\ failuresLock = Free /\ rollbacksLock = Free
  /\ kill_switch = FALSE
  /\ total_failures = 0 /\ rollbacks_executed = 0
  /\ kill_switch_activations = 0
  /\ occurred = 0
  /\ lateRecords = [h \in Handlers |-> 0]

\* The state after one more entry of a map.
With(f, i, v) == [j \in DOMAIN f \cup {i} |-> IF j = i THEN v ELSE f[j]]

Moves(h, from, to) ==
  /\ handler[h].at = from
  /\ handler' = [handler EXCEPT ![h].at = to]

Returns(h, from, r) ==
  /\ handler[h].at = from
  /\ handler' = [handler EXCEPT ![h] = [@ EXCEPT !.at = "rest", !.result = r]]

\* handle_failure asks for the kill switch first, and not again.
HandleFailure(h, t) ==
  /\ handler[h].at = "rest" /\ occurred < MAX_FAILURES
  /\ occurred' = occurred + 1
  /\ handler' = [handler EXCEPT ![h] =
       IF kill_switch
         THEN [AtRest EXCEPT !.result = "KillSwitchActivated"]
         ELSE [at |-> "store", id |-> occurred', type |-> t, result |-> "none"]]
  /\ UNCHANGED <<failures, rollbacks, failuresLock, rollbacksLock, kill_switch,
                 total_failures, rollbacks_executed, kill_switch_activations,
                 lateRecords>>

\* The record is stored, once the failures are not locked.
StoreFailure(h) ==
  /\ Moves(h, "store", "count")
  /\ failuresLock = Free
  /\ failures' = With(failures, handler[h].id,
       [retry_count |-> 0, resolved |-> FALSE])
  /\ lateRecords' = [lateRecords EXCEPT ![h] = IF kill_switch THEN @ + 1 ELSE @]
  /\ UNCHANGED <<rollbacks, failuresLock, rollbacksLock, kill_switch,
                 total_failures, rollbacks_executed, kill_switch_activations,
                 occurred>>

\* determine_resolution_strategy; the attempts that a retry is allowed.  No
\* type leads to the kill switch.
Resolution(t) ==
  CASE t \in {"Reorg", "ExecutionFailure", "ContractRevert"} -> "rollback"
    [] t = "InsufficientFunds" -> "abort"
    [] OTHER -> "retry"
MaxAttempts(t) ==
  CASE t = "NonceCollision" -> 3
    [] t = "GasUnderpricing" -> 2
    [] t = "NetworkError" -> 5
    [] OTHER -> 1

\* update_failure_stats, then the strategy.
CountFailure(h) ==
  /\ Moves(h, "count", Resolution(handler[h].type))
  /\ total_failures' = total_failures + 1
  /\ UNCHANGED <<failures, rollbacks, failuresLock, rollbacksLock, kill_switch,
                 rollbacks_executed, kill_switch_activations, occurred,
                 lateRecords>>

\* handle_retry: the record is new, so this is always its first attempt; it
\* is the last one only where a single attempt is allowed.
HandleRetry(h) ==
  LET i == handler[h].id
      n == failures[i].retry_count + 1
      last == n >= MaxAttempts(handler[h].type)
  IN /\ handler[h].at = "retry"
     /\ failuresLock = Free
     /\ \/ /\ i \notin DOMAIN failures
           /\ Returns(h, "retry", "Err")
           /\ UNCHANGED <<failures, failuresLock>>
        \/ /\ i \in DOMAIN failures /\ last
           /\ failures' = [failures EXCEPT ![i].retry_count = n, ![i].resolved = TRUE]
           /\ Returns(h, "retry", "Rollback")
           /\ UNCHANGED failuresLock
        \/ /\ i \in DOMAIN failures /\ ~last
           /\ failures' = [failures EXCEPT ![i].retry_count = n]
           /\ failuresLock' = h
           /\ Moves(h, "retry", "delay")
     /\ UNCHANGED <<rollbacks, rollbacksLock, kill_switch, total_failures,
                    rollbacks_executed, kill_switch_activations, occurred,
                    lateRecords>>

\* The delay is over.
RetryDelay(h) ==
  /\ Returns(h, "delay", "Retry")
  /\ failuresLock' = Free
  /\ UNCHANGED <<failures, rollbacks, rollbacksLock, kill_switch,
                 total_failures, rollbacks_executed, kill_switch_activations,
                 occurred, lateRecords>>

\* abort_operation.
AbortOperation(h) ==
  LET i == handler[h].id
  IN /\ failuresLock = Free
     /\ \/ /\ i \notin DOMAIN failures
           /\ Returns(h, "abort", "Err")
           /\ UNCHANGED failures
        \/ /\ i \in DOMAIN failures
           /\ failures' = [failures EXCEPT ![i].resolved = TRUE]
           /\ Returns(h, "abort", "Abort")
     /\ UNCHANGED <<rollbacks, failuresLock, rollbacksLock, kill_switch,
                    total_failures, rollbacks_executed,
                    kill_switch_activations, occurred, lateRecords>>

\* initiate_rollback: the operation is stored as pending.
InitiateRollback(h) ==
  /\ rollbacksLock = Free
  /\ \/ /\ ~auto_rollback
        /\ Returns(h, "rollback", "ManualIntervention")
        /\ UNCHANGED rollbacks
     \/ /\ auto_rollback
        /\ rollbacks' = With(rollbacks, handler[h].id, "Pending")
        /\ Moves(h, "rollback", "execute")
  /\ UNCHANGED <<failures, failuresLock, rollbacksLock, kill_switch,
                 total_failures, rollbacks_executed, kill_switch_activations,
                 occurred, lateRecords>>

\* execute_rollback: in progress, under the lock, for half a second; the
\* operation may have been cleaned up since it was stored.
ExecuteRollback(h) ==
  /\ rollbacksLock = Free
  /\ \/ /\ handler[h].id \notin DOMAIN rollbacks
        /\ Returns(h, "execute", "Err")
        /\ UNCHANGED <<rollbacks, rollbacksLock>>
     \/ /\ handler[h].id \in DOMAIN rollbacks
        /\ rollbacks' = [rollbacks EXCEPT ![handler[h].id] = "InProgress"]
        /\ rollbacksLock' = h
        /\ Moves(h, "execute", "executing")
  /\ UNCHANGED <<failures, failuresLock, kill_switch, total_failures,
                 rollbacks_executed, kill_switch_activations, occurred,
                 lateRecords>>

CompleteRollback(h) ==
  /\ Moves(h, "executing", "executed")
  /\ rollbacks' = [rollbacks EXCEPT ![handler[h].id] = "Completed"]
  /\ rollbacksLock' = Free
  /\ UNCHANGED <<failures, failuresLock, kill_switch, total_failures,
                 rollbacks_executed, kill_switch_activations, occurred,
                 lateRecords>>

CountRollback(h) ==
  /\ Returns(h, "executed", "Rollback")
  /\ rollbacks_executed' = rollbacks_executed + 1
  /\ UNCHANGED <<failures, rollbacks, failuresLock, rollbacksLock, kill_switch,
                 total_failures, kill_switch_activations, occurred,
                 lateRecords>>

\* activate_kill_switch, called by an operator, and deactivate_kill_switch.
SetKillSwitch(on) ==
  /\ kill_switch # on
  /\ kill_switch' = on
  /\ kill_switch_activations' = kill_switch_activations + (IF on THEN 1 ELSE 0)
  /\ on => kill_switch_activations < MAX_ACTIVATIONS
  /\ lateRecords' = [h \in Handlers |-> 0]
  /\ UNCHANGED <<handler, failures, rollbacks, failuresLock, rollbacksLock,
                 total_failures, rollbacks_executed, occurred>>

\* cleanup_old_records takes the write lock of the failures, ...
LockForCleanup ==
  /\ failuresLock = Free
  /\ failuresLock' = Cleaner
  /\ UNCHANGED <<handler, failures, rollbacks, rollbacksLock, kill_switch,
                 total_failures, rollbacks_executed, kill_switch_activations,
                 occurred, lateRecords>>

\* The records that are old by now are removed, and both locks released.  A
\* failure's age is by the wall clock, a rollback's by the monotonic one: each
\* may be old without the other.
ForgetRecords ==
  /\ failuresLock = Cleaner
  /\ failuresLock' = Free
  /\ \E I \in SUBSET DOMAIN failures :
       failures' = [i \in DOMAIN failures \ I |-> failures[i]]
  /\ \E J \in SUBSET DOMAIN rollbacks :
       rollbacks' = [i \in DOMAIN rollbacks \ J |-> rollbacks[i]]
  /\ UNCHANGED <<handler, rollbacksLock, kill_switch, total_failures,
                 rollbacks_executed, kill_switch_activations, occurred,
                 lateRecords>>

\* Variant: the clean-up does not wait for the rollbacks' lock.
ForcedCleanup == ForgetRecords

\* ... and that of the rollbacks, while it holds the first.
CleanupOldRecords == rollbacksLock = Free /\ ForgetRecords

HandlerStep(h) ==
  \/ StoreFailure(h)
  \/ CountFailure(h)
  \/ HandleRetry(h)
  \/ RetryDelay(h)
  \/ AbortOperation(h)
  \/ InitiateRollback(h)
  \/ ExecuteRollback(h)
  \/ CompleteRollback(h)
  \/ CountRollback(h)

HandlerNext ==
  \/ \E h \in Handlers, t \in Occurring : HandleFailure(h, t)
  \/ \E h \in Handlers : HandlerStep(h)
  \/ \E on \in BOOLEAN : SetKillSwitch(on)
  \/ LockForCleanup \/ CleanupOldRecords

HandlerSpec == HandlerInit /\ [][HandlerNext]_failureVars

-----------------------------------------------------------------------------
(* Properties                                                              *)

\* Once the kill switch is on, a task stores at most the failure it had
\* already begun to handle (handle_failure asks before it stores).
AtMostOneAfterKill == \A h \in Handlers : lateRecords[h] <= 1

\* The call of a task that works on a rollback under the lock finds its
\* operation still there and in progress: no clean-up and no other rollback
\* comes between (execute_rollback holds the lock over its sleep).
RollbackUndisturbed ==
  \A h \in Handlers : handler[h].at = "executing" =>
    /\ handler[h].id \in DOMAIN rollbacks
    /\ rollbacks[handler[h].id] = "InProgress"
    /\ \A i \in DOMAIN rollbacks :
         rollbacks[i] = "InProgress" => i = handler[h].id

\* A failure that needs a rollback is answered with "Rollback" only when one
\* was completed; only the escalation of a mempool eviction says so without
\* (handle_retry returns the resolution and starts nothing).
RollbackIsReal ==
  \A h \in Handlers :
    handler[h].result = "Rollback" /\ handler[h].type # "MempoolEviction" =>
      /\ Resolution(handler[h].type) = "rollback"
      /\ rollbacks_executed > 0
      /\ handler[h].id \in DOMAIN rollbacks =>
           rollbacks[handler[h].id] = "Completed"

\* The clean-up is the only task that waits for a lock with a lock: who
\* sleeps with one of them has everything it needs to wake and release it, so
\* no two tasks wait for one another (handle_retry, execute_rollback).
NoCircularWait ==
  /\ rollbacksLock # Free =>
       rollbacksLock \in Handlers /\ handler[rollbacksLock].at = "executing"
  /\ failuresLock \in Handlers => handler[failuresLock].at = "delay"

\* Every call returns, whoever sleeps with a lock and whenever the clean-up
\* waits for the rollbacks with the failures locked (the locks are first
\* come, first served).
HandlersReturn ==
  \A h \in Handlers : handler[h].at # "rest" ~> handler[h].at = "rest"

\* Concurrent failures, rollbacks and clean-ups do not undo one another, and
\* the kill switch lets nothing new through (handle_failure,
\* execute_rollback, cleanup_old_records).
HandlerSafe ==
  /\ AtMostOneAfterKill
  /\ RollbackUndisturbed
  /\ RollbackIsReal
  /\ NoCircularWait
=============================================================================
