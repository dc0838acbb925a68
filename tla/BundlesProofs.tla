---------------------------- MODULE BundlesProofs ----------------------------
(***************************************************************************)
(* Proofs about the components that build, submit and follow bundles, for  *)
(* any number of tasks, bundles, keys and prices.  MCBundles lets one of   *)
(* its components act in a behaviour; each of them follows its own         *)
(* specification in it.  BundleSigning is a specification of its own.      *)
(***************************************************************************)
EXTENDS MCBundles, BundleSigning, SubsequenceProofs, FiniteSetTheorems,
        SequenceTheorems, TLAPS

-----------------------------------------------------------------------------
(* The failure handler                                                     *)

\* In every behaviour the failure handler takes its own steps, or none.
LEMMA HandlerPart == Spec => HandlerSpec
<1>1. Init => HandlerInit
  BY DEF Init
<1>2. [Next]_vars => [HandlerNext]_failureVars
  BY DEF Next, vars, Submitter, Tracker_, Handler, Transaction, Dry, KeyTask,
     Building, Checks, Polling, Elsewhere, failureVars
<1>3. QED
  BY <1>1, <1>2, PTL DEF Spec, HandlerSpec

HandlerPlaces == {"rest", "store", "count", "retry", "delay", "abort",
                  "rollback", "execute", "executing", "executed"}
HandlerResults == {"none", "KillSwitchActivated", "Err", "Retry", "Abort",
                   "Rollback", "ManualIntervention"}
HandlerRecords == [at : HandlerPlaces, id : Nat,
                   type : FailureTypes \cup {"none"}, result : HandlerResults]
FailureRecords == [retry_count : Nat, resolved : BOOLEAN]
RollbackStates == {"Pending", "InProgress", "Completed"}

\* The kinds of value; the maps are functions on some of the ids.
HandlerTypes ==
  /\ handler \in [Handlers -> HandlerRecords]
  /\ failures \in [DOMAIN failures -> FailureRecords]
  /\ rollbacks \in [DOMAIN rollbacks -> RollbackStates]
  /\ kill_switch \in BOOLEAN
  /\ rollbacks_executed \in Nat /\ occurred \in Nat
  /\ lateRecords \in [Handlers -> Nat]

\* Every call has the id of its own failure.
IdsDiffer ==
  /\ \A h \in Handlers :
       /\ handler[h].id <= occurred
       /\ handler[h].at # "rest" =>
            handler[h].id # 0 /\ handler[h].type \in FailureTypes
  /\ \A h, k \in Handlers :
       handler[h].id = handler[k].id /\ handler[h].id # 0 => h = k

\* While the switch is on, a task that is about to store has stored nothing
\* since it was activated.
StoresOnce ==
  \A h \in Handlers :
    /\ lateRecords[h] <= 1
    /\ handler[h].at = "store" \/ ~kill_switch => lateRecords[h] = 0

\* The lock of the rollbacks is held exactly by the task at work on one, which
\* is the only one in progress.
RollbackLocked ==
  /\ \A h \in Handlers : handler[h].at = "executing" <=> rollbacksLock = h
  /\ rollbacksLock \in Handlers \cup {Free}
  /\ rollbacksLock # Free =>
       handler[rollbacksLock].id \in DOMAIN rollbacks
         /\ rollbacks[handler[rollbacksLock].id] = "InProgress"
  /\ \A i \in DOMAIN rollbacks : rollbacks[i] = "InProgress" =>
       rollbacksLock # Free /\ i = handler[rollbacksLock].id

\* How far a call is on the way of its strategy.
OnItsWay ==
  \A h \in Handlers :
    LET c == handler[h] IN
    /\ c.at # "rest" => c.result = "none"
    /\ c.at = "retry" => Resolution(c.type) = "retry"
    /\ c.at \in {"rollback", "execute", "executing", "executed"} =>
         Resolution(c.type) = "rollback"
    /\ c.at \in {"count", "retry"} /\ c.id \in DOMAIN failures =>
         failures[c.id].retry_count = 0
    /\ c.at = "executed" /\ c.id \in DOMAIN rollbacks =>
         rollbacks[c.id] = "Completed"

HandlerInv ==
  /\ HandlerTypes
  /\ IdsDiffer
  /\ StoresOnce
  /\ RollbackLocked
  /\ OnItsWay
  /\ RollbackIsReal

\* What a step of its own does to a call; no other call changes.
Becomes(h, from, to, r) ==
  /\ handler[h].at = from /\ handler'[h].at = to
  /\ handler'[h].id = handler[h].id
  /\ handler'[h].type = handler[h].type
  /\ handler'[h].result = r
  /\ \A k \in Handlers \ {h} : handler'[k] = handler[k]
  /\ handler' \in [Handlers -> HandlerRecords]

\* A call of the failure handler moves on with the result it has.
LEMMA CallMoves ==
  ASSUME HandlerInv, NEW h \in Handlers, NEW from,
         NEW to \in HandlerPlaces, Moves(h, from, to)
  PROVE  Becomes(h, from, to, handler[h].result)
BY DEF HandlerInv, HandlerTypes, HandlerRecords, Moves, Becomes

\* A call of the failure handler returns its result.
LEMMA CallReturns ==
  ASSUME HandlerInv, NEW h \in Handlers, NEW from, NEW r \in HandlerResults,
         Returns(h, from, r)
  PROVE  Becomes(h, from, "rest", r)
BY DEF HandlerInv, HandlerTypes, HandlerRecords, HandlerPlaces, Returns, Becomes

\* Of a call that was active, the id stays its own and the type one of the
\* types of failure.
LEMMA IdsKept ==
  ASSUME HandlerInv, NEW h \in Handlers, NEW from, NEW to, NEW r,
         Becomes(h, from, to, r), from # "rest", UNCHANGED occurred
  PROVE  /\ IdsDiffer'
         /\ handler[h].id # 0 /\ handler[h].type \in FailureTypes
         /\ \A k \in Handlers \ {h} : handler[k].id # handler[h].id
BY DEF HandlerInv, IdsDiffer, Becomes

\* A new record has no attempt yet.
LEMMA StoreFailureKeeps ==
  ASSUME HandlerInv, NEW h \in Handlers, StoreFailure(h) PROVE HandlerInv'
<1>1. Becomes(h, "store", "count", handler[h].result)
  BY CallMoves DEF StoreFailure, HandlerPlaces, HandlerResults
<1>2. IdsDiffer' /\ handler[h].id # 0
      /\ handler[h].type \in FailureTypes
      /\ \A k \in Handlers \ {h} : handler[k].id # handler[h].id
  BY <1>1, IdsKept DEF StoreFailure
<1>3. /\ failures' \in [DOMAIN failures' -> FailureRecords]
      /\ DOMAIN failures' = DOMAIN failures \cup {handler[h].id}
      /\ failures'[handler[h].id].retry_count = 0
      /\ \A j \in DOMAIN failures \ {handler[h].id} :
           failures'[j] = failures[j]
  <2> DEFINE v == [retry_count |-> 0, resolved |-> FALSE]
  <2>1. v \in FailureRecords /\ v.retry_count = 0
    BY DEF FailureRecords
  <2>2. failures' = With(failures, handler[h].id, v)
    BY DEF StoreFailure
  <2> HIDE DEF v
  <2>3. failures \in [DOMAIN failures -> FailureRecords]
    BY DEF HandlerInv, HandlerTypes
  <2>4. /\ DOMAIN failures' = DOMAIN failures \cup {handler[h].id}
        /\ \A j \in DOMAIN failures' :
             failures'[j] = IF j = handler[h].id THEN v ELSE failures[j]
        /\ failures' = [j \in DOMAIN failures' |-> failures'[j]]
    BY <2>2 DEF With
  <2>5. \A j \in DOMAIN failures' : failures'[j] \in FailureRecords
    BY <2>1, <2>3, <2>4
  <2>6. failures' \in [DOMAIN failures' -> FailureRecords]
    BY <2>4, <2>5
  <2>7. QED
    BY <2>1, <2>4, <2>6
<1>10. lateRecords' \in [Handlers -> Nat]
  BY DEF HandlerInv, HandlerTypes, StoreFailure
<1>4. HandlerTypes'
  BY <1>1, <1>3, <1>10 DEF HandlerInv, HandlerTypes, StoreFailure, Becomes
<1>5. StoresOnce'
  BY <1>1 DEF HandlerInv, HandlerTypes, StoresOnce, StoreFailure, Becomes
<1>6. RollbackLocked'
  BY <1>1, <1>2, <1>3, HandlerConstants
     DEF HandlerConstants, HandlerInv, HandlerTypes, RollbackLocked, StoreFailure, Becomes
<1>7. OnItsWay'
  BY <1>1, <1>2, <1>3 DEF HandlerInv, OnItsWay, RollbackLocked, StoreFailure, Becomes,
     Resolution
<1>8. RollbackIsReal'
  BY <1>1, <1>2, <1>3 DEF HandlerInv, HandlerTypes, RollbackIsReal, OnItsWay,
     StoreFailure, Becomes, Resolution, FailureTypes
<1>9. QED
  BY <1>2, <1>4, <1>5, <1>6, <1>7, <1>8 DEF HandlerInv

\* The strategy follows from the type of the failure.
LEMMA CountFailureKeeps ==
  ASSUME HandlerInv, NEW h \in Handlers, CountFailure(h) PROVE HandlerInv'
<1>1. Becomes(h, "count", Resolution(handler[h].type),
             handler[h].result)
  <2>1. Resolution(handler[h].type) \in HandlerPlaces
    BY DEF Resolution, HandlerPlaces
  <2>2. QED
    BY <2>1, CallMoves DEF CountFailure
<1>9. Resolution(handler[h].type) \in {"rollback", "abort", "retry"}
  BY DEF Resolution
<1>2. IdsDiffer' /\ handler[h].id # 0
      /\ handler[h].type \in FailureTypes
      /\ \A k \in Handlers \ {h} : handler[k].id # handler[h].id
  BY <1>1, IdsKept DEF CountFailure
<1>3. HandlerTypes'
  BY <1>1 DEF HandlerInv, HandlerTypes, CountFailure, Becomes
<1>4. StoresOnce'
  BY <1>1, <1>9 DEF HandlerInv, HandlerTypes, StoresOnce, CountFailure, Becomes
<1>5. RollbackLocked'
  BY <1>1, <1>2, <1>9, HandlerConstants
     DEF HandlerConstants, HandlerInv, HandlerTypes, RollbackLocked, CountFailure, Becomes
<1>6. OnItsWay'
  BY <1>1, <1>2 DEF HandlerInv, OnItsWay, RollbackLocked, CountFailure, Becomes,
     Resolution
<1>7. RollbackIsReal'
  BY <1>1, <1>2 DEF HandlerInv, HandlerTypes, RollbackIsReal, OnItsWay,
     CountFailure, Becomes, Resolution, FailureTypes
<1>8. QED
  BY <1>2, <1>3, <1>4, <1>5, <1>6, <1>7 DEF HandlerInv

\* After the delay the caller is told to retry.
LEMMA RetryDelayKeeps ==
  ASSUME HandlerInv, NEW h \in Handlers, RetryDelay(h) PROVE HandlerInv'
<1>1. Becomes(h, "delay", "rest", "Retry")
  BY CallReturns DEF RetryDelay, HandlerPlaces, HandlerResults
<1>2. IdsDiffer' /\ handler[h].id # 0
      /\ handler[h].type \in FailureTypes
      /\ \A k \in Handlers \ {h} : handler[k].id # handler[h].id
  BY <1>1, IdsKept DEF RetryDelay
<1>3. HandlerTypes'
  BY <1>1 DEF HandlerInv, HandlerTypes, RetryDelay, Becomes
<1>4. StoresOnce'
  BY <1>1 DEF HandlerInv, HandlerTypes, StoresOnce, RetryDelay, Becomes
<1>5. RollbackLocked'
  BY <1>1, <1>2, HandlerConstants
     DEF HandlerConstants, HandlerInv, HandlerTypes, RollbackLocked, RetryDelay, Becomes
<1>6. OnItsWay'
  BY <1>1, <1>2 DEF HandlerInv, OnItsWay, RollbackLocked, RetryDelay, Becomes,
     Resolution
<1>7. RollbackIsReal'
  BY <1>1, <1>2 DEF HandlerInv, HandlerTypes, RollbackIsReal, OnItsWay,
     RetryDelay, Becomes, Resolution, FailureTypes
<1>8. QED
  BY <1>2, <1>3, <1>4, <1>5, <1>6, <1>7 DEF HandlerInv

\* The caller is told of a rollback once it was completed.
LEMMA CountRollbackKeeps ==
  ASSUME HandlerInv, NEW h \in Handlers, CountRollback(h) PROVE HandlerInv'
<1>1. Becomes(h, "executed", "rest", "Rollback")
  BY CallReturns DEF CountRollback, HandlerPlaces, HandlerResults
<1>2. IdsDiffer' /\ handler[h].id # 0
      /\ handler[h].type \in FailureTypes
      /\ \A k \in Handlers \ {h} : handler[k].id # handler[h].id
  BY <1>1, IdsKept DEF CountRollback
<1>3. HandlerTypes'
  BY <1>1 DEF HandlerInv, HandlerTypes, CountRollback, Becomes
<1>4. StoresOnce'
  BY <1>1 DEF HandlerInv, HandlerTypes, StoresOnce, CountRollback, Becomes
<1>5. RollbackLocked'
  BY <1>1, <1>2, HandlerConstants
     DEF HandlerConstants, HandlerInv, HandlerTypes, RollbackLocked, CountRollback, Becomes
<1>6. OnItsWay'
  BY <1>1, <1>2 DEF HandlerInv, OnItsWay, RollbackLocked, CountRollback, Becomes,
     Resolution
<1>7. RollbackIsReal'
  BY <1>1, <1>2 DEF HandlerInv, HandlerTypes, RollbackIsReal, OnItsWay,
     CountRollback, Becomes, Resolution, FailureTypes
<1>8. QED
  BY <1>2, <1>3, <1>4, <1>5, <1>6, <1>7 DEF HandlerInv

\* The operation is completed by the task that began it.
LEMMA CompleteRollbackKeeps ==
  ASSUME HandlerInv, NEW h \in Handlers, CompleteRollback(h) PROVE HandlerInv'
<1>1. Becomes(h, "executing", "executed", handler[h].result)
  BY CallMoves DEF CompleteRollback, HandlerPlaces, HandlerResults
<1>2. IdsDiffer' /\ handler[h].id # 0
      /\ handler[h].type \in FailureTypes
      /\ \A k \in Handlers \ {h} : handler[k].id # handler[h].id
  BY <1>1, IdsKept DEF CompleteRollback
<1>3. /\ rollbacks' \in [DOMAIN rollbacks' -> RollbackStates]
      /\ DOMAIN rollbacks' = DOMAIN rollbacks
      /\ rollbacks'[handler[h].id] = "Completed"
      /\ \A i \in DOMAIN rollbacks \ {handler[h].id} :
           rollbacks'[i] = rollbacks[i]
  BY <1>1, HandlerConstants DEF HandlerInv, HandlerTypes, RollbackStates, RollbackLocked,
     HandlerConstants, CompleteRollback, Becomes
<1>4. HandlerTypes'
  BY <1>1, <1>3 DEF HandlerInv, HandlerTypes, CompleteRollback, Becomes
<1>5. StoresOnce'
  BY <1>1 DEF HandlerInv, HandlerTypes, StoresOnce, CompleteRollback, Becomes
<1>6. RollbackLocked'
  BY <1>1, <1>2, <1>3, HandlerConstants
     DEF HandlerConstants, HandlerInv, HandlerTypes, RollbackLocked, CompleteRollback, Becomes
<1>7. OnItsWay'
  BY <1>1, <1>2, <1>3 DEF HandlerInv, OnItsWay, RollbackLocked, CompleteRollback, Becomes,
     Resolution
<1>8. RollbackIsReal'
  BY <1>1, <1>2, <1>3 DEF HandlerInv, HandlerTypes, RollbackIsReal, OnItsWay,
     CompleteRollback, Becomes, Resolution, FailureTypes
<1>9. QED
  BY <1>2, <1>4, <1>5, <1>6, <1>7, <1>8 DEF HandlerInv

\* A rollback begins when no other is in progress.
LEMMA ExecuteRollbackKeeps ==
  ASSUME HandlerInv, NEW h \in Handlers, ExecuteRollback(h) PROVE HandlerInv'
<1>1. CASE handler[h].id \notin DOMAIN rollbacks
  <2>1. Becomes(h, "execute", "rest", "Err")
    BY <1>1, CallReturns DEF ExecuteRollback, HandlerPlaces, HandlerResults
  <2>2. IdsDiffer' /\ handler[h].id # 0
        /\ handler[h].type \in FailureTypes
        /\ \A k \in Handlers \ {h} : handler[k].id # handler[h].id
    BY <2>1, IdsKept DEF ExecuteRollback
  <2>3. HandlerTypes'
    BY <1>1, <2>1 DEF HandlerInv, HandlerTypes, ExecuteRollback, Becomes
  <2>4. StoresOnce'
    BY <1>1, <2>1 DEF HandlerInv, HandlerTypes, StoresOnce, ExecuteRollback, Becomes
  <2>5. RollbackLocked'
    BY <1>1, <2>1, <2>2, HandlerConstants
       DEF HandlerConstants, HandlerInv, HandlerTypes, RollbackLocked, ExecuteRollback, Becomes
  <2>6. OnItsWay'
    BY <1>1, <2>1, <2>2 DEF HandlerInv, OnItsWay, RollbackLocked, ExecuteRollback, Becomes,
       Resolution
  <2>7. RollbackIsReal'
    BY <1>1, <2>1, <2>2 DEF HandlerInv, HandlerTypes, RollbackIsReal, OnItsWay,
       ExecuteRollback, Becomes, Resolution, FailureTypes
  <2>8. QED
    BY <2>2, <2>3, <2>4, <2>5, <2>6, <2>7 DEF HandlerInv
<1>2. CASE handler[h].id \in DOMAIN rollbacks
  <2>1. Becomes(h, "execute", "executing", handler[h].result)
    BY <1>2, CallMoves DEF ExecuteRollback, HandlerPlaces, HandlerResults
  <2>2. IdsDiffer' /\ handler[h].id # 0
        /\ handler[h].type \in FailureTypes
        /\ \A k \in Handlers \ {h} : handler[k].id # handler[h].id
    BY <2>1, IdsKept DEF ExecuteRollback
  <2>3. /\ rollbacks' \in [DOMAIN rollbacks' -> RollbackStates]
        /\ DOMAIN rollbacks' = DOMAIN rollbacks
        /\ rollbacks'[handler[h].id] = "InProgress"
        /\ \A i \in DOMAIN rollbacks \ {handler[h].id} :
             rollbacks'[i] = rollbacks[i]
    BY <1>2 DEF HandlerInv, HandlerTypes, RollbackStates, RollbackLocked,
       ExecuteRollback
  <2>4. HandlerTypes'
    BY <1>2, <2>1, <2>3 DEF HandlerInv, HandlerTypes, ExecuteRollback, Becomes
  <2>5. StoresOnce'
    BY <1>2, <2>1 DEF HandlerInv, HandlerTypes, StoresOnce, ExecuteRollback, Becomes
  <2>6. RollbackLocked'
    BY <1>2, <2>1, <2>2, <2>3, HandlerConstants
       DEF HandlerConstants, HandlerInv, HandlerTypes, RollbackLocked, ExecuteRollback, Becomes
  <2>7. OnItsWay'
    BY <1>2, <2>1, <2>2, <2>3 DEF HandlerInv, OnItsWay, RollbackLocked, ExecuteRollback, Becomes,
       Resolution
  <2>8. RollbackIsReal'
    BY <1>2, <2>1, <2>2, <2>3 DEF HandlerInv, HandlerTypes, RollbackIsReal, OnItsWay,
       ExecuteRollback, Becomes, Resolution, FailureTypes
  <2>9. QED
    BY <2>2, <2>4, <2>5, <2>6, <2>7, <2>8 DEF HandlerInv
<1>3. QED
  BY <1>1, <1>2 DEF ExecuteRollback

\* A rollback is pending before it begins.
LEMMA InitiateRollbackKeeps ==
  ASSUME HandlerInv, NEW h \in Handlers, InitiateRollback(h) PROVE HandlerInv'
<1>1. CASE ~auto_rollback
  <2>1. Becomes(h, "rollback", "rest", "ManualIntervention")
    BY <1>1, CallReturns DEF InitiateRollback, HandlerPlaces, HandlerResults
  <2>2. IdsDiffer' /\ handler[h].id # 0
        /\ handler[h].type \in FailureTypes
        /\ \A k \in Handlers \ {h} : handler[k].id # handler[h].id
    BY <2>1, IdsKept DEF InitiateRollback
  <2>3. HandlerTypes'
    BY <1>1, <2>1 DEF HandlerInv, HandlerTypes, InitiateRollback, Becomes
  <2>4. StoresOnce'
    BY <1>1, <2>1 DEF HandlerInv, HandlerTypes, StoresOnce, InitiateRollback, Becomes
  <2>5. RollbackLocked'
    BY <1>1, <2>1, <2>2, HandlerConstants
       DEF HandlerConstants, HandlerInv, HandlerTypes, RollbackLocked, InitiateRollback, Becomes
  <2>6. OnItsWay'
    BY <1>1, <2>1, <2>2 DEF HandlerInv, OnItsWay, RollbackLocked, InitiateRollback, Becomes,
       Resolution
  <2>7. RollbackIsReal'
    BY <1>1, <2>1, <2>2 DEF HandlerInv, HandlerTypes, RollbackIsReal, OnItsWay,
       InitiateRollback, Becomes, Resolution, FailureTypes
  <2>8. QED
    BY <2>2, <2>3, <2>4, <2>5, <2>6, <2>7 DEF HandlerInv
<1>2. CASE auto_rollback
  <2>1. Becomes(h, "rollback", "execute", handler[h].result)
    BY <1>2, CallMoves DEF InitiateRollback, HandlerPlaces, HandlerResults
  <2>2. IdsDiffer' /\ handler[h].id # 0
        /\ handler[h].type \in FailureTypes
        /\ \A k \in Handlers \ {h} : handler[k].id # handler[h].id
    BY <2>1, IdsKept DEF InitiateRollback
  <2>3. /\ rollbacks' \in [DOMAIN rollbacks' -> RollbackStates]
        /\ DOMAIN rollbacks' = DOMAIN rollbacks \cup {handler[h].id}
        /\ rollbacks'[handler[h].id] = "Pending"
        /\ \A i \in DOMAIN rollbacks \ {handler[h].id} :
             rollbacks'[i] = rollbacks[i]
    <3>1. rollbacks' = With(rollbacks, handler[h].id, "Pending")
      BY <1>2 DEF InitiateRollback
    <3>2. rollbacks \in [DOMAIN rollbacks -> RollbackStates]
      BY DEF HandlerInv, HandlerTypes
    <3>3. /\ DOMAIN rollbacks' = DOMAIN rollbacks \cup {handler[h].id}
          /\ \A i \in DOMAIN rollbacks' :
               rollbacks'[i] = IF i = handler[h].id THEN "Pending"
                               ELSE rollbacks[i]
          /\ rollbacks' = [i \in DOMAIN rollbacks' |-> rollbacks'[i]]
      BY <3>1 DEF With
    <3>4. \A i \in DOMAIN rollbacks' : rollbacks'[i] \in RollbackStates
      BY <3>2, <3>3 DEF RollbackStates
    <3>5. rollbacks' \in [DOMAIN rollbacks' -> RollbackStates]
      BY <3>3, <3>4
    <3>6. QED
      BY <3>3, <3>5
  <2>4. HandlerTypes'
    BY <1>2, <2>1, <2>3 DEF HandlerInv, HandlerTypes, InitiateRollback, Becomes
  <2>5. StoresOnce'
    BY <1>2, <2>1 DEF HandlerInv, HandlerTypes, StoresOnce, InitiateRollback, Becomes
  <2>6. RollbackLocked'
    BY <1>2, <2>1, <2>2, <2>3, HandlerConstants
       DEF HandlerConstants, HandlerInv, HandlerTypes, RollbackLocked, InitiateRollback, Becomes
  <2>7. OnItsWay'
    BY <1>2, <2>1, <2>2, <2>3 DEF HandlerInv, OnItsWay, RollbackLocked, InitiateRollback, Becomes,
       Resolution
  <2>8. RollbackIsReal'
    BY <1>2, <2>1, <2>2, <2>3 DEF HandlerInv, HandlerTypes, RollbackIsReal, OnItsWay,
       InitiateRollback, Becomes, Resolution, FailureTypes
  <2>9. QED
    BY <2>2, <2>4, <2>5, <2>6, <2>7, <2>8 DEF HandlerInv
<1>3. QED
  BY <1>1, <1>2

\* An abort resolves the record, if it is still there.
LEMMA AbortOperationKeeps ==
  ASSUME HandlerInv, NEW h \in Handlers, AbortOperation(h) PROVE HandlerInv'
<1>1. CASE handler[h].id \notin DOMAIN failures
  <2>1. Becomes(h, "abort", "rest", "Err")
    BY <1>1, CallReturns DEF AbortOperation, HandlerPlaces, HandlerResults
  <2>2. IdsDiffer' /\ handler[h].id # 0
        /\ handler[h].type \in FailureTypes
        /\ \A k \in Handlers \ {h} : handler[k].id # handler[h].id
    BY <2>1, IdsKept DEF AbortOperation
  <2>3. HandlerTypes'
    BY <1>1, <2>1 DEF HandlerInv, HandlerTypes, AbortOperation, Becomes
  <2>4. StoresOnce'
    BY <1>1, <2>1 DEF HandlerInv, HandlerTypes, StoresOnce, AbortOperation, Becomes
  <2>5. RollbackLocked'
    BY <1>1, <2>1, <2>2, HandlerConstants
       DEF HandlerConstants, HandlerInv, HandlerTypes, RollbackLocked, AbortOperation, Becomes
  <2>6. OnItsWay'
    BY <1>1, <2>1, <2>2 DEF HandlerInv, OnItsWay, RollbackLocked, AbortOperation, Becomes,
       Resolution
  <2>7. RollbackIsReal'
    BY <1>1, <2>1, <2>2 DEF HandlerInv, HandlerTypes, RollbackIsReal, OnItsWay,
       AbortOperation, Becomes, Resolution, FailureTypes
  <2>8. QED
    BY <2>2, <2>3, <2>4, <2>5, <2>6, <2>7 DEF HandlerInv
<1>2. CASE handler[h].id \in DOMAIN failures
  <2>1. Becomes(h, "abort", "rest", "Abort")
    BY <1>2, CallReturns DEF AbortOperation, HandlerPlaces, HandlerResults
  <2>2. IdsDiffer' /\ handler[h].id # 0
        /\ handler[h].type \in FailureTypes
        /\ \A k \in Handlers \ {h} : handler[k].id # handler[h].id
    BY <2>1, IdsKept DEF AbortOperation
  <2>3. /\ failures' \in [DOMAIN failures' -> FailureRecords]
        /\ DOMAIN failures' = DOMAIN failures
        /\ \A i \in DOMAIN failures \ {handler[h].id} :
             failures'[i] = failures[i]
    BY <1>2 DEF HandlerInv, HandlerTypes, FailureRecords, AbortOperation
  <2>4. HandlerTypes'
    BY <1>2, <2>1, <2>3 DEF HandlerInv, HandlerTypes, AbortOperation, Becomes
  <2>5. StoresOnce'
    BY <1>2, <2>1 DEF HandlerInv, HandlerTypes, StoresOnce, AbortOperation, Becomes
  <2>6. RollbackLocked'
    BY <1>2, <2>1, <2>2, <2>3, HandlerConstants
       DEF HandlerConstants, HandlerInv, HandlerTypes, RollbackLocked, AbortOperation, Becomes
  <2>7. OnItsWay'
    BY <1>2, <2>1, <2>2, <2>3 DEF HandlerInv, OnItsWay, RollbackLocked, AbortOperation, Becomes,
       Resolution
  <2>8. RollbackIsReal'
    BY <1>2, <2>1, <2>2, <2>3 DEF HandlerInv, HandlerTypes, RollbackIsReal, OnItsWay,
       AbortOperation, Becomes, Resolution, FailureTypes
  <2>9. QED
    BY <2>2, <2>4, <2>5, <2>6, <2>7, <2>8 DEF HandlerInv
<1>3. QED
  BY <1>1, <1>2 DEF AbortOperation

\* A retry counts its attempt, which is the first one of its record.
LEMMA HandleRetryKeeps ==
  ASSUME HandlerInv, NEW h \in Handlers, HandleRetry(h) PROVE HandlerInv'
<1> DEFINE id == handler[h].id
           last == failures[id].retry_count + 1 >= MaxAttempts(handler[h].type)
<1>1. /\ handler[h].at = "retry"
      /\ id \in DOMAIN failures =>
           failures[id].retry_count = 0 /\ failures[id] \in FailureRecords
      /\ last \in BOOLEAN
  BY DEF HandleRetry, HandlerInv, HandlerTypes, OnItsWay, FailureRecords,
     MaxAttempts
<1>2. CASE id \notin DOMAIN failures
  <2>1. Becomes(h, "retry", "rest", "Err")
    BY <1>2, CallReturns DEF HandleRetry, HandlerPlaces, HandlerResults
  <2>2. IdsDiffer' /\ handler[h].id # 0
        /\ handler[h].type \in FailureTypes
        /\ \A k \in Handlers \ {h} : handler[k].id # handler[h].id
    BY <2>1, IdsKept DEF HandleRetry
  <2>3. HandlerTypes'
    BY <1>2, <2>1 DEF HandlerInv, HandlerTypes, HandleRetry, Becomes
  <2>4. StoresOnce'
    BY <1>2, <2>1 DEF HandlerInv, HandlerTypes, StoresOnce, HandleRetry, Becomes
  <2>5. RollbackLocked'
    BY <1>2, <2>1, <2>2, HandlerConstants
       DEF HandlerConstants, HandlerInv, HandlerTypes, RollbackLocked, HandleRetry, Becomes
  <2>6. OnItsWay'
    BY <1>2, <2>1, <2>2 DEF HandlerInv, OnItsWay, RollbackLocked, HandleRetry, Becomes,
       Resolution
  <2>7. RollbackIsReal'
    BY <1>2, <2>1, <2>2 DEF HandlerInv, HandlerTypes, RollbackIsReal, OnItsWay,
       HandleRetry, Becomes, Resolution, FailureTypes
  <2>8. QED
    BY <2>2, <2>3, <2>4, <2>5, <2>6, <2>7 DEF HandlerInv
<1>3. CASE id \in DOMAIN failures /\ last
  <2>1. Becomes(h, "retry", "rest", "Rollback")
    BY <1>3, CallReturns DEF HandleRetry, HandlerPlaces, HandlerResults
  <2>2. IdsDiffer' /\ handler[h].id # 0
        /\ handler[h].type \in FailureTypes
        /\ \A k \in Handlers \ {h} : handler[k].id # handler[h].id
    BY <2>1, IdsKept DEF HandleRetry
  <2>3. /\ failures' \in [DOMAIN failures' -> FailureRecords]
        /\ DOMAIN failures' = DOMAIN failures
        /\ \A i \in DOMAIN failures \ {handler[h].id} :
             failures'[i] = failures[i]
    BY <1>3, <1>1 DEF HandlerInv, HandlerTypes, FailureRecords, HandleRetry
  <2>4. HandlerTypes'
    BY <1>3, <2>1, <2>3 DEF HandlerInv, HandlerTypes, HandleRetry, Becomes
  <2>5. StoresOnce'
    BY <1>3, <2>1 DEF HandlerInv, HandlerTypes, StoresOnce, HandleRetry, Becomes
  <2>6. RollbackLocked'
    BY <1>3, <2>1, <2>2, <2>3, HandlerConstants
       DEF HandlerConstants, HandlerInv, HandlerTypes, RollbackLocked, HandleRetry, Becomes
  <2>7. OnItsWay'
    BY <1>3, <2>1, <2>2, <2>3 DEF HandlerInv, OnItsWay, RollbackLocked, HandleRetry, Becomes,
       Resolution
  <2>8. RollbackIsReal'
    BY <1>1, <1>3, <2>1, <2>2, <2>3 DEF MaxAttempts, HandlerInv, HandlerTypes, RollbackIsReal, OnItsWay,
       HandleRetry, Becomes, Resolution, FailureTypes
  <2>9. QED
    BY <2>2, <2>4, <2>5, <2>6, <2>7, <2>8 DEF HandlerInv
<1>4. CASE id \in DOMAIN failures /\ ~last
  <2>1. Becomes(h, "retry", "delay", handler[h].result)
    BY <1>4, CallMoves DEF HandleRetry, HandlerPlaces, HandlerResults
  <2>2. IdsDiffer' /\ handler[h].id # 0
        /\ handler[h].type \in FailureTypes
        /\ \A k \in Handlers \ {h} : handler[k].id # handler[h].id
    BY <2>1, IdsKept DEF HandleRetry
  <2>3. /\ failures' \in [DOMAIN failures' -> FailureRecords]
        /\ DOMAIN failures' = DOMAIN failures
        /\ \A i \in DOMAIN failures \ {handler[h].id} :
             failures'[i] = failures[i]
    BY <1>4, <1>1 DEF HandlerInv, HandlerTypes, FailureRecords, HandleRetry
  <2>4. HandlerTypes'
    BY <1>4, <2>1, <2>3 DEF HandlerInv, HandlerTypes, HandleRetry, Becomes
  <2>5. StoresOnce'
    BY <1>4, <2>1 DEF HandlerInv, HandlerTypes, StoresOnce, HandleRetry, Becomes
  <2>6. RollbackLocked'
    BY <1>4, <2>1, <2>2, <2>3, HandlerConstants
       DEF HandlerConstants, HandlerInv, HandlerTypes, RollbackLocked, HandleRetry, Becomes
  <2>7. OnItsWay'
    BY <1>4, <2>1, <2>2, <2>3 DEF HandlerInv, OnItsWay, RollbackLocked, HandleRetry, Becomes,
       Resolution
  <2>8. RollbackIsReal'
    BY <1>4, <2>1, <2>2, <2>3 DEF HandlerInv, HandlerTypes, RollbackIsReal, OnItsWay,
       HandleRetry, Becomes, Resolution, FailureTypes
  <2>9. QED
    BY <2>2, <2>4, <2>5, <2>6, <2>7, <2>8 DEF HandlerInv
<1>5. QED
  BY <1>1, <1>2, <1>3, <1>4

\* A new call has an id that no other call has; under the kill switch it
\* returns at once.
LEMMA HandleFailureKeeps ==
  ASSUME HandlerInv, NEW h \in Handlers, NEW t \in Occurring,
         HandleFailure(h, t)
  PROVE  HandlerInv'
<1>1. t \in FailureTypes
  BY HandlerConstants DEF HandlerConstants
<1>2. /\ handler[h].at = "rest" /\ occurred' = occurred + 1
      /\ \A k \in Handlers \ {h} : handler'[k] = handler[k]
      /\ handler' \in [Handlers -> HandlerRecords]
      /\ occurred \in Nat
      /\ IF kill_switch
           THEN handler'[h] = [AtRest EXCEPT !.result = "KillSwitchActivated"]
           ELSE handler'[h] = [at |-> "store", id |-> occurred + 1, type |-> t,
                               result |-> "none"]
  BY <1>1 DEF HandleFailure, HandlerInv, HandlerTypes, HandlerRecords,
     HandlerPlaces, HandlerResults, AtRest
<1>3. HandlerTypes'
  BY <1>2 DEF HandlerInv, HandlerTypes, HandleFailure
<1>4. IdsDiffer'
  <2>1. \A k \in Handlers : handler[k].id \in Nat /\ handler[k].id <= occurred
    BY DEF HandlerInv, HandlerTypes, HandlerRecords, IdsDiffer
  <2>2. CASE kill_switch
    BY <1>2, <2>1, <2>2 DEF HandlerInv, IdsDiffer, AtRest
  <2>3. CASE ~kill_switch
    BY <1>1, <1>2, <2>1, <2>3 DEF HandlerInv, IdsDiffer
  <2>4. QED
    BY <2>2, <2>3
<1>5. StoresOnce'
  BY <1>2 DEF HandlerInv, StoresOnce, HandleFailure, AtRest
<1>6. RollbackLocked'
  BY <1>2, HandlerConstants
     DEF HandlerConstants, HandlerInv, RollbackLocked, HandleFailure, AtRest
<1>7. OnItsWay'
  BY <1>2 DEF HandlerInv, OnItsWay, HandleFailure, AtRest
<1>8. RollbackIsReal'
  BY <1>2 DEF HandlerInv, RollbackIsReal, HandleFailure, AtRest
<1>9. QED
  BY <1>3, <1>4, <1>5, <1>6, <1>7, <1>8 DEF HandlerInv

\* The kill switch changes by hand (activate_kill_switch,
\* deactivate_kill_switch).
LEMMA SetKillSwitchKeeps ==
  ASSUME HandlerInv, NEW on \in BOOLEAN, SetKillSwitch(on)
  PROVE  HandlerInv'
<1>1. HandlerTypes' /\ StoresOnce'
  BY DEF SetKillSwitch, HandlerInv, HandlerTypes, StoresOnce
<1>2. IdsDiffer' /\ RollbackLocked' /\ OnItsWay' /\ RollbackIsReal'
  BY DEF SetKillSwitch, HandlerInv, IdsDiffer, RollbackLocked, OnItsWay,
     RollbackIsReal
<1>3. QED
  BY <1>1, <1>2 DEF HandlerInv

\* The clean-up takes the lock of the failures, and nothing else yet.
LEMMA LockForCleanupKeeps ==
  ASSUME HandlerInv, LockForCleanup PROVE HandlerInv'
BY DEF LockForCleanup, HandlerInv, HandlerTypes, IdsDiffer, StoresOnce,
   RollbackLocked, OnItsWay, RollbackIsReal

\* A clean-up forgets records and rollbacks, none of which is in progress.
LEMMA CleanupKeeps ==
  ASSUME HandlerInv, CleanupOldRecords PROVE HandlerInv'
<1>1. /\ failures' \in [DOMAIN failures' -> FailureRecords]
      /\ \A i \in DOMAIN failures' :
           i \in DOMAIN failures /\ failures'[i] = failures[i]
  BY DEF CleanupOldRecords, ForgetRecords, HandlerInv, HandlerTypes
<1>2. /\ rollbacks' \in [DOMAIN rollbacks' -> RollbackStates]
      /\ \A i \in DOMAIN rollbacks' :
           i \in DOMAIN rollbacks /\ rollbacks'[i] = rollbacks[i]
  BY DEF CleanupOldRecords, ForgetRecords, HandlerInv, HandlerTypes
<1>3. rollbacksLock = Free /\ UNCHANGED rollbacksLock
  BY DEF CleanupOldRecords, ForgetRecords
<1>4. HandlerTypes' /\ IdsDiffer' /\ StoresOnce'
  BY <1>1, <1>2 DEF CleanupOldRecords, ForgetRecords, HandlerInv,
     HandlerTypes, IdsDiffer, StoresOnce
<1>5. RollbackLocked'
  BY <1>2, <1>3 DEF CleanupOldRecords, ForgetRecords, HandlerInv,
     RollbackLocked
<1>6. OnItsWay' /\ RollbackIsReal'
  BY <1>1, <1>2 DEF CleanupOldRecords, ForgetRecords, HandlerInv, OnItsWay,
     RollbackIsReal
<1>7. QED
  BY <1>4, <1>5, <1>6 DEF HandlerInv

\* The lock of the failures is held by the task that sleeps before a retry,
\* or by the clean-up.
FailuresLocked ==
  /\ \A h \in Handlers : handler[h].at = "delay" <=> failuresLock = h
  /\ failuresLock \in Handlers \cup {Free, Cleaner}

\* Every step hands the lock of the failures over as it says.
LEMMA FailuresLockedKept ==
  ASSUME HandlerInv, FailuresLocked, [HandlerNext]_failureVars
  PROVE  FailuresLocked'
<1>1. /\ Free \notin Handlers /\ Cleaner \notin Handlers \cup {Free}
      /\ handler \in [Handlers -> HandlerRecords]
  BY HandlerConstants DEF HandlerConstants, HandlerInv, HandlerTypes
<1>2. ASSUME NEW h \in Handlers, NEW from \in HandlerPlaces \ {"delay"},
             NEW to \in HandlerPlaces \ {"delay"}, UNCHANGED failuresLock,
             Moves(h, from, to) \/ \E r \in HandlerResults : Returns(h, from, r)
      PROVE  FailuresLocked'
  BY <1>1, <1>2 DEF FailuresLocked, Moves, Returns, HandlerRecords
<1>3. ASSUME NEW h \in Handlers, HandlerStep(h) PROVE FailuresLocked'
  <2>1. CASE StoreFailure(h)
    BY <1>2, <2>1 DEF StoreFailure, HandlerPlaces
  <2>2. CASE CountFailure(h)
    <3>1. Resolution(handler[h].type) \in HandlerPlaces \ {"delay"}
      BY DEF Resolution, HandlerPlaces
    <3>2. QED
      BY <1>2, <2>2, <3>1 DEF CountFailure, HandlerPlaces
  <2>3. CASE HandleRetry(h)
    <3>1. CASE UNCHANGED failuresLock
      BY <1>1, <2>3, <3>1
         DEF HandleRetry, FailuresLocked, Moves, Returns, HandlerRecords
    <3>2. CASE failuresLock' = h /\ Moves(h, "retry", "delay")
      BY <1>1, <2>3, <3>2 DEF HandleRetry, FailuresLocked, Moves, HandlerRecords
    <3>3. QED
      BY <2>3, <3>1, <3>2 DEF HandleRetry
  <2>4. CASE RetryDelay(h)
    BY <1>1, <2>4 DEF RetryDelay, FailuresLocked, Returns, HandlerRecords
  <2>5. CASE AbortOperation(h)
    BY <1>2, <2>5 DEF AbortOperation, HandlerPlaces, HandlerResults
  <2>6. CASE InitiateRollback(h)
    BY <1>2, <2>6 DEF InitiateRollback, HandlerPlaces, HandlerResults
  <2>7. CASE ExecuteRollback(h)
    BY <1>2, <2>7 DEF ExecuteRollback, HandlerPlaces, HandlerResults
  <2>8. CASE CompleteRollback(h)
    BY <1>2, <2>8 DEF CompleteRollback, HandlerPlaces
  <2>9. CASE CountRollback(h)
    BY <1>2, <2>9 DEF CountRollback, HandlerPlaces, HandlerResults
  <2>10. QED
    BY <1>3, <2>1, <2>2, <2>3, <2>4, <2>5, <2>6, <2>7, <2>8, <2>9
       DEF HandlerStep
<1>4. ASSUME NEW h \in Handlers, NEW t \in Occurring, HandleFailure(h, t)
      PROVE  FailuresLocked'
  BY <1>1, <1>4 DEF HandleFailure, FailuresLocked, AtRest, HandlerRecords
<1>5. CASE LockForCleanup \/ CleanupOldRecords
  BY <1>1, <1>5
     DEF LockForCleanup, CleanupOldRecords, ForgetRecords, FailuresLocked
<1>6. ASSUME NEW on \in BOOLEAN, SetKillSwitch(on) PROVE FailuresLocked'
  BY <1>6 DEF SetKillSwitch, FailuresLocked
<1>7. CASE UNCHANGED failureVars
  BY <1>7 DEF failureVars, FailuresLocked
<1>8. QED
  BY <1>3, <1>4, <1>5, <1>6, <1>7 DEF HandlerNext

\* The failure handler starts with no failures.
LEMMA HandlerInitially == HandlerInit => HandlerInv
<1> SUFFICES ASSUME HandlerInit PROVE HandlerInv
  OBVIOUS
<1>1. HandlerTypes
  BY DEF HandlerInit, HandlerTypes, HandlerRecords, HandlerPlaces,
     HandlerResults, AtRest
<1>2. IdsDiffer /\ StoresOnce /\ OnItsWay /\ RollbackIsReal
  BY DEF HandlerInit, IdsDiffer, StoresOnce, OnItsWay, RollbackIsReal, AtRest
<1>3. RollbackLocked
  BY HandlerConstants DEF HandlerConstants, HandlerInit, RollbackLocked, AtRest
<1>4. QED
  BY <1>1, <1>2, <1>3 DEF HandlerInv

\* Concurrent calls of handle_failure, an operator's kill switch and the
\* clean-up keep the handler's records and locks consistent.
THEOREM HandlerInvariant == HandlerSpec => [](HandlerInv /\ FailuresLocked)
<1>1. HandlerInv /\ [HandlerNext]_failureVars => HandlerInv'
  <2> SUFFICES ASSUME HandlerInv, [HandlerNext]_failureVars PROVE HandlerInv'
    OBVIOUS
  <2>1. ASSUME NEW h \in Handlers, HandlerStep(h) PROVE HandlerInv'
    BY <2>1, StoreFailureKeeps, CountFailureKeeps, HandleRetryKeeps,
       RetryDelayKeeps, AbortOperationKeeps, InitiateRollbackKeeps,
       ExecuteRollbackKeeps, CompleteRollbackKeeps, CountRollbackKeeps
       DEF HandlerStep
  <2>2. CASE UNCHANGED failureVars
    BY <2>2 DEF failureVars, HandlerInv, HandlerTypes, IdsDiffer, StoresOnce,
       RollbackLocked, OnItsWay, RollbackIsReal
  <2>3. QED
    BY <2>1, <2>2, HandleFailureKeeps, SetKillSwitchKeeps, LockForCleanupKeeps,
       CleanupKeeps DEF HandlerNext
<1>2. HandlerInit => FailuresLocked
  BY HandlerConstants DEF HandlerConstants, HandlerInit, FailuresLocked, AtRest
<1>3. HandlerInv /\ FailuresLocked /\ [HandlerNext]_failureVars
        => FailuresLocked'
  BY FailuresLockedKept
<1>4. QED
  BY HandlerInitially, <1>1, <1>2, <1>3, PTL DEF HandlerSpec

\* Once the kill switch is on each task stores at most the failure it had begun
\* to handle, a rollback is alone and undisturbed while it is executed,
\* "Rollback" is answered only for one that was completed, or for an evicted
\* transaction, and no two tasks wait for one another's lock (handle_failure,
\* execute_rollback, handle_retry, cleanup_old_records).
THEOREM HandlerIsSafe == Spec => []HandlerSafe
<1>1. HandlerInv /\ FailuresLocked => HandlerSafe
  BY HandlerConstants DEF HandlerConstants, HandlerInv, StoresOnce,
     RollbackLocked, FailuresLocked, HandlerSafe, AtMostOneAfterKill,
     RollbackUndisturbed, NoCircularWait
<1>2. QED
  BY HandlerPart, HandlerInvariant, <1>1, PTL

-----------------------------------------------------------------------------
(* The key manager                                                         *)

KeysSpec == KeysInit /\ [][KeysNext]_keyVars

\* In every behaviour the key manager takes its own steps, or none.
LEMMA KeysPart == Spec => KeysSpec
<1>1. Init => KeysInit
  BY DEF Init
<1>2. [Next]_vars => [KeysNext]_keyVars
  BY DEF Next, vars, around, Submitter, Tracker_, Handler, Transaction, Dry,
     KeyTask, Building, Checks, Polling, Elsewhere, keyVars
<1>3. QED
  BY <1>1, <1>2, PTL DEF Spec, KeysSpec

KeyContents == [key : PrivateKeys \cup {NoKey},
                password : Passwords \cup {Torn},
                cipher : {"aes-256-gcm", "aes-128-ctr"}]
KeyCalls == [at : {"idle", "create", "writing", "insert", "default", "assign"},
             key : PrivateKeys \cup {NoKey}, file : KeyFiles \cup {Torn},
             password : Passwords \cup {Torn}]

\* The kinds of value; an active call has a key, and one with a file also has
\* a password.
KeyTypes ==
  /\ wallets \subseteq PrivateKeys
  /\ default_wallet \in PrivateKeys \cup {NoKey}
  /\ key_files \in [KeyFiles -> KeyContents \cup {Torn}]
  /\ key_call \in [KeyTasks -> KeyCalls]
  /\ \A t \in KeyTasks :
       /\ key_call[t].at # "idle" => key_call[t].key \in PrivateKeys
       /\ key_call[t].file # Torn \/ key_call[t].at \in {"create", "writing"} =>
            key_call[t].file \in KeyFiles /\ key_call[t].password \in Passwords
  /\ issued \subseteq [key : PrivateKeys, file : KeyFiles, password : Passwords]

\* The lock of the wallets excludes its readers, and who holds it knows that
\* its key is a wallet.
LocksNested ==
  /\ \A t \in Writing : Writing = {t} /\ Reading = {}
  /\ \A t \in Writing \cup Reading : key_call[t].key \in wallets
  /\ DefaultIsLoaded

\* What is in the file of a key that no other call has written to.
FileKept(key, file, password) ==
  key \notin overwritten => key_files[file] = EncryptKey(key, password)

FilesKept ==
  /\ \A i \in issued : FileKept(i.key, i.file, i.password)
  /\ \A t \in KeyTasks :
       key_call[t].at \in {"insert", "default"} /\ key_call[t].file # Torn =>
         FileKept(key_call[t].key, key_call[t].file, key_call[t].password)

KeyInv ==
  /\ KeyTypes
  /\ LocksNested
  /\ FilesKept

\* A call moves on, and no other call does.
LEMMA KeyCallMoves ==
  ASSUME KeyTypes, NEW t \in KeyTasks,
         NEW to \in {"writing", "insert", "default"}, Enter(t, to)
  PROVE  /\ key_call' \in [KeyTasks -> KeyCalls]
         /\ key_call'[t].at = to /\ key_call'[t].key = key_call[t].key
         /\ key_call'[t].file = key_call[t].file
         /\ key_call'[t].password = key_call[t].password
         /\ \A u \in KeyTasks \ {t} : key_call'[u] = key_call[u]
BY DEF KeyTypes, KeyCalls, Enter

\* A call begins, ...
LEMMA KeyCallBegins ==
  ASSUME KeyTypes, NEW t \in KeyTasks,
         NEW step \in {"create", "insert", "assign"}, NEW key \in PrivateKeys,
         NEW file \in KeyFiles \cup {Torn},
         NEW password \in Passwords \cup {Torn},
         Call(t, step, key, file, password)
  PROVE  /\ key_call' \in [KeyTasks -> KeyCalls]
         /\ key_call[t] = Done
         /\ key_call'[t].at = step /\ key_call'[t].key = key
         /\ key_call'[t].file = file /\ key_call'[t].password = password
         /\ \A u \in KeyTasks \ {t} : key_call'[u] = key_call[u]
         /\ UNCHANGED <<wallets, default_wallet, key_files, issued, overwritten>>
BY DEF KeyTypes, KeyCalls, Call

\* ... and ends.
LEMMA KeyCallEnds ==
  ASSUME KeyTypes, NEW t \in KeyTasks, Return(t)
  PROVE  /\ key_call' \in [KeyTasks -> KeyCalls]
         /\ key_call'[t].at = "idle" /\ key_call'[t].file = Torn
         /\ \A u \in KeyTasks \ {t} : key_call'[u] = key_call[u]
BY DEF KeyTypes, KeyCalls, Return, Done

\* The calls of create_encrypted_key, load_private_key and set_default_wallet
\* begin.
LEMMA BeginKeeps ==
  ASSUME KeyInv, NEW t \in KeyTasks,
         NEW step \in {"create", "insert", "assign"}, NEW key \in PrivateKeys,
         NEW file \in KeyFiles \cup {Torn},
         NEW password \in Passwords \cup {Torn},
         Call(t, step, key, file, password),
         step = "create" => file \in KeyFiles /\ password \in Passwords,
         step # "create" => file = Torn,
         step = "assign" => Writing = {} /\ key \in wallets
  PROVE  KeyInv'
<1>1. /\ key_call' \in [KeyTasks -> KeyCalls]
      /\ key_call[t] = Done
      /\ key_call'[t].at = step /\ key_call'[t].key = key
      /\ key_call'[t].file = file /\ key_call'[t].password = password
      /\ \A u \in KeyTasks \ {t} : key_call'[u] = key_call[u]
      /\ UNCHANGED <<wallets, default_wallet, key_files, issued, overwritten>>
  BY KeyCallBegins DEF KeyInv
<1>2. KeyTypes'
  BY <1>1 DEF KeyInv, KeyTypes
<1>3. Writing' = Writing
  BY <1>1 DEF Writing, Done
<1>4. Reading' = IF step = "assign" THEN Reading \cup {t} ELSE Reading
  BY <1>1 DEF Reading, Done
<1>5. LocksNested'
  BY <1>1, <1>3, <1>4 DEF KeyInv, LocksNested, DefaultIsLoaded, Writing, Reading
<1>6. FilesKept'
  BY <1>1 DEF KeyInv, FilesKept, FileKept
<1>7. QED
  BY <1>2, <1>5, <1>6 DEF KeyInv

\* Truncating or filling a file overwrites the keys of the others that use it.
LEMMA WriteKeeps ==
  ASSUME KeyInv, NEW t \in KeyTasks, TruncateFile(t) \/ FillFile(t)
  PROVE  KeyInv'
<1>1. /\ key_call[t].at \in {"create", "writing"}
      /\ key_call'[t].at \in {"writing", "insert"}
      /\ key_call' \in [KeyTasks -> KeyCalls]
      /\ key_call'[t].key = key_call[t].key
      /\ key_call'[t].file = key_call[t].file
      /\ key_call'[t].password = key_call[t].password
      /\ \A u \in KeyTasks \ {t} : key_call'[u] = key_call[u]
      /\ UNCHANGED <<wallets, default_wallet, issued>>
      /\ overwritten' = overwritten \cup OthersOf(t)
  BY KeyCallMoves DEF KeyInv, TruncateFile, FillFile
<1> DEFINE file == key_call[t].file
           written == EncryptKey(key_call[t].key, key_call[t].password)
<1>2. /\ file \in KeyFiles /\ key_call[t].key \in PrivateKeys
      /\ key_call[t].password \in Passwords
  BY <1>1 DEF KeyInv, KeyTypes
<1>3. /\ key_files' \in [KeyFiles -> KeyContents \cup {Torn}]
      /\ \A f \in KeyFiles \ {file} : key_files'[f] = key_files[f]
      /\ key_call'[t].at = "insert" => key_files'[file] = written
  <2>1. written \in KeyContents
    BY <1>2 DEF KeyContents, EncryptKey
  <2>2. CASE TruncateFile(t)
    BY <1>2, <2>2, KeyCallMoves DEF KeyInv, KeyTypes, TruncateFile
  <2>3. CASE FillFile(t)
    BY <1>2, <2>1, <2>3 DEF KeyInv, KeyTypes, FillFile
  <2>4. QED
    BY <2>2, <2>3
<1> HIDE DEF file
<1>4. KeyTypes'
  BY <1>1, <1>3 DEF KeyInv, KeyTypes
<1>5. Writing' = Writing /\ Reading' = Reading
  BY <1>1 DEF Writing, Reading
<1>6. LocksNested'
  BY <1>1, <1>5 DEF KeyInv, LocksNested, DefaultIsLoaded, Writing, Reading
<1>7. /\ \A i \in issued : i.file = file => i.key \in overwritten'
      /\ \A u \in KeyTasks \ {t} :
           key_call[u].file = file => key_call[u].key \in overwritten'
  BY <1>1 DEF OthersOf, file
<1>8. FilesKept'
  <2>1. ASSUME NEW i \in issued PROVE FileKept(i.key, i.file, i.password)'
    BY <1>1, <1>3, <1>7 DEF KeyInv, KeyTypes, FilesKept, FileKept
  <2>2. ASSUME NEW u \in KeyTasks \ {t}, key_call[u].at \in {"insert", "default"},
               key_call[u].file # Torn
        PROVE  FileKept(key_call[u].key, key_call[u].file,
                        key_call[u].password)'
    BY <1>1, <1>3, <1>7, <2>2 DEF KeyInv, KeyTypes, FilesKept, FileKept
  <2>3. key_call'[t].at = "insert" =>
          FileKept(key_call[t].key, key_call[t].file, key_call[t].password)'
    BY <1>1, <1>3 DEF FileKept, file
  <2>4. QED
    BY <1>1, <2>1, <2>2, <2>3 DEF FilesKept
<1>9. QED
  BY <1>4, <1>6, <1>8 DEF KeyInv

\* The new wallet is inserted under the write lock, ...
LEMMA InsertWalletKeeps ==
  ASSUME KeyInv, NEW t \in KeyTasks, InsertWallet(t) PROVE KeyInv'
<1>1. /\ key_call[t].at = "insert" /\ key_call'[t].at = "default"
      /\ key_call' \in [KeyTasks -> KeyCalls]
      /\ key_call'[t].key = key_call[t].key
      /\ key_call'[t].file = key_call[t].file
      /\ key_call'[t].password = key_call[t].password
      /\ \A u \in KeyTasks \ {t} : key_call'[u] = key_call[u]
      /\ UNCHANGED <<default_wallet, key_files, issued, overwritten>>
      /\ wallets' = wallets \cup {key_call[t].key}
      /\ Writing = {} /\ Reading = {}
  BY KeyCallMoves DEF KeyInv, InsertWallet
<1>2. KeyTypes'
  BY <1>1 DEF KeyInv, KeyTypes
<1>3. Writing' = {t} /\ Reading' = {}
  BY <1>1 DEF Writing, Reading
<1>4. LocksNested'
  BY <1>1, <1>3 DEF KeyInv, LocksNested, DefaultIsLoaded
<1>5. FilesKept'
  BY <1>1 DEF KeyInv, FilesKept, FileKept
<1>6. QED
  BY <1>2, <1>4, <1>5 DEF KeyInv

\* ... and becomes the default wallet if there is none.
LEMMA FinishLoadKeeps ==
  ASSUME KeyInv, NEW t \in KeyTasks, FinishLoad(t) PROVE KeyInv'
<1>1. /\ key_call[t].at = "default" /\ key_call'[t].at = "idle"
      /\ key_call' \in [KeyTasks -> KeyCalls] /\ key_call'[t].file = Torn
      /\ \A u \in KeyTasks \ {t} : key_call'[u] = key_call[u]
      /\ UNCHANGED <<wallets, key_files, overwritten>>
      /\ default_wallet' = DefaultAfter(default_wallet, key_call[t].key)
  BY KeyCallEnds DEF KeyInv, FinishLoad
<1>2. /\ key_call[t].key \in PrivateKeys /\ key_call[t].key \in wallets
      /\ Writing = {t} /\ Reading = {} /\ NoKey \notin PrivateKeys
  BY <1>1, KeyConstants DEF KeyConstants, KeyInv, KeyTypes, LocksNested, Writing
<1> DEFINE entry == [key |-> key_call[t].key, file |-> key_call[t].file,
                     password |-> key_call[t].password]
<1>3. \/ issued' = issued
      \/ /\ issued' = issued \cup {entry} /\ key_call[t].file # Torn
         /\ entry \in [key : PrivateKeys, file : KeyFiles, password : Passwords]
         /\ FileKept(entry.key, entry.file, entry.password)
  BY <1>1, <1>2 DEF FinishLoad, KeyInv, KeyTypes, FilesKept
<1> HIDE DEF entry
<1>4. KeyTypes'
  BY <1>1, <1>2, <1>3 DEF KeyInv, KeyTypes, DefaultAfter
<1>5. Writing' = {} /\ Reading' = {}
  BY <1>1, <1>2 DEF Writing, Reading
<1>6. LocksNested'
  BY <1>1, <1>2, <1>5 DEF KeyInv, LocksNested, DefaultIsLoaded, DefaultAfter
<1>7. FilesKept'
  BY <1>1, <1>3 DEF KeyInv, FilesKept, FileKept
<1>8. QED
  BY <1>4, <1>6, <1>7 DEF KeyInv

\* set_default_wallet replaces the default by the wallet it has found.
LEMMA SetDefaultKeeps ==
  ASSUME KeyInv, NEW t \in KeyTasks, SetDefault(t) PROVE KeyInv'
<1>1. /\ key_call[t].at = "assign" /\ key_call'[t].at = "idle"
      /\ key_call' \in [KeyTasks -> KeyCalls] /\ key_call'[t].file = Torn
      /\ \A u \in KeyTasks \ {t} : key_call'[u] = key_call[u]
      /\ UNCHANGED <<wallets, key_files, overwritten, issued>>
      /\ default_wallet' = key_call[t].key
  BY KeyCallEnds DEF KeyInv, SetDefault
<1>2. /\ key_call[t].key \in PrivateKeys /\ key_call[t].key \in wallets
      /\ Writing = {} /\ NoKey \notin PrivateKeys
  BY <1>1, KeyConstants DEF KeyConstants, KeyInv, KeyTypes, LocksNested, Reading
<1>3. KeyTypes'
  BY <1>1, <1>2 DEF KeyInv, KeyTypes
<1>4. Writing' = {} /\ Reading' \subseteq Reading
  BY <1>1, <1>2 DEF Writing, Reading
<1>5. LocksNested'
  BY <1>1, <1>2, <1>4 DEF KeyInv, LocksNested, DefaultIsLoaded, Reading
<1>6. FilesKept'
  BY <1>1 DEF KeyInv, FilesKept, FileKept
<1>7. QED
  BY <1>3, <1>5, <1>6 DEF KeyInv

\* A crash loses the wallets and the calls, and keeps the files.
LEMMA CrashKeeps == ASSUME KeyInv, CrashAndRestart PROVE KeyInv'
<1>1. /\ key_call' = [t \in KeyTasks |-> Done]
      /\ wallets' = {} /\ default_wallet' = NoKey
      /\ UNCHANGED <<key_files, issued, overwritten>>
  BY DEF CrashAndRestart
<1>2. KeyTypes'
  BY <1>1 DEF KeyInv, KeyTypes, KeyCalls, Done
<1>3. Writing' = {} /\ Reading' = {}
  BY <1>1 DEF Writing, Reading, Done
<1>4. LocksNested'
  BY <1>1, <1>3 DEF LocksNested, DefaultIsLoaded
<1>5. FilesKept'
  BY <1>1 DEF KeyInv, FilesKept, FileKept, Done
<1>6. QED
  BY <1>2, <1>4, <1>5 DEF KeyInv

\* The key manager starts with no keys.
LEMMA KeysInitially == KeysInit => KeyInv
<1> SUFFICES ASSUME KeysInit PROVE KeyInv
  OBVIOUS
<1>1. KeyTypes
  BY DEF KeysInit, KeyTypes, KeyCalls, KeyContents, Done
<1>2. Writing = {} /\ Reading = {}
  BY DEF KeysInit, Writing, Reading, Done
<1>3. LocksNested /\ FilesKept
  BY <1>2 DEF KeysInit, LocksNested, DefaultIsLoaded, FilesKept, Done
<1>4. QED
  BY <1>1, <1>3 DEF KeyInv

\* A text that decrypts holds a key.
LEMMA DecryptedKey ==
  ASSUME KeyTypes, NEW file \in KeyFiles, NEW password \in Passwords,
         DecryptKey(key_files[file], password) # NoKey
  PROVE  DecryptKey(key_files[file], password) \in PrivateKeys
<1>1. key_files[file] \in KeyContents \cup {Torn}
  BY DEF KeyTypes
<1>2. key_files[file] \in KeyContents =>
        key_files[file].key \in PrivateKeys \cup {NoKey}
  BY DEF KeyContents
<1>3. QED
  BY <1>1, <1>2 DEF DecryptKey

\* Concurrent calls and crashes keep the locks nested and the files of the
\* issued keys.
THEOREM KeyInvariant == KeysSpec => []KeyInv
<1>1. KeyInv /\ [KeysNext]_keyVars => KeyInv'
  <2> SUFFICES ASSUME KeyInv, [KeysNext]_keyVars PROVE KeyInv'
    OBVIOUS
  <2>1. ASSUME NEW t \in KeyTasks, NEW key \in PrivateKeys,
               NEW file \in KeyFiles, NEW password \in Passwords,
               CreateKey(t, key, file, password)
        PROVE  KeyInv'
    BY <2>1, BeginKeeps DEF CreateKey
  <2>2. ASSUME NEW t \in KeyTasks, NEW file \in KeyFiles,
               NEW password \in Passwords, ReadFile(t, file, password)
        PROVE  KeyInv'
    <3> DEFINE key == DecryptKey(key_files[file], password)
    <3>1. CASE key = NoKey
      BY <2>2, <3>1 DEF ReadFile, KeyInv, KeyTypes, LocksNested,
         DefaultIsLoaded, Writing, Reading, FilesKept, FileKept
    <3>2. CASE key # NoKey
      <4>1. key \in PrivateKeys /\ Call(t, "insert", key, Torn, Torn)
        BY <2>2, <3>2, DecryptedKey DEF ReadFile, KeyInv
      <4> HIDE DEF key
      <4>2. QED
        BY <4>1, BeginKeeps
    <3>3. QED
      BY <3>1, <3>2
  <2>3. ASSUME NEW t \in KeyTasks, NEW key \in PrivateKeys,
               LoadPrivateKey(t, key) \/ FindWallet(t, key)
        PROVE  KeyInv'
    BY <2>3, BeginKeeps DEF LoadPrivateKey, FindWallet
  <2>4. CASE UNCHANGED keyVars
    BY <2>4 DEF keyVars, KeyInv, KeyTypes, LocksNested, DefaultIsLoaded,
       Writing, Reading, FilesKept, FileKept
  <2>5. QED
    BY <2>1, <2>2, <2>3, <2>4, WriteKeeps, InsertWalletKeeps, FinishLoadKeeps,
       SetDefaultKeeps, CrashKeeps DEF KeysNext
<1>2. QED
  BY KeysInitially, <1>1, PTL DEF KeysSpec

\* Whoever holds no lock sees a default wallet exactly when there are wallets,
\* and it is one of them; and a key that create_encrypted_key returned can be
\* loaded again, also after a crash, unless its file was written again.
THEOREM KeysAreSafe == Spec => []KeysSafe
<1>1. KeyInv => KeysSafe
  <2> SUFFICES ASSUME KeyInv PROVE IssuedIsKept
    BY DEF KeyInv, LocksNested, KeysSafe
  <2>1. SUFFICES ASSUME NEW i \in issued, i.key \notin overwritten
                 PROVE  DecryptKey(key_files[i.file], i.password) = i.key
    BY DEF IssuedIsKept
  <2>2. key_files[i.file] = EncryptKey(i.key, i.password)
    BY <2>1 DEF KeyInv, FilesKept, FileKept
  <2>3. EncryptKey(i.key, i.password) \in KeyContents
    BY DEF KeyInv, KeyTypes, KeyContents, EncryptKey
  <2>4. Torn \notin KeyContents
    BY KeyConstants DEF KeyConstants, KeyContents
  <2>5. QED
    BY <2>2, <2>3, <2>4 DEF DecryptKey, EncryptKey
<1>2. QED
  BY KeysPart, KeyInvariant, <1>1, PTL

\* Only set_default_wallet replaces a default wallet: loading further keys while
\* bundles are signed leaves the signer alone.
THEOREM SignerStays == Spec => DefaultStays
<1>1. KeyInv /\ [KeysNext]_keyVars =>
        [default_wallet # NoKey /\ default_wallet' \notin {default_wallet, NoKey}
           => \E t \in Reading : key_call[t].key = default_wallet']_keyVars
  <2> SUFFICES ASSUME KeyInv, KeysNext, default_wallet # NoKey,
                      default_wallet' \notin {default_wallet, NoKey}
               PROVE  \E t \in Reading : key_call[t].key = default_wallet'
    OBVIOUS
  <2>1. PICK t \in KeyTasks : SetDefault(t)
    BY DEF KeysNext, CreateKey, Call, TruncateFile, FillFile, InsertWallet,
       FinishLoad, DefaultAfter, ReadFile, LoadPrivateKey, FindWallet,
       CrashAndRestart
  <2>2. QED
    BY <2>1 DEF SetDefault, Reading
<1>2. QED
  BY KeysPart, KeyInvariant, <1>1, PTL DEF KeysSpec, DefaultStays

-----------------------------------------------------------------------------
(* The RPC service: polls of the chain                                     *)

PollingSpec == PollingInit /\ [][PollingNext]_pollingVars

\* In every behaviour the polling task takes its own steps, or none.
LEMMA PollingPart == Spec => PollingSpec
<1>1. Init => PollingInit
  BY DEF Init
<1>2. [Next]_vars => [PollingNext]_pollingVars
  BY DEF Next, vars, around, Submitter, Tracker_, Handler, Transaction, Dry,
     KeyTask, Building, Checks, Polling, Elsewhere, pollingVars
<1>3. QED
  BY <1>1, <1>2, PTL DEF Spec, PollingSpec

StateEvents ==
  [type : {"BlockNumber"}, number : Nat]
    \cup [type : {"StateSnapshot"}, number : Nat, version : Nat]

PollingInv ==
  /\ node \in [head : Nat, version : Nat, reorgs : Nat]
  /\ poll \in [at : {"idle", "number", "block"}, attempt : Nat, number : Nat]
  /\ polls \in Nat
  /\ state_events \in Seq(StateEvents)
  /\ EventsPaired

\* Two elements at the end of a sequence.
LEMMA PairAdded ==
  ASSUME NEW T, NEW s \in Seq(T), NEW a \in T, NEW b \in T
  PROVE  /\ s \o <<a, b>> \in Seq(T)
         /\ Len(s \o <<a, b>>) = Len(s) + 2
         /\ \A i \in 1..Len(s) : (s \o <<a, b>>)[i] = s[i]
         /\ (s \o <<a, b>>)[Len(s) + 1] = a
         /\ (s \o <<a, b>>)[Len(s) + 2] = b
<1> DEFINE q == <<a, b>>
<1>1. q \in Seq(T) /\ Len(q) = 2 /\ q[1] = a /\ q[2] = b
  OBVIOUS
<1> HIDE DEF q
<1>2. /\ s \o q \in Seq(T) /\ Len(s \o q) = Len(s) + Len(q)
      /\ \A i \in 1..Len(s) + Len(q) :
           (s \o q)[i] = IF i <= Len(s) THEN s[i] ELSE q[i - Len(s)]
  BY <1>1, ConcatProperties
<1>3. Len(s) \in Nat
  OBVIOUS
<1>4. QED
  BY <1>1, <1>2, <1>3 DEF q

\* A poll that succeeds adds one pair of events, any other step none.
LEMMA PollingStep == ASSUME PollingInv, [PollingNext]_pollingVars PROVE PollingInv'
<1>1. ASSUME GetBlock PROVE PollingInv'
  <2> DEFINE a == [type |-> "BlockNumber", number |-> poll.number]
             b == [type |-> "StateSnapshot", number |-> poll.number,
                   version |-> IF poll.number = node.head THEN node.version
                               ELSE 0]
  <2>1. a \in StateEvents /\ b \in StateEvents
    BY DEF PollingInv, StateEvents
  <2>2. /\ a.type = "BlockNumber" /\ b.type = "StateSnapshot"
        /\ a.number = b.number
    OBVIOUS
  <2>3. state_events' = state_events \o <<a, b>>
    BY <1>1 DEF GetBlock
  <2>4. /\ polls' = polls + 1 /\ poll' = NoPoll /\ node' = node
    BY <1>1 DEF GetBlock
  <2> HIDE DEF a, b
  <2>5. /\ state_events \in Seq(StateEvents) /\ polls \in Nat
        /\ Len(state_events) = 2 * polls
    BY DEF PollingInv, EventsPaired
  <2>6. /\ state_events' \in Seq(StateEvents)
        /\ Len(state_events') = 2 * polls + 2
        /\ \A i \in 1..2 * polls : state_events'[i] = state_events[i]
        /\ state_events'[2 * polls + 1] = a /\ state_events'[2 * polls + 2] = b
    <3> DEFINE added == state_events \o <<a, b>>
    <3>1. /\ added \in Seq(StateEvents)
          /\ Len(added) = Len(state_events) + 2
          /\ \A i \in 1..Len(state_events) : added[i] = state_events[i]
          /\ added[Len(state_events) + 1] = a
          /\ added[Len(state_events) + 2] = b
      BY <2>1, <2>5, PairAdded
    <3>2. state_events' = added
      BY <2>3
    <3> HIDE DEF added
    <3>3. QED
      BY <2>5, <3>1, <3>2
  <2>7. ASSUME NEW i \in 1..polls'
        PROVE  /\ state_events'[2 * i - 1].type = "BlockNumber"
               /\ state_events'[2 * i].type = "StateSnapshot"
               /\ state_events'[2 * i].number = state_events'[2 * i - 1].number
    <3>1. CASE i = polls + 1
      BY <2>2, <2>5, <2>6, <3>1
    <3>2. CASE i # polls + 1
      <4>1. i \in 1..polls
        BY <2>4, <2>5, <3>2
      <4>2. 2 * i - 1 \in 1..2 * polls /\ 2 * i \in 1..2 * polls
        BY <2>5, <4>1
      <4>3. /\ state_events'[2 * i - 1] = state_events[2 * i - 1]
            /\ state_events'[2 * i] = state_events[2 * i]
        BY <2>6, <4>2
      <4>4. QED
        BY <4>1, <4>3 DEF PollingInv, EventsPaired
    <3>3. QED
      BY <3>1, <3>2
  <2>8. EventsPaired'
    BY <2>4, <2>5, <2>6, <2>7 DEF EventsPaired
  <2>9. QED
    BY <2>4, <2>5, <2>6, <2>8 DEF PollingInv, NoPoll
<1>2. ASSUME UNCHANGED <<polls, state_events>> PROVE EventsPaired'
  BY <1>2 DEF PollingInv, EventsPaired
<1>3. CASE NewHead
  <2>1. node' \in [head : Nat, version : Nat, reorgs : Nat]
    <3>1. /\ node.head \in Nat /\ node.version \in Nat /\ node.reorgs \in Nat
          /\ node = [head |-> node.head, version |-> node.version,
                     reorgs |-> node.reorgs]
      BY DEF PollingInv
    <3>2. \/ node' = [head |-> node.head + 1, version |-> 0,
                      reorgs |-> node.reorgs]
          \/ node' = [head |-> node.head, version |-> node.version + 1,
                      reorgs |-> node.reorgs + 1]
          \/ /\ node.head > 1
             /\ node' = [head |-> node.head - 1, version |-> node.version,
                         reorgs |-> node.reorgs + 1]
      BY <1>3, <3>1 DEF NewHead
    <3>3. node.head > 1 => node.head - 1 \in Nat
      BY <3>1
    <3>4. QED
      BY <3>1, <3>2, <3>3
  <2>2. QED
    BY <1>2, <1>3, <2>1 DEF NewHead, PollingInv
<1>4. CASE Connect \/ UNCHANGED pollingVars
  BY <1>2, <1>4 DEF Connect, pollingVars, PollingInv
<1>5. CASE BeginPoll
  BY <1>2, <1>5 DEF BeginPoll, PollingInv
<1>6. CASE GetBlockNumber
  BY <1>2, <1>6 DEF GetBlockNumber, PollingInv
<1>7. CASE FailAttempt
  BY <1>2, <1>7 DEF FailAttempt, PollingInv, NoPoll
<1>8. QED
  BY <1>1, <1>3, <1>4, <1>5, <1>6, <1>7 DEF PollingNext, PollStep

\* The receiver of the state events sees a number and the snapshot of that very
\* block for each successful poll, and nothing else.
THEOREM PollingInvariant == PollingSpec => []PollingInv
<1>1. PollingInit => PollingInv
  BY DEF PollingInit, PollingInv, NoPoll, EventsPaired
<1>2. QED
  BY <1>1, PollingStep, PTL DEF PollingSpec

-----------------------------------------------------------------------------
(* The RPC service: transactions sent with retries                         *)

TxSpec == TxInit /\ [][TxNext]_txVars

\* In every behaviour the submissions take their own steps, or none.
LEMMA TxPart == Spec => TxSpec
<1>1. Init => TxInit
  BY DEF Init
<1>2. [Next]_vars => [TxNext]_txVars
  BY DEF Next, vars, around, Submitter, Tracker_, Handler, Transaction, Dry,
     KeyTask, Building, Checks, Polling, Elsewhere, txVars
<1>3. QED
  BY <1>1, <1>2, PTL DEF Spec, TxSpec

RawTxs == [req : Requests, nonce : Nat, price : Nat]
Messages == [tx : RawTxs, attempt : Nat]
SubmissionPlaces == {"idle", "nonce", "price", "send", "answer", "submitted",
                     "failed"}
Submissions == [at : SubmissionPlaces, given : NONCES \cup {Unset},
                attempt : Nat, nonce : Nat, price : Nat]
WaitPlaces == {"idle", "loop", "poll", "timed_out", "incomplete", "confirmed",
               "reverted"}
WaitEvents == [tx : RawTxs, event : {"TransactionConfirmed", "TransactionFailed"}]
MinedTxs == [tx : RawTxs \cup {[req |-> Other]}, status : TxStatus]

TxTypes ==
  /\ submission \in [Requests -> Submissions]
  /\ in_flight \subseteq Messages
  /\ pool \subseteq RawTxs
  /\ mined \in Seq(MinedTxs)
  /\ confirmation \in [Requests -> [at : WaitPlaces, elapsed : Nat]]
  /\ tx_events \subseteq WaitEvents

\* A raw transaction of a request: with the nonce the request carries, or one
\* the account has used or is to use next.
Fits(t) ==
  /\ submission[t.req].at # "idle"
  /\ IF Numbered(t.req) THEN t.nonce = submission[t.req].given
     ELSE t.nonce <= Len(mined)

\* Wherever a transaction of a request is, its nonce fits, and what is mined has
\* the nonce of its place.
NoncesFit ==
  /\ \A m \in in_flight : Fits(m.tx)
  /\ \A t \in pool : Fits(t)
  /\ \A i \in DOMAIN mined : mined[i].tx \in RawTxs =>
       Fits(mined[i].tx) /\ mined[i].tx.nonce = i - 1
  /\ \A r \in Requests : submission[r].at \in {"price", "send", "answer"} =>
       Fits(TxOf(r))

\* Events are sent by the call that waits for the transaction, which then ends.
EventsOfWaits ==
  /\ \A e \in tx_events : \E r \in Requests :
       /\ e.tx = TxOf(r) /\ submission[r].at = "submitted"
       /\ \/ /\ e.event = "TransactionConfirmed"
             /\ confirmation[r].at = "confirmed"
          \/ /\ e.event = "TransactionFailed"
             /\ confirmation[r].at \in {"reverted", "timed_out"}
  /\ \A r \in Requests :
       /\ confirmation[r].at # "idle" => submission[r].at = "submitted"
       /\ confirmation[r].at = "confirmed" =>
            \E i \in DOMAIN mined :
              mined[i].tx = TxOf(r) /\ mined[i].status = "ok"

SubmissionInv ==
  /\ TxTypes
  /\ NoncesFit
  /\ EventsOfWaits

\* What becomes of an attempt that fails.
LEMMA FailedAttempt ==
  ASSUME NEW s \in Submissions
  PROVE  /\ AfterFailure(s) \in Submissions
         /\ AfterFailure(s).at \in {"nonce", "failed"}
         /\ AfterFailure(s).given = s.given
<1>1. [s EXCEPT !.at = "nonce", !.attempt = s.attempt + 1] \in Submissions
  <2>1. s.attempt + 1 \in Nat
    BY DEF Submissions
  <2> DEFINE n == s.attempt + 1
  <2> HIDE DEF n
  <2>2. [s EXCEPT !.at = "nonce", !.attempt = n] \in Submissions
    BY <2>1 DEF Submissions, SubmissionPlaces, n
  <2>3. QED
    BY <2>2 DEF n
<1>2. [s EXCEPT !.at = "failed"] \in Submissions
  BY DEF Submissions, SubmissionPlaces
<1>3. QED
  BY <1>1, <1>2 DEF AfterFailure, Submissions

\* The node's answer ends the attempt that it belongs to.
LEMMA Answered ==
  ASSUME TxTypes, NEW m \in in_flight, NEW accepted \in BOOLEAN,
         Answer(m, accepted)
  PROVE  /\ submission' \in [Requests -> Submissions]
         /\ \A r \in Requests :
              \/ submission'[r] = submission[r]
              \/ /\ submission[r].at = "answer"
                 /\ submission'[r].at \in {"submitted", "nonce", "failed"}
                 /\ submission'[r].given = submission[r].given
<1> DEFINE q == m.tx.req
<1>1. q \in Requests /\ submission[q] \in Submissions
  BY DEF TxTypes, Messages, RawTxs
<1> DEFINE new == IF accepted THEN [submission[q] EXCEPT !.at = "submitted"]
                  ELSE AfterFailure(submission[q])
<1>2. /\ new \in Submissions /\ new.given = submission[q].given
      /\ new.at \in {"submitted", "nonce", "failed"}
  BY <1>1, FailedAttempt DEF Submissions, SubmissionPlaces
<1>3. \/ submission' = submission
      \/ /\ submission[q].at = "answer"
         /\ submission' = [submission EXCEPT ![q] = new]
  BY DEF Answer
<1> HIDE DEF new, q
<1>4. QED
  BY <1>1, <1>2, <1>3 DEF TxTypes

\* How a step changes the calls of submit_transaction.
LEMMA SubmissionMoves ==
  ASSUME TxTypes, [TxNext]_txVars
  PROVE  /\ submission' \in [Requests -> Submissions]
         /\ \A r \in Requests :
              \/ submission'[r] = submission[r]
              \/ /\ submission[r].at = "idle" /\ submission'[r].at = "nonce"
              \/ /\ submission[r].at = "nonce" /\ submission'[r].at = "price"
                 /\ submission'[r].given = submission[r].given
                 /\ submission'[r].nonce = NonceFor(r)
              \/ /\ submission[r].at = "price" /\ submission'[r].at = "send"
                 /\ submission'[r].given = submission[r].given
                 /\ submission'[r].nonce = submission[r].nonce
              \/ /\ submission[r].at = "send" /\ submission'[r].at = "answer"
                 /\ submission'[r].given = submission[r].given
                 /\ submission'[r].nonce = submission[r].nonce
              \/ /\ submission[r].at \in {"nonce", "price", "send", "answer"}
                 /\ submission'[r].at \in {"submitted", "nonce", "failed"}
                 /\ submission'[r].given = submission[r].given
<1>1. ASSUME NEW r \in Requests, NEW s \in Submissions,
             submission' = [submission EXCEPT ![r] = s]
      PROVE  /\ submission' \in [Requests -> Submissions] /\ submission'[r] = s
             /\ \A q \in Requests \ {r} : submission'[q] = submission[q]
  BY <1>1 DEF TxTypes
<1>2. ASSUME NEW r \in Requests PROVE submission[r] \in Submissions
  BY DEF TxTypes
<1>3. Len(mined) \in Nat /\ NONCES \subseteq Nat
  BY SubmissionConstants DEF SubmissionConstants, TxTypes
<1>4. ASSUME NEW r \in Requests, NEW given \in NONCES \cup {Unset},
             Submit(r, given)
      PROVE  /\ submission[r].at = "idle"
             /\ \E s \in Submissions :
                  submission' = [submission EXCEPT ![r] = s] /\ s.at = "nonce"
  <2> DEFINE new == [submission[r] EXCEPT !.at = "nonce", !.attempt = 1,
                                          !.given = given]
  <2>1. new \in Submissions /\ new.at = "nonce"
    BY <1>2 DEF Submissions, SubmissionPlaces
  <2>2. submission' = [submission EXCEPT ![r] = new]
    BY <1>4 DEF Submit, TxTypes
  <2> HIDE DEF new
  <2>3. QED
    BY <1>4, <2>1, <2>2 DEF Submit
<1>5. ASSUME NEW r \in Requests, FetchNonce(r)
      PROVE  /\ submission[r].at = "nonce"
             /\ \E s \in Submissions :
                  /\ submission' = [submission EXCEPT ![r] = s]
                  /\ s.at = "price" /\ s.given = submission[r].given
                  /\ s.nonce = NonceFor(r)
  <2>1. NonceFor(r) \in Nat
    BY <1>2, <1>3 DEF NonceFor, Numbered, Submissions
  <2> DEFINE new == [submission[r] EXCEPT !.at = "price",
                                          !.nonce = NonceFor(r)]
  <2>2. /\ new \in Submissions /\ new.at = "price"
        /\ new.given = submission[r].given /\ new.nonce = NonceFor(r)
    BY <1>2, <2>1 DEF Submissions, SubmissionPlaces
  <2>3. submission' = [submission EXCEPT ![r] = new]
    BY <1>5 DEF FetchNonce, TxTypes
  <2> HIDE DEF new
  <2>4. QED
    BY <1>5, <2>2, <2>3 DEF FetchNonce
<1>6. ASSUME NEW r \in Requests, FetchPrice(r)
      PROVE  /\ submission[r].at = "price"
             /\ \E s \in Submissions :
                  /\ submission' = [submission EXCEPT ![r] = s]
                  /\ s.at = "send" /\ s.given = submission[r].given
                  /\ s.nonce = submission[r].nonce
  <2>1. PICK p \in GasPrices \cup {NoPrice} :
          submission' = [submission EXCEPT ![r].at = "send", ![r].price = p]
    BY <1>6 DEF FetchPrice
  <2>2. p \in Nat
    BY SubmissionConstants DEF SubmissionConstants, NoPrice
  <2> DEFINE new == [submission[r] EXCEPT !.at = "send", !.price = p]
  <2>3. /\ new \in Submissions /\ new.at = "send"
        /\ new.given = submission[r].given /\ new.nonce = submission[r].nonce
    BY <1>2, <2>2 DEF Submissions, SubmissionPlaces
  <2>4. submission' = [submission EXCEPT ![r] = new]
    BY <2>1 DEF TxTypes
  <2> HIDE DEF new
  <2>5. QED
    BY <1>6, <2>3, <2>4 DEF FetchPrice
<1>7. ASSUME NEW r \in Requests, SendRaw(r)
      PROVE  /\ submission[r].at = "send"
             /\ \E s \in Submissions :
                  /\ submission' = [submission EXCEPT ![r] = s]
                  /\ s.at = "answer" /\ s.given = submission[r].given
                  /\ s.nonce = submission[r].nonce
  <2> DEFINE new == [submission[r] EXCEPT !.at = "answer"]
  <2>1. /\ new \in Submissions /\ new.at = "answer"
        /\ new.given = submission[r].given /\ new.nonce = submission[r].nonce
    BY <1>2 DEF Submissions, SubmissionPlaces
  <2>2. submission' = [submission EXCEPT ![r] = new]
    BY <1>7 DEF SendRaw, TxTypes
  <2> HIDE DEF new
  <2>3. QED
    BY <1>7, <2>1, <2>2 DEF SendRaw
<1>8. ASSUME NEW r \in Requests, AttemptFails(r)
      PROVE  /\ submission[r].at \in {"nonce", "price", "send", "answer"}
             /\ \E s \in Submissions :
                  /\ submission' = [submission EXCEPT ![r] = s]
                  /\ s.at \in {"nonce", "failed"}
                  /\ s.given = submission[r].given
  BY <1>2, <1>8, FailedAttempt DEF AttemptFails
<1>9. ASSUME NEW m \in in_flight, NodeAccepts(m) \/ NodeRefuses(m)
      PROVE  Answer(m, TRUE) \/ Answer(m, FALSE)
  BY <1>9 DEF NodeAccepts, NodeRefuses
<1>10. CASE UNCHANGED submission
  BY <1>10 DEF TxTypes
<1>11. ASSUME NEW r \in Requests, StartWait(r) \/ WaitStep(r)
       PROVE  UNCHANGED submission
  BY <1>11 DEF StartWait, WaitStep, CheckTimeout, PollFindsReceipt,
     PollFindsNothing
<1>12. ASSUME NEW t \in pool, NEW s \in TxStatus, NodeMines(t, s)
       PROVE  UNCHANGED submission
  BY <1>12, SMTT(30) DEF NodeMines
<1>13. QED
  <2>1. CASE \E r \in Requests, given \in NONCES \cup {Unset} : Submit(r, given)
    BY <1>1, <1>4, <2>1
  <2>2. CASE \E r \in Requests : FetchNonce(r)
    BY <1>1, <1>5, <2>2
  <2>3. CASE \E r \in Requests : FetchPrice(r)
    BY <1>1, <1>6, <2>3
  <2>4. CASE \E r \in Requests : SendRaw(r)
    BY <1>1, <1>7, <2>4
  <2>5. CASE \E r \in Requests : AttemptFails(r)
    BY <1>1, <1>8, <2>5
  <2>6. CASE \E m \in in_flight : NodeAccepts(m) \/ NodeRefuses(m)
    BY <1>9, <2>6, Answered
  <2>7. CASE OtherMined \/ UNCHANGED txVars
    BY <1>10, <2>7 DEF OtherMined, txVars
  <2>8. QED
    BY <1>10, <1>11, <1>12, <2>1, <2>2, <2>3, <2>4, <2>5, <2>6, <2>7
       DEF TxNext, AttemptStep

\* How a step changes what is mined: a transaction of the pool comes next, or
\* one that was sent elsewhere.
LEMMA MinedMoves ==
  ASSUME TxTypes, [TxNext]_txVars
  PROVE  /\ mined' \in Seq(MinedTxs)
         /\ \A i \in 1..Len(mined) : mined'[i] = mined[i]
         /\ \/ mined' = mined
            \/ /\ Len(mined') = Len(mined) + 1
               /\ \/ /\ mined'[Len(mined) + 1].tx \in pool
                     /\ mined'[Len(mined) + 1].tx.nonce = Len(mined)
                  \/ mined'[Len(mined) + 1].tx = [req |-> Other]
<1>1. mined \in Seq(MinedTxs) /\ Len(mined) \in Nat
  BY DEF TxTypes
<1>2. ASSUME NEW x \in MinedTxs, mined' = Append(mined, x)
      PROVE  /\ mined' \in Seq(MinedTxs) /\ Len(mined') = Len(mined) + 1
             /\ mined'[Len(mined) + 1] = x
             /\ \A i \in 1..Len(mined) : mined'[i] = mined[i]
  BY <1>1, <1>2
<1>3. ASSUME NEW t \in pool, NEW status \in TxStatus, NodeMines(t, status)
      PROVE  /\ [tx |-> t, status |-> status] \in MinedTxs
             /\ mined' = Append(mined, [tx |-> t, status |-> status])
             /\ t.nonce = Len(mined)
  BY <1>3 DEF NodeMines, MinedTxs, TxTypes
<1>4. CASE \E t \in pool, status \in TxStatus : NodeMines(t, status)
  <2>1. PICK t \in pool, status \in TxStatus : NodeMines(t, status)
    BY <1>4
  <2> DEFINE x == [tx |-> t, status |-> status]
  <2>2. x \in MinedTxs /\ mined' = Append(mined, x) /\ x.tx = t
        /\ t.nonce = Len(mined)
    BY <1>3, <2>1
  <2> HIDE DEF x
  <2>3. QED
    BY <1>2, <2>2
<1>5. CASE OtherMined
  <2> DEFINE x == [tx |-> [req |-> Other], status |-> "ok"]
  <2>1. x \in MinedTxs /\ mined' = Append(mined, x) /\ x.tx = [req |-> Other]
    BY <1>5 DEF OtherMined, MinedTxs, TxStatus
  <2> HIDE DEF x
  <2>2. QED
    BY <1>2, <2>1
<1>6. CASE UNCHANGED mined
  BY <1>1, <1>6
<1>7. QED
  BY <1>4, <1>5, <1>6
     DEF TxNext, AttemptStep, WaitStep, Submit, FetchNonce, FetchPrice, SendRaw,
         AttemptFails, NodeAccepts, NodeRefuses, StartWait, CheckTimeout,
         PollFindsReceipt, PollFindsNothing, txVars

\* Where the copies of a transaction come from: SendRaw and NodeAccepts.
LEMMA CopiesMove ==
  ASSUME TxTypes, [TxNext]_txVars
  PROVE  /\ \A m \in in_flight' : m \in in_flight \/
              \E r \in Requests :
                /\ submission[r].at = "send" /\ m.tx = TxOf(r)
                /\ m \in Messages
         /\ \A t \in pool' : t \in pool \/ \E m \in in_flight : t = m.tx
<1>1. ASSUME NEW r \in Requests, SendRaw(r)
      PROVE  /\ submission[r].at = "send" /\ pool' = pool
             /\ \E m \in Messages :
                  in_flight' = in_flight \cup {m} /\ m.tx = TxOf(r)
  <2>1. submission[r] \in Submissions
    BY DEF TxTypes
  <2>2. [tx |-> TxOf(r), attempt |-> submission[r].attempt] \in Messages
    BY <2>1 DEF Messages, RawTxs, TxOf, Submissions
  <2>3. QED
    BY <1>1, <2>2 DEF SendRaw
<1>2. ASSUME NEW m \in in_flight, NodeAccepts(m)
      PROVE  /\ in_flight' \subseteq in_flight
             /\ pool' \subseteq pool \cup {m.tx}
  BY <1>2 DEF NodeAccepts
<1>3. ASSUME \/ \E m \in in_flight : NodeRefuses(m)
             \/ \E t \in pool, s \in TxStatus : NodeMines(t, s)
             \/ OtherMined
      PROVE  in_flight' \subseteq in_flight /\ pool' \subseteq pool
  BY <1>3 DEF NodeRefuses, NodeMines, OtherMined
<1>4. CASE UNCHANGED <<in_flight, pool>>
  BY <1>4
<1>5. CASE \E r \in Requests : SendRaw(r)
  BY <1>1, <1>5
<1>6. CASE \E m \in in_flight : NodeAccepts(m)
  BY <1>2, <1>6
<1>7. CASE \E r \in Requests :
             \/ \E given \in NONCES \cup {Unset} : Submit(r, given)
             \/ FetchNonce(r) \/ FetchPrice(r) \/ AttemptFails(r)
             \/ StartWait(r) \/ WaitStep(r)
  BY <1>4, <1>7 DEF Submit, FetchNonce, FetchPrice, AttemptFails, StartWait,
     WaitStep, CheckTimeout, PollFindsReceipt, PollFindsNothing
<1>8. QED
  BY <1>3, <1>4, <1>5, <1>6, <1>7 DEF TxNext, AttemptStep, txVars

\* A nonce that fits goes on fitting: the request keeps the nonce it carries,
\* and the account's nonces only grow.
LEMMA FitStays ==
  ASSUME TxTypes, [TxNext]_txVars, NEW t \in RawTxs, Fits(t)
  PROVE  Fits(t)'
<1>1. t.req \in Requests /\ t.nonce \in Nat
  BY DEF RawTxs
<1>2. /\ submission[t.req].at # "idle" => submission'[t.req].at # "idle"
      /\ submission[t.req].at # "idle" =>
           submission'[t.req].given = submission[t.req].given
  BY <1>1, SubmissionMoves
<1>3. Len(mined) \in Nat /\ Len(mined') \in Nat /\ Len(mined) <= Len(mined')
  <2>1. mined \in Seq(MinedTxs) /\ mined' \in Seq(MinedTxs)
    BY MinedMoves DEF TxTypes
  <2>2. QED
    BY <2>1, MinedMoves
<1>4. QED
  BY <1>1, <1>2, <1>3 DEF Fits, Numbered

\* Every step keeps the nonces fitting (submit_transaction).
LEMMA NoncesStep ==
  ASSUME TxTypes, NoncesFit, [TxNext]_txVars PROVE NoncesFit'
<1>1. ASSUME NEW m \in in_flight' PROVE Fits(m.tx)'
  <2>1. PICK t \in RawTxs : t = m.tx /\ Fits(t)
    <3>1. CASE m \in in_flight
      BY <3>1 DEF TxTypes, Messages, NoncesFit
    <3>2. ASSUME NEW r \in Requests, submission[r].at = "send", m.tx = TxOf(r),
                 m \in Messages
          PROVE  m.tx \in RawTxs /\ Fits(m.tx)
      BY <3>2 DEF Messages, NoncesFit
    <3>3. QED
      BY <3>1, <3>2, CopiesMove
  <2>2. QED
    BY <2>1, FitStays
<1>2. ASSUME NEW t \in pool' PROVE Fits(t)' /\ t \in RawTxs
  <2>1. t \in RawTxs /\ Fits(t)
    BY CopiesMove DEF TxTypes, Messages, NoncesFit
  <2>2. QED
    BY <2>1, FitStays
<1>3. ASSUME NEW i \in DOMAIN mined', NEW t \in RawTxs, t = mined'[i].tx
      PROVE  Fits(t)' /\ t.nonce = i - 1
  <2>1. /\ Len(mined) \in Nat /\ DOMAIN mined = 1..Len(mined)
        /\ Len(mined') \in Nat /\ DOMAIN mined' = 1..Len(mined')
    <3>1. mined \in Seq(MinedTxs) /\ mined' \in Seq(MinedTxs)
      BY MinedMoves DEF TxTypes
    <3>2. QED
      BY <3>1
  <2>2. CASE i \in 1..Len(mined)
    <3>1. mined'[i] = mined[i]
      BY <2>2, MinedMoves
    <3>2. mined[i].tx = t /\ i \in DOMAIN mined
      BY <1>3, <2>1, <2>2, <3>1
    <3>3. Fits(t) /\ t.nonce = i - 1
      BY <3>2 DEF NoncesFit
    <3>4. QED
      BY <3>3, FitStays
  <2>3. CASE i \notin 1..Len(mined)
    <3>1. mined' # mined
      BY <2>1, <2>3
    <3>2. Len(mined') = Len(mined) + 1
      BY <3>1, MinedMoves
    <3>3. i = Len(mined) + 1
      BY <2>1, <2>3, <3>2
    <3>4. t # [req |-> Other]
      <4>1. t.req \in Requests
        BY DEF RawTxs
      <4>2. QED
        BY <4>1, SubmissionConstants DEF SubmissionConstants
    <3>5. t \in pool /\ t.nonce = Len(mined)
      BY <1>3, <3>1, <3>3, <3>4, MinedMoves
    <3>6. QED
      BY <2>1, <3>3, <3>5, FitStays DEF NoncesFit
  <2>4. QED
    BY <2>2, <2>3
<1>4. ASSUME NEW r \in Requests, submission'[r].at \in {"price", "send", "answer"}
      PROVE  Fits(TxOf(r))'
  <2>1. submission[r] \in Submissions /\ submission'[r] \in Submissions
        /\ Len(mined) \in Nat
    BY SubmissionMoves DEF TxTypes
  <2>2. TxOf(r) \in RawTxs
    BY <2>1 DEF TxOf, Submissions, RawTxs
  <2>3. \E t \in RawTxs : /\ t.req = r /\ t.nonce = submission'[r].nonce
                          /\ Fits(t)
    <3>1. CASE submission[r].at = "nonce"
      <4> DEFINE t == [req |-> r, nonce |-> NonceFor(r), price |-> 0]
      <4>1. NonceFor(r) \in Nat
        BY <2>1, SubmissionConstants
           DEF SubmissionConstants, NonceFor, Numbered, Submissions
      <4>2. t \in RawTxs /\ t.req = r /\ t.nonce = NonceFor(r)
        BY <4>1 DEF RawTxs
      <4> HIDE DEF t
      <4>3. Fits(t)
        BY <2>1, <3>1, <4>1, <4>2 DEF Fits, NonceFor, Numbered
      <4>4. submission'[r].nonce = NonceFor(r)
        BY <1>4, <3>1, SubmissionMoves
      <4>5. QED
        BY <4>2, <4>3, <4>4
    <3>2. CASE submission[r].at \in {"price", "send", "answer"}
      <4>1. Fits(TxOf(r)) /\ TxOf(r).req = r
            /\ TxOf(r).nonce = submission[r].nonce
        BY <3>2 DEF NoncesFit, TxOf
      <4>2. submission'[r].nonce = submission[r].nonce
        BY <1>4, <3>2, SubmissionMoves
      <4>3. QED
        BY <2>2, <4>1, <4>2
    <3>3. QED
      BY <1>4, <3>1, <3>2, SubmissionMoves
  <2>4. PICK t \in RawTxs : /\ t.req = r /\ t.nonce = submission'[r].nonce
                            /\ Fits(t)'
    BY <2>3, FitStays
  <2>5. QED
    BY <2>4 DEF Fits, TxOf, Numbered
<1>5. (\A i \in DOMAIN mined : mined[i].tx \in RawTxs =>
         Fits(mined[i].tx) /\ mined[i].tx.nonce = i - 1)'
  BY <1>3, SMTT(30) DEF Fits, Numbered
<1>6. QED
  BY <1>1, <1>2, <1>4, <1>5 DEF NoncesFit

Confirmations == [at : WaitPlaces, elapsed : Nat]

\* A wait ends with the event that says how.
Ends(r, event) ==
  /\ confirmation[r].at \in {"loop", "poll"}
  /\ \A q \in Requests \ {r} : confirmation'[q] = confirmation[q]
  /\ tx_events' = tx_events \cup {[tx |-> TxOf(r), event |-> event]}
  /\ \/ /\ event = "TransactionConfirmed"
        /\ confirmation'[r].at = "confirmed"
        /\ \E i \in DOMAIN mined :
             mined[i].tx = TxOf(r) /\ mined[i].status = "ok"
     \/ /\ event = "TransactionFailed"
        /\ confirmation'[r].at \in {"reverted", "timed_out"}

\* A wait goes on, begins, or ends without an event.
GoesOn(r) ==
  \/ confirmation'[r] = confirmation[r]
  \/ /\ confirmation'[r].at \in {"loop", "poll", "incomplete"}
     /\ \/ confirmation[r].at \in {"loop", "poll"}
        \/ confirmation[r].at = "idle" /\ submission[r].at = "submitted"

\* How a step changes the calls of wait_for_confirmation, and which events it
\* sends.
LEMMA WaitMoves ==
  ASSUME TxTypes, [TxNext]_txVars
  PROVE  /\ confirmation' \in [Requests -> Confirmations]
         /\ \/ tx_events' = tx_events /\ \A r \in Requests : GoesOn(r)
            \/ \E r \in Requests,
                  event \in {"TransactionConfirmed", "TransactionFailed"} :
                 Ends(r, event)
<1>1. confirmation \in [Requests -> Confirmations]
  BY DEF TxTypes, Confirmations
<1>2. ASSUME NEW r \in Requests, NEW c \in Confirmations,
             confirmation' = [confirmation EXCEPT ![r] = c]
      PROVE  /\ confirmation' \in [Requests -> Confirmations]
             /\ confirmation'[r] = c
             /\ \A q \in Requests \ {r} : confirmation'[q] = confirmation[q]
  BY <1>1, <1>2
<1>3. ASSUME NEW r \in Requests, NEW to \in WaitPlaces,
             confirmation' = [confirmation EXCEPT ![r].at = to]
      PROVE  /\ confirmation' \in [Requests -> Confirmations]
             /\ confirmation'[r].at = to
             /\ \A q \in Requests \ {r} : confirmation'[q] = confirmation[q]
  BY <1>1, <1>3 DEF Confirmations
<1>4. CASE UNCHANGED <<confirmation, tx_events>>
  BY <1>1, <1>4 DEF GoesOn
<1>5. ASSUME NEW r \in Requests, StartWait(r)
      PROVE  /\ confirmation' \in [Requests -> Confirmations]
             /\ tx_events' = tx_events /\ \A q \in Requests : GoesOn(q)
  BY <1>3, <1>5 DEF StartWait, GoesOn, WaitPlaces
<1>6. ASSUME NEW r \in Requests, CheckTimeout(r)
      PROVE  /\ confirmation' \in [Requests -> Confirmations]
             /\ \/ tx_events' = tx_events /\ \A q \in Requests : GoesOn(q)
                \/ Ends(r, "TransactionFailed")
  BY <1>3, <1>6 DEF CheckTimeout, GoesOn, Ends, WaitPlaces
<1>7. ASSUME NEW r \in Requests, PollFindsNothing(r)
      PROVE  /\ confirmation' \in [Requests -> Confirmations]
             /\ tx_events' = tx_events /\ \A q \in Requests : GoesOn(q)
  <2> DEFINE n == confirmation[r].elapsed
             c == [confirmation[r] EXCEPT !.at = "loop",
                     !.elapsed = IF n < CONFIRM_TIMEOUT THEN n + 1 ELSE n]
  <2>1. n \in Nat /\ n + 1 \in Nat
    BY <1>1 DEF Confirmations
  <2>2. c \in Confirmations /\ c.at = "loop"
    <3> HIDE DEF n
    <3>1. QED
      BY <1>1, <2>1 DEF Confirmations, WaitPlaces
  <2>3. confirmation' = [confirmation EXCEPT ![r] = c]
    BY <1>1, <1>7 DEF PollFindsNothing
  <2> HIDE DEF c, n
  <2>4. QED
    BY <1>2, <1>7, <2>2, <2>3 DEF PollFindsNothing, GoesOn
<1>8. ASSUME NEW r \in Requests, PollFindsReceipt(r)
      PROVE  /\ confirmation' \in [Requests -> Confirmations]
             /\ \/ tx_events' = tx_events /\ \A q \in Requests : GoesOn(q)
                \/ Ends(r, "TransactionFailed")
                \/ Ends(r, "TransactionConfirmed")
  <2>1. confirmation[r].at = "poll"
    BY <1>8 DEF PollFindsReceipt
  <2>2. PICK i \in DOMAIN mined :
          /\ mined[i].tx = TxOf(r)
          /\ \/ /\ confirmation' = [confirmation EXCEPT ![r].at = "incomplete"]
                /\ UNCHANGED tx_events
             \/ /\ confirmation' = [confirmation EXCEPT ![r].at =
                     IF StatusOk(mined[i].status) THEN "confirmed"
                     ELSE "reverted"]
                /\ tx_events' = tx_events \cup
                     {[tx |-> TxOf(r),
                       event |-> IF StatusOk(mined[i].status)
                                 THEN "TransactionConfirmed"
                                 ELSE "TransactionFailed"]}
    BY <1>8 DEF PollFindsReceipt
  <2>3. CASE UNCHANGED tx_events /\
             confirmation' = [confirmation EXCEPT ![r].at = "incomplete"]
    BY <1>3, <2>1, <2>3 DEF GoesOn, WaitPlaces
  <2>4. CASE /\ mined[i].status = "ok"
             /\ confirmation' = [confirmation EXCEPT ![r].at = "confirmed"]
             /\ tx_events' = tx_events \cup
                  {[tx |-> TxOf(r), event |-> "TransactionConfirmed"]}
    BY <1>3, <2>1, <2>2, <2>4 DEF Ends, WaitPlaces
  <2>5. CASE /\ confirmation' = [confirmation EXCEPT ![r].at = "reverted"]
             /\ tx_events' = tx_events \cup
                  {[tx |-> TxOf(r), event |-> "TransactionFailed"]}
    BY <1>3, <2>1, <2>5 DEF Ends, WaitPlaces
  <2>6. QED
    BY <2>2, <2>3, <2>4, <2>5 DEF StatusOk
<1>9. CASE \E r \in Requests : StartWait(r) \/ WaitStep(r)
  BY <1>5, <1>6, <1>7, <1>8, <1>9 DEF WaitStep
<1>10. QED
  BY <1>4, <1>9
     DEF TxNext, AttemptStep, Submit, FetchNonce, FetchPrice, SendRaw,
         AttemptFails, NodeAccepts, NodeRefuses, NodeMines, OtherMined, txVars

\* Every step of a submission keeps the types (submit_transaction).
LEMMA TxTypesStep == ASSUME TxTypes, [TxNext]_txVars PROVE TxTypes'
<1>1. submission' \in [Requests -> Submissions] /\ mined' \in Seq(MinedTxs)
  BY SubmissionMoves, MinedMoves
<1>2. in_flight' \subseteq Messages /\ pool' \subseteq RawTxs
  BY CopiesMove DEF TxTypes, Messages
<1>3. confirmation' \in [Requests -> Confirmations]
  BY WaitMoves
<1>4. ASSUME NEW r \in Requests,
             NEW event \in {"TransactionConfirmed", "TransactionFailed"}
      PROVE  [tx |-> TxOf(r), event |-> event] \in WaitEvents
  <2>1. submission[r] \in Submissions
    BY DEF TxTypes
  <2>2. QED
    BY <2>1 DEF TxOf, Submissions, RawTxs, WaitEvents
<1>5. tx_events' \subseteq WaitEvents
  <2>1. CASE tx_events' = tx_events
    BY <2>1 DEF TxTypes
  <2>2. ASSUME NEW r \in Requests,
               NEW event \in {"TransactionConfirmed", "TransactionFailed"},
               Ends(r, event)
        PROVE  tx_events' \subseteq WaitEvents
    <3>1. tx_events' = tx_events \cup {[tx |-> TxOf(r), event |-> event]}
      BY <2>2 DEF Ends
    <3>2. QED
      BY <1>4, <3>1 DEF TxTypes
  <2>3. QED
    BY <2>1, <2>2, WaitMoves
<1>6. QED
  BY <1>1, <1>2, <1>3, <1>5 DEF TxTypes, Confirmations

\* An event is of a transaction that was waited for (wait_for_confirmation).
LEMMA EventsStep ==
  ASSUME TxTypes, EventsOfWaits, [TxNext]_txVars PROVE EventsOfWaits'
<1>1. ASSUME NEW r \in Requests, submission[r].at = "submitted"
      PROVE  submission'[r].at = "submitted" /\ TxOf(r)' = TxOf(r)
  BY <1>1, SubmissionMoves DEF TxOf
<1>2. \A i \in DOMAIN mined : i \in DOMAIN mined' /\ mined'[i] = mined[i]
  <2>1. mined \in Seq(MinedTxs) /\ mined' \in Seq(MinedTxs)
    BY MinedMoves DEF TxTypes
  <2>2. QED
    BY <2>1, MinedMoves
<1> DEFINE Final == {"confirmed", "reverted", "timed_out"}
<1>3. ASSUME NEW r \in Requests, confirmation[r].at \in Final
      PROVE  confirmation'[r] = confirmation[r]
  BY <1>3, WaitMoves DEF GoesOn, Ends
<1>4. ASSUME NEW r \in Requests, confirmation'[r].at # "idle"
      PROVE  submission[r].at = "submitted"
  BY <1>4, WaitMoves DEF GoesOn, Ends, EventsOfWaits
<1>5. ASSUME NEW r \in Requests, confirmation'[r].at = "confirmed"
      PROVE  \E i \in DOMAIN mined :
               mined[i].tx = TxOf(r) /\ mined[i].status = "ok"
  BY <1>5, WaitMoves DEF GoesOn, Ends, EventsOfWaits
<1>6. ASSUME NEW e \in tx_events'
      PROVE  \E r \in Requests :
               /\ e.tx = TxOf(r)
               /\ \/ /\ e.event = "TransactionConfirmed"
                     /\ confirmation'[r].at = "confirmed"
                  \/ /\ e.event = "TransactionFailed"
                     /\ confirmation'[r].at \in {"reverted", "timed_out"}
  <2>1. CASE e \in tx_events
    BY <2>1, <1>3 DEF EventsOfWaits
  <2>2. CASE e \notin tx_events
    BY <2>2, WaitMoves DEF Ends
  <2>3. QED
    BY <2>1, <2>2
<1>7. ASSUME NEW e \in tx_events'
      PROVE  \E r \in Requests :
               /\ e.tx = TxOf(r)' /\ submission'[r].at = "submitted"
               /\ \/ /\ e.event = "TransactionConfirmed"
                     /\ confirmation'[r].at = "confirmed"
                  \/ /\ e.event = "TransactionFailed"
                     /\ confirmation'[r].at \in {"reverted", "timed_out"}
  BY <1>1, <1>4, <1>6
<1>8. ASSUME NEW r \in Requests
      PROVE  /\ confirmation'[r].at # "idle" => submission'[r].at = "submitted"
             /\ confirmation'[r].at = "confirmed" =>
                  \E i \in DOMAIN mined' :
                    mined'[i].tx = TxOf(r)' /\ mined'[i].status = "ok"
  BY <1>1, <1>2, <1>4, <1>5
<1>9. QED
  BY <1>7, <1>8 DEF EventsOfWaits

\* What is known of the submissions holds when the service starts.
LEMMA SubmissionInitially == TxInit => SubmissionInv
<1> SUFFICES ASSUME TxInit PROVE SubmissionInv
  OBVIOUS
<1>1. [at |-> "idle", given |-> Unset, attempt |-> 0, nonce |-> 0,
       price |-> NoPrice] \in Submissions
  BY DEF Submissions, SubmissionPlaces, NoPrice
<1>2. submission \in [Requests -> Submissions]
  BY <1>1 DEF TxInit
<1>3. confirmation \in [Requests -> Confirmations]
  BY DEF TxInit, Confirmations, WaitPlaces
<1>4. mined \in Seq(MinedTxs) /\ DOMAIN mined = {}
  BY DEF TxInit
<1>5. TxTypes
  BY <1>2, <1>3, <1>4 DEF TxInit, TxTypes, Confirmations
<1>6. NoncesFit
  BY <1>4 DEF TxInit, NoncesFit
<1>7. EventsOfWaits
  BY DEF TxInit, EventsOfWaits
<1>8. QED
  BY <1>5, <1>6, <1>7 DEF SubmissionInv

\* Whatever attempts time out and arrive late, a transaction under way, held by
\* the node or mined carries the nonce of its request or one the account had
\* used by then, and an event is that of the one call that sent it.
THEOREM SubmissionInvariant == TxSpec => []SubmissionInv
<1>1. SubmissionInv /\ [TxNext]_txVars => SubmissionInv'
  BY TxTypesStep, NoncesStep, EventsStep DEF SubmissionInv
<1>2. QED
  BY <1>1, SubmissionInitially, PTL DEF TxSpec

\* A numbered request has one place among the mined transactions: that of its
\* nonce.
LEMMA NumberedByInv ==
  ASSUME SubmissionInv, NEW r \in Requests, Numbered(r)
  PROVE  Cardinality({i \in DOMAIN mined : mined[i].tx.req = r}) <= 1
<1> DEFINE Places == {i \in DOMAIN mined : mined[i].tx.req = r}
           n == submission[r].given
<1>1. DOMAIN mined \subseteq Nat
  BY DEF SubmissionInv, TxTypes
<1>2. n \in Nat
  BY SubmissionConstants
     DEF SubmissionConstants, SubmissionInv, TxTypes, Submissions, Numbered
<1>3. ASSUME NEW i \in Places PROVE i = n + 1
  <2>1. mined[i] \in MinedTxs
    BY DEF SubmissionInv, TxTypes
  <2>2. mined[i].tx \in RawTxs
    BY <1>3, <2>1, SubmissionConstants DEF SubmissionConstants, MinedTxs
  <2>3. Fits(mined[i].tx) /\ mined[i].tx.nonce = i - 1
    BY <1>3, <2>2 DEF SubmissionInv, NoncesFit
  <2>4. i - 1 = n /\ i \in Nat
    BY <1>1, <1>3, <2>3 DEF Fits
  <2>5. QED
    BY <1>2, <2>4
<1>4. Places \subseteq {n + 1}
  BY <1>3
<1> HIDE DEF Places, n
<1>5. IsFiniteSet({n + 1}) /\ Cardinality({n + 1}) = 1
  BY FS_Singleton
<1>6. Cardinality(Places) <= Cardinality({n + 1})
  BY <1>4, <1>5, FS_Subset
<1>7. QED
  BY <1>5, <1>6 DEF Places

\* Copies of one unnumbered request that can still be executed carry the number
\* of the transactions mined so far.
LEMMA LiveCopiesByInv == SubmissionInv => LiveCopiesShareNonce
<1> SUFFICES ASSUME SubmissionInv,
                    NEW t \in {m.tx : m \in in_flight} \cup pool,
                    NEW u \in {m.tx : m \in in_flight} \cup pool,
                    t.req = u.req, ~Numbered(t.req),
                    t.nonce >= Len(mined), u.nonce >= Len(mined)
             PROVE  t.nonce = u.nonce
  BY DEF LiveCopiesShareNonce
<1>1. ASSUME NEW x \in {m.tx : m \in in_flight} \cup pool
      PROVE  x \in RawTxs /\ Fits(x)
  BY DEF SubmissionInv, TxTypes, Messages, NoncesFit
<1>2. Len(mined) \in Nat
  BY DEF SubmissionInv, TxTypes
<1>3. t.nonce <= Len(mined) /\ t.nonce \in Nat
  BY <1>1 DEF Fits, RawTxs
<1>4. u.nonce <= Len(mined) /\ u.nonce \in Nat
  BY <1>1 DEF Fits, RawTxs
<1>5. QED
  BY <1>2, <1>3, <1>4

\* Two events of one transaction come from one wait, so they are the same.
LEMMA ConfirmedByInv == SubmissionInv => ConfirmedWasExecuted
<1> SUFFICES ASSUME SubmissionInv, NEW e \in tx_events,
                    e.event = "TransactionConfirmed"
             PROVE  /\ \E i \in DOMAIN mined :
                         mined[i].tx = e.tx /\ mined[i].status = "ok"
                    /\ \A f \in tx_events : f.tx = e.tx => f = e
  BY DEF ConfirmedWasExecuted
<1>1. PICK r \in Requests :
        e.tx = TxOf(r) /\ confirmation[r].at = "confirmed"
  BY DEF SubmissionInv, EventsOfWaits
<1>2. \E i \in DOMAIN mined : mined[i].tx = e.tx /\ mined[i].status = "ok"
  BY <1>1 DEF SubmissionInv, EventsOfWaits
<1>3. ASSUME NEW f \in tx_events, f.tx = e.tx PROVE f = e
  <2>1. PICK q \in Requests :
          /\ f.tx = TxOf(q)
          /\ \/ f.event = "TransactionConfirmed"
             \/ confirmation[q].at \in {"reverted", "timed_out"}
    BY DEF SubmissionInv, EventsOfWaits
  <2>2. q = r
    BY <1>1, <1>3, <2>1 DEF TxOf
  <2>3. f.event = e.event
    BY <1>1, <2>1, <2>2
  <2>4. e \in WaitEvents /\ f \in WaitEvents
    BY DEF SubmissionInv, TxTypes
  <2>5. QED
    BY <1>3, <2>3, <2>4 DEF WaitEvents
<1>4. QED
  BY <1>2, <1>3

\* Retried requests of the RPC service never execute a numbered transaction
\* twice, never leave two executable nonces for one request, and report what the
\* chain holds (submit_transaction, wait_for_confirmation,
\* poll_blockchain_state).
THEOREM RpcIsSafe == Spec => []RpcSafe
<1>1. ASSUME SubmissionInv, PollingInv PROVE RpcSafe
  <2>1. NumberedOnce
    BY <1>1, NumberedByInv DEF NumberedOnce
  <2>2. QED
    BY <1>1, <2>1, LiveCopiesByInv, ConfirmedByInv DEF RpcSafe, PollingInv
<1>2. QED
  BY <1>1, TxPart, SubmissionInvariant, PollingPart, PollingInvariant, PTL

-----------------------------------------------------------------------------
(* The submitter and the resubmitters                                      *)

\* In every behaviour the submitter takes its own steps, or none.
LEMMA SubmitterTakesPart == Spec => SubmitterSpec
<1>1. Init => SubmitterInit
  BY DEF Init
<1>2. [Next]_vars => [SubmitterNext]_submitterVars
  BY DEF Next, vars, around, Submitter, Tracker_, Handler, Transaction, Dry,
     KeyTask, Building, Checks, Polling, Elsewhere, submitterVars
<1>3. QED
  BY <1>1, <1>2, PTL DEF Spec, SubmitterSpec

Frames == [key : Keys, price : Nat, next : 1..(LEN + 1)]
Trackers == [submission_attempts : Nat, current_gas_price : Nat]
Results == [st : {"none", "ok", "err"}, gas_price : Nat]
Tasks == [at : {"none", "sleep", "bump", "sending", "ended"},
          key : Keys \cup {Idle}, attempts : Nat]

SubmitterTypes ==
  /\ active_submissions \in [Keys -> Trackers \cup {Idle}]
  /\ direct \in [Actors -> Frames \cup {Idle}]
  /\ rpc \in [Actors -> Frames \cup {Idle}]
  /\ result \in [Resubmitters -> Results]
  /\ task \in [Resubmitters -> Tasks]
  /\ bundle_rpc_endpoint \in BOOLEAN
  /\ incomplete \subseteq Ids
  /\ sent \subseteq [id : Ids, tx : 1..LEN]
  /\ bundled \subseteq Ids
  /\ started \subseteq Ids
  /\ above \in [Resubmitters -> Nat]

\* The transactions before the next one are at the node, the target among them
\* only if it has a raw form.
SentSoFar(f) ==
  /\ \A i \in 1..LEN : i < f.next => [id |-> Id(f.key), tx |-> i] \in sent
  /\ f.next > TARGET => Id(f.key) \notin incomplete

Broadcast(id) ==
  \/ id \in bundled
  \/ /\ \A i \in 1..LEN : [id |-> id, tx |-> i] \in sent
     /\ id \notin incomplete

BroadcastInv ==
  /\ \A a \in Actors : direct[a] # Idle => SentSoFar(direct[a])
  /\ \A k \in Keys : active_submissions[k] # Idle => Broadcast(Id(k))
  /\ \A s \in sent : \A i \in 1..s.tx : [id |-> s.id, tx |-> i] \in sent

\* The calls of submit_direct and submit_bundle_rpc that an actor runs.
FramesOf(a) == {direct[a], rpc[a]} \ {Idle}

\* A key that is tracked, or that a resubmitter may track again.
Held(k) ==
  \/ active_submissions[k] # Idle
  \/ \E r \in Resubmitters : direct[r] # Idle /\ direct[r].key = k

\* Until a call of submit_bundle has ended its id belongs to its caller alone.
OwnedInv ==
  /\ \A a \in Actors : \A f \in FramesOf(a) : Id(f.key) \in started
  /\ \A k \in Keys : Held(k) => Id(k) \in started
  /\ \A a, b \in Callers : \A f \in FramesOf(a), g \in FramesOf(b) :
       Id(f.key) = Id(g.key) => a = b
  /\ \A a \in Callers : \A f \in FramesOf(a), k \in Keys :
       Id(f.key) = Id(k) => ~Held(k)
  /\ \A id \in Ids : ~(Held(<<id, "direct">>) /\ Held(<<id, "bundle">>))
  /\ \A r \in Resubmitters : rpc[r] = Idle

\* The resubmitter will not raise the price of its submission again.
Over(q) ==
  \/ task[q].at = "ended"
  \/ /\ task[q].at = "sending"
     /\ IF direct[q] # Idle THEN direct[q].price > MAX_GAS
        ELSE result[q].st # "ok" \/ result[q].gas_price > MAX_GAS

\* At most one task works on the submission.
Sole(k) ==
  \A p, q \in Resubmitters : task[p].key = k /\ task[q].key = k => p = q

\* A task has a submission, counts its rounds, and has raised a price beyond
\* the maximum only if it will not raise one again.
TaskInv(q) ==
  /\ task[q].at = "none" <=> task[q].key = Idle
  /\ task[q].attempts <= MAX_ATTEMPTS
  /\ task[q].at \in {"none", "sleep"} => task[q].attempts < MAX_ATTEMPTS
  /\ above[q] <= 1
  /\ above[q] # 0 => Over(q)

\* A price at which a submission is tracked, or sent by its task q.
Capped(k, price) ==
  /\ price > MAX_GAS => \E q \in Resubmitters : task[q].key = k /\ above[q] = 1
  /\ Sole(k) => price <= Bump(MAX_GAS)

\* What a tracker may hold.
TrackerInv(k) ==
  active_submissions[k] # Idle =>
    /\ active_submissions[k].submission_attempts <= max_resubmissions
    /\ Capped(k, active_submissions[k].current_gas_price)

\* The calls of a resubmitter and of a caller.
FramesPriced ==
  /\ \A q \in Resubmitters : direct[q] # Idle =>
       /\ task[q].at = "sending" /\ direct[q].key = task[q].key
       /\ Capped(direct[q].key, direct[q].price)
  /\ \A a \in Callers : \A f \in FramesOf(a) : f.price <= MAX_GAS

PriceInv ==
  /\ \A q \in Resubmitters : TaskInv(q)
  /\ FramesPriced
  /\ \A k \in Keys : TrackerInv(k)

SubmitterInv ==
  /\ SubmitterTypes
  /\ BroadcastInv
  /\ OwnedInv
  /\ PriceInv

\* Bump rounds down, is monotone, and loses nothing: the multiplier is not below
\* one.
LEMMA BumpMonotone ==
  ASSUME NEW p \in Nat
  PROVE  Bump(p) \in Nat /\ (p <= MAX_GAS => Bump(p) <= Bump(MAX_GAS))
<1>1. MAX_GAS \in Nat /\ BUMP_NUM \in Nat /\ BUMP_DEN \in Nat /\ BUMP_DEN > 0
  BY SubmitterConstants DEF SubmitterConstants
<1>2. ASSUME NEW a \in Nat, NEW b \in Nat, a <= b
      PROVE  a \div BUMP_DEN \in Nat /\ a \div BUMP_DEN <= b \div BUMP_DEN
  BY <1>1, <1>2, Z3
<1>3. p * BUMP_NUM \in Nat /\ MAX_GAS * BUMP_NUM \in Nat
  BY <1>1
<1>4. p <= MAX_GAS => p * BUMP_NUM <= MAX_GAS * BUMP_NUM
  BY <1>1
<1>5. QED
  BY <1>2, <1>3, <1>4 DEF Bump

\* A bump does not lower a price that is at the limit
\* (resubmit_with_gas_bump).
LEMMA BumpRaises == MAX_GAS <= Bump(MAX_GAS)
<1>1. MAX_GAS \in Nat /\ BUMP_NUM \in Nat /\ BUMP_DEN \in Nat /\ BUMP_DEN > 0
      /\ BUMP_NUM >= BUMP_DEN
  BY SubmitterConstants DEF SubmitterConstants
<1>2. MAX_GAS * BUMP_DEN <= MAX_GAS * BUMP_NUM
  BY <1>1
<1>3. QED
  BY <1>1, <1>2, Z3 DEF Bump

\* What the actors are, and the values of a frame, a tracker and a key: none is
\* Idle.
LEMMA SubmitterValues ==
  /\ Callers \subseteq Actors /\ Resubmitters \subseteq Actors
  /\ \A a \in Actors : a \in Callers <=> a \notin Resubmitters
  /\ Idle \notin Keys /\ Idle \notin Frames /\ Idle \notin Trackers
  /\ LEN \in Nat /\ TARGET \in 1..LEN /\ MAX_GAS \in Nat
  /\ max_resubmissions \in Nat \ {0} /\ PRICES \subseteq Nat
  /\ \A p \in PRICES : p <= MAX_GAS
<1>1. Idle \notin Frames
  <2>1. LEN \in Nat
    BY SubmitterConstants DEF SubmitterConstants
  <2>2. Frames \subseteq [key : Keys, price : Nat, next : Nat]
    BY <2>1 DEF Frames
  <2>3. QED
    BY <2>2, IdleConstant DEF IdleConstant
<1>2. QED
  BY <1>1, SubmitterConstants, IdleConstant
     DEF SubmitterConstants, IdleConstant, Actors, Trackers

\* The parts of a key.
LEMMA KeyParts ==
  /\ \A k \in Keys : Id(k) \in Ids
  /\ \A id \in Ids, suffix \in {"", "direct", "bundle"} :
       <<id, suffix>> \in Keys /\ Id(<<id, suffix>>) = id
<1>1. ASSUME NEW k \in Keys PROVE Id(k) \in Ids
  BY DEF Keys, Id
<1>2. ASSUME NEW id \in Ids, NEW suffix \in {"", "direct", "bundle"}
      PROVE  <<id, suffix>> \in Keys /\ Id(<<id, suffix>>) = id
  BY DEF Keys, Id
<1>3. QED
  BY <1>1, <1>2

\* A submission under way starts with its first transaction.
LEMMA NewFrame ==
  ASSUME NEW k \in Keys, NEW price \in Nat
  PROVE  /\ Frame(k, price) \in Frames
         /\ Frame(k, price).key = k /\ Frame(k, price).price = price
         /\ Frame(k, price).next = 1
BY SubmitterConstants DEF Frame, Frames, SubmitterConstants

\* A tracker starts with one attempt (submit_bundle).
LEMMA NewTracker ==
  ASSUME NEW price \in Nat
  PROVE  /\ Tracker(price) \in Trackers
         /\ Tracker(price).submission_attempts = 1
         /\ Tracker(price).current_gas_price = price
BY DEF Tracker, Trackers

\* The end of a call drops both paths, and tells a resubmitter.
LEMMA Finished ==
  ASSUME SubmitterTypes, NEW a \in Actors, NEW st \in {"ok", "err"},
         a \in Resubmitters => direct[a] # Idle, Finish(a, st)
  PROVE  /\ direct' \in [Actors -> Frames \cup {Idle}] /\ direct'[a] = Idle
         /\ rpc' \in [Actors -> Frames \cup {Idle}] /\ rpc'[a] = Idle
         /\ \A b \in Actors \ {a} : direct'[b] = direct[b] /\ rpc'[b] = rpc[b]
         /\ result' \in [Resubmitters -> Results]
         /\ \A q \in Resubmitters : IF q = a
              THEN result'[q].st = st /\ result'[q].gas_price = direct[a].price
              ELSE result'[q] = result[q]
         /\ UNCHANGED <<task, bundle_rpc_endpoint, incomplete, started, above>>
<1>1. /\ direct \in [Actors -> Frames \cup {Idle}]
      /\ rpc \in [Actors -> Frames \cup {Idle}]
      /\ result \in [Resubmitters -> Results]
  BY DEF SubmitterTypes
<1>2. CASE a \notin Resubmitters
  BY <1>1, <1>2 DEF Finish
<1>3. CASE a \in Resubmitters
  <2>1. direct[a].price \in Nat
    BY <1>1, <1>3, SubmitterValues DEF Frames
  <2> DEFINE new == [st |-> st, gas_price |-> direct[a].price]
  <2>2. new \in Results /\ new.st = st /\ new.gas_price = direct[a].price
    BY <2>1 DEF Results
  <2>3. result' = [result EXCEPT ![a] = new]
    BY <1>3 DEF Finish
  <2>4. direct' = [direct EXCEPT ![a] = Idle] /\ rpc' = [rpc EXCEPT ![a] = Idle]
        /\ UNCHANGED <<task, bundle_rpc_endpoint, incomplete, started, above>>
    BY DEF Finish
  <2> HIDE DEF new
  <2>5. QED
    BY <1>1, <1>3, <2>2, <2>3, <2>4
<1>4. QED
  BY <1>2, <1>3

\* What an actor has under way may reach the node or the relay when its call
\* ends: the transaction it sends next, the bundle whose answer it waits for.
Reached(a) ==
  /\ sent \subseteq sent' /\ sent' \subseteq sent \cup PendingTx(a)
  /\ bundled \subseteq bundled' /\ bundled' \subseteq bundled \cup PendingBundle(a)

\* What a submission has still to send is of its bundle.
LEMMA PendingTypes ==
  ASSUME SubmitterTypes, NEW a \in Actors
  PROVE  /\ PendingTx(a) \subseteq [id : Ids, tx : 1..LEN]
         /\ PendingBundle(a) \subseteq Ids
         /\ \A s \in PendingTx(a) :
              /\ direct[a] # Idle /\ direct[a].next <= LEN
              /\ s.id = Id(direct[a].key) /\ s.tx = direct[a].next
<1>1. direct[a] \in Frames \cup {Idle} /\ rpc[a] \in Frames \cup {Idle}
  BY DEF SubmitterTypes
<1>2. ASSUME NEW s \in PendingTx(a)
      PROVE  /\ direct[a] # Idle /\ direct[a].next <= LEN
             /\ s = Raw(direct[a])
  BY <1>2 DEF PendingTx
<1>3. ASSUME NEW s \in PendingTx(a) PROVE s \in [id : Ids, tx : 1..LEN]
  <2>1. direct[a].key \in Keys /\ direct[a].next \in 1..LEN
    BY <1>1, <1>2, SubmitterValues DEF Frames
  <2>2. Id(direct[a].key) \in Ids
    BY <2>1, KeyParts
  <2> DEFINE id == Id(direct[a].key)
             n == direct[a].next
  <2>3. s = [id |-> id, tx |-> n]
    BY <1>2 DEF Raw
  <2> HIDE DEF id, n
  <2>4. QED
    BY <2>1, <2>2, <2>3 DEF id, n
<1>4. PendingBundle(a) \subseteq Ids
  BY <1>1, KeyParts DEF PendingBundle, Frames
<1>5. QED
  BY <1>2, <1>3, <1>4 DEF Raw

\* A call of submit_bundle, or of a resubmission, ends: it may have tracked the
\* submission of one of its paths, once that path had sent everything.
CallEnds(a, st) ==
  /\ FramesOf(a) # {}
  /\ Finish(a, st) /\ Reached(a)
  /\ \/ UNCHANGED active_submissions
     \/ \E f \in FramesOf(a) :
          /\ active_submissions' =
               [active_submissions EXCEPT ![f.key] = Tracker(f.price)]
          /\ \/ f = direct[a] /\ f.next > LEN
             \/ Id(f.key) \in bundled'

\* What the answer of a node, or its loss, leads to.
LEMMA CallMovesOn ==
  ASSUME NEW a \in Actors, SubmitterStep(a)
  PROVE  \/ SendRawTransaction(a)
         \/ \E st \in {"ok", "err"} : CallEnds(a, st)
<1>1. CASE SendRawTransactionFails(a)
  <2>1. FramesOf(a) # {} /\ Finish(a, "err") /\ Reached(a)
    BY <1>1 DEF SendRawTransactionFails, FramesOf, Reached
  <2>2. QED
    BY <1>1, <2>1 DEF SendRawTransactionFails, CallEnds
<1>2. CASE TrackDirect(a)
  <2>1. direct[a] \in FramesOf(a) /\ Finish(a, "ok") /\ Reached(a)
    BY <1>2 DEF TrackDirect, FramesOf, Reached
  <2>2. QED
    BY <1>2, <2>1 DEF TrackDirect, CallEnds
<1>3. CASE TrackBundleRpc(a)
  <2>1. rpc[a] \in FramesOf(a) /\ Finish(a, "ok") /\ Reached(a)
    BY <1>3 DEF TrackBundleRpc, FramesOf, Reached
  <2>2. Id(rpc[a].key) \in bundled'
    BY <1>3 DEF TrackBundleRpc, PendingBundle
  <2>3. QED
    BY <1>3, <2>1, <2>2 DEF TrackBundleRpc, CallEnds
<1>4. CASE BundleRpcFails(a)
  <2>1. FramesOf(a) # {} /\ Finish(a, "err") /\ Reached(a)
    BY <1>4 DEF BundleRpcFails, FramesOf, Reached
  <2>2. QED
    BY <1>4, <2>1 DEF BundleRpcFails, CallEnds
<1>5. QED
  BY <1>1, <1>2, <1>3, <1>4 DEF SubmitterStep

\* submit_bundle begins, on one path or on both, with nothing sent.
LEMMA CallBegins ==
  ASSUME SubmitterTypes, NEW a \in Callers, NEW id \in Ids,
         NEW path \in {"Direct", "BundleRpc", "Race"}, NEW price \in PRICES,
         SubmitBundle(a, id, path, price)
  PROVE  /\ direct' \in [Actors -> Frames \cup {Idle}]
         /\ rpc' \in [Actors -> Frames \cup {Idle}]
         /\ \A b \in Actors \ {a} : direct'[b] = direct[b] /\ rpc'[b] = rpc[b]
         /\ direct[a] = Idle /\ rpc[a] = Idle
         /\ \A f \in FramesOf(a)' :
              f \in Frames /\ Id(f.key) = id /\ f.price = price /\ f.next = 1
<1>1. /\ direct \in [Actors -> Frames \cup {Idle}]
      /\ rpc \in [Actors -> Frames \cup {Idle}]
      /\ a \in Actors /\ price \in Nat
  BY SubmitterValues DEF SubmitterTypes
<1>2. ASSUME NEW suffix \in {"", "direct", "bundle"}
      PROVE  /\ Frame(<<id, suffix>>, price) \in Frames
             /\ Id(Frame(<<id, suffix>>, price).key) = id
             /\ Frame(<<id, suffix>>, price).price = price
             /\ Frame(<<id, suffix>>, price).next = 1
  BY <1>1, KeyParts, NewFrame
<1> DEFINE F(suffix) == Frame(<<id, suffix>>, price)
<1>3. ASSUME NEW f \in Frames \cup {Idle}, NEW g \in Frames \cup {Idle},
             direct' = [direct EXCEPT ![a] = f], rpc' = [rpc EXCEPT ![a] = g],
             \A h \in {f, g} \ {Idle} :
               h \in Frames /\ Id(h.key) = id /\ h.price = price /\ h.next = 1
      PROVE  /\ direct' \in [Actors -> Frames \cup {Idle}]
             /\ rpc' \in [Actors -> Frames \cup {Idle}]
             /\ \A b \in Actors \ {a} : direct'[b] = direct[b] /\ rpc'[b] = rpc[b]
             /\ \A h \in FramesOf(a)' :
                  h \in Frames /\ Id(h.key) = id /\ h.price = price /\ h.next = 1
  BY <1>1, <1>3 DEF FramesOf
<1>4. direct[a] = Idle /\ rpc[a] = Idle
  BY DEF SubmitBundle
<1>5. CASE path = "Direct"
  <2>1. /\ direct' = [direct EXCEPT ![a] = F("")]
        /\ rpc' = [rpc EXCEPT ![a] = Idle]
    BY <1>5 DEF SubmitBundle
  <2>2. /\ F("") \in Frames /\ Id(F("").key) = id
        /\ F("").price = price /\ F("").next = 1
    BY <1>2
  <2> HIDE DEF F
  <2>3. QED
    BY <1>3, <1>4, <2>1, <2>2
<1>6. CASE path = "BundleRpc"
  <2>1. /\ direct' = [direct EXCEPT ![a] = Idle]
        /\ rpc' = [rpc EXCEPT ![a] = F("")]
    BY <1>6 DEF SubmitBundle
  <2>2. /\ F("") \in Frames /\ Id(F("").key) = id
        /\ F("").price = price /\ F("").next = 1
    BY <1>2
  <2> HIDE DEF F
  <2>3. QED
    BY <1>3, <1>4, <2>1, <2>2
<1>7. CASE path = "Race"
  <2>1. /\ direct' = [direct EXCEPT ![a] = F("direct")]
        /\ rpc' = [rpc EXCEPT ![a] = F("bundle")]
    BY <1>7 DEF SubmitBundle
  <2>2. /\ F("direct") \in Frames /\ Id(F("direct").key) = id
        /\ F("direct").price = price /\ F("direct").next = 1
        /\ F("bundle") \in Frames /\ Id(F("bundle").key) = id
        /\ F("bundle").price = price /\ F("bundle").next = 1
    BY <1>2
  <2> HIDE DEF F
  <2>3. QED
    BY <1>3, <1>4, <2>1, <2>2
<1>8. QED
  BY <1>5, <1>6, <1>7

\* A transaction is answered: the next one follows.
LEMMA CallGoesOn ==
  ASSUME SubmitterTypes, NEW a \in Actors, SendRawTransaction(a)
  PROVE  /\ direct' \in [Actors -> Frames \cup {Idle}]
         /\ \A b \in Actors \ {a} : direct'[b] = direct[b]
         /\ direct[a] # Idle /\ direct'[a] # Idle
         /\ direct'[a].key = direct[a].key /\ direct'[a].price = direct[a].price
         /\ direct'[a].next = direct[a].next + 1
         /\ Raw(direct[a]) \in sent' /\ Reached(a)
<1>1. direct \in [Actors -> Frames \cup {Idle}] /\ direct[a] # Idle
      /\ direct[a] \in Frames /\ direct[a].next <= LEN
  BY DEF SubmitterTypes, SendRawTransaction
<1> DEFINE n == direct[a].next + 1
           new == [direct[a] EXCEPT !.next = n]
<1>2. n \in 1..(LEN + 1)
  BY <1>1, SubmitterValues DEF Frames
<1>3. /\ new \in Frames /\ new.key = direct[a].key
      /\ new.price = direct[a].price /\ new.next = n
  <2> HIDE DEF n
  <2>1. QED
    BY <1>1, <1>2 DEF Frames
<1>4. direct' = [direct EXCEPT ![a] = new]
  BY <1>1 DEF SendRawTransaction
<1>5. Raw(direct[a]) \in sent' /\ Reached(a)
  BY <1>1 DEF SendRawTransaction, PendingTx, Reached
<1> HIDE DEF new
<1>6. QED
  BY <1>1, <1>3, <1>4, <1>5, SubmitterValues

\* A tracker that is inserted, by the call whose frame it is.
LEMMA TrackerInserted ==
  ASSUME SubmitterTypes, NEW f \in Frames,
         active_submissions' =
           [active_submissions EXCEPT ![f.key] = Tracker(f.price)]
  PROVE  /\ active_submissions' \in [Keys -> Trackers \cup {Idle}]
         /\ f.key \in Keys /\ f.price \in Nat
         /\ active_submissions'[f.key] # Idle
         /\ active_submissions'[f.key].submission_attempts = 1
         /\ active_submissions'[f.key].current_gas_price = f.price
         /\ \A k \in Keys \ {f.key} :
              active_submissions'[k] = active_submissions[k]
<1>1. f.key \in Keys /\ f.price \in Nat
  BY DEF Frames
<1>2. /\ Tracker(f.price) \in Trackers
      /\ Tracker(f.price).submission_attempts = 1
      /\ Tracker(f.price).current_gas_price = f.price
  BY <1>1, NewTracker
<1> DEFINE new == Tracker(f.price)
           k == f.key
<1> HIDE DEF new, k
<1>3. /\ active_submissions' \in [Keys -> Trackers \cup {Idle}]
      /\ active_submissions'[k] = new
      /\ \A q \in Keys \ {k} : active_submissions'[q] = active_submissions[q]
  BY <1>1, <1>2 DEF new, k, SubmitterTypes
<1>4. QED
  BY <1>1, <1>2, <1>3, SubmitterValues DEF new, k

\* The tasks change one at a time.
LEMMA TaskChanged ==
  ASSUME SubmitterTypes, NEW r \in Resubmitters, NEW new \in Tasks,
         task' = [task EXCEPT ![r] = new]
  PROVE  /\ task' \in [Resubmitters -> Tasks] /\ task'[r] = new
         /\ \A q \in Resubmitters \ {r} : task'[q] = task[q]
BY DEF SubmitterTypes

\* A resubmission task moves on.
LEMMA TaskSet ==
  ASSUME SubmitterTypes, NEW r \in Resubmitters,
         NEW at \in {"sleep", "bump", "sending", "ended"}, SetTask(r, at)
  PROVE  /\ task' \in [Resubmitters -> Tasks]
         /\ task'[r].at = at /\ task'[r].key = task[r].key
         /\ task'[r].attempts = task[r].attempts
         /\ \A q \in Resubmitters \ {r} : task'[q] = task[q]
<1> DEFINE new == [task[r] EXCEPT !.at = at]
<1>1. /\ new \in Tasks /\ new.at = at /\ new.key = task[r].key
      /\ new.attempts = task[r].attempts
  BY DEF Tasks, SubmitterTypes
<1>2. task' = [task EXCEPT ![r] = new]
  BY DEF SetTask, SubmitterTypes
<1> HIDE DEF new
<1>3. QED
  BY <1>1, <1>2, TaskChanged

\* A resubmission task wakes up (the sleep of start_resubmission).
LEMMA TaskWakes ==
  ASSUME SubmitterTypes, NEW r \in Resubmitters, Wake(r)
  PROVE  /\ task' \in [Resubmitters -> Tasks] /\ task[r].at = "sleep"
         /\ task'[r].at \in {"bump", "ended"} /\ task'[r].key = task[r].key
         /\ task'[r].attempts = task[r].attempts + 1
         /\ \A q \in Resubmitters \ {r} : task'[q] = task[q]
<1> DEFINE n == task[r].attempts + 1
           at == IF TotalSubmissions = 0 THEN "ended" ELSE "bump"
           new == [task[r] EXCEPT !.attempts = n, !.at = at]
<1>1. task[r] \in Tasks /\ n \in Nat /\ at \in {"ended", "bump"}
  BY DEF SubmitterTypes, Tasks
<1>2. task' = [task EXCEPT ![r] = new] /\ task[r].at = "sleep"
  BY <1>1 DEF Wake, SubmitterTypes
<1> HIDE DEF n, at
<1>3. new \in Tasks /\ new.at = at /\ new.key = task[r].key /\ new.attempts = n
  BY <1>1 DEF Tasks
<1> HIDE DEF new
<1>4. QED
  BY <1>1, <1>2, <1>3, TaskChanged DEF n

\* A resubmission task is spawned for one bundle.
LEMMA TaskStarts ==
  ASSUME SubmitterTypes, NEW r \in Resubmitters, NEW k \in Keys,
         StartResubmission(r, k)
  PROVE  /\ task' \in [Resubmitters -> Tasks]
         /\ task[r].at = "none" /\ task'[r].at = "sleep" /\ task'[r].key = k
         /\ task'[r].attempts = 0
         /\ \A q \in Resubmitters \ {r} : task'[q] = task[q]
<1> DEFINE new == [at |-> "sleep", key |-> k, attempts |-> 0]
<1>1. new \in Tasks /\ new.at = "sleep" /\ new.key = k /\ new.attempts = 0
  BY DEF Tasks
<1>2. task' = [task EXCEPT ![r] = new] /\ task[r].at = "none"
  BY DEF StartResubmission
<1> HIDE DEF new
<1>3. QED
  BY <1>1, <1>2, TaskChanged

\* A resubmission that is allowed: the new price is in the tracker and in the
\* call that starts to send.
Raised(r, k, p) ==
  /\ task[r].at = "bump" /\ task[r].key = k
  /\ active_submissions[k] # Idle
  /\ p = active_submissions[k].current_gas_price
  /\ active_submissions'[k] # Idle
  /\ active_submissions[k].submission_attempts < max_resubmissions
  /\ active_submissions'[k].submission_attempts =
       active_submissions[k].submission_attempts + 1
  /\ active_submissions'[k].current_gas_price = Bump(p)
  /\ \A q \in Keys \ {k} : active_submissions'[q] = active_submissions[q]
  /\ direct'[r] # Idle /\ direct'[r].key = k
  /\ direct'[r].price = Bump(p) /\ direct'[r].next = 1
  /\ \A a \in Actors \ {r} : direct'[a] = direct[a]
  /\ above'[r] = IF Bump(p) > MAX_GAS THEN above[r] + 1 ELSE above[r]
  /\ \A q \in Resubmitters \ {r} : above'[q] = above[q]
  /\ SetTask(r, "sending")

\* A resubmission raises the price of its bundle, up to the limit
\* (resubmit_with_gas_bump).
LEMMA PriceRaised ==
  ASSUME SubmitterTypes, PriceInv, NEW r \in Resubmitters,
         ResubmitWithGasBump(r)
  PROVE  /\ active_submissions' \in [Keys -> Trackers \cup {Idle}]
         /\ direct' \in [Actors -> Frames \cup {Idle}]
         /\ above' \in [Resubmitters -> Nat]
         /\ \/ /\ SetTask(r, "ended")
               /\ UNCHANGED <<active_submissions, direct, above>>
            \/ \E k \in Keys, p \in Nat : Raised(r, k, p)
<1> DEFINE k == task[r].key
           t == active_submissions[k]
<1>1. CASE SetTask(r, "ended") /\ UNCHANGED <<active_submissions, direct, above>>
  BY <1>1 DEF SubmitterTypes
<1>2. CASE /\ t # Idle /\ t.submission_attempts < max_resubmissions
           /\ active_submissions' = [active_submissions EXCEPT
                ![k].submission_attempts = @ + 1,
                ![k].current_gas_price = Bump(@)]
           /\ direct' = [direct EXCEPT
                ![r] = Frame(k, Bump(t.current_gas_price))]
           /\ above' = IF Bump(t.current_gas_price) > MAX_GAS
                         THEN [above EXCEPT ![r] = @ + 1] ELSE above
           /\ SetTask(r, "sending")
  <2>1. task[r].at = "bump"
    BY DEF ResubmitWithGasBump
  <2>2. k \in Keys
    BY <2>1 DEF PriceInv, TaskInv, SubmitterTypes, Tasks
  <2>3. t \in Trackers
    BY <1>2, <2>2 DEF SubmitterTypes
  <2> DEFINE p == t.current_gas_price
             n == t.submission_attempts + 1
             new == [t EXCEPT !.submission_attempts = n,
                              !.current_gas_price = Bump(p)]
             f == Frame(k, Bump(p))
  <2>4. p \in Nat /\ Bump(p) \in Nat /\ n \in Nat
    BY <2>3, BumpMonotone DEF Trackers
  <2>5. active_submissions' = [active_submissions EXCEPT ![k] = new]
    BY <1>2, <2>2, <2>3 DEF SubmitterTypes, Trackers
  <2>6. f \in Frames /\ f.key = k /\ f.price = Bump(p) /\ f.next = 1
    BY <2>2, <2>4, NewFrame
  <2>7. direct' = [direct EXCEPT ![r] = f]
    BY <1>2
  <2>8. /\ new \in Trackers /\ new.submission_attempts = n
        /\ new.current_gas_price = Bump(p)
    <3> HIDE DEF n, p
    <3>1. QED
      BY <2>3, <2>4 DEF Trackers
  <2> HIDE DEF new, f
  <2>9. /\ active_submissions' \in [Keys -> Trackers \cup {Idle}]
        /\ active_submissions'[k] = new
        /\ \A q \in Keys \ {k} : active_submissions'[q] = active_submissions[q]
    BY <2>2, <2>5, <2>8 DEF SubmitterTypes
  <2>10. /\ direct' \in [Actors -> Frames \cup {Idle}] /\ direct'[r] = f
         /\ \A a \in Actors \ {r} : direct'[a] = direct[a]
    BY <2>6, <2>7, SubmitterValues DEF SubmitterTypes
  <2>11. /\ above' \in [Resubmitters -> Nat]
         /\ above'[r] = IF Bump(p) > MAX_GAS THEN above[r] + 1 ELSE above[r]
         /\ \A q \in Resubmitters \ {r} : above'[q] = above[q]
    <3> DEFINE b == Bump(p) > MAX_GAS
    <3>1. above' = IF b THEN [above EXCEPT ![r] = @ + 1] ELSE above
      BY <1>2
    <3> HIDE DEF b
    <3>2. /\ above' \in [Resubmitters -> Nat]
          /\ above'[r] = IF b THEN above[r] + 1 ELSE above[r]
          /\ \A q \in Resubmitters \ {r} : above'[q] = above[q]
      BY <3>1, SMTT(30) DEF SubmitterTypes
    <3>3. QED
      BY <3>2 DEF b
  <2>12. Raised(r, k, p)
    BY <1>2, <2>1, <2>6, <2>8, <2>9, <2>10, <2>11, SubmitterValues, ZenonT(40)
       DEF Raised
  <2>13. QED
    BY <2>2, <2>4, <2>9, <2>10, <2>11, <2>12
<1>3. QED
  BY <1>1, <1>2 DEF ResubmitWithGasBump

\* How the end of a call changes the state.
LEMMA CallEnded ==
  ASSUME SubmitterTypes, OwnedInv, NEW a \in Actors, NEW st \in {"ok", "err"},
         CallEnds(a, st)
  PROVE  /\ a \in Resubmitters => direct[a] # Idle /\ FramesOf(a) = {direct[a]}
         /\ direct' \in [Actors -> Frames \cup {Idle}] /\ direct'[a] = Idle
         /\ rpc' \in [Actors -> Frames \cup {Idle}] /\ rpc'[a] = Idle
         /\ FramesOf(a)' = {}
         /\ \A b \in Actors \ {a} : direct'[b] = direct[b] /\ rpc'[b] = rpc[b]
         /\ result' \in [Resubmitters -> Results]
         /\ \A q \in Resubmitters : IF q = a
              THEN result'[q].st = st /\ result'[q].gas_price = direct[a].price
              ELSE result'[q] = result[q]
         /\ UNCHANGED <<task, bundle_rpc_endpoint, incomplete, started, above>>
         /\ Reached(a)
         /\ \/ UNCHANGED active_submissions
            \/ \E f \in FramesOf(a) :
                 /\ f \in Frames
                 /\ active_submissions' \in [Keys -> Trackers \cup {Idle}]
                 /\ f.key \in Keys /\ f.price \in Nat
                 /\ active_submissions'[f.key] # Idle
                 /\ active_submissions'[f.key].submission_attempts = 1
                 /\ active_submissions'[f.key].current_gas_price = f.price
                 /\ \A k \in Keys \ {f.key} :
                      active_submissions'[k] = active_submissions[k]
                 /\ \/ f = direct[a] /\ f.next > LEN
                    \/ Id(f.key) \in bundled'
<1>1. ASSUME a \in Resubmitters
      PROVE  direct[a] # Idle /\ FramesOf(a) = {direct[a]}
  <2>1. rpc[a] = Idle
    BY <1>1 DEF OwnedInv
  <2>2. QED
    BY <2>1 DEF CallEnds, FramesOf
<1>2. FramesOf(a) \subseteq Frames
  BY DEF FramesOf, SubmitterTypes
<1>3. /\ direct' \in [Actors -> Frames \cup {Idle}] /\ direct'[a] = Idle
      /\ rpc' \in [Actors -> Frames \cup {Idle}] /\ rpc'[a] = Idle
      /\ \A b \in Actors \ {a} : direct'[b] = direct[b] /\ rpc'[b] = rpc[b]
      /\ result' \in [Resubmitters -> Results]
      /\ \A q \in Resubmitters : IF q = a
           THEN result'[q].st = st /\ result'[q].gas_price = direct[a].price
           ELSE result'[q] = result[q]
      /\ UNCHANGED <<task, bundle_rpc_endpoint, incomplete, started, above>>
  BY <1>1, Finished DEF CallEnds
<1>4. FramesOf(a)' = {}
  BY <1>3 DEF FramesOf
<1>5. Reached(a)
  BY DEF CallEnds
<1>6. ASSUME NEW f \in FramesOf(a),
             active_submissions' =
               [active_submissions EXCEPT ![f.key] = Tracker(f.price)]
      PROVE  /\ f \in Frames
             /\ active_submissions' \in [Keys -> Trackers \cup {Idle}]
             /\ f.key \in Keys /\ f.price \in Nat
             /\ active_submissions'[f.key] # Idle
             /\ active_submissions'[f.key].submission_attempts = 1
             /\ active_submissions'[f.key].current_gas_price = f.price
             /\ \A k \in Keys \ {f.key} :
                  active_submissions'[k] = active_submissions[k]
  BY <1>2, <1>6, TrackerInserted
<1>7. \/ UNCHANGED active_submissions
      \/ \E f \in FramesOf(a) :
           /\ active_submissions' =
                [active_submissions EXCEPT ![f.key] = Tracker(f.price)]
           /\ (f = direct[a] /\ f.next > LEN) \/ Id(f.key) \in bundled'
  BY DEF CallEnds
<1>8. \/ UNCHANGED active_submissions
      \/ \E f \in FramesOf(a) :
           /\ f \in Frames
           /\ active_submissions' \in [Keys -> Trackers \cup {Idle}]
           /\ f.key \in Keys /\ f.price \in Nat
           /\ active_submissions'[f.key] # Idle
           /\ active_submissions'[f.key].submission_attempts = 1
           /\ active_submissions'[f.key].current_gas_price = f.price
           /\ \A k \in Keys \ {f.key} :
                active_submissions'[k] = active_submissions[k]
           /\ (f = direct[a] /\ f.next > LEN) \/ Id(f.key) \in bundled'
  BY <1>6, <1>7
<1>9. QED
  BY <1>1, <1>3, <1>4, <1>5, <1>8

\* A clean-up only drops trackers.
LEMMA CleanedUp ==
  ASSUME SubmitterTypes, CleanupOldSubmissions
  PROVE  /\ active_submissions' \in [Keys -> Trackers \cup {Idle}]
         /\ \A k \in Keys : \/ active_submissions'[k] = active_submissions[k]
                            \/ active_submissions'[k] = Idle
BY DEF SubmitterTypes, CleanupOldSubmissions

\* Every step of the submitter keeps the types.
LEMMA SubmitterTypesStep ==
  ASSUME SubmitterTypes, OwnedInv, PriceInv, [SubmitterNext]_submitterVars
  PROVE  SubmitterTypes'
<1>1. ASSUME NEW a \in Callers, NEW id \in Ids,
             NEW path \in {"Direct", "BundleRpc", "Race"}, NEW price \in PRICES,
             SubmitBundle(a, id, path, price)
      PROVE  SubmitterTypes'
  BY <1>1, CallBegins DEF SubmitterTypes, SubmitBundle
<1>2. ASSUME NEW a \in Actors, Reached(a)
      PROVE  sent' \subseteq [id : Ids, tx : 1..LEN] /\ bundled' \subseteq Ids
  BY <1>2, PendingTypes DEF Reached, SubmitterTypes
<1>3. ASSUME NEW a \in Actors, SendRawTransaction(a)
      PROVE  SubmitterTypes'
  <2>1. sent' \subseteq [id : Ids, tx : 1..LEN] /\ bundled' \subseteq Ids
    BY <1>2, <1>3, CallGoesOn
  <2>2. QED
    BY <1>3, <2>1, CallGoesOn DEF SubmitterTypes, SendRawTransaction
<1>4. ASSUME NEW a \in Actors, NEW st \in {"ok", "err"}, CallEnds(a, st)
      PROVE  SubmitterTypes'
  <2>1. sent' \subseteq [id : Ids, tx : 1..LEN] /\ bundled' \subseteq Ids
    BY <1>2, <1>4 DEF CallEnds
  <2>2. active_submissions' \in [Keys -> Trackers \cup {Idle}]
    BY <1>4, CallEnded DEF SubmitterTypes
  <2>3. QED
    BY <1>4, <2>1, <2>2, CallEnded DEF SubmitterTypes
<1>5. ASSUME NEW r \in Resubmitters, NEW k \in Keys, StartResubmission(r, k)
      PROVE  SubmitterTypes'
  BY <1>5, TaskStarts DEF SubmitterTypes, StartResubmission
<1>6. ASSUME NEW r \in Resubmitters, Wake(r) PROVE SubmitterTypes'
  BY <1>6, TaskWakes DEF SubmitterTypes, Wake
<1>7. ASSUME NEW r \in Resubmitters, ResubmitWithGasBump(r)
      PROVE  SubmitterTypes'
  <2>1. task' \in [Resubmitters -> Tasks]
    BY <1>7, PriceRaised, TaskSet DEF Raised
  <2>2. QED
    BY <1>7, <2>1, PriceRaised DEF SubmitterTypes, ResubmitWithGasBump
<1>8. ASSUME NEW r \in Resubmitters, Resubmitted(r) PROVE SubmitterTypes'
  <2>1. \E at \in {"sleep", "ended"} : SetTask(r, at)
    BY <1>8 DEF Resubmitted
  <2>2. task' \in [Resubmitters -> Tasks]
    BY <2>1, TaskSet
  <2>3. NoResult \in Results
    BY DEF NoResult, Results
  <2>4. QED
    BY <1>8, <2>2, <2>3 DEF SubmitterTypes, Resubmitted
<1>9. CASE CleanupOldSubmissions
  BY <1>9, CleanedUp DEF SubmitterTypes, CleanupOldSubmissions
<1>10. CASE UNCHANGED submitterVars
  BY <1>10 DEF SubmitterTypes, submitterVars
<1>11. ASSUME NEW a \in Actors, SubmitterStep(a) PROVE SubmitterTypes'
  BY <1>3, <1>4, <1>11, CallMovesOn
<1>12. ASSUME NEW r \in Resubmitters, ResubmitterStep(r) PROVE SubmitterTypes'
  BY <1>6, <1>7, <1>8, <1>12 DEF ResubmitterStep
<1>13. QED
  BY <1>1, <1>5, <1>9, <1>10, <1>11, <1>12 DEF SubmitterNext

\* What goes out goes out in order, and a submission is tracked when all has
\* gone out, if a step respects what the calls do.
LEMMA BroadcastKept ==
  ASSUME SubmitterTypes, BroadcastInv, SubmitterTypes',
         sent \subseteq sent', bundled \subseteq bundled', UNCHANGED incomplete,
         \A s \in sent' : s \in sent \/ \E a \in Actors : s \in PendingTx(a),
         \A a \in Actors : direct'[a] # Idle =>
           \/ direct'[a] = direct[a] \/ direct'[a].next = 1
           \/ /\ direct[a] # Idle /\ direct'[a].key = direct[a].key
              /\ direct'[a].next = direct[a].next + 1
              /\ Raw(direct[a]) \in sent' /\ Acceptable(direct[a]),
         \A k \in Keys : active_submissions'[k] # Idle =>
           \/ active_submissions[k] # Idle \/ Id(k) \in bundled'
           \/ \E a \in Actors : /\ direct[a] # Idle /\ direct[a].key = k
                                /\ direct[a].next > LEN
  PROVE  BroadcastInv'
<1>1. ASSUME NEW s \in sent', NEW i \in 1..s.tx
      PROVE  [id |-> s.id, tx |-> i] \in sent'
  <2>1. CASE s \in sent
    BY <2>1 DEF BroadcastInv
  <2>2. ASSUME NEW a \in Actors, s \in PendingTx(a)
        PROVE  [id |-> s.id, tx |-> i] \in sent'
    <3>1. /\ direct[a] # Idle /\ direct[a].next <= LEN
          /\ s.id = Id(direct[a].key) /\ s.tx = direct[a].next
      BY <2>2, PendingTypes
    <3>2. s \in [id : Ids, tx : 1..LEN]
      BY DEF SubmitterTypes
    <3>3. CASE i = s.tx
      BY <3>2, <3>3
    <3>4. CASE i < s.tx
      <4>1. i \in 1..LEN /\ i < direct[a].next
        BY <3>1, <3>2, <3>4, SubmitterValues
      <4>2. [id |-> Id(direct[a].key), tx |-> i] \in sent
        BY <3>1, <4>1 DEF BroadcastInv, SentSoFar
      <4>3. QED
        BY <3>1, <4>2
    <3>5. QED
      BY <3>2, <3>3, <3>4
  <2>3. QED
    BY <2>1, <2>2
<1>2. ASSUME NEW a \in Actors, direct'[a] # Idle PROVE SentSoFar(direct[a])'
  <2>1. CASE direct'[a] = direct[a]
    BY <1>2, <2>1 DEF BroadcastInv, SentSoFar
  <2>2. CASE direct'[a].next = 1
    BY <2>2, SubmitterValues DEF SentSoFar
  <2>3. CASE /\ direct[a] # Idle /\ direct'[a].key = direct[a].key
             /\ direct'[a].next = direct[a].next + 1
             /\ Raw(direct[a]) \in sent' /\ Acceptable(direct[a])
    <3>1. direct[a].next \in Nat
      BY <2>3, SubmitterValues DEF SubmitterTypes, Frames
    <3>2. SentSoFar(direct[a])
      BY <2>3 DEF BroadcastInv
    <3>3. ASSUME NEW i \in 1..LEN, i < direct'[a].next
          PROVE  [id |-> Id(direct[a].key), tx |-> i] \in sent'
      <4>1. CASE i < direct[a].next
        BY <3>2, <4>1 DEF SentSoFar
      <4>2. CASE i = direct[a].next
        BY <2>3, <4>2 DEF Raw
      <4>3. QED
        BY <2>3, <3>1, <3>3, <4>1, <4>2
    <3>4. direct'[a].next > TARGET => Id(direct[a].key) \notin incomplete'
      BY <2>3, <3>1, <3>2, SubmitterValues DEF SentSoFar, Acceptable
    <3>5. QED
      BY <2>3, <3>3, <3>4 DEF SentSoFar
  <2>4. QED
    BY <1>2, <2>1, <2>2, <2>3
<1>3. ASSUME NEW k \in Keys, active_submissions'[k] # Idle
      PROVE  Broadcast(Id(k))'
  <2>1. CASE active_submissions[k] # Idle \/ Id(k) \in bundled'
    BY <2>1 DEF BroadcastInv, Broadcast
  <2>2. ASSUME NEW a \in Actors, direct[a] # Idle, direct[a].key = k,
               direct[a].next > LEN
        PROVE  Broadcast(Id(k))'
    <3>1. SentSoFar(direct[a]) /\ direct[a].next \in Nat
      BY <2>2, SubmitterValues DEF BroadcastInv, SubmitterTypes, Frames
    <3>2. QED
      BY <2>2, <3>1, SubmitterValues DEF SentSoFar, Broadcast
  <2>3. QED
    BY <1>3, <2>1, <2>2
<1>4. QED
  BY <1>1, <1>2, <1>3 DEF BroadcastInv

\* Every step keeps what was broadcast within what was asked for.
LEMMA BroadcastStep ==
  ASSUME SubmitterTypes, BroadcastInv, OwnedInv, PriceInv, SubmitterTypes',
         [SubmitterNext]_submitterVars
  PROVE  BroadcastInv'
<1>1. ASSUME NEW a \in Callers, NEW id \in Ids,
             NEW path \in {"Direct", "BundleRpc", "Race"}, NEW price \in PRICES,
             SubmitBundle(a, id, path, price)
      PROVE  BroadcastInv'
  <2>1. ASSUME NEW b \in Actors, direct'[b] # Idle
        PROVE  direct'[b] = direct[b] \/ direct'[b].next = 1
    BY <1>1, <2>1, CallBegins DEF FramesOf
  <2>2. UNCHANGED <<active_submissions, incomplete, sent, bundled>>
    BY <1>1 DEF SubmitBundle
  <2>3. QED
    BY <2>1, <2>2, BroadcastKept
<1>2. ASSUME NEW a \in Actors, SendRawTransaction(a) PROVE BroadcastInv'
  <2>1. UNCHANGED <<active_submissions, incomplete>> /\ Acceptable(direct[a])
    BY <1>2 DEF SendRawTransaction
  <2>2. QED
    BY <1>2, <2>1, CallGoesOn, BroadcastKept DEF Reached
<1>3. ASSUME NEW a \in Actors, NEW st \in {"ok", "err"}, CallEnds(a, st)
      PROVE  BroadcastInv'
  <2>1. Reached(a) /\ UNCHANGED incomplete
        /\ \A b \in Actors : direct'[b] # Idle => direct'[b] = direct[b]
    BY <1>3, CallEnded
  <2>2. ASSUME NEW k \in Keys, active_submissions'[k] # Idle
        PROVE  \/ active_submissions[k] # Idle \/ Id(k) \in bundled'
               \/ \E b \in Actors : /\ direct[b] # Idle /\ direct[b].key = k
                                    /\ direct[b].next > LEN
    BY <1>3, <2>2, CallEnded DEF FramesOf
  <2>3. QED
    BY <2>1, <2>2, BroadcastKept DEF Reached
<1>4. ASSUME NEW r \in Resubmitters, ResubmitWithGasBump(r)
      PROVE  BroadcastInv'
  <2>1. UNCHANGED <<incomplete, sent, bundled>>
    BY <1>4 DEF ResubmitWithGasBump
  <2>2. ASSUME NEW a \in Actors
        PROVE  direct'[a] = direct[a] \/ direct'[a].next = 1
    BY <1>4, PriceRaised DEF Raised
  <2>3. ASSUME NEW k \in Keys, active_submissions'[k] # Idle
        PROVE  active_submissions[k] # Idle
    BY <1>4, <2>3, PriceRaised DEF Raised
  <2>4. QED
    BY <2>1, <2>2, <2>3, BroadcastKept
<1>5. CASE CleanupOldSubmissions
  <2>1. UNCHANGED <<direct, incomplete, sent, bundled>>
    BY <1>5 DEF CleanupOldSubmissions
  <2>2. ASSUME NEW k \in Keys, active_submissions'[k] # Idle
        PROVE  active_submissions[k] # Idle
    BY <1>5, <2>2, CleanedUp
  <2>3. QED
    BY <2>1, <2>2, BroadcastKept
<1>6. CASE UNCHANGED <<active_submissions, direct, incomplete, sent, bundled>>
  BY <1>6 DEF BroadcastInv, SentSoFar, Broadcast
<1>7. ASSUME NEW a \in Actors, SubmitterStep(a) PROVE BroadcastInv'
  BY <1>2, <1>3, <1>7, CallMovesOn
<1>8. ASSUME NEW r \in Resubmitters, ResubmitterStep(r) PROVE BroadcastInv'
  BY <1>4, <1>6, <1>8 DEF ResubmitterStep, Wake, Resubmitted
<1>9. QED
  BY <1>1, <1>5, <1>6, <1>7, <1>8
     DEF SubmitterNext, StartResubmission, submitterVars

\* An id stays with its caller until the call has ended, if a step moves no call
\* to another key and tracks only what a caller then gives up.
LEMMA OwnedKept ==
  ASSUME SubmitterTypes, OwnedInv, SubmitterTypes', UNCHANGED started,
         \A a \in Callers : \A f \in FramesOf(a)' :
           \E g \in FramesOf(a) : g.key = f.key,
         \A r \in Resubmitters : rpc'[r] = Idle,
         \A k \in Keys : Held(k)' => \/ Held(k)
           \/ \E a \in Callers : /\ FramesOf(a)' = {}
                                 /\ \E f \in FramesOf(a) : f.key = k,
         \A k, l \in Keys : Held(k)' /\ ~Held(k) /\ Held(l)' /\ ~Held(l) => k = l
  PROVE  OwnedInv'
<1>1. ASSUME NEW k \in Keys, Held(k)' PROVE Id(k) \in started'
  BY <1>1, SubmitterValues DEF OwnedInv
<1>2. ASSUME NEW a \in Actors, NEW f \in FramesOf(a)'
      PROVE  Id(f.key) \in started'
  <2>1. CASE a \in Callers
    BY <2>1, SubmitterValues DEF OwnedInv
  <2>2. CASE a \in Resubmitters
    <3>1. f = direct'[a] /\ f # Idle
      BY <2>2 DEF FramesOf
    <3>2. f \in Frames
      BY <3>1 DEF SubmitterTypes
    <3>3. f.key \in Keys
      BY <3>2 DEF Frames
    <3>4. Held(f.key)'
      BY <2>2, <3>1 DEF Held
    <3>5. QED
      BY <1>1, <3>3, <3>4
  <2>3. QED
    BY <2>1, <2>2, SubmitterValues
<1>3. ASSUME NEW a \in Callers, NEW b \in Callers, NEW f \in FramesOf(a)',
             NEW g \in FramesOf(b)', Id(f.key) = Id(g.key)
      PROVE  a = b
  BY <1>3 DEF OwnedInv
<1>4. ASSUME NEW a \in Callers, NEW f \in FramesOf(a)', NEW k \in Keys,
             Id(f.key) = Id(k), Held(k)'
      PROVE  FALSE
  <2>1. PICK g \in FramesOf(a) : g.key = f.key
    OBVIOUS
  <2>2. ~Held(k)
    BY <1>4, <2>1 DEF OwnedInv
  <2>3. PICK b \in Callers :
          FramesOf(b)' = {} /\ \E h \in FramesOf(b) : h.key = k
    BY <1>4, <2>2
  <2>4. a = b
    BY <1>4, <2>1, <2>3 DEF OwnedInv
  <2>5. QED
    BY <2>3, <2>4
<1>5. ASSUME NEW id \in Ids, Held(<<id, "direct">>)', Held(<<id, "bundle">>)'
      PROVE  FALSE
  <2> DEFINE k == <<id, "direct">>
             l == <<id, "bundle">>
  <2>1. k \in Keys /\ l \in Keys /\ k # l /\ Id(k) = id /\ Id(l) = id
    BY KeyParts
  <2>2. ~(Held(k) /\ Held(l))
    BY DEF OwnedInv
  <2>3. Held(k)' /\ Held(l)'
    BY <1>5
  <2> HIDE DEF k, l
  <2>4. ASSUME NEW x \in Keys, NEW y \in Keys, Id(x) = Id(y), Held(x),
               ~Held(y), Held(y)'
        PROVE  FALSE
    BY <2>4 DEF OwnedInv
  <2>5. QED
    BY <2>1, <2>2, <2>3, <2>4
<1>6. QED
  BY <1>1, <1>2, <1>3, <1>4, <1>5 DEF OwnedInv

\* Every step keeps a submission with its owner.
LEMMA OwnedStep ==
  ASSUME SubmitterTypes, OwnedInv, PriceInv, SubmitterTypes',
         [SubmitterNext]_submitterVars
  PROVE  OwnedInv'
<1>1. ASSUME NEW a \in Callers, NEW id \in Ids,
             NEW path \in {"Direct", "BundleRpc", "Race"}, NEW price \in PRICES,
             SubmitBundle(a, id, path, price)
      PROVE  OwnedInv'
  <2>1. /\ id \notin started /\ started' = started \cup {id}
        /\ UNCHANGED active_submissions /\ a \in Actors
    BY <1>1, SubmitterValues DEF SubmitBundle
  <2>2. /\ \A b \in Actors \ {a} : direct'[b] = direct[b] /\ rpc'[b] = rpc[b]
        /\ \A f \in FramesOf(a)' : Id(f.key) = id
    BY <1>1, CallBegins
  <2>3. ASSUME NEW b \in Actors \ {a} PROVE FramesOf(b)' = FramesOf(b)
    BY <2>2 DEF FramesOf
  <2>4. ASSUME NEW r \in Resubmitters PROVE r # a
    BY SubmitterValues
  <2>5. ASSUME NEW k \in Keys PROVE Held(k)' = Held(k)
    BY <2>1, <2>2, <2>4, SubmitterValues DEF Held
  <2>6. ASSUME NEW b \in Actors, NEW f \in FramesOf(b)'
        PROVE  Id(f.key) \in started' /\ (b # a => Id(f.key) # id)
    BY <2>1, <2>2, <2>3 DEF OwnedInv
  <2>7. ASSUME NEW b \in Callers, NEW c \in Callers, NEW f \in FramesOf(b)',
               NEW g \in FramesOf(c)', Id(f.key) = Id(g.key)
        PROVE  b = c
    <3>1. b \in Actors /\ c \in Actors
      BY SubmitterValues
    <3>2. CASE b = a \/ c = a
      BY <2>2, <2>6, <2>7, <3>1, <3>2
    <3>3. CASE b # a /\ c # a
      BY <2>3, <2>7, <3>1, <3>3 DEF OwnedInv
    <3>4. QED
      BY <3>2, <3>3
  <2>8. ASSUME NEW b \in Callers, NEW f \in FramesOf(b)', NEW k \in Keys,
               Id(f.key) = Id(k)
        PROVE  ~Held(k)'
    <3>1. b \in Actors
      BY SubmitterValues
    <3>2. CASE b = a
      BY <2>1, <2>2, <2>5, <2>8, <3>2 DEF OwnedInv
    <3>3. CASE b # a
      BY <2>3, <2>5, <2>8, <3>1, <3>3 DEF OwnedInv
    <3>4. QED
      BY <3>2, <3>3
  <2>9. ASSUME NEW r \in Resubmitters PROVE rpc'[r] = Idle
    BY <2>2, <2>4, SubmitterValues DEF OwnedInv
  <2>10. ASSUME NEW k \in Keys, Held(k)' PROVE Id(k) \in started'
    BY <2>1, <2>5, <2>10 DEF OwnedInv
  <2>11. ASSUME NEW x \in Ids
         PROVE  ~(Held(<<x, "direct">>)' /\ Held(<<x, "bundle">>)')
    BY <2>5, KeyParts DEF OwnedInv
  <2>12. QED
    BY <2>6, <2>7, <2>8, <2>9, <2>10, <2>11 DEF OwnedInv
<1>2. ASSUME NEW a \in Actors, SendRawTransaction(a) PROVE OwnedInv'
  <2>1. UNCHANGED <<active_submissions, rpc, started>>
    BY <1>2 DEF SendRawTransaction
  <2>2. ASSUME NEW b \in Actors
        PROVE  /\ (direct'[b] # Idle) = (direct[b] # Idle)
               /\ direct'[b] # Idle => direct'[b].key = direct[b].key
    BY <1>2, CallGoesOn
  <2>3. ASSUME NEW b \in Callers, NEW f \in FramesOf(b)'
        PROVE  \E g \in FramesOf(b) : g.key = f.key
    BY <2>1, <2>2, SubmitterValues DEF FramesOf
  <2>4. ASSUME NEW k \in Keys, Held(k)' PROVE Held(k)
    BY <2>1, <2>2, <2>4, SubmitterValues DEF Held
  <2>5. ASSUME NEW r \in Resubmitters PROVE rpc'[r] = Idle
    BY <2>1 DEF OwnedInv
  <2>6. QED
    BY <2>1, <2>3, <2>4, <2>5, OwnedKept
<1>3. ASSUME NEW a \in Actors, NEW st \in {"ok", "err"}, CallEnds(a, st)
      PROVE  OwnedInv'
  <2>1. /\ UNCHANGED started /\ FramesOf(a)' = {}
        /\ direct'[a] = Idle /\ rpc'[a] = Idle
        /\ \A b \in Actors \ {a} : direct'[b] = direct[b] /\ rpc'[b] = rpc[b]
        /\ a \in Resubmitters => direct[a] # Idle /\ FramesOf(a) = {direct[a]}
    BY <1>3, CallEnded
  <2>2. \E x \in Keys \cup {Idle} :
          /\ \A k \in Keys \ {x} :
               active_submissions'[k] = active_submissions[k]
          /\ x # Idle => \E f \in FramesOf(a) : f.key = x
    <3>1. CASE UNCHANGED active_submissions
      BY <3>1
    <3>2. CASE ~UNCHANGED active_submissions
      <4>1. PICK f \in FramesOf(a) :
              /\ f.key \in Keys
              /\ \A k \in Keys \ {f.key} :
                   active_submissions'[k] = active_submissions[k]
        BY <1>3, <3>2, CallEnded
      <4>2. QED
        BY <4>1
    <3>3. QED
      BY <3>1, <3>2
  <2>3. PICK x \in Keys \cup {Idle} :
          /\ \A k \in Keys \ {x} :
               active_submissions'[k] = active_submissions[k]
          /\ x # Idle => \E f \in FramesOf(a) : f.key = x
    BY <2>2
  <2>4. ASSUME NEW k \in Keys, Held(k)', ~Held(k)
        PROVE  k = x /\ a \in Callers
    <3>1. ASSUME NEW r \in Resubmitters, direct'[r] # Idle, direct'[r].key = k
          PROVE  FALSE
      BY <2>1, <2>4, <3>1, SubmitterValues DEF Held
    <3>2. active_submissions'[k] # Idle /\ active_submissions[k] = Idle
      BY <2>4, <3>1 DEF Held
    <3>3. k = x /\ x # Idle
      BY <2>3, <3>2, SubmitterValues
    <3>4. ASSUME a \in Resubmitters PROVE FALSE
      <4>1. direct[a] # Idle /\ direct[a].key = k
        BY <2>1, <2>3, <3>3, <3>4
      <4>2. QED
        BY <2>4, <3>4, <4>1 DEF Held
    <3>5. QED
      BY <3>3, <3>4, SubmitterValues
  <2>5. ASSUME NEW k \in Keys, Held(k)', ~Held(k)
        PROVE  \E b \in Callers : /\ FramesOf(b)' = {}
                                  /\ \E f \in FramesOf(b) : f.key = k
    <3>1. k = x /\ a \in Callers /\ x # Idle
      BY <2>4, <2>5, SubmitterValues
    <3>2. QED
      BY <2>1, <2>3, <3>1
  <2>6. ASSUME NEW b \in Callers, NEW f \in FramesOf(b)'
        PROVE  \E g \in FramesOf(b) : g.key = f.key
    BY <2>1, SubmitterValues DEF FramesOf
  <2>7. ASSUME NEW r \in Resubmitters PROVE rpc'[r] = Idle
    BY <2>1, SubmitterValues DEF OwnedInv
  <2>8. ASSUME NEW k \in Keys, NEW l \in Keys,
               Held(k)', ~Held(k), Held(l)', ~Held(l)
        PROVE  k = l
    BY <2>4, <2>8
  <2>9. QED
    BY <2>1, <2>5, <2>6, <2>7, <2>8, OwnedKept
<1>4. ASSUME UNCHANGED <<rpc, started>>,
             \A a \in Callers : direct'[a] = direct[a],
             \A k \in Keys : Held(k)' => Held(k)
      PROVE  OwnedInv'
  <2>1. ASSUME NEW b \in Callers, NEW f \in FramesOf(b)'
        PROVE  \E g \in FramesOf(b) : g.key = f.key
    BY <1>4 DEF FramesOf
  <2>2. ASSUME NEW r \in Resubmitters PROVE rpc'[r] = Idle
    BY <1>4 DEF OwnedInv
  <2>3. QED
    BY <1>4, <2>1, <2>2, OwnedKept
<1>5. ASSUME NEW r \in Resubmitters, ResubmitWithGasBump(r) PROVE OwnedInv'
  <2>1. UNCHANGED <<rpc, started>>
    BY <1>5 DEF ResubmitWithGasBump
  <2>2. CASE UNCHANGED <<active_submissions, direct>>
    BY <1>4, <2>1, <2>2 DEF Held
  <2>3. ASSUME NEW k \in Keys, NEW p \in Nat, Raised(r, k, p)
        PROVE  OwnedInv'
    <3>1. \A a \in Callers : direct'[a] = direct[a]
      BY <2>3, SubmitterValues DEF Raised
    <3>2. ASSUME NEW l \in Keys, Held(l)' PROVE Held(l)
      <4>1. CASE l = k
        BY <2>3, <4>1 DEF Held, Raised
      <4>2. CASE l # k
        <5>1. active_submissions'[l] = active_submissions[l]
          BY <2>3, <4>2 DEF Raised
        <5>2. ASSUME NEW q \in Resubmitters, direct'[q] # Idle,
                     direct'[q].key = l
              PROVE  direct[q] # Idle /\ direct[q].key = l
          BY <2>3, <4>2, <5>2, SubmitterValues DEF Raised
        <5>3. QED
          BY <3>2, <5>1, <5>2 DEF Held
      <4>3. QED
        BY <4>1, <4>2
    <3>3. QED
      BY <1>4, <2>1, <3>1, <3>2
  <2>4. QED
    BY <1>5, <2>2, <2>3, PriceRaised
<1>6. CASE CleanupOldSubmissions
  <2>1. UNCHANGED <<direct, rpc, started>>
    BY <1>6 DEF CleanupOldSubmissions
  <2>2. ASSUME NEW k \in Keys, Held(k)' PROVE Held(k)
    BY <1>6, <2>1, <2>2, CleanedUp DEF Held
  <2>3. QED
    BY <1>4, <2>1, <2>2
<1>7. CASE UNCHANGED <<active_submissions, direct, rpc, started>>
  BY <1>7 DEF OwnedInv, FramesOf, Held
<1>8. ASSUME NEW a \in Actors, SubmitterStep(a) PROVE OwnedInv'
  BY <1>2, <1>3, <1>8, CallMovesOn
<1>9. ASSUME NEW r \in Resubmitters, ResubmitterStep(r) PROVE OwnedInv'
  BY <1>5, <1>7, <1>9 DEF ResubmitterStep, Wake, Resubmitted
<1>10. QED
  BY <1>1, <1>6, <1>7, <1>8, <1>9
     DEF SubmitterNext, StartResubmission, submitterVars

\* No task changes its submission, and none forgets that it went too far.
TasksRemember ==
  \A q \in Resubmitters :
    /\ task[q].key # Idle => task'[q].key = task[q].key
    /\ above[q] = 1 => above'[q] = 1

\* A price stays allowed, whoever takes up the submission.
LEMMA CapKept ==
  ASSUME NEW k \in Keys, NEW price, Capped(k, price), TasksRemember
  PROVE  Capped(k, price)'
<1>1. k # Idle
  BY SubmitterValues
<1>2. ASSUME price > MAX_GAS
      PROVE  \E q \in Resubmitters : task'[q].key = k /\ above'[q] = 1
  BY <1>1, <1>2 DEF Capped, TasksRemember
<1>3. Sole(k)' => Sole(k)
  BY <1>1 DEF Sole, TasksRemember
<1>4. QED
  BY <1>2, <1>3 DEF Capped, Bump

\* So does a tracker that a step leaves alone.
LEMMA TrackerKept ==
  ASSUME NEW k \in Keys, TrackerInv(k), TasksRemember,
         active_submissions'[k] # Idle =>
           active_submissions'[k] = active_submissions[k]
  PROVE  TrackerInv(k)'
<1> DEFINE price == active_submissions[k].current_gas_price
<1> SUFFICES ASSUME active_submissions'[k] # Idle PROVE TrackerInv(k)'
  BY DEF TrackerInv
<1>1. PICK p : p = price
  OBVIOUS
<1>2. Capped(k, p)
  BY <1>1 DEF TrackerInv
<1>3. Capped(k, p)'
  BY <1>2, CapKept
<1>4. active_submissions'[k].current_gas_price = p
  BY <1>1
<1>5. QED
  BY <1>3, <1>4 DEF TrackerInv

\* A tracker with a price that is allowed.
LEMMA TrackerSet ==
  ASSUME NEW k \in Keys, NEW p, Capped(k, p)',
         active_submissions'[k].current_gas_price = p,
         active_submissions'[k].submission_attempts <= max_resubmissions
  PROVE  TrackerInv(k)'
BY DEF TrackerInv

\* A call keeps its price.
LEMMA FramesKept ==
  ASSUME SubmitterTypes, FramesPriced, TasksRemember,
         \A q \in Resubmitters : direct'[q] # Idle =>
           /\ direct[q] # Idle
           /\ direct'[q].key = direct[q].key
           /\ direct'[q].price = direct[q].price
           /\ task'[q].at = "sending",
         \A a \in Callers : \A f \in FramesOf(a)' : f.price <= MAX_GAS
  PROVE  FramesPriced'
<1>1. ASSUME NEW q \in Resubmitters, direct'[q] # Idle
      PROVE  /\ direct'[q].key = task'[q].key
             /\ Capped(direct[q].key, direct[q].price)'
  <2>1. PICK k : k = direct[q].key
    OBVIOUS
  <2>2. PICK p : p = direct[q].price
    OBVIOUS
  <2>3. k \in Keys /\ k # Idle /\ k = task[q].key /\ Capped(k, p)
    BY <1>1, <2>1, <2>2, SubmitterValues DEF FramesPriced, SubmitterTypes, Frames
  <2>4. Capped(k, p)'
    BY <2>3, CapKept
  <2>5. direct'[q].key = k /\ direct'[q].price = p /\ task'[q].key = k
    BY <1>1, <2>1, <2>2, <2>3 DEF TasksRemember
  <2>6. QED
    BY <2>4, <2>5
<1>2. QED
  BY <1>1 DEF FramesPriced

\* Every step keeps the prices within the limits (resubmit_with_gas_bump).
LEMMA PriceStep ==
  ASSUME SubmitterTypes, OwnedInv, PriceInv, SubmitterTypes',
         [SubmitterNext]_submitterVars
  PROVE  PriceInv'
<1>1. /\ \A q \in Resubmitters : TaskInv(q)
      /\ FramesPriced /\ \A k \in Keys : TrackerInv(k)
  BY DEF PriceInv
<1>2. ASSUME UNCHANGED <<task, above>>,
             \A q \in Resubmitters : Over(q) => Over(q)'
      PROVE  TasksRemember /\ \A q \in Resubmitters : TaskInv(q)'
  BY <1>1, <1>2 DEF TaskInv, TasksRemember
<1>3. ASSUME NEW a \in Callers, NEW id \in Ids,
             NEW path \in {"Direct", "BundleRpc", "Race"}, NEW price \in PRICES,
             SubmitBundle(a, id, path, price)
      PROVE  PriceInv'
  <2>1. UNCHANGED <<active_submissions, task, result, above>>
    BY <1>3 DEF SubmitBundle
  <2>2. /\ \A b \in Actors \ {a} : direct'[b] = direct[b] /\ rpc'[b] = rpc[b]
        /\ \A f \in FramesOf(a)' : f.price = price
    BY <1>3, CallBegins
  <2>3. ASSUME NEW q \in Resubmitters PROVE direct'[q] = direct[q]
    BY <2>2, SubmitterValues
  <2>4. TasksRemember /\ \A q \in Resubmitters : TaskInv(q)'
    BY <1>2, <2>1, <2>3 DEF Over
  <2>5. ASSUME NEW b \in Callers, NEW f \in FramesOf(b)'
        PROVE  f.price <= MAX_GAS
    <3>1. CASE b = a
      BY <2>2, <3>1, SubmitterValues
    <3>2. CASE b # a
      <4>1. f \in FramesOf(b)
        BY <2>2, <3>2, SubmitterValues DEF FramesOf
      <4>2. QED
        BY <1>1, <4>1 DEF FramesPriced
    <3>3. QED
      BY <3>1, <3>2
  <2>6. ASSUME NEW q \in Resubmitters, direct'[q] # Idle
        PROVE  task'[q].at = "sending"
    BY <1>1, <2>1, <2>3, <2>6 DEF FramesPriced
  <2>7. FramesPriced'
    BY <1>1, <2>3, <2>4, <2>5, <2>6, FramesKept
  <2>8. ASSUME NEW k \in Keys PROVE TrackerInv(k)'
    BY <1>1, <2>1, <2>4, TrackerKept
  <2>9. QED
    BY <2>4, <2>7, <2>8 DEF PriceInv
<1>4. ASSUME NEW a \in Actors, SendRawTransaction(a) PROVE PriceInv'
  <2>1. UNCHANGED <<active_submissions, task, result, rpc, above>>
    BY <1>4 DEF SendRawTransaction
  <2>2. ASSUME NEW b \in Actors
        PROVE  /\ (direct'[b] # Idle) = (direct[b] # Idle)
               /\ direct'[b] # Idle => /\ direct'[b].key = direct[b].key
                                       /\ direct'[b].price = direct[b].price
    BY <1>4, CallGoesOn
  <2>3. ASSUME NEW b \in Callers, NEW f \in FramesOf(b)'
        PROVE  f.price <= MAX_GAS
    <3>1. \E g \in FramesOf(b) : g.price = f.price
      BY <2>1, <2>2, SubmitterValues DEF FramesOf
    <3>2. QED
      BY <1>1, <3>1 DEF FramesPriced
  <2>4. ASSUME NEW q \in Resubmitters, Over(q) PROVE Over(q)'
    BY <2>1, <2>2, <2>4, SubmitterValues DEF Over
  <2>5. TasksRemember /\ \A q \in Resubmitters : TaskInv(q)'
    BY <1>2, <2>1, <2>4
  <2>6. ASSUME NEW q \in Resubmitters, direct'[q] # Idle
        PROVE  task'[q].at = "sending"
    BY <1>1, <2>1, <2>2, <2>6, SubmitterValues DEF FramesPriced
  <2>7. FramesPriced'
    BY <1>1, <2>2, <2>3, <2>5, <2>6, FramesKept, SubmitterValues
  <2>8. ASSUME NEW k \in Keys PROVE TrackerInv(k)'
    BY <1>1, <2>1, <2>5, TrackerKept
  <2>9. QED
    BY <2>5, <2>7, <2>8 DEF PriceInv
<1>5. ASSUME NEW a \in Actors, NEW st \in {"ok", "err"}, CallEnds(a, st)
      PROVE  PriceInv'
  <2>1. /\ UNCHANGED <<task, above>> /\ direct'[a] = Idle /\ FramesOf(a)' = {}
        /\ \A b \in Actors \ {a} : direct'[b] = direct[b] /\ rpc'[b] = rpc[b]
        /\ a \in Resubmitters => direct[a] # Idle /\ FramesOf(a) = {direct[a]}
        /\ a \in Resubmitters => result'[a].gas_price = direct[a].price
        /\ \A q \in Resubmitters \ {a} : result'[q] = result[q]
    BY <1>5, CallEnded
  <2>2. ASSUME NEW b \in Callers, NEW f \in FramesOf(b)'
        PROVE  f.price <= MAX_GAS
    <3>1. f \in FramesOf(b)
      BY <2>1, SubmitterValues DEF FramesOf
    <3>2. QED
      BY <1>1, <3>1 DEF FramesPriced
  <2>3. ASSUME NEW q \in Resubmitters, Over(q) PROVE Over(q)'
    <3>1. CASE q = a
      BY <2>1, <2>3, <3>1 DEF Over
    <3>2. CASE q # a
      BY <2>1, <2>3, <3>2, SubmitterValues DEF Over
    <3>3. QED
      BY <3>1, <3>2
  <2>4. TasksRemember /\ \A q \in Resubmitters : TaskInv(q)'
    BY <1>2, <2>1, <2>3
  <2>5. ASSUME NEW q \in Resubmitters, direct'[q] # Idle
        PROVE  direct'[q] = direct[q] /\ task'[q].at = "sending"
    BY <1>1, <2>1, <2>5, SubmitterValues DEF FramesPriced
  <2>6. FramesPriced'
    BY <1>1, <2>2, <2>4, <2>5, FramesKept
  <2>7. ASSUME NEW k \in Keys,
               active_submissions'[k] = active_submissions[k]
        PROVE  TrackerInv(k)'
    BY <1>1, <2>4, <2>7, TrackerKept
  <2>8. ASSUME NEW f \in FramesOf(a), f.key \in Keys, f.price \in Nat
        PROVE  Capped(f.key, f.price)
    <3>1. CASE a \in Callers
      <4>1. f.price <= MAX_GAS
        BY <1>1, <3>1 DEF FramesPriced
      <4>2. f.price <= Bump(MAX_GAS) /\ ~(f.price > MAX_GAS)
        BY <2>8, <4>1, SubmitterValues, BumpRaises, BumpMonotone
      <4>3. QED
        BY <4>2 DEF Capped
    <3>2. CASE a \in Resubmitters
      BY <1>1, <2>1, <3>2 DEF FramesPriced
    <3>3. QED
      BY <3>1, <3>2, SubmitterValues
  <2>9. ASSUME NEW k \in Keys PROVE TrackerInv(k)'
    <3>1. CASE active_submissions'[k] = active_submissions[k]
      BY <2>7, <3>1
    <3>2. CASE active_submissions'[k] # active_submissions[k]
      <4>1. PICK f \in FramesOf(a) :
              /\ f.key \in Keys /\ f.price \in Nat
              /\ active_submissions'[f.key].submission_attempts = 1
              /\ active_submissions'[f.key].current_gas_price = f.price
              /\ \A l \in Keys \ {f.key} :
                   active_submissions'[l] = active_submissions[l]
        BY <1>5, <3>2, CallEnded
      <4>2. k = f.key
        BY <3>2, <4>1
      <4>3. PICK p : p = f.price
        OBVIOUS
      <4>4. Capped(k, p)
        BY <2>8, <4>1, <4>2, <4>3
      <4>5. Capped(k, p)'
        BY <2>4, <4>4, CapKept
      <4>6. /\ active_submissions'[k].current_gas_price = p
            /\ active_submissions'[k].submission_attempts <= max_resubmissions
        BY <4>1, <4>2, <4>3, SubmitterValues
      <4>7. QED
        BY <4>5, <4>6, TrackerSet
    <3>3. QED
      BY <3>1, <3>2
  <2>10. QED
    BY <2>4, <2>6, <2>9 DEF PriceInv
<1>6. ASSUME NEW r \in Resubmitters, direct[r] = Idle, UNCHANGED <<direct, rpc>>,
             \A k \in Keys : active_submissions'[k] # Idle =>
               active_submissions'[k] = active_submissions[k],
             UNCHANGED above, task[r].key = Idle \/ task'[r].key = task[r].key,
             \A q \in Resubmitters \ {r} : task'[q] = task[q],
             \A q \in Resubmitters \ {r} : result'[q] = result[q],
             TaskInv(r)'
      PROVE  PriceInv'
  <2>1. TasksRemember
    BY <1>6 DEF TasksRemember
  <2>2. ASSUME NEW q \in Resubmitters, q # r PROVE TaskInv(q)'
    BY <1>1, <1>6, <2>2 DEF TaskInv, Over
  <2>3. ASSUME NEW q \in Resubmitters, direct'[q] # Idle
        PROVE  task'[q].at = "sending"
    BY <1>1, <1>6, <2>3 DEF FramesPriced
  <2>4. ASSUME NEW a \in Callers, NEW f \in FramesOf(a)'
        PROVE  f.price <= MAX_GAS
    BY <1>1, <1>6 DEF FramesPriced, FramesOf
  <2>5. FramesPriced'
    BY <1>1, <1>6, <2>1, <2>3, <2>4, FramesKept
  <2>6. ASSUME NEW k \in Keys PROVE TrackerInv(k)'
    BY <1>1, <1>6, <2>1, TrackerKept
  <2>7. QED
    BY <1>6, <2>2, <2>5, <2>6 DEF PriceInv
<1>7. ASSUME NEW r \in Resubmitters, task[r].at # "sending"
      PROVE  /\ direct[r] = Idle
             /\ task[r].at # "ended" => above[r] = 0 /\ ~Over(r)
  <2>1. direct[r] = Idle
    BY <1>1, <1>7 DEF FramesPriced
  <2>2. above[r] \in Nat
    BY DEF SubmitterTypes
  <2>3. task[r].at # "ended" => ~Over(r)
    BY <1>7 DEF Over
  <2>4. QED
    BY <1>1, <2>1, <2>2, <2>3 DEF TaskInv
<1>8. ASSUME NEW r \in Resubmitters, NEW k \in Keys, StartResubmission(r, k)
      PROVE  PriceInv'
  <2>1. UNCHANGED <<active_submissions, direct, rpc, result, above>>
    BY <1>8 DEF StartResubmission
  <2>2. /\ task[r].at = "none" /\ task'[r].at = "sleep" /\ task'[r].key = k
        /\ task'[r].attempts = 0
        /\ \A q \in Resubmitters \ {r} : task'[q] = task[q]
    BY <1>8, TaskStarts
  <2>3. direct[r] = Idle /\ above[r] = 0 /\ task[r].key = Idle
    BY <1>1, <1>7, <2>2 DEF TaskInv
  <2>4. TaskInv(r)'
    BY <2>1, <2>2, <2>3, SubmitterValues, SubmitterConstants
       DEF TaskInv, SubmitterConstants
  <2>5. QED
    BY <1>6, <2>1, <2>2, <2>3, <2>4
<1>9. ASSUME NEW r \in Resubmitters, Wake(r) PROVE PriceInv'
  <2>1. UNCHANGED <<active_submissions, direct, rpc, result, above>>
    BY <1>9 DEF Wake
  <2>2. /\ task[r].at = "sleep" /\ task'[r].at \in {"bump", "ended"}
        /\ task'[r].key = task[r].key
        /\ task'[r].attempts = task[r].attempts + 1
        /\ \A q \in Resubmitters \ {r} : task'[q] = task[q]
    BY <1>9, TaskWakes
  <2>3. direct[r] = Idle /\ above[r] = 0 /\ task[r].key # Idle
    BY <1>1, <1>7, <2>2 DEF TaskInv
  <2>4. task'[r].attempts <= MAX_ATTEMPTS
    <3>1. task[r].attempts \in Nat /\ task[r].attempts < MAX_ATTEMPTS
      BY <1>1, <2>2 DEF TaskInv, SubmitterTypes, Tasks
    <3>2. QED
      BY <2>2, <3>1, SubmitterConstants DEF SubmitterConstants
  <2>5. TaskInv(r)'
    BY <2>1, <2>2, <2>3, <2>4 DEF TaskInv
  <2>6. QED
    BY <1>6, <2>1, <2>2, <2>3, <2>5
<1>10. ASSUME NEW r \in Resubmitters, ResubmitWithGasBump(r) PROVE PriceInv'
  <2>1. UNCHANGED <<rpc, result>> /\ task[r].at = "bump"
    BY <1>10 DEF ResubmitWithGasBump
  <2>2. /\ direct[r] = Idle /\ above[r] = 0 /\ task[r].key # Idle
        /\ task[r].attempts <= MAX_ATTEMPTS
    BY <1>1, <1>7, <2>1 DEF TaskInv
  <2>3. CASE /\ SetTask(r, "ended")
             /\ UNCHANGED <<active_submissions, direct, above>>
    <3>1. /\ task'[r].at = "ended" /\ task'[r].key = task[r].key
          /\ task'[r].attempts = task[r].attempts
          /\ \A q \in Resubmitters \ {r} : task'[q] = task[q]
      BY <2>3, TaskSet
    <3>2. TaskInv(r)'
      BY <2>2, <2>3, <3>1 DEF TaskInv
    <3>3. QED
      BY <1>6, <2>1, <2>2, <2>3, <3>1, <3>2
  <2>4. ASSUME NEW k \in Keys, NEW p \in Nat, Raised(r, k, p)
        PROVE  PriceInv'
    <3>1. /\ task'[r].at = "sending" /\ task'[r].key = task[r].key
          /\ task[r].key = k /\ task'[r].attempts = task[r].attempts
          /\ \A q \in Resubmitters \ {r} : task'[q] = task[q]
      BY <2>4, TaskSet DEF Raised
    <3>2. /\ direct'[r] # Idle /\ direct'[r].key = k
          /\ direct'[r].price = Bump(p)
          /\ \A a \in Actors \ {r} : direct'[a] = direct[a]
      BY <2>4 DEF Raised
    <3>3. /\ above'[r] = IF Bump(p) > MAX_GAS THEN 1 ELSE 0
          /\ \A q \in Resubmitters \ {r} : above'[q] = above[q]
      BY <2>2, <2>4 DEF Raised
    <3>4. Bump(p) \in Nat
      BY BumpMonotone
    <3>5. TasksRemember
      BY <2>2, <3>1, <3>3 DEF TasksRemember
    <3>6. ASSUME NEW q \in Resubmitters PROVE TaskInv(q)'
      <4>1. CASE q = r
        <5>1. above'[r] # 0 => Over(r)'
          BY <3>1, <3>2, <3>3 DEF Over
        <5>2. QED
          BY <2>2, <3>1, <3>3, <4>1, <5>1 DEF TaskInv
      <4>2. CASE q # r
        <5>1. Over(q) => Over(q)'
          BY <2>1, <3>1, <3>2, <4>2, SubmitterValues DEF Over
        <5>2. QED
          BY <1>1, <3>1, <3>3, <4>2, <5>1 DEF TaskInv
      <4>3. QED
        BY <4>1, <4>2
    <3>7. Capped(k, Bump(p))'
      <4>1. active_submissions[k].current_gas_price = p
            /\ active_submissions[k] # Idle
        BY <2>4 DEF Raised
      <4>2. Capped(k, p)
        BY <1>1, <4>1 DEF TrackerInv
      <4>3. Sole(k)' => Sole(k)
        BY <3>1, <3>5, SubmitterValues DEF Sole, TasksRemember
      <4>4. Sole(k) => ~(p > MAX_GAS)
        BY <2>2, <3>1, <4>2 DEF Sole, Capped
      <4>5. Sole(k)' => Bump(p) <= Bump(MAX_GAS)
        BY <4>3, <4>4, BumpMonotone, SubmitterValues
      <4>6. Bump(p) > MAX_GAS =>
              \E q \in Resubmitters : task'[q].key = k /\ above'[q] = 1
        BY <3>1, <3>3
      <4>7. QED
        BY <4>5, <4>6 DEF Capped, Bump
    <3>8. ASSUME NEW a \in Callers, NEW f \in FramesOf(a)'
          PROVE  f.price <= MAX_GAS
      BY <1>1, <2>1, <3>2, SubmitterValues DEF FramesPriced, FramesOf
    <3>9. PICK new : new = Bump(p)
      OBVIOUS
    <3>10. Capped(k, new)'
      <4>1. new = Bump(p)'
        BY <3>9 DEF Bump
      <4>2. QED
        BY <3>7, <4>1 DEF Capped, Bump
    <3>11. ASSUME NEW q \in Resubmitters, direct'[q] # Idle
           PROVE  /\ task'[q].at = "sending" /\ direct'[q].key = task'[q].key
                  /\ Capped(direct[q].key, direct[q].price)'
      <4>1. CASE q = r
        <5>1. direct'[q].key = k /\ direct'[q].price = new
          BY <3>2, <3>9, <4>1
        <5>2. QED
          BY <3>1, <3>10, <4>1, <5>1
      <4>2. CASE q # r
        <5>1. direct'[q] = direct[q] /\ task'[q] = task[q]
          BY <3>1, <3>2, <4>2, SubmitterValues
        <5>2. PICK l : l = direct[q].key
          OBVIOUS
        <5>3. PICK price : price = direct[q].price
          OBVIOUS
        <5>4. /\ l \in Keys /\ l = task[q].key /\ Capped(l, price)
              /\ task[q].at = "sending"
          BY <1>1, <3>11, <5>1, <5>2, <5>3, SubmitterValues
             DEF FramesPriced, SubmitterTypes, Frames
        <5>5. Capped(l, price)'
          BY <3>5, <5>4, CapKept
        <5>6. direct'[q].key = l /\ direct'[q].price = price
          BY <5>1, <5>2, <5>3
        <5>7. QED
          BY <5>1, <5>4, <5>5, <5>6
      <4>3. QED
        BY <4>1, <4>2
    <3>12. FramesPriced'
      BY <3>8, <3>11 DEF FramesPriced
    <3>13. TrackerInv(k)'
      <4>1. /\ active_submissions'[k].submission_attempts <= max_resubmissions
            /\ active_submissions'[k].current_gas_price = new
        BY <2>4, <3>9, SubmitterValues DEF Raised, SubmitterTypes, Trackers
      <4>2. QED
        BY <3>10, <4>1, TrackerSet
    <3>14. ASSUME NEW l \in Keys, l # k PROVE TrackerInv(l)'
      <4>1. active_submissions'[l] = active_submissions[l]
        BY <2>4, <3>14 DEF Raised
      <4>2. QED
        BY <1>1, <3>5, <4>1, TrackerKept
    <3>15. QED
      BY <3>6, <3>12, <3>13, <3>14 DEF PriceInv
  <2>5. QED
    BY <1>10, <2>3, <2>4, PriceRaised
<1>11. ASSUME NEW r \in Resubmitters, Resubmitted(r) PROVE PriceInv'
  <2>1. /\ UNCHANGED <<active_submissions, direct, rpc, above>>
        /\ task[r].at = "sending" /\ direct[r] = Idle
        /\ \A q \in Resubmitters \ {r} : result'[q] = result[q]
    BY <1>11 DEF Resubmitted, SubmitterTypes
  <2>2. PICK at \in {"sleep", "ended"} :
          /\ SetTask(r, at) /\ (Over(r) => at = "ended")
          /\ at = "sleep" => task[r].attempts < MAX_ATTEMPTS
    <3>1. result[r].gas_price \in Nat
      BY DEF SubmitterTypes, Results
    <3>2. QED
      BY <1>11, <3>1, SubmitterValues DEF Resubmitted, Over
  <2>3. /\ task'[r].at = at /\ task'[r].key = task[r].key
        /\ task'[r].attempts = task[r].attempts
        /\ \A q \in Resubmitters \ {r} : task'[q] = task[q]
    BY <2>2, TaskSet
  <2>4. TaskInv(r)
    BY <1>1
  <2>5. Over(r) => Over(r)'
    BY <2>2, <2>3 DEF Over
  <2>6. TaskInv(r)'
    BY <2>1, <2>2, <2>3, <2>4, <2>5 DEF TaskInv
  <2>7. QED
    BY <1>6, <2>1, <2>3, <2>6
<1>12. CASE CleanupOldSubmissions
  <2>1. UNCHANGED <<direct, rpc, result, task, above>>
    BY <1>12 DEF CleanupOldSubmissions
  <2>2. TasksRemember /\ \A q \in Resubmitters : TaskInv(q)'
    BY <1>2, <2>1 DEF Over
  <2>3. ASSUME NEW k \in Keys PROVE TrackerInv(k)'
    BY <1>1, <1>12, <2>2, CleanedUp, TrackerKept
  <2>4. ASSUME NEW q \in Resubmitters, direct'[q] # Idle
        PROVE  task'[q].at = "sending"
    BY <1>1, <2>1, <2>4 DEF FramesPriced
  <2>5. ASSUME NEW a \in Callers, NEW f \in FramesOf(a)'
        PROVE  f.price <= MAX_GAS
    BY <1>1, <2>1 DEF FramesPriced, FramesOf
  <2>6. FramesPriced'
    BY <1>1, <2>1, <2>2, <2>4, <2>5, FramesKept
  <2>7. QED
    BY <2>2, <2>3, <2>6 DEF PriceInv
<1>13. CASE UNCHANGED submitterVars
  BY <1>13 DEF submitterVars, PriceInv, TaskInv, FramesPriced, TrackerInv,
     Capped, Sole, FramesOf, Over, Bump
<1>14. ASSUME NEW a \in Actors, SubmitterStep(a) PROVE PriceInv'
  BY <1>4, <1>5, <1>14, CallMovesOn
<1>15. ASSUME NEW r \in Resubmitters, ResubmitterStep(r) PROVE PriceInv'
  BY <1>9, <1>10, <1>11, <1>15 DEF ResubmitterStep
<1>16. QED
  BY <1>3, <1>8, <1>12, <1>13, <1>14, <1>15 DEF SubmitterNext

\* When nothing is submitted, nothing is tracked.
LEMMA SubmitterInitially == SubmitterInit => SubmitterInv
<1> SUFFICES ASSUME SubmitterInit PROVE SubmitterInv
  OBVIOUS
<1>1. NoResult \in Results /\ NoTask \in Tasks
  BY DEF NoResult, Results, NoTask, Tasks
<1>2. SubmitterTypes
  BY <1>1 DEF SubmitterInit, SubmitterTypes
<1>3. /\ \A a \in Actors : FramesOf(a) = {} /\ direct[a] = Idle
      /\ \A k \in Keys : active_submissions[k] = Idle
      /\ \A r \in Resubmitters : rpc[r] = Idle /\ direct[r] = Idle
  BY SubmitterValues DEF SubmitterInit, FramesOf
<1>4. \A k \in Keys : ~Held(k)
  BY <1>3 DEF Held
<1>5. BroadcastInv
  BY <1>3 DEF BroadcastInv, SubmitterInit
<1>6. OwnedInv
  BY <1>3, <1>4, SubmitterValues, KeyParts DEF OwnedInv
<1>7. PriceInv
  <2>1. \A q \in Resubmitters : TaskInv(q)
    BY SubmitterConstants DEF SubmitterInit, NoTask, TaskInv, SubmitterConstants
  <2>2. QED
    BY <1>3, <2>1, SubmitterValues DEF PriceInv, FramesPriced, TrackerInv
<1>8. QED
  BY <1>2, <1>5, <1>6, <1>7 DEF SubmitterInv

\* Until a call has ended its id is its caller's alone, a resubmitter that has
\* gone over its price does not touch its submission again, and what a call has
\* still to send is what has not gone out.
THEOREM SubmitterInvariant == SubmitterSpec => []SubmitterInv
<1>1. SubmitterInv /\ [SubmitterNext]_submitterVars => SubmitterInv'
  BY SubmitterTypesStep, BroadcastStep, OwnedStep, PriceStep DEF SubmitterInv
<1>2. QED
  BY <1>1, SubmitterInitially, PTL DEF SubmitterSpec

\* What is tracked tells the truth of what was broadcast.
LEMMA SubmitterSafeByInv == SubmitterInv => SubmitterSafe
<1> SUFFICES ASSUME SubmitterInv PROVE SubmitterSafe
  OBVIOUS
<1>1. TrackedWasBroadcast
  <2>1. ASSUME NEW k \in Keys, active_submissions[k] # Idle,
               Id(k) \notin bundled
        PROVE  /\ \A i \in 1..LEN : \E s \in sent : s.id = Id(k) /\ s.tx = i
               /\ Id(k) \notin incomplete
    BY <2>1 DEF SubmitterInv, BroadcastInv, Broadcast
  <2>2. QED
    BY <2>1 DEF TrackedWasBroadcast
<1>2. SentIsPrefix
  BY DEF SubmitterInv, BroadcastInv, SentIsPrefix
<1>3. RaceTracksOne
  BY DEF SubmitterInv, OwnedInv, Held, RaceTracksOne
<1>4. OneBumpOverCap
  BY DEF SubmitterInv, PriceInv, TaskInv, TrackerInv, Capped, Sole,
     OneBumpOverCap
<1>5. AttemptsLimited
  BY DEF SubmitterInv, PriceInv, TaskInv, TrackerInv, AttemptsLimited
<1>6. QED
  BY <1>1, <1>2, <1>3, <1>4, <1>5 DEF SubmitterSafe

\* A tracked submission was broadcast as a whole, what has gone out is a prefix
\* of the bundle, of a race one path is tracked, a resubmitter goes over its
\* price by one bump at most, and bumps that were not sent stay within their
\* number (submit_direct, submit_race, resubmit_with_gas_bump).
THEOREM SubmitterIsSafe == Spec => []SubmitterSafe
BY SubmitterTakesPart, SubmitterInvariant, SubmitterSafeByInv, PTL

-----------------------------------------------------------------------------
(* ExecutionTracker and the dry run that reads it                          *)

reportVars == <<trackerVars, dryVars>>

\* The tracker, on its own or as the dry run uses it.
ReportNext == (TrackerNext /\ UNCHANGED dryVars) \/ DryNext
ReportSpec == TrackerInit /\ DryInit /\ [][ReportNext]_reportVars

Blocks == SUBSET (Tracked \X TxsOf)
Tracks == [status : {"Pending", "Included", "Expired"}, target_block : Nat,
           block_number : Nat, last_check_block : Nat]
Monitors == [at : {"tick", "check"}, ids : SUBSET Tracked,
             bundle : Tracked \cup {Absent}, block : Nat]

Whole(b, n) == {b} \X TxsOf \subseteq chain[n]

TrackerTypes ==
  /\ Height \in Nat /\ chain \in [1..Height -> Blocks]
  /\ tracked_bundles \in [Tracked -> Tracks \cup {Absent}]
  /\ latest_block \in Nat
  /\ monitor \in Monitors
  /\ aged \subseteq Tracked /\ unanswered \subseteq Tracked
  /\ tracks \subseteq Tracked /\ IsFiniteSet(tracks)

\* What the tracker holds of a bundle: blocks that exist, and none of those it
\* has read holds the bundle while it is pending.
TrackInv(b) ==
  tracked_bundles[b] # Absent =>
    LET t == tracked_bundles[b] IN
    /\ b \in tracks
    /\ t.last_check_block <= Height
    /\ t.status = "Included" =>
         /\ t.block_number \in DOMAIN chain /\ t.block_number >= t.target_block
         /\ Whole(b, t.block_number)
    /\ t.status = "Pending" /\ b \notin unanswered =>
         \A n \in DOMAIN chain :
           n >= t.target_block /\ n <= t.last_check_block => ~Whole(b, n)

\* What the monitoring loop is at: it checks bundles that are tracked, and has
\* read the blocks before the one it asks for.
MonitorInv ==
  /\ latest_block <= Height
  /\ monitor.at = "tick" => monitor.ids = {} /\ monitor.bundle = Absent
  /\ \A b \in monitor.ids : tracked_bundles[b] # Absent
  /\ monitor.bundle # Absent =>
       LET b == monitor.bundle
           t == tracked_bundles[b]
       IN /\ t # Absent /\ t.status = "Pending"
          /\ monitor.block >= t.target_block
          /\ monitor.block > t.target_block => monitor.block <= Height + 1
          /\ b \notin unanswered =>
               \A n \in DOMAIN chain :
                 n >= t.target_block /\ n < monitor.block => ~Whole(b, n)

FollowInv ==
  /\ TrackerTypes
  /\ \A b \in Tracked : TrackInv(b)
  /\ MonitorInv

Found == {b \in Tracked : inclusion_results[b].actual_block > 0}
HandedOver == {b \in Tracked : inclusion_results[b].target_block > 0}

Seen(b) ==
  LET n == inclusion_results[b].actual_block IN
  /\ n \in DOMAIN chain /\ Whole(b, n)
  /\ n >= inclusion_results[b].target_block

ReportTypes ==
  /\ dry \in [at : {"idle", "submit", "wait", "done", "aborted"},
              i : Nat \ {0}, round : Nat]
  /\ inclusion_results \in
       [Tracked -> [target_block : Nat, actual_block : Nat]]
  /\ dry_metrics \in [bundles_submitted : Nat, bundles_included : Nat,
                      ordered : Nat]

\* The counters count, and the results are those of bundles that were handed
\* over and seen in a block.
ReportInv ==
  /\ ReportTypes
  /\ dry_metrics.bundles_included = Cardinality(Found)
  /\ dry_metrics.bundles_submitted = Cardinality(HandedOver)
  /\ Found \subseteq HandedOver /\ HandedOver \subseteq tracks
  /\ \A b \in Tracked : tracked_bundles[b] # Absent =>
       inclusion_results[b].target_block <= tracked_bundles[b].target_block
  /\ \A b \in Found : Seen(b)
  /\ dry.at = "idle" => dry.i = 1 /\ dry_metrics.bundles_submitted = 0
  /\ dry.at = "submit" =>
       /\ dry_metrics.bundles_submitted = dry.i - 1
       /\ dry.i <= Len(DryBundles) + 1
       /\ \A j \in 1..(dry.i - 1) : DryBundles[j] \in HandedOver
  /\ dry.at = "wait" =>
       /\ dry.i <= Len(DryBundles)
       /\ \A j \in 1..Len(DryBundles) : DryBundles[j] \in HandedOver
  /\ LostToTracker

\* What the constants say of bundles and their tracks.
LEMMA TrackerValues ==
  /\ Absent \notin Tracked /\ Absent \notin Tracks /\ TARGET_BLOCK \in Nat
BY TrackerConstants DEF TrackerConstants, Tracks

\* Blocks are only added, with the next number.
ChainGrows ==
  /\ Height' \in Nat /\ chain' \in [1..Height' -> Blocks] /\ Height <= Height'
  /\ \A n \in DOMAIN chain : n \in DOMAIN chain' /\ chain'[n] = chain[n]
  /\ \A n \in DOMAIN chain' : n \in DOMAIN chain \/ n > Height

\* A new block makes the chain grow.
LEMMA Mined ==
  ASSUME TrackerTypes, NEW T \in Blocks, Mine(T) PROVE ChainGrows
<1> DEFINE h == Height
<1>1. h \in Nat /\ chain \in [1..h -> Blocks]
  BY DEF TrackerTypes
<1>2. chain' = [n \in 1..(h + 1) |-> IF n <= h THEN chain[n] ELSE T]
  BY DEF Mine
<1>3. DOMAIN chain' = 1..(h + 1)
  BY <1>2
<1>4. Height' = h + 1
  <2>1. Cardinality(1..(h + 1)) = h + 1
    BY <1>1, FS_Interval
  <2>2. QED
    BY <1>3, <2>1 DEF Height
<1> HIDE DEF h
<1>5. ASSUME NEW n \in 1..(h + 1)
      PROVE  chain'[n] \in Blocks /\ (n <= h => chain'[n] = chain[n])
  BY <1>1, <1>2
<1>6. chain' \in [1..(h + 1) -> Blocks]
  BY <1>2, <1>3, <1>5
<1>7. QED
  BY <1>1, <1>3, <1>4, <1>5, <1>6 DEF ChainGrows, h

\* A step without a block leaves the chain.
LEMMA NotMined ==
  ASSUME TrackerTypes, UNCHANGED chain PROVE ChainGrows
<1>1. Height' = Height
  BY DEF Height
<1>2. QED
  BY <1>1 DEF TrackerTypes, ChainGrows

\* What is known of a bundle stays true as long as the tracker keeps what it
\* holds of it, or lets it go.
LEMMA TrackKept ==
  ASSUME TrackerTypes, NEW b \in Tracked, TrackInv(b), ChainGrows,
         tracked_bundles'[b] \in {tracked_bundles[b], Absent},
         tracks \subseteq tracks', unanswered \subseteq unanswered'
  PROVE  TrackInv(b)'
<1>1. CASE tracked_bundles'[b] = Absent
  BY <1>1 DEF TrackInv
<1>2. CASE tracked_bundles'[b] = tracked_bundles[b] /\ tracked_bundles[b] # Absent
  <2>1. PICK t \in Tracks : tracked_bundles[b] = t /\ tracked_bundles'[b] = t
    BY <1>2 DEF TrackerTypes
  <2>2. /\ b \in tracks /\ t.last_check_block <= Height
        /\ t.status = "Included" =>
             /\ t.block_number \in DOMAIN chain
             /\ t.block_number >= t.target_block
             /\ Whole(b, t.block_number)
        /\ t.status = "Pending" /\ b \notin unanswered =>
             \A n \in DOMAIN chain :
               n >= t.target_block /\ n <= t.last_check_block => ~Whole(b, n)
    BY <1>2, <2>1 DEF TrackInv
  <2>3. Height \in Nat /\ Height' \in Nat /\ DOMAIN chain' \subseteq Nat
        /\ t.last_check_block \in Nat
    BY <2>1 DEF TrackerTypes, ChainGrows, Tracks
  <2>4. b \in tracks' /\ t.last_check_block <= Height'
    BY <2>2, <2>3 DEF ChainGrows
  <2>5. t.status = "Included" =>
          /\ t.block_number \in DOMAIN chain' /\ t.block_number >= t.target_block
          /\ Whole(b, t.block_number)'
    BY <2>2 DEF ChainGrows, Whole
  <2>6. ASSUME t.status = "Pending", b \notin unanswered',
               NEW n \in DOMAIN chain', n >= t.target_block,
               n <= t.last_check_block
        PROVE  ~Whole(b, n)'
    <3>1. n \in DOMAIN chain
      BY <2>2, <2>3, <2>6 DEF ChainGrows
    <3>2. ~Whole(b, n)
      BY <2>2, <2>6, <3>1
    <3>3. QED
      BY <3>1, <3>2 DEF ChainGrows, Whole
  <2>7. QED
    BY <2>1, <2>4, <2>5, <2>6 DEF TrackInv
<1>3. QED
  BY <1>1, <1>2

\* The bundle that the loop checks is still the same.
LEMMA MonitorKept ==
  ASSUME TrackerTypes, MonitorInv, ChainGrows, UNCHANGED <<monitor, latest_block>>,
         unanswered \subseteq unanswered',
         \A b \in Tracked : tracked_bundles[b] # Absent =>
           tracked_bundles'[b] = tracked_bundles[b]
  PROVE  MonitorInv'
<1>1. monitor.ids \subseteq Tracked /\ monitor.bundle \in Tracked \cup {Absent}
      /\ monitor.block \in Nat
  BY DEF TrackerTypes, Monitors
<1>2. Height \in Nat /\ Height' \in Nat /\ Height <= Height'
      /\ latest_block \in Nat
  BY DEF ChainGrows, TrackerTypes
<1>3. latest_block' <= Height'
  BY <1>2 DEF MonitorInv
<1>4. ASSUME monitor.bundle # Absent
      PROVE  LET b == monitor.bundle
                 t == tracked_bundles'[b]
             IN /\ t # Absent /\ t.status = "Pending"
                /\ monitor.block >= t.target_block
                /\ monitor.block > t.target_block => monitor.block <= Height' + 1
                /\ b \notin unanswered' =>
                     \A n \in DOMAIN chain' :
                       n >= t.target_block /\ n < monitor.block => ~Whole(b, n)'
  <2>1. PICK b \in Tracked, k \in Nat : b = monitor.bundle /\ k = monitor.block
    BY <1>1, <1>4
  <2>2. PICK t : t = tracked_bundles[b]
    OBVIOUS
  <2>3. /\ t # Absent /\ t.status = "Pending"
        /\ k >= t.target_block
        /\ k > t.target_block => k <= Height + 1
        /\ b \notin unanswered =>
             \A n \in DOMAIN chain : n >= t.target_block /\ n < k => ~Whole(b, n)
    BY <1>4, <2>1, <2>2 DEF MonitorInv
  <2>4. t \in Tracks /\ tracked_bundles'[b] = t /\ t.target_block \in Nat
    BY <2>2, <2>3 DEF TrackerTypes, Tracks
  <2>5. ASSUME b \notin unanswered', NEW n \in DOMAIN chain',
               n >= t.target_block, n < k
        PROVE  ~Whole(b, n)'
    <3>1. n \in Nat
      BY DEF ChainGrows
    <3>2. n \in DOMAIN chain
      BY <1>2, <2>1, <2>3, <2>4, <2>5, <3>1 DEF ChainGrows
    <3>3. ~Whole(b, n)
      BY <2>3, <2>5, <3>2
    <3>4. QED
      BY <3>2, <3>3 DEF ChainGrows, Whole
  <2>6. k > t.target_block => k <= Height' + 1
    BY <1>2, <2>1, <2>3, <2>4
  <2>7. QED
    BY <2>1, <2>3, <2>4, <2>5, <2>6
<1>5. \A b \in monitor.ids : tracked_bundles'[b] # Absent
  BY <1>1 DEF MonitorInv
<1>6. monitor.at = "tick" => monitor.ids = {} /\ monitor.bundle = Absent
  BY DEF MonitorInv
<1>7. QED
  BY <1>3, <1>4, <1>5, <1>6 DEF MonitorInv

\* One bundle gets a new track (tracked_bundles.insert).
LEMMA TrackChanged ==
  ASSUME TrackerTypes, NEW b \in Tracked, NEW t \in Tracks,
         tracked_bundles' = [tracked_bundles EXCEPT ![b] = t]
  PROVE  /\ tracked_bundles' \in [Tracked -> Tracks \cup {Absent}]
         /\ tracked_bundles'[b] = t
         /\ \A c \in Tracked \ {b} : tracked_bundles'[c] = tracked_bundles[c]
BY DEF TrackerTypes

\* A step of the tracker, or of the world around it.
TrackerMove ==
  \/ \E T \in Blocks : Mine(T)
  \/ \E b \in Tracked : Age(b)
  \/ \E b \in Tracked, target \in Nat : TrackBundle(b, target)
  \/ MonitorStep
  \/ UNCHANGED trackerVars

\* What such a step leaves to the caller to rely on.
Relied ==
  /\ ChainGrows /\ tracks \subseteq tracks'
  /\ \A b \in Tracked : tracked_bundles'[b] # Absent =>
       \/ /\ tracked_bundles[b] # Absent
          /\ tracked_bundles'[b].target_block = tracked_bundles[b].target_block
       \/ b \notin tracks

\* A bundle that is not tracked is taken up (track_bundle).
LEMMA TrackBundleKeeps ==
  ASSUME FollowInv, NEW b \in Tracked, NEW target \in Nat,
         TrackBundle(b, target)
  PROVE  /\ FollowInv' /\ Relied
         /\ b \notin tracks /\ tracks' = tracks \cup {b}
         /\ tracked_bundles'[b] # Absent
         /\ tracked_bundles'[b].target_block = target
<1> DEFINE t == [status |-> "Pending", target_block |-> target,
                 block_number |-> 0, last_check_block |-> 0]
<1>1. TrackerTypes /\ MonitorInv /\ \A c \in Tracked : TrackInv(c)
  BY DEF FollowInv
<1>2. /\ t \in Tracks /\ t.target_block = target /\ t.status = "Pending"
      /\ t.last_check_block = 0
  BY DEF Tracks
<1>3. tracked_bundles' = [tracked_bundles EXCEPT ![b] = t]
  BY DEF TrackBundle
<1> HIDE DEF t
<1>4. /\ tracked_bundles' \in [Tracked -> Tracks \cup {Absent}]
      /\ tracked_bundles'[b] = t
      /\ \A c \in Tracked \ {b} : tracked_bundles'[c] = tracked_bundles[c]
  BY <1>1, <1>2, <1>3, TrackChanged
<1>5. /\ b \notin tracks /\ tracks' = tracks \cup {b} /\ monitor.bundle = Absent
      /\ UNCHANGED <<chain, latest_block, monitor, aged, unanswered>>
  BY DEF TrackBundle, Unlocked
<1>6. ChainGrows
  BY <1>1, <1>5, NotMined
<1>7. IsFiniteSet(tracks')
  BY <1>1, <1>5, FS_AddElement DEF TrackerTypes
<1>8. Height' = Height
  BY <1>5 DEF Height
<1>9. TrackerTypes'
  BY <1>1, <1>4, <1>5, <1>7, <1>8 DEF TrackerTypes
<1>10. TrackInv(b)'
  <2>1. \A n \in DOMAIN chain' : n \in Nat \ {0}
    BY <1>6 DEF ChainGrows
  <2>2. ASSUME NEW n \in DOMAIN chain', n <= 0 PROVE FALSE
    BY <2>1, <2>2
  <2>3. t # Absent /\ 0 <= Height'
    BY <1>2, <1>6, TrackerValues DEF ChainGrows
  <2>4. QED
    BY <1>2, <1>4, <1>5, <2>2, <2>3 DEF TrackInv
<1>11. ASSUME NEW c \in Tracked, c # b PROVE TrackInv(c)'
  BY <1>1, <1>4, <1>5, <1>6, <1>11, TrackKept
<1>12. MonitorInv'
  <2>1. monitor.ids \subseteq Tracked
    BY <1>1 DEF TrackerTypes, Monitors
  <2>2. \A c \in monitor.ids : tracked_bundles'[c] # Absent
    BY <1>1, <1>2, <1>4, <2>1, TrackerValues DEF MonitorInv
  <2>3. QED
    BY <1>1, <1>5, <1>8, <2>2 DEF MonitorInv
<1>13. Relied
  BY <1>4, <1>5, <1>6 DEF Relied
<1>14. QED
  BY <1>2, <1>4, <1>5, <1>9, <1>10, <1>11, <1>12, <1>13, TrackerValues
     DEF FollowInv

\* A check of a bundle starts at the block after the last one it saw
\* (check_bundle_inclusion).
LEMMA BeginCheckKeeps ==
  ASSUME FollowInv, NEW b \in Tracked, BeginCheck(b)
  PROVE  FollowInv' /\ Relied
<1>1. TrackerTypes /\ MonitorInv /\ \A c \in Tracked : TrackInv(c)
  BY DEF FollowInv
<1>2. /\ monitor.at = "check" /\ monitor.bundle = Absent /\ b \in monitor.ids
      /\ tracked_bundles[b].status = "Pending"
      /\ UNCHANGED <<chain, latest_block, aged, unanswered, tracks>>
  BY DEF BeginCheck, Unlocked
<1>3. ChainGrows /\ Height' = Height
  BY <1>1, <1>2, NotMined DEF Height
<1>4. PICK t \in Tracks : t = tracked_bundles[b]
  BY <1>1, <1>2 DEF MonitorInv, TrackerTypes
<1>5. monitor \in Monitors
  BY <1>1 DEF TrackerTypes
<1>6. CASE /\ tracked_bundles' =
                [tracked_bundles EXCEPT ![b].status = "Expired"]
           /\ monitor' = [monitor EXCEPT !.ids = @ \ {b}]
  <2> DEFINE new == [t EXCEPT !.status = "Expired"]
  <2>1. /\ new \in Tracks /\ new.status = "Expired"
        /\ new.last_check_block = t.last_check_block
        /\ new.target_block = t.target_block
    BY DEF Tracks
  <2>2. tracked_bundles' = [tracked_bundles EXCEPT ![b] = new]
    BY <1>1, <1>4, <1>6 DEF TrackerTypes
  <2> HIDE DEF new
  <2>3. /\ tracked_bundles' \in [Tracked -> Tracks \cup {Absent}]
        /\ tracked_bundles'[b] = new
        /\ \A c \in Tracked \ {b} : tracked_bundles'[c] = tracked_bundles[c]
    BY <1>1, <2>1, <2>2, TrackChanged
  <2>4. /\ monitor' \in Monitors /\ monitor'.at = "check"
        /\ monitor'.bundle = Absent /\ monitor'.ids = monitor.ids \ {b}
    BY <1>2, <1>5, <1>6 DEF Monitors
  <2>5. TrackerTypes'
    BY <1>1, <1>2, <1>3, <2>3, <2>4 DEF TrackerTypes
  <2>6. ASSUME NEW c \in Tracked, c # b PROVE TrackInv(c)'
    BY <1>1, <1>2, <1>3, <2>3, <2>6, TrackKept
  <2>7. TrackInv(b)'
    <3>1. /\ b \in tracks /\ t.last_check_block <= Height
      BY <1>1, <1>4, TrackerValues DEF TrackInv
    <3>2. QED
      BY <1>2, <1>3, <2>1, <2>3, <3>1 DEF TrackInv
  <2>8. MonitorInv'
    <3>1. \A c \in monitor'.ids : tracked_bundles'[c] # Absent
      BY <1>1, <1>5, <2>3, <2>4 DEF MonitorInv, Monitors
    <3>2. QED
      BY <1>1, <1>2, <1>3, <2>4, <3>1 DEF MonitorInv
  <2>9. Relied
    BY <1>2, <1>3, <1>4, <2>1, <2>3, TrackerValues DEF Relied
  <2>10. QED
    BY <2>5, <2>6, <2>7, <2>8, <2>9 DEF FollowInv
<1>7. CASE /\ monitor' = [monitor EXCEPT !.ids = @ \ {b}, !.bundle = b,
                                         !.block = StartBlock(tracked_bundles[b])]
           /\ UNCHANGED tracked_bundles
  <2>1. PICK k : k = StartBlock(t)
    OBVIOUS
  <2>2. /\ t.last_check_block \in Nat /\ t.target_block \in Nat
        /\ Height \in Nat /\ DOMAIN chain \subseteq Nat
    BY <1>1 DEF Tracks, TrackerTypes
  <2>3. /\ b \in tracks /\ t.last_check_block <= Height /\ t.status = "Pending"
        /\ t # Absent
        /\ b \notin unanswered =>
             \A n \in DOMAIN chain :
               n >= t.target_block /\ n <= t.last_check_block => ~Whole(b, n)
    BY <1>1, <1>2, <1>4, TrackerValues DEF TrackInv
  <2>4. /\ k \in Nat /\ k >= t.target_block
        /\ k > t.target_block => k = t.last_check_block
    BY <2>1, <2>2 DEF StartBlock
  <2>5. /\ monitor' \in Monitors /\ monitor'.at = "check"
        /\ monitor'.bundle = b /\ monitor'.ids = monitor.ids \ {b}
        /\ monitor'.block = k
    BY <1>2, <1>4, <1>5, <1>7, <2>1, <2>4 DEF Monitors
  <2>6. TrackerTypes'
    BY <1>1, <1>2, <1>3, <1>7, <2>5 DEF TrackerTypes
  <2>7. ASSUME NEW c \in Tracked PROVE TrackInv(c)'
    BY <1>1, <1>2, <1>3, <1>7, TrackKept
  <2>8. MonitorInv'
    <3>1. \A c \in monitor'.ids : tracked_bundles'[c] # Absent
      BY <1>1, <1>5, <1>7, <2>5 DEF MonitorInv
    <3>2. ASSUME b \notin unanswered, NEW n \in DOMAIN chain,
                 n >= t.target_block, n < k
          PROVE  ~Whole(b, n)
      BY <2>2, <2>3, <2>4, <3>2
    <3>3. k > t.target_block => k <= Height + 1
      BY <2>2, <2>3, <2>4
    <3>4. /\ b \notin unanswered' => \A n \in DOMAIN chain' :
               n >= t.target_block /\ n < k => ~Whole(b, n)'
      BY <1>2, <3>2 DEF Whole
    <3>5. latest_block' <= Height'
      BY <1>1, <1>2, <1>3 DEF MonitorInv
    <3>6. tracked_bundles'[b] = t
      BY <1>4, <1>7
    <3>7. QED
      BY <1>3, <2>3, <2>4, <2>5, <3>1, <3>3, <3>4, <3>5, <3>6 DEF MonitorInv
  <2>9. Relied
    BY <1>2, <1>3, <1>7 DEF Relied
  <2>10. QED
    BY <2>6, <2>7, <2>8, <2>9 DEF FollowInv
<1>8. QED
  BY <1>6, <1>7 DEF BeginCheck

\* Blocks are mined around the tracker.
LEMMA MineKeeps ==
  ASSUME FollowInv, NEW T \in Blocks, Mine(T) PROVE FollowInv' /\ Relied
<1>1. TrackerTypes /\ MonitorInv /\ \A c \in Tracked : TrackInv(c)
  BY DEF FollowInv
<1>2. ChainGrows
  BY <1>1, Mined
<1>3. UNCHANGED <<tracked_bundles, latest_block, monitor, aged, unanswered, tracks>>
  BY DEF Mine
<1>4. TrackerTypes'
  BY <1>1, <1>2, <1>3 DEF TrackerTypes, ChainGrows
<1>5. ASSUME NEW c \in Tracked PROVE TrackInv(c)'
  BY <1>1, <1>2, <1>3, TrackKept
<1>6. MonitorInv'
  BY <1>1, <1>2, <1>3, MonitorKept
<1>7. Relied
  BY <1>2, <1>3 DEF Relied
<1>8. QED
  BY <1>4, <1>5, <1>6, <1>7 DEF FollowInv

\* A step that leaves the tracker's own state alone, but for the age of bundles.
LEMMA OutsideKeeps ==
  ASSUME FollowInv, aged' \subseteq Tracked,
         UNCHANGED <<chain, tracked_bundles, latest_block, monitor, unanswered,
                     tracks>>
  PROVE  FollowInv' /\ Relied
<1>1. TrackerTypes /\ MonitorInv /\ \A c \in Tracked : TrackInv(c)
  BY DEF FollowInv
<1>2. ChainGrows
  BY <1>1, NotMined
<1>3. TrackerTypes'
  BY <1>1, <1>2 DEF TrackerTypes, ChainGrows
<1>4. ASSUME NEW c \in Tracked PROVE TrackInv(c)'
  BY <1>1, <1>2, TrackKept
<1>5. MonitorInv'
  BY <1>1, <1>2, MonitorKept
<1>6. Relied
  BY <1>2 DEF Relied
<1>7. QED
  BY <1>3, <1>4, <1>5, <1>6 DEF FollowInv

\* A tick lists the bundles that are tracked (start_monitoring).
LEMMA TickKeeps ==
  ASSUME FollowInv, Tick PROVE FollowInv' /\ Relied
<1>1. TrackerTypes /\ MonitorInv /\ \A c \in Tracked : TrackInv(c)
  BY DEF FollowInv
<1>2. /\ monitor.at = "tick" /\ latest_block' \in {Height, latest_block}
      /\ UNCHANGED <<chain, tracked_bundles, aged, unanswered, tracks>>
  BY DEF Tick, LatestBlockNumber
<1>3. ChainGrows /\ Height' = Height
  BY <1>1, <1>2, NotMined DEF Height
<1>4. monitor \in Monitors /\ monitor.bundle = Absent
  BY <1>1, <1>2 DEF TrackerTypes, MonitorInv
<1>5. /\ monitor' \in Monitors /\ monitor'.at = "check"
      /\ monitor'.bundle = Absent
      /\ monitor'.ids = {b \in Tracked : tracked_bundles[b] # Absent}
  BY <1>4 DEF Tick, Monitors
<1>6. latest_block' \in Nat /\ latest_block' <= Height'
  BY <1>1, <1>2, <1>3 DEF TrackerTypes, MonitorInv
<1>7. TrackerTypes'
  BY <1>1, <1>2, <1>3, <1>5, <1>6 DEF TrackerTypes
<1>8. ASSUME NEW c \in Tracked PROVE TrackInv(c)'
  BY <1>1, <1>2, <1>3, TrackKept
<1>9. MonitorInv'
  BY <1>2, <1>5, <1>6 DEF MonitorInv
<1>10. Relied
  BY <1>2, <1>3 DEF Relied
<1>11. QED
  BY <1>7, <1>8, <1>9, <1>10 DEF FollowInv

\* The next block of the range is asked for (check_bundle_inclusion).
LEMMA NextBlock ==
  ASSUME FollowInv, ~Unlocked, monitor.block <= latest_block,
         monitor' = [monitor EXCEPT !.block = @ + 1],
         UNCHANGED <<chain, tracked_bundles, latest_block, aged, tracks>>,
         \/ UNCHANGED unanswered /\ ~BundleInBlock(monitor.bundle, monitor.block)
         \/ unanswered' = unanswered \cup {monitor.bundle}
  PROVE  FollowInv' /\ Relied
<1>1. TrackerTypes /\ MonitorInv /\ \A c \in Tracked : TrackInv(c)
  BY DEF FollowInv
<1>2. ChainGrows /\ Height' = Height
  BY <1>1, NotMined DEF Height
<1>3. monitor \in Monitors /\ monitor.bundle # Absent
  BY <1>1 DEF TrackerTypes, Unlocked
<1>4. PICK b \in Tracked, k \in Nat : b = monitor.bundle /\ k = monitor.block
  BY <1>3 DEF Monitors
<1>5. PICK t : t = tracked_bundles[b]
  OBVIOUS
<1>6. /\ t # Absent /\ t.status = "Pending" /\ k >= t.target_block
      /\ k > t.target_block => k <= Height + 1
      /\ b \notin unanswered =>
           \A n \in DOMAIN chain : n >= t.target_block /\ n < k => ~Whole(b, n)
  BY <1>1, <1>3, <1>4, <1>5 DEF MonitorInv
<1>7. /\ t \in Tracks /\ t.target_block \in Nat
      /\ Height \in Nat /\ latest_block \in Nat /\ latest_block <= Height
      /\ DOMAIN chain \subseteq Nat
  BY <1>1, <1>5, <1>6 DEF TrackerTypes, Tracks, MonitorInv
<1>8. /\ monitor' \in Monitors /\ monitor'.at = monitor.at
      /\ monitor'.bundle = b /\ monitor'.ids = monitor.ids
      /\ monitor'.block = k + 1
  BY <1>3, <1>4 DEF Monitors
<1>9. unanswered' \subseteq Tracked /\ unanswered \subseteq unanswered'
  BY <1>1, <1>4 DEF TrackerTypes
<1>10. TrackerTypes'
  BY <1>1, <1>2, <1>8, <1>9 DEF TrackerTypes
<1>11. ASSUME NEW c \in Tracked PROVE TrackInv(c)'
  BY <1>1, <1>2, <1>9, TrackKept
<1>12. ASSUME b \notin unanswered', NEW n \in DOMAIN chain,
              n >= t.target_block, n < k + 1
       PROVE  ~Whole(b, n)
  <2>1. b \notin unanswered /\ ~BundleInBlock(b, k)
    BY <1>4, <1>9, <1>12
  <2>2. CASE n = k
    BY <1>12, <2>1, <2>2 DEF BundleInBlock, Whole
  <2>3. CASE n # k
    BY <1>6, <1>7, <1>12, <2>1, <2>3
  <2>4. QED
    BY <2>2, <2>3
<1>13. MonitorInv'
  <2>1. k + 1 >= t.target_block /\ k + 1 <= Height' + 1
    BY <1>2, <1>4, <1>6, <1>7
  <2>2. \A c \in monitor'.ids : tracked_bundles'[c] # Absent
    BY <1>1, <1>8 DEF MonitorInv
  <2>3. b \notin unanswered' => \A n \in DOMAIN chain' :
             n >= t.target_block /\ n < k + 1 => ~Whole(b, n)'
    BY <1>12 DEF Whole
  <2>4. monitor'.at # "tick"
    BY <1>1, <1>3, <1>8 DEF MonitorInv
  <2>5. latest_block' <= Height'
    BY <1>2, <1>7
  <2>6. tracked_bundles'[b] = t
    BY <1>5
  <2>7. QED
    BY <1>6, <1>8, <2>1, <2>2, <2>3, <2>4, <2>5, <2>6 DEF MonitorInv
<1>14. Relied
  BY <1>2 DEF Relied
<1>15. QED
  BY <1>10, <1>11, <1>13, <1>14 DEF FollowInv

\* The check of a bundle ends with what is written down of it, found or not.
LEMMA CheckEnds ==
  ASSUME FollowInv, ~Unlocked, NEW t \in Tracks,
         tracked_bundles' = [tracked_bundles EXCEPT ![monitor.bundle] = t],
         t.target_block = tracked_bundles[monitor.bundle].target_block,
         t.last_check_block <= Height,
         t.status = "Included" =>
           /\ t.block_number >= t.target_block
           /\ BundleInBlock(monitor.bundle, t.block_number),
         t.status = "Pending" => t.last_check_block < monitor.block,
         monitor' = [monitor EXCEPT !.bundle = Absent, !.block = 0],
         UNCHANGED <<chain, latest_block, aged, unanswered, tracks>>
  PROVE  FollowInv' /\ Relied
<1>1. TrackerTypes /\ MonitorInv /\ \A c \in Tracked : TrackInv(c)
  BY DEF FollowInv
<1>2. ChainGrows /\ Height' = Height
  BY <1>1, NotMined DEF Height
<1>3. monitor \in Monitors /\ monitor.bundle # Absent
  BY <1>1 DEF TrackerTypes, Unlocked
<1>4. PICK b \in Tracked, k \in Nat : b = monitor.bundle /\ k = monitor.block
  BY <1>3 DEF Monitors
<1>5. PICK u : u = tracked_bundles[b]
  OBVIOUS
<1>6. /\ u # Absent /\ u.target_block = t.target_block
      /\ b \notin unanswered =>
           \A n \in DOMAIN chain : n >= u.target_block /\ n < k => ~Whole(b, n)
  BY <1>1, <1>3, <1>4, <1>5 DEF MonitorInv
<1>7. /\ tracked_bundles' \in [Tracked -> Tracks \cup {Absent}]
      /\ tracked_bundles'[b] = t
      /\ \A c \in Tracked \ {b} : tracked_bundles'[c] = tracked_bundles[c]
  BY <1>1, <1>4, TrackChanged
<1>8. /\ monitor' \in Monitors /\ monitor'.at = monitor.at
      /\ monitor'.bundle = Absent /\ monitor'.ids = monitor.ids
  BY <1>3 DEF Monitors
<1>9. TrackerTypes'
  BY <1>1, <1>2, <1>7, <1>8 DEF TrackerTypes
<1>10. ASSUME NEW c \in Tracked, c # b PROVE TrackInv(c)'
  BY <1>1, <1>2, <1>7, <1>10, TrackKept
<1>11. TrackInv(b)'
  <2>1. b \in tracks'
    BY <1>1, <1>5, <1>6 DEF TrackInv
  <2>2. t.status = "Included" =>
          /\ t.block_number \in DOMAIN chain' /\ t.block_number >= t.target_block
          /\ Whole(b, t.block_number)'
    BY <1>4 DEF BundleInBlock, Whole
  <2>3. ASSUME t.status = "Pending", b \notin unanswered',
               NEW n \in DOMAIN chain', n >= t.target_block,
               n <= t.last_check_block
        PROVE  ~Whole(b, n)'
    <3>1. n \in Nat /\ n < k
      BY <1>1, <1>4, <2>3 DEF TrackerTypes, Tracks
    <3>2. ~Whole(b, n)
      BY <1>6, <2>3, <3>1
    <3>3. QED
      BY <3>2 DEF Whole
  <2>4. t.last_check_block <= Height'
    BY <1>2
  <2>5. QED
    BY <1>7, <2>1, <2>2, <2>3, <2>4 DEF TrackInv
<1>12. MonitorInv'
  <2>1. \A c \in monitor'.ids : tracked_bundles'[c] # Absent
    BY <1>1, <1>3, <1>7, <1>8, TrackerValues DEF MonitorInv, Monitors
  <2>2. monitor'.at # "tick"
    BY <1>1, <1>3, <1>8 DEF MonitorInv
  <2>3. QED
    BY <1>1, <1>2, <1>8, <2>1, <2>2 DEF MonitorInv
<1>13. Relied
  BY <1>2, <1>4, <1>5, <1>6, <1>7 DEF Relied
<1>14. QED
  BY <1>9, <1>10, <1>11, <1>12, <1>13 DEF FollowInv

\* The bundle under check is tracked and pending: check_bundle_inclusion holds
\* the lock of tracked_bundles.
LEMMA UnderCheck ==
  ASSUME FollowInv, ~Unlocked
  PROVE  /\ monitor.bundle \in Tracked /\ monitor.block \in Nat
         /\ tracked_bundles[monitor.bundle] \in Tracks
         /\ tracked_bundles[monitor.bundle].status = "Pending"
         /\ tracked_bundles[monitor.bundle].last_check_block <= Height
         /\ monitor.block >= tracked_bundles[monitor.bundle].target_block
         /\ latest_block \in Nat /\ latest_block <= Height /\ Height \in Nat
<1>1. monitor.bundle \in Tracked /\ monitor.block \in Nat
  BY DEF FollowInv, TrackerTypes, Monitors, Unlocked
<1>2. PICK b \in Tracked : b = monitor.bundle
  BY <1>1
<1>3. /\ tracked_bundles[b] # Absent /\ tracked_bundles[b].status = "Pending"
      /\ monitor.block >= tracked_bundles[b].target_block
  BY <1>2 DEF FollowInv, MonitorInv, Unlocked
<1>4. tracked_bundles[b] \in Tracks
  BY <1>3 DEF FollowInv, TrackerTypes
<1>5. tracked_bundles[b].last_check_block <= Height
  BY <1>3 DEF FollowInv, TrackInv
<1>6. latest_block \in Nat /\ latest_block <= Height /\ Height \in Nat
  BY DEF FollowInv, TrackerTypes, MonitorInv
<1>7. QED
  BY <1>1, <1>2, <1>3, <1>4, <1>5, <1>6

\* A block was read (check_block_for_bundle).
LEMMA CheckBlockKeeps ==
  ASSUME FollowInv, CheckBlock PROVE FollowInv' /\ Relied
<1> DEFINE b == monitor.bundle
           n == monitor.block
           t == tracked_bundles[b]
<1>1. /\ ~Unlocked /\ n <= latest_block
      /\ UNCHANGED <<chain, latest_block, aged, unanswered, tracks>>
  BY DEF CheckBlock
<1>2. /\ b \in Tracked /\ n \in Nat /\ t \in Tracks /\ t.last_check_block <= Height
      /\ n >= t.target_block
  BY <1>1, UnderCheck
<1>3. CASE /\ BundleInBlock(b, n)
           /\ tracked_bundles' = [tracked_bundles EXCEPT
                ![b].status = "Included", ![b].block_number = n]
           /\ monitor' = [monitor EXCEPT !.bundle = Absent, !.block = 0]
  <2> DEFINE new == [t EXCEPT !.status = "Included", !.block_number = n]
  <2>1. /\ new \in Tracks /\ new.status = "Included" /\ new.block_number = n
        /\ new.target_block = t.target_block
        /\ new.last_check_block = t.last_check_block
    BY <1>2 DEF Tracks
  <2>2. tracked_bundles' = [tracked_bundles EXCEPT ![b] = new]
    BY <1>2, <1>3 DEF FollowInv, TrackerTypes
  <2> HIDE DEF new
  <2>3. /\ new.last_check_block <= Height
        /\ new.status = "Included" =>
             /\ new.block_number >= new.target_block
             /\ BundleInBlock(b, new.block_number)
        /\ new.status # "Pending"
    BY <1>2, <1>3, <2>1
  <2>4. QED
    BY <1>1, <1>3, <2>1, <2>2, <2>3, CheckEnds
<1>4. CASE /\ ~BundleInBlock(b, n)
           /\ monitor' = [monitor EXCEPT !.block = n + 1]
           /\ UNCHANGED tracked_bundles
  <2>1. monitor' = [monitor EXCEPT !.block = @ + 1]
    BY <1>4
  <2>2. QED
    BY <1>1, <1>4, <2>1, NextBlock
<1>5. QED
  BY <1>3, <1>4 DEF CheckBlock

\* A request for a block fails, and the loop goes on.
LEMMA CheckBlockFailsKeeps ==
  ASSUME FollowInv, CheckBlockFails PROVE FollowInv' /\ Relied
BY NextBlock DEF CheckBlockFails

\* The bundle was in no block of the range.
LEMMA EndCheckKeeps ==
  ASSUME FollowInv, EndCheck PROVE FollowInv' /\ Relied
<1> DEFINE b == monitor.bundle
           t == tracked_bundles[b]
           new == [t EXCEPT !.last_check_block = latest_block]
<1>1. /\ ~Unlocked /\ monitor.block > latest_block
      /\ monitor' = [monitor EXCEPT !.bundle = Absent, !.block = 0]
      /\ UNCHANGED <<chain, latest_block, aged, unanswered, tracks>>
  BY DEF EndCheck
<1>2. /\ b \in Tracked /\ t \in Tracks /\ t.status = "Pending"
      /\ latest_block \in Nat /\ latest_block <= Height /\ monitor.block \in Nat
  BY <1>1, UnderCheck
<1>3. /\ new \in Tracks /\ new.status = "Pending"
      /\ new.target_block = t.target_block /\ new.last_check_block = latest_block
  BY <1>2 DEF Tracks
<1>4. tracked_bundles' = [tracked_bundles EXCEPT ![b] = new]
  BY <1>2 DEF EndCheck, FollowInv, TrackerTypes
<1> HIDE DEF new
<1>5. /\ new.last_check_block <= Height /\ new.status # "Included"
      /\ new.last_check_block < monitor.block
  BY <1>1, <1>2, <1>3
<1>6. QED
  BY <1>1, <1>3, <1>4, <1>5, CheckEnds

\* The end of a tick lets go what is found, expired or old.
LEMMA LetGoKeeps ==
  ASSUME FollowInv, CleanupExpiredBundles PROVE FollowInv' /\ Relied
<1>1. TrackerTypes /\ MonitorInv /\ \A c \in Tracked : TrackInv(c)
  BY DEF FollowInv
<1>2. /\ monitor' = AtTick
      /\ UNCHANGED <<chain, latest_block, aged, unanswered, tracks>>
  BY DEF CleanupExpiredBundles
<1>3. ASSUME NEW c \in Tracked
      PROVE  tracked_bundles'[c] \in {tracked_bundles[c], Absent}
  BY DEF CleanupExpiredBundles
<1>4. tracked_bundles' \in [Tracked -> Tracks \cup {Absent}]
  BY <1>1 DEF CleanupExpiredBundles, TrackerTypes
<1>5. ChainGrows /\ Height' = Height
  BY <1>1, <1>2, NotMined DEF Height
<1>6. /\ monitor' \in Monitors /\ monitor'.at = "tick" /\ monitor'.ids = {}
      /\ monitor'.bundle = Absent
  BY <1>2 DEF AtTick, Monitors
<1>7. TrackerTypes'
  BY <1>1, <1>2, <1>4, <1>5, <1>6 DEF TrackerTypes
<1>8. ASSUME NEW c \in Tracked PROVE TrackInv(c)'
  BY <1>1, <1>2, <1>3, <1>5, TrackKept
<1>9. MonitorInv'
  BY <1>1, <1>2, <1>5, <1>6 DEF MonitorInv
<1>10. Relied
  BY <1>2, <1>3, <1>5 DEF Relied
<1>11. QED
  BY <1>7, <1>8, <1>9, <1>10 DEF FollowInv

\* Every step of the tracker keeps what it knows of the chain.
LEMMA TrackerStep ==
  ASSUME FollowInv, TrackerMove PROVE FollowInv' /\ Relied
<1>1. ASSUME NEW T \in Blocks, Mine(T) PROVE FollowInv' /\ Relied
  BY <1>1, MineKeeps
<1>2. ASSUME NEW b \in Tracked, Age(b) PROVE FollowInv' /\ Relied
  BY <1>2, OutsideKeeps DEF Age, FollowInv, TrackerTypes
<1>3. ASSUME NEW b \in Tracked, NEW target \in Nat, TrackBundle(b, target)
      PROVE  FollowInv' /\ Relied
  BY <1>3, TrackBundleKeeps
<1>4. ASSUME MonitorStep PROVE FollowInv' /\ Relied
  BY <1>4, TickKeeps, BeginCheckKeeps, CheckBlockKeeps, CheckBlockFailsKeeps,
     EndCheckKeeps, LetGoKeeps DEF MonitorStep
<1>5. ASSUME UNCHANGED trackerVars PROVE FollowInv' /\ Relied
  BY <1>5, OutsideKeeps DEF trackerVars, FollowInv, TrackerTypes
<1>6. QED
  BY <1>1, <1>2, <1>3, <1>4, <1>5 DEF TrackerMove

\* The dry run has a bundle to submit.
LEMMA SomeBundles == Len(DryBundles) \in Nat \ {0} /\ DryBundles \in Seq(Tracked)
BY DryRunConstants DEF DryRunConstants

\* The bundles of the dry run are tracked ones.
LEMMA BundleAt ==
  ASSUME NEW i \in Nat \ {0}, i <= Len(DryBundles)
  PROVE  DryBundles[i] \in Tracked
BY DryRunConstants DEF DryRunConstants

\* The report stays what it is while the tracker goes on without the dry run:
\* a bundle that was let go is not tracked again (track_bundle is called once
\* for each, in submit_and_track_bundle).
LEMMA ReportStays ==
  ASSUME FollowInv, FollowInv', ReportInv, Relied, UNCHANGED dryVars
  PROVE  ReportInv'
<1>1. UNCHANGED <<dry, inclusion_results, dry_metrics>>
  BY DEF dryVars
<1>2. Found' = Found /\ HandedOver' = HandedOver
  BY <1>1 DEF Found, HandedOver
<1>3. ReportTypes /\ ReportTypes'
  BY <1>1 DEF ReportInv, ReportTypes
<1>4. /\ dry_metrics'.bundles_included = Cardinality(Found')
      /\ dry_metrics'.bundles_submitted = Cardinality(HandedOver')
      /\ Found' \subseteq HandedOver' /\ HandedOver' \subseteq tracks'
  BY <1>1, <1>2 DEF ReportInv, Relied
<1>5. ASSUME NEW b \in Tracked, tracked_bundles'[b] # Absent
      PROVE  inclusion_results'[b].target_block
               <= tracked_bundles'[b].target_block
  <2>1. PICK n \in Nat : n = inclusion_results[b].target_block
    BY <1>3 DEF ReportTypes
  <2>2. tracked_bundles'[b].target_block \in Nat
    BY <1>5 DEF FollowInv, TrackerTypes, Tracks
  <2>3. CASE /\ tracked_bundles[b] # Absent
             /\ tracked_bundles'[b].target_block = tracked_bundles[b].target_block
    BY <1>1, <2>3 DEF ReportInv
  <2>4. CASE b \notin tracks
    <3>1. b \notin HandedOver
      BY <2>4 DEF ReportInv
    <3>2. n = 0
      BY <2>1, <3>1 DEF HandedOver
    <3>3. QED
      BY <1>1, <2>1, <2>2, <3>2
  <2>5. QED
    BY <1>5, <2>3, <2>4 DEF Relied
<1>6. ASSUME NEW b \in Found'
      PROVE  Seen(b)'
  <2>1. PICK n : n = inclusion_results[b].actual_block
    OBVIOUS
  <2>2. /\ n \in DOMAIN chain /\ Whole(b, n)
        /\ n >= inclusion_results[b].target_block
    BY <1>2, <1>6, <2>1 DEF ReportInv, Seen
  <2>3. n \in DOMAIN chain' /\ chain'[n] = chain[n]
    BY <2>2 DEF Relied, ChainGrows
  <2>4. QED
    BY <1>1, <2>1, <2>2, <2>3 DEF Whole, Seen
<1>7. LostToTracker'
  <2>1. SUFFICES ASSUME dry'.at = "aborted", dry'.i <= Len(DryBundles),
                        dry_metrics'.bundles_submitted = Len(DryBundles)
                 PROVE  LET b == DryBundles[dry'.i] IN
                        b \in tracks' /\ tracked_bundles'[b] = Absent
    BY DEF LostToTracker
  <2>2. DryBundles[dry.i] \in Tracked
    BY <1>1, <1>3, <2>1, BundleAt DEF ReportTypes
  <2>3. PICK b \in Tracked : b = DryBundles[dry.i]
    BY <2>2
  <2>4. b \in tracks /\ tracked_bundles[b] = Absent
    BY <1>1, <2>1, <2>3 DEF ReportInv, LostToTracker
  <2>5. QED
    BY <1>1, <2>3, <2>4 DEF Relied
<1>8. /\ dry'.at = "idle" => dry'.i = 1 /\ dry_metrics'.bundles_submitted = 0
      /\ dry'.at = "submit" =>
           /\ dry_metrics'.bundles_submitted = dry'.i - 1
           /\ dry'.i <= Len(DryBundles) + 1
           /\ \A j \in 1..(dry'.i - 1) : DryBundles[j] \in HandedOver'
      /\ dry'.at = "wait" =>
           /\ dry'.i <= Len(DryBundles)
           /\ \A j \in 1..Len(DryBundles) : DryBundles[j] \in HandedOver'
  BY <1>1, <1>2 DEF ReportInv
<1>9. QED
  BY <1>3, <1>4, <1>5, <1>6, <1>7, <1>8 DEF ReportInv

\* The state of the dry run, as its steps read it.
LEMMA DryState ==
  ASSUME ReportInv
  PROVE  /\ dry.i \in Nat \ {0} /\ dry.round \in Nat
         /\ dry_metrics.bundles_submitted \in Nat
         /\ dry_metrics.bundles_included \in Nat
         /\ dry \in [at : {"idle", "submit", "wait", "done", "aborted"},
                     i : Nat \ {0}, round : Nat]
         /\ \A b \in Tracked : /\ inclusion_results[b].target_block \in Nat
                               /\ inclusion_results[b].actual_block \in Nat
BY DEF ReportInv, ReportTypes

\* A step of the dry run that leaves the results and the counts alone.
LEMMA DryMoves ==
  ASSUME FollowInv, ReportInv,
         UNCHANGED <<trackerVars, inclusion_results, dry_metrics.bundles_submitted,
                     dry_metrics.bundles_included>>,
         dry_metrics' \in [bundles_submitted : Nat, bundles_included : Nat,
                           ordered : Nat],
         dry' \in [at : {"submit", "wait", "done", "aborted"},
                   i : Nat \ {0}, round : Nat],
         dry'.at = "submit" => dry.at = "idle" /\ dry'.i = dry.i,
         dry'.at = "wait" =>
           /\ dry'.i <= Len(DryBundles)
           /\ dry.at = "wait" \/ (dry.at = "submit" /\ dry.i > Len(DryBundles)),
         dry'.at = "aborted" =>
           /\ dry'.i = dry.i /\ dry.i <= Len(DryBundles)
           /\ dry.at = "wait" => tracked_bundles[DryBundles[dry.i]] = Absent
           /\ dry.at \in {"idle", "submit", "wait"}
  PROVE  ReportInv'
<1>1. UNCHANGED <<chain, tracked_bundles, tracks, inclusion_results>>
      /\ dry_metrics'.bundles_submitted = dry_metrics.bundles_submitted
      /\ dry_metrics'.bundles_included = dry_metrics.bundles_included
  BY DEF trackerVars
<1>2. Found' = Found /\ HandedOver' = HandedOver
  BY <1>1 DEF Found, HandedOver
<1>3. ReportTypes'
  BY <1>1 DEF ReportInv, ReportTypes
<1>4. /\ dry_metrics'.bundles_included = Cardinality(Found')
      /\ dry_metrics'.bundles_submitted = Cardinality(HandedOver')
      /\ Found' \subseteq HandedOver' /\ HandedOver' \subseteq tracks'
  BY <1>1, <1>2 DEF ReportInv
<1>5. \A b \in Tracked : tracked_bundles'[b] # Absent =>
        inclusion_results'[b].target_block <= tracked_bundles'[b].target_block
  BY <1>1 DEF ReportInv
<1>6. ASSUME NEW b \in Found' PROVE Seen(b)'
  BY <1>1, <1>2 DEF ReportInv, Seen, Whole
<1>7. dry'.at # "idle"
  OBVIOUS
<1>8. dry'.at = "submit" =>
        /\ dry_metrics'.bundles_submitted = dry'.i - 1
        /\ dry'.i <= Len(DryBundles) + 1
        /\ \A j \in 1..(dry'.i - 1) : DryBundles[j] \in HandedOver'
  BY <1>1, SomeBundles DEF ReportInv
<1>9. dry'.at = "wait" =>
        /\ dry'.i <= Len(DryBundles)
        /\ \A j \in 1..Len(DryBundles) : DryBundles[j] \in HandedOver'
  <2>1. ASSUME dry.at = "submit", dry.i > Len(DryBundles),
               NEW j \in 1..Len(DryBundles)
        PROVE  DryBundles[j] \in HandedOver
    <3>1. j \in 1..(dry.i - 1)
      BY <2>1, SomeBundles, DryState
    <3>2. QED
      BY <2>1, <3>1 DEF ReportInv
  <2>2. dry.at = "wait" =>
          \A j \in 1..Len(DryBundles) : DryBundles[j] \in HandedOver
    BY DEF ReportInv
  <2>3. QED
    BY <1>2, <2>1, <2>2
<1>10. LostToTracker'
  <2>1. SUFFICES ASSUME dry'.at = "aborted", dry'.i <= Len(DryBundles),
                        dry_metrics'.bundles_submitted = Len(DryBundles)
                 PROVE  LET b == DryBundles[dry'.i] IN
                        b \in tracks' /\ tracked_bundles'[b] = Absent
    BY DEF LostToTracker
  <2>2. /\ dry'.i = dry.i /\ dry.i \in 1..Len(DryBundles)
        /\ dry_metrics.bundles_submitted = Len(DryBundles)
    BY <1>1, <2>1, SomeBundles, DryState
  <2>3. dry.at # "idle"
    BY <2>2, SomeBundles DEF ReportInv
  <2>4. dry.at # "submit"
    BY <2>2, SomeBundles DEF ReportInv
  <2>5. dry.at = "wait"
    BY <2>1, <2>3, <2>4
  <2>6. DryBundles[dry.i] \in tracks
    BY <2>2, <2>5 DEF ReportInv
  <2>7. QED
    BY <1>1, <2>1, <2>2, <2>5, <2>6
<1>11. QED
  BY <1>3, <1>4, <1>5, <1>6, <1>7, <1>8, <1>9, <1>10 DEF ReportInv

\* A bundle is handed over (submit_and_track_bundle): the tracker has it before
\* the report counts it.
LEMMA HandOver ==
  ASSUME FollowInv, ReportInv, NEW b \in Tracked, b = DryBundles[dry.i],
         dry.at = "submit", dry.i <= Len(DryBundles),
         TrackBundle(b, Height + 2),
         inclusion_results' =
           [inclusion_results EXCEPT ![b].target_block = Height + 2],
         dry_metrics' = [dry_metrics EXCEPT !.bundles_submitted = @ + 1],
         dry' = [dry EXCEPT !.i = @ + 1]
  PROVE  FollowInv' /\ ReportInv'
<1>1. PICK h \in Nat \ {0} : h = Height + 2
  BY DEF FollowInv, TrackerTypes
<1>2. /\ FollowInv' /\ Relied
      /\ b \notin tracks /\ tracks' = tracks \cup {b}
      /\ tracked_bundles'[b] # Absent
      /\ tracked_bundles'[b].target_block = h
  BY <1>1, TrackBundleKeeps
<1>3. PICK r \in [target_block : Nat, actual_block : Nat] :
        r = inclusion_results[b]
  BY DEF ReportInv, ReportTypes
<1> DEFINE new == [r EXCEPT !.target_block = h]
<1>4. /\ new \in [target_block : Nat, actual_block : Nat]
      /\ new.target_block = h /\ new.actual_block = r.actual_block
  OBVIOUS
<1>5. inclusion_results' = [inclusion_results EXCEPT ![b] = new]
  BY <1>1, <1>3 DEF ReportInv, ReportTypes
<1> HIDE DEF new
<1>6. /\ inclusion_results' \in [Tracked -> [target_block : Nat, actual_block : Nat]]
      /\ inclusion_results'[b] = new
      /\ \A c \in Tracked \ {b} : inclusion_results'[c] = inclusion_results[c]
  BY <1>4, <1>5, SMTT(30) DEF ReportInv, ReportTypes
<1>7. b \notin HandedOver /\ b \notin Found
  BY <1>2 DEF ReportInv
<1>8. r.actual_block = 0
  BY <1>3, <1>7 DEF Found
<1>9. HandedOver' = HandedOver \cup {b}
  BY <1>1, <1>4, <1>6 DEF HandedOver
<1>10. Found' = Found
  BY <1>4, <1>6, <1>7, <1>8 DEF Found
<1>11. dry \in [at : {"idle", "submit", "wait", "done", "aborted"},
               i : Nat \ {0}, round : Nat]
  BY DEF ReportInv, ReportTypes
<1>12. PICK m \in [bundles_submitted : Nat, bundles_included : Nat, ordered : Nat] :
         m = dry_metrics
  BY DEF ReportInv, ReportTypes
<1>13. /\ dry_metrics' \in [bundles_submitted : Nat, bundles_included : Nat,
                            ordered : Nat]
       /\ dry_metrics'.bundles_submitted = dry_metrics.bundles_submitted + 1
       /\ dry_metrics'.bundles_included = dry_metrics.bundles_included
  BY <1>12
<1>14. /\ dry' \in [at : {"idle", "submit", "wait", "done", "aborted"},
                    i : Nat \ {0}, round : Nat]
       /\ dry'.at = "submit" /\ dry'.i = dry.i + 1
  BY <1>11, SMTT(30)
<1>15. ReportTypes'
  BY <1>6, <1>13, <1>14 DEF ReportTypes
<1>16. /\ dry_metrics'.bundles_included = Cardinality(Found')
       /\ dry_metrics'.bundles_submitted = Cardinality(HandedOver')
  <2>1. IsFiniteSet(HandedOver)
    BY FS_Subset DEF ReportInv, FollowInv, TrackerTypes
  <2>2. Cardinality(HandedOver') = Cardinality(HandedOver) + 1
    BY <1>7, <1>9, <2>1, FS_AddElement
  <2>3. QED
    BY <1>10, <1>13, <2>2 DEF ReportInv
<1>17. Found' \subseteq HandedOver' /\ HandedOver' \subseteq tracks'
  BY <1>2, <1>9, <1>10 DEF ReportInv
<1>18. ASSUME NEW c \in Tracked, tracked_bundles'[c] # Absent
       PROVE  inclusion_results'[c].target_block
                <= tracked_bundles'[c].target_block
  <2>1. CASE c = b
    BY <1>1, <1>2, <1>4, <1>6, <2>1
  <2>2. CASE c # b
    <3>1. tracked_bundles'[c] = tracked_bundles[c]
      BY <2>2 DEF TrackBundle, FollowInv, TrackerTypes
    <3>2. QED
      BY <1>6, <1>18, <2>2, <3>1 DEF ReportInv
  <2>3. QED
    BY <2>1, <2>2
<1>19. ASSUME NEW c \in Found' PROVE Seen(c)'
  <2>1. c \in Found /\ c # b
    BY <1>7, <1>10, <1>19
  <2>2. inclusion_results'[c] = inclusion_results[c] /\ UNCHANGED chain
    BY <1>6, <2>1 DEF TrackBundle, Found
  <2>3. QED
    BY <2>1, <2>2 DEF ReportInv, Seen, Whole
<1>20. /\ dry_metrics'.bundles_submitted = dry'.i - 1
       /\ dry'.i <= Len(DryBundles) + 1
  <2>1. /\ dry_metrics.bundles_submitted = dry.i - 1
        /\ dry.i \in Nat /\ Len(DryBundles) \in Nat
    BY SomeBundles, DryState DEF ReportInv
  <2>2. PICK k \in Nat, l \in Nat : k = dry.i /\ l = Len(DryBundles)
    BY ONLY <2>1
  <2>3. k <= l
    BY <2>2, DryState
  <2>4. dry'.i = k + 1
    BY ONLY <1>14, <2>2
  <2>5. dry_metrics'.bundles_submitted = k - 1 + 1
    BY ONLY <1>13, <2>1, <2>2
  <2>6. k - 1 + 1 = (k + 1) - 1 /\ k + 1 <= l + 1
    BY ONLY <2>3, k \in Nat, l \in Nat
  <2>7. QED
    BY ONLY <2>2, <2>4, <2>5, <2>6
<1>21. ASSUME NEW j \in 1..(dry'.i - 1) PROVE DryBundles[j] \in HandedOver'
  <2>1. j = dry.i \/ j \in 1..(dry.i - 1)
    BY <1>11, <1>14
  <2>2. j \in 1..(dry.i - 1) => DryBundles[j] \in HandedOver
    BY DEF ReportInv
  <2>3. QED
    BY <1>9, <2>1, <2>2
<1>22. LostToTracker'
  BY <1>14 DEF LostToTracker
<1>23. ReportInv'
  BY <1>14, <1>15, <1>16, <1>17, <1>18, <1>19, <1>20, <1>21, <1>22
     DEF ReportInv
<1>24. QED
  BY <1>2, <1>23

\* A bundle is seen in a block (wait_for_inclusions), once: its result is
\* empty before.
LEMMA FindsBundle ==
  ASSUME FollowInv, ReportInv, NEW b \in Tracked, b = DryBundles[dry.i],
         dry.at = "wait", inclusion_results[b].actual_block = 0,
         tracked_bundles[b] # Absent, tracked_bundles[b].status = "Included",
         inclusion_results' = [inclusion_results EXCEPT
           ![b].actual_block = tracked_bundles[b].block_number],
         dry_metrics' = [dry_metrics EXCEPT !.bundles_included = @ + 1],
         dry' \in [at : {"wait"}, i : Nat \ {0}, round : Nat],
         dry'.i <= Len(DryBundles),
         UNCHANGED trackerVars
  PROVE  ReportInv'
<1>1. UNCHANGED <<chain, tracked_bundles, tracks>>
  BY DEF trackerVars
<1>2. PICK t \in Tracks : t = tracked_bundles[b]
  BY DEF FollowInv, TrackerTypes
<1>3. PICK n : n = t.block_number
  OBVIOUS
<1>4. /\ n \in DOMAIN chain /\ n >= t.target_block /\ Whole(b, n)
      /\ t.target_block \in Nat
  BY <1>2, <1>3 DEF FollowInv, TrackInv, Tracks
<1>5. n \in Nat /\ n > 0
  BY <1>4 DEF FollowInv, TrackerTypes
<1>6. PICK r \in [target_block : Nat, actual_block : Nat] :
        r = inclusion_results[b]
  BY DEF ReportInv, ReportTypes
<1> DEFINE new == [r EXCEPT !.actual_block = n]
<1>7. /\ new \in [target_block : Nat, actual_block : Nat]
      /\ new.target_block = r.target_block /\ new.actual_block = n
  BY <1>5
<1>8. inclusion_results' = [inclusion_results EXCEPT ![b] = new]
  BY <1>2, <1>3, <1>6 DEF ReportInv, ReportTypes
<1> HIDE DEF new
<1>9. /\ inclusion_results' \in [Tracked -> [target_block : Nat, actual_block : Nat]]
      /\ inclusion_results'[b] = new
      /\ \A c \in Tracked \ {b} : inclusion_results'[c] = inclusion_results[c]
  BY <1>7, <1>8, SMTT(30) DEF ReportInv, ReportTypes
<1>10. b \in HandedOver
  <2>1. dry.i \in 1..Len(DryBundles)
    BY DryState, SomeBundles DEF ReportInv
  <2>2. QED
    BY <2>1 DEF ReportInv
<1>11. HandedOver' = HandedOver
  BY <1>6, <1>7, <1>9 DEF HandedOver
<1>12. b \notin Found /\ Found' = Found \cup {b}
  BY <1>5, <1>7, <1>9 DEF Found
<1>13. dry_metrics \in [bundles_submitted : Nat, bundles_included : Nat,
                        ordered : Nat]
  BY DEF ReportInv, ReportTypes
<1>14. /\ dry_metrics' \in [bundles_submitted : Nat, bundles_included : Nat,
                            ordered : Nat]
       /\ dry_metrics'.bundles_included = dry_metrics.bundles_included + 1
       /\ dry_metrics'.bundles_submitted = dry_metrics.bundles_submitted
  BY <1>13
<1>15. ReportTypes'
  BY <1>9, <1>14 DEF ReportTypes
<1>16. /\ dry_metrics'.bundles_included = Cardinality(Found')
       /\ dry_metrics'.bundles_submitted = Cardinality(HandedOver')
  <2>1. IsFiniteSet(Found)
    <3>1. Found \subseteq tracks
      BY DEF ReportInv
    <3>2. QED
      BY <3>1, FS_Subset DEF FollowInv, TrackerTypes
  <2>2. Cardinality(Found') = Cardinality(Found) + 1
    BY <1>12, <2>1, FS_AddElement
  <2>3. QED
    BY <1>11, <1>14, <2>2 DEF ReportInv
<1>17. Found' \subseteq HandedOver' /\ HandedOver' \subseteq tracks'
  BY <1>1, <1>10, <1>11, <1>12 DEF ReportInv
<1>18. ASSUME NEW c \in Tracked, tracked_bundles'[c] # Absent
       PROVE  inclusion_results'[c].target_block
                <= tracked_bundles'[c].target_block
  <2>1. inclusion_results'[c].target_block = inclusion_results[c].target_block
    BY <1>6, <1>7, <1>9
  <2>2. QED
    BY <1>1, <1>18, <2>1 DEF ReportInv
<1>19. ASSUME NEW c \in Found' PROVE Seen(c)'
  <2>1. CASE c = b
    <3>1. r.target_block <= t.target_block /\ r.target_block \in Nat
      BY <1>2, <1>6 DEF ReportInv
    <3>2. n >= r.target_block
      BY <1>4, <1>5, <3>1
    <3>3. QED
      BY <1>1, <1>4, <1>7, <1>9, <2>1, <3>2 DEF Seen, Whole
  <2>2. CASE c # b
    <3>1. c \in Found /\ c \in Tracked
      BY <1>12, <1>19, <2>2 DEF Found
    <3>2. inclusion_results'[c] = inclusion_results[c]
      BY <1>9, <2>2, <3>1
    <3>3. QED
      BY <1>1, <3>1, <3>2 DEF ReportInv, Seen, Whole
  <2>3. QED
    BY <2>1, <2>2
<1>20. /\ dry'.at = "wait"
       /\ \A j \in 1..Len(DryBundles) : DryBundles[j] \in HandedOver'
  BY <1>11 DEF ReportInv
<1>21. LostToTracker'
  BY <1>20 DEF LostToTracker
<1>22. QED
  BY <1>15, <1>16, <1>17, <1>18, <1>19, <1>20, <1>21 DEF ReportInv

\* Each step of execute_dry_run.
LEMMA DryStepKeeps ==
  ASSUME FollowInv, ReportInv, DryStep PROVE FollowInv' /\ ReportInv'
<1>1. /\ dry \in [at : {"idle", "submit", "wait", "done", "aborted"},
                  i : Nat \ {0}, round : Nat]
      /\ dry_metrics \in [bundles_submitted : Nat, bundles_included : Nat,
                          ordered : Nat]
      /\ Len(DryBundles) \in Nat \ {0}
  BY SomeBundles DEF ReportInv, ReportTypes
<1>2. /\ Aborted \in [at : {"aborted"}, i : Nat \ {0}, round : Nat]
      /\ Aborted.i = dry.i
  BY <1>1 DEF Aborted
<1>3. UNCHANGED trackerVars => FollowInv'
  BY TrackerStep DEF TrackerMove
<1>4. CASE ConnectToMempool
  <2>1. /\ dry.at = "idle"
        /\ dry' \in {[dry EXCEPT !.at = "submit"], Aborted}
        /\ UNCHANGED <<trackerVars, inclusion_results, dry_metrics>>
    BY <1>4 DEF ConnectToMempool
  <2>2. dry.i = 1
    BY <2>1 DEF ReportInv
  <2>3. /\ dry' \in [at : {"submit", "aborted"}, i : Nat \ {0}, round : Nat]
        /\ dry'.i = dry.i
    BY <1>1, <1>2, <2>1
  <2>4. ReportInv'
    BY <1>1, <2>1, <2>2, <2>3, DryMoves
  <2>5. QED
    BY <1>3, <2>1, <2>4
<1>5. CASE SubmitAndTrackBundle
  <2>1. dry.at = "submit" /\ dry.i <= Len(DryBundles)
    BY <1>5 DEF SubmitAndTrackBundle
  <2>2. PICK b \in Tracked : b = DryBundles[dry.i]
    BY <1>1, <2>1, BundleAt
  <2>3. CASE dry' = Aborted /\ UNCHANGED <<trackerVars, inclusion_results, dry_metrics>>
    <3>1. ReportInv'
      BY <1>1, <1>2, <2>1, <2>3, DryMoves
    <3>2. QED
      BY <1>3, <2>3, <3>1
  <2>4. CASE /\ TrackBundle(b, Height + 2)
             /\ inclusion_results' =
                  [inclusion_results EXCEPT ![b].target_block = Height + 2]
             /\ dry_metrics' = [dry_metrics EXCEPT !.bundles_submitted = @ + 1]
             /\ dry' = [dry EXCEPT !.i = @ + 1]
    BY <2>1, <2>2, <2>4, HandOver
  <2>5. QED
    BY <1>5, <2>2, <2>3, <2>4 DEF SubmitAndTrackBundle
<1>6. CASE BeginWait
  <2>1. /\ dry.at = "submit" /\ dry.i > Len(DryBundles)
        /\ dry' = [dry EXCEPT !.at = "wait", !.i = 1]
        /\ UNCHANGED <<trackerVars, inclusion_results, dry_metrics>>
    BY <1>6 DEF BeginWait
  <2>2. /\ dry' \in [at : {"wait"}, i : Nat \ {0}, round : Nat]
        /\ dry'.i = 1
    <3>1. dry' = [at |-> "wait", i |-> 1, round |-> dry.round]
      BY <1>1, <2>1
    <3>2. QED
      BY <1>1, <3>1
  <2>3. dry'.i <= Len(DryBundles)
    BY <1>1, <2>2
  <2>4. ReportInv'
    BY <1>1, <2>1, <2>2, <2>3, DryMoves
  <2>5. QED
    BY <1>3, <2>1, <2>4
<1>7. CASE CheckStatus
  <2>1. dry.at = "wait" /\ UNCHANGED trackerVars
    BY <1>7 DEF CheckStatus
  <2>2. dry.i <= Len(DryBundles)
    BY <2>1 DEF ReportInv
  <2>3. PICK b \in Tracked : b = DryBundles[dry.i]
    BY <1>1, <2>2, BundleAt
  <2>4. \A d \in {NextResult, EndRound} :
          /\ d \in [at : {"wait"}, i : Nat \ {0}, round : Nat]
          /\ d.i <= Len(DryBundles)
    <3>1. PICK k \in Nat \ {0}, m \in Nat :
            dry = [at |-> "wait", i |-> k, round |-> m]
      BY <1>1, <2>1
    <3>2. EndRound = [at |-> "wait", i |-> 1, round |-> m + 1]
      <4>1. EndRound = [[at |-> "wait", i |-> k, round |-> m] EXCEPT
                          !.i = 1, !.round = m + 1]
        BY <3>1 DEF EndRound
      <4>2. QED
        BY <4>1
    <3>3. CASE k < Len(DryBundles)
      <4>1. NextResult = [at |-> "wait", i |-> k + 1, round |-> m]
        BY <3>1, <3>3 DEF NextResult
      <4>2. QED
        BY <1>1, <3>2, <3>3, <4>1
    <3>4. CASE ~(k < Len(DryBundles))
      <4>1. NextResult = EndRound
        BY <3>1, <3>4 DEF NextResult
      <4>2. QED
        BY <1>1, <3>2, <4>1
    <3>5. QED
      BY <3>3, <3>4
  <2>5. CASE /\ dry' \in {NextResult, EndRound}
             /\ UNCHANGED <<inclusion_results, dry_metrics>>
    BY <1>1, <1>3, <2>1, <2>4, <2>5, DryMoves
  <2>6. CASE /\ tracked_bundles[b] = Absent /\ dry' = Aborted
             /\ UNCHANGED <<inclusion_results, dry_metrics>>
    BY <1>1, <1>2, <1>3, <2>1, <2>2, <2>3, <2>6, DryMoves
  <2>7. CASE /\ inclusion_results[b].actual_block = 0
             /\ tracked_bundles[b] # Absent
             /\ tracked_bundles[b].status = "Included"
             /\ inclusion_results' = [inclusion_results EXCEPT
                  ![b].actual_block = tracked_bundles[b].block_number]
             /\ dry_metrics' = [dry_metrics EXCEPT !.bundles_included = @ + 1]
             /\ dry' = NextResult
    BY <1>3, <2>1, <2>3, <2>4, <2>7, FindsBundle
  <2>8. QED
    BY <1>7, <2>3, <2>5, <2>6, <2>7 DEF CheckStatus
<1>8. CASE AnalyzeResults
  <2>1. /\ dry.at = "wait" /\ dry' = [dry EXCEPT !.at = "done"]
        /\ UNCHANGED <<trackerVars, inclusion_results>>
    BY <1>8 DEF AnalyzeResults
  <2>2. PICK S \in SUBSET Found :
          dry_metrics' = [dry_metrics EXCEPT !.ordered = Cardinality(S)]
    BY <1>8 DEF AnalyzeResults, Found
  <2>3. Cardinality(S) \in Nat
    <3>1. Found \subseteq tracks
      BY DEF ReportInv
    <3>2. IsFiniteSet(S)
      BY <3>1, FS_Subset DEF FollowInv, TrackerTypes
    <3>3. QED
      BY <3>2, FS_CardinalityType
  <2>4. /\ dry_metrics' \in [bundles_submitted : Nat, bundles_included : Nat,
                             ordered : Nat]
        /\ dry_metrics'.bundles_submitted = dry_metrics.bundles_submitted
        /\ dry_metrics'.bundles_included = dry_metrics.bundles_included
    BY <1>1, <2>2, <2>3
  <2>5. dry' \in [at : {"done"}, i : Nat \ {0}, round : Nat]
    BY <1>1, <2>1
  <2>6. ReportInv'
    BY <2>1, <2>4, <2>5, DryMoves
  <2>7. QED
    BY <1>3, <2>1, <2>6
<1>9. QED
  BY <1>4, <1>5, <1>6, <1>7, <1>8 DEF DryStep

\* The tracker starts with no bundle.
LEMMA NothingTracked == TrackerInit => FollowInv
<1> SUFFICES ASSUME TrackerInit PROVE FollowInv
  OBVIOUS
<1>1. chain = [n \in {} |-> {}] /\ DOMAIN chain = {}
  BY DEF TrackerInit
<1>2. Height = 0
  BY <1>1, FS_EmptySet DEF Height
<1>3. chain \in [1..0 -> Blocks]
  <2>1. 1..0 = {}
    OBVIOUS
  <2>2. QED
    BY <1>1, <2>1
<1>4. tracks = {} /\ IsFiniteSet(tracks)
  BY FS_EmptySet DEF TrackerInit
<1>5. AtTick \in Monitors /\ AtTick.bundle = Absent /\ AtTick.ids = {}
  BY DEF AtTick, Monitors
<1>6. TrackerTypes
  BY <1>2, <1>3, <1>4, <1>5 DEF TrackerTypes, TrackerInit
<1>7. \A b \in Tracked : TrackInv(b)
  BY DEF TrackerInit, TrackInv
<1>8. MonitorInv
  BY <1>2, <1>5 DEF MonitorInv, TrackerInit
<1>9. QED
  BY <1>6, <1>7, <1>8 DEF FollowInv

\* The dry run starts with an empty report.
LEMMA NothingReported == TrackerInit /\ DryInit => ReportInv
<1> SUFFICES ASSUME TrackerInit, DryInit PROVE ReportInv
  OBVIOUS
<1>1. Found = {} /\ HandedOver = {}
  BY DEF DryInit, Found, HandedOver
<1>2. Cardinality({}) = 0
  BY FS_EmptySet
<1>3. ReportTypes
  BY DEF DryInit, ReportTypes
<1>4. \A b \in Tracked : tracked_bundles[b] = Absent
  BY DEF TrackerInit
<1>5. dry.at = "idle" /\ dry.i = 1 /\ dry_metrics.bundles_submitted = 0
      /\ dry_metrics.bundles_included = 0
  BY DEF DryInit
<1>6. LostToTracker
  BY <1>5 DEF LostToTracker
<1>7. QED
  BY <1>1, <1>2, <1>3, <1>4, <1>5, <1>6 DEF ReportInv

\* Every step of the tracker and of the dry run keeps the report true.
LEMMA ReportStep ==
  ASSUME FollowInv, ReportInv, [ReportNext]_reportVars
  PROVE  FollowInv' /\ ReportInv'
<1>1. ASSUME TrackerMove, UNCHANGED dryVars PROVE FollowInv' /\ ReportInv'
  BY <1>1, TrackerStep, ReportStays
<1>2. CASE TrackerNext /\ UNCHANGED dryVars
  <2>1. TrackerMove
    BY <1>2, TrackerValues DEF TrackerNext, TrackerMove, Blocks
  <2>2. QED
    BY <1>1, <1>2, <2>1
<1>3. CASE DryStep
  BY <1>3, DryStepKeeps
<1>4. CASE /\ \/ Mine({}) \/ \E b \in Tracked : Mine({b} \X TxsOf)
              \/ \E b \in Tracked : Age(b)
              \/ MonitorStep
           /\ UNCHANGED dryVars
  <2>1. \A b \in Tracked : {b} \X TxsOf \in Blocks
    BY DEF Blocks
  <2>2. {} \in Blocks
    BY DEF Blocks
  <2>3. TrackerMove
    BY <1>4, <2>1, <2>2 DEF TrackerMove
  <2>4. QED
    BY <1>1, <1>4, <2>3
<1>5. CASE UNCHANGED reportVars
  <2>1. TrackerMove /\ UNCHANGED dryVars
    BY <1>5 DEF TrackerMove, reportVars
  <2>2. QED
    BY <1>1, <2>1
<1>6. QED
  BY <1>2, <1>3, <1>4, <1>5 DEF ReportNext, DryNext

\* What the tracker knows of a bundle is what the blocks hold, whichever
\* requests fail and whenever blocks are mined, and what the report counts is
\* what the tracker knew (check_bundle_inclusion, wait_for_inclusions).
THEOREM ReportInvariant == ReportSpec => [](FollowInv /\ ReportInv)
<1>1. TrackerInit /\ DryInit => FollowInv /\ ReportInv
  BY NothingTracked, NothingReported
<1>2. FollowInv /\ ReportInv /\ [ReportNext]_reportVars
        => (FollowInv /\ ReportInv)'
  BY ReportStep
<1>3. QED
  BY <1>1, <1>2, PTL DEF ReportSpec

\* What the report says of inclusion follows from the invariants
\* (analyze_results).
LEMMA WholeBySafe ==
  FollowInv /\ ReportInv =>
    IncludedIsWhole /\ NoBlockSkipped /\ ReportIsTrue /\ LostToTracker
<1> SUFFICES ASSUME FollowInv, ReportInv
             PROVE  IncludedIsWhole /\ NoBlockSkipped /\ ReportIsTrue
                    /\ LostToTracker
  OBVIOUS
<1>1. IncludedIsWhole
  BY DEF FollowInv, TrackInv, Whole, IncludedIsWhole
<1>2. NoBlockSkipped
  BY DEF FollowInv, TrackInv, Whole, NoBlockSkipped
<1>3. ReportIsTrue
  <2>1. Cardinality(Found) <= Cardinality(HandedOver)
    <3>1. IsFiniteSet(HandedOver)
      BY FS_Subset DEF ReportInv, FollowInv, TrackerTypes
    <3>2. QED
      BY <3>1, FS_Subset DEF ReportInv
  <2>2. /\ dry_metrics.bundles_included = Cardinality(Found)
        /\ dry_metrics.bundles_submitted = Cardinality(HandedOver)
    BY DEF ReportInv
  <2>3. ASSUME NEW b \in Tracked, inclusion_results[b].actual_block > 0
        PROVE  LET n == inclusion_results[b].actual_block IN
               {b} \X TxsOf \subseteq chain[n]
               /\ n >= inclusion_results[b].target_block
    <3>1. b \in Found
      BY <2>3 DEF Found
    <3>2. QED
      BY <3>1 DEF ReportInv, Seen, Whole
  <2>4. QED
    BY <2>1, <2>2, <2>3 DEF ReportIsTrue, Found
<1>4. LostToTracker
  BY DEF ReportInv
<1>5. QED
  BY <1>1, <1>2, <1>3, <1>4

\* In every behaviour the tracker and the dry run take their own steps.
LEMMA ReportPart == Spec => ReportSpec
<1>1. Init => TrackerInit /\ DryInit
  BY DEF Init
<1>2. [Next]_vars => [ReportNext]_reportVars
  BY DEF Next, vars, around, reportVars, ReportNext, Submitter, Tracker_, Handler,
     Transaction, Dry, KeyTask, Building, Checks, Polling, Elsewhere
<1>3. QED
  BY <1>1, <1>2, PTL DEF Spec, ReportSpec

\* A bundle is reported included only in a block that holds all of it, no block
\* between two ticks is skipped, and the dry run counts what was seen
\* (check_bundle_inclusion, wait_for_inclusions, analyze_results).
THEOREM TrackerIsSafe == Spec => []TrackerSafe
<1>1. FollowInv /\ ReportInv => TrackerSafe
  BY WholeBySafe DEF TrackerSafe
<1>2. QED
  BY <1>1, ReportPart, ReportInvariant, PTL

-----------------------------------------------------------------------------
(* The building of a bundle                                                *)

BuildingSpec == BuildingInit /\ [][BuildingNext]_buildingVars

\* In every behaviour the builder takes its own steps, or none.
LEMMA BuildingPart == Spec => BuildingSpec
<1>1. Init => BuildingInit
  BY DEF Init
<1>2. [Next]_vars => [BuildingNext]_buildingVars
  BY DEF Next, vars, around, Submitter, Tracker_, Handler, Transaction, Dry, KeyTask,
     Building, Checks, Polling, Elsewhere, buildingVars
<1>3. QED
  BY <1>1, <1>2, PTL DEF Spec, BuildingSpec

\* What a bundle was built from: the parameters are those of the request, and
\* the age that decides on the expiry is a number of seconds.
BuildingInv ==
  /\ age \in Nat
  /\ bundle # Unbuilt =>
       /\ request.params \in BundleParams
       /\ bundle.legs = Legs(request.opportunity.type)
       /\ bundle.max_fee = MaxFeePerGas(request.params)
       /\ bundle.priority_fee = request.params.max_priority_fee
       /\ bundle.metadata = BundleMetadata(request.opportunity, request.params)

\* A bundle gets the transactions of the kind of its builder, which is an error
\* unless the opportunity has that type (build_bundle_transactions).
LEMMA BuildKeeps ==
  ASSUME BuildingInv, NEW o \in Opportunities, NEW p \in BundleParams, BuildBundle(o, p)
  PROVE  BuildingInv'
<1> DEFINE kind == strategy_builders[o.strategy]
           legs == BuildBundleTransactions(kind, o)
<1>1. /\ legs # Unbuilt
      /\ bundle' = [legs |-> legs, max_fee |-> MaxFeePerGas(p),
                    priority_fee |-> p.max_priority_fee, metadata |-> BundleMetadata(o, p)]
      /\ request' = [opportunity |-> o, params |-> p] /\ age' = 0
  BY DEF BuildBundle
<1>2. legs = Legs(o.type)
  BY <1>1 DEF BuildBundleTransactions
<1> HIDE DEF legs
<1>3. request'.opportunity = o /\ request'.params = p
  BY <1>1
<1>4. /\ bundle'.legs = legs /\ bundle'.max_fee = MaxFeePerGas(p)
      /\ bundle'.priority_fee = p.max_priority_fee
      /\ bundle'.metadata = BundleMetadata(o, p)
  BY <1>1
<1>5. QED
  BY <1>1, <1>2, <1>3, <1>4 DEF BuildingInv

\* No other step touches the bundle or its request.
LEMMA BuildingStep ==
  ASSUME BuildingInv, [BuildingNext]_buildingVars
  PROVE  BuildingInv'
<1>1. ASSUME NEW o \in Opportunities, NEW kind \in Types, RegisterBuilder(o.strategy, kind)
      PROVE  BuildingInv'
  BY <1>1 DEF RegisterBuilder, BuildingInv
<1>2. ASSUME NEW o \in Opportunities, NEW p \in BundleParams, BuildBundle(o, p)
      PROVE  BuildingInv'
  BY <1>2, BuildKeeps
<1>3. CASE SecondPasses
  BY <1>3 DEF SecondPasses, BuildingInv
<1>4. CASE UNCHANGED buildingVars
  BY <1>4 DEF buildingVars, BuildingInv
<1>5. QED
  BY <1>1, <1>2, <1>3, <1>4 DEF BuildingNext

\* A bundle keeps what its request gave it while builders are registered and
\* time passes.
THEOREM BuildingInvariant == BuildingSpec => []BuildingInv
<1>1. BuildingInit => BuildingInv
  BY DEF BuildingInit, BuildingInv
<1>2. BuildingInv /\ [BuildingNext]_buildingVars => BuildingInv'
  BY BuildingStep
<1>3. QED
  BY <1>1, <1>2, PTL DEF BuildingSpec

\* The fee is at least the sum of price and tip (calculate_gas_prices).
LEMMA FeeCovers ==
  ASSUME NEW p \in BundleParams
  PROVE  MaxFeePerGas(p) >= p.max_gas_price + p.max_priority_fee
<1>1. PICK price \in Nat : price = p.max_gas_price
  BY BuildingConstants DEF BuildingConstants
<1>2. PICK tip \in Nat : tip = p.max_priority_fee
  BY BuildingConstants DEF BuildingConstants
<1>3. PICK multiplier \in Nat : multiplier = p.gas_multiplier
  BY BuildingConstants DEF BuildingConstants
<1>4. PICK product \in Nat : product = price * multiplier
  OBVIOUS
<1>5. PICK multiplied \in Nat : multiplied = product \div 100
  OBVIOUS
<1>6. MaxFeePerGas(p) = IF multiplied > price + tip THEN multiplied ELSE price + tip
  BY <1>1, <1>2, <1>3, <1>4, <1>5 DEF MaxFeePerGas
<1>7. QED
  BY <1>1, <1>2, <1>6

\* No key of the opportunity is the one the expiry is read from
\* (create_bundle_metadata).
LEMMA OwnExpiry ==
  ASSUME NEW o, NEW p
  PROVE  /\ Own("expiry_seconds") \in DOMAIN BundleMetadata(o, p)
         /\ BundleMetadata(o, p)[Own("expiry_seconds")] = p.expiry_seconds
<1> DEFINE keys == {Own("expiry_seconds")} \cup ({"opp_"} \X DOMAIN o.metadata)
<1>1. Own("expiry_seconds") \in keys
  OBVIOUS
<1> HIDE DEF keys
<1>2. BundleMetadata(o, p) =
        [k \in keys |-> IF k = Own("expiry_seconds") THEN p.expiry_seconds
                        ELSE o.metadata[k[2]]]
  BY DEF BundleMetadata, keys
<1>3. QED
  BY <1>1, <1>2

\* The properties of a bundle follow from what it was built from.
LEMMA BuildingInvGives ==
  ASSUME BuildingInv
  PROVE  LegsFitOpportunity /\ FeeCoversTip /\ ExpiresByParams
<1> SUFFICES ASSUME bundle # Unbuilt
             PROVE  /\ bundle.legs = Legs(request.opportunity.type)
                    /\ bundle.max_fee >= request.params.max_gas_price + bundle.priority_fee
                    /\ IsExpired(bundle, age) <=> age > request.params.expiry_seconds
  BY DEF LegsFitOpportunity, FeeCoversTip, ExpiresByParams
<1>1. bundle.max_fee >= request.params.max_gas_price + bundle.priority_fee
  BY FeeCovers DEF BuildingInv
<1>2. /\ Own("expiry_seconds") \in DOMAIN bundle.metadata
      /\ bundle.metadata[Own("expiry_seconds")] = request.params.expiry_seconds
  BY OwnExpiry DEF BuildingInv
<1>3. IsExpired(bundle, age) <=> age > request.params.expiry_seconds
  BY <1>2 DEF IsExpired
<1>4. QED
  BY <1>1, <1>3 DEF BuildingInv

-----------------------------------------------------------------------------
(* The judgements about a bundle                                           *)

ChecksSpec == ChecksInit /\ [][ChecksNext]_checkVars

\* In every behaviour the checks take their own steps, or none.
LEMMA ChecksPart == Spec => ChecksSpec
<1>1. Init => ChecksInit
  BY DEF Init
<1>2. [Next]_vars => [ChecksNext]_checkVars
  BY DEF Next, vars, around, Submitter, Tracker_, Handler, Transaction, Dry, KeyTask,
     Building, Checks, Polling, Elsewhere, checkVars
<1>3. QED
  BY <1>1, <1>2, PTL DEF Spec, ChecksSpec

\* No hash is in the block twice.
Distinct(block) == \A i, j \in DOMAIN block : block[i] = block[j] => i = j

\* A verdict is the one of its input.
SimulatedInv ==
  simulated # Unchecked =>
    /\ simulated.calls \in SimulatedCalls /\ simulated.threshold \in Thresholds
    /\ simulated.violations =
         SafetyViolations(ProfitEstimate(simulated.calls), simulated.threshold)

OrderingInv ==
  ordering # Unchecked =>
    /\ ordering.block \in Seq(BlockTxs) /\ Distinct(ordering.block)
    /\ ordering.expected \in Seq(BlockTxs)
    /\ ordering.verified = VerifyOrdering(ordering.block, ordering.expected)

\* The sequences that are enumerated are sequences.
LEMMA ShortSequences == ASSUME NEW S, NEW n \in Nat PROVE SeqsUpTo(S, n) \subseteq Seq(S)
BY DEF SeqsUpTo

\* A simulation or a comparison is judged once (simulate_bundle_optimized,
\* verify_transaction_ordering).
LEMMA ChecksStep ==
  ASSUME SimulatedInv, OrderingInv, [ChecksNext]_checkVars
  PROVE  SimulatedInv' /\ OrderingInv'
<1>1. ASSUME NEW calls \in SimulatedCalls, NEW threshold \in Thresholds,
             SimulateBundle(calls, threshold)
      PROVE  SimulatedInv' /\ OrderingInv'
  <2>1. /\ simulated'.calls = calls /\ simulated'.threshold = threshold
        /\ simulated'.violations = SafetyViolations(ProfitEstimate(calls), threshold)
        /\ UNCHANGED ordering
    BY <1>1 DEF SimulateBundle
  <2>2. QED
    BY <2>1 DEF SimulatedInv, OrderingInv
<1>2. ASSUME NEW block \in SeqsUpTo(BlockTxs, 4), NEW expected \in SeqsUpTo(BlockTxs, 3),
             Distinct(block), CheckOrdering(block, expected)
      PROVE  SimulatedInv' /\ OrderingInv'
  <2>1. block \in Seq(BlockTxs) /\ expected \in Seq(BlockTxs)
    BY ShortSequences
  <2>2. /\ ordering'.block = block /\ ordering'.expected = expected
        /\ ordering'.verified = VerifyOrdering(block, expected)
        /\ UNCHANGED simulated
    BY <1>2 DEF CheckOrdering
  <2>3. QED
    BY <1>2, <2>1, <2>2 DEF SimulatedInv, OrderingInv
<1>3. CASE UNCHANGED checkVars
  BY <1>3 DEF checkVars, SimulatedInv, OrderingInv
<1>4. QED
  BY <1>1, <1>2, <1>3 DEF ChecksNext, Distinct

\* Every verdict is the one of its input, at any time.
THEOREM ChecksInvariant == ChecksSpec => [](SimulatedInv /\ OrderingInv)
<1>1. ChecksInit => SimulatedInv /\ OrderingInv
  BY DEF ChecksInit, SimulatedInv, OrderingInv
<1>2. SimulatedInv /\ OrderingInv /\ [ChecksNext]_checkVars => (SimulatedInv /\ OrderingInv)'
  BY ChecksStep
<1>3. QED
  BY <1>1, <1>2, PTL DEF ChecksSpec

\* The gas of the calls that were executed is a number.
LEMMA CostIsNatural ==
  ASSUME NEW calls \in Seq([ok : BOOLEAN, cost : Nat])
  PROVE  CostOf(calls) \in Nat
<1>1. PICK N \in Nat : N = Len(calls)
  BY LenProperties
<1> DEFINE Add(n, x) == x + (IF n \in Executed(calls) THEN calls[n].cost ELSE 0)
           g == [p \in (1..N) \X Nat |-> Add(p[1], p[2])]
           body(c, n) == IF n = 0 THEN 0
                         ELSE c[n - 1]
                              + (IF n \in Executed(calls) THEN calls[n].cost ELSE 0)
           rec(c) == c = [n \in 0..Len(calls) |-> body(c, n)]
           cost == CHOOSE c : rec(c)
<1>2. ASSUME NEW n \in 1..N, NEW x \in Nat PROVE Add(n, x) \in Nat
  <2>1. calls[n] \in [ok : BOOLEAN, cost : Nat]
    BY <1>1, ElementOfSeq
  <2>2. calls[n].cost \in Nat
    BY <2>1
  <2>3. QED
    BY <2>2
<1>3. g \in [(1..N) \X Nat -> Nat] /\ \A n \in 1..N : \A x \in Nat : g[<<n, x>>] = Add(n, x)
  <2> HIDE DEF Add
  <2>1. ASSUME NEW p \in (1..N) \X Nat PROVE g[p] \in Nat
    BY <1>2
  <2>2. QED
    BY <2>1
<1> HIDE DEF g
<1>4. PICK f : Computes(f, Nat, 0, N, g)
  <2>1. PICK a, S : a = 0 /\ S = Nat
    OBVIOUS
  <2>2. a \in S /\ g \in [(1..N) \X S -> S] /\ N \in Nat
    BY <1>3, <2>1
  <2>3. \E f : Computes(f, S, a, N, g)
    BY ONLY <2>2, Recursion
  <2>4. QED
    BY <2>1, <2>3
<1>5. \E c : rec(c)
  <2>1. ASSUME NEW n \in 0..N PROVE f[n] = body(f, n)
    <3>1. CASE n = 0
      BY <1>4, <3>1 DEF Computes
    <3>2. CASE n # 0
      <4>1. n \in 1..N /\ n - 1 \in 0..N
        BY <3>2
      <4>2. f[n - 1] \in Nat /\ f[n] = g[<<n, f[n - 1]>>]
        BY <1>4, <4>1 DEF Computes
      <4>3. f[n] = Add(n, f[n - 1])
        BY <1>3, <4>1, <4>2
      <4>4. QED
        BY <3>2, <4>3
    <3>3. QED
      BY <3>1, <3>2
  <2>2. f = [n \in 0..N |-> f[n]]
    BY <1>4 DEF Computes
  <2> HIDE DEF body
  <2>3. QED
    BY <1>1, <2>1, <2>2
<1>6. rec(cost)
  <2> HIDE DEF rec
  <2> QED
    BY <1>5, Zenon
<1>7. CostOf(calls) = cost[N]
  BY <1>1 DEF CostOf
<1> HIDE DEF cost
<1>8. \A n \in 0..N : cost[n] = body(cost, n)
  <2> HIDE DEF body
  <2> QED
    BY <1>1, <1>6
<1> HIDE DEF rec
<1> DEFINE Typed == {n \in 0..N : cost[n] \in Nat}
<1>9. Typed = 0..N
  <2>1. 0 \in Typed
    BY <1>8
  <2>2. ASSUME NEW n \in 1..N, n - 1 \in Typed PROVE n \in Typed
    <3>1. n \in 0..N /\ n # 0 /\ cost[n - 1] \in Nat
      BY <2>2
    <3>2. cost[n] = Add(n, cost[n - 1])
      BY <1>8, <3>1
    <3>3. cost[n] \in Nat
      BY <1>2, <3>1, <3>2
    <3>4. QED
      BY <3>1, <3>3
  <2>3. Typed \in SUBSET (0..N)
    OBVIOUS
  <2> HIDE DEF Typed
  <2>4. QED
    BY <2>1, <2>2, <2>3, UpToPlace
<1>10. QED
  BY <1>7, <1>9

\* Nothing before the first failing call failed: if all are executed, none did.
LEMMA AllExecuted ==
  ASSUME NEW calls \in Seq([ok : BOOLEAN, cost : Nat]), Executed(calls) = DOMAIN calls
  PROVE  \A i \in DOMAIN calls : calls[i].ok
<1> SUFFICES ASSUME NEW i \in DOMAIN calls, ~calls[i].ok PROVE FALSE
  OBVIOUS
<1>1. i \in Executed(calls) /\ i \in Nat
  BY LenProperties
<1>2. i < i
  BY <1>1 DEF Executed
<1>3. QED
  BY <1>1, <1>2

\* Without a violation the net profit reaches the threshold, so there is one
\* and no call failed (apply_safety_checks).
LEMMA ViolationsCatch ==
  ASSUME NEW calls \in Seq([ok : BOOLEAN, cost : Nat]), NEW threshold \in Nat \ {0},
         SafetyViolations(ProfitEstimate(calls), threshold) = {}
  PROVE  /\ \A i \in DOMAIN calls : calls[i].ok
         /\ GROSS_PROFIT >= CostOf(calls) + threshold
<1>1. PICK cost \in Nat : cost = CostOf(calls)
  BY CostIsNatural
<1> DEFINE success == Executed(calls) = DOMAIN calls
<1>2. PICK gross \in Nat : gross = IF success THEN GROSS_PROFIT ELSE 0
  BY CheckConstants DEF CheckConstants
<1>3. PICK net : net = IF gross > cost THEN gross - cost ELSE 0
  OBVIOUS
<1>4. ProfitEstimate(calls).net = net
  BY <1>1, <1>2, <1>3 DEF ProfitEstimate, NetProfit
<1>5. ~(ProfitEstimate(calls).net < threshold)
  BY DEF SafetyViolations
<1>6. ~(net < threshold)
  BY <1>4, <1>5
<1>7. gross > cost /\ net = gross - cost
  BY <1>3, <1>6
<1>8. success /\ gross = GROSS_PROFIT
  BY <1>2, <1>7
<1>9. \A i \in DOMAIN calls : calls[i].ok
  BY <1>8, AllExecuted
<1>10. QED
  BY <1>1, <1>6, <1>7, <1>8, <1>9

\* A hash is found where it is, since it is nowhere else (Iterator::position).
LEMMA PositionIsPlace ==
  ASSUME NEW T, NEW block \in Seq(T), Distinct(block), NEW i \in DOMAIN block
  PROVE  Position(block, block[i]) = i
<1> DEFINE hash == block[i]
           First(j) == block[j] = hash /\ \A k \in 1..j - 1 : block[k] # hash
<1>1. DOMAIN block = 1..Len(block) /\ Len(block) \in Nat
  BY LenProperties
<1>2. First(i)
  <2>1. ASSUME NEW k \in 1..i - 1 PROVE block[k] # hash
    <3>1. k \in DOMAIN block /\ k # i
      BY <1>1
    <3>2. QED
      BY <3>1 DEF Distinct
  <2>2. QED
    BY <2>1
<1>3. \A j \in DOMAIN block : First(j) => j = i
  BY DEF Distinct
<1>4. Position(block, hash) = CHOOSE j \in DOMAIN block : First(j)
  BY DEF Position
<1> HIDE DEF First
<1>5. QED
  BY <1>2, <1>3, <1>4

\* Numbers that grow from each place to the next grow from each to any later.
LEMMA AscendingGrows ==
  ASSUME NEW N \in Nat, NEW f \in [1..N -> Nat], \A k \in 1..N - 1 : f[k] < f[k + 1]
  PROVE  \A k, l \in 1..N : k < l => f[k] < f[l]
<1> DEFINE Good == {n \in 0..N : \A k, l \in 1..n : k < l => f[k] < f[l]}
<1>1. 0 \in Good
  OBVIOUS
<1>2. ASSUME NEW n \in 1..N, n - 1 \in Good PROVE n \in Good
  <2>1. ASSUME NEW k \in 1..n, NEW l \in 1..n, k < l PROVE f[k] < f[l]
    <3>1. CASE l # n
      <4>1. k \in 1..n - 1 /\ l \in 1..n - 1
        BY <2>1, <3>1
      <4>2. QED
        BY <1>2, <2>1, <4>1
    <3>2. CASE l = n
      <4>1. n - 1 \in 1..N - 1 /\ k \in 1..n - 1 /\ (n - 1) + 1 = n
        BY <2>1, <3>2
      <4>2. f[n - 1] < f[n] /\ f[n - 1] \in Nat /\ f[n] \in Nat /\ f[k] \in Nat
        BY <4>1
      <4>3. CASE k = n - 1
        BY <3>2, <4>2, <4>3
      <4>4. CASE k # n - 1
        <5>1. k < n - 1 /\ n - 1 \in 1..n - 1
          BY <4>1, <4>4
        <5>2. f[k] < f[n - 1]
          BY <1>2, <4>1, <5>1
        <5>3. QED
          BY <3>2, <4>2, <5>2
      <4>5. QED
        BY <4>3, <4>4
    <3>3. QED
      BY <3>1, <3>2
  <2>2. n \in 0..N
    OBVIOUS
  <2>3. QED
    BY <2>1, <2>2
<1>3. Good \in SUBSET (0..N)
  OBVIOUS
<1> HIDE DEF Good
<1>4. N \in Good
  BY <1>1, <1>2, <1>3, UpToPlace
<1>5. QED
  BY <1>4 DEF Good

\* Two ways to number the same places from left to right
Growing(f, N) == f \in [1..N -> Nat] /\ \A k, l \in 1..N : k < l => f[k] < f[l]
Covers(f, M, g, N) == \A k \in 1..M : \E l \in 1..N : f[k] = g[l]

\* They agree as far as the shorter one goes, and neither is shorter.
LEMMA NumberingsAgree ==
  ASSUME NEW M \in Nat, NEW N \in Nat, NEW f, NEW g, Growing(f, M), Growing(g, N),
         Covers(f, M, g, N), Covers(g, N, f, M)
  PROVE  M <= N /\ \A k \in 1..M : f[k] = g[k]
<1> DEFINE Agree == {n \in 0..M : n <= N /\ \A k \in 1..n : f[k] = g[k]}
<1>1. 0 \in Agree
  OBVIOUS
<1>2. ASSUME NEW n \in 1..M, n - 1 \in Agree PROVE n \in Agree
  <2>1. \A k \in 1..n - 1 : k \in 1..N /\ k \in 1..M /\ f[k] = g[k] /\ f[k] < f[n]
    BY <1>2 DEF Growing
  <2>2. PICK l \in 1..N : f[n] = g[l]
    BY DEF Covers
  <2>3. f[n] \in Nat
    BY DEF Growing
  <2>4. ~(l \in 1..n - 1)
    <3>1. SUFFICES ASSUME l \in 1..n - 1 PROVE FALSE
      OBVIOUS
    <3>2. f[l] = g[l] /\ f[l] < f[n]
      BY <2>1, <3>1
    <3>3. f[n] < f[n]
      BY <2>2, <3>2
    <3>4. QED
      BY <2>3, <3>3
  <2>5. l >= n /\ n \in 1..N
    BY <2>4
  <2>6. PICK j \in 1..M : g[n] = f[j]
    BY <2>5 DEF Covers
  <2>7. \A k \in 1..n - 1 : g[k] < g[n]
    BY <2>1, <2>5 DEF Growing
  <2>8. g[n] \in Nat
    BY <2>5 DEF Growing
  <2>9. ~(j \in 1..n - 1)
    <3>1. SUFFICES ASSUME j \in 1..n - 1 PROVE FALSE
      OBVIOUS
    <3>2. f[j] = g[j] /\ g[j] < g[n]
      BY <2>1, <2>7, <3>1
    <3>3. g[n] < g[n]
      BY <2>6, <3>2
    <3>4. QED
      BY <2>8, <3>3
  <2>10. j >= n
    BY <2>9
  <2>11. f[n] <= f[j]
    <3>1. CASE j = n
      BY <2>3, <3>1
    <3>2. CASE j # n
      <4>1. n < j
        BY <2>10, <3>2
      <4>2. f[n] < f[j] /\ f[j] \in Nat
        BY <4>1 DEF Growing
      <4>3. QED
        BY <2>3, <4>2
    <3>3. QED
      BY <3>1, <3>2
  <2>12. l = n
    <3>1. SUFFICES ASSUME l # n PROVE FALSE
      OBVIOUS
    <3>2. n < l
      BY <2>5, <3>1
    <3>3. g[n] < g[l]
      BY <2>5, <3>2 DEF Growing
    <3>4. g[n] < f[n] /\ f[n] <= g[n]
      BY <2>2, <2>6, <2>11, <3>3
    <3>5. QED
      BY <2>3, <2>8, <3>4
  <2>13. f[n] = g[n]
    BY <2>2, <2>12
  <2>14. \A k \in 1..n : f[k] = g[k]
    <3>1. ASSUME NEW k \in 1..n PROVE f[k] = g[k]
      <4>1. k \in 1..n - 1 \/ k = n
        OBVIOUS
      <4>2. QED
        BY <2>1, <2>13, <4>1
    <3>2. QED
      BY <3>1
  <2>15. n \in 0..M /\ n <= N
    BY <2>5
  <2>16. QED
    BY <2>14, <2>15
<1>3. Agree \in SUBSET (0..M)
  OBVIOUS
<1> HIDE DEF Agree
<1>4. M \in Agree
  BY <1>1, <1>2, <1>3, UpToPlace
<1>5. QED
  BY <1>4 DEF Agree

\* Two sequences of one length with the same items are one sequence.
LEMMA SameItems ==
  ASSUME NEW T, NEW r \in Seq(T), NEW s \in Seq(T), Len(r) = Len(s),
         \A k \in 1..Len(r) : r[k] = s[k]
  PROVE  r = s
BY SeqEqual

\* The places of the items of r in a block, as many as there are
Finds(p, r, block) ==
  /\ p \in [1..Len(r) -> 1..Len(block)] /\ Len(p) = Len(r)
  /\ \A k \in 1..Len(r) : block[p[k]] = r[k]

\* The positions that verify_transaction_ordering compares are these places.
LEMMA PositionsFound ==
  ASSUME NEW T, NEW block \in Seq(T), Distinct(block),
         NEW r \in Seq(T), \A k \in 1..Len(r) : r[k] \in Items(block),
         NEW p, p = [k \in DOMAIN r |-> Position(block, r[k])]
  PROVE  Finds(p, r, block)
<1>1. PICK M \in Nat : M = Len(r) /\ DOMAIN r = 1..M
  BY LenProperties
<1>2. DOMAIN block = 1..Len(block)
  BY LenProperties
<1>3. ASSUME NEW k \in 1..M
      PROVE  p[k] \in 1..Len(block) /\ block[p[k]] = r[k]
  <2>1. PICK i \in DOMAIN block : r[k] = block[i]
    BY <1>1 DEF Items
  <2>2. Position(block, r[k]) = i
    BY <2>1, PositionIsPlace
  <2>3. p[k] = i
    BY <1>1, <2>2
  <2>4. QED
    BY <1>2, <2>1, <2>3
<1>4. DOMAIN p = 1..M /\ p = [k \in 1..M |-> p[k]]
  BY <1>1
<1>5. p \in [1..M -> 1..Len(block)]
  BY <1>3, <1>4
<1>6. Len(p) = M
  <2>1. p \in Seq(1..Len(block))
    BY <1>5
  <2>2. QED
    BY <1>4, <2>1, LenProperties
<1>7. QED
  BY <1>1, <1>3, <1>5, <1>6 DEF Finds

\* Comparing positions is the same as deleting from the block what the bundle
\* does not name: both number the same places of the block, and there is one way
\* to number them from left to right (verify_transaction_ordering).
LEMMA OrderByPlaces ==
  ASSUME NEW T, NEW block \in Seq(T), Distinct(block), NEW expected \in Seq(T)
  PROVE  VerifyOrdering(block, expected).is_correct_order
           <=> VerifyOrdering(block, expected).actual_order = Only(block, Items(expected))
<1>1. PICK present \in Seq(T) : present = Only(expected, Items(block))
  BY OnlyPlaces
<1>2. PICK rest \in Seq(T) : rest = Only(block, Items(expected))
  BY OnlyPlaces
<1>3. PICK e : KeptFrom(e, present, expected, Items(block))
  BY <1>1, OnlyPlaces
<1>4. PICK b : KeptFrom(b, rest, block, Items(expected))
  BY <1>2, OnlyPlaces
<1>5. PICK M \in Nat : M = Len(present)
  BY LenProperties
<1>6. PICK N \in Nat : N = Len(rest)
  BY LenProperties
<1>7. PICK L \in Nat : L = Len(block) /\ DOMAIN block = 1..L
  BY LenProperties
<1>8. PICK K \in Nat : K = Len(expected) /\ DOMAIN expected = 1..K
  BY LenProperties
<1>9. /\ e \in [1..M -> 1..K]
      /\ \A k \in 1..M : present[k] = expected[e[k]] /\ present[k] \in Items(block)
      /\ \A i \in 1..K : expected[i] \in Items(block) => \E k \in 1..M : e[k] = i
  BY <1>3, <1>5, <1>8 DEF KeptFrom
<1>10. /\ b \in [1..N -> 1..L]
       /\ \A l \in 1..N : rest[l] = block[b[l]] /\ block[b[l]] \in Items(expected)
       /\ \A k, l \in 1..N : k < l => b[k] < b[l]
       /\ \A i \in 1..L : block[i] \in Items(expected) => \E l \in 1..N : b[l] = i
  BY <1>4, <1>6, <1>7 DEF KeptFrom
<1>11. PICK p : p = [k \in DOMAIN present |-> Position(block, present[k])]
  OBVIOUS
<1>12. /\ p \in [1..M -> 1..L] /\ Len(p) = M
       /\ \A k \in 1..M : block[p[k]] = present[k]
  <2>1. \A k \in 1..Len(present) : present[k] \in Items(block)
    BY <1>5, <1>9
  <2>2. Finds(p, present, block)
    BY <1>11, <2>1, PositionsFound
  <2>3. QED
    BY <1>5, <1>7, <2>2 DEF Finds
<1>13. /\ VerifyOrdering(block, expected).is_correct_order = Ascending(p)
       /\ VerifyOrdering(block, expected).actual_order = present
  BY <1>1, <1>11 DEF VerifyOrdering
<1>14. Ascending(p) <=> \A k \in 1..M - 1 : p[k] < p[k + 1]
  BY <1>12 DEF Ascending
<1>15. p \in [1..M -> Nat] /\ b \in [1..N -> Nat]
  BY <1>10, <1>12
<1>16. Growing(b, N)
  BY <1>10, <1>15 DEF Growing
<1>17. Covers(p, M, b, N)
  <2>1. ASSUME NEW k \in 1..M PROVE \E l \in 1..N : p[k] = b[l]
    <3>1. PICK i \in 1..L : i = p[k]
      BY <1>12
    <3>2. block[i] = expected[e[k]] /\ e[k] \in 1..K
      BY <1>9, <1>12, <3>1
    <3>3. block[i] \in Items(expected)
      BY <1>8, <3>2 DEF Items
    <3>4. QED
      BY <1>10, <3>1, <3>3
  <2>2. QED
    BY <2>1 DEF Covers
<1>18. Covers(b, N, p, M)
  <2>1. ASSUME NEW l \in 1..N PROVE \E k \in 1..M : b[l] = p[k]
    <3>1. PICK j \in 1..L : j = b[l]
      BY <1>10
    <3>2. block[j] \in Items(expected)
      BY <1>10, <3>1
    <3>3. PICK i \in 1..K : block[j] = expected[i]
      BY <1>8, <3>2 DEF Items
    <3>4. expected[i] \in Items(block)
      BY <1>7, <3>3 DEF Items
    <3>5. PICK k \in 1..M : e[k] = i
      BY <1>9, <3>4
    <3>6. p[k] \in 1..L /\ block[p[k]] = block[j]
      BY <1>9, <1>12, <3>3, <3>5
    <3>7. p[k] = j
      BY <1>7, <3>6 DEF Distinct
    <3>8. QED
      BY <3>1, <3>7
  <2>2. QED
    BY <2>1 DEF Covers
<1>19. ASSUME \A k \in 1..M - 1 : p[k] < p[k + 1] PROVE present = rest
  <2>1. Growing(p, M)
    BY <1>15, <1>19, AscendingGrows DEF Growing
  <2>2. M <= N /\ \A k \in 1..M : p[k] = b[k]
    BY <1>16, <1>17, <1>18, <2>1, NumberingsAgree
  <2>3. N <= M
    BY <1>16, <1>17, <1>18, <2>1, NumberingsAgree
  <2>4. M = N
    BY <2>2, <2>3
  <2>5. \A k \in 1..M : present[k] = rest[k]
    BY <1>10, <1>12, <2>2, <2>4
  <2>6. QED
    BY <1>5, <1>6, <2>4, <2>5, SameItems
<1>20. ASSUME present = rest PROVE \A k \in 1..M - 1 : p[k] < p[k + 1]
  <2>1. M = N
    BY <1>5, <1>6, <1>20
  <2>2. ASSUME NEW k \in 1..M PROVE p[k] = b[k]
    <3>1. block[p[k]] = block[b[k]] /\ p[k] \in 1..L /\ b[k] \in 1..L
      BY <1>10, <1>12, <1>20, <2>1
    <3>2. QED
      BY <1>7, <3>1 DEF Distinct
  <2>3. ASSUME NEW k \in 1..M - 1 PROVE p[k] < p[k + 1]
    <3>1. k \in 1..M /\ k + 1 \in 1..M /\ k < k + 1
      OBVIOUS
    <3>2. QED
      BY <1>10, <2>1, <2>2, <3>1
  <2>4. QED
    BY <2>3
<1>21. QED
  BY <1>2, <1>13, <1>14, <1>19, <1>20

\* The properties of the verdicts follow from their inputs.
LEMMA ChecksInvGives ==
  ASSUME SimulatedInv, OrderingInv
  PROVE  UnflaggedEarns /\ OrderIsThatOfBlock
<1>1. UnflaggedEarns
  <2>1. SUFFICES ASSUME simulated # Unchecked, simulated.violations = {}
                 PROVE  /\ \A i \in DOMAIN simulated.calls : simulated.calls[i].ok
                        /\ GROSS_PROFIT >= CostOf(simulated.calls) + simulated.threshold
    BY DEF UnflaggedEarns
  <2>2. PICK calls \in SimulatedCalls : calls = simulated.calls
    BY <2>1 DEF SimulatedInv
  <2>3. PICK threshold \in Thresholds : threshold = simulated.threshold
    BY <2>1 DEF SimulatedInv
  <2>4. SafetyViolations(ProfitEstimate(calls), threshold) = {}
    BY <2>1, <2>2, <2>3 DEF SimulatedInv
  <2>5. calls \in Seq([ok : BOOLEAN, cost : Nat]) /\ threshold \in Nat \ {0}
    BY CheckConstants DEF CheckConstants
  <2>6. QED
    BY <2>2, <2>3, <2>4, <2>5, ViolationsCatch
<1>2. OrderIsThatOfBlock
  BY OrderByPlaces DEF OrderingInv, OrderIsThatOfBlock
<1>3. QED
  BY <1>1, <1>2

\* A bundle is what its opportunity and its parameters make it, and the two
\* judgements about it are right (build_bundle_with_params,
\* apply_safety_checks, verify_transaction_ordering).
THEOREM BundlesAreSound == Spec => []BundlesSound
<1>1. BuildingInv /\ SimulatedInv /\ OrderingInv => BundlesSound
  BY BuildingInvGives, ChecksInvGives DEF BundlesSound
<1>2. QED
  BY <1>1, BuildingPart, BuildingInvariant, ChecksPart, ChecksInvariant, PTL

-----------------------------------------------------------------------------
(* The signer and its nonces, for any number of tasks and wallets          *)
(* (BundleSigning)                                                         *)

\* The discipline under which the tracker is safe although it is neither
\* reserved by a build nor stored conditionally: a wallet belongs to one
\* task, one task at most uses the default wallet, which is one of its own,
\* and nobody calls reset_nonce.
Separated ==
  /\ \A t, u \in Signers : t # u => OwnWallets[t] \cap OwnWallets[u] = {}
  /\ \A t, u \in DefaultUsers : t = u
  /\ \A t \in DefaultUsers : FirstDefault \in OwnWallets[t]

\* After a signature a task picks another wallet, signs the target, or goes on
\* to the validation (build_bundle_with_params).
LEMMA NextPhase ==
  ASSUME NEW p, NEW q, NEW d
  PROVE  NextSigning(p, q, d) \in {"pick", "target", "validate"}
BY DEF NextSigning

-----------------------------------------------------------------------------
\* Every variable keeps its type; in particular no plan counts below zero.
CountInv ==
  \A t \in Signers :
    /\ pc[t] \in {"pick", "signfixed", "advance"} => pre[t] + post[t] > 0
    /\ pc[t] = "target" => pre[t] = 0

TypeInv == TypeOK /\ CountInv

\* Every step of a bundle in the making keeps the types.
LEMMA TypeStep ==
  ASSUME TypeInv, [SigningNext]_signingVars
  PROVE  TypeInv'
<1> USE SigningConstants
    DEF TypeInv, TypeOK, CountInv, Locations, job, history, Goto
<1>1. CASE UNCHANGED signingVars
  BY <1>1 DEF signingVars
<1>2. ASSUME NEW t \in Signers, Step(t) PROVE TypeInv'
  <2>1. CASE SignWithDefault(t)
    BY <2>1 DEF SignWithDefault
  <2>2. CASE SignWithAddress(t)
    BY <2>2, SMTT(30) DEF SignWithAddress
  <2>3. CASE Alloc(t)
    BY <2>3 DEF Alloc
  <2>4. CASE SignAllocated(t)
    BY <2>4 DEF SignAllocated, Sign
  <2>5. CASE SignFails(t) \/ SignFixedFails(t) \/ Validate(t)
    BY <2>5 DEF SignFails, SignFixedFails, Validate
  <2>6. CASE Update(t)
    BY <2>6 DEF Update, Stored
  <2>7. CASE StartBuild(t)
    <3>1. PICK p \in Plans : /\ pre' = [pre EXCEPT ![t] = p[1]]
                             /\ post' = [post EXCEPT ![t] = p[2]]
      BY <2>7 DEF StartBuild
    <3>2. p[1] \in Nat /\ p[2] \in Nat
      OBVIOUS
    <3>3. own' \in [Signers -> Seq(Wallets \X Nat)]
      <4>1. <<>> \in Seq(Wallets \X Nat)
        OBVIOUS
      <4> QED
        BY <2>7, <4>1 DEF StartBuild
    <3> QED
      BY <2>7, <3>1, <3>2, <3>3 DEF StartBuild
  <2>8. CASE ReadStart(t)
    BY <2>8, NextPhase DEF ReadStart, NextSigning
  <2>9. CASE PickWallet(t)
    BY <2>9 DEF PickWallet
  <2>10. CASE SignFixed(t)
    <3>1. own' \in [Signers -> Seq(Wallets \X Nat)]
      <4>1. Append(own[t], <<wallet[t], nonce[t]>>) \in Seq(Wallets \X Nat)
        OBVIOUS
      <4> QED
        BY <2>10, <4>1 DEF SignFixed
    <3> QED
      BY <2>10, <3>1 DEF SignFixed, Sign
  <2>11. CASE Advance(t)
    BY <2>11, NextPhase, SMTT(30) DEF Advance, NextSigning, Stored
  <2>12. CASE Target(t)
    BY <2>12, NextPhase DEF Target, NextSigning
  <2>13. CASE SetDefaultWallet(t)
    BY <2>13 DEF SetDefaultWallet
  <2>14. CASE Reset(t)
    BY <2>14 DEF Reset
  <2> QED
    BY <1>2, <2>1, <2>2, <2>3, <2>4, <2>5, <2>6, <2>7, <2>8, <2>9, <2>10,
       <2>11, <2>12, <2>13, <2>14 DEF Step
<1> QED
  BY <1>1, <1>2 DEF SigningNext

\* The types hold while bundles are made (build_bundle_with_params).
LEMMA TypeInvariant == SigningSpec => []TypeInv
<1>1. SigningInit => TypeInv
  <2>1. <<>> \in Seq(Wallets \X Nat)
    OBVIOUS
  <2>2. SigningInit => own \in [Signers -> Seq(Wallets \X Nat)]
    BY <2>1 DEF SigningInit
  <2>5. SigningInit => signed \in [Wallets -> SUBSET Nat] /\ reused \in BOOLEAN
    BY Zenon DEF SigningInit
  <2>3. SigningInit => /\ tracker \in [Wallets -> Nat]
                /\ pc \in [Signers -> Locations] /\ wallet \in [Signers -> Wallets]
                /\ nonce \in [Signers -> Nat]
                /\ pre \in [Signers -> Nat] /\ post \in [Signers -> Nat]
                /\ default \in Wallets
    BY SigningConstants DEF SigningInit, Locations
  <2>4. SigningInit => CountInv
    BY DEF SigningInit, CountInv
  <2> QED
    BY <2>2, <2>3, <2>4, <2>5 DEF TypeInv, TypeOK
<1> QED
  BY <1>1, TypeStep, PTL DEF SigningSpec

\* Each task is at one place of build_bundle_with_params, with the wallet and the
\* nonces that place needs.
THEOREM TypeCorrect == SigningSpec => []TypeOK
<1>1. TypeInv => TypeOK
  BY DEF TypeInv
<1> QED
  BY <1>1, TypeInvariant, PTL

-----------------------------------------------------------------------------
\* The strengthening of NoNonceCollision under Separated: a busy task holds
\* a wallet of its own, so nobody else moves that wallet's tracker, and
\* every signed nonce is below the one the task is about to use.
Busy(t) == pc[t] # "idle"

\* build_bundle has signed for the wallet and not yet stored the nonce.
Advancing(w) == \E t \in Signers : pc[t] = "advance" /\ wallet[t] = w

Covered(w) == \A n \in signed[w] : n < tracker[w]

\* Who may hold which wallet.
HeldInv ==
  /\ \A t \in DefaultUsers : default \in OwnWallets[t]
  /\ \A t \in Signers : Busy(t) => wallet[t] \in OwnWallets[t]
  /\ \A t \in Signers :
       pc[t] \in {"start", "pick", "signfixed", "advance", "target"}
         => t \in DefaultUsers /\ wallet[t] = default

\* How the nonce a task holds relates to its wallet's tracker.
NonceInv ==
  \A t \in Signers :
    /\ pc[t] = "sign" => /\ tracker[wallet[t]] = nonce[t] + 1
                         /\ nonce[t] \notin signed[wallet[t]]
    /\ pc[t] = "update" => tracker[wallet[t]] = nonce[t] + 1
    /\ pc[t] \in {"pick", "signfixed", "advance", "target"}
         => tracker[wallet[t]] = nonce[t]
    /\ pc[t] = "advance" => \A n \in signed[wallet[t]] : n <= nonce[t]

SignedInv == \A w \in Wallets : ~Advancing(w) => Covered(w)

SeparatedInv == TypeInv /\ ~reused /\ HeldInv /\ NonceInv /\ SignedInv

\* No task holds a wallet and nothing is signed at first.
LEMMA SeparatedInit == ASSUME Separated, SigningInit, TypeInv PROVE SeparatedInv
BY SigningConstants
   DEF SigningInit, SeparatedInv, Separated, Busy, HeldInv, NonceInv, SignedInv, Covered

\* Two busy tasks hold different wallets.
LEMMA Disjoint ==
  ASSUME Separated, SeparatedInv,
         NEW t \in Signers, NEW u \in Signers, Busy(t), Busy(u), t # u
  PROVE  wallet[t] # wallet[u]
BY DEF Separated, SeparatedInv, HeldInv

\* A wallet is taken only while nobody else has it, when wallets are separated.
LEMMA HeldStep ==
  ASSUME Separated, SeparatedInv, NEW t \in Signers, Step(t)
  PROVE  HeldInv'
<1> USE SigningConstants
    DEF SeparatedInv, TypeInv, TypeOK, job, history, Busy, Separated, Goto
<1>1. CASE SignWithDefault(t)
  BY <1>1 DEF SignWithDefault, HeldInv
<1>2. CASE SignWithAddress(t)
  BY <1>2 DEF SignWithAddress, HeldInv
<1>3. CASE Alloc(t)
  BY <1>3 DEF Alloc, HeldInv
<1>4. CASE SignAllocated(t)
  BY <1>4 DEF SignAllocated, HeldInv
<1>5. CASE SignFails(t) \/ Validate(t) \/ SignFixedFails(t)
  BY <1>5 DEF SignFails, Validate, SignFixedFails, HeldInv
<1>6. CASE Update(t)
  BY <1>6 DEF Update, HeldInv
<1>7. CASE StartBuild(t)
  BY <1>7, SMTT(30) DEF StartBuild, HeldInv
<1>8. CASE ReadStart(t)
  BY <1>8 DEF ReadStart, HeldInv
<1>9. CASE PickWallet(t)
  BY <1>9 DEF PickWallet, HeldInv
<1>10. CASE SignFixed(t)
  BY <1>10 DEF SignFixed, HeldInv
<1>11. CASE Advance(t)
  BY <1>11 DEF Advance, HeldInv
<1>12. CASE Target(t)
  BY <1>12 DEF Target, HeldInv
<1>13. CASE SetDefaultWallet(t)
  BY <1>13 DEF SetDefaultWallet, HeldInv
<1>14. CASE Reset(t)
  BY <1>14 DEF Reset, HeldInv
<1> QED
  BY <1>1, <1>2, <1>3, <1>4, <1>5, <1>6, <1>7, <1>8, <1>9, <1>10,
     <1>11, <1>12, <1>13, <1>14 DEF Step

\* A task that neither enters nor leaves "advance" leaves Advancing alone.
LEMMA AdvancingSame ==
  ASSUME TypeInv, NEW t \in Signers,
         pc[t] # "advance", pc'[t] # "advance",
         \A u \in Signers : u # t => pc'[u] = pc[u] /\ wallet'[u] = wallet[u]
  PROVE  \A w : Advancing(w)' <=> Advancing(w)
BY DEF Advancing

\* A signature takes the nonce its task has read, which nobody has used
\* (get_nonce).
LEMMA NonceStep ==
  ASSUME Separated, SeparatedInv, TypeInv', NEW t \in Signers, Step(t)
  PROVE  ~reused' /\ NonceInv' /\ SignedInv'
<1> USE SigningConstants DEF TypeInv, TypeOK, job, history, Busy
<1>0. \A u \in Signers : u # t /\ Busy(u) /\ Busy(t) => wallet[u] # wallet[t]
  BY Disjoint
<1>1. CASE SignWithDefault(t)
  <2>1. \A w : Advancing(w)' <=> Advancing(w)
    BY <1>1, AdvancingSame DEF SignWithDefault, Goto, SeparatedInv
  <2> QED
    BY <1>1, <2>1
       DEF SignWithDefault, Goto, SeparatedInv, NonceInv, SignedInv, Covered
<1>2. CASE SignWithAddress(t)
  <2>1. \A w : Advancing(w)' <=> Advancing(w)
    BY <1>2, AdvancingSame, ZenonT(40) DEF SignWithAddress, Goto, SeparatedInv
  <2> QED
    BY <1>2, <2>1, SMTT(30)
       DEF SignWithAddress, Goto, SeparatedInv, NonceInv, SignedInv, Covered
<1>3. CASE Alloc(t)
  <2>1. \A w : Advancing(w)' <=> Advancing(w)
    BY <1>3, AdvancingSame DEF Alloc, Goto, SeparatedInv
  <2>2. ~Advancing(wallet[t]) /\ Covered(wallet[t])
    BY <1>3, <1>0 DEF Alloc, Goto, Advancing, SeparatedInv, SignedInv
  <2>3. SignedInv'
    BY <1>3, <2>1 DEF Alloc, SeparatedInv, SignedInv, Covered
  <2>4. NonceInv'
    <3>1. /\ pc[t] = "alloc" /\ pc' = [pc EXCEPT ![t] = "sign"]
          /\ nonce' = [nonce EXCEPT ![t] = tracker[wallet[t]]]
          /\ tracker' = [tracker EXCEPT ![wallet[t]] = @ + 1]
          /\ wallet' = wallet /\ signed' = signed
      BY <1>3 DEF Alloc, Goto
    <3>2. tracker[wallet[t]] \notin signed[wallet[t]]
      BY <2>2, SMTT(30) DEF Covered, SeparatedInv
    <3>3. \A u \in Signers : u # t /\ Busy(u) =>
            tracker'[wallet[u]] = tracker[wallet[u]]
      BY <3>1, <1>0 DEF SeparatedInv
    <3> QED
      BY <3>1, <3>2, <3>3, ZenonT(40) DEF SeparatedInv, NonceInv
  <2> QED
    BY <1>3, <2>3, <2>4 DEF Alloc, SeparatedInv
<1>4. CASE SignAllocated(t)
  <2>1. \A w : Advancing(w)' <=> Advancing(w)
    BY <1>4, AdvancingSame DEF SignAllocated, Goto, SeparatedInv
  <2>2. ~reused' /\ NonceInv'
    BY <1>4, <1>0 DEF SignAllocated, Sign, Goto, SeparatedInv, NonceInv
  <2>3. SignedInv'
    BY <1>4, <2>1
       DEF SignAllocated, Sign, Goto, SeparatedInv, NonceInv, SignedInv, Covered
  <2> QED
    BY <2>2, <2>3
<1>5. CASE SignFails(t) \/ Validate(t) \/ SignFixedFails(t)
  <2>1. \A w : Advancing(w)' <=> Advancing(w)
    BY <1>5, AdvancingSame
       DEF SignFails, Validate, SignFixedFails, Goto, SeparatedInv
  <2> QED
    BY <1>5, <2>1 DEF SignFails, Validate, SignFixedFails, Goto,
                      SeparatedInv, NonceInv, SignedInv, Covered
<1>6. CASE Update(t)
  <2>1. \A w : Advancing(w)' <=> Advancing(w)
    BY <1>6, AdvancingSame DEF Update, Goto, SeparatedInv
  <2>2. tracker' = tracker
    BY <1>6 DEF Update, Stored, Goto, SeparatedInv, NonceInv
  <2> QED
    BY <1>6, <2>1, <2>2
       DEF Update, Goto, SeparatedInv, NonceInv, SignedInv, Covered
<1>7. CASE StartBuild(t)
  <2>1. \A w : Advancing(w)' <=> Advancing(w)
    BY <1>7, AdvancingSame DEF StartBuild, Goto, SeparatedInv
  <2> QED
    BY <1>7, <2>1
       DEF StartBuild, Goto, SeparatedInv, NonceInv, SignedInv, Covered
<1>8. CASE ReadStart(t)
  <2>0. pc' = [pc EXCEPT ![t] = NextSigning(pre[t], post[t], FALSE)]
        /\ NextSigning(pre[t], post[t], FALSE) \in {"pick", "target", "validate"}
    BY <1>8, NextPhase DEF ReadStart, Goto
  <2>1. \A w : Advancing(w)' <=> Advancing(w)
    BY <1>8, <2>0, AdvancingSame DEF ReadStart, Goto, SeparatedInv
  <2>2. NonceInv'
    BY <1>8, <2>0 DEF ReadStart, SeparatedInv, NonceInv
  <2>3. SignedInv' /\ ~reused'
    BY <1>8, <2>1 DEF ReadStart, SeparatedInv, SignedInv, Covered
  <2> QED
    BY <2>2, <2>3
<1>9. CASE PickWallet(t)
  <2>1. \A w : Advancing(w)' <=> Advancing(w)
    BY <1>9, AdvancingSame DEF PickWallet, Goto, SeparatedInv
  <2>2. wallet' = wallet
    BY <1>9 DEF PickWallet, Goto, SeparatedInv, HeldInv
  <2> QED
    BY <1>9, <2>1, <2>2
       DEF PickWallet, Goto, SeparatedInv, NonceInv, SignedInv, Covered
<1>10. CASE SignFixed(t)
  <2>1. ~Advancing(wallet[t]) /\ Covered(wallet[t])
    BY <1>10, <1>0 DEF SignFixed, Goto, Advancing, SeparatedInv, SignedInv
  <2>2. nonce[t] = tracker[wallet[t]]
    BY <1>10 DEF SignFixed, Goto, SeparatedInv, NonceInv
  <2>3. ~reused' /\ NonceInv'
    BY <1>10, <1>0, <2>1, <2>2
       DEF SignFixed, Sign, Goto, SeparatedInv, NonceInv, Covered
  <2>4. \A w : Advancing(w)' <=> Advancing(w) \/ w = wallet[t]
    BY <1>10 DEF SignFixed, Goto, Advancing
  <2>5. \A w \in Wallets : w # wallet[t] => signed'[w] = signed[w]
    BY <1>10 DEF SignFixed, Sign, SeparatedInv
  <2>6. SignedInv'
    BY <1>10, <2>4, <2>5 DEF SignFixed, SeparatedInv, SignedInv, Covered
  <2> QED
    BY <2>3, <2>6
<1>11. CASE Advance(t)
  <2> DEFINE to == pc'[t]
  <2>0. /\ pc[t] = "advance"
        /\ to \in {"pick", "target", "validate"}
        /\ pc' = [pc EXCEPT ![t] = to]
    BY <1>11, NextPhase DEF Advance, Goto, SeparatedInv
  <2>1. /\ tracker' = [tracker EXCEPT ![wallet[t]] = nonce[t] + 1]
        /\ nonce' = [nonce EXCEPT ![t] = nonce[t] + 1]
        /\ wallet' = wallet /\ signed' = signed /\ reused' = reused
    BY <1>11 DEF Advance, Stored
  <2> HIDE DEF to
  <2>2. NonceInv'
    BY <1>0, <2>0, <2>1 DEF SeparatedInv, NonceInv
  <2>3. \A n \in signed[wallet[t]] : n <= nonce[t]
    BY <2>0 DEF SeparatedInv, NonceInv
  <2>4. Covered(wallet[t])'
    BY <2>1, <2>3 DEF Covered, SeparatedInv
  <2>5. \A w : w # wallet[t] /\ Advancing(w) => Advancing(w)'
    BY <2>0, <2>1 DEF Advancing
  <2>6. SignedInv'
    BY <2>1, <2>4, <2>5 DEF SeparatedInv, SignedInv, Covered
  <2> QED
    BY <2>1, <2>2, <2>6 DEF SeparatedInv
<1>12. CASE Target(t)
  <2>0. PICK to \in {"pick", "target", "validate", "idle"} :
          pc[t] = "target" /\ pc' = [pc EXCEPT ![t] = to]
    BY <1>12, NextPhase DEF Target, Goto
  <2>1. \A w : Advancing(w)' <=> Advancing(w)
    BY <1>12, <2>0, AdvancingSame DEF Target, SeparatedInv
  <2> QED
    BY <1>12, <2>0, <2>1
       DEF Target, SeparatedInv, NonceInv, SignedInv, Covered
<1>13. CASE SetDefaultWallet(t)
  BY <1>13 DEF SetDefaultWallet, SeparatedInv, NonceInv, SignedInv, Covered, Advancing
<1>14. CASE Reset(t)
  <2>1. PICK w \in OwnWallets[t], n \in Resets :
          /\ tracker' = [tracker EXCEPT ![w] = n]
          /\ signed' = [signed EXCEPT ![w] = {k \in @ : k < n}]
    BY <1>14 DEF Reset
  <2>2. UNCHANGED <<pc, wallet, nonce, reused>>
    BY <1>14 DEF Reset
  <2>3. ASSUME NEW u \in Signers, Busy(u) PROVE wallet[u] # w
    <3>1. u # t
      BY <1>14, <2>3 DEF Reset
    <3>2. wallet[u] \in OwnWallets[u]
      BY <2>3 DEF SeparatedInv, HeldInv
    <3> QED
      BY <3>1, <3>2 DEF Separated
  <2>4. w \in Wallets /\ \A v : Advancing(v)' <=> Advancing(v)
    BY <2>2 DEF Advancing
  <2>5. NonceInv'
    BY <2>1, <2>2, <2>3 DEF SeparatedInv, NonceInv
  <2>6. SignedInv'
    BY <2>1, <2>4 DEF SeparatedInv, SignedInv, Covered
  <2> QED
    BY <2>2, <2>5, <2>6 DEF SeparatedInv
<1> QED
  BY <1>1, <1>2, <1>3, <1>4, <1>5, <1>6, <1>7, <1>8, <1>9, <1>10,
     <1>11, <1>12, <1>13, <1>14 DEF Step

\* Every step keeps separated wallets apart, and their nonces unused.
LEMMA SeparatedStep ==
  ASSUME Separated, SeparatedInv, TypeInv', [SigningNext]_signingVars
  PROVE  SeparatedInv'
<1>1. CASE UNCHANGED signingVars
  BY <1>1 DEF signingVars, SeparatedInv, HeldInv, NonceInv, SignedInv, Busy, Covered,
              Advancing
<1>2. ASSUME NEW t \in Signers, Step(t) PROVE SeparatedInv'
  BY <1>2, HeldStep, NonceStep DEF SeparatedInv
<1> QED
  BY <1>1, <1>2 DEF SigningNext

\* Separated wallets stay apart in every behaviour.
LEMMA SeparatedAlways == ASSUME Separated PROVE SigningSpec => []SeparatedInv
<1>1. SigningInit /\ TypeInv => SeparatedInv
  BY SeparatedInit
<1>2. SeparatedInv /\ TypeInv' /\ [SigningNext]_signingVars => SeparatedInv'
  BY SeparatedStep
<1> QED
  BY <1>1, <1>2, TypeInvariant, PTL DEF SigningSpec

\* Any number of tasks may sign and build concurrently, with failing
\* signatures, abandoned builds and changes of the default wallet: as long
\* as each wallet has one task, no nonce is ever signed twice.
THEOREM SeparatedNonces == ASSUME Separated PROVE SigningSpec => []NoNonceCollision
<1>1. SeparatedInv => NoNonceCollision
  BY DEF SeparatedInv, NoNonceCollision
<1> QED
  BY <1>1, SeparatedAlways, PTL

\* ... and when no call is under way the tracker is above every signed nonce.
THEOREM SeparatedTracker == ASSUME Separated PROVE SigningSpec => []TrackerCoversSigned
<1>1. SeparatedInv => TrackerCoversSigned
  BY DEF SeparatedInv, SignedInv, Covered, Advancing, TrackerCoversSigned
<1> QED
  BY <1>1, SeparatedAlways, PTL

-----------------------------------------------------------------------------
\* The transactions of s belong to wallet w and count up to just below n.
UpToNonce(s, w, n) ==
  \A i \in 1..Len(s) : s[i][1] = w /\ s[i][2] + Len(s) + 1 = n + i

\* One more signature with the next nonce.
LEMMA UpToNonceAppend ==
  ASSUME NEW s \in Seq(Wallets \X Nat), NEW w \in Wallets, NEW n \in Nat,
         UpToNonce(s, w, n)
  PROVE  UpToNonce(Append(s, <<w, n>>), w, n + 1)
<1> DEFINE e == <<w, n>>
           a == Append(s, e)
<1>1. Len(s) \in Nat /\ Len(a) = Len(s) + 1
  OBVIOUS
<1>2. \A i \in 1..Len(s) : a[i] = s[i] /\ s[i][2] \in Nat
  OBVIOUS
<1>3. a[Len(s) + 1] = e /\ e[1] = w /\ e[2] = n
  OBVIOUS
<1> HIDE DEF a, e
<1>4. ASSUME NEW i \in 1..Len(s)
      PROVE  a[i][1] = w /\ a[i][2] + Len(a) + 1 = n + 1 + i
  <2>1. s[i][1] = w /\ s[i][2] + Len(s) + 1 = n + i
    BY DEF UpToNonce
  <2>2. s[i][2] \in Nat /\ a[i] = s[i]
    BY <1>2
  <2> QED
    BY <1>1, <2>1, <2>2
<1>5. \A i \in 1..Len(a) : i \in 1..Len(s) \/ i = Len(s) + 1
  BY <1>1
<1>6. UpToNonce(a, w, n + 1)
  <2>1. a[Len(s) + 1][2] + Len(a) + 1 = n + 1 + (Len(s) + 1)
    BY <1>1, <1>3
  <2> QED
    BY <1>3, <1>4, <1>5, <2>1 DEF UpToNonce
<1> QED
  BY <1>6 DEF a, e

\* A list of signatures up to a nonce is consecutive, of one wallet.
LEMMA UpToNonceConsecutive ==
  ASSUME NEW s \in Seq(Wallets \X Nat), NEW w \in Wallets, NEW n \in Nat,
         UpToNonce(s, w, n), NEW i \in DOMAIN s
  PROVE  s[i][1] = s[1][1] /\ s[i][2] = s[1][2] + i - 1
<1>1. i \in 1..Len(s) /\ 1 \in 1..Len(s) /\ Len(s) \in Nat
  OBVIOUS
<1>2. s[i][2] \in Nat /\ s[1][2] \in Nat
  BY <1>1
<1>3. /\ s[i][1] = w /\ s[i][2] + Len(s) + 1 = n + i
      /\ s[1][1] = w /\ s[1][2] + Len(s) + 1 = n + 1
  BY <1>1 DEF UpToNonce
<1>4. s[i][1] = s[1][1]
  BY <1>3
<1>5. s[i][2] = s[1][2] + i - 1
  <2> DEFINE x == s[i][2]
             y == s[1][2]
             l == Len(s)
  <2>1. /\ x \in Nat /\ y \in Nat /\ l \in Nat
        /\ x + l + 1 = n + i /\ y + l + 1 = n + 1
    BY <1>1, <1>2, <1>3
  <2> HIDE DEF x, y, l
  <2>2. i \in Nat
    BY <1>1
  <2>3. x = y + i - 1
    BY <2>1, <2>2, SMTT(30)
  <2> QED
    BY <2>3 DEF x, y
<1> QED
  BY <1>4, <1>5

\* The transactions of a bundle count up to the nonce the build holds, which
\* is the last one used while it is still to be stored.
Sequenced(t) ==
  /\ pc[t] = "start" => own[t] = <<>>
  /\ pc[t] \in {"pick", "signfixed", "target", "validate"} =>
       UpToNonce(own[t], wallet[t], nonce[t])
  /\ pc[t] = "advance" => UpToNonce(own[t], wallet[t], nonce[t] + 1)

SequenceInv == \A t \in Signers : Sequenced(t)

\* Every step keeps what a task has signed consecutive.
LEMMA SequenceStep ==
  ASSUME Separated, SeparatedInv, SequenceInv, NEW t \in Signers, Step(t)
  PROVE  SequenceInv'
<1> USE DEF TypeInv, TypeOK, job, history, SeparatedInv, Goto
<1>1. CASE SignWithDefault(t)
  BY <1>1 DEF SignWithDefault, SequenceInv, Sequenced
<1>2. CASE SignWithAddress(t)
  BY <1>2 DEF SignWithAddress, SequenceInv, Sequenced
<1>3. CASE Alloc(t)
  BY <1>3 DEF Alloc, SequenceInv, Sequenced
<1>4. CASE SignAllocated(t) \/ SignFails(t) \/ Update(t)
  BY <1>4 DEF SignAllocated, SignFails, Update, SequenceInv, Sequenced
<1>5. CASE StartBuild(t)
  <2>1. /\ pc[t] = "idle" /\ pc' = [pc EXCEPT ![t] = "start"]
        /\ wallet' = [wallet EXCEPT ![t] = default]
        /\ own' = [own EXCEPT ![t] = <<>>] /\ nonce' = nonce
    BY <1>5 DEF StartBuild
  <2> QED
    BY <2>1 DEF SequenceInv, Sequenced
<1>6. CASE ReadStart(t)
  <2>1. PICK to \in {"pick", "target", "validate"} :
          /\ pc[t] = "start" /\ pc' = [pc EXCEPT ![t] = to]
          /\ nonce' = [nonce EXCEPT ![t] = tracker[wallet[t]]]
          /\ wallet' = wallet /\ own' = own
    BY <1>6, NextPhase DEF ReadStart
  <2>2. UpToNonce(own[t], wallet[t], tracker[wallet[t]])
    BY <2>1 DEF SequenceInv, Sequenced, UpToNonce
  <2> QED
    BY <2>1, <2>2 DEF SequenceInv, Sequenced
<1>7. CASE PickWallet(t)
  <2>1. wallet' = wallet
    BY <1>7 DEF PickWallet, HeldInv
  <2> QED
    BY <1>7, <2>1 DEF PickWallet, SequenceInv, Sequenced
<1>8. CASE SignFixed(t)
  <2>1. /\ pc[t] = "signfixed" /\ pc' = [pc EXCEPT ![t] = "advance"]
        /\ own' = [own EXCEPT ![t] = Append(@, <<wallet[t], nonce[t]>>)]
        /\ wallet' = wallet /\ nonce' = nonce
    BY <1>8 DEF SignFixed
  <2>2. UpToNonce(own[t], wallet[t], nonce[t])
    BY <2>1 DEF SequenceInv, Sequenced
  <2>3. UpToNonce(Append(own[t], <<wallet[t], nonce[t]>>), wallet[t], nonce[t] + 1)
    <3>1. own[t] \in Seq(Wallets \X Nat) /\ wallet[t] \in Wallets /\ nonce[t] \in Nat
      OBVIOUS
    <3> QED
      BY <2>2, <3>1, UpToNonceAppend
  <2>4. /\ pc'[t] = "advance" /\ own'[t] = Append(own[t], <<wallet[t], nonce[t]>>)
        /\ \A u \in Signers : u # t => pc'[u] = pc[u] /\ own'[u] = own[u]
    BY <2>1
  <2>5. UpToNonce(own'[t], wallet'[t], nonce'[t] + 1)
    BY <2>1, <2>3, <2>4
  <2>6. Sequenced(t)'
    BY <2>4, <2>5 DEF Sequenced
  <2>7. ASSUME NEW u \in Signers, u # t PROVE Sequenced(u)'
    BY <2>1, <2>4, <2>7 DEF SequenceInv, Sequenced
  <2> QED
    BY <2>6, <2>7, Zenon DEF SequenceInv
<1>9. CASE Advance(t)
  <2> DEFINE to == pc'[t]
  <2>1. /\ pc[t] = "advance" /\ to \in {"pick", "target", "validate"}
        /\ pc' = [pc EXCEPT ![t] = to]
        /\ nonce' = [nonce EXCEPT ![t] = nonce[t] + 1]
        /\ wallet' = wallet /\ own' = own
    BY <1>9, NextPhase DEF Advance
  <2>2. nonce'[t] = nonce[t] + 1
    BY <2>1
  <2>3. UpToNonce(own[t], wallet[t], nonce[t] + 1)
    BY <2>1 DEF SequenceInv, Sequenced
  <2>4. UpToNonce(own'[t], wallet'[t], nonce'[t])
    BY <2>1, <2>2, <2>3
  <2>5. Sequenced(t)'
    BY <2>1, <2>4 DEF Sequenced
  <2>6. ASSUME NEW u \in Signers, u # t PROVE Sequenced(u)'
    BY <2>1, <2>6 DEF SequenceInv, Sequenced
  <2> QED
    BY <2>5, <2>6, Zenon DEF SequenceInv
<1>10. CASE Target(t)
  <2>1. PICK to \in {"pick", "target", "validate", "idle"} :
          pc[t] = "target" /\ pc' = [pc EXCEPT ![t] = to]
    BY <1>10, NextPhase DEF Target
  <2> QED
    BY <1>10, <2>1 DEF Target, SequenceInv, Sequenced
<1>11. CASE SignFixedFails(t) \/ Validate(t)
  BY <1>11 DEF SignFixedFails, Validate, SequenceInv, Sequenced
<1>12. CASE SetDefaultWallet(t) \/ Reset(t)
  BY <1>12 DEF SetDefaultWallet, Reset, SequenceInv, Sequenced
<1> QED
  BY <1>1, <1>2, <1>3, <1>4, <1>5, <1>6, <1>7, <1>8, <1>9, <1>10, <1>11,
     <1>12 DEF Step

\* A finished bundle carries consecutive nonces of one wallet, whatever is
\* signed, reset or chosen as default between the calls.
THEOREM SeparatedBundles == ASSUME Separated PROVE SigningSpec => []BundleSequenced
<1>1. SigningInit => SequenceInv
  BY DEF SigningInit, SequenceInv, Sequenced
<1>2. SeparatedInv /\ SequenceInv /\ [SigningNext]_signingVars => SequenceInv'
  <2>1. CASE UNCHANGED signingVars
    BY <2>1 DEF signingVars, SequenceInv, Sequenced
  <2> QED
    BY <2>1, SequenceStep DEF SigningNext
<1>3. SeparatedInv /\ SequenceInv => BundleSequenced
  <2>1. SUFFICES ASSUME SeparatedInv, SequenceInv, NEW t \in Signers,
                        pc[t] = "validate", NEW i \in DOMAIN own[t]
                 PROVE  /\ own[t][i][1] = own[t][1][1]
                        /\ own[t][i][2] = own[t][1][2] + i - 1
    BY DEF BundleSequenced
  <2>2. /\ own[t] \in Seq(Wallets \X Nat)
        /\ wallet[t] \in Wallets /\ nonce[t] \in Nat
    BY <2>1 DEF SeparatedInv, TypeInv, TypeOK
  <2>3. UpToNonce(own[t], wallet[t], nonce[t])
    BY <2>1 DEF SequenceInv, Sequenced
  <2> QED
    BY <2>1, <2>2, <2>3, UpToNonceConsecutive
<1> QED
  BY <1>1, <1>2, <1>3, SeparatedAlways, PTL DEF SigningSpec
=============================================================================
