------------------------------ MODULE MCBundles ------------------------------
(***************************************************************************)
(* The components that submit and follow transactions and bundles, for TLC.*)
(* They share no state (each bundle operation of mev-core owns its own     *)
(* instance), so a behaviour is that of one of them: `focus' picks it.     *)
(***************************************************************************)
EXTENDS BundleSubmitter, ExecutionTracker, FailureHandler, RpcRequests, DryRun,
        KeyManager, BundleBuilding

Seqs == INSTANCE SequencesExt

VARIABLE focus

around == <<keyVars, buildingVars, checkVars, pollingVars>>
vars == <<submitterVars, trackerVars, failureVars, txVars, dryVars, around, focus>>

MCDryBundles == Seqs!SetToSeq(Tracked)
Params(price, tip, multiplier, expiry) ==
  [max_gas_price |-> price, max_priority_fee |-> tip, gas_multiplier |-> multiplier,
   expiry_seconds |-> expiry]
MCBundleParams == {Params(200, 2, 110, 2), Params(10, 2, 110, 1), Params(200, 0, 90, 0)}
Opportunity(strategy, type, metadata) ==
  [strategy |-> strategy, type |-> type, metadata |-> metadata, target |-> "well-formed"]
MCOpportunities ==
  {Opportunity("arb", "Arbitrage", [spread |-> 5]),
   Opportunity("other", "Backrun", [expiry_seconds |-> 3]),
   Opportunity("other", "Sandwich", [expiry_seconds |-> 0]),
   [Opportunity("arb", "Arbitrage", [spread |-> 5]) EXCEPT !.target = "decimal text"]}
MCCalls == UNION {[1..n -> [ok : BOOLEAN, cost : {0, 300, 500, 501}]] : n \in 0..2}

Init ==
  /\ focus \in {"submitter", "tracker", "handler", "transaction", "dry run",
                "keys", "building", "checks", "polling"}
  /\ SubmitterInit /\ TrackerInit /\ HandlerInit /\ TxInit /\ DryInit
  /\ KeysInit /\ BuildingInit /\ ChecksInit /\ PollingInit
  /\ focus # "keys" => \A f \in KeyFiles : key_files[f] = Torn
  /\ focus # "submitter" => ~bundle_rpc_endpoint /\ incomplete = {}

On(component) == focus = component /\ UNCHANGED focus

Submitter(A) ==
  On("submitter") /\ A /\ UNCHANGED <<trackerVars, failureVars, txVars, dryVars, around>>
Tracker_(A) ==
  On("tracker") /\ A /\ UNCHANGED <<submitterVars, failureVars, txVars, dryVars, around>>
Handler(A) ==
  On("handler") /\ A /\ UNCHANGED <<submitterVars, trackerVars, txVars, dryVars, around>>
Transaction(A) ==
  On("transaction") /\ A /\ UNCHANGED <<submitterVars, trackerVars, failureVars, dryVars, around>>
Dry(A) ==
  On("dry run") /\ A /\ UNCHANGED <<submitterVars, failureVars, txVars, around>>
Elsewhere == UNCHANGED <<submitterVars, trackerVars, failureVars, txVars, dryVars>>
KeyTask(A) == On("keys") /\ A /\ Elsewhere /\ UNCHANGED <<buildingVars, checkVars, pollingVars>>
Building(A) == On("building") /\ A /\ Elsewhere /\ UNCHANGED <<keyVars, checkVars, pollingVars>>
Checks(A) == On("checks") /\ A /\ Elsewhere /\ UNCHANGED <<keyVars, buildingVars, pollingVars>>
Polling(A) == On("polling") /\ A /\ Elsewhere /\ UNCHANGED <<keyVars, buildingVars, checkVars>>

Next ==
  \/ Submitter(SubmitterNext) \/ Tracker_(TrackerNext) \/ Handler(HandlerNext)
  \/ Transaction(TxNext) \/ Dry(DryNext)
  \/ KeyTask(KeysNext) \/ Building(BuildingNext) \/ Checks(ChecksNext)
  \/ Polling(PollingNext)

\* Every request has a timeout, timers fire, and time passes; the locks are
\* handed out in order.
Fairness ==
  /\ \A a \in Actors : WF_vars(Submitter(SubmitterStep(a)))
  /\ \A r \in Resubmitters : WF_vars(Submitter(ResubmitterStep(r)))
  /\ WF_vars(Polling(PollStep))
  /\ WF_vars(Tracker_(MonitorStep))
  /\ \A b \in Tracked :
       /\ WF_vars(Tracker_(Age(b))) /\ WF_vars(Dry(Age(b) /\ UNCHANGED dryVars))
  /\ WF_vars(Dry(DryStep))
  /\ WF_vars(Dry(MonitorStep /\ UNCHANGED dryVars))
  /\ \A h \in Handlers : SF_vars(Handler(HandlerStep(h)))
  /\ WF_vars(Handler(CleanupOldRecords))
  /\ \A r \in Requests :
       /\ WF_vars(Transaction(AttemptStep(r))) /\ WF_vars(Transaction(StartWait(r)))
       /\ WF_vars(Transaction(WaitStep(r)))

Spec == Init /\ [][Next]_vars /\ Fairness

\* What is reported of a bundle is what the blocks hold: whether it was
\* included, and what the dry run counts (check_bundle_inclusion,
\* analyze_results).
TrackerSafe ==
  /\ IncludedIsWhole
  /\ NoBlockSkipped
  /\ ReportIsTrue
  /\ LostToTracker

\* Retried requests of the RPC service neither execute a numbered
\* transaction twice nor report what the chain does not hold
\* (submit_transaction, wait_for_confirmation, poll_blockchain_state).
RpcSafe ==
  /\ NumberedOnce
  /\ LiveCopiesShareNonce
  /\ ConfirmedWasExecuted
  /\ EventsPaired

\* A bundle is built as its opportunity and its parameters say, passes the
\* checks only if it earns what it must, and is judged in order exactly when
\* its block holds it so (build_bundle_with_params, apply_safety_checks,
\* verify_transaction_ordering).
BundlesSound ==
  /\ LegsFitOpportunity
  /\ FeeCoversTip
  /\ ExpiresByParams
  /\ UnflaggedEarns
  /\ OrderIsThatOfBlock

\* Every loop, wait and call ends: resubmission, tracking, failure handling,
\* submission, dry run and poll; and no step but the caller's replaces the
\* default wallet (start_resubmission, start_monitoring, handle_failure,
\* wait_for_confirmation, wait_for_inclusions, execute_with_retry).
BundlesTemporal ==
  /\ DefaultStays
  /\ ResubmissionEnds
  /\ TrackingEnds
  /\ HandlersReturn
  /\ SubmissionsEnd
  /\ DryRunEnds
  /\ PollsEnd
=============================================================================
