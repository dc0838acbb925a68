-------------------------- MODULE ExecutionTracker --------------------------
(***************************************************************************)
(* ExecutionTracker (mev-core/src/bundle/execution_tracker.rs): one loop   *)
(* looks for the transactions of the tracked bundles in new blocks.        *)
(*                                                                         *)
(* check_bundle_inclusion holds the write lock of tracked_bundles over all *)
(* of its requests, so tracking and asking for a status wait for it.       *)
(***************************************************************************)
EXTENDS Naturals, FiniteSets

CONSTANTS
  Tracked,                 \* ids of bundles
  TxsOf,                   \* transactions of a bundle
  TARGET_BLOCK,            \* target_block of a bundle
  MAX_BLOCK,               \* bound: blocks that are mined
  Absent

ASSUME TrackerConstants ==
  /\ TARGET_BLOCK \in Nat /\ MAX_BLOCK \in Nat
  /\ TxsOf # {}
  /\ Absent \notin Tracked
  /\ Absent \notin [status : {"Pending", "Included", "Expired"},
                    target_block : Nat, block_number : Nat, last_check_block : Nat]

VARIABLES
  chain,                   \* external: block number |-> transactions in it
  tracked_bundles,
  latest_block,
  monitor,                 \* the monitoring loop
  aged,                    \* bundles older than max_tracking_duration
  unanswered,              \* history: bundles a block request failed for
  tracks                   \* history: bundles that were handed over

trackerVars == <<chain, tracked_bundles, latest_block, monitor, aged,
                 unanswered, tracks>>

Height == Cardinality(DOMAIN chain)
AtTick == [at |-> "tick", ids |-> {}, bundle |-> Absent, block |-> 0]

TrackerInit ==
  /\ chain = [n \in {} |-> {}]
  /\ tracked_bundles = [b \in Tracked |-> Absent]
  /\ latest_block = 0
  /\ monitor = AtTick
  /\ aged = {} /\ unanswered = {} /\ tracks = {}

\* A block is mined with some of the transactions that no block has yet.
Mine(T) ==
  /\ Height < MAX_BLOCK
  /\ \A n \in DOMAIN chain : chain[n] \cap T = {}
  /\ chain' = [n \in 1..Height + 1 |-> IF n <= Height THEN chain[n] ELSE T]
  /\ UNCHANGED <<tracked_bundles, latest_block, monitor, aged, unanswered, tracks>>

\* max_tracking_duration passes for a bundle.
Age(b) ==
  /\ tracked_bundles[b] # Absent
  /\ b \notin aged
  /\ aged' = aged \cup {b}
  /\ UNCHANGED <<chain, tracked_bundles, latest_block, monitor, unanswered, tracks>>

-----------------------------------------------------------------------------
Unlocked == monitor.bundle = Absent

TrackBundle(b, target) ==
  /\ Unlocked
  /\ b \notin tracks
  /\ tracks' = tracks \cup {b}
  /\ tracked_bundles' = [tracked_bundles EXCEPT
       ![b] = [status |-> "Pending", target_block |-> target, block_number |-> 0,
               last_check_block |-> 0]]
  /\ UNCHANGED <<chain, latest_block, monitor, aged, unanswered>>

\* get_latest_block_number: the node's height, or nothing when it fails.
LatestBlockNumber == {Height, latest_block}

\* A tick: update the latest block, then list the bundles to check.
Tick ==
  /\ monitor.at = "tick"
  /\ latest_block' \in LatestBlockNumber
  /\ monitor' = [monitor EXCEPT
       !.at = "check", !.ids = {b \in Tracked : tracked_bundles[b] # Absent}]
  /\ UNCHANGED <<chain, tracked_bundles, aged, unanswered, tracks>>

\* Variant: the first block of the range is left out.
LateStartBlock(t) ==
  1 + IF t.last_check_block > t.target_block THEN t.last_check_block
      ELSE t.target_block

StartBlock(t) ==
  IF t.last_check_block > t.target_block THEN t.last_check_block ELSE t.target_block

\* check_bundle_inclusion up to its loop: a bundle that is too old expires.
BeginCheck(b) ==
  /\ monitor.at = "check" /\ Unlocked
  /\ b \in monitor.ids
  /\ \/ /\ tracked_bundles[b].status = "Pending" /\ b \in aged
        /\ tracked_bundles' = [tracked_bundles EXCEPT ![b].status = "Expired"]
        /\ monitor' = [monitor EXCEPT !.ids = @ \ {b}]
     \/ /\ tracked_bundles[b].status = "Pending" /\ b \notin aged
        /\ monitor' = [monitor EXCEPT !.ids = @ \ {b}, !.bundle = b,
                                      !.block = StartBlock(tracked_bundles[b])]
        /\ UNCHANGED tracked_bundles
  /\ UNCHANGED <<chain, latest_block, aged, unanswered, tracks>>

\* check_block_for_bundle: every transaction of the bundle is in the block.
BundleInBlock(b, n) == n \in DOMAIN chain /\ {b} \X TxsOf \subseteq chain[n]

\* get_block_by_number answers; there is no block zero in the model, which
\* the node does not find.
CheckBlock ==
  LET b == monitor.bundle
      n == monitor.block
  IN /\ ~Unlocked /\ n <= latest_block
     /\ \/ /\ BundleInBlock(b, n)
           /\ tracked_bundles' = [tracked_bundles EXCEPT
                ![b].status = "Included", ![b].block_number = n]
           /\ monitor' = [monitor EXCEPT !.bundle = Absent, !.block = 0]
        \/ /\ ~BundleInBlock(b, n)
           /\ monitor' = [monitor EXCEPT !.block = n + 1]
           /\ UNCHANGED tracked_bundles
     /\ UNCHANGED <<chain, latest_block, aged, unanswered, tracks>>

\* It fails, and the loop goes on with the next block.
CheckBlockFails ==
  /\ ~Unlocked /\ monitor.block <= latest_block
  /\ monitor' = [monitor EXCEPT !.block = @ + 1]
  /\ unanswered' = unanswered \cup {monitor.bundle}
  /\ UNCHANGED <<chain, tracked_bundles, latest_block, aged, tracks>>

\* Not found in the range.
EndCheck ==
  /\ ~Unlocked /\ monitor.block > latest_block
  /\ tracked_bundles' = [tracked_bundles EXCEPT
       ![monitor.bundle].last_check_block = latest_block]
  /\ monitor' = [monitor EXCEPT !.bundle = Absent, !.block = 0]
  /\ UNCHANGED <<chain, latest_block, aged, unanswered, tracks>>

\* cleanup_expired_bundles keeps only what is pending and young: an included
\* bundle is forgotten in the tick that finds it.
CleanupExpiredBundles ==
  /\ monitor.at = "check" /\ Unlocked /\ monitor.ids = {}
  /\ tracked_bundles' = [b \in Tracked |->
       IF tracked_bundles[b] # Absent
          /\ (tracked_bundles[b].status # "Pending" \/ b \in aged)
         THEN Absent ELSE tracked_bundles[b]]
  /\ monitor' = AtTick
  /\ UNCHANGED <<chain, latest_block, aged, unanswered, tracks>>

MonitorStep ==
  \/ Tick
  \/ \E b \in Tracked : BeginCheck(b)
  \/ CheckBlock
  \/ CheckBlockFails
  \/ EndCheck
  \/ CleanupExpiredBundles

TrackerNext ==
  \/ \E T \in SUBSET (Tracked \X TxsOf) : Mine(T)
  \/ \E b \in Tracked : Age(b) \/ TrackBundle(b, TARGET_BLOCK)
  \/ MonitorStep

TrackerSpec == TrackerInit /\ [][TrackerNext]_trackerVars

-----------------------------------------------------------------------------
(* Properties                                                              *)

\* A bundle is reported included only in a block that holds all of its
\* transactions (check_block_for_bundle, also when some were mined earlier).
IncludedIsWhole ==
  \A b \in Tracked :
    tracked_bundles[b] # Absent /\ tracked_bundles[b].status = "Included" =>
      {b} \X TxsOf \subseteq chain[tracked_bundles[b].block_number]

\* Unless a request for a block failed, no block from the target to the last
\* one checked holds a bundle that is still pending: nothing is skipped
\* between two ticks (StartBlock and last_check_block in
\* check_bundle_inclusion).
NoBlockSkipped ==
  \A b \in Tracked \ unanswered :
    tracked_bundles[b] # Absent /\ tracked_bundles[b].status = "Pending" =>
      \A n \in DOMAIN chain :
        n >= tracked_bundles[b].target_block /\ n <= tracked_bundles[b].last_check_block
          => ~({b} \X TxsOf \subseteq chain[n])

\* Every bundle is let go in the end, found or expired, whatever the node
\* answers (start_monitoring).
TrackingEnds ==
  \A b \in Tracked : tracked_bundles[b] # Absent ~> tracked_bundles[b] = Absent
=============================================================================
