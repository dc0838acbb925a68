------------------------------- MODULE DryRun -------------------------------
(***************************************************************************)
(* MainnetDryRun (mev-core/src/bundle/mainnet_dry_run.rs) as a client of   *)
(* the execution tracker: it hands bundles over one after the other, then  *)
(* asks for the status of each until a deadline.  Submissions are          *)
(* simulated (use_dummy_values), so blocks hold a bundle by chance only.   *)
(***************************************************************************)
EXTENDS ExecutionTracker, Sequences

CONSTANTS
  DryBundles,              \* the generated bundles, in order
  WAIT_ROUNDS              \* the timeout of wait_for_inclusions, in rounds

\* A run has bundles: min_bundles is 5 by default.
ASSUME DryRunConstants ==
  /\ DryBundles \in Seq(Tracked) /\ DryBundles # <<>>
  /\ WAIT_ROUNDS \in Nat

VARIABLES
  dry,                     \* the step of execute_dry_run
  inclusion_results,       \* local of execute_dry_run: bundle |-> result
  dry_metrics              \* DryRunMetrics

dryVars == <<dry, inclusion_results, dry_metrics>>

DryInit ==
  /\ dry = [at |-> "idle", i |-> 1, round |-> 0]
  /\ inclusion_results = [b \in Tracked |-> [target_block |-> 0, actual_block |-> 0]]
  /\ dry_metrics = [bundles_submitted |-> 0, bundles_included |-> 0, ordered |-> 0]

\* Any `?' ends the run and drops the results.
Aborted == [dry EXCEPT !.at = "aborted"]

ConnectToMempool ==
  /\ dry.at = "idle"
  /\ dry' \in {[dry EXCEPT !.at = "submit"], Aborted}
  /\ UNCHANGED <<trackerVars, inclusion_results, dry_metrics>>

\* submit_and_track_bundle: two blocks ahead of the latest one.
SubmitAndTrackBundle ==
  LET b == DryBundles[dry.i] IN
  /\ dry.at = "submit" /\ dry.i <= Len(DryBundles)
  /\ \/ /\ TrackBundle(b, Height + 2)
        /\ inclusion_results' = [inclusion_results EXCEPT ![b].target_block = Height + 2]
        /\ dry_metrics' = [dry_metrics EXCEPT !.bundles_submitted = @ + 1]
        /\ dry' = [dry EXCEPT !.i = @ + 1]
     \/ /\ dry' = Aborted
        /\ UNCHANGED <<trackerVars, inclusion_results, dry_metrics>>

BeginWait ==
  /\ dry.at = "submit" /\ dry.i > Len(DryBundles)
  /\ dry' = [dry EXCEPT !.at = "wait", !.i = 1]
  /\ UNCHANGED <<trackerVars, inclusion_results, dry_metrics>>

EndRound == [dry EXCEPT !.i = 1, !.round = @ + 1]
NextResult == IF dry.i < Len(DryBundles) THEN [dry EXCEPT !.i = @ + 1] ELSE EndRound

\* One result of a round of wait_for_inclusions.  A bundle the tracker let go is
\* an error of get_execution_status; one that expired ends the round for the
\* bundles behind it.
CheckStatus ==
  LET b == DryBundles[dry.i]
      t == tracked_bundles[b]
  IN /\ dry.at = "wait" /\ dry.round < WAIT_ROUNDS /\ Unlocked
     /\ \/ /\ inclusion_results[b].actual_block > 0
           /\ dry' = NextResult
           /\ UNCHANGED <<inclusion_results, dry_metrics>>
        \/ /\ inclusion_results[b].actual_block = 0 /\ t = Absent
           /\ dry' = Aborted
           /\ UNCHANGED <<inclusion_results, dry_metrics>>
        \/ /\ inclusion_results[b].actual_block = 0
           /\ t # Absent /\ t.status = "Included"
           /\ inclusion_results' = [inclusion_results EXCEPT ![b].actual_block = t.block_number]
           /\ dry_metrics' = [dry_metrics EXCEPT !.bundles_included = @ + 1]
           /\ dry' = NextResult
        \/ /\ t # Absent /\ inclusion_results[b].actual_block = 0
           /\ t.status \in {"Pending", "Expired"}
           /\ dry' = IF t.status = "Pending" THEN NextResult ELSE EndRound
           /\ UNCHANGED <<inclusion_results, dry_metrics>>
     /\ UNCHANGED trackerVars

\* analyze_results: in time when at most two blocks after the target.
AnalyzeResults ==
  /\ dry.at = "wait" /\ dry.round >= WAIT_ROUNDS
  /\ dry' = [dry EXCEPT !.at = "done"]
  /\ dry_metrics' = [dry_metrics EXCEPT !.ordered = Cardinality(
       {b \in Tracked : /\ inclusion_results[b].actual_block > 0
                        /\ inclusion_results[b].actual_block
                             <= inclusion_results[b].target_block + 2})]
  /\ UNCHANGED <<trackerVars, inclusion_results>>

DryStep ==
  ConnectToMempool \/ SubmitAndTrackBundle \/ BeginWait \/ CheckStatus \/ AnalyzeResults

DryNext ==
  \/ DryStep
  \/ /\ \/ Mine({}) \/ \E b \in Tracked : Mine({b} \X TxsOf)
        \/ \E b \in Tracked : Age(b)
        \/ MonitorStep
     /\ UNCHANGED dryVars

-----------------------------------------------------------------------------
(* Properties                                                              *)

\* What the report counts as included was seen whole in a block, once, also
\* when the tracker forgets it in between; and no rate exceeds one
\* (wait_for_inclusions, analyze_results).
ReportIsTrue ==
  /\ dry_metrics.bundles_included =
       Cardinality({b \in Tracked : inclusion_results[b].actual_block > 0})
  /\ dry_metrics.bundles_included <= dry_metrics.bundles_submitted
  /\ \A b \in Tracked : LET n == inclusion_results[b].actual_block IN
       n > 0 => {b} \X TxsOf \subseteq chain[n] /\ n >= inclusion_results[b].target_block

\* While it waits, the run is lost only to a bundle that was handed over and
\* that the tracker has let go, never to one it does not have yet.
LostToTracker ==
  dry.at = "aborted" /\ dry.i <= Len(DryBundles)
    /\ dry_metrics.bundles_submitted = Len(DryBundles)
    => LET b == DryBundles[dry.i] IN b \in tracks /\ tracked_bundles[b] = Absent

\* The dry run ends: failed bundles and a slow tracker only cost rounds.
DryRunEnds == dry.at = "submit" ~> dry.at \in {"done", "aborted"}
=============================================================================
