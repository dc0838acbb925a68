-------------------------- MODULE MCBundleSigning --------------------------
(***************************************************************************)
(* Instances of BundleSigning for TLC.                                     *)
(***************************************************************************)
EXTENDS BundleSigning, TLC

CONSTANTS builder, signer, hot, cold, other

\* Arbitrage and backrun bundles, and sandwiches.
StrategyPlans == {<<0, 1>>, <<1, 1>>}

TwoTasks == {builder, signer}
ThreeWallets == {hot, cold, other}
Builders == {builder}

ResetBack == {0, 1}

\* Each wallet belongs to one task.
Separate == (builder :> {hot, cold}) @@ (signer :> {other})
=============================================================================
