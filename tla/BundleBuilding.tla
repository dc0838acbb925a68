--------------------------- MODULE BundleBuilding ---------------------------
(***************************************************************************)
(* What BundleBuilder makes of an opportunity (bundle/builder.rs, types.rs):*)
(* the builders registered by name, the transactions of each strategy, the *)
(* fees and the metadata that later decides whether the bundle expired.    *)
(* BundleSigning models the nonces of the same call.  Fees are in gwei and *)
(* the multiplier is in percent.                                           *)
(* Then two judgements about a bundle: what the batched simulation earns   *)
(* and which safety checks it violates (simulation_optimizer.rs), and      *)
(* whether a block holds its transactions in order (execution_tracker.rs). *)
(* Both are functions of their input; amounts are in units of 10^12 wei.   *)
(***************************************************************************)
EXTENDS Naturals, FiniteSets, Subsequences

CONSTANTS
  BundleParams,            \* records of fees, multiplier and expiry_seconds
  Opportunities,           \* records of strategy name, type, target and metadata
  MAX_BUNDLE_AGE,          \* bound: the age of a bundle, in seconds
  Unbuilt,                 \* no bundle yet, an error
  SimulatedCalls,          \* sequences of records of ok and gas cost
  GROSS_PROFIT,            \* 0.001 ETH in simulate_bundle_optimized
  Thresholds,              \* values of min_profit_threshold_wei
  BlockTxs,                \* hashes of transactions
  Unchecked                \* nothing was judged yet

ASSUME BuildingConstants ==
  /\ MAX_BUNDLE_AGE \in Nat
  /\ \A p \in BundleParams : {p.max_gas_price, p.max_priority_fee, p.gas_multiplier,
                              p.expiry_seconds} \subseteq Nat

ASSUME CheckConstants ==
  /\ GROSS_PROFIT \in Nat \ {0} /\ Thresholds \subseteq Nat \ {0}
  /\ SimulatedCalls \subseteq Seq([ok : BOOLEAN, cost : Nat])

Types == {"Arbitrage", "Backrun", "Sandwich"}

VARIABLES
  strategy_builders,       \* name |-> kind of the builder registered under it
  bundle,                  \* the bundle built, or Unbuilt
  age,                     \* seconds since created_at
  request,                 \* ghost: the opportunity and the parameters
  simulated,               \* a simulation and its judgement
  ordering                 \* a block, a bundle and the verdict

buildingVars == <<strategy_builders, bundle, age, request>>

BuildingInit ==
  /\ strategy_builders = [name \in {} |-> "Arbitrage"]
  /\ bundle = Unbuilt /\ age = 0 /\ request = Unbuilt

\* register_strategy_builder; no check that the name fits.
RegisterBuilder(name, kind) ==
  /\ strategy_builders' = [n \in DOMAIN strategy_builders \cup {name} |->
       IF n = name THEN kind ELSE strategy_builders[n]]
  /\ UNCHANGED <<bundle, age, request>>

-----------------------------------------------------------------------------
(* The strategy builders: gas limits of the transactions before and after  *)
(* the target, in thousands.  Another type of opportunity is an error.     *)

ArbitrageLegs == [pre |-> <<>>, post |-> <<300>>]
BackrunLegs == [pre |-> <<>>, post |-> <<250>>]
SandwichLegs == [pre |-> <<200>>, post |-> <<200>>]

Legs(type) ==
  CASE type = "Arbitrage" -> ArbitrageLegs
    [] type = "Backrun" -> BackrunLegs
    [] OTHER -> SandwichLegs

BuildBundleTransactions(kind, opportunity) ==
  IF opportunity.type = kind THEN Legs(kind) ELSE Unbuilt

\* validate_bundle of each builder: what is an error, not a warning
ValidArbitrage(legs) == legs.post # <<>>
ValidBackrun(legs) == legs.post # <<>>
ValidSandwich(legs) == legs.pre # <<>> /\ legs.post # <<>>
ValidBundle(kind, legs) ==
  CASE kind = "Arbitrage" -> ValidArbitrage(legs)
    [] kind = "Backrun" -> ValidBackrun(legs)
    [] OTHER -> ValidSandwich(legs)

\* create_target_template: its fields must be numbers, addresses and hex.
TargetParses(opportunity) == opportunity.target = "well-formed"

-----------------------------------------------------------------------------

\* calculate_gas_prices
MaxFeePerGas(params) ==
  LET multiplied == (params.max_gas_price * params.gas_multiplier) \div 100
      least == params.max_gas_price + params.max_priority_fee
  IN IF multiplied > least THEN multiplied ELSE least

\* A key of the metadata is written with its prefix.
Own(key) == <<"", key>>

\* create_bundle_metadata: the opportunity's keys get a prefix of their own.
BundleMetadata(opportunity, params) ==
  [k \in {Own("expiry_seconds")} \cup ({"opp_"} \X DOMAIN opportunity.metadata) |->
     IF k = Own("expiry_seconds") THEN params.expiry_seconds ELSE opportunity.metadata[k[2]]]

\* build_bundle_with_params, errors included
BuildBundle(opportunity, params) ==
  /\ bundle = Unbuilt
  /\ opportunity.strategy \in DOMAIN strategy_builders
  /\ LET kind == strategy_builders[opportunity.strategy]
         legs == BuildBundleTransactions(kind, opportunity)
     IN /\ legs # Unbuilt /\ TargetParses(opportunity) /\ ValidBundle(kind, legs)
        /\ bundle' = [legs |-> legs, max_fee |-> MaxFeePerGas(params),
                      priority_fee |-> params.max_priority_fee,
                      metadata |-> BundleMetadata(opportunity, params)]
  /\ request' = [opportunity |-> opportunity, params |-> params]
  /\ age' = 0
  /\ UNCHANGED strategy_builders

\* Bundle::is_expired: whole seconds, 30 when the metadata has no number.
IsExpired(b, seconds) ==
  seconds > (IF Own("expiry_seconds") \in DOMAIN b.metadata
             THEN b.metadata[Own("expiry_seconds")] ELSE 30)

SecondPasses ==
  /\ bundle # Unbuilt /\ age < MAX_BUNDLE_AGE /\ age' = age + 1
  /\ UNCHANGED <<strategy_builders, bundle, request>>

BuildingNext ==
  \/ \E o \in Opportunities, kind \in Types : RegisterBuilder(o.strategy, kind)
  \/ \E o \in Opportunities, p \in BundleParams : BuildBundle(o, p)
  \/ SecondPasses

-----------------------------------------------------------------------------
(* The judgements                                                          *)

checkVars == <<simulated, ordering>>

ChecksInit == simulated = Unchecked /\ ordering = Unchecked

-----------------------------------------------------------------------------
(* simulate_bundle_optimized and apply_safety_checks                       *)

\* The calls up to the first one that fails; the failing one costs nothing.
Executed(calls) ==
  LET bad == {i \in DOMAIN calls : ~calls[i].ok} IN
  {i \in DOMAIN calls : \A j \in bad : i < j}

\* The sum over a prefix of the calls
CostOf(calls) ==
  LET cost[n \in 0..Len(calls)] ==
        IF n = 0 THEN 0
        ELSE cost[n - 1] + (IF n \in Executed(calls) THEN calls[n].cost ELSE 0)
  IN cost[Len(calls)]

NetProfit(gross, cost) == IF gross > cost THEN gross - cost ELSE 0

ProfitEstimate(calls) ==
  LET success == Executed(calls) = DOMAIN calls
      gross == IF success THEN GROSS_PROFIT ELSE 0
  IN [success |-> success, gross |-> gross, cost |-> CostOf(calls),
      net |-> NetProfit(gross, CostOf(calls))]

\* Variant: the profit before gas is compared.
GrossViolations(estimate, threshold) ==
  (IF estimate.gross < threshold THEN {"ProfitBelowThreshold"} ELSE {})
  \cup (IF estimate.cost > estimate.gross THEN {"ExcessiveGasCost"} ELSE {})
  \cup (IF estimate.net = 0 /\ estimate.cost > 0 THEN {"NegativePnL"} ELSE {})

SafetyViolations(estimate, threshold) ==
  (IF estimate.net < threshold THEN {"ProfitBelowThreshold"} ELSE {})
  \cup (IF estimate.cost > estimate.gross THEN {"ExcessiveGasCost"} ELSE {})
  \cup (IF estimate.net = 0 /\ estimate.cost > 0 THEN {"NegativePnL"} ELSE {})

SimulateBundle(calls, threshold) ==
  /\ simulated = Unchecked /\ ordering = Unchecked
  /\ simulated' = [calls |-> calls, threshold |-> threshold,
                   estimate |-> ProfitEstimate(calls),
                   violations |-> SafetyViolations(ProfitEstimate(calls), threshold)]
  /\ UNCHANGED ordering

-----------------------------------------------------------------------------
(* verify_transaction_ordering                                             *)

\* Iterator::position: the first one
Position(block, hash) ==
  CHOOSE i \in DOMAIN block : block[i] = hash /\ \A j \in 1..i - 1 : block[j] # hash

Ascending(positions) == \A i \in 1..Len(positions) - 1 : positions[i] < positions[i + 1]

\* The hashes that are in the block, and whether their positions ascend.
VerifyOrdering(block, expected) ==
  LET present == Only(expected, Items(block))
      positions == [i \in DOMAIN present |-> Position(block, present[i])]
  IN [is_correct_order |-> Ascending(positions), actual_order |-> present]

CheckOrdering(block, expected) ==
  /\ simulated = Unchecked /\ ordering = Unchecked
  /\ ordering' = [block |-> block, expected |-> expected,
                  verified |-> VerifyOrdering(block, expected)]
  /\ UNCHANGED simulated

SeqsUpTo(S, n) == UNION {[1..k -> S] : k \in 0..n}

ChecksNext ==
  \/ \E calls \in SimulatedCalls, threshold \in Thresholds : SimulateBundle(calls, threshold)
  \/ \E block \in SeqsUpTo(BlockTxs, 4), expected \in SeqsUpTo(BlockTxs, 3) :
       \* a block has a transaction once
       /\ \A i, j \in DOMAIN block : block[i] = block[j] => i = j
       /\ CheckOrdering(block, expected)

-----------------------------------------------------------------------------
(* Properties                                                              *)

\* Whatever builder is registered under the name of a strategy, a bundle that is
\* built has the transactions of its opportunity's type: the front-run of a
\* sandwich is never left out (build_bundle_transactions, validate_bundle).
LegsFitOpportunity ==
  bundle # Unbuilt => bundle.legs = Legs(request.opportunity.type)

\* The fee cap covers the gas price and the tip for any multiplier, one below
\* 100% too, so that a bundle never pays a smaller tip than it offers
\* (calculate_gas_prices).
FeeCoversTip ==
  bundle # Unbuilt =>
    bundle.max_fee >= request.params.max_gas_price + bundle.priority_fee

\* A bundle expires by the parameters it was built with, also when the metadata
\* of its opportunity has an entry of that name (create_bundle_metadata,
\* is_expired).
ExpiresByParams ==
  bundle # Unbuilt => (IsExpired(bundle, age) <=> age > request.params.expiry_seconds)

\* A bundle without a safety violation ran to its end and earns the threshold
\* after its gas: neither a failed call, whose own gas is not counted, nor a
\* loss gets past the three checks (apply_safety_checks).
UnflaggedEarns ==
  simulated # Unchecked /\ simulated.violations = {} =>
    /\ \A i \in DOMAIN simulated.calls : simulated.calls[i].ok
    /\ GROSS_PROFIT >= CostOf(simulated.calls) + simulated.threshold

\* The order is confirmed exactly when the bundle's transactions that are in the
\* block form a part of the block read from left to right: the definition with
\* positions agrees with the one by deleting the others, also when a bundle names
\* a transaction twice (verify_transaction_ordering).
OrderIsThatOfBlock ==
  ordering # Unchecked =>
    (ordering.verified.is_correct_order <=>
       ordering.verified.actual_order = Only(ordering.block, Items(ordering.expected)))
=============================================================================
