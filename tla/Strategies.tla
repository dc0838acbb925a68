----------------------------- MODULE Strategies -----------------------------
(***************************************************************************)
(* The strategies of mev-strategies (arbitrage.rs, backrun.rs, sandwich.rs,*)
(* liquidation.rs and the helpers of strategy_types.rs): from a parsed     *)
(* transaction to an opportunity and from there to a bundle plan.  The     *)
(* engine may replace a strategy between the two, so the configuration a   *)
(* plan is made with need not be the one the opportunity was found with.   *)
(*                                                                         *)
(* Fixed point: values in 1/1000 ETH, profits and costs in 1/1000000 ETH,  *)
(* impacts in 1/10000, gas prices in 1/1000 gwei, multiples in 1/10,       *)
(* confidence, slippage and premium in percent.                            *)
(***************************************************************************)
EXTENDS Integers, Sequences

CONSTANTS
  TxValues,                \* values of transactions
  TxGasPrices,             \* gas prices of transactions
  Settings,                \* configurations a strategy may be registered with
  MAX_SETTINGS,            \* bound: changes of a configuration
  NotANumber,              \* what the decimal parser makes of a hex text
  Nothing                  \* no opportunity, no plan

Names == {"arbitrage", "backrun", "sandwich", "liquidation"}
Targets == {"UniswapV2", "UniswapV3", "SushiSwap", "Curve", "Balancer", "OrderBook",
            "Unknown"}

\* Gas prices are 1/10 gwei at least: the code has them in floating point, where
\* a percent of a price is never rounded away.
ASSUME StrategyConstants ==
  /\ TxValues \subseteq Nat
  /\ TxGasPrices \subseteq Nat /\ \A g \in TxGasPrices : g >= 100
  /\ \A c \in Settings :
       /\ c.max_gas_price \in Nat
       /\ {c.parameters.max_front_run_multiple,
           c.parameters.gas_price_premium_percent} \subseteq Int
  /\ MAX_SETTINGS \in Nat
  /\ Nothing \notin Targets

VARIABLES
  settings,                \* strategy |-> its StrategyConfig
  opportunity,             \* the opportunity found last
  plan,                    \* the plan made of it, Refused or Nothing
  setting_changes          \* number of replacements, for the bound

strategyVars == <<settings, opportunity, plan, setting_changes>>

\* The numbers a strategy reads from config.parameters.  They are not checked: a
\* file or a caller may give any.  One that is missing has its default.
DefaultParameters ==
  [min_target_value_eth |-> 500, min_victim_value_eth |-> 1000,
   max_slippage_tolerance |-> 5, max_front_run_multiple |-> 30,
   gas_price_premium_percent |-> 10]

Setting(priority, min_profit, max_gas_price, risk_tolerance) ==
  [enabled |-> TRUE, priority |-> priority, min_profit |-> min_profit,
   max_gas_price |-> max_gas_price, risk_tolerance |-> risk_tolerance,
   parameters |-> DefaultParameters]

\* The configuration each strategy is built with (risk_tolerance in percent).
DefaultSettings ==
  [arbitrage |-> Setting(200, 10000, 200000, 80),
   backrun |-> Setting(150, 5000, 150000, 70),
   sandwich |-> Setting(200, 10000, 200000, 50),
   liquidation |-> Setting(180, 2000, 120000, 60)]

StrategiesInit ==
  /\ settings = DefaultSettings
  /\ opportunity = Nothing /\ plan = Nothing /\ setting_changes = 0

-----------------------------------------------------------------------------
(* strategy_utils                                                          *)

AtMost(a, b) == IF a < b THEN a ELSE b

SaturatingSub(a, b) == IF a >= b THEN a - b ELSE 0

\* A negative number as u128
AsUnsigned(n) == IF n < 0 THEN 0 ELSE n

\* estimate_gas_cost
GasCost(gas, gwei) == (gas * gwei) \div 1000

\* calculate_confidence_score; the margin is part / whole, cut to 0..1.  min makes
\* 0 / 0, which is not a number, 1.0.
ConfidenceScore(part, whole, stability, volatility) ==
  LET margin == IF part >= whole THEN 100 ELSE (100 * part) \div whole IN
  (5 * margin + 3 * stability + 2 * (100 - volatility)) \div 10

\* calculate_priority_score
PriorityScore(profit, confidence, base) ==
  AtMost(255, base + (AtMost(profit \div 1000, 2000) * confidence * 50) \div 100000)

-----------------------------------------------------------------------------
(* What the strategies look for: is_..._candidate, the estimate of the     *)
(* profit, and the conditions of evaluate_transaction                      *)

\* value.parse(): the mempool reports values in hex, which is no number here.
Value(tx) == IF tx.decimal THEN tx.value ELSE NotANumber
AtLeast(tx, minimum) == Value(tx) # NotANumber /\ tx.value >= minimum

Capped(impact, cap) == AtMost(impact, cap)

\* find_arbitrage_opportunities and calculate_arbitrage_profit
ArbitrageProfit(tx) ==
  IF tx.target = "UniswapV2" THEN SaturatingSub(50000, GasCost(400, 80000)) ELSE 0
IsArbitrage(tx) ==
  /\ tx.target \in {"UniswapV2", "UniswapV3", "SushiSwap"}
  /\ AtLeast(tx, 1000)
  /\ tx.target = "UniswapV2"

\* is_backrun_candidate, analyze_price_impact and calculate_backrun_profit
IsBackrun(tx) ==
  /\ tx.target \in {"UniswapV2", "UniswapV3", "SushiSwap", "Curve"}
  /\ AtLeast(tx, settings.backrun.parameters.min_target_value_eth)
BackrunImpact(target, value) ==
  CASE target \in {"UniswapV2", "SushiSwap"} -> Capped((value * 30) \div 1000, 500)
    [] target = "UniswapV3" -> Capped((value * 20) \div 1000, 300)
    [] target = "Curve" -> Capped((value * 10) \div 1000, 100)
BackrunRate(target) ==
  CASE target \in {"UniswapV2", "SushiSwap"} -> 30
    [] target = "UniswapV3" -> 40
    [] target = "Curve" -> 50
BackrunProfit(target, value) ==
  SaturatingSub((value * BackrunImpact(target, value) * BackrunRate(target)) \div 1000,
                GasCost(150, 50000))

\* has_poor_slippage_protection: a minimum that is absent or no number counts
\* as no protection.
PoorSlippageProtection(tx) ==
  LET max_slippage == settings.sandwich.parameters.max_slippage_tolerance IN
  tx.amount_out_min # NotANumber =>
    IF tx.value = 0 THEN 100 >= max_slippage
    ELSE 100 * (tx.value - tx.amount_out_min) >= max_slippage * tx.value

\* is_sandwich_victim, estimate_price_impact and calculate_sandwich_profit
IsVictim(tx) ==
  /\ tx.target \in {"UniswapV2", "UniswapV3", "SushiSwap"}
  /\ AtLeast(tx, settings.sandwich.parameters.min_victim_value_eth)
  /\ PoorSlippageProtection(tx)
FrontRunSize(value, multiple) == (value * AsUnsigned(multiple)) \div 20
SandwichImpact(target, size) ==
  IF target = "UniswapV3" THEN Capped((size * 30) \div 1000, 1000)
  ELSE Capped((size * 50) \div 1000, 1500)
SandwichGross(target, value, multiple) ==
  LET front == FrontRunSize(value, multiple) IN
  (front * SandwichImpact(target, value + front)
     * (IF target = "UniswapV3" THEN 50 ELSE 40)) \div 1000
SandwichProfit(target, value, multiple) ==
  SaturatingSub(SandwichGross(target, value, multiple), GasCost(400, 100000))

Profit(s, target, value, multiple) ==
  CASE s = "arbitrage" -> ArbitrageProfit([target |-> target])
    [] s = "backrun" -> BackrunProfit(target, value)
    [] s = "sandwich" -> SandwichProfit(target, value, multiple)

FrontRunMultiple(s) == settings[s].parameters.max_front_run_multiple
ProfitNow(s, tx) == Profit(s, tx.target, tx.value, FrontRunMultiple(s))

Confidence(s, tx) ==
  CASE s = "arbitrage" -> ConfidenceScore(25, 1000, 90, 20)
    [] s = "backrun" ->
         ConfidenceScore(ProfitNow(s, tx), tx.value * 1000, 80,
                         BackrunImpact(tx.target, tx.value) \div 100)
    [] s = "sandwich" ->
         ConfidenceScore(ProfitNow(s, tx),
                         SandwichGross(tx.target, tx.value, FrontRunMultiple(s)), 70, 30)

\* evaluate_transaction of each strategy, and validate_sandwich_opportunity: the
\* front-run is half of what it allows.
Finds(s, tx) ==
  /\ settings[s].enabled
  /\ CASE s = "arbitrage" -> IsArbitrage(tx)
       [] s = "backrun" -> IsBackrun(tx) /\ BackrunImpact(tx.target, tx.value) >= 10
       [] s = "sandwich" -> IsVictim(tx)
       [] s = "liquidation" -> FALSE
  /\ ProfitNow(s, tx) >= settings[s].min_profit
  /\ s = "sandwich" => Confidence(s, tx) >= settings[s].risk_tolerance

\* Opportunities are independent of each other: one is followed.
EvaluateTransaction(s, tx) ==
  /\ opportunity = Nothing
  /\ opportunity' =
       IF ~Finds(s, tx) THEN Nothing
       ELSE [strategy |-> s, tx |-> tx, profit |-> ProfitNow(s, tx),
             confidence |-> Confidence(s, tx), multiple |-> FrontRunMultiple(s),
             priority |-> PriorityScore(ProfitNow(s, tx), Confidence(s, tx),
                                        settings[s].priority)]
  /\ plan' = Nothing
  /\ UNCHANGED <<settings, setting_changes>>

-----------------------------------------------------------------------------
(* Bundle plans                                                            *)

\* get_router_address
RouterAddress(target) ==
  IF target \in {"UniswapV2", "UniswapV3", "SushiSwap"} THEN target ELSE Nothing

\* gas_price.parse(), or 20 gwei
TargetGasPrice(tx) == IF tx.decimal THEN tx.gas_price ELSE 20000

\* Variant: the cap the strategy was built with.
BuiltInCap(s) == DefaultSettings[s].max_gas_price
MaxGasPrice(s) == settings[s].max_gas_price

\* create_sandwich_transactions: no cap, and any premium.
GasPremium(s) == settings[s].parameters.gas_price_premium_percent
SandwichGas(tx, premium) ==
  LET our_gas_price ==
        (TargetGasPrice(tx) * AsUnsigned(100 + premium)) \div 100
  IN <<our_gas_price + 1000, our_gas_price>>

\* calculate_competitive_gas_price and calculate_optimal_gas_price
PlannedGas(s, tx) ==
  CASE s = "arbitrage" -> <<AtMost(60000, MaxGasPrice(s)), AtMost(60000, MaxGasPrice(s))>>
    [] s = "backrun" -> <<AtMost(TargetGasPrice(tx) + TargetGasPrice(tx) \div 20,
                                 MaxGasPrice(s))>>
    [] s = "sandwich" -> SandwichGas(tx, GasPremium(s))

Refused == [gas_prices |-> <<>>]

\* create_bundle_plan of the strategy that found the opportunity.
CreatePlan ==
  /\ opportunity # Nothing /\ plan = Nothing
  /\ LET s == opportunity.strategy
         tx == opportunity.tx
     IN plan' = IF s # "arbitrage" /\ RouterAddress(tx.target) = Nothing THEN Refused
                ELSE [gas_prices |-> PlannedGas(s, tx), profit |-> opportunity.profit,
                      cap |-> settings[s].max_gas_price, premium |-> GasPremium(s)]
  /\ UNCHANGED <<settings, opportunity, setting_changes>>

\* update_config, or a strategy registered anew under the name.
UpdateConfig(s, c) ==
  /\ setting_changes < MAX_SETTINGS /\ setting_changes' = setting_changes + 1
  /\ settings' = [settings EXCEPT ![s] = c]
  /\ UNCHANGED <<opportunity, plan>>

StrategyTxs ==
  {[target |-> t, value |-> v, gas_price |-> g, amount_out_min |-> m, decimal |-> d] :
     t \in Targets, v \in TxValues, g \in TxGasPrices,
     m \in TxValues \cup {NotANumber}, d \in BOOLEAN}

StrategiesNext ==
  \/ \E s \in Names, tx \in StrategyTxs : EvaluateTransaction(s, tx)
  \/ CreatePlan
  \/ \E s \in Names, c \in Settings : UpdateConfig(s, c)

-----------------------------------------------------------------------------
(* Properties                                                              *)

\* An opportunity with a profit has one before it is rounded: what it earns is
\* more than its gas costs.  A loss, which the subtraction turns into 0, is
\* reported only by a strategy whose minimum is 0 (saturating_sub and
\* min_profit_wei).
NoLossReported ==
  opportunity # Nothing /\ opportunity.profit > 0 =>
    LET tx == opportunity.tx IN
    CASE opportunity.strategy = "backrun" ->
           tx.value * BackrunImpact(tx.target, tx.value) * BackrunRate(tx.target)
             > 7500 * 1000
      [] opportunity.strategy = "sandwich" ->
           SandwichGross(tx.target, tx.value, opportunity.multiple) > 40000
      [] OTHER -> TRUE

\* A larger trade on the same exchange, looked at with the same parameters, is
\* never worth less, in spite of the caps on its impact (analyze_price_impact,
\* estimate_price_impact).
LargerNotWorse ==
  opportunity # Nothing => \A v \in TxValues : v >= opportunity.tx.value =>
    Profit(opportunity.strategy, opportunity.tx.target, v, opportunity.multiple)
      >= opportunity.profit

\* The only opportunity no plan can be made of is a back-run on Curve: it passes
\* is_backrun_candidate, but get_router_address does not know the exchange.
PlannableUnlessCurve ==
  plan # Nothing =>
    (plan = Refused <=> opportunity.strategy = "backrun" /\ opportunity.tx.target = "Curve")

\* An arbitrage or a back-run never pays more than the cap in force when it is
\* planned, also when that was lowered after the opportunity was found.  A
\* sandwich does not look at the cap (create_sandwich_transactions).
WithinGasCap ==
  plan \notin {Nothing, Refused} /\ opportunity.strategy # "sandwich" =>
    \A i \in DOMAIN plan.gas_prices : plan.gas_prices[i] <= plan.cap

\* The front leg of a sandwich outbids the back leg, under any configuration; it
\* outbids its target unless the premium in force when it is planned is negative,
\* and the back leg does so too when the premium is positive
\* (create_sandwich_transactions).
LegsOutbid ==
  plan \notin {Nothing, Refused} /\ opportunity.strategy = "sandwich" =>
    /\ plan.gas_prices[1] > plan.gas_prices[2]
    /\ plan.premium >= 0 => plan.gas_prices[1] > opportunity.tx.gas_price
    /\ plan.premium > 0 => plan.gas_prices[2] > opportunity.tx.gas_price

\* An opportunity is worth what it says, and the plan made of it, perhaps
\* under another configuration, keeps to the cap it knows and outbids its target
\* as the premium says (evaluate_transaction and create_bundle_plan of the
\* strategies).
PlansSafe ==
  /\ NoLossReported
  /\ LargerNotWorse
  /\ PlannableUnlessCurve
  /\ WithinGasCap
  /\ LegsOutbid
=============================================================================
