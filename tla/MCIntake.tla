------------------------------ MODULE MCIntake ------------------------------
(***************************************************************************)
(* What happens to a transaction between the mempool and a bundle plan,    *)
(* for TLC.  The components share no state: `focus' picks one.             *)
(***************************************************************************)
EXTENDS FilterEngine, AbiDecoder, Strategies, Bot, DecisionStats

VARIABLE focus

intakeVars == <<filterVars, decoderVars, parsed, strategyVars, botVars, statsVars, focus>>

Rule(name, priority, conditions, action, arg) ==
  [name |-> name, enabled |-> TRUE, priority |-> priority, conditions |-> conditions,
   action |-> action, arg |-> arg]
Spam == Rule("spam", 200, {[type |-> "ValueRange", min |-> 0, max |-> 1],
                           [type |-> "GasPriceRange", min |-> 0, max |-> 10]}, "Reject", 0)
Limit(rate) == Rule("limit", 150, {}, "RateLimit", rate)
Dex == Rule("dex", 90, {[type |-> "TargetType", types |-> {"UniswapV2"}]}, "Accept", 0)
Night == Rule("night", 50, {[type |-> "TimeOfDay", start_hour |-> 22, end_hour |-> 6]},
              "SetPriority", 7)
MCConfigFiles == {<<Night, Spam, Dex>>, <<Limit(1), Night>>, <<Limit(1), Limit(2)>>}
MCNewRules == {Limit(2)}
FilterTx(value, gas, target) ==
  [value |-> value, gas_gwei |-> gas, target |-> target, selector |-> Missing,
   to |-> Missing, from |-> "sender", chars |-> 2, pattern |-> Missing]
MCFilterTxs == {FilterTx(0, 5, "Unknown"), FilterTx(0, 50, "UniswapV2")}

Tuned(setting, premium, multiple, slippage, min) ==
  [setting EXCEPT !.parameters =
     [min_target_value_eth |-> min, min_victim_value_eth |-> min,
      max_slippage_tolerance |-> slippage, max_front_run_multiple |-> multiple,
      gas_price_premium_percent |-> premium]]
MCSettings ==
  {[Setting(0, 1000, 100000, 90) EXCEPT !.enabled = FALSE],
   Tuned(Setting(250, 0, 30000, 0), 0, 10, 60, 1000),
   Tuned(Setting(100, 0, 200000, 40), -20, -5, 200, 0)}

Config(url, interval, pairs, min, mapping) ==
  [enabled |-> TRUE, ws_url |-> "wss", rpc_url |-> url, polling_interval_ms |-> interval,
   trading_pairs |-> pairs, min_backoff |-> min, max_backoff |-> 2,
   max_consecutive_failures |-> 3, token_mapping |-> mapping]
Mapping(btc) == [c \in {"BTC", "USDC"} |-> IF c = "BTC" THEN btc ELSE "address"]
MCConfigs ==
  {NoHyperLiquid, Config("https", 1000, <<3>>, 1, Mapping("address")),
   Config("https", 1000, <<3>>, 1, [c \in {"BTC"} |-> "address"]),
   Config("https", 1000, <<3>>, 1, Mapping("unprefixed")),
   Config("https", 1000, <<3>>, 1, Mapping("no hex")),
   Config("https", 50, <<3>>, 1, Mapping("address")),
   Config("https", 1000, <<3>>, 3, Mapping("address")),
   Config("https", 1000, <<11>>, 1, Mapping("address")),
   Config("https", 1000, <<>>, 1, Mapping("address")),
   [Config("ftp", 0, <<>>, 0, Mapping("no hex")) EXCEPT !.enabled = FALSE],
   Config("ftp", 1000, <<3>>, 1, Mapping("address"))}
Trade(coin, side, price, size) ==
  [kind |-> "trade", coin |-> coin, side |-> side, price |-> price, size |-> size]
MCMessages ==
  {Trade("BTC", "buy", 73, 11), Trade("BTC", "sell", 73, 11), Trade("BTC", "buy", NaN, 3),
   Trade("ETH", "buy", 5, 5), Trade("BTC", "sell", 5, 90000),
   [kind |-> "orderbook"], [kind |-> "error"]}
MCResults == {[opportunities |-> 0, ms |-> 10], [opportunities |-> 1, ms |-> 30]}

IntakeInit ==
  /\ focus \in {"filter", "decoder", "parser", "strategies", "bot", "stats"}
  /\ FilterInit /\ DecoderInit /\ ParserInit /\ StrategiesInit /\ BotInit
  /\ StatsInit

On(component) == focus = component /\ UNCHANGED focus
Filter(A) == On("filter") /\ A /\ UNCHANGED <<decoderVars, parsed, strategyVars, botVars, statsVars>>
Decoder(A) == On("decoder") /\ A /\ UNCHANGED <<filterVars, parsed, strategyVars, botVars, statsVars>>
Parser(A) == On("parser") /\ A /\ UNCHANGED <<filterVars, decoderVars, strategyVars, botVars, statsVars>>
Strategy(A) == On("strategies") /\ A /\ UNCHANGED <<filterVars, decoderVars, parsed, botVars, statsVars>>
MevBot(A) == On("bot") /\ A /\ UNCHANGED <<filterVars, decoderVars, parsed, strategyVars, statsVars>>
Stats(A) == On("stats") /\ A /\ UNCHANGED <<filterVars, decoderVars, parsed, strategyVars,
                                            botVars>>

IntakeNext ==
  \/ Filter(FilterNext) \/ Decoder(DecoderNext) \/ Parser(ParserNext)
  \/ Strategy(StrategiesNext) \/ MevBot(BotNext) \/ Stats(StatsNext)

\* main(), the processor of results and the reporter are tasks of the runtime and
\* go on whenever they can; a result is waited for, a report is due again and again.
IntakeSpec ==
  /\ IntakeInit /\ [][IntakeNext]_intakeVars
  /\ WF_intakeVars(MevBot(MainStep))
  /\ WF_intakeVars(Stats(Process)) /\ WF_intakeVars(Stats(Report))
=============================================================================
