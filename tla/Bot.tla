-------------------------------- MODULE Bot --------------------------------
(***************************************************************************)
(* The bot binary (mev-bot main.rs): loading and validating the            *)
(* configuration (mev-config lib.rs, mev-hyperliquid config.rs), starting  *)
(* the monitoring server and the HyperLiquid services, the task that turns *)
(* messages of the feed into market events (process_ws_messages), the task *)
(* that adapts trades (adapter.rs), and the shutdown.  What the services   *)
(* do in between is in WsService, RpcService and ServiceManager.           *)
(***************************************************************************)
EXTENDS Integers, Subsequences

CONSTANTS
  Configs,                 \* configuration files
  Messages,                \* messages of the feed
  USDC_DECIMALS,           \* 6 in the code
  TOKEN_DECIMALS,          \* 18 in the code
  MAX_AMOUNT,              \* u128::MAX in the code
  MAX_MESSAGES,            \* bound: messages
  NaN, NoHyperLiquid

Trades == {m \in Messages : m.kind = "trade"}

ASSUME BotConstants ==
  /\ USDC_DECIMALS \in Nat \ {0} /\ TOKEN_DECIMALS \in Nat \ {0}
  /\ MAX_AMOUNT \in Nat /\ MAX_MESSAGES \in Nat
  /\ \A m \in Trades : m.price \in Int \cup {NaN} /\ m.size \in Int \cup {NaN}

VARIABLES
  main,                    \* where main() is; "failed" and "killed" are ends too
  bot_config,              \* the configuration, once it is read
  monitor,                 \* the monitoring task: "none", "binding", "serving", "ended"
  services,                \* the service manager: "none", "created", "running", "stopped"
  ws_messages,             \* channel from the feed to process_ws_messages
  market_data,             \* channel from there to the market data processor
  adapted,                 \* history: what became of each trade, in order
  arrived                  \* history: the messages of the feed

botVars == <<main, bot_config, monitor, services, ws_messages, market_data,
             adapted, arrived>>

BotInit ==
  /\ main = "load" /\ bot_config = NoHyperLiquid /\ monitor = "none"
  /\ services = "none" /\ ws_messages = <<>> /\ market_data = <<>>
  /\ adapted = <<>> /\ arrived = <<>>

-----------------------------------------------------------------------------
(* Configurations.  A URL is named by its scheme, an address by what is    *)
(* wrong with it, a trading pair by its length.                            *)

WsUrl(url) == url \in {"ws", "wss"}
HttpUrl(url) == url \in {"http", "https"}

\* HyperLiquidConfig::validate of mev-config, for an integration that is enabled
LoadValid(c) ==
  c # NoHyperLiquid /\ c.enabled =>
    /\ WsUrl(c.ws_url) /\ HttpUrl(c.rpc_url)
    /\ c.polling_interval_ms > 0 /\ c.trading_pairs # <<>>

\* Variant: addresses are not looked at.
ValidateNumbers(c) ==
  /\ WsUrl(c.ws_url) /\ HttpUrl(c.rpc_url) /\ c.polling_interval_ms >= 100
  /\ c.enabled => c.trading_pairs # <<>>
  /\ \A i \in DOMAIN c.trading_pairs : c.trading_pairs[i] \in 1..10
  /\ c.min_backoff > 0 /\ c.max_backoff >= c.min_backoff
  /\ c.max_consecutive_failures > 0

\* HyperLiquidConfig::validate of mev-hyperliquid
Validate(c) ==
  /\ WsUrl(c.ws_url) /\ HttpUrl(c.rpc_url) /\ c.polling_interval_ms >= 100
  /\ c.enabled => c.trading_pairs # <<>>
  /\ \A i \in DOMAIN c.trading_pairs : c.trading_pairs[i] \in 1..10
  /\ c.min_backoff > 0 /\ c.max_backoff >= c.min_backoff
  /\ c.max_consecutive_failures > 0
  /\ \A coin \in DOMAIN c.token_mapping : coin # "" /\ c.token_mapping[coin] = "address"

\* Address::from_str in TradeDataAdapter::new also takes one without its prefix.
Parses(address) == address \in {"address", "unprefixed"}

-----------------------------------------------------------------------------
(* Startup: every `?' ends the program                                     *)

\* load_from_file, or load_from_env, which has no HyperLiquid section.
LoadBotConfig(c) ==
  /\ main = "load"
  /\ bot_config' = c
  /\ main' = IF LoadValid(c) THEN "monitor" ELSE "failed"
  /\ UNCHANGED <<monitor, services, ws_messages, market_data, adapted, arrived>>

\* The metrics, the monitoring task and the strategy engine.
SpawnMonitor ==
  /\ main = "monitor" /\ main' = "manager" /\ monitor' = "binding"
  /\ UNCHANGED <<bot_config, services, ws_messages, market_data, adapted, arrived>>

\* HyperLiquidServiceManager::new, when the integration is configured and enabled.
CreateManager ==
  /\ main = "manager"
  /\ IF bot_config = NoHyperLiquid THEN main' = "running" /\ UNCHANGED services
     ELSE IF ~bot_config.enabled THEN main' = "running" /\ UNCHANGED services
     ELSE IF Validate(bot_config) THEN main' = "start" /\ services' = "created"
     ELSE main' = "failed" /\ UNCHANGED services
  /\ UNCHANGED <<bot_config, monitor, ws_messages, market_data, adapted, arrived>>

\* service_manager.start() of a new manager
StartServices ==
  /\ main = "start" /\ main' = "adapter" /\ services' = "running"
  /\ UNCHANGED <<bot_config, monitor, ws_messages, market_data, adapted, arrived>>

\* TradeDataAdapter::new_with_metrics and the two processing tasks.
CreateAdapter ==
  /\ main = "adapter"
  /\ main' = IF \A coin \in DOMAIN bot_config.token_mapping :
                  Parses(bot_config.token_mapping[coin])
             THEN "running" ELSE "failed"
  /\ UNCHANGED <<bot_config, monitor, services, ws_messages, market_data, adapted, arrived>>

-----------------------------------------------------------------------------
(* Market data                                                             *)

\* The feed delivers a message while the services run.
Deliver(m) ==
  /\ services = "running" /\ main \notin {"failed", "killed", "exited"}
  /\ Len(arrived) < MAX_MESSAGES
  /\ ws_messages' = Append(ws_messages, m) /\ arrived' = Append(arrived, m)
  /\ UNCHANGED <<main, bot_config, monitor, services, market_data, adapted>>

\* process_ws_messages passes trades and order books on.
ConvertMessage ==
  /\ ws_messages # <<>> /\ main \notin {"failed", "killed", "exited"}
  /\ ws_messages' = Tail(ws_messages)
  /\ market_data' = IF Head(ws_messages).kind \in {"trade", "orderbook"}
                    THEN Append(market_data, Head(ws_messages)) ELSE market_data
  /\ UNCHANGED <<main, bot_config, monitor, services, adapted, arrived>>

\* get_token_decimals
Decimals(coin) == IF coin \in {"USDC", "USDT"} THEN USDC_DECIMALS ELSE TOKEN_DECIMALS

Error == -1

\* 10.0.powi(decimals)
PowerOfTen(n) ==
  LET p[k \in 0..n] == IF k = 0 THEN 1 ELSE 10 * p[k - 1] IN p[n]

\* float_to_u256 of value / scale; a value that is not a number casts to 0.
ToUnits(value, scale, decimals) ==
  IF value = NaN THEN 0
  ELSE IF value < 0 THEN Error
  ELSE LET units == (value * PowerOfTen(decimals)) \div scale
       IN IF units > MAX_AMOUNT THEN Error ELSE units

\* Prices and sizes are in tenths, so their product is in hundredths.
UsdcValue(t) == IF t.price = NaN \/ t.size = NaN THEN NaN ELSE t.price * t.size

\* calculate_swap_amounts, the side left aside
SwapAmounts(t) ==
  <<ToUnits(UsdcValue(t), 100, Decimals("USDC")), ToUnits(t.size, 10, Decimals(t.coin))>>

\* create_swap_data: a buy pays USDC for the coin, a sale the coin for USDC.
AdaptTrade(t) ==
  LET a == SwapAmounts(t) IN
  IF {t.coin, "USDC"} \subseteq DOMAIN bot_config.token_mapping /\ Error \notin {a[1], a[2]}
  THEN IF t.side = "buy"
       THEN [ok |-> TRUE, trade |-> t, in |-> a[1], out |-> a[2],
             token_in |-> "USDC", token_out |-> t.coin]
       ELSE [ok |-> TRUE, trade |-> t, in |-> a[2], out |-> a[1],
             token_in |-> t.coin, token_out |-> "USDC"]
  ELSE [ok |-> FALSE, trade |-> t]

\* The market data processor: one trade adapted and evaluated, or logged.
ProcessEvent ==
  /\ main \in {"running", "stopping"} /\ market_data # <<>>
  /\ market_data' = Tail(market_data)
  /\ adapted' = IF Head(market_data).kind = "trade"
                THEN Append(adapted, AdaptTrade(Head(market_data))) ELSE adapted
  /\ UNCHANGED <<main, bot_config, monitor, services, ws_messages, arrived>>

-----------------------------------------------------------------------------
(* The monitoring server and the shutdown                                  *)

\* MetricsServer::start: bind fails when the port is taken, and then the task ends.
BindMonitor(ok) ==
  /\ monitor = "binding" /\ main \notin {"failed", "killed", "exited"}
  /\ monitor' = IF ok THEN "serving" ELSE "ended"
  /\ UNCHANGED <<main, bot_config, services, ws_messages, market_data, adapted, arrived>>

\* ctrl_c() catches the signal only once select! polls it.
Interrupt ==
  /\ main \notin {"failed", "killed", "exited", "stopping"}
  /\ main' = IF main = "running" THEN "stopping" ELSE "killed"
  /\ UNCHANGED <<bot_config, monitor, services, ws_messages, market_data, adapted, arrived>>

\* The first arm of select!
MonitorEnded ==
  /\ main = "running" /\ monitor = "ended" /\ main' = "stopping"
  /\ UNCHANGED <<bot_config, monitor, services, ws_messages, market_data, adapted, arrived>>

\* service_manager.stop(), if there is one, and the end of main.
Shutdown ==
  /\ main = "stopping" /\ main' = "exited"
  /\ services' = IF services = "running" THEN "stopped" ELSE services
  /\ UNCHANGED <<bot_config, monitor, ws_messages, market_data, adapted, arrived>>

MainStep ==
  \/ SpawnMonitor \/ CreateManager \/ StartServices \/ CreateAdapter
  \/ MonitorEnded \/ Shutdown

BotNext ==
  \/ \E c \in Configs : LoadBotConfig(c)
  \/ MainStep
  \/ \E m \in Messages : Deliver(m)
  \/ ConvertMessage \/ ProcessEvent
  \/ \E ok \in BOOLEAN : BindMonitor(ok)
  \/ Interrupt

-----------------------------------------------------------------------------
(* Properties                                                              *)

\* A startup that fails leaves no services behind: what could still fail after
\* start() was refused by validate() before it (main, TradeDataAdapter::new).
NoAbandonedServices == main = "failed" => services \in {"none", "created"}

\* Every trade that arrived was adapted or is in a channel, in the order of its
\* arrival, whatever failed to adapt before it (process_ws_messages and the
\* market data processor).
TradesKeptInOrder ==
  [i \in DOMAIN adapted |-> adapted[i].trade]
      \o Only(market_data, Trades) \o Only(ws_messages, Trades)
    = Only(arrived, Trades)

\* An adapted trade exchanges USDC for the coin at the trade's price: the USDC
\* leg is the price times the coins of the other leg, up to one unit
\* (calculate_swap_amounts, float_to_u256).
SwapAtPrice ==
  \A i \in DOMAIN adapted :
    LET e == adapted[i]
        t == e.trade
        usdc == IF e.token_in = "USDC" THEN e.in ELSE e.out
        coins == IF e.token_in = "USDC" THEN e.out ELSE e.in
        exact == t.price * coins * PowerOfTen(USDC_DECIMALS)
        unit == 10 * PowerOfTen(Decimals(t.coin))
    IN e.ok /\ UsdcValue(t) # NaN /\ t.coin # "USDC" =>
         usdc * unit <= exact /\ exact < (usdc + 1) * unit

\* The bot leaves no service behind when it fails to start, and no trade
\* behind or at another price while it runs (main, TradeDataAdapter).
BotSafe ==
  /\ NoAbandonedServices
  /\ TradesKeptInOrder
  /\ SwapAtPrice
=============================================================================
