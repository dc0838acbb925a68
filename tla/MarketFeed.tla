----------------------------- MODULE MarketFeed -----------------------------
(***************************************************************************)
(* What becomes of a text message of the exchange (mev-hyperliquid): the   *)
(* WebSocket service parses it (parser.rs), queues it and sends it on      *)
(* (websocket.rs); a task of the service manager keeps the market events   *)
(* (service_manager.rs); the opportunity detector compares each price with *)
(* the last one, and verifies what it finds by polling the chain           *)
(* (opportunity_detector.rs).                                              *)
(*                                                                         *)
(* A text is its channel and its data; a field is Missing when it is not   *)
(* there or not of its type.  Numbers arrive as strings: "NaN" is one.     *)
(* Market data carries the exchange's own time, which may lie before the   *)
(* clock of the bot or after it.                                           *)
(***************************************************************************)
EXTENDS Integers, Sequences

CONSTANTS
  Texts,                   \* the texts that the exchange sends
  Coins,
  MIN_SPREAD_BPS,          \* min_arbitrage_spread_bps
  MAX_AGE,                 \* max_market_data_age_ms
  LAG,                     \* blocks that an opportunity may be behind
  POLL_TIME,               \* the longest poll of the chain
  QUEUE_SIZE,              \* max_size of the message queue
  MAX_TEXTS, MAX_CLOCK, MAX_HEIGHT,   \* bounds
  Missing, NaN

ASSUME FeedConstants ==
  /\ {MIN_SPREAD_BPS, MAX_AGE, LAG, POLL_TIME} \subseteq Nat
  /\ QUEUE_SIZE \in Nat \ {0}
  /\ {MAX_TEXTS, MAX_CLOCK, MAX_HEIGHT} \subseteq Nat
  /\ Missing \notin Int /\ NaN \notin Int /\ Missing # NaN

VARIABLES
  verify_via_rpc,          \* configured
  clock,                   \* time of the bot
  height,                  \* external: the chain
  message_queue,           \* MessageQueue of the WebSocket service
  message_rx,              \* its channel, read by process_ws_messages
  market_data_rx, state_update_rx,     \* the channels of the detector
  open,                    \* channels whose receiver exists
  fed,                     \* channels whose sender exists
  market_prices, block_number,         \* what the detector caches
  detector,                \* its event loop
  emitted,                 \* history: what the last check sent, and how late
  received, taken, lost,   \* history: market events by number
  lastTrade, missed        \* history: the last trade of each coin that the
                           \* detector took, and jumps it did not examine

feedVars == <<verify_via_rpc, clock, height, message_queue, message_rx,
              market_data_rx, state_update_rx, open, fed, market_prices,
              block_number, detector, emitted, received, taken, lost,
              lastTrade, missed>>

Waiting == [at |-> "select"]

FeedInit ==
  /\ verify_via_rpc \in BOOLEAN
  /\ clock = 1 /\ height = LAG + 1
  /\ message_queue = <<>> /\ message_rx = <<>>
  /\ market_data_rx = <<>> /\ state_update_rx = <<>>
  /\ open = {"message", "market", "state"} /\ fed = {"market", "state"}
  /\ market_prices = [c \in Coins |-> Missing]
  /\ block_number = 0
  /\ detector = Waiting
  /\ emitted = {}
  /\ received = <<>> /\ taken = <<>> /\ lost = 0
  /\ lastTrade = [c \in Coins |-> Missing] /\ missed = 0

-----------------------------------------------------------------------------
(* parser.rs                                                               *)

ParseError == [type |-> "ParseError"]

\* value_to_f64: a number, or a string that parses as one.
IsNumber(v) == v = NaN \/ v \in Int

\* parse_trade takes every field that it names, from a record of them.
ParseTrade(d) ==
  IF d.coin # Missing /\ d.side \in {"A", "B"} /\ IsNumber(d.px) /\ d.time \in Nat
    THEN [type |-> "Trade", coin |-> d.coin, price |-> d.px, timestamp |-> d.time]
    ELSE ParseError

\* parse_orderbook, with the best level of each side, if there is one.
ParseOrderbook(d) ==
  IF /\ d.coin # Missing /\ \A l \in {d.bid, d.ask} : l = Missing \/ IsNumber(l)
     /\ d.time \in Nat
    THEN [type |-> "OrderBook", coin |-> d.coin, bid |-> d.bid, ask |-> d.ask,
          timestamp |-> d.time]
    ELSE ParseError

SubscriptionResponse(coin) == [type |-> "SubscriptionResponse", coin |-> coin]

\* The plain form of a response needs its type and its coin, ...
ParseSubscriptionResponse(d) ==
  IF Missing \in {d.type, d.coin} THEN ParseError ELSE SubscriptionResponse(d.coin)

\* ... one to "subscribe" its subscription only: it names "unknown" what that
\* leaves out.
ParseSubscription(d) ==
  IF d.method # "subscribe" THEN ParseSubscriptionResponse(d)
  ELSE IF d.subscription = Missing THEN ParseError
  ELSE IF d.subscription.coin = Missing THEN SubscriptionResponse("unknown")
  ELSE SubscriptionResponse(d.subscription.coin)

\* The two forms of an error.
ParseErrorMessage(d) ==
  IF d.message # Missing THEN [type |-> "Error"] ELSE ParseError

\* A comparison with NaN is false, so it is not refused.
NotPositive(v) == v # NaN /\ v # Missing /\ v <= 0

\* validate_message.
ValidateMessage(m) ==
  CASE m.type = "Trade" ->
         m.coin # "" /\ ~NotPositive(m.price) /\ m.timestamp # 0
    [] m.type = "OrderBook" ->
         /\ m.coin # "" /\ m.timestamp # 0
         /\ ~NotPositive(m.bid) /\ ~NotPositive(m.ask)
    [] m.type = "SubscriptionResponse" -> m.coin # ""
    [] OTHER -> TRUE

\* parse_message.  Of an array of trades only the first is taken: the others
\* are lost, unread.
ParseMessage(text) ==
  LET m == CASE text.channel = "trades" ->
                  IF text.data = <<>> THEN ParseError
                                      ELSE ParseTrade(Head(text.data))
             [] text.channel = "l2Book" -> ParseOrderbook(text.data)
             [] text.channel = "subscriptionResponse" ->
                  ParseSubscription(text.data)
             [] text.channel = "error" -> ParseErrorMessage(text.data)
             [] OTHER -> ParseError
  IN IF m # ParseError /\ ValidateMessage(m) THEN m ELSE ParseError

IsMarketData(m) == m.type \in {"Trade", "OrderBook"}

\* Coins holds every coin that the exchange names.
ASSUME CoinsNamed ==
  \A text \in Texts :
    LET m == ParseMessage(text) IN IsMarketData(m) => m.coin \in Coins

-----------------------------------------------------------------------------
(* websocket.rs and service_manager.rs                                     *)

\* MessageQueue::push drops the oldest message of a full queue.
QueuePush(q, m) ==
  Append(IF Len(q) >= QUEUE_SIZE THEN Tail(q) ELSE q, m)

\* process_message_queue empties the queue into the channel; when that is
\* closed, the message that finds it so is lost and the rest stays.
ProcessMessageQueue(q) ==
  \/ /\ "message" \in open
     /\ message_rx' = message_rx \o q
     /\ message_queue' = <<>>
     /\ UNCHANGED lost
  \/ /\ "message" \notin open
     /\ message_queue' = Tail(q)
     /\ lost' = lost + 1
     /\ UNCHANGED message_rx

\* handle_message of a text.  What is queued keeps the time of the exchange;
\* when it arrived is history.
HandleMessage(text) ==
  LET m == ParseMessage(text)
      event == [m |-> m, arrived |-> clock, n |-> Len(received) + 1]
  IN /\ Len(received) < MAX_TEXTS
     /\ "message" \in open => "market" \in fed
     /\ \/ /\ IsMarketData(m)
           /\ received' = Append(received, event.n)
           /\ ProcessMessageQueue(QueuePush(message_queue, event))
        \/ /\ ~IsMarketData(m)
           /\ UNCHANGED <<received, message_queue, message_rx, lost>>
     /\ UNCHANGED <<verify_via_rpc, clock, height, market_data_rx,
                    state_update_rx, open, fed, market_prices, block_number,
                    detector, emitted, taken, lastTrade, missed>>

\* process_ws_messages passes a market event on, and ends, which closes the
\* channel it reads, when nobody receives it.
ProcessWsMessage ==
  /\ "message" \in open /\ message_rx # <<>>
  /\ \/ /\ "market" \in open
        /\ market_data_rx' = Append(market_data_rx, Head(message_rx))
        /\ message_rx' = Tail(message_rx)
        /\ UNCHANGED <<open, fed, lost>>
     \/ /\ "market" \notin open
        /\ open' = open \ {"message"} /\ fed' = fed \ {"market"}
        /\ lost' = lost + Len(message_rx)
        /\ message_rx' = <<>>
        /\ UNCHANGED market_data_rx
  /\ UNCHANGED <<verify_via_rpc, clock, height, message_queue,
                 state_update_rx, market_prices, block_number, detector,
                 emitted, received, taken, lastTrade, missed>>

\* The RPC service sends the state that it polled.
SendStateUpdate ==
  /\ {"state"} \subseteq open \cap fed
  /\ state_update_rx = <<>> /\ block_number # height
  /\ state_update_rx' = <<height>>
  /\ UNCHANGED <<verify_via_rpc, clock, height, message_queue, message_rx,
                 market_data_rx, open, fed, market_prices, block_number,
                 detector, emitted, received, taken, lost, lastTrade, missed>>

\* A service is dropped, and with it a sender: that of the market events once
\* process_ws_messages has passed on what it had.
DropSender(c) ==
  /\ c \in fed
  /\ c = "market" => message_rx = <<>>
  /\ fed' = fed \ {c}
  /\ UNCHANGED <<verify_via_rpc, clock, height, message_queue, message_rx,
                 market_data_rx, state_update_rx, open, market_prices,
                 block_number, detector, emitted, received, taken, lost,
                 lastTrade, missed>>

-----------------------------------------------------------------------------
(* opportunity_detector.rs                                                 *)

\* The price that check_arbitrage_opportunity uses: a trade's, or the middle
\* of the book.
HlPrice(m) ==
  IF m.type = "Trade" THEN m.price
  ELSE IF Missing \in {m.bid, m.ask} THEN Missing
  ELSE IF NaN \in {m.bid, m.ask} THEN NaN
  ELSE (m.bid + m.ask) \div 2

Distance(a, b) == IF a < b THEN b - a ELSE a - b

\* In basis points, rounded down; NaN becomes 0.
SpreadBps(prev, p) ==
  IF NaN \in {prev, p} THEN 0 ELSE (Distance(prev, p) * 10000) \div prev

\* now.saturating_sub(timestamp).
SaturatingSub(a, b) == IF a > b THEN a - b ELSE 0
DataAge(e) == SaturatingSub(clock, e.m.timestamp)

\* check_arbitrage_opportunity up to the verification.
IsOpportunity(e) ==
  LET prev == market_prices[e.m.coin]
      p == HlPrice(e.m)
  IN /\ DataAge(e) <= MAX_AGE
     /\ p # Missing /\ prev # Missing
     /\ prev # 0 /\ p # 0
     /\ SpreadBps(prev, p) >= MIN_SPREAD_BPS

Jump(e) ==
  /\ e.m.type = "Trade" /\ DataAge(e) <= MAX_AGE
  /\ lastTrade[e.m.coin] \notin {Missing, NaN} /\ e.m.price # NaN
  /\ SpreadBps(lastTrade[e.m.coin], e.m.price) >= MIN_SPREAD_BPS

\* Variant: the price of a stale trade is not kept.
KeepFreshPrice(e) ==
  IF e.m.type = "Trade" /\ DataAge(e) <= MAX_AGE
    THEN [market_prices EXCEPT ![e.m.coin] = e.m.price] ELSE market_prices

\* process_trade keeps the price after the check; a book is not kept as one.
KeepPrice(e) ==
  IF e.m.type = "Trade" THEN [market_prices EXCEPT ![e.m.coin] = e.m.price]
                        ELSE market_prices

\* What is sent of an opportunity in e, seen at some block: how far it is
\* behind the chain, how old the data is by its own time, how long ago it
\* arrived, and how far its time was ahead of the clock then.
Emission(e, verified, block) ==
  [verified |-> verified, behind |-> SaturatingSub(height, block),
   age |-> DataAge(e), waited |-> clock - e.arrived,
   ahead |-> SaturatingSub(e.m.timestamp, e.arrived)]

\* select!: a market event; the loop verifies an opportunity before it takes
\* the next event of either channel, or sends it at once.
TakeMarketData ==
  /\ detector = Waiting /\ "market" \in open /\ market_data_rx # <<>>
  /\ LET e == Head(market_data_rx)
     IN /\ taken' = Append(taken, e.n)
        /\ \/ /\ IsOpportunity(e) /\ verify_via_rpc
              /\ detector' = [at |-> "verify", event |-> e, block |-> block_number,
                              detected |-> clock]
              /\ emitted' = {}
           \/ /\ IsOpportunity(e) /\ ~verify_via_rpc
              /\ emitted' = {Emission(e, FALSE, block_number)}
              /\ UNCHANGED detector
           \/ ~IsOpportunity(e) /\ emitted' = {} /\ UNCHANGED detector
        /\ market_prices' = KeepPrice(e)
        /\ lastTrade' = IF e.m.type = "Trade"
             THEN [lastTrade EXCEPT ![e.m.coin] = e.m.price] ELSE lastTrade
        /\ missed' = IF Jump(e) /\ ~IsOpportunity(e) THEN missed + 1 ELSE missed
  /\ market_data_rx' = Tail(market_data_rx)
  /\ UNCHANGED <<verify_via_rpc, clock, height, message_queue, message_rx,
                 state_update_rx, open, fed, block_number, received, lost>>

\* verify_opportunity_via_rpc: the poll answers within POLL_TIME; whether the
\* opportunity, 10 s old at most, has expired is asked before and not after it.
Verify ==
  /\ detector.at = "verify"
  /\ \/ height - detector.block > LAG /\ emitted' = {}
     \/ /\ height - detector.block <= LAG
        /\ emitted' = {Emission(detector.event, TRUE, detector.block)}
     \/ emitted' = {}              \* the poll fails, or finds a zero price
  /\ detector' = Waiting
  /\ UNCHANGED <<verify_via_rpc, clock, height, message_queue, message_rx,
                 market_data_rx, state_update_rx, open, fed, market_prices,
                 block_number, received, taken, lost, lastTrade, missed>>

\* select!: a state update.
TakeStateUpdate ==
  /\ detector = Waiting /\ state_update_rx # <<>>
  /\ block_number' = Head(state_update_rx)
  /\ state_update_rx' = Tail(state_update_rx)
  /\ UNCHANGED <<verify_via_rpc, clock, height, message_queue, message_rx,
                 market_data_rx, open, fed, market_prices, detector, emitted,
                 received, taken, lost, lastTrade, missed>>

\* Variant: the loop holds a sender of its own, so its channels never close.
ClingingEndDetector == detector = Waiting /\ fed = {"own"} /\ UNCHANGED feedVars

\* Both channels are closed and empty.
EndDetector ==
  /\ detector = Waiting /\ fed = {}
  /\ market_data_rx = <<>> /\ state_update_rx = <<>>
  /\ detector' = [at |-> "done"]
  /\ open' = open \ {"market", "state"}
  /\ UNCHANGED <<verify_via_rpc, clock, height, message_queue, message_rx,
                 market_data_rx, state_update_rx, fed, market_prices,
                 block_number, emitted, received, taken, lost, lastTrade,
                 missed>>

\* The task of the detector is dropped with its receivers.
DropDetector ==
  /\ detector.at \in {"select", "verify"}
  /\ detector' = [at |-> "dropped"]
  /\ open' = open \ {"market", "state"}
  /\ lost' = lost + Len(market_data_rx)
  /\ market_data_rx' = <<>> /\ state_update_rx' = <<>>
  /\ UNCHANGED <<verify_via_rpc, clock, height, message_queue, message_rx,
                 fed, market_prices, block_number, emitted, received, taken,
                 lastTrade, missed>>

-----------------------------------------------------------------------------
\* Time passes, but a poll is over in time.
FeedTick ==
  /\ clock < MAX_CLOCK
  /\ detector.at = "verify" => clock < detector.detected + POLL_TIME
  /\ clock' = clock + 1
  /\ UNCHANGED <<verify_via_rpc, height, message_queue, message_rx,
                 market_data_rx, state_update_rx, open, fed, market_prices,
                 block_number, detector, emitted, received, taken, lost,
                 lastTrade, missed>>

NewBlock ==
  /\ height < MAX_HEIGHT
  /\ height' = height + 1
  /\ UNCHANGED <<verify_via_rpc, clock, message_queue, message_rx,
                 market_data_rx, state_update_rx, open, fed, market_prices,
                 block_number, detector, emitted, received, taken, lost,
                 lastTrade, missed>>

DetectorStep == TakeMarketData \/ Verify \/ TakeStateUpdate \/ EndDetector

FeedNext ==
  \/ \E text \in Texts : HandleMessage(text)
  \/ ProcessWsMessage
  \/ SendStateUpdate
  \/ \E c \in {"market", "state"} : DropSender(c)
  \/ DetectorStep
  \/ DropDetector
  \/ FeedTick
  \/ NewBlock

FeedSpec == FeedInit /\ [][FeedNext]_feedVars

-----------------------------------------------------------------------------
(* Properties                                                              *)

Numbers(q) == [i \in DOMAIN q |-> q[i].n]

\* "Messages should be in order" (websocket.rs): the detector takes every
\* market event that was received, in the order of receipt, through three
\* queues and two tasks, until a receiver is dropped; and the queue between
\* two messages is empty, so that its limit is never met.
FeedInOrder ==
  /\ {"message", "market"} \subseteq open =>
       taken \o Numbers(market_data_rx) \o Numbers(message_rx) = received
  /\ Len(taken) + Len(market_data_rx) + Len(message_rx) + lost = Len(received)
  /\ message_queue = <<>>

\* No price that is not positive is ever cached as a market price: what the
\* parser lets through is positive, or "NaN", which no comparison refuses.
PricesPositive ==
  \A c \in Coins : market_prices[c] \in Int => market_prices[c] > 0

\* A verified opportunity is at most LAG blocks behind the chain when it is
\* emitted, so none is emitted before the first state update.  The market data
\* of any opportunity is by its own time no older than the limit and, where it
\* is verified, one poll: the age is checked when the event leaves the queue
\* and not when it enters.  Since a time ahead of the clock counts as fresh,
\* the data may have waited for longer, but by no more than its time was ahead
\* (check_arbitrage_opportunity, verify_opportunity_via_rpc).
EmittedInTime ==
  \A o \in emitted :
    LET limit == MAX_AGE + (IF o.verified THEN POLL_TIME ELSE 0)
    IN /\ o.verified => o.behind <= LAG
       /\ o.age <= limit
       /\ o.waited <= limit + o.ahead

\* Every jump between two consecutive trades of a coin that the detector takes
\* is examined while its data is fresh, though stale trades and books come
\* between, unless one of the prices is "NaN" (process_trade compares before it
\* keeps the price).  Of the trades in one message it takes the first only.
NoJumpMissed == missed = 0

\* The detector ends by itself only when no service can send to it any more
\* and its channels are empty, so nothing is left unread (start).
DetectorDrains ==
  detector.at = "done" =>
    fed = {} /\ market_data_rx = <<>> /\ state_update_rx = <<>>

\* When both services are gone the detector does end.
DetectorEnds == fed = {} ~> detector.at \in {"done", "dropped"}

\* The detector works on the market as the messages report it: every event in
\* order, no price compared with another than the one before, and nothing
\* emitted from data stale by its own time (process_message_queue, process_trade,
\* verify_opportunity_via_rpc).
MarketSafe ==
  /\ FeedInOrder
  /\ PricesPositive
  /\ EmittedInTime
  /\ NoJumpMissed
  /\ DetectorDrains
=============================================================================
