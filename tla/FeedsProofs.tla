----------------------------- MODULE FeedsProofs -----------------------------
(***************************************************************************)
(* Proofs about the components that bring data into the bot, for any texts,*)
(* transactions, headers, threads and limits.  MCFeeds lets one of them act*)
(* in a behaviour; each follows its own specification in it.               *)
(***************************************************************************)
EXTENDS MCFeeds, FiniteSetTheorems, SequenceTheorems, SubsequenceProofs,
        TLAPS

-----------------------------------------------------------------------------
(* The market feed and the opportunity detector                            *)

Positive == {i \in Int : i > 0}
\* What the parser lets through as a price.
Prices == Positive \cup {NaN}
GoodMessage(m) ==
  /\ m.type \in {"Trade", "OrderBook"}
  /\ m.type = "Trade" => m.coin \in Coins /\ m.price \in Prices
  /\ m.timestamp \in Nat

MarketEvents == {e \in [m : {ParseMessage(text) : text \in Texts},
                        arrived : Nat, n : Nat] : GoodMessage(e.m)}

FeedTypes ==
  /\ clock \in Nat /\ lost \in Nat
  /\ taken \in Seq(Nat) /\ received \in Seq(Nat)
  /\ message_rx \in Seq(MarketEvents) /\ market_data_rx \in Seq(MarketEvents)
  /\ market_prices \in [Coins -> Prices \cup {Missing}]
  /\ detector.at \in {"select", "verify", "done", "dropped"}

\* A detector that has ended receives nothing.
DetectorClosed ==
  detector.at \in {"done", "dropped"} => {"market", "state"} \cap open = {}

\* What is verified was young when it was found, one poll ago at most.
VerifiesInTime ==
  detector.at = "verify" =>
    /\ detector.detected \in Nat /\ detector.event \in MarketEvents
    /\ detector.detected - detector.event.m.timestamp <= MAX_AGE
    /\ clock <= detector.detected + POLL_TIME

MarketInv ==
  /\ FeedTypes
  /\ FeedInOrder
  /\ lastTrade = market_prices /\ NoJumpMissed
  /\ DetectorClosed
  /\ VerifiesInTime
  /\ EmittedInTime
  /\ DetectorDrains

\* The constants, as the provers use them.
LEMMA FeedValues ==
  /\ {MIN_SPREAD_BPS, MAX_AGE, LAG, POLL_TIME} \subseteq Nat
  /\ MAX_AGE \in Nat /\ POLL_TIME \in Nat /\ LAG \in Nat
  /\ QUEUE_SIZE \in Nat /\ QUEUE_SIZE > 0
  /\ Missing \notin Int /\ NaN \notin Int /\ Missing # NaN
  BY FeedConstants

\* A market message of the parser has a positive price, or "NaN".
LEMMA ParsedIsGood ==
  ASSUME NEW text \in Texts, IsMarketData(ParseMessage(text))
  PROVE  GoodMessage(ParseMessage(text))
<1> DEFINE m == ParseMessage(text)
<1>1. m.type \in {"Trade", "OrderBook"}
  BY DEF IsMarketData
<1>2. m.coin \in Coins
  BY CoinsNamed
<1>3. ASSUME m.type = "Trade" PROVE m.price \in Prices
  <2>1. m # ParseError /\ ValidateMessage(m)
    BY <1>3 DEF ParseMessage, ParseError
  <2>2. PICK d : m = ParseTrade(d)
    <3>1. \/ m = ParseTrade(Head(text.data))
          \/ m = ParseOrderbook(text.data)
          \/ m = ParseSubscription(text.data)
          \/ m = ParseErrorMessage(text.data)
          \/ m = ParseError
      BY DEF ParseMessage
    <3>2. /\ ParseOrderbook(text.data).type # "Trade"
          /\ ParseSubscription(text.data).type # "Trade"
          /\ ParseErrorMessage(text.data).type # "Trade"
          /\ ParseError.type # "Trade"
      BY DEF ParseOrderbook, ParseSubscription, ParseSubscriptionResponse,
             SubscriptionResponse, ParseErrorMessage, ParseError
    <3>3. QED
      BY <1>3, <3>1, <3>2
  <2>3. m.price = NaN \/ m.price \in Int
    BY <2>1, <2>2 DEF ParseTrade, IsNumber
  <2>4. ~NotPositive(m.price)
    BY <1>3, <2>1 DEF ValidateMessage
  <2>5. QED
    BY <2>3, <2>4, FeedValues DEF NotPositive, Prices, Positive
<1>4. m.timestamp \in Nat
  <2>1. /\ \A d : ParseSubscription(d).type \notin {"Trade", "OrderBook"}
        /\ \A d : ParseErrorMessage(d).type \notin {"Trade", "OrderBook"}
        /\ ParseError.type \notin {"Trade", "OrderBook"}
    BY DEF ParseSubscription, ParseSubscriptionResponse, SubscriptionResponse,
           ParseErrorMessage, ParseError
  <2>2. m \in {ParseTrade(Head(text.data)), ParseOrderbook(text.data)}
    BY <1>1, <2>1 DEF ParseMessage
  <2>3. m # ParseError
    BY <1>1, <2>1
  <2>4. QED
    BY <2>2, <2>3 DEF ParseTrade, ParseOrderbook
<1>5. QED
  BY <1>1, <1>2, <1>3, <1>4 DEF GoodMessage

\* The numbers of a queue follow it as it grows and shrinks.
LEMMA NumbersOf ==
  ASSUME NEW q \in Seq(MarketEvents)
  PROVE  /\ Numbers(q) \in Seq(Nat) /\ Len(Numbers(q)) = Len(q)
         /\ q = <<>> => Numbers(q) = <<>>
         /\ \A e \in MarketEvents : Numbers(Append(q, e)) = Append(Numbers(q), e.n)
         /\ q # <<>> => /\ Numbers(q) # <<>>
                        /\ Head(Numbers(q)) = Head(q).n
                        /\ Numbers(Tail(q)) = Tail(Numbers(q))
<1>1. \A i \in 1 .. Len(q) : q[i].n \in Nat
  BY DEF MarketEvents
<1>2. Numbers(q) \in Seq(Nat) /\ Len(Numbers(q)) = Len(q)
  BY <1>1 DEF Numbers
<1>3. ASSUME NEW e \in MarketEvents
      PROVE  Numbers(Append(q, e)) = Append(Numbers(q), e.n)
  <2>1. e.n \in Nat
    BY DEF MarketEvents
  <2>2. Append(q, e) \in Seq(MarketEvents)
    OBVIOUS
  <2>3. /\ Numbers(Append(q, e)) \in Seq(Nat)
        /\ Len(Numbers(Append(q, e))) = Len(q) + 1
    <3>1. \A i \in 1 .. Len(Append(q, e)) : Append(q, e)[i].n \in Nat
      BY <2>2 DEF MarketEvents
    <3>2. QED
      BY <2>2, <3>1 DEF Numbers
  <2>4. \A i \in 1 .. Len(q) + 1 :
          Numbers(Append(q, e))[i] = Append(Numbers(q), e.n)[i]
    BY <1>2, <2>1 DEF Numbers
  <2>5. Append(Numbers(q), e.n) \in Seq(Nat)
        /\ Len(Append(Numbers(q), e.n)) = Len(q) + 1
    BY <1>2, <2>1
  <2>6. QED
    BY <2>3, <2>4, <2>5, SeqEqual
<1>4. ASSUME q # <<>>
      PROVE  /\ Numbers(q) # <<>> /\ Head(Numbers(q)) = Head(q).n
             /\ Numbers(Tail(q)) = Tail(Numbers(q))
  <2>1. Len(q) \in Nat /\ Len(q) > 0
    BY <1>4, EmptySeq
  <2>2. Numbers(q) # <<>>
    BY <1>2, <2>1
  <2>3. Head(Numbers(q)) = Head(q).n
    BY <1>2, <2>1, <2>2 DEF Numbers
  <2>4. Tail(q) \in Seq(MarketEvents) /\ Len(Tail(q)) = Len(q) - 1
    BY <1>4, <2>1
  <2>5. /\ Numbers(Tail(q)) \in Seq(Nat)
        /\ Len(Numbers(Tail(q))) = Len(q) - 1
    <3>1. \A i \in 1 .. Len(Tail(q)) : Tail(q)[i].n \in Nat
      BY <2>4 DEF MarketEvents
    <3>2. QED
      BY <2>4, <3>1 DEF Numbers
  <2>6. Tail(Numbers(q)) \in Seq(Nat) /\ Len(Tail(Numbers(q))) = Len(q) - 1
    BY <1>2, <2>1, <2>2
  <2>7. \A i \in 1 .. Len(q) - 1 : Numbers(Tail(q))[i] = Tail(Numbers(q))[i]
    BY <1>2, <1>4, <2>1, <2>2, <2>4 DEF Numbers
  <2>8. QED
    BY <2>2, <2>3, <2>5, <2>6, <2>7, SeqEqual
<1>5. q = <<>> => Numbers(q) = <<>>
  BY <1>2
<1>6. QED
  BY <1>2, <1>3, <1>4, <1>5

\* Moving the head of a queue to the end of the one before it keeps the
\* sequence of both.
LEMMA HeadMoves ==
  ASSUME NEW S, NEW A \in Seq(S), NEW B \in Seq(S), B # <<>>
  PROVE  Append(A, Head(B)) \o Tail(B) = A \o B
<1>1. Head(B) \in S /\ Tail(B) \in Seq(S)
  BY HeadTailProperties
<1>2. PICK h \in S, D \in Seq(S) : h = Head(B) /\ D = Tail(B)
  BY <1>1
<1>3. <<h>> \in Seq(S)
  OBVIOUS
<1>4. <<h>> \o D = B
  <2>1. Len(D) = Len(B) - 1 /\ \A i \in 1 .. Len(B) - 1 : D[i] = B[i + 1]
    BY <1>2, HeadTailProperties
  <2>2. Len(B) \in Nat /\ Len(B) > 0 /\ h = B[1]
    BY <1>2, EmptySeq
  <2>3. <<h>> \o D \in Seq(S) /\ Len(<<h>> \o D) = Len(B)
    BY <1>3, <2>1, <2>2
  <2>4. \A i \in 1 .. Len(B) : (<<h>> \o D)[i] = B[i]
    BY <1>3, <2>1, <2>2
  <2>5. QED
    BY <2>3, <2>4, SeqEqual
<1>5. Append(A, h) \o D = (A \o <<h>>) \o D
  BY AppendIsConcat
<1>6. (A \o <<h>>) \o D = A \o (<<h>> \o D)
  BY <1>3, ConcatAssociative
<1>7. QED
  BY <1>2, <1>4, <1>5, <1>6

\* What is appended to the last queue is appended to the sequence of both.
LEMMA TailGrows ==
  ASSUME NEW S, NEW A \in Seq(S), NEW B \in Seq(S), NEW x \in S
  PROVE  /\ A \o Append(B, x) = Append(A \o B, x)
         /\ B \o <<x>> = Append(B, x)
<1>1. <<x>> \in Seq(S) /\ A \o B \in Seq(S)
  OBVIOUS
<1>2. Append(B, x) = B \o <<x>> /\ Append(A \o B, x) = (A \o B) \o <<x>>
  BY <1>1, AppendIsConcat
<1>3. (A \o B) \o <<x>> = A \o (B \o <<x>>)
  BY <1>1, ConcatAssociative
<1>4. QED
  BY <1>2, <1>3

\* A new service has nothing queued, kept or emitted.
LEMMA FeedInitially == FeedInit => MarketInv
<1> SUFFICES ASSUME FeedInit PROVE MarketInv
  OBVIOUS
<1> USE DEF FeedInit
<1>1. FeedTypes
  <2>1. detector.at = "select"
    BY DEF Waiting
  <2>2. QED
    BY <2>1, EmptySeq DEF FeedTypes
<1>2. FeedInOrder
  <2>1. <<>> \in Seq(MarketEvents) /\ <<>> \in Seq(Nat)
    BY EmptySeq
  <2>2. Numbers(<<>>) = <<>>
    BY <2>1, NumbersOf
  <2>3. <<>> \o <<>> \o <<>> = <<>>
    BY <2>1, ConcatEmptySeq
  <2>4. QED
    BY <2>2, <2>3 DEF FeedInOrder
<1>3. detector.at = "select"
  BY DEF Waiting
<1>4. DetectorClosed /\ VerifiesInTime /\ DetectorDrains
  BY <1>3 DEF DetectorClosed, VerifiesInTime, DetectorDrains
<1>5. QED
  BY <1>1, <1>2, <1>4 DEF MarketInv, NoJumpMissed, EmittedInTime

\* handle_message appends what it received to the last queue, or loses it when
\* nobody receives it.
LEMMA HandleMessageKeeps ==
  ASSUME MarketInv, NEW text \in Texts, HandleMessage(text) PROVE MarketInv'
<1> DEFINE m == ParseMessage(text)
           event == [m |-> m, arrived |-> clock, n |-> Len(received) + 1]
<1>1. UNCHANGED <<clock, height, market_data_rx, state_update_rx, open, fed,
                  market_prices, block_number, detector, emitted, taken,
                  lastTrade, missed>>
  BY DEF HandleMessage
<1>2. CASE UNCHANGED <<received, message_queue, message_rx, lost>>
  BY <1>1, <1>2 DEF MarketInv, FeedTypes, FeedInOrder, NoJumpMissed,
    DetectorClosed, VerifiesInTime, EmittedInTime, DetectorDrains
<1>3. CASE /\ IsMarketData(m)
           /\ received' = Append(received, event.n)
           /\ ProcessMessageQueue(QueuePush(message_queue, event))
  <2>1. /\ received \in Seq(Nat) /\ taken \in Seq(Nat) /\ clock \in Nat
        /\ message_rx \in Seq(MarketEvents) /\ lost \in Nat
        /\ market_data_rx \in Seq(MarketEvents) /\ message_queue = <<>>
    BY DEF MarketInv, FeedTypes, FeedInOrder
  <2>2. event \in MarketEvents /\ event.n \in Nat
    <3>1. GoodMessage(event.m)
      BY <1>3, ParsedIsGood
    <3>2. event \in [m : {ParseMessage(x) : x \in Texts}, arrived : Nat,
                     n : Nat]
      BY <2>1
    <3>3. QED
      BY <3>1, <3>2 DEF MarketEvents
  <2>3. PICK e \in MarketEvents : e = event
    BY <2>2
  <2>4. e.n \in Nat /\ received' = Append(received, e.n)
    BY <1>3, <2>2, <2>3
  <2>5. ProcessMessageQueue(<<e>>)
    <3>1. QueuePush(<<>>, e) = <<e>>
      BY FeedValues DEF QueuePush
    <3>2. QED
      BY <1>3, <2>1, <2>3, <3>1
  <2> HIDE DEF m, event
  <2>6. received' \in Seq(Nat) /\ Len(received') = Len(received) + 1
    BY <2>1, <2>4, AppendProperties
  <2>7. /\ FeedInOrder' /\ message_rx' \in Seq(MarketEvents) /\ lost' \in Nat
    <3>1. CASE /\ "message" \in open /\ message_rx' = message_rx \o <<e>>
               /\ message_queue' = <<>> /\ UNCHANGED lost
      <4>1. message_rx' = Append(message_rx, e)
        BY <2>1, <3>1, TailGrows
      <4>2. /\ message_rx' \in Seq(MarketEvents)
            /\ Len(message_rx') = Len(message_rx) + 1
        BY <2>1, <4>1, AppendProperties
      <4>3. Numbers(message_rx') = Append(Numbers(message_rx), e.n)
        BY <2>1, <4>1, NumbersOf
      <4>4. PICK A \in Seq(Nat), B \in Seq(Nat) :
              A = taken \o Numbers(market_data_rx) /\ B = Numbers(message_rx)
        BY <2>1, NumbersOf, ConcatProperties
      <4>5. A \o Append(B, e.n) = Append(A \o B, e.n)
        BY <2>4, TailGrows
      <4>6. ASSUME {"message", "market"} \subseteq open
            PROVE  A \o Numbers(message_rx') = received'
        <5>1. A \o B = received
          BY <4>4, <4>6 DEF MarketInv, FeedInOrder
        <5>2. QED
          BY <2>4, <4>3, <4>4, <4>5, <5>1
      <4>7. Len(taken) + Len(market_data_rx) + Len(message_rx') + lost
              = Len(received')
        <5>1. Len(taken) + Len(market_data_rx) + Len(message_rx) + lost
                = Len(received)
          BY DEF MarketInv, FeedInOrder
        <5>2. /\ Len(taken) \in Nat /\ Len(market_data_rx) \in Nat
              /\ Len(message_rx) \in Nat /\ lost \in Nat
          BY <2>1, LenProperties
        <5>3. QED
          BY <2>6, <4>2, <5>1, <5>2
      <4>8. FeedInOrder'
        BY <1>1, <3>1, <4>4, <4>6, <4>7 DEF FeedInOrder
      <4>9. QED
        BY <2>1, <3>1, <4>2, <4>8
    <3>2. CASE /\ "message" \notin open /\ message_queue' = Tail(<<e>>)
               /\ lost' = lost + 1 /\ UNCHANGED message_rx
      <4>1. message_queue' = <<>>
        BY <3>2
      <4>2. Len(taken) + Len(market_data_rx) + Len(message_rx) + lost'
              = Len(received')
        BY <2>1, <2>6, <3>2 DEF MarketInv, FeedInOrder
      <4>3. FeedInOrder'
        BY <1>1, <3>2, <4>1, <4>2 DEF FeedInOrder
      <4>4. QED
        BY <2>1, <3>2, <4>3
    <3>3. QED
      BY <2>5, <3>1, <3>2 DEF ProcessMessageQueue
  <2>8. FeedTypes'
    BY <1>1, <2>6, <2>7 DEF MarketInv, FeedTypes
  <2>9. QED
    BY <1>1, <2>7, <2>8 DEF MarketInv, NoJumpMissed, DetectorClosed,
      VerifiesInTime, EmittedInTime, DetectorDrains
<1>4. QED
  BY <1>2, <1>3 DEF HandleMessage

\* process_ws_messages moves an event from one queue to the next, or ends with
\* what it holds.
LEMMA ProcessWsMessageKeeps ==
  ASSUME MarketInv, ProcessWsMessage PROVE MarketInv'
<1>1. UNCHANGED <<clock, height, message_queue, state_update_rx, market_prices,
                  block_number, detector, emitted, received, taken, lastTrade,
                  missed>>
  BY DEF ProcessWsMessage
<1>2. /\ received \in Seq(Nat) /\ taken \in Seq(Nat) /\ message_rx # <<>>
      /\ message_rx \in Seq(MarketEvents) /\ lost \in Nat
      /\ market_data_rx \in Seq(MarketEvents)
  BY DEF MarketInv, FeedTypes, ProcessWsMessage
<1>3. Len(message_rx) \in Nat /\ Len(market_data_rx) \in Nat
      /\ Len(taken) \in Nat
  BY <1>2, LenProperties
<1>4. CASE /\ "market" \in open
           /\ market_data_rx' = Append(market_data_rx, Head(message_rx))
           /\ message_rx' = Tail(message_rx)
           /\ UNCHANGED <<open, fed, lost>>
  <2>1. PICK h \in MarketEvents : h = Head(message_rx)
    BY <1>2, HeadTailProperties
  <2>2. /\ market_data_rx' \in Seq(MarketEvents)
        /\ Len(market_data_rx') = Len(market_data_rx) + 1
        /\ message_rx' \in Seq(MarketEvents)
        /\ Len(message_rx') = Len(message_rx) - 1
    BY <1>2, <1>4, <2>1, AppendProperties, HeadTailProperties
  <2>3. PICK A \in Seq(Nat), B \in Seq(Nat), C \in Seq(Nat) :
          /\ A = taken /\ B = Numbers(market_data_rx)
          /\ C = Numbers(message_rx)
    BY <1>2, NumbersOf
  <2>4. /\ C # <<>> /\ Head(C) = h.n /\ h.n \in Nat
        /\ Numbers(message_rx') = Tail(C)
        /\ Numbers(market_data_rx') = Append(B, h.n)
    BY <1>2, <1>4, <2>1, <2>3, NumbersOf DEF MarketEvents
  <2>5. (A \o Append(B, h.n)) \o Tail(C) = (A \o B) \o C
    <3>1. h.n \in Nat
      BY <2>4
    <3>2. A \o Append(B, h.n) = Append(A \o B, h.n)
      BY ONLY <3>1, A \in Seq(Nat), B \in Seq(Nat), TailGrows
    <3>3. A \o B \in Seq(Nat)
      BY ONLY A \in Seq(Nat), B \in Seq(Nat), ConcatProperties
    <3>4. A \o Append(B, h.n) = Append(A \o B, h.n) /\ A \o B \in Seq(Nat)
      BY ONLY <3>2, <3>3
    <3>5. Append(A \o B, Head(C)) \o Tail(C) = (A \o B) \o C
      BY <2>4, <3>4, HeadMoves
    <3>6. QED
      BY <2>4, <3>4, <3>5
  <2>6. {"message", "market"} \subseteq open =>
          taken \o Numbers(market_data_rx') \o Numbers(message_rx') = received
    BY <2>3, <2>4, <2>5 DEF MarketInv, FeedInOrder
  <2>7. Len(taken) + Len(market_data_rx') + Len(message_rx') + lost
          = Len(received)
    <3>1. Len(taken) + Len(market_data_rx) + Len(message_rx) + lost
            = Len(received)
      BY DEF MarketInv, FeedInOrder
    <3>2. lost \in Nat
      BY <1>2
    <3>3. PICK a, b, c, d \in Nat :
            /\ a = Len(taken) /\ b = Len(market_data_rx)
            /\ c = Len(message_rx) /\ d = lost
      BY <1>3, <3>2
    <3>4. Len(market_data_rx') = b + 1 /\ Len(message_rx') = c - 1
      BY <2>2, <3>3
    <3>5. a + b + c + d = Len(received)
      BY <3>1, <3>3
    <3>6. a + (b + 1) + (c - 1) + d = a + b + c + d
      OBVIOUS
    <3>7. QED
      BY ONLY <3>3, <3>4, <3>5, <3>6
  <2>8. FeedInOrder'
    BY <1>1, <1>4, <2>6, <2>7 DEF MarketInv, FeedInOrder
  <2>9. FeedTypes'
    BY <1>1, <1>4, <2>2 DEF MarketInv, FeedTypes
  <2>10. DetectorDrains'
    BY <1>1, <1>4 DEF MarketInv, DetectorDrains, DetectorClosed, FeedTypes
  <2>11. QED
    BY <1>1, <1>4, <2>8, <2>9, <2>10 DEF MarketInv, NoJumpMissed,
      DetectorClosed, VerifiesInTime, EmittedInTime
<1>5. CASE /\ "market" \notin open
           /\ open' = open \ {"message"} /\ fed' = fed \ {"market"}
           /\ lost' = lost + Len(message_rx)
           /\ message_rx' = <<>>
           /\ UNCHANGED market_data_rx
  <2>1. message_rx' \in Seq(MarketEvents) /\ Len(message_rx') = 0
    BY <1>5, EmptySeq
  <2>2. Len(taken) + Len(market_data_rx) + Len(message_rx') + lost'
          = Len(received)
    BY <1>2, <1>3, <1>5, <2>1 DEF MarketInv, FeedInOrder
  <2>3. FeedInOrder'
    BY <1>1, <1>5, <2>2 DEF MarketInv, FeedInOrder
  <2>4. FeedTypes'
    BY <1>1, <1>2, <1>3, <1>5, <2>1 DEF MarketInv, FeedTypes
  <2>5. QED
    BY <1>1, <1>5, <2>3, <2>4 DEF MarketInv, NoJumpMissed, DetectorClosed,
      VerifiesInTime, EmittedInTime, DetectorDrains
<1>6. QED
  BY <1>4, <1>5 DEF ProcessWsMessage

\* A step that changes neither the queues, nor the prices, nor the clock.
LEMMA FeedAside ==
  ASSUME MarketInv, FeedTypes',
         UNCHANGED <<message_queue, message_rx, market_data_rx, received, taken,
                     lost, open, market_prices, lastTrade, missed>>
  PROVE  /\ FeedInOrder' /\ (lastTrade = market_prices)' /\ NoJumpMissed'
  BY DEF MarketInv, FeedInOrder, NoJumpMissed

\* A price is kept after it was compared, so each jump between two trades is
\* compared with the price before it.
LEMMA JumpIsExamined ==
  ASSUME MarketInv, NEW e \in MarketEvents, Jump(e) PROVE IsOpportunity(e)
<1> DEFINE prev == market_prices[e.m.coin]
<1>1. /\ e.m.type = "Trade" /\ e.m.coin \in Coins /\ e.m.price \in Prices
      /\ DataAge(e) <= MAX_AGE
  BY DEF Jump, MarketEvents, GoodMessage
<1>2. prev \in Prices \cup {Missing} /\ prev = lastTrade[e.m.coin]
  BY <1>1 DEF MarketInv, FeedTypes
<1>3. prev # Missing /\ prev # NaN /\ e.m.price # NaN
  BY <1>2 DEF Jump
<1>4. prev \in Positive /\ e.m.price \in Positive
  BY <1>1, <1>2, <1>3 DEF Prices
<1>5. prev # 0 /\ e.m.price # 0 /\ e.m.price # Missing
  BY <1>4, FeedValues DEF Positive
<1>6. HlPrice(e.m) = e.m.price
  BY <1>1 DEF HlPrice
<1>7. SpreadBps(prev, e.m.price) >= MIN_SPREAD_BPS
  BY <1>2 DEF Jump
<1>8. QED
  BY <1>1, <1>3, <1>5, <1>6, <1>7 DEF IsOpportunity

\* What is not too old has not waited longer than that, but for the time its
\* own timestamp is ahead of its arrival.
LEMMA YoungHasNotWaited ==
  ASSUME NEW c \in Nat, NEW t \in Nat, NEW a \in Nat, NEW m \in Nat,
         SaturatingSub(c, t) <= m
  PROVE  c - t <= m /\ c - a <= m + SaturatingSub(t, a)
<1>1. CASE c > t
  BY <1>1, SMTT(30) DEF SaturatingSub
<1>2. CASE ~(c > t)
  BY <1>2, SMTT(30) DEF SaturatingSub
<1>3. QED
  BY ONLY <1>1, <1>2

\* The detector takes the head of its queue.
LEMMA TakeMarketDataKeeps ==
  ASSUME MarketInv, TakeMarketData PROVE MarketInv'
<1>1. UNCHANGED <<clock, height, message_queue, message_rx, state_update_rx,
                  open, fed, block_number, received, lost>>
  BY DEF TakeMarketData
<1>2. /\ market_data_rx \in Seq(MarketEvents) /\ market_data_rx # <<>>
      /\ taken \in Seq(Nat) /\ message_rx \in Seq(MarketEvents)
      /\ clock \in Nat /\ lost \in Nat
      /\ market_data_rx' = Tail(market_data_rx) /\ "market" \in open
  BY DEF MarketInv, FeedTypes, TakeMarketData
<1>3. PICK e \in MarketEvents : e = Head(market_data_rx)
  BY <1>2, HeadTailProperties
<1>4. /\ taken' = Append(taken, e.n)
      /\ detector = Waiting
      /\ \/ /\ IsOpportunity(e)
            /\ detector' = [at |-> "verify", event |-> e,
                            block |-> block_number, detected |-> clock]
            /\ emitted' = {}
         \/ /\ IsOpportunity(e)
            /\ emitted' = {Emission(e, FALSE, block_number)}
            /\ UNCHANGED detector
         \/ ~IsOpportunity(e) /\ emitted' = {} /\ UNCHANGED detector
      /\ market_prices' = KeepPrice(e)
      /\ lastTrade' = IF e.m.type = "Trade"
           THEN [lastTrade EXCEPT ![e.m.coin] = e.m.price] ELSE lastTrade
      /\ missed' = IF Jump(e) /\ ~IsOpportunity(e) THEN missed + 1 ELSE missed
  BY <1>3 DEF TakeMarketData
<1>5. /\ e.n \in Nat /\ e.arrived \in Nat /\ e.m.timestamp \in Nat
      /\ GoodMessage(e.m)
  BY DEF MarketEvents, GoodMessage
<1>6. /\ market_data_rx' \in Seq(MarketEvents) /\ taken' \in Seq(Nat)
      /\ Len(market_data_rx') = Len(market_data_rx) - 1
      /\ Len(taken') = Len(taken) + 1
  BY <1>2, <1>4, <1>5, HeadTailProperties, AppendProperties
<1>7. (lastTrade = market_prices)' /\ missed' = 0
  <2>1. lastTrade = market_prices /\ missed = 0
    BY DEF MarketInv, NoJumpMissed
  <2>2. missed' = missed
    BY <1>4, JumpIsExamined
  <2>3. QED
    BY <1>4, <2>1, <2>2 DEF KeepPrice
<1>8. market_prices' \in [Coins -> Prices \cup {Missing}]
  <2>1. market_prices \in [Coins -> Prices \cup {Missing}]
    BY DEF MarketInv, FeedTypes
  <2>2. CASE e.m.type = "Trade"
    <3>1. market_prices' = [market_prices EXCEPT ![e.m.coin] = e.m.price]
      BY <1>4, <2>2 DEF KeepPrice
    <3>2. e.m.price \in Prices
      BY <1>5, <2>2 DEF GoodMessage
    <3>3. QED
      BY <2>1, <3>1, <3>2
  <2>3. CASE e.m.type # "Trade"
    BY <1>4, <2>1, <2>3 DEF KeepPrice
  <2>4. QED
    BY <2>2, <2>3
<1>9. \/ /\ IsOpportunity(e) /\ detector'.at = "verify"
         /\ detector'.event = e /\ detector'.detected = clock
      \/ detector'.at = "select"
  <2>1. CASE detector' = [at |-> "verify", event |-> e,
                          block |-> block_number, detected |-> clock]
    BY <1>4, <2>1 DEF Waiting
  <2>2. CASE detector' = detector
    BY <1>4, <2>2 DEF Waiting
  <2>3. QED
    BY ONLY <1>4, <2>1, <2>2
<1>10. FeedTypes'
  BY <1>1, <1>6, <1>8, <1>9 DEF MarketInv, FeedTypes
<1>11. VerifiesInTime'
  <2>1. ASSUME detector'.at = "verify"
        PROVE  /\ detector'.detected = clock /\ detector'.event = e
               /\ clock - e.m.timestamp <= MAX_AGE
    <3>1. IsOpportunity(e) /\ detector'.detected = clock /\ detector'.event = e
      BY <1>9, <2>1
    <3>2. SaturatingSub(clock, e.m.timestamp) <= MAX_AGE
      BY <3>1 DEF IsOpportunity, DataAge
    <3>3. clock - e.m.timestamp <= MAX_AGE
      BY ONLY <1>2, <1>5, <3>2, FeedValues, YoungHasNotWaited
    <3>4. QED
      BY ONLY <3>1, <3>3
  <2>2. QED
    BY <1>1, <1>2, <1>5, <2>1, FeedValues, SMTT(30) DEF VerifiesInTime
<1>12. EmittedInTime'
  <2>1. ASSUME IsOpportunity(e)
        PROVE  /\ DataAge(e) <= MAX_AGE
               /\ clock - e.arrived
                    <= MAX_AGE + SaturatingSub(e.m.timestamp, e.arrived)
    <3>1. DataAge(e) <= MAX_AGE
      BY <2>1 DEF IsOpportunity
    <3>2. SaturatingSub(clock, e.m.timestamp) <= MAX_AGE
      BY <3>1 DEF DataAge
    <3>3. QED
      BY ONLY <1>2, <1>5, <3>1, <3>2, FeedValues, YoungHasNotWaited
  <2>2. ASSUME NEW o \in emitted'
        PROVE  /\ ~o.verified /\ o.age <= MAX_AGE
               /\ o.waited <= MAX_AGE + o.ahead
    BY <1>4, <2>1, <2>2 DEF Emission
  <2>3. QED
    BY <2>2, FeedValues DEF EmittedInTime
<1>13. DetectorClosed' /\ DetectorDrains'
  BY <1>9 DEF DetectorClosed, DetectorDrains
<1>14. FeedInOrder'
  <2>1. PICK A \in Seq(Nat), B \in Seq(Nat) :
          A = taken /\ B = Numbers(market_data_rx)
    BY <1>2, NumbersOf
  <2>2. /\ B # <<>> /\ Head(B) = e.n
        /\ Numbers(market_data_rx') = Tail(B)
    BY <1>2, <1>3, <2>1, NumbersOf
  <2>3. Append(A, e.n) \o Tail(B) = A \o B
    BY <2>2, HeadMoves
  <2>4. {"message", "market"} \subseteq open =>
          taken' \o Numbers(market_data_rx') \o Numbers(message_rx) = received
    BY <1>4, <2>1, <2>2, <2>3 DEF MarketInv, FeedInOrder
  <2>5. Len(taken') + Len(market_data_rx') + Len(message_rx) + lost
          = Len(received)
    <3>1. Len(taken) + Len(market_data_rx) + Len(message_rx) + lost
            = Len(received)
      BY DEF MarketInv, FeedInOrder
    <3>2. /\ Len(taken) \in Nat /\ Len(market_data_rx) \in Nat
          /\ Len(message_rx) \in Nat /\ lost \in Nat
      BY <1>2, LenProperties
    <3>3. PICK a, b, c, d \in Nat :
            /\ a = Len(taken) /\ b = Len(market_data_rx)
            /\ c = Len(message_rx) /\ d = lost
      BY <3>2
    <3>4. Len(taken') = a + 1 /\ Len(market_data_rx') = b - 1
      BY <1>6, <3>3
    <3>5. a + b + c + d = Len(received)
      BY <3>1, <3>3
    <3>6. (a + 1) + (b - 1) + c + d = a + b + c + d
      OBVIOUS
    <3>7. QED
      BY ONLY <3>3, <3>4, <3>5, <3>6
  <2>6. QED
    BY <1>1, <2>4, <2>5 DEF MarketInv, FeedInOrder
<1>15. QED
  BY <1>1, <1>7, <1>10, <1>11, <1>13, <1>14, <1>12
  DEF MarketInv, NoJumpMissed

\* The opportunity is emitted when the poll has ended, at most POLL_TIME after
\* the age of its data was checked.
LEMMA VerifyKeeps == ASSUME MarketInv, Verify PROVE MarketInv'
<1>1. /\ UNCHANGED <<clock, height, message_queue, message_rx, market_data_rx,
                     state_update_rx, open, fed, market_prices, block_number,
                     received, taken, lost, lastTrade, missed>>
      /\ detector.at = "verify" /\ detector'.at = "select"
  BY DEF Verify, Waiting
<1>2. FeedTypes'
  BY <1>1 DEF MarketInv, FeedTypes
<1>3. EmittedInTime'
  <2>1. CASE emitted' = {}
    BY <2>1 DEF EmittedInTime
  <2>2. CASE /\ height - detector.block <= LAG
             /\ emitted' = {Emission(detector.event, TRUE, detector.block)}
    <3>1. /\ detector.detected \in Nat /\ detector.event \in MarketEvents
          /\ detector.detected - detector.event.m.timestamp <= MAX_AGE
          /\ clock <= detector.detected + POLL_TIME /\ clock \in Nat
      BY <1>1 DEF MarketInv, VerifiesInTime, FeedTypes
    <3>2. PICK e \in MarketEvents : e = detector.event
      BY <3>1
    <3>3. e.arrived \in Nat /\ e.m.timestamp \in Nat
      BY DEF MarketEvents, GoodMessage
    <3>4. clock - e.m.timestamp <= MAX_AGE + POLL_TIME
      BY <3>1, <3>2, <3>3, FeedValues
    <3>5. /\ DataAge(e) <= MAX_AGE + POLL_TIME
          /\ clock - e.arrived
               <= MAX_AGE + POLL_TIME + SaturatingSub(e.m.timestamp, e.arrived)
      BY <3>1, <3>3, <3>4, FeedValues DEF DataAge, SaturatingSub
    <3>6. SaturatingSub(height, detector.block) <= LAG
      BY <2>2, FeedValues DEF SaturatingSub
    <3>7. ASSUME NEW o \in emitted'
          PROVE  /\ o.verified /\ o.behind <= LAG
                 /\ o.age <= MAX_AGE + POLL_TIME
                 /\ o.waited <= MAX_AGE + POLL_TIME + o.ahead
      BY <2>2, <3>2, <3>5, <3>6, <3>7 DEF Emission
    <3>8. QED
      BY <3>7 DEF EmittedInTime
  <2>3. QED
    BY <2>1, <2>2 DEF Verify
<1>4. VerifiesInTime' /\ DetectorClosed' /\ DetectorDrains'
  BY <1>1 DEF VerifiesInTime, DetectorClosed, DetectorDrains
<1>5. QED
  BY <1>1, <1>2, <1>3, <1>4, FeedAside DEF MarketInv

\* A state update changes neither queues nor prices.
LEMMA OthersKeep ==
  ASSUME MarketInv,
         \/ SendStateUpdate \/ TakeStateUpdate \/ NewBlock \/ FeedTick
         \/ \E c \in {"market", "state"} : DropSender(c)
         \/ UNCHANGED feedVars
  PROVE  MarketInv'
<1>1. /\ UNCHANGED <<message_queue, message_rx, market_data_rx, open,
                     market_prices, detector, emitted, received, taken, lost,
                     lastTrade, missed>>
      /\ fed' \subseteq fed
  BY DEF SendStateUpdate, TakeStateUpdate, NewBlock, FeedTick, DropSender,
    feedVars
<1>2. /\ clock' \in Nat
      /\ detector.at = "verify" =>
           clock' = clock \/ clock < detector.detected + POLL_TIME
      /\ clock' = clock \/ clock' = clock + 1
  BY DEF MarketInv, FeedTypes, SendStateUpdate, TakeStateUpdate, NewBlock,
    FeedTick, DropSender, feedVars
<1>3. FeedTypes'
  BY <1>1, <1>2 DEF MarketInv, FeedTypes
<1>4. VerifiesInTime'
  <2>1. ASSUME detector.at = "verify"
        PROVE  /\ detector.detected \in Nat
               /\ detector.event \in MarketEvents
               /\ detector.detected - detector.event.m.timestamp <= MAX_AGE
               /\ clock' <= detector.detected + POLL_TIME
    <3>1. /\ detector.detected \in Nat /\ clock \in Nat
          /\ detector.event \in MarketEvents
          /\ detector.detected - detector.event.m.timestamp <= MAX_AGE
          /\ clock <= detector.detected + POLL_TIME
      BY <2>1 DEF MarketInv, VerifiesInTime, FeedTypes
    <3>2. QED
      BY <1>2, <2>1, <3>1, FeedValues
  <2>2. QED
    BY <1>1, <2>1 DEF VerifiesInTime
<1>5. ASSUME detector.at = "done" PROVE state_update_rx' = <<>>
  <2>1. ~SendStateUpdate
    BY <1>5 DEF MarketInv, DetectorClosed, SendStateUpdate
  <2>2. ~TakeStateUpdate
    BY <1>5 DEF TakeStateUpdate, Waiting
  <2>3. QED
    BY <1>5, <2>1, <2>2 DEF MarketInv, DetectorDrains, NewBlock, FeedTick,
      DropSender, feedVars
<1>6. DetectorDrains' /\ DetectorClosed' /\ EmittedInTime'
  BY <1>1, <1>5 DEF MarketInv, DetectorDrains, DetectorClosed, EmittedInTime
<1>7. QED
  BY <1>1, <1>3, <1>4, <1>6, FeedAside DEF MarketInv

\* The detector ends with its queues empty, or is dropped with what they hold.
LEMMA EndKeeps ==
  ASSUME MarketInv, EndDetector \/ DropDetector PROVE MarketInv'
<1>1. /\ UNCHANGED <<clock, message_queue, message_rx, fed, market_prices,
                     emitted, received, taken, lastTrade, missed>>
      /\ open' = open \ {"market", "state"}
  BY DEF EndDetector, DropDetector
<1>2. /\ taken \in Seq(Nat) /\ message_rx \in Seq(MarketEvents)
      /\ market_data_rx \in Seq(MarketEvents) /\ lost \in Nat
  BY DEF MarketInv, FeedTypes
<1>3. /\ Len(taken) \in Nat /\ Len(message_rx) \in Nat
      /\ Len(market_data_rx) \in Nat
      /\ Len(taken) + Len(market_data_rx) + Len(message_rx) + lost
           = Len(received)
  BY <1>2, LenProperties DEF MarketInv, FeedInOrder
<1>4. /\ market_data_rx' \in Seq(MarketEvents) /\ lost' \in Nat
      /\ detector'.at \in {"done", "dropped"}
      /\ Len(market_data_rx') + lost' = Len(market_data_rx) + lost
      /\ Len(market_data_rx') \in Nat
  <2>1. CASE EndDetector
    BY <1>2, <1>3, <2>1 DEF EndDetector
  <2>2. CASE DropDetector
    BY <1>2, <1>3, <2>2, EmptySeq DEF DropDetector
  <2>3. QED
    BY <2>1, <2>2
<1>5. DetectorDrains'
  BY DEF EndDetector, DropDetector, DetectorDrains
<1>6. FeedTypes'
  BY <1>1, <1>4 DEF MarketInv, FeedTypes
<1>7. FeedInOrder'
  <2>1. Len(taken) + Len(market_data_rx') + Len(message_rx) + lost'
          = Len(received)
    BY <1>2, <1>3, <1>4
  <2>2. QED
    BY <1>1, <2>1 DEF MarketInv, FeedInOrder
<1>8. DetectorClosed' /\ VerifiesInTime'
  BY <1>1, <1>4 DEF DetectorClosed, VerifiesInTime
<1>9. QED
  BY <1>1, <1>5, <1>6, <1>7, <1>8
  DEF MarketInv, NoJumpMissed, EmittedInTime

\* The market feed loses no event, compares each price with the one before and
\* emits in time at every step of its tasks (handle_message,
\* process_ws_messages, the loop of the detector).
THEOREM MarketInvariant == FeedSpec => []MarketInv
<1>1. MarketInv /\ [FeedNext]_feedVars => MarketInv'
  BY HandleMessageKeeps, ProcessWsMessageKeeps, TakeMarketDataKeeps,
    VerifyKeeps, OthersKeep, EndKeeps DEF FeedNext, DetectorStep
<1>2. QED
  BY <1>1, FeedInitially, PTL DEF FeedSpec

\* No price that is not positive is kept.
LEMMA MarketSafeByInv == MarketInv => MarketSafe
<1> SUFFICES ASSUME MarketInv PROVE MarketSafe
  OBVIOUS
<1>1. PricesPositive
  <2>1. SUFFICES ASSUME NEW c \in Coins, market_prices[c] \in Int
                 PROVE  market_prices[c] > 0
    BY DEF PricesPositive
  <2>2. market_prices[c] \in Prices \cup {Missing}
    BY DEF MarketInv, FeedTypes
  <2>3. QED
    BY <2>1, <2>2, FeedValues DEF Prices, Positive
<1>2. QED
  BY <1>1 DEF MarketInv, MarketSafe

\* In every behaviour the market feed takes its own steps, or none.
LEMMA MarketPart == Spec => FeedSpec
<1>1. Init => FeedInit
  BY DEF Init
<1>2. [Next]_vars => [FeedNext]_feedVars
  BY DEF Next, vars, Market, Mempool_, Buffer, State, Tables, feedVars
<1>3. QED
  BY <1>1, <1>2, PTL DEF Spec, FeedSpec

\* The detector works on the market as the messages report it, whatever their
\* times, the limits and the order in which the tasks run, and sends nothing
\* that is stale by the exchange's time (handle_message, parse_trade,
\* process_ws_messages, process_trade, verify_opportunity_via_rpc).
THEOREM MarketIsSafe == Spec => []MarketSafe
  BY MarketPart, MarketInvariant, MarketSafeByInv, PTL

-----------------------------------------------------------------------------
(* The mempool and its ring buffer                                         *)

Ingestions == {"connect", "subscribe", "stream", "sleep", "poll", "process"}

\* Every transaction handled is somewhere, what was noticed and not forgotten
\* is in seen_txs, which only a poll in progress may have over its limit.
MempoolInv ==
  /\ mode \in {"Auto", "WebSocket", "Polling"} /\ ingestion \in Ingestions
  /\ pendingBlock \subseteq Txs /\ batch \in Seq(Txs)
  /\ ring_buffer \in Seq(Txs) /\ seen_txs \subseteq Txs
  /\ handled \in Nat /\ consumed \in Nat /\ dropped_count \in Nat
  /\ unparsed \in Nat
  /\ MempoolAccounted
  /\ noticed \ excused \subseteq seen_txs
  /\ NoticedOnce
  /\ SeenBounded

\* The ingestion starts with an empty buffer (MempoolService::new).
LEMMA MempoolInitially == MempoolInit => MempoolInv
<1> SUFFICES ASSUME MempoolInit PROVE MempoolInv
  OBVIOUS
<1>1. Cardinality({}) <= SEEN_LIMIT
  BY FS_EmptySet, MempoolConstants DEF MempoolConstants
<1>2. MempoolAccounted
  BY DEF MempoolInit, MempoolAccounted
<1>3. ingestion \in Ingestions
  BY DEF MempoolInit, Ingestions
<1>4. QED
  BY <1>1, <1>2, <1>3 DEF MempoolInit, MempoolInv, NoticedOnce, SeenBounded

\* A transaction that is handled is buffered, counted as dropped or counted as
\* unparsable (process_transaction, TransactionRingBuffer::push).
LEMMA ProcessedCounts ==
  ASSUME MempoolInv, NEW t \in Txs, ProcessTransaction(t), UNCHANGED consumed
  PROVE  /\ ring_buffer' \in Seq(Txs)
         /\ handled' \in Nat /\ dropped_count' \in Nat /\ unparsed' \in Nat
         /\ MempoolAccounted'
         /\ noticed' = noticed \cup {t}
<1>1. /\ ring_buffer \in Seq(Txs) /\ Len(ring_buffer) \in Nat
      /\ handled \in Nat /\ consumed \in Nat /\ dropped_count \in Nat
      /\ unparsed \in Nat
      /\ handled = Len(ring_buffer) + consumed + dropped_count + unparsed
  BY DEF MempoolInv, MempoolAccounted
<1>2. handled' = handled + 1 /\ noticed' = noticed \cup {t}
  BY DEF ProcessTransaction
<1>3. CASE /\ ring_buffer' = Append(ring_buffer, t)
           /\ UNCHANGED <<dropped_count, unparsed>>
  <2>1. ring_buffer' \in Seq(Txs) /\ Len(ring_buffer') = Len(ring_buffer) + 1
    BY <1>1, <1>3
  <2>2. QED
    BY <1>1, <1>2, <1>3, <2>1 DEF MempoolAccounted
<1>4. CASE /\ UNCHANGED ring_buffer
           /\ \/ dropped_count' = dropped_count + 1 /\ UNCHANGED unparsed
              \/ unparsed' = unparsed + 1 /\ UNCHANGED dropped_count
  BY <1>1, <1>2, <1>4 DEF MempoolAccounted
<1>5. QED
  BY <1>3, <1>4 DEF ProcessTransaction, Push

\* A step that only moves `start' on, between its WebSocket and its polls.
LEMMA Moves ==
  ASSUME MempoolInv, NEW place \in Ingestions, MoveTo(place),
         ingestion # "process"
  PROVE  MempoolInv'
BY DEF MempoolInv, MoveTo, MempoolAccounted, NoticedOnce, SeenBounded

\* The WebSocket connects, fails or gives way to polling
\* (start_websocket_mode).
LEMMA WebSocketKeeps ==
  ASSUME MempoolInv, WebSocketStep \/ PollFails PROVE MempoolInv'
<1>1. {"connect", "subscribe", "stream", "sleep", "poll"} \subseteq Ingestions
  BY DEF Ingestions
<1>2. CASE ConnectWs \/ Subscribed \/ SubscribeFails \/ StreamEnds
           \/ WakeMonitor \/ PollFails
  BY <1>1, <1>2, Moves
     DEF ConnectWs, Subscribed, SubscribeFails, StreamEnds, WakeMonitor,
         PollFails, MonitorFails
<1>3. ASSUME NEW t \in Txs, Stream(t) PROVE MempoolInv'
  <2>1. /\ ingestion = "stream" /\ ProcessTransaction(t)
        /\ excused' = excused \cup {t}
        /\ UNCHANGED <<mode, ingestion, pendingBlock, changes, batch, seen_txs,
                       consumed, repeated>>
    BY <1>3 DEF Stream
  <2>2. /\ ring_buffer' \in Seq(Txs)
        /\ handled' \in Nat /\ dropped_count' \in Nat /\ unparsed' \in Nat
        /\ MempoolAccounted'
        /\ noticed' = noticed \cup {t}
    BY <2>1, ProcessedCounts
  <2>3. QED
    BY <2>1, <2>2 DEF MempoolInv, NoticedOnce, SeenBounded
<1>4. QED
  BY <1>2, <1>3 DEF WebSocketStep

\* A poll: of the pending block each transaction that was not seen is handled.
LEMMA PollKeeps ==
  ASSUME MempoolInv, PollAnswers \/ PollOne \/ PollEnds PROVE MempoolInv'
<1>1. CASE PollAnswers
  <2>1. batch' \in Seq(Txs)
    <3>1. IsFiniteSet(pendingBlock)
      BY FS_Subset, MempoolConstants DEF MempoolInv, MempoolConstants
    <3>2. Cardinality(pendingBlock) \in Nat
      BY <3>1, FS_CardinalityType
    <3>3. PICK n \in Nat : n = Cardinality(pendingBlock)
      BY <3>2
    <3>4. batch' \in [1..n -> pendingBlock]
      BY <1>1, <3>3 DEF PollAnswers, Orders
    <3>5. batch' \in [1..n -> Txs]
      BY <3>4 DEF MempoolInv
    <3>6. QED
      BY <3>5, SeqDef
  <2>2. QED
    BY <1>1, <2>1
       DEF PollAnswers, MempoolInv, MempoolAccounted, NoticedOnce, SeenBounded,
           Ingestions
<1>2. CASE PollOne
  <2> DEFINE t == Head(batch)
  <2>1. /\ ingestion = "process" /\ batch # <<>> /\ batch' = Tail(batch)
        /\ UNCHANGED <<mode, ingestion, pendingBlock, changes, consumed>>
    BY <1>2 DEF PollOne
  <2>2. t \in Txs /\ batch' \in Seq(Txs)
    BY <2>1 DEF MempoolInv
  <2>3. CASE UNCHANGED <<seen_txs, ring_buffer, handled, dropped_count,
                         unparsed, excused, noticed, repeated>>
    BY <2>1, <2>2, <2>3
       DEF MempoolInv, MempoolAccounted, NoticedOnce, SeenBounded
  <2>4. CASE /\ t \notin seen_txs /\ seen_txs' = seen_txs \cup {t}
             /\ ProcessTransaction(t)
             /\ repeated' = IF t \in noticed \ excused THEN repeated \cup {t}
                                                       ELSE repeated
             /\ excused' = excused \ {t}
    <3>1. /\ ring_buffer' \in Seq(Txs)
          /\ handled' \in Nat /\ dropped_count' \in Nat /\ unparsed' \in Nat
          /\ MempoolAccounted'
          /\ noticed' = noticed \cup {t}
      BY <2>1, <2>2, <2>4, ProcessedCounts
    <3>2. t \notin noticed \ excused
      BY <2>4 DEF MempoolInv
    <3>3. noticed' \ excused' \subseteq seen_txs'
      BY <2>4, <3>1 DEF MempoolInv
    <3>4. repeated' = {}
      BY <2>4, <3>2 DEF MempoolInv, NoticedOnce
    <3>5. seen_txs' \subseteq Txs
      BY <2>2, <2>4 DEF MempoolInv
    <3>6. QED
      BY <2>1, <2>2, <3>1, <3>3, <3>4, <3>5
         DEF MempoolInv, NoticedOnce, SeenBounded
  <2>5. QED
    BY <1>2, <2>3, <2>4 DEF PollOne, See
<1>3. CASE PollEnds
  <2>1. PICK K \in Kept(seen_txs) : /\ seen_txs' = K
                                    /\ excused' = excused \cup (seen_txs \ K)
    BY <1>3 DEF PollEnds
  <2>2. IsFiniteSet(seen_txs)
    BY FS_Subset, MempoolConstants DEF MempoolInv, MempoolConstants
  <2>3. Cardinality(seen_txs) \in Nat
    BY <2>2, FS_CardinalityType
  <2>4. K \subseteq seen_txs /\ Cardinality(K) <= SEEN_LIMIT
    BY <2>3, MempoolConstants DEF Kept, MempoolConstants
  <2>5. /\ ingestion' = "poll"
        /\ UNCHANGED <<mode, pendingBlock, changes, batch, ring_buffer, handled,
                       consumed, dropped_count, unparsed, noticed, repeated>>
    BY <1>3 DEF PollEnds
  <2>6. QED
    BY <2>1, <2>4, <2>5
       DEF MempoolInv, MempoolAccounted, NoticedOnce, SeenBounded, Ingestions
<1>4. QED
  BY <1>1, <1>2, <1>3

\* Every step of the ingestion keeps its invariant.
LEMMA MempoolKeeps ==
  ASSUME MempoolInv, [MempoolNext]_memVars PROVE MempoolInv'
<1>1. CASE Consume
  <2>1. /\ ring_buffer # <<>> /\ ring_buffer' = Tail(ring_buffer)
        /\ consumed' = consumed + 1
        /\ UNCHANGED <<mode, ingestion, pendingBlock, changes, batch, seen_txs,
                       handled, dropped_count, unparsed, excused, noticed,
                       repeated>>
    BY <1>1 DEF Consume
  <2>2. /\ ring_buffer' \in Seq(Txs) /\ Len(ring_buffer) \in Nat
        /\ Len(ring_buffer') = Len(ring_buffer) - 1
    BY <2>1 DEF MempoolInv
  <2>3. MempoolAccounted' /\ consumed' \in Nat
    BY <2>1, <2>2 DEF MempoolInv, MempoolAccounted
  <2>4. QED
    BY <2>1, <2>2, <2>3 DEF MempoolInv, NoticedOnce, SeenBounded
<1>2. CASE ChangeBlock
  BY <1>2 DEF ChangeBlock, MempoolInv, MempoolAccounted, NoticedOnce, SeenBounded
<1>3. CASE UNCHANGED memVars
  BY <1>3 DEF memVars, MempoolInv, MempoolAccounted, NoticedOnce, SeenBounded
<1>4. QED
  BY <1>1, <1>2, <1>3, WebSocketKeeps, PollKeeps DEF MempoolNext

\* What the mempool handled is accounted for, noticed once and remembered
\* within bounds, on both ways in and for any capacity
\* (poll_pending_transactions, process_transaction).
THEOREM MempoolInvariant == MempoolSpec => []MempoolInv
<1>1. MempoolInv /\ [MempoolNext]_memVars => MempoolInv'
  BY MempoolKeeps
<1>2. QED
  BY <1>1, MempoolInitially, PTL DEF MempoolSpec

\* In every behaviour the mempool takes its own steps, or none.
LEMMA MempoolPart == Spec => MempoolSpec
<1>1. Init => MempoolInit
  BY DEF Init
<1>2. [Next]_vars => [MempoolNext]_memVars
  BY DEF Next, vars, Market, Mempool_, Buffer, State, Tables, memVars
<1>3. QED
  BY <1>1, <1>2, PTL DEF Spec, MempoolSpec

-----------------------------------------------------------------------------
(* The backpressure buffer                                                 *)

Places == {"idle", "measure", "send", "count", "drop"}
PushersAt(f, Y) == {p \in Pushers : f[p].at \in Y}
Busy == Places \ {"idle"}
Counting == {"count"}
Sending == {"send"}

BufferTypes ==
  /\ drop_policy \in {"Oldest", "Newest", "Random"} /\ enabled \in BOOLEAN
  /\ channel \in 0..BUFFER_SIZE
  /\ push \in [Pushers -> [at : Places]]
  /\ total_received \in Nat /\ total_dropped \in Nat /\ total_processed \in Nat
  /\ delivered \in Nat

\* The counters follow the pushes in progress; under the Newest policy a push
\* that is about to send has measured an empty channel.
BufferInv ==
  /\ BufferTypes
  /\ total_received = total_processed + total_dropped + Cardinality(PushersAt(push, Busy))
  /\ total_processed + Cardinality(PushersAt(push, Counting)) = channel + delivered
  /\ enabled /\ drop_policy = "Newest" =>
       channel + Cardinality(PushersAt(push, Sending)) <= Cardinality(Pushers)

\* Finitely many pushers are at a place.
LEMMA FewPushers ==
  ASSUME NEW f, NEW Y
  PROVE  /\ IsFiniteSet(PushersAt(f, Y)) /\ Cardinality(PushersAt(f, Y)) \in Nat
         /\ Cardinality(PushersAt(f, Y)) <= Cardinality(Pushers)
         /\ Cardinality(Pushers) \in Nat
BY FS_Subset, FS_CardinalityType, BackpressureConstants
   DEF PushersAt, BackpressureConstants

\* One pusher goes on: those at its old place are one less, those at its new
\* place one more.
LEMMA PusherMoves ==
  ASSUME BufferTypes, NEW p \in Pushers, NEW x \in Places, NEW Y,
         push' = [push EXCEPT ![p] = [at |-> x]]
  PROVE  /\ (push[p].at \in Y <=> x \in Y) =>
              Cardinality(PushersAt(push', Y)) = Cardinality(PushersAt(push, Y))
         /\ push[p].at \in Y /\ x \notin Y =>
              Cardinality(PushersAt(push', Y)) = Cardinality(PushersAt(push, Y)) - 1
         /\ push[p].at \notin Y /\ x \in Y =>
              Cardinality(PushersAt(push', Y)) = Cardinality(PushersAt(push, Y)) + 1
<1>1. /\ push'[p].at = x
      /\ \A q \in Pushers \ {p} : push'[q] = push[q]
  BY DEF BufferTypes
<1>2. IsFiniteSet(PushersAt(push, Y))
  BY FewPushers
<1>3. ASSUME push[p].at \in Y <=> x \in Y
      PROVE  PushersAt(push', Y) = PushersAt(push, Y)
  BY <1>1, <1>3 DEF PushersAt
<1>4. ASSUME push[p].at \in Y, x \notin Y
      PROVE  Cardinality(PushersAt(push', Y)) = Cardinality(PushersAt(push, Y)) - 1
  <2>1. PushersAt(push', Y) = PushersAt(push, Y) \ {p} /\ p \in PushersAt(push, Y)
    BY <1>1, <1>4 DEF PushersAt
  <2>2. QED
    BY <1>2, <2>1, FS_RemoveElement
<1>5. ASSUME push[p].at \notin Y, x \in Y
      PROVE  Cardinality(PushersAt(push', Y)) = Cardinality(PushersAt(push, Y)) + 1
  <2>1. PushersAt(push', Y) = PushersAt(push, Y) \cup {p}
        /\ p \notin PushersAt(push, Y)
    BY <1>1, <1>5 DEF PushersAt
  <2>2. QED
    BY <1>2, <2>1, FS_AddElement
<1>6. QED
  BY <1>3, <1>4, <1>5

\* Anything in the channel makes the computed size wrap around, far above the
\* high watermark (CurrentSize in push).
LEMMA WrapsAround ==
  ASSUME NEW c \in 1..BUFFER_SIZE
  PROVE  LET size == ((BUFFER_SIZE - c) - BUFFER_SIZE) % WORD
         IN size = WORD - c /\ AtLeastHigh(size)
<1>1. PICK B \in Nat \ {0}, H \in Nat, D \in Nat \ {0}, W \in Nat :
        /\ B = BUFFER_SIZE /\ H = HIGH_NUM /\ D = DENOMINATOR /\ W = WORD
        /\ W > 2 * B * (H + 1)
  BY BackpressureConstants DEF BackpressureConstants
<1>2. c \in 1..B
  BY <1>1
<1>3. H * B \in Nat /\ 2 * B * (H + 1) = 2 * (H * B) + 2 * B
  BY <1>1
<1>4. PICK hb \in Nat : hb = H * B
  BY <1>3
<1>5. W > 2 * hb + 2 * B /\ W - c \in 0..(W - 1) /\ W - c >= hb
  BY <1>1, <1>2, <1>3, <1>4
<1>6. ((B - c) - B) % W = W - c
  <2>1. (B - c) - B = -1 * W + (W - c)
    BY <1>1, <1>2
  <2>2. \A q \in Int, r \in 0..(W - 1) : (q * W + r) % W = r
    BY <1>5
  <2>3. QED
    BY <1>5, <2>1, <2>2
<1>7. (W - c) * D >= W - c
  BY <1>1, <1>5
<1>8. QED
  BY <1>1, <1>4, <1>5, <1>6, <1>7 DEF AtLeastHigh

\* The buffer starts empty (BackpressureBuffer::new).
LEMMA BufferInitially == BackpressureInit => BufferInv
<1> SUFFICES ASSUME BackpressureInit PROVE BufferInv
  OBVIOUS
<1>1. \A p \in Pushers : push[p].at = "idle"
  BY DEF BackpressureInit, Outside
<1>2. PushersAt(push, Busy) = {} /\ PushersAt(push, Counting) = {} /\ PushersAt(push, Sending) = {}
  BY <1>1 DEF PushersAt, Busy, Counting, Sending
<1>3. Cardinality({}) = 0
  BY FS_EmptySet
<1>4. BufferTypes
  BY BackpressureConstants
     DEF BackpressureInit, BufferTypes, Outside, Places, BackpressureConstants
<1>5. Cardinality(Pushers) \in Nat
  BY FewPushers
<1>6. QED
  BY <1>2, <1>3, <1>4, <1>5 DEF BackpressureInit, BufferInv

\* The counts that BufferInv relates, as numbers.
LEMMA BufferCounts ==
  ASSUME BufferInv
  PROVE  \E busy, counting, sending, all \in Nat :
           /\ busy = Cardinality(PushersAt(push, Busy))
           /\ counting = Cardinality(PushersAt(push, Counting))
           /\ sending = Cardinality(PushersAt(push, Sending))
           /\ all = Cardinality(Pushers) /\ sending <= all
           /\ total_received = total_processed + total_dropped + busy
           /\ total_processed + counting = channel + delivered
           /\ enabled /\ drop_policy = "Newest" => channel + sending <= all
<1>1. /\ Cardinality(PushersAt(push, Busy)) \in Nat
      /\ Cardinality(PushersAt(push, Counting)) \in Nat
      /\ Cardinality(PushersAt(push, Sending)) \in Nat
      /\ Cardinality(Pushers) \in Nat
      /\ Cardinality(PushersAt(push, Sending)) <= Cardinality(Pushers)
  BY FewPushers
<1>2. QED
  BY <1>1 DEF BufferInv

\* A push goes on without touching the channel or a counter but that of the
\* transactions received.
LEMMA PushGoesOn ==
  ASSUME BufferInv, NEW p \in Pushers, NEW x \in Places, x # "count",
         push' = [push EXCEPT ![p] = [at |-> x]],
         UNCHANGED <<drop_policy, enabled, channel, total_dropped,
                     total_processed, delivered>>,
         push[p].at # "count",
         \/ /\ push[p].at = "idle" /\ x # "idle"
            /\ total_received' = total_received + 1
         \/ push[p].at # "idle" /\ x # "idle" /\ UNCHANGED total_received,
         enabled /\ drop_policy = "Newest" /\ x = "send" => channel = 0
  PROVE  BufferInv'
<1>1. BufferTypes
  BY DEF BufferInv
<1>2. PICK busy \in Nat, counting \in Nat, sending \in Nat, all \in Nat :
           /\ busy = Cardinality(PushersAt(push, Busy))
           /\ counting = Cardinality(PushersAt(push, Counting))
           /\ sending = Cardinality(PushersAt(push, Sending))
           /\ all = Cardinality(Pushers) /\ sending <= all
           /\ total_received = total_processed + total_dropped + busy
           /\ total_processed + counting = channel + delivered
           /\ enabled /\ drop_policy = "Newest" => channel + sending <= all
  BY BufferCounts
<1>3. push[p].at \in Places
  BY <1>1 DEF BufferTypes
<1>4. Cardinality(PushersAt(push', Busy)) =
        busy + (IF push[p].at = "idle" THEN 1 ELSE 0)
  <2>1. push[p].at \in Busy <=> push[p].at # "idle"
    BY <1>3 DEF Busy
  <2>2. x \in Busy
    BY DEF Busy
  <2>3. CASE push[p].at = "idle"
    <3>1. push[p].at \notin Busy
      BY <2>1, <2>3
    <3>2. Cardinality(PushersAt(push', Busy)) = busy + 1
      BY <1>1, <1>2, <2>2, <3>1, PusherMoves
    <3>3. QED
      BY <2>3, <3>2
  <2>4. CASE push[p].at # "idle"
    <3>1. push[p].at \in Busy
      BY <2>1, <2>4
    <3>2. Cardinality(PushersAt(push', Busy)) = busy
      BY <1>1, <1>2, <2>2, <3>1, PusherMoves
    <3>3. QED
      BY <2>4, <3>2
  <2>5. QED
    BY <2>3, <2>4
<1>5. Cardinality(PushersAt(push', Counting)) = counting
  <2>1. push[p].at \notin Counting /\ x \notin Counting
    BY DEF Counting
  <2>2. QED
    BY <1>1, <1>2, <2>1, PusherMoves
<1>6. /\ x # "send" => Cardinality(PushersAt(push', Sending)) <= sending
      /\ x = "send" => Cardinality(PushersAt(push', Sending)) <= all
  <2>1. Cardinality(PushersAt(push', Sending)) <= all
    BY <1>2, FewPushers
  <2>2. ASSUME x # "send"
        PROVE  Cardinality(PushersAt(push', Sending)) <= sending
    <3>1. x \notin Sending
      BY <2>2 DEF Sending
    <3>2. CASE push[p].at \in Sending
      <4>1. Cardinality(PushersAt(push', Sending)) = sending - 1
        BY <1>1, <1>2, <3>1, <3>2, PusherMoves
      <4>2. QED
        BY <4>1
    <3>3. CASE push[p].at \notin Sending
      <4>1. Cardinality(PushersAt(push', Sending)) = sending
        BY <1>1, <1>2, <3>1, <3>3, PusherMoves
      <4>2. QED
        BY <4>1
    <3>4. QED
      BY <3>2, <3>3
  <2>3. QED
    BY <2>1, <2>2
<1>7. BufferTypes'
  <2>1. push' \in [Pushers -> [at : Places]]
    BY <1>1 DEF BufferTypes
  <2>2. total_received' \in Nat
    BY <1>1 DEF BufferTypes
  <2>3. QED
    BY <1>1, <2>1, <2>2 DEF BufferTypes
<1>8. Cardinality(PushersAt(push', Sending)) \in Nat /\ channel \in Nat
  BY <1>1, FewPushers DEF BufferTypes
<1>9. enabled /\ drop_policy = "Newest" =>
        channel + Cardinality(PushersAt(push', Sending)) <= all
  BY <1>2, <1>6, <1>8
<1>10. total_received' = total_processed + total_dropped
                           + Cardinality(PushersAt(push', Busy))
  BY <1>1, <1>2, <1>4 DEF BufferTypes
<1>11. QED
  BY <1>2, <1>5, <1>7, <1>9, <1>10 DEF BufferInv

\* A push measures the load before it adds (push).
LEMMA MeasureKeeps ==
  ASSUME BufferInv, NEW p \in Pushers, Measure(p) PROVE BufferInv'
<1>1. /\ push[p].at = "measure"
      /\ UNCHANGED <<drop_policy, enabled, channel, total_received,
                     total_dropped, total_processed, delivered>>
  BY DEF Measure
<1>2. "drop" \in Places /\ "send" \in Places
  BY DEF Places
<1>3. ~AtLeastHigh(CurrentSize) => channel = 0
  BY WrapsAround DEF CurrentSize, BufferInv, BufferTypes
<1>4. CASE push' = [push EXCEPT ![p] = [at |-> "drop"]]
  BY <1>1, <1>2, <1>4, PushGoesOn
<1>5. CASE /\ push' = [push EXCEPT ![p] = [at |-> "send"]]
           /\ drop_policy \in {"Oldest", "Random"} \/ ~AtLeastHigh(CurrentSize)
  BY <1>1, <1>2, <1>3, <1>5, PushGoesOn
<1>6. QED
  BY <1>4, <1>5 DEF Measure

\* try_send fills one place of the channel, or none when it is full.
LEMMA TrySendKeeps ==
  ASSUME BufferInv, NEW p \in Pushers, TrySend(p) PROVE BufferInv'
<1>1. BufferTypes
  BY DEF BufferInv
<1>2. /\ push[p].at = "send"
      /\ UNCHANGED <<drop_policy, enabled, total_received, total_dropped,
                     total_processed, delivered>>
  BY DEF TrySend
<1>3. "drop" \in Places /\ "count" \in Places
  BY DEF Places
<1>4. CASE /\ channel < BUFFER_SIZE /\ channel' = channel + 1
           /\ push' = [push EXCEPT ![p] = [at |-> "count"]]
  <2>1. PICK busy \in Nat, counting \in Nat, sending \in Nat, all \in Nat :
           /\ busy = Cardinality(PushersAt(push, Busy))
           /\ counting = Cardinality(PushersAt(push, Counting))
           /\ sending = Cardinality(PushersAt(push, Sending))
           /\ all = Cardinality(Pushers) /\ sending <= all
           /\ total_received = total_processed + total_dropped + busy
           /\ total_processed + counting = channel + delivered
           /\ enabled /\ drop_policy = "Newest" => channel + sending <= all
    BY BufferCounts
  <2>2. Cardinality(PushersAt(push', Busy)) = busy
    <3>1. "count" \in Busy /\ push[p].at \in Busy
      BY <1>2 DEF Busy, Places
    <3>2. QED
      BY <1>1, <1>3, <1>4, <2>1, <3>1, PusherMoves
  <2>3. Cardinality(PushersAt(push', Counting)) = counting + 1
    <3>1. "count" \in Counting /\ push[p].at \notin Counting
      BY <1>2 DEF Counting
    <3>2. QED
      BY <1>1, <1>3, <1>4, <2>1, <3>1, PusherMoves
  <2>4. Cardinality(PushersAt(push', Sending)) = sending - 1
    <3>1. "count" \notin Sending /\ push[p].at \in Sending
      BY <1>2 DEF Sending
    <3>2. QED
      BY <1>1, <1>3, <1>4, <2>1, <3>1, PusherMoves
  <2>5. BufferTypes'
    <3>1. push' \in [Pushers -> [at : Places]]
      BY <1>1, <1>3, <1>4 DEF BufferTypes
    <3>2. channel' \in 0..BUFFER_SIZE
      BY <1>1, <1>4, BackpressureConstants DEF BufferTypes, BackpressureConstants
    <3>3. QED
      BY <1>1, <1>2, <3>1, <3>2 DEF BufferTypes
  <2>6. channel \in Nat /\ delivered \in Nat /\ total_processed \in Nat
    BY <1>1 DEF BufferTypes
  <2>7. QED
    BY <1>2, <1>4, <2>1, <2>2, <2>3, <2>4, <2>5, <2>6 DEF BufferInv
<1>5. CASE /\ UNCHANGED channel
           /\ push' = [push EXCEPT ![p] = [at |-> "drop"]]
  BY <1>2, <1>3, <1>5, PushGoesOn
<1>6. QED
  BY <1>4, <1>5 DEF TrySend

\* The counter follows.
LEMMA EndPushKeeps ==
  ASSUME BufferInv, NEW p \in Pushers, EndPush(p) PROVE BufferInv'
<1>1. BufferTypes
  BY DEF BufferInv
<1>2. /\ push' = [push EXCEPT ![p] = [at |-> "idle"]]
      /\ UNCHANGED <<drop_policy, enabled, channel, total_received, delivered>>
  BY DEF EndPush, Outside
<1>3. "idle" \in Places
  BY DEF Places
<1>4. PICK busy \in Nat, counting \in Nat, sending \in Nat, all \in Nat :
           /\ busy = Cardinality(PushersAt(push, Busy))
           /\ counting = Cardinality(PushersAt(push, Counting))
           /\ sending = Cardinality(PushersAt(push, Sending))
           /\ all = Cardinality(Pushers) /\ sending <= all
           /\ total_received = total_processed + total_dropped + busy
           /\ total_processed + counting = channel + delivered
           /\ enabled /\ drop_policy = "Newest" => channel + sending <= all
  BY BufferCounts
<1>5. PICK y \in {"count", "drop"} :
        /\ push[p].at = y
        /\ y = "count" => total_processed' = total_processed + 1
                          /\ UNCHANGED total_dropped
        /\ y = "drop" => total_dropped' = total_dropped + 1
                         /\ UNCHANGED total_processed
  BY DEF EndPush
<1>6. Cardinality(PushersAt(push', Busy)) = busy - 1
  <2>1. "idle" \notin Busy /\ push[p].at \in Busy
    BY <1>5 DEF Busy, Places
  <2>2. QED
    BY <1>1, <1>2, <1>3, <1>4, <2>1, PusherMoves
<1>7. Cardinality(PushersAt(push', Counting)) =
        counting - (IF y = "count" THEN 1 ELSE 0)
  <2>1. "idle" \notin Counting /\ (push[p].at \in Counting <=> y = "count")
    BY <1>5 DEF Counting
  <2>2. CASE y = "count"
    <3>1. push[p].at \in Counting /\ "idle" \notin Counting
      BY <2>1, <2>2
    <3>2. Cardinality(PushersAt(push', Counting)) = counting - 1
      BY <1>1, <1>2, <1>3, <1>4, <3>1, PusherMoves
    <3>3. QED
      BY <2>2, <3>2
  <2>3. CASE y # "count"
    <3>1. push[p].at \notin Counting /\ "idle" \notin Counting
      BY <2>1, <2>3
    <3>2. Cardinality(PushersAt(push', Counting)) = counting
      BY <1>1, <1>2, <1>3, <1>4, <3>1, PusherMoves
    <3>3. QED
      BY <2>3, <3>2
  <2>4. QED
    BY <2>2, <2>3
<1>8. Cardinality(PushersAt(push', Sending)) = sending
  <2>1. "idle" \notin Sending /\ push[p].at \notin Sending
    BY <1>5 DEF Sending
  <2>2. QED
    BY <1>1, <1>2, <1>3, <1>4, <2>1, PusherMoves
<1>9. channel \in Nat /\ delivered \in Nat /\ total_processed \in Nat
      /\ total_dropped \in Nat
  BY <1>1 DEF BufferTypes
<1>10. BufferTypes'
  <2>1. push' \in [Pushers -> [at : Places]]
    BY <1>1, <1>2, <1>3 DEF BufferTypes
  <2>2. total_dropped' \in Nat /\ total_processed' \in Nat
    BY <1>5, <1>9
  <2>3. QED
    BY <1>1, <1>2, <2>1, <2>2 DEF BufferTypes
<1>11. QED
  BY <1>2, <1>4, <1>5, <1>6, <1>7, <1>8, <1>9, <1>10 DEF BufferInv

\* Every step of the buffer keeps its invariant.
LEMMA BufferKeeps ==
  ASSUME BufferInv, [BackpressureNext]_bpVars PROVE BufferInv'
<1>1. BufferTypes
  BY DEF BufferInv
<1>2. ASSUME NEW p \in Pushers, BeginPush(p) PROVE BufferInv'
  <2> DEFINE x == IF enabled THEN "measure" ELSE "send"
  <2>1. /\ push[p].at = "idle" /\ push' = [push EXCEPT ![p] = [at |-> x]]
        /\ total_received' = total_received + 1
        /\ UNCHANGED <<drop_policy, enabled, channel, total_dropped,
                       total_processed, delivered>>
    BY <1>2 DEF BeginPush, Outside
  <2>2. x \in Places /\ x \notin {"idle", "count"} /\ (x = "send" => ~enabled)
    BY DEF Places
  <2> HIDE DEF x
  <2>3. QED
    BY <2>1, <2>2, PushGoesOn
<1>3. CASE Receive
  <2>1. PICK n \in 1..channel : /\ channel' = channel - n
                                /\ delivered' = delivered + n
    BY <1>3 DEF Receive
  <2>2. UNCHANGED <<drop_policy, enabled, push, total_received, total_dropped,
                    total_processed>>
    BY <1>3 DEF Receive
  <2>3. /\ channel \in Nat /\ delivered \in Nat /\ n \in Nat /\ n <= channel
        /\ BUFFER_SIZE \in Nat /\ channel <= BUFFER_SIZE
    BY <1>1, BackpressureConstants DEF BufferTypes, BackpressureConstants
  <2>4. channel' \in 0..BUFFER_SIZE /\ delivered' \in Nat
    BY <2>1, <2>3
  <2>5. BufferTypes'
    BY <1>1, <2>2, <2>4 DEF BufferTypes
  <2>6. \A Y : PushersAt(push', Y) = PushersAt(push, Y)
    BY <2>2 DEF PushersAt
  <2>7. PICK busy \in Nat, counting \in Nat, sending \in Nat, all \in Nat :
           /\ busy = Cardinality(PushersAt(push, Busy))
           /\ counting = Cardinality(PushersAt(push, Counting))
           /\ sending = Cardinality(PushersAt(push, Sending))
           /\ all = Cardinality(Pushers) /\ sending <= all
           /\ total_received = total_processed + total_dropped + busy
           /\ total_processed + counting = channel + delivered
           /\ enabled /\ drop_policy = "Newest" => channel + sending <= all
    BY BufferCounts
  <2>8. /\ Cardinality(PushersAt(push', Busy)) = busy
        /\ Cardinality(PushersAt(push', Counting)) = counting
        /\ Cardinality(PushersAt(push', Sending)) = sending
    BY <2>6, <2>7
  <2>9. QED
    BY <1>1, <2>1, <2>2, <2>3, <2>5, <2>7, <2>8 DEF BufferInv, BufferTypes
<1>4. CASE UNCHANGED bpVars
  BY <1>4 DEF bpVars, BufferInv, BufferTypes, PushersAt
<1>5. QED
  BY <1>2, <1>3, <1>4, MeasureKeeps, TrySendKeeps, EndPushKeeps
     DEF BackpressureNext

\* Every push is counted once, whatever other pushes and receivers do between
\* its steps, and the Newest policy keeps the channel nearly empty
\* (BackpressureBuffer::push).
THEOREM BufferInvariant == BackpressureSpec => []BufferInv
<1>1. BufferInv /\ [BackpressureNext]_bpVars => BufferInv'
  BY BufferKeeps
<1>2. QED
  BY <1>1, BufferInitially, PTL DEF BackpressureSpec

\* The counters of the buffer follow from its invariant.
LEMMA BufferSafe == BufferInv => PushesCounted /\ NewestHoldsFew
<1> SUFFICES ASSUME BufferInv PROVE PushesCounted /\ NewestHoldsFew
  OBVIOUS
<1>1. BufferTypes
  BY DEF BufferInv
<1>2. {p \in Pushers : push[p] # Outside} = PushersAt(push, Busy)
  <2>1. ASSUME NEW p \in Pushers
        PROVE  push[p] # Outside <=> push[p].at \in Busy
    BY <1>1 DEF BufferTypes, Outside, Busy
  <2>2. QED
    BY <2>1 DEF PushersAt
<1>3. Pushing("count") = Cardinality(PushersAt(push, Counting))
  <2>1. {p \in Pushers : push[p].at = "count"} = PushersAt(push, Counting)
    BY DEF PushersAt, Counting
  <2>2. QED
    BY <2>1 DEF Pushing
<1>4. PushesCounted
  BY <1>2, <1>3 DEF BufferInv, PushesCounted
<1>5. NewestHoldsFew
  BY <1>1, FewPushers DEF BufferInv, BufferTypes, NewestHoldsFew
<1>6. QED
  BY <1>4, <1>5

\* In every behaviour the buffer takes its own steps, or none.
LEMMA BufferPart == Spec => BackpressureSpec
<1>1. Init => BackpressureInit
  BY DEF Init
<1>2. [Next]_vars => [BackpressureNext]_bpVars
  BY DEF Next, vars, Market, Mempool_, Buffer, State, Tables, bpVars
<1>3. QED
  BY <1>1, <1>2, PTL DEF Spec, BackpressureSpec

\* What the mempool hands on is accounted for, within bounds and noticed once,
\* for any capacity, any number of pushing threads and any blocks
\* (process_transaction, poll_pending_transactions, BackpressureBuffer::push).
THEOREM MempoolIsSafe == Spec => []MempoolSafe
<1>1. MempoolInv /\ BufferInv => MempoolSafe
  BY BufferSafe DEF MempoolInv, MempoolSafe
<1>2. QED
  BY <1>1, MempoolPart, MempoolInvariant, BufferPart, BufferInvariant, PTL

-----------------------------------------------------------------------------
(* The state manager                                                       *)

Last(q) == q[Len(q)]
Reported(events, a, b) == Extends(a, b) \/ <<a, b>> \in events

\* The update in progress has read the last header of the history, and breaks
\* are reported before they are stored.
HeadInv ==
  /\ block_headers \in Seq(Headers)
  /\ \/ update = NoUpdate
     \/ update \in [at : {"reorg", "head", "history"},
                    current : Headers \cup {NoHeader}, header : Headers]
  /\ \A i \in 1..Len(block_headers) - 1 :
       Reported(reorg_events, block_headers[i], block_headers[i + 1])
  /\ Len(block_headers) <= max_block_history \/ max_block_history = 0
  /\ update = NoUpdate /\ block_headers # <<>> =>
       current_head = Last(block_headers)
  /\ current_head \in Headers \cup {NoHeader}
  /\ update # NoUpdate =>
       /\ block_headers # <<>> => update.current = Last(block_headers)
       /\ update.at \in {"head", "history"} /\ update.current # NoHeader =>
            Reported(reorg_events, update.current, update.header)
       /\ update.at = "history" => current_head = update.header

\* What the constants say of the limits and the headers.
LEMMA StateValues ==
  /\ max_block_history \in Nat /\ max_pending_transactions \in Nat
  /\ transaction_ttl \in Nat /\ NoHeader \notin Headers
  /\ \A t \in PendingTxs : t.nonce \in Nat
BY StateManagerConstants DEF StateManagerConstants

\* There is no head before the first block (initialize).
LEMMA HeadInitially == StateInit => HeadInv
<1> SUFFICES ASSUME StateInit PROVE HeadInv
  OBVIOUS
<1>1. PICK h \in Headers \cup {NoHeader} :
        /\ current_head = h
        /\ block_headers = IF h = NoHeader THEN <<>> ELSE <<h>>
  BY DEF StateInit
<1>2. update = NoUpdate
  BY DEF StateInit
<1>3. CASE h = NoHeader
  BY <1>1, <1>2, <1>3, StateValues DEF HeadInv
<1>4. CASE h # NoHeader
  <2>1. block_headers = <<h>> /\ block_headers \in Seq(Headers)
        /\ Len(block_headers) = 1 /\ Last(block_headers) = h
    BY <1>1, <1>4 DEF Last
  <2>2. 1 <= max_block_history \/ max_block_history = 0
    BY StateValues
  <2>3. \A i \in 1..Len(block_headers) - 1 : FALSE
    BY <2>1
  <2>4. QED
    BY <1>1, <1>2, <2>1, <2>2, <2>3 DEF HeadInv
<1>5. QED
  BY <1>3, <1>4

\* Reports are never withdrawn.
LEMMA StillReported ==
  ASSUME reorg_events \subseteq reorg_events', NEW a, NEW b, Reported(reorg_events, a, b)
  PROVE  Reported(reorg_events', a, b)
BY DEF Reported, Extends

\* Trim keeps the end of the history.
LEMMA TrimKeepsEnd ==
  ASSUME NEW q \in Seq(Headers), q # <<>>
  PROVE  /\ Trim(q) \in Seq(Headers)
         /\ Len(Trim(q)) <= max_block_history \/ Trim(q) = q
         /\ Len(Trim(q)) <= max_block_history
         /\ Trim(q) # <<>> => Last(Trim(q)) = Last(q)
         /\ \E d \in Nat : /\ Len(Trim(q)) + d = Len(q)
                           /\ \A i \in 1..Len(Trim(q)) : Trim(q)[i] = q[i + d]
<1>1. PICK m \in Nat : m = max_block_history
  BY StateValues
<1>2. PICK n \in Nat : n = Len(q)
  OBVIOUS
<1>3. CASE n > m
  <2> DEFINE t == SubSeq(q, n - m + 1, n)
  <2>1. Trim(q) = t
    BY <1>1, <1>2, <1>3 DEF Trim
  <2>2. t \in Seq(Headers) /\ Len(t) = m
    BY <1>2, <1>3, SubSeqProperties
  <2>3. ASSUME NEW i \in 1..m PROVE t[i] = q[i + (n - m)]
    BY <1>2, <1>3, SubSeqProperties
  <2> HIDE DEF t
  <2>4. t # <<>> => Last(t) = Last(q)
    <3>1. ASSUME t # <<>> PROVE Last(t) = Last(q)
      <4>1. m \in 1..m
        BY <2>2, <3>1, EmptySeq
      <4>2. t[m] = q[m + (n - m)]
        BY <2>3, <4>1
      <4>3. m + (n - m) = n
        OBVIOUS
      <4>4. QED
        BY <1>2, <2>2, <4>2, <4>3 DEF Last
    <3>2. QED
      BY <3>1
  <2>5. n - m \in Nat /\ m + (n - m) = n
    BY <1>3
  <2>6. PICK d \in Nat : d = n - m
    BY <2>5
  <2>7. Len(t) + d = Len(q) /\ \A i \in 1..Len(t) : t[i] = q[i + d]
    BY <1>2, <2>2, <2>3, <2>5, <2>6
  <2>8. Len(t) <= m
    BY <2>2
  <2>9. QED
    BY <1>1, <2>1, <2>2, <2>4, <2>7, <2>8
<1>4. CASE n <= m
  <2>1. Trim(q) = q
    BY <1>1, <1>2, <1>4 DEF Trim
  <2>2. 0 \in Nat /\ Len(q) + 0 = Len(q)
        /\ \A i \in 1..Len(q) : q[i] = q[i + 0]
    BY <1>2
  <2>3. QED
    BY <1>1, <1>2, <1>4, <2>1, <2>2
<1>5. QED
  BY <1>3, <1>4

\* A step of an update that leaves the history alone.
LEMMA UpdateMoves ==
  ASSUME HeadInv, UNCHANGED block_headers, reorg_events \subseteq reorg_events',
         update' \in [at : {"reorg", "head", "history"},
                      current : Headers \cup {NoHeader}, header : Headers],
         current_head' \in Headers \cup {NoHeader},
         block_headers # <<>> => update'.current = Last(block_headers),
         update'.at \in {"head", "history"} /\ update'.current # NoHeader =>
           Reported(reorg_events', update'.current, update'.header),
         update'.at = "history" => current_head' = update'.header
  PROVE  HeadInv'
<1>1. update' # NoUpdate
  BY DEF NoUpdate
<1>2. \A i \in 1..Len(block_headers) - 1 :
        Reported(reorg_events', block_headers'[i], block_headers'[i + 1])
  BY StillReported DEF HeadInv
<1>3. QED
  BY <1>1, <1>2 DEF HeadInv

\* What UpdateBlockHeader, StoreReorg and SetHead read and write
\* (update_block_header).
LEMMA UpdateStarts ==
  ASSUME HeadInv, NEW h \in Headers, UpdateBlockHeader(h) PROVE HeadInv'
<1>1. /\ update = NoUpdate
      /\ update' = [at |-> IF current_head = NoHeader \/ Extends(current_head, h)
                             THEN "head" ELSE "reorg",
                    current |-> current_head, header |-> h]
      /\ UNCHANGED <<current_head, block_headers, reorg_events>>
  BY DEF UpdateBlockHeader
<1>2. current_head \in Headers \cup {NoHeader}
  BY DEF HeadInv
<1>3. /\ update' \in [at : {"reorg", "head", "history"},
                      current : Headers \cup {NoHeader}, header : Headers]
      /\ update'.current = current_head /\ update'.header = h
      /\ update'.at = IF current_head = NoHeader \/ Extends(current_head, h)
                        THEN "head" ELSE "reorg"
  BY <1>1, <1>2
<1>4. block_headers # <<>> => update'.current = Last(block_headers)
  BY <1>1, <1>3 DEF HeadInv
<1>5. update'.at \in {"head", "history"} /\ update'.current # NoHeader =>
        Reported(reorg_events', update'.current, update'.header)
  BY <1>3 DEF Reported, Extends
<1>6. QED
  BY <1>1, <1>2, <1>3, <1>4, <1>5, UpdateMoves

\* An update stores its reorganisation before it sets the head
\* (update_block_header).
LEMMA UpdateGoesOn ==
  ASSUME HeadInv, StoreReorg \/ SetHead PROVE HeadInv'
<1>1. update # NoUpdate
  BY DEF StoreReorg, SetHead, NoUpdate
<1>2. PICK u \in [at : {"reorg", "head", "history"},
                  current : Headers \cup {NoHeader}, header : Headers] : u = update
  BY <1>1 DEF HeadInv
<1>3. block_headers # <<>> => u.current = Last(block_headers)
  BY <1>1, <1>2 DEF HeadInv
<1>4. CASE StoreReorg
  <2>1. /\ reorg_events' = reorg_events \cup {<<u.current, u.header>>}
        /\ update' = [u EXCEPT !.at = "head"]
        /\ UNCHANGED <<current_head, block_headers>>
    BY <1>2, <1>4 DEF StoreReorg
  <2>2. /\ update' \in [at : {"reorg", "head", "history"},
                        current : Headers \cup {NoHeader}, header : Headers]
        /\ update'.at = "head" /\ update'.current = u.current
        /\ update'.header = u.header
    BY <2>1
  <2>3. Reported(reorg_events', u.current, u.header)
    BY <2>1 DEF Reported
  <2>4. Reported(reorg_events', update'.current, update'.header)
    BY <2>1, <2>2 DEF Reported
  <2>5. current_head' \in Headers \cup {NoHeader}
    BY <2>1 DEF HeadInv
  <2>6. QED
    BY <1>3, <2>1, <2>2, <2>4, <2>5, UpdateMoves
<1>5. CASE SetHead
  <2>1. /\ u.at = "head" /\ current_head' = u.header
        /\ update' = [u EXCEPT !.at = "history"]
        /\ UNCHANGED <<block_headers, reorg_events>>
    BY <1>2, <1>5 DEF SetHead
  <2>2. /\ update' \in [at : {"reorg", "head", "history"},
                        current : Headers \cup {NoHeader}, header : Headers]
        /\ update'.at = "history" /\ update'.current = u.current
        /\ update'.header = u.header
    BY <2>1
  <2>3. u.current # NoHeader => Reported(reorg_events, u.current, u.header)
    BY <1>1, <1>2, <2>1 DEF HeadInv
  <2>4. update'.current # NoHeader => Reported(reorg_events', update'.current, update'.header)
    BY <2>1, <2>2, <2>3 DEF Reported, Extends
  <2>5. current_head' \in Headers \cup {NoHeader}
    BY <2>1
  <2>6. QED
    BY <1>3, <2>1, <2>2, <2>4, <2>5, UpdateMoves
<1>6. QED
  BY <1>4, <1>5

\* The new header follows the last one, or that break was reported; trimming
\* takes headers from the front only.
LEMMA PushHistoryKeeps ==
  ASSUME HeadInv, PushHistory PROVE HeadInv'
<1>1. /\ update.at = "history" /\ update' = NoUpdate
      /\ block_headers' = Trim(Append(block_headers, update.header))
      /\ UNCHANGED <<current_head, reorg_events>>
  BY DEF PushHistory
<1>2. update # NoUpdate
  BY <1>1 DEF NoUpdate
<1>3. PICK u \in [at : {"reorg", "head", "history"},
                  current : Headers \cup {NoHeader}, header : Headers] : u = update
  BY <1>2 DEF HeadInv
<1>4. PICK old \in Seq(Headers) : old = block_headers
  BY DEF HeadInv
<1>5. PICK n \in Nat : n = Len(old)
  OBVIOUS
<1>6. PICK q : q = Append(old, u.header)
  OBVIOUS
<1>7. /\ q \in Seq(Headers) /\ q # <<>> /\ Len(q) = n + 1
      /\ \A i \in 1..n : q[i] = old[i]
      /\ q[n + 1] = u.header /\ Last(q) = u.header
  BY <1>5, <1>6 DEF Last
<1>8. ASSUME NEW i \in 1..n PROVE Reported(reorg_events, q[i], q[i + 1])
  <2>1. CASE i < n
    <3>1. i \in 1..n - 1 /\ i + 1 \in 1..n
      BY <2>1
    <3>2. Reported(reorg_events, old[i], old[i + 1])
      BY <1>4, <1>5, <3>1 DEF HeadInv
    <3>3. QED
      BY <1>7, <3>1, <3>2
  <2>2. CASE i = n
    <3>1. old # <<>>
      BY <1>5, <2>2, EmptySeq
    <3>2. u.current = old[n] /\ u.current # NoHeader
      BY <1>2, <1>3, <1>4, <1>5, <2>2, <3>1, StateValues DEF HeadInv, Last
    <3>3. Reported(reorg_events, u.current, u.header)
      BY <1>1, <1>2, <1>3, <3>2 DEF HeadInv
    <3>4. QED
      BY <1>7, <2>2, <3>2, <3>3
  <2>3. QED
    BY <2>1, <2>2
<1>9. block_headers' = Trim(q)
  BY <1>1, <1>3, <1>4, <1>6
<1>10. /\ Trim(q) \in Seq(Headers)
       /\ Len(Trim(q)) <= max_block_history
       /\ Trim(q) # <<>> => Last(Trim(q)) = u.header
  BY <1>7, TrimKeepsEnd
<1>11. PICK d \in Nat : /\ Len(Trim(q)) + d = n + 1
                        /\ \A i \in 1..Len(Trim(q)) : Trim(q)[i] = q[i + d]
  BY <1>7, TrimKeepsEnd, ZenonT(40)
<1>12. PICK m \in Nat : m = Len(Trim(q))
  BY <1>10
<1>13. ASSUME NEW i \in 1..m - 1
       PROVE  Reported(reorg_events, Trim(q)[i], Trim(q)[i + 1])
  <2>1. i \in 1..m /\ i + 1 \in 1..m /\ i + d \in 1..n
    BY <1>11, <1>12
  <2>2. Trim(q)[i] = q[i + d] /\ Trim(q)[i + 1] = q[(i + d) + 1]
    <3>1. (i + 1) + d = (i + d) + 1
      OBVIOUS
    <3>2. QED
      BY <1>11, <1>12, <2>1, <3>1
  <2>3. QED
    BY <1>8, <2>1, <2>2
<1>14. \A i \in 1..Len(block_headers') - 1 :
         Reported(reorg_events, block_headers'[i], block_headers'[i + 1])
  BY <1>9, <1>12, <1>13
<1>15. \A i \in 1..Len(block_headers') - 1 :
         Reported(reorg_events', block_headers'[i], block_headers'[i + 1])
  BY <1>1, <1>14
<1>16. current_head' = u.header /\ current_head' \in Headers \cup {NoHeader}
  BY <1>1, <1>2, <1>3 DEF HeadInv
<1>17. block_headers' # <<>> => current_head' = Last(block_headers')
  BY <1>9, <1>10, <1>16
<1>18. QED
  BY <1>1, <1>9, <1>10, <1>15, <1>16, <1>17 DEF HeadInv

\* Every step keeps the head among the known headers.
LEMMA HeadKeeps ==
  ASSUME HeadInv, [StateNext]_stateVars PROVE HeadInv'
<1>1. CASE UNCHANGED headerVars
  BY <1>1 DEF headerVars, HeadInv, Reported, NoUpdate
<1>2. ASSUME NEW t \in PendingTxs, NEW first_seen \in 0 .. stateTime,
             UpdatePendingTransaction(t, first_seen)
      PROVE  HeadInv'
  BY <1>1, <1>2 DEF UpdatePendingTransaction
<1>3. CASE Maintenance \/ StateTick
  BY <1>1, <1>3 DEF Maintenance, StateTick
<1>4. CASE UNCHANGED stateVars
  BY <1>1, <1>4 DEF stateVars, headerVars
<1>5. CASE \E h \in Headers : UpdateBlockHeader(h)
  BY <1>5, UpdateStarts
<1>6. CASE UpdateStep
  BY <1>6, UpdateGoesOn, PushHistoryKeeps DEF UpdateStep
<1>7. QED
  BY <1>2, <1>3, <1>4, <1>5, <1>6 DEF StateNext

PendingRows == [tx : PendingTxs, first_seen : Nat, last_seen : Nat]

\* The nonces cover what was pending, and over the limit all is young.
PendingInv ==
  /\ IsFiniteSet(pending_transactions)
  /\ pending_transactions \subseteq PendingRows
  /\ stateTime \in Nat /\ lastInsert \in Nat
  /\ everPending \subseteq PendingTxs
  /\ nonce_tracker \in [Senders -> Nat]
  /\ NonceCovers
  /\ OverLimitIsYoung
  /\ PanicsOnStaleOnly

\* No transaction is pending at first.
LEMMA PendingInitially == StateInit => PendingInv
<1> SUFFICES ASSUME StateInit PROVE PendingInv
  OBVIOUS
<1>1. NonceCovers /\ OverLimitIsYoung /\ PanicsOnStaleOnly
  BY DEF StateInit, NonceCovers, OverLimitIsYoung, PanicsOnStaleOnly
<1>2. QED
  BY <1>1, FS_EmptySet DEF StateInit, PendingInv

\* The nonce of a sender only grows.
LEMMA TrackNonceCovers ==
  ASSUME PendingInv, NEW t \in PendingTxs, TrackNonce(t)
  PROVE  /\ nonce_tracker' \in [Senders -> Nat]
         /\ \A x \in everPending \cup {t} : nonce_tracker'[x.from] >= x.nonce
<1>1. t.from \in Senders /\ t.nonce \in Nat
  BY StateValues DEF Senders
<1>2. PICK old \in [Senders -> Nat] : old = nonce_tracker
  BY DEF PendingInv
<1> DEFINE n == IF t.nonce > old[t.from] THEN t.nonce ELSE old[t.from]
<1>3. /\ n \in Nat /\ n >= old[t.from] /\ n >= t.nonce
      /\ nonce_tracker' = [old EXCEPT ![t.from] = n]
  <2>1. old[t.from] \in Nat
    BY <1>1, <1>2
  <2>2. nonce_tracker' = [old EXCEPT ![t.from] = n]
    BY <1>2 DEF TrackNonce
  <2>3. n \in Nat /\ n >= old[t.from] /\ n >= t.nonce
    BY <1>1, <2>1
  <2>4. QED
    BY <2>2, <2>3
<1> HIDE DEF n
<1>4. nonce_tracker' \in [Senders -> Nat]
  BY <1>1, <1>3
<1>5. ASSUME NEW x \in everPending \cup {t}
      PROVE  nonce_tracker'[x.from] >= x.nonce
  <2>1. x \in PendingTxs
    BY <1>5 DEF PendingInv
  <2>2. x.from \in Senders /\ x.nonce \in Nat
    BY <2>1, StateValues DEF Senders
  <2>3. CASE x.from = t.from
    <3>1. nonce_tracker'[x.from] = n
      BY <1>1, <1>3, <2>3
    <3>2. CASE x = t
      BY <1>3, <3>1, <3>2
    <3>3. CASE x \in everPending
      <4>1. old[t.from] >= x.nonce /\ old[t.from] \in Nat
        BY <1>1, <1>2, <2>3, <3>3 DEF PendingInv, NonceCovers
      <4>2. QED
        BY <1>3, <2>2, <3>1, <4>1
    <3>4. QED
      BY <1>5, <3>2, <3>3
  <2>4. CASE x.from # t.from
    <3>1. nonce_tracker'[x.from] = old[x.from] /\ x \in everPending
      BY <1>3, <1>5, <2>2, <2>4
    <3>2. QED
      BY <1>2, <3>1 DEF PendingInv, NonceCovers
  <2>5. QED
    BY <2>3, <2>4
<1>6. QED
  BY <1>4, <1>5

\* A transaction that is seen again does not add a row.
LEMMA SeenAgain ==
  ASSUME PendingInv, NEW p \in pending_transactions,
         pending_transactions' = (pending_transactions \ {p})
           \cup {[p EXCEPT !.last_seen = stateTime]},
         UNCHANGED lastInsert
  PROVE  /\ IsFiniteSet(pending_transactions')
         /\ pending_transactions' \subseteq PendingRows
         /\ OverLimitIsYoung'
<1> DEFINE P == pending_transactions
           new == [p EXCEPT !.last_seen = stateTime]
<1>1. /\ P \subseteq PendingRows /\ IsFiniteSet(P) /\ stateTime \in Nat
      /\ p \in PendingRows
  BY DEF PendingInv
<1>2. new \in PendingRows /\ new.first_seen = p.first_seen
  BY <1>1 DEF PendingRows
<1> HIDE DEF new
<1>3. IsFiniteSet(P \ {p}) /\ Cardinality(P \ {p}) = Cardinality(P) - 1
  BY <1>1, FS_RemoveElement
<1>4. Cardinality(P) \in Nat
  BY <1>1, FS_CardinalityType
<1>5. /\ IsFiniteSet(pending_transactions')
      /\ Cardinality(pending_transactions') <= Cardinality(P)
  <2>1. /\ IsFiniteSet((P \ {p}) \cup {new})
        /\ \/ Cardinality((P \ {p}) \cup {new}) = Cardinality(P \ {p})
           \/ Cardinality((P \ {p}) \cup {new}) = Cardinality(P \ {p}) + 1
    BY <1>3, FS_AddElement
  <2>2. pending_transactions' = (P \ {p}) \cup {new}
    BY DEF new
  <2>3. Cardinality((P \ {p}) \cup {new}) <= Cardinality(P)
    BY <1>3, <1>4, <2>1
  <2>4. QED
    BY <2>1, <2>2, <2>3
<1>6. pending_transactions' \subseteq PendingRows
  <2>1. pending_transactions' = (P \ {p}) \cup {new}
    BY DEF new
  <2>2. P \ {p} \subseteq PendingRows
    BY <1>1
  <2>3. QED
    BY <1>2, <2>1, <2>2
<1>7. OverLimitIsYoung'
  <2>1. SUFFICES ASSUME Cardinality(pending_transactions')
                          > max_pending_transactions,
                        NEW q \in pending_transactions'
                 PROVE  q.first_seen >= lastInsert - transaction_ttl
    BY DEF OverLimitIsYoung
  <2>2. Cardinality(pending_transactions') \in Nat
    BY <1>5, FS_CardinalityType
  <2>3. Cardinality(P) > max_pending_transactions
    BY <1>4, <1>5, <2>1, <2>2, StateValues
  <2>4. \A r \in P : r.first_seen >= lastInsert - transaction_ttl
    BY <2>3 DEF PendingInv, OverLimitIsYoung
  <2>5. \E r \in P : q.first_seen = r.first_seen
    BY <1>2 DEF new
  <2>6. QED
    BY <2>4, <2>5
<1>8. QED
  BY <1>5, <1>6, <1>7

\* A new transaction: over the limit only what has expired is removed, so what
\* is left is young, and only an expired one is not among it.
LEMMA Inserted ==
  ASSUME PendingInv, NEW row \in PendingRows, NEW added, NEW kept,
         added = pending_transactions \cup {row},
         kept = IF Cardinality(added) > max_pending_transactions
                  THEN Unexpired(added) ELSE added,
         pending_transactions' = kept,
         lastInsert' = stateTime
  PROVE  /\ IsFiniteSet(pending_transactions')
         /\ pending_transactions' \subseteq PendingRows
         /\ OverLimitIsYoung'
         /\ row \notin kept =>
              /\ row.first_seen < stateTime - transaction_ttl
              /\ \A p \in kept : p.first_seen >= stateTime - transaction_ttl
<1>1. IsFiniteSet(added) /\ added \subseteq PendingRows /\ row \in added
  BY FS_AddElement DEF PendingInv
<1>2. Unexpired(added) \subseteq added /\ IsFiniteSet(Unexpired(added))
  BY <1>1, FS_Subset DEF Unexpired
<1>3. CASE Cardinality(added) > max_pending_transactions
  <2>1. pending_transactions' = Unexpired(added) /\ kept = Unexpired(added)
    BY <1>3
  <2>2. ASSUME NEW q \in Unexpired(added)
        PROVE  q.first_seen >= stateTime - transaction_ttl
    <3>1. /\ q.first_seen \in Nat /\ stateTime \in Nat
          /\ ~(q.first_seen < stateTime - transaction_ttl)
      BY <1>1, <2>2 DEF Unexpired, Expired, PendingInv, PendingRows
    <3>2. QED
      BY <3>1, StateValues
  <2>3. row \notin kept => row.first_seen < stateTime - transaction_ttl
    BY <1>1, <2>1 DEF Unexpired, Expired
  <2>4. QED
    BY <1>1, <1>2, <2>1, <2>2, <2>3 DEF OverLimitIsYoung
<1>4. CASE ~(Cardinality(added) > max_pending_transactions)
  BY <1>1, <1>4 DEF OverLimitIsYoung
<1>5. QED
  BY <1>3, <1>4

\* Every step keeps the pending transactions within their limits.
LEMMA PendingKeeps ==
  ASSUME PendingInv, [StateNext]_stateVars PROVE PendingInv'
<1>1. ASSUME NEW t \in PendingTxs, NEW first_seen \in 0 .. stateTime,
             UpdatePendingTransaction(t, first_seen)
      PROVE  PendingInv'
  <2> DEFINE row == [tx |-> t, first_seen |-> first_seen, last_seen |-> stateTime]
             added == pending_transactions \cup {row}
             kept == IF Cardinality(added) > max_pending_transactions
                       THEN Unexpired(added) ELSE added
  <2>1. /\ panicked = {} /\ UNCHANGED stateTime /\ stateTime \in Nat
        /\ first_seen \in Nat
    BY <1>1 DEF UpdatePendingTransaction, PendingInv
  <2>2. CASE \E p \in pending_transactions :
               /\ p.tx = t
               /\ pending_transactions' = (pending_transactions \ {p})
                    \cup {[p EXCEPT !.last_seen = stateTime]}
               /\ TrackNonce(t)
               /\ UNCHANGED <<panicked, lastInsert, everPending>>
    <3>1. /\ nonce_tracker' \in [Senders -> Nat]
          /\ \A x \in everPending \cup {t} : nonce_tracker'[x.from] >= x.nonce
      BY <2>2, TrackNonceCovers
    <3>2. NonceCovers'
      BY <2>2, <3>1 DEF NonceCovers
    <3>3. PanicsOnStaleOnly'
      BY <2>1, <2>2 DEF PanicsOnStaleOnly
    <3>4. /\ IsFiniteSet(pending_transactions')
          /\ pending_transactions' \subseteq PendingRows
          /\ OverLimitIsYoung' /\ lastInsert' \in Nat
      BY <2>2, SeenAgain DEF PendingInv
    <3>5. everPending' \subseteq PendingTxs
      BY <2>2 DEF PendingInv
    <3>6. QED
      BY <2>1, <3>1, <3>2, <3>3, <3>4, <3>5 DEF PendingInv
  <2>3. CASE /\ pending_transactions' = kept
             /\ \/ /\ row \in kept
                   /\ TrackNonce(t)
                   /\ everPending' = everPending \cup {t}
                   /\ UNCHANGED panicked
                \/ /\ row \notin kept
                   /\ panicked' = {row}
                   /\ UNCHANGED <<nonce_tracker, everPending>>
             /\ lastInsert' = stateTime
    <3>1. row \in PendingRows
      BY <2>1 DEF PendingRows
    <3>2. PICK r, A, K :
            r \in PendingRows /\ r = row /\ A = added /\ K = kept
      BY <3>1
    <3>3. /\ A = pending_transactions \cup {r}
          /\ K = IF Cardinality(A) > max_pending_transactions
                   THEN Unexpired(A) ELSE A
          /\ pending_transactions' = K /\ lastInsert' = stateTime
      BY <2>3, <3>2
    <3>4. \/ TrackNonce(t) /\ everPending' = everPending \cup {t}
               /\ UNCHANGED panicked
          \/ r \notin K /\ panicked' = {r}
               /\ UNCHANGED <<nonce_tracker, everPending>>
      BY <2>3, <3>2
    <3> HIDE DEF row, added, kept
    <3>5. /\ IsFiniteSet(pending_transactions')
          /\ pending_transactions' \subseteq PendingRows
          /\ OverLimitIsYoung'
          /\ r \notin K =>
               /\ r.first_seen < stateTime - transaction_ttl
               /\ \A p \in K : p.first_seen >= stateTime - transaction_ttl
      BY <3>2, <3>3, Inserted
    <3>6. CASE TrackNonce(t) /\ everPending' = everPending \cup {t}
                 /\ UNCHANGED panicked
      <4>1. /\ nonce_tracker' \in [Senders -> Nat]
            /\ \A x \in everPending \cup {t} :
                 nonce_tracker'[x.from] >= x.nonce
        BY <3>6, TrackNonceCovers
      <4>2. NonceCovers' /\ everPending' \subseteq PendingTxs
        BY <3>6, <4>1 DEF NonceCovers, PendingInv
      <4>3. PanicsOnStaleOnly'
        BY <2>1, <3>6 DEF PanicsOnStaleOnly
      <4>4. QED
        BY <2>1, <3>3, <3>5, <4>1, <4>2, <4>3 DEF PendingInv
    <3>7. CASE r \notin K /\ panicked' = {r}
                 /\ UNCHANGED <<nonce_tracker, everPending>>
      <4>1. PanicsOnStaleOnly'
        BY <3>3, <3>5, <3>7 DEF PanicsOnStaleOnly
      <4>2. NonceCovers'
        BY <3>7 DEF PendingInv, NonceCovers
      <4>3. QED
        BY <2>1, <3>3, <3>5, <3>7, <4>1, <4>2 DEF PendingInv
    <3>8. QED
      BY <3>4, <3>6, <3>7
  <2>4. QED
    BY <1>1, <2>2, <2>3 DEF UpdatePendingTransaction
<1>2. CASE Maintenance
  <2>1. /\ pending_transactions' = Unexpired(pending_transactions)
        /\ UNCHANGED <<panicked, nonce_tracker, stateTime, lastInsert,
                       everPending>>
    BY <1>2 DEF Maintenance
  <2>2. pending_transactions' \subseteq pending_transactions
    BY <2>1 DEF Unexpired
  <2>3. /\ IsFiniteSet(pending_transactions')
        /\ Cardinality(pending_transactions') <= Cardinality(pending_transactions)
        /\ Cardinality(pending_transactions') \in Nat
        /\ Cardinality(pending_transactions) \in Nat
    BY <2>2, FS_Subset, FS_CardinalityType DEF PendingInv
  <2>4. OverLimitIsYoung'
    BY <2>1, <2>2, <2>3, StateValues DEF OverLimitIsYoung, PendingInv
  <2>5. QED
    BY <2>1, <2>2, <2>3, <2>4 DEF PendingInv, NonceCovers, PanicsOnStaleOnly
<1>3. CASE UNCHANGED pendingVars /\ stateTime' \in Nat
  BY <1>3 DEF pendingVars, PendingInv, NonceCovers, OverLimitIsYoung,
    PanicsOnStaleOnly
<1>4. CASE \/ \E h \in Headers : UpdateBlockHeader(h)
           \/ UpdateStep \/ StateTick \/ UNCHANGED stateVars
  <2>1. UNCHANGED pendingVars /\ stateTime' \in {stateTime, stateTime + 1}
    BY <1>4 DEF UpdateBlockHeader, UpdateStep, StoreReorg, SetHead, PushHistory,
                StateTick, stateVars, pendingVars
  <2>2. QED
    BY <1>3, <2>1 DEF PendingInv
<1>5. QED
  BY <1>1, <1>2, <1>4 DEF StateNext

\* The state manager agrees with itself at every moment between the locks
\* (update_block_header, update_pending_transaction).
THEOREM StateInvariant == StateSpec => [](HeadInv /\ PendingInv)
<1>1. HeadInv /\ PendingInv /\ [StateNext]_stateVars => (HeadInv /\ PendingInv)'
  BY HeadKeeps, PendingKeeps
<1>2. QED
  BY <1>1, HeadInitially, PendingInitially, PTL DEF StateSpec

\* The property follows from the two invariants.
LEMMA StateSafeByInv == HeadInv /\ PendingInv => StateSafe
<1> SUFFICES ASSUME HeadInv, PendingInv PROVE StateSafe
  OBVIOUS
<1>1. BreaksReported
  BY DEF HeadInv, BreaksReported, Reported, Extends
<1>2. HeadIsLast
  BY DEF HeadInv, HeadIsLast, Last
<1>3. QED
  BY <1>1, <1>2 DEF PendingInv, StateSafe

\* In every behaviour the state manager takes its own steps, or none.
LEMMA StatePart == Spec => StateSpec
<1>1. Init => StateInit
  BY DEF Init
<1>2. [Next]_vars => [StateNext]_stateVars
  BY DEF Next, vars, Market, Mempool_, Buffer, State, Tables, stateVars
<1>3. QED
  BY <1>1, <1>2, PTL DEF Spec, StateSpec

\* The head is the last header of the history, every break of the chain is
\* reported, and the nonces cover what was pending, between any two locks and
\* after a panic, which only a transaction that came expired can cause
\* (update_block_header, update_pending_transaction).
THEOREM StateIsSafe == Spec => []StateSafe
  BY StatePart, StateInvariant, StateSafeByInv, PTL

-----------------------------------------------------------------------------
(* The tables of the database                                              *)

\* What the tables hold: a row for every save that is recent, and every number
\* that is recent, once.
TablesInv ==
  /\ hour \in Nat
  /\ IsFiniteSet(header_rows)
  /\ header_rows \subseteq [number : Nat, hash : BlockHashes]
  /\ \A r, q \in header_rows : r.number = q.number => r = q
  /\ {r.number : r \in header_rows} \subseteq savedHeaders
  /\ savedHeaders \subseteq Nat
  /\ \A n \in savedHeaders :
       (\A k \in savedHeaders : n >= k - KEEP_BLOCKS) =>
         n \in {r.number : r \in header_rows}
  /\ \A s \in lastSaved :
       /\ s.at \in 0..hour
       /\ hour - s.at <= (DAYS_TO_KEEP - 1) * DAY =>
            \E r \in tx_rows : /\ r.hash = s.hash /\ r.status = s.status
                               /\ r.created_at = s.at
  /\ \A r \in reorg_rows : r.created_at \in Nat
  /\ \A d \in deletedReorg : d.age > (DAYS_TO_KEEP - 1) * DAY

\* What the constants say of the retention.
LEMMA TableValues ==
  DAY \in Nat \ {0} /\ DAYS_TO_KEEP \in Nat /\ KEEP_BLOCKS \in Nat
BY PersistenceConstants DEF PersistenceConstants

\* The comparison of the two formats takes off a day at most.
LEMMA OlderIsOld ==
  ASSUME NEW h \in Nat, h = hour, NEW c \in Nat, Older(c)
  PROVE  h - c > (DAYS_TO_KEEP - 1) * DAY
<1>1. PICK d \in Nat \ {0}, k \in Nat : d = DAY /\ k = DAYS_TO_KEEP
  BY TableValues
<1>2. c \div d <= (h - k * d) \div d
  BY <1>1 DEF Older
<1>3. PICK qc \in Int : qc = c \div d
  BY <1>1
<1>4. k * d \in Nat
  BY <1>1
<1>5. PICK qh \in Int : qh = (h - k * d) \div d
  BY <1>1, <1>4
<1>6. qc * d <= c /\ c < qc * d + d
  BY <1>1, <1>3
<1>7. PICK kd \in Nat : kd = k * d
  BY <1>4
<1>8. qh * d <= h - kd
  BY <1>1, <1>5, <1>7
<1>9. qc * d <= qh * d
  BY <1>1, <1>2, <1>3, <1>5
<1>10. (k - 1) * d = kd - d
  BY <1>1, <1>7
<1>11. PICK a \in Int, b \in Int : a = qc * d /\ b = qh * d
  BY <1>1
<1>12. h - c > kd - d
  BY <1>1, <1>6, <1>7, <1>8, <1>9, <1>11
<1>13. QED
  BY <1>1, <1>10, <1>12

\* The tables start empty (initialize_schema).
LEMMA TablesInitially == PersistInit => TablesInv
BY FS_EmptySet DEF PersistInit, TablesInv

\* A recent row survives the clean-up.
LEMMA RecentSurvives ==
  ASSUME TablesInv, NEW c \in 0..hour, hour - c <= (DAYS_TO_KEEP - 1) * DAY
  PROVE  ~Older(c)
<1>1. PICK h \in Nat : h = hour
  BY DEF TablesInv
<1>2. PICK m : m = (DAYS_TO_KEEP - 1) * DAY
  OBVIOUS
<1>3. m \in Int /\ c \in Nat
  BY <1>1, <1>2, TableValues
<1>4. QED
  BY <1>1, <1>2, <1>3, OlderIsOld

\* A block header is inserted or replaced (save_block_header).
LEMMA SaveBlockHeaderKeeps ==
  ASSUME TablesInv, NEW n \in Nat, NEW h \in BlockHashes, SaveBlockHeader(n, h)
  PROVE  TablesInv'
<1> DEFINE row == [number |-> n, hash |-> h]
           left == {r \in header_rows : r.number # n}
<1>1. /\ header_rows' = left \cup {row} /\ savedHeaders' = savedHeaders \cup {n}
      /\ UNCHANGED <<hour, tx_rows, reorg_rows, cleaning, lastSaved,
                     deletedReorg>>
  BY DEF SaveBlockHeader
<1>2. IsFiniteSet(header_rows')
  <2>1. IsFiniteSet(left)
    BY FS_Subset DEF TablesInv
  <2>2. QED
    BY <1>1, <2>1, FS_AddElement
<1>3. row \in [number : Nat, hash : BlockHashes] /\ row.number = n
  OBVIOUS
<1> HIDE DEF row
<1>4. header_rows' \subseteq [number : Nat, hash : BlockHashes]
      /\ \A r, q \in header_rows' : r.number = q.number => r = q
  BY <1>1, <1>3 DEF TablesInv
<1>5. /\ {r.number : r \in header_rows'} \subseteq savedHeaders'
      /\ savedHeaders' \subseteq Nat
  <2>1. ASSUME NEW r \in header_rows' PROVE r.number \in savedHeaders'
    BY <1>1, <1>3 DEF TablesInv
  <2>2. QED
    BY <1>1, <2>1 DEF TablesInv
<1>6. ASSUME NEW m \in savedHeaders',
             \A k \in savedHeaders' : m >= k - KEEP_BLOCKS
      PROVE  m \in {r.number : r \in header_rows'}
  <2>1. CASE m = n
    <3>1. row \in header_rows' /\ row.number = m
      BY <1>1, <1>3, <2>1
    <3>2. QED
      BY <3>1
  <2>2. CASE m # n
    <3>1. m \in {r.number : r \in header_rows}
      BY <1>1, <1>6, <2>2 DEF TablesInv
    <3>2. PICK r \in header_rows : r.number = m
      BY <3>1
    <3>3. r \in header_rows'
      BY <1>1, <2>2, <3>2
    <3>4. QED
      BY <3>2, <3>3
  <2>3. QED
    BY <2>1, <2>2
<1>7. QED
  BY <1>1, <1>2, <1>4, <1>5, <1>6 DEF TablesInv

\* What a step must keep besides the headers.
SavesInv ==
  /\ hour \in Nat
  /\ \A s \in lastSaved :
       /\ s.at \in 0..hour
       /\ hour - s.at <= (DAYS_TO_KEEP - 1) * DAY =>
            \E r \in tx_rows : /\ r.hash = s.hash /\ r.status = s.status
                               /\ r.created_at = s.at
  /\ \A r \in reorg_rows : r.created_at \in Nat
  /\ \A d \in deletedReorg : d.age > (DAYS_TO_KEEP - 1) * DAY

\* A step that leaves the headers alone.
LEMMA HeadersAside ==
  ASSUME TablesInv, UNCHANGED <<header_rows, savedHeaders>>, SavesInv'
  PROVE  TablesInv'
BY DEF TablesInv, SavesInv

\* A pending transaction is inserted or replaced
\* (save_pending_transaction).
LEMMA SavePendingKeeps ==
  ASSUME TablesInv, NEW x, NEW status, SavePendingTransaction(x, status)
  PROVE  TablesInv'
<1>1. /\ tx_rows' = {r \in tx_rows : r.hash # x}
              \cup {[hash |-> x, status |-> status, created_at |-> hour]}
      /\ lastSaved' = {s \in lastSaved : s.hash # x}
              \cup {[hash |-> x, status |-> status, at |-> hour]}
      /\ UNCHANGED <<hour, header_rows, reorg_rows, cleaning, savedHeaders,
                     deletedReorg>>
  BY DEF SavePendingTransaction, ReplaceTx
<1>2. ASSUME NEW s \in lastSaved'
      PROVE  /\ s.at \in 0..hour
             /\ hour - s.at <= (DAYS_TO_KEEP - 1) * DAY =>
                  \E r \in tx_rows' : /\ r.hash = s.hash /\ r.status = s.status
                                      /\ r.created_at = s.at
  <2>1. CASE s = [hash |-> x, status |-> status, at |-> hour]
    <3>1. s.at = hour /\ s.hash = x /\ s.status = status
      BY <2>1
    <3>2. hour \in 0..hour
      BY DEF TablesInv
    <3>3. [hash |-> x, status |-> status, created_at |-> hour] \in tx_rows'
      BY <1>1
    <3>4. QED
      BY <3>1, <3>2, <3>3
  <2>2. CASE s \in lastSaved /\ s.hash # x
    <3>1. ASSUME NEW r \in tx_rows, r.hash = s.hash PROVE r \in tx_rows'
      BY <1>1, <2>2, <3>1
    <3>2. QED
      BY <2>2, <3>1 DEF TablesInv
  <2>3. QED
    BY <1>1, <2>1, <2>2
<1>3. SavesInv'
  BY <1>1, <1>2 DEF TablesInv, SavesInv
<1>4. QED
  BY <1>1, <1>3, HeadersAside

\* Old transactions are deleted (cleanup_old_data).
LEMMA CleanTransactionsKeeps ==
  ASSUME TablesInv, CleanTransactions PROVE TablesInv'
<1>1. /\ tx_rows' = {r \in tx_rows : ~Older(r.created_at)}
      /\ UNCHANGED <<hour, header_rows, reorg_rows, savedHeaders, lastSaved,
                     deletedReorg>>
  BY DEF CleanTransactions
<1>2. ASSUME NEW s \in lastSaved, hour - s.at <= (DAYS_TO_KEEP - 1) * DAY
      PROVE  \E r \in tx_rows' : /\ r.hash = s.hash /\ r.status = s.status
                                 /\ r.created_at = s.at
  <2>1. PICK r \in tx_rows : /\ r.hash = s.hash /\ r.status = s.status
                             /\ r.created_at = s.at
    BY <1>2 DEF TablesInv
  <2>2. s.at \in 0..hour
    BY DEF TablesInv
  <2>3. ~Older(s.at)
    BY <1>2, <2>2, RecentSurvives
  <2>4. r \in tx_rows'
    BY <1>1, <2>1, <2>3
  <2>5. QED
    BY <2>1, <2>4
<1>3. SavesInv'
  BY <1>1, <1>2 DEF TablesInv, SavesInv
<1>4. QED
  BY <1>1, <1>3, HeadersAside

\* Old reorganisations are deleted (cleanup_old_data).
LEMMA CleanReorgsKeeps ==
  ASSUME TablesInv, CleanReorgs PROVE TablesInv'
<1>1. /\ reorg_rows' = {r \in reorg_rows : ~Older(r.created_at)}
      /\ deletedReorg' = deletedReorg \cup
           {[id |-> r.id, age |-> hour - r.created_at] :
              r \in reorg_rows \ reorg_rows'}
      /\ UNCHANGED <<hour, header_rows, tx_rows, savedHeaders, lastSaved>>
  BY DEF CleanReorgs
<1>2. ASSUME NEW d \in deletedReorg' PROVE d.age > (DAYS_TO_KEEP - 1) * DAY
  <2>1. CASE d \in deletedReorg
    BY <2>1 DEF TablesInv
  <2>2. CASE d \notin deletedReorg
    <3>1. PICK r \in reorg_rows \ reorg_rows' : d.age = hour - r.created_at
      BY <1>1, <2>2
    <3>2. Older(r.created_at) /\ r.created_at \in Nat /\ hour \in Nat
      BY <1>1, <3>1 DEF TablesInv
    <3>3. QED
      BY <3>1, <3>2, OlderIsOld
  <2>3. QED
    BY <2>1, <2>2
<1>3. SavesInv'
  BY <1>1, <1>2 DEF TablesInv, SavesInv
<1>4. QED
  BY <1>1, <1>3, HeadersAside

\* All but the newest headers are deleted (cleanup_old_data).
LEMMA CleanHeadersKeeps ==
  ASSUME TablesInv, CleanHeaders PROVE TablesInv'
<1>1. /\ header_rows' = {r \in header_rows : KeepHeader(r.number)}
      /\ UNCHANGED <<hour, tx_rows, reorg_rows, savedHeaders, lastSaved,
                     deletedReorg>>
  BY DEF CleanHeaders
<1>2. IsFiniteSet(header_rows')
  BY <1>1, FS_Subset DEF TablesInv
<1>3. ASSUME NEW m \in savedHeaders,
             \A k \in savedHeaders : m >= k - KEEP_BLOCKS
      PROVE  m \in {r.number : r \in header_rows'}
  <2>1. m \in {r.number : r \in header_rows}
    BY <1>3 DEF TablesInv
  <2>2. PICK r \in header_rows : r.number = m
    BY <2>1
  <2>3. KeepHeader(m)
    BY <1>3 DEF KeepHeader, TablesInv
  <2>4. r \in header_rows'
    BY <1>1, <2>2, <2>3
  <2>5. QED
    BY <2>2, <2>4
<1>4. header_rows' \subseteq header_rows
  BY <1>1
<1>5. QED
  BY <1>1, <1>2, <1>3, <1>4 DEF TablesInv

\* Every statement keeps the invariant of the tables.
LEMMA TablesKeep ==
  ASSUME TablesInv, [PersistNext]_persistVars PROVE TablesInv'
<1>1. ASSUME NEW n \in 0..MAX_NUMBER, NEW h \in BlockHashes, SaveBlockHeader(n, h)
      PROVE  TablesInv'
  BY <1>1, SaveBlockHeaderKeeps, PersistenceConstants DEF PersistenceConstants
<1>2. CASE SaveReorgEvent
  <2>1. /\ \A r \in reorg_rows' : r \in reorg_rows \/ r.created_at = hour
        /\ UNCHANGED <<hour, header_rows, tx_rows, cleaning, savedHeaders,
                       lastSaved, deletedReorg>>
    BY <1>2 DEF SaveReorgEvent
  <2>2. SavesInv'
    BY <2>1 DEF TablesInv, SavesInv
  <2>3. QED
    BY <2>1, <2>2, HeadersAside
<1>3. CASE Hour
  <2>1. /\ hour' = hour + 1
        /\ UNCHANGED <<header_rows, tx_rows, reorg_rows, cleaning, savedHeaders,
                       lastSaved, deletedReorg>>
    BY <1>3 DEF Hour
  <2>2. PICK m \in Int : m = (DAYS_TO_KEEP - 1) * DAY
    BY TableValues
  <2>3. ASSUME NEW s \in lastSaved, hour' - s.at <= m
        PROVE  \E r \in tx_rows : /\ r.hash = s.hash /\ r.status = s.status
                                  /\ r.created_at = s.at
    <3>1. hour - s.at <= m
      BY <2>1, <2>2, <2>3 DEF TablesInv
    <3>2. QED
      BY <2>2, <3>1 DEF TablesInv
  <2>4. \A s \in lastSaved : s.at \in 0..hour'
    BY <2>1 DEF TablesInv
  <2>5. SavesInv'
    BY <2>1, <2>2, <2>3, <2>4 DEF TablesInv, SavesInv
  <2>6. QED
    BY <2>1, <2>5, HeadersAside
<1>4. CASE Restart \/ UNCHANGED persistVars
  <2>1. UNCHANGED <<hour, header_rows, tx_rows, reorg_rows, savedHeaders,
                    lastSaved, deletedReorg>>
    BY <1>4 DEF Restart, persistVars
  <2>2. QED
    BY <2>1 DEF TablesInv
<1>5. QED
  BY <1>1, <1>2, <1>3, <1>4, SavePendingKeeps, CleanTransactionsKeeps,
     CleanReorgsKeeps, CleanHeadersKeeps DEF PersistNext

\* Every recent save has its row and every recent number its header, whenever
\* the program stops in the middle of a clean-up (cleanup_old_data).
THEOREM TablesInvariant == PersistSpec => []TablesInv
<1>1. TablesInv /\ [PersistNext]_persistVars => TablesInv'
  BY TablesKeep
<1>2. QED
  BY <1>1, TablesInitially, PTL DEF PersistSpec

\* load_recent_block_headers returns no more headers than it is asked for:
\* all but the lowest of them are above the lowest.
LEMMA FewLoaded ==
  ASSUME TablesInv, NEW limit \in Nat
  PROVE  Cardinality(LoadRecent(limit)) <= limit
<1> DEFINE L == LoadRecent(limit)
<1>1. L \subseteq header_rows /\ IsFiniteSet(L) /\ Cardinality(L) \in Nat
  BY FS_Subset, FS_CardinalityType DEF LoadRecent, TablesInv
<1>2. CASE L = {}
  BY <1>2, FS_EmptySet
<1>3. CASE L # {}
  <2>1. {r.number : r \in L} \in SUBSET Nat /\ {r.number : r \in L} # {}
    BY <1>1, <1>3 DEF TablesInv
  <2>2. PICK n \in {r.number : r \in L} : \A m \in {r.number : r \in L} : n <= m
    BY <2>1, LeastNatural
  <2>3. PICK r \in L : r.number = n
    BY <2>2
  <2> DEFINE above == {q \in header_rows : q.number > r.number}
  <2>4. Cardinality(above) < limit /\ IsFiniteSet(above)
        /\ Cardinality(above) \in Nat
    BY <2>3, FS_Subset, FS_CardinalityType DEF LoadRecent, TablesInv
  <2>5. L \ {r} \subseteq above
    <3>1. ASSUME NEW q \in L, q # r PROVE q \in above
      <4>1. q.number # r.number /\ q.number \in Nat /\ r.number \in Nat
        BY <1>1, <3>1 DEF TablesInv
      <4>2. r.number <= q.number
        BY <2>2, <2>3
      <4>3. QED
        BY <1>1, <4>1, <4>2
    <3>2. QED
      BY <3>1
  <2>6. Cardinality(L \ {r}) = Cardinality(L) - 1
    BY <1>1, FS_RemoveElement
  <2>7. Cardinality(L \ {r}) <= Cardinality(above)
    BY <2>4, <2>5, FS_Subset
  <2>8. QED
    BY <1>1, <2>4, <2>6, <2>7
<1>4. QED
  BY <1>2, <1>3

\* The property follows from the invariant of the tables.
LEMMA TablesSafeByInv == TablesInv => TablesSafe
<1> SUFFICES ASSUME TablesInv PROVE TablesSafe
  OBVIOUS
<1>1. RecentIsLoaded
  <2>1. ASSUME NEW s \in lastSaved, s.status = "Pending",
               hour - s.at <= (DAYS_TO_KEEP - 1) * DAY
        PROVE  s.hash \in LoadPending
    BY <2>1 DEF TablesInv, LoadPending
  <2>2. QED
    BY <2>1 DEF RecentIsLoaded, TablesInv
<1>2. RecentHeadersKept
  <2>1. \A limit \in 1..2 : Cardinality(LoadRecent(limit)) <= limit
    BY FewLoaded
  <2>2. QED
    BY <2>1 DEF RecentHeadersKept, TablesInv
<1>3. QED
  BY <1>1, <1>2 DEF TablesSafe

\* In every behaviour the database takes its own steps, or none.
LEMMA TablesPart == Spec => PersistSpec
<1>1. Init => PersistInit
  BY DEF Init
<1>2. [Next]_vars => [PersistNext]_persistVars
  BY DEF Next, vars, Market, Mempool_, Buffer, State, Tables, persistVars
<1>3. QED
  BY <1>1, <1>2, PTL DEF Spec, PersistSpec

\* What was saved recently is loaded, once, and the cleanup removes only what
\* is old (save_pending_transaction, cleanup_old_data, load_recent_block_headers).
THEOREM TablesAreSafe == Spec => []TablesSafe
  BY TablesPart, TablesInvariant, TablesSafeByInv, PTL
==============================================================================
