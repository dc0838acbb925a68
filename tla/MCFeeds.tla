------------------------------- MODULE MCFeeds -------------------------------
(***************************************************************************)
(* The components that bring data into the bot, for TLC.  They share no    *)
(* state, so a behaviour is that of one of them: `focus' picks it.         *)
(***************************************************************************)
EXTENDS MarketFeed, Mempool, StateManager, Persistence

VARIABLE focus

vars == <<feedVars, memVars, bpVars, stateVars, persistVars, focus>>

\* Market data with times before, at and after its arrival.
OneTrade(px, time) == [coin |-> "BTC", side |-> "B", px |-> px, time |-> time]
Trades(list) == [channel |-> "trades", data |-> list]
Book(bid, ask, time) ==
  [channel |-> "l2Book", data |-> [coin |-> "BTC", bid |-> bid, ask |-> ask, time |-> time]]
Response(method, subscription, type, coin) ==
  [channel |-> "subscriptionResponse",
   data |-> [method |-> method, subscription |-> subscription, type |-> type,
             coin |-> coin]]
MCTexts == {Trades(<<OneTrade(100, 1)>>), Trades(<<OneTrade(102, 2), OneTrade(100, 2)>>),
            Trades(<<OneTrade(0, 1)>>), Trades(<<OneTrade(100, 0)>>), Trades(<<>>),
            Book(NaN, 103, 2), Book(0, Missing, 1),
            [channel |-> "error", data |-> [message |-> "m"]],
            Response("subscribe", [coin |-> Missing], Missing, Missing),
            Response(Missing, Missing, "trades", Missing),
            [channel |-> "pong", data |-> <<>>]}

\* Two forks from one block.
Header(n, hash, parent) == [number |-> n, hash |-> hash, parent_hash |-> parent]
MCHeaders == {Header(1, "a1", "g"), Header(2, "a2", "a1"), Header(2, "b2", "a1"),
              Header(3, "b3", "b2")}
MCPendingTxs == {[hash |-> "x", from |-> "s", nonce |-> 2],
                 [hash |-> "y", from |-> "s", nonce |-> 1]}

\* Only the component in focus starts in each of its initial states.
Init ==
  /\ focus \in {"market", "mempool", "buffer", "state", "tables"}
  /\ FeedInit /\ MempoolInit /\ BackpressureInit /\ StateInit /\ PersistInit
  /\ focus # "market" => verify_via_rpc
  /\ focus # "mempool" => mode = "Auto"
  /\ focus # "buffer" => enabled /\ drop_policy = "Oldest"
  /\ focus # "state" => current_head = NoHeader

On(component) == focus = component /\ UNCHANGED focus
Market(A) ==
  On("market") /\ A /\ UNCHANGED <<memVars, bpVars, stateVars, persistVars>>
Mempool_(A) ==
  On("mempool") /\ A /\ UNCHANGED <<feedVars, bpVars, stateVars, persistVars>>
Buffer(A) ==
  On("buffer") /\ A /\ UNCHANGED <<feedVars, memVars, stateVars, persistVars>>
State(A) ==
  On("state") /\ A /\ UNCHANGED <<feedVars, memVars, bpVars, persistVars>>
Tables(A) ==
  On("tables") /\ A /\ UNCHANGED <<feedVars, memVars, bpVars, stateVars>>

Next ==
  \/ Market(FeedNext) \/ Mempool_(MempoolNext) \/ Buffer(BackpressureNext)
  \/ State(StateNext) \/ Tables(PersistNext)

\* The tasks run, and a poll of the chain ends; the exchange that closes a
\* subscription or not answers within the timeout; of the polls of the pending
\* block infinitely many succeed; the maintenance task of the state manager is
\* woken every 30 s.
Fairness ==
  /\ WF_vars(Market(DetectorStep)) /\ WF_vars(Market(ProcessWsMessage))
  /\ WF_vars(Mempool_(Subscribed \/ SubscribeFails))
  /\ SF_vars(Mempool_(PollAnswers))
  /\ WF_vars(Mempool_(PollOne \/ PollEnds))
  /\ WF_vars(State(Maintenance))

Spec == Init /\ [][Next]_vars /\ Fairness

\* What the mempool hands on is accounted for and within bounds, in the ring
\* buffer and in the backpressure buffer, and noticed once
\* (process_transaction, poll_pending_transactions,
\* BackpressureBuffer::push).
MempoolSafe ==
  /\ MempoolAccounted
  /\ NoticedOnce
  /\ SeenBounded
  /\ PushesCounted
  /\ NewestHoldsFew

\* The detector ends with its services, a pending transaction is noticed
\* though polls fail, a subscription that is refused or not answered in Auto
\* mode is replaced by polling, and what expired is removed.
FeedsLive ==
  /\ DetectorEnds
  /\ Noticed
  /\ FallsBack
  /\ ExpiredRemoved
=============================================================================
