----------------------------- MODULE WsService -----------------------------
(***************************************************************************)
(* HyperLiquidWsService (crates/mev-hyperliquid/src/websocket.rs): the     *)
(* connection loop of start(), its reconnection and degraded state, and    *)
(* the subscriptions that are requested again on every connection.         *)
(*                                                                         *)
(* Each task inside start() has its own connection, and all of them share  *)
(* the reconnection state and the subscription states.  reconnect() is not *)
(* modelled: nothing calls it.                                             *)
(*                                                                         *)
(* Durations are not counted: an expired wait is a step.  The u64 backoff  *)
(* arithmetic has WIDTH bits; consecutive_failures is counted up to WIDTH, *)
(* beyond which the wrapped product no longer changes.  Market messages    *)
(* only matter through busy: a new one arrives within every 100 ms.        *)
(***************************************************************************)
EXTENDS Naturals, FiniteSets

CONSTANTS
  Services,    \* tasks that call start()
  Wanted,      \* <<coin, kind>> to subscribe to, kind "trades" or "l2Book"
  MAXFAILURES, \* max_consecutive_failures
  MINBACKOFF,  \* reconnect_min_backoff_secs
  MAXBACKOFF,  \* reconnect_max_backoff_secs
  DEGRADED,    \* the backoff of the degraded state, 300 s
  RETRIES,     \* requests per subscription, 3
  WIDTH        \* bits of the backoff arithmetic

\* HyperLiquidConfig::validate, and every coin has its trades subscribed.
ASSUME WsConstants ==
  /\ Wanted # {}
  /\ \A w \in Wanted : w[2] \in {"trades", "l2Book"}
                       /\ <<w[1], "trades">> \in Wanted
  /\ MAXFAILURES \in Nat \ {0} /\ MAXFAILURES <= WIDTH
  /\ MINBACKOFF \in Nat \ {0}
  /\ MAXBACKOFF \in Nat /\ MINBACKOFF <= MAXBACKOFF
  /\ DEGRADED \in Nat
  /\ RETRIES \in Nat \ {0}
  /\ WIDTH \in Nat \ {0}

VARIABLES
  shutdown,   \* shutdown
  failures,   \* consecutive_failures, in fact those since the start
  degraded,   \* ReconnectionState::degraded
  gauge,      \* the degraded_state metric
  attempts,   \* SubscriptionState::trades_attempts and orderbook_attempts
  confirmed,  \* subscriptions whose *_confirmed is set
  due,        \* coins whose last_attempt is 5 s ago, or None
  pc,         \* where each task is
  todo,       \* requests the task's current pass still has to send
  backoff,    \* the wait the task chose
  link,       \* the task's connection
  requested,  \* requests the exchange has received and not answered
  replies,    \* its answers that the task has not read
  streaming,  \* subscriptions the exchange serves on the connection
  reachable,  \* the exchange accepts connections
  busy,       \* market messages arrive within every 100 ms
  streak      \* history: failed connections since the last good one

reconnection == <<failures, degraded, gauge, streak>>
subscriptions == <<attempts, confirmed, due>>
network == <<link, requested, replies, streaming>>
outside == <<reachable, busy>>
vars == <<shutdown, reconnection, subscriptions, pc, todo, backoff, network,
          outside>>

Coins == {w[1] : w \in Wanted}

Locations == {"off", "top", "connect", "subscribe", "run", "retry", "ok",
              "err", "check", "backoff", "stopped"}

UpTo(limit, n) == IF n < limit THEN n ELSE limit

Init ==
  /\ shutdown = FALSE
  /\ failures = 0 /\ degraded = FALSE /\ gauge = FALSE /\ streak = 0
  /\ attempts = [w \in Wanted |-> 0]
  /\ confirmed = {}
  /\ due = Coins
  /\ pc = [r \in Services |-> "off"]
  /\ todo = [r \in Services |-> {}]
  /\ backoff = [r \in Services |-> MINBACKOFF]
  /\ link = [r \in Services |-> "down"]
  /\ requested = [r \in Services |-> {}]
  /\ replies = [r \in Services |-> {}]
  /\ streaming = [r \in Services |-> {}]
  /\ reachable \in BOOLEAN
  /\ busy \in BOOLEAN

Goto(r, from, to) == pc[r] = from /\ pc' = [pc EXCEPT ![r] = to]

-----------------------------------------------------------------------------
(* start() and connect().                                                  *)

Start(r) ==
  /\ r \in Services
  /\ Goto(r, "off", "top")
  /\ UNCHANGED <<shutdown, reconnection, subscriptions, todo, backoff, network,
                 outside>>

Top(r) ==
  /\ Goto(r, "top", IF shutdown THEN "stopped" ELSE "connect")
  /\ UNCHANGED <<shutdown, reconnection, subscriptions, todo, backoff, network,
                 outside>>

\* Variant: a new connection keeps the subscription states of the last one.
ForgetfulConnectOk(r) ==
  /\ reachable
  /\ Goto(r, "connect", "subscribe")
  /\ todo' = [todo EXCEPT ![r] = Wanted]
  /\ attempts' = [w \in Wanted |-> 0]
  /\ due' = Coins
  /\ link' = [link EXCEPT ![r] = "up"]
  /\ UNCHANGED <<shutdown, reconnection, confirmed, backoff, requested,
                 replies, streaming, outside>>

\* A new connection; run_message_loop resets every SubscriptionState.
ConnectOk(r) ==
  /\ reachable
  /\ Goto(r, "connect", "subscribe")
  /\ todo' = [todo EXCEPT ![r] = Wanted]
  /\ attempts' = [w \in Wanted |-> 0]
  /\ confirmed' = {}
  /\ due' = Coins
  /\ link' = [link EXCEPT ![r] = "up"]
  /\ UNCHANGED <<shutdown, reconnection, backoff, requested, replies,
                 streaming, outside>>

ConnectFails(r) ==
  /\ ~reachable
  /\ Goto(r, "connect", "err")
  /\ UNCHANGED <<shutdown, reconnection, subscriptions, todo, backoff, network,
                 outside>>

-----------------------------------------------------------------------------
(* Subscriptions.                                                          *)

\* What is left of a pass after the request for w was sent, or failed: a
\* failed trades request of subscribe_with_retry gives up the order book too.
Remaining(r, w, sent) ==
  todo[r] \ (IF sent \/ pc[r] = "retry"
             THEN {w} ELSE {w, <<w[1], "l2Book">>})

\* send_subscription records the attempt first.  On a connection that is no
\* longer up, the send may fail or vanish.
SendRequest(r) ==
  /\ pc[r] \in {"subscribe", "retry"}
  /\ \E w \in todo[r], sent \in BOOLEAN :
       /\ w[2] = "trades" \/ <<w[1], "trades">> \notin todo[r]
       /\ link[r] = "up" => sent
       /\ attempts' = [attempts EXCEPT ![w] = @ + 1]
       /\ due' = due \ {w[1]}
       /\ todo' = [todo EXCEPT ![r] = Remaining(r, w, sent)]
       /\ pc' = [pc EXCEPT ![r] =
                   IF Remaining(r, w, sent) = {} THEN "run" ELSE @]
       /\ requested' = IF link[r] = "up"
                       THEN [requested EXCEPT ![r] = @ \cup {w}]
                       ELSE requested
  /\ UNCHANGED <<shutdown, reconnection, confirmed, backoff, link, replies,
                 streaming, outside>>

CoinShouldRetry(w) ==
  /\ attempts[w] < RETRIES
  /\ w[1] \in due
  /\ \A k \in {"trades", "l2Book"} : <<w[1], k>> \notin confirmed

\* should_retry
ShouldRetry(w) == attempts[w] < RETRIES /\ w[1] \in due

\* retry_failed_subscriptions, on the tick of the retry interval.
RetryTick(r) ==
  LET again == {w \in Wanted \ confirmed : ShouldRetry(w)} IN
  /\ again # {}
  /\ Goto(r, "run", "retry")
  /\ todo' = [todo EXCEPT ![r] = again]
  /\ UNCHANGED <<shutdown, reconnection, subscriptions, backoff, network,
                 outside>>

\* handle_subscription_response; a refusal is only logged.
HandleReply(r) ==
  /\ pc[r] = "run"
  /\ \E a \in replies[r] :
       /\ replies' = [replies EXCEPT ![r] = @ \ {a}]
       /\ confirmed' = IF a[2] THEN confirmed \cup {a[1]} ELSE confirmed
  /\ UNCHANGED <<shutdown, reconnection, attempts, due, pc, todo, backoff,
                 link, requested, streaming, outside>>

-----------------------------------------------------------------------------
(* The end of a connection.                                                *)

Hangup(r) ==
  /\ link' = [link EXCEPT ![r] = "down"]
  /\ requested' = [requested EXCEPT ![r] = {}]
  /\ replies' = [replies EXCEPT ![r] = {}]
  /\ streaming' = [streaming EXCEPT ![r] = {}]

\* The stream ends: Ok.  Everything sent before is read first.
StreamEnds(r) ==
  /\ link[r] = "closed" /\ replies[r] = {}
  /\ Goto(r, "run", "ok")
  /\ Hangup(r)
  /\ UNCHANGED <<shutdown, reconnection, subscriptions, todo, backoff, outside>>

\* The stream yields an error, or a ping cannot be sent.
StreamFails(r) ==
  /\ link[r] \in {"reset", "closed"}
  /\ Goto(r, "run", "err")
  /\ Hangup(r)
  /\ UNCHANGED <<shutdown, reconnection, subscriptions, todo, backoff, outside>>

\* The 100 ms timer of the select loop is made anew in every round, so it
\* only fires when nothing else does for 100 ms.
ShutdownTick(r) ==
  /\ shutdown /\ ~busy
  /\ Goto(r, "run", "ok")
  /\ Hangup(r)
  /\ UNCHANGED <<shutdown, reconnection, subscriptions, todo, backoff, outside>>

\* record_success: last_success has just been set, so that its 5 minutes are
\* never over and the count of failures is never reset.  The metric is left alone: the state has left
\* degraded when the code looks at it.
RecordOk(r) ==
  /\ Goto(r, "ok", "check")
  /\ degraded' = FALSE
  /\ streak' = 0
  /\ UNCHANGED <<shutdown, failures, gauge, subscriptions, todo, backoff,
                 network, outside>>

EarlyEnters(f) == f + 1 >= MAXFAILURES

Enters(f) == f >= MAXFAILURES

\* record_failure, and the metric
RecordErr(r) ==
  /\ Goto(r, "err", "check")
  /\ failures' = UpTo(WIDTH, failures + 1)
  /\ degraded' = (degraded \/ Enters(failures + 1))
  /\ gauge' = (gauge \/ (degraded' /\ ~degraded))
  /\ streak' = UpTo(WIDTH, streak + 1)
  /\ UNCHANGED <<shutdown, subscriptions, todo, backoff, network, outside>>

\* get_backoff
Backoff ==
  IF degraded THEN DEGRADED
  ELSE IF failures = 0 THEN MINBACKOFF
  ELSE UpTo(MAXBACKOFF, (MINBACKOFF * 2^failures) % 2^WIDTH)

Check(r) ==
  /\ Goto(r, "check", IF shutdown THEN "stopped" ELSE "backoff")
  /\ backoff' = [backoff EXCEPT ![r] = Backoff]
  /\ UNCHANGED <<shutdown, reconnection, subscriptions, todo, network, outside>>

\* The backoff is over, or a shutdown has cut it short.
Wait(r) ==
  /\ Goto(r, "backoff", "top")
  /\ UNCHANGED <<shutdown, reconnection, subscriptions, todo, backoff, network,
                 outside>>

-----------------------------------------------------------------------------
(* shutdown(), the exchange, the network and time.                         *)

Shutdown ==
  /\ shutdown' = TRUE
  /\ UNCHANGED <<reconnection, subscriptions, pc, todo, backoff, network,
                 outside>>

\* The exchange accepts or refuses a request.
Answer(r) ==
  /\ link[r] = "up"
  /\ \E w \in requested[r], ok \in BOOLEAN :
       /\ requested' = [requested EXCEPT ![r] = @ \ {w}]
       /\ replies' = [replies EXCEPT ![r] = @ \cup {<<w, ok>>}]
       /\ streaming' = IF ok THEN [streaming EXCEPT ![r] = @ \cup {w}]
                             ELSE streaming
  /\ UNCHANGED <<shutdown, reconnection, subscriptions, pc, todo, backoff, link,
                 outside>>

\* The exchange closes the connection, or the connection breaks and takes
\* some of the unread answers along.
LinkLost(r) ==
  /\ link[r] = "up"
  /\ \/ /\ link' = [link EXCEPT ![r] = "closed"]
        /\ UNCHANGED replies
     \/ /\ ~reachable
        /\ link' = [link EXCEPT ![r] = "reset"]
        /\ \E kept \in SUBSET replies[r] :
             replies' = [replies EXCEPT ![r] = kept]
  /\ requested' = [requested EXCEPT ![r] = {}]
  /\ streaming' = [streaming EXCEPT ![r] = {}]
  /\ UNCHANGED <<shutdown, reconnection, subscriptions, pc, todo, backoff,
                 outside>>

FiveSeconds ==
  /\ \E c \in Coins \ due : due' = due \cup {c}
  /\ UNCHANGED <<shutdown, reconnection, attempts, confirmed, pc, todo, backoff,
                 network, outside>>

Outside ==
  /\ \/ reachable' = ~reachable /\ UNCHANGED busy
     \/ busy' = ~busy /\ UNCHANGED reachable
  /\ UNCHANGED <<shutdown, reconnection, subscriptions, pc, todo, backoff,
                 network>>

\* A task inside start() moves on.
Proceed(r) ==
  \/ Top(r) \/ ConnectOk(r) \/ ConnectFails(r) \/ SendRequest(r)
  \/ StreamEnds(r) \/ StreamFails(r) \/ ShutdownTick(r)
  \/ RecordOk(r) \/ RecordErr(r) \/ Check(r) \/ Wait(r)

Environment ==
  \/ \E r \in Services : Answer(r) \/ LinkLost(r)
  \/ FiveSeconds
  \/ Outside

Next ==
  \/ \E r \in Services :
       Start(r) \/ Proceed(r) \/ RetryTick(r) \/ HandleReply(r)
  \/ Shutdown
  \/ Environment

Spec == Init /\ [][Next]_vars

\* A connection attempt ends, waits expire and select! is fair: its branches
\* are polled in random order.  The retry interval leaves the 100 ms timer
\* room between its ticks, hence SF.  Nothing is assumed of the exchange.
WsFairness ==
  /\ \A r \in Services : /\ WF_vars(Proceed(r))
                        /\ SF_vars(ShutdownTick(r))
                        /\ WF_vars(RetryTick(r))
                        /\ WF_vars(HandleReply(r))
  /\ WF_vars(FiveSeconds)

FairSpec ==
  /\ Spec
  /\ WsFairness
  /\ \A r \in Services : WF_vars(Start(r))

-----------------------------------------------------------------------------
(* Properties.                                                             *)

\* Types; no subscription is requested more than RETRIES times on one
\* connection.
TypeOK ==
  /\ shutdown \in BOOLEAN /\ degraded \in BOOLEAN /\ gauge \in BOOLEAN
  /\ failures \in 0..WIDTH /\ streak \in 0..WIDTH
  /\ attempts \in [Wanted -> 0..RETRIES]
  /\ confirmed \subseteq Wanted
  /\ due \subseteq Coins
  /\ pc \in [Services -> Locations]
  /\ todo \in [Services -> SUBSET Wanted]
  /\ backoff \in [Services -> Nat]
  /\ link \in [Services -> {"down", "up", "closed", "reset"}]
  /\ requested \in [Services -> SUBSET Wanted]
  /\ replies \in [Services -> SUBSET (Wanted \X BOOLEAN)]
  /\ streaming \in [Services -> SUBSET Wanted]
  /\ reachable \in BOOLEAN /\ busy \in BOOLEAN

\* While the connection is up, a subscription that counts as confirmed is
\* really served on it: no confirmation outlives its connection.
ConfirmedIsStreaming ==
  \A r \in Services : link[r] = "up" => confirmed \subseteq streaming[r]

\* A service whose last connection failed waits the degraded interval once
\* MAXFAILURES connections have failed since its start: record_success never
\* resets the count, so a good connection in between buys no further attempt.
SlowsDown ==
  \A r \in Services :
    pc[r] = "backoff" /\ streak > 0 /\ failures >= MAXFAILURES =>
    backoff[r] = DEGRADED

\* The state is degraded exactly while the last connection failed and
\* MAXFAILURES have failed since the start, over any sequence of refused,
\* broken and orderly ended connections; the metric, which start() never sets
\* back, is not raised before that (record_failure, record_success).
DegradedAsCounted ==
  /\ degraded <=> streak > 0 /\ failures >= MAXFAILURES
  /\ gauge => failures >= MAXFAILURES

\* The product overflows at no count below MAXFAILURES.
FitsUntilDegraded ==
  \A n \in 0..(MAXFAILURES - 1) : MINBACKOFF * 2^n < 2^WIDTH

\* Overflow included, no wait is above the maximum, and none after a failure
\* is below the minimum: the wrapped product never makes a failing service
\* hammer the exchange.  It may do so after an orderly end (get_backoff).
BackoffInRange ==
  \A r \in Services :
    pc[r] = "backoff" /\ backoff[r] # DEGRADED =>
    /\ backoff[r] <= MAXBACKOFF
    /\ \/ backoff[r] >= MINBACKOFF
       \/ MINBACKOFF * 2^failures >= 2^WIDTH
          /\ (FitsUntilDegraded => streak = 0)

\* When the exchange stays reachable and nobody shuts the service down, it
\* is connected again and again.
Reconnects ==
  <>[](reachable /\ ~shutdown) =>
    \A r \in Services : []<>(link[r] # "down")

\* While a connection lasts, every subscription gets confirmed or has been
\* requested RETRIES times.
SubscribesOrGivesUp ==
  \A r \in Services, w \in Wanted :
    <>[](link[r] = "up") => <>[](w \in confirmed \/ attempts[w] = RETRIES)

\* shutdown() ends the service once the market is quiet for 100 ms.
StopsWhenQuiet ==
  <>[]~busy => \A r \in Services : (shutdown ~> pc[r] \in {"off", "stopped"})

\* What the service believes of its subscriptions is true of the connection
\* it has, and it asks for none of them more often than it may
\* (subscribe_with_retry, retry_failed_subscriptions).
SubscriptionsTracked ==
  /\ TypeOK
  /\ ConfirmedIsStreaming

\* The waits between connections follow from the failures since the start and
\* the end of the last connection: degraded after enough failures, never too
\* long, and too short at most after an orderly end (get_backoff).
WaitsAsConfigured ==
  /\ SlowsDown
  /\ BackoffInRange
  /\ DegradedAsCounted

\* The connection loop goes on for as long as it is meant to: it connects
\* again, asks for every subscription on each connection, and ends after
\* shutdown() (start, connect_and_run).
LoopGoesOn ==
  /\ Reconnects
  /\ SubscribesOrGivesUp
  /\ StopsWhenQuiet
=============================================================================
