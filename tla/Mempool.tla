------------------------------- MODULE Mempool -------------------------------
(***************************************************************************)
(* The mempool service (mev-mempool): a monitor that streams pending       *)
(* transactions over a WebSocket or polls the pending block, and fills the *)
(* ring buffer that consumers empty on other threads; and the backpressure *)
(* buffer beside it.                                                       *)
(***************************************************************************)
EXTENDS Integers, Sequences, FiniteSets

CONSTANTS
  Txs,                     \* transactions of the network
  NoFrom, NoHash,          \* those whose JSON lacks the sender, the hash
  CAPACITY,                \* of the ring buffer
  SEEN_LIMIT,              \* hashes remembered, 10000 in the code
  MAX_HANDLED, MAX_CHANGES \* bounds: transactions handled, pending blocks

\* A block holds finitely many transactions.
ASSUME MempoolConstants ==
  /\ IsFiniteSet(Txs) /\ NoFrom \subseteq Txs /\ NoHash \subseteq Txs
  /\ CAPACITY \in Nat \ {0} /\ SEEN_LIMIT \in Nat
  /\ {MAX_HANDLED, MAX_CHANGES} \subseteq Nat

VARIABLES
  mode,                    \* MempoolMode
  ingestion,               \* where `start' is
  pendingBlock,            \* external: transactions of the pending block
  changes,                 \* how often it changed
  batch,                   \* transactions of the answer still to process
  seen_txs,
  ring_buffer,
  handled,                 \* history: calls of process_transaction, by
  consumed, dropped_count, unparsed,   \* what came of them
  excused,                 \* history: forgotten or streamed since noticed
  noticed, repeated        \* history: ever noticed; noticed again unexcused

memVars == <<mode, ingestion, pendingBlock, changes, batch, seen_txs, ring_buffer,
             handled, consumed, dropped_count, unparsed, excused, noticed,
             repeated>>

\* The three ways of `start'; a service is new.
MempoolInit ==
  /\ mode \in {"Auto", "WebSocket", "Polling"}
  /\ ingestion = IF mode = "Polling" THEN "poll" ELSE "connect"
  /\ pendingBlock = {} /\ changes = 0 /\ batch = <<>>
  /\ seen_txs = {} /\ ring_buffer = <<>>
  /\ handled = 0 /\ consumed = 0 /\ dropped_count = 0 /\ unparsed = 0
  /\ excused = {} /\ noticed = {} /\ repeated = {}

-----------------------------------------------------------------------------
\* Variant: a push into a full buffer goes unnoticed.
SilentPush(t) ==
  /\ ring_buffer' = IF Len(ring_buffer) < CAPACITY THEN Append(ring_buffer, t)
                                                   ELSE ring_buffer
  /\ UNCHANGED dropped_count

\* TransactionRingBuffer::push refuses the new transaction when it is full.
Push(t) ==
  \/ /\ Len(ring_buffer) < CAPACITY
     /\ ring_buffer' = Append(ring_buffer, t)
     /\ UNCHANGED dropped_count
  \/ /\ Len(ring_buffer) >= CAPACITY
     /\ dropped_count' = dropped_count + 1
     /\ UNCHANGED ring_buffer

\* parse_transaction needs a hash and a sender and defaults the rest.
Parses(t) == t \notin NoFrom \cup NoHash

ProcessTransaction(t) ==
  /\ handled < MAX_HANDLED
  /\ handled' = handled + 1
  /\ noticed' = noticed \cup {t}
  /\ \/ Parses(t) /\ Push(t) /\ UNCHANGED unparsed
     \/ ~Parses(t) /\ unparsed' = unparsed + 1
                   /\ UNCHANGED <<ring_buffer, dropped_count>>

\* A consumer takes a transaction (consume, consume_batch, pop).
Consume ==
  /\ ring_buffer # <<>>
  /\ ring_buffer' = Tail(ring_buffer)
  /\ consumed' = consumed + 1
  /\ UNCHANGED <<mode, ingestion, pendingBlock, changes, batch, seen_txs, handled,
                 dropped_count, unparsed, excused, noticed, repeated>>

-----------------------------------------------------------------------------
(* The WebSocket monitor                                                   *)

MoveTo(place) ==
  /\ ingestion' = place
  /\ UNCHANGED <<mode, pendingBlock, changes, batch, seen_txs, ring_buffer,
                 handled, consumed, dropped_count, unparsed, excused, noticed,
                 repeated>>

\* run_mempool_monitor always ends with an error: auto mode turns to polling
\* for good, WebSocket mode sleeps and tries again.
MonitorFails == MoveTo(IF mode = "Auto" THEN "poll" ELSE "sleep")

\* subscribe_pending_transactions: connect_async has no timeout.
ConnectWs == ingestion = "connect" /\ (MoveTo("subscribe") \/ MonitorFails)

\* send_subscribe_request takes whatever text comes next as the answer, and
\* fails on anything that is not one and on the timeout.
Subscribed == ingestion = "subscribe" /\ MoveTo("stream")
SubscribeFails == ingestion = "subscribe" /\ MonitorFails

\* A notification, whether or not the transaction was seen before.
Stream(t) ==
  /\ ingestion = "stream"
  /\ ProcessTransaction(t)
  /\ excused' = excused \cup {t}
  /\ UNCHANGED <<mode, ingestion, pendingBlock, changes, batch, seen_txs, consumed,
                 repeated>>

\* Close, an error, or the end of the stream.
StreamEnds == ingestion = "stream" /\ MonitorFails

WakeMonitor == ingestion = "sleep" /\ MoveTo("connect")

-----------------------------------------------------------------------------
(* Polling                                                                 *)

\* The request fails or its answer is unusable: nothing is touched.
PollFails == ingestion = "poll" /\ MoveTo("poll")

Orders(S) == {q \in [1..Cardinality(S) -> S] : {q[i] : i \in DOMAIN q} = S}

\* The pending block arrives, and the lock on seen_txs is taken.
PollAnswers ==
  /\ ingestion = "poll"
  /\ batch' \in Orders(pendingBlock)
  /\ ingestion' = "process"
  /\ UNCHANGED <<mode, pendingBlock, changes, seen_txs, ring_buffer, handled,
                 consumed, dropped_count, unparsed, excused, noticed, repeated>>

See(t) == seen_txs' = seen_txs \cup {t}

\* One transaction of the block: without a hash it is skipped.
PollOne ==
  /\ ingestion = "process" /\ batch # <<>>
  /\ LET t == Head(batch)
     IN \/ /\ t \notin NoHash /\ t \notin seen_txs
           /\ See(t)
           /\ ProcessTransaction(t)
           /\ repeated' = IF t \in noticed \ excused THEN repeated \cup {t}
                                                     ELSE repeated
           /\ excused' = excused \ {t}
        \/ /\ t \in NoHash \cup seen_txs
           /\ UNCHANGED <<seen_txs, ring_buffer, handled, dropped_count,
                          unparsed, excused, noticed, repeated>>
  /\ batch' = Tail(batch)
  /\ UNCHANGED <<mode, ingestion, pendingBlock, changes, consumed>>

\* What the clean-up keeps: an arbitrary SEEN_LIMIT of them, since a hash set
\* has no order.
Kept(S) == {K \in SUBSET S : Cardinality(K) =
  IF Cardinality(S) > SEEN_LIMIT THEN SEEN_LIMIT ELSE Cardinality(S)}

\* The block is done: clean up, unlock, sleep for the interval.
PollEnds ==
  /\ ingestion = "process" /\ batch = <<>>
  /\ \E K \in Kept(seen_txs) :
       /\ seen_txs' = K
       /\ excused' = excused \cup (seen_txs \ K)
  /\ ingestion' = "poll"
  /\ UNCHANGED <<mode, pendingBlock, changes, batch, ring_buffer, handled,
                 consumed, dropped_count, unparsed, noticed, repeated>>

\* External: the pending block changes.
ChangeBlock ==
  /\ changes < MAX_CHANGES
  /\ changes' = changes + 1
  /\ pendingBlock' \in SUBSET Txs
  /\ UNCHANGED <<mode, ingestion, batch, seen_txs, ring_buffer, handled, consumed,
                 dropped_count, unparsed, excused, noticed, repeated>>

-----------------------------------------------------------------------------
WebSocketStep ==
  \/ ConnectWs \/ Subscribed \/ SubscribeFails
  \/ (\E t \in Txs : Stream(t)) \/ StreamEnds \/ WakeMonitor

MempoolNext ==
  \/ WebSocketStep
  \/ PollFails \/ PollAnswers \/ PollOne \/ PollEnds
  \/ Consume
  \/ ChangeBlock

MempoolSpec == MempoolInit /\ [][MempoolNext]_memVars

-----------------------------------------------------------------------------
(* Properties                                                              *)

\* Every transaction handled, on either path and while consumers empty the
\* buffer, is in the buffer, was consumed, or is counted as dropped or
\* reported as unparsable (process_transaction, TransactionRingBuffer).
MempoolAccounted ==
  handled = Len(ring_buffer) + consumed + dropped_count + unparsed

\* Polling notices a transaction a second time only when its hash was
\* forgotten by the clean-up or it had come over the WebSocket, which keeps no
\* hashes: an answer that repeats a block, or a transaction that was dropped
\* or did not parse, is not processed again (poll_pending_transactions).
NoticedOnce == repeated = {}

\* Between polls at most SEEN_LIMIT hashes are kept, whatever the size of the
\* blocks (the clean-up of poll_pending_transactions).
SeenBounded == ingestion # "process" => Cardinality(seen_txs) <= SEEN_LIMIT

\* A transaction that stays in the pending block is noticed once the service
\* polls, unless the bound of the run is met first: failed polls touch nothing
\* and are repeated (start_polling_mode).
Noticed ==
  \A t \in Txs \ NoHash :
    <>(ingestion = "poll") /\ <>[](t \in pendingBlock)
      => <>(t \in noticed \/ handled = MAX_HANDLED)

\* In auto mode one failed attempt is enough: a subscription that is not
\* answered leads to the stream or to polling (MempoolMode::Auto).
FallsBack ==
  (mode = "Auto" /\ ingestion = "subscribe") ~> ingestion \in {"stream", "poll"}

-----------------------------------------------------------------------------
(* The backpressure buffer: a bounded channel filled by several pushers,   *)
(* with a drop policy above a high watermark.  A push reads the fill       *)
(* level, and sends or drops afterwards.                                   *)

CONSTANTS
  Pushers,
  BUFFER_SIZE,
  HIGH_NUM, LOW_NUM, DENOMINATOR,   \* the watermarks, as fractions
  WORD,                    \* 2^w for the w bits of usize (64 in the code)
  MAX_PUSHES               \* bound

ASSUME BackpressureConstants ==
  /\ IsFiniteSet(Pushers)
  /\ BUFFER_SIZE \in Nat \ {0}
  /\ {HIGH_NUM, LOW_NUM} \subseteq Nat /\ DENOMINATOR \in Nat \ {0}
  /\ WORD \in Nat /\ WORD > 2 * BUFFER_SIZE * (HIGH_NUM + 1)

VARIABLES
  drop_policy, enabled,    \* BackpressureConfig
  channel,                 \* external: transactions in the mpsc channel
  push,                    \* per pusher: where it is, and the size it read
  total_received, total_dropped, total_processed,
  backpressure_active,
  delivered                \* history: transactions received from the channel

bpVars == <<drop_policy, enabled, channel, push, total_received, total_dropped,
            total_processed, backpressure_active, delivered>>

Outside == [at |-> "idle"]

BackpressureInit ==
  /\ drop_policy \in {"Oldest", "Newest", "Random"} /\ enabled \in BOOLEAN
  /\ channel = 0
  /\ push = [p \in Pushers |-> Outside]
  /\ total_received = 0 /\ total_dropped = 0 /\ total_processed = 0
  /\ backpressure_active = FALSE
  /\ delivered = 0

-----------------------------------------------------------------------------

\* push and get_stats subtract the capacity from what is left of it, which is
\* 0 for an empty channel and wraps around for every other one.
CurrentSize == ((BUFFER_SIZE - channel) - BUFFER_SIZE) % WORD

AtLeastHigh(size) == size * DENOMINATOR >= HIGH_NUM * BUFFER_SIZE
AtMostLow(size) == size * DENOMINATOR <= LOW_NUM * BUFFER_SIZE

\* push counts the transaction; without backpressure it is sent at once.
BeginPush(p) ==
  /\ push[p] = Outside /\ total_received < MAX_PUSHES
  /\ total_received' = total_received + 1
  /\ push' = [push EXCEPT ![p] = [at |-> IF enabled THEN "measure" ELSE "send"]]
  /\ UNCHANGED <<drop_policy, enabled, channel, total_dropped, total_processed,
                 backpressure_active, delivered>>

\* What follows from the utilization: the flag, and whether the policy drops
\* the transaction or tries to send it.  Oldest drops nothing that is queued.
Measure(p) ==
  /\ push[p].at = "measure"
  /\ \/ /\ AtLeastHigh(CurrentSize)
        /\ backpressure_active' = TRUE
        /\ \/ drop_policy \in {"Newest", "Random"}
              /\ push' = [push EXCEPT ![p] = [at |-> "drop"]]
           \/ drop_policy \in {"Oldest", "Random"}
              /\ push' = [push EXCEPT ![p] = [at |-> "send"]]
     \/ /\ ~AtLeastHigh(CurrentSize)
        /\ backpressure_active' = (backpressure_active /\ ~AtMostLow(CurrentSize))
        /\ push' = [push EXCEPT ![p] = [at |-> "send"]]
  /\ UNCHANGED <<drop_policy, enabled, channel, total_received, total_dropped,
                 total_processed, delivered>>

\* try_send; the counter follows.
TrySend(p) ==
  /\ push[p].at = "send"
  /\ \/ channel < BUFFER_SIZE /\ channel' = channel + 1
        /\ push' = [push EXCEPT ![p] = [at |-> "count"]]
     \/ channel >= BUFFER_SIZE /\ UNCHANGED channel
        /\ push' = [push EXCEPT ![p] = [at |-> "drop"]]
  /\ UNCHANGED <<drop_policy, enabled, total_received, total_dropped,
                 total_processed, backpressure_active, delivered>>

EndPush(p) ==
  /\ \/ push[p].at = "count" /\ total_processed' = total_processed + 1
        /\ UNCHANGED total_dropped
     \/ push[p].at = "drop" /\ total_dropped' = total_dropped + 1
        /\ UNCHANGED total_processed
  /\ push' = [push EXCEPT ![p] = Outside]
  /\ UNCHANGED <<drop_policy, enabled, channel, total_received,
                 backpressure_active, delivered>>

\* receive_one and receive_batch hold the lock of the receiver.
Receive ==
  /\ \E n \in 1..channel : channel' = channel - n /\ delivered' = delivered + n
  /\ UNCHANGED <<drop_policy, enabled, push, total_received, total_dropped,
                 total_processed, backpressure_active>>

BackpressureNext ==
  \/ \E p \in Pushers : BeginPush(p) \/ Measure(p) \/ TrySend(p) \/ EndPush(p)
  \/ Receive

BackpressureSpec == BackpressureInit /\ [][BackpressureNext]_bpVars

-----------------------------------------------------------------------------
(* Properties                                                              *)

Pushing(place) == Cardinality({p \in Pushers : push[p].at = place})

\* Of concurrent pushes each is counted exactly once, as processed or as
\* dropped, and what is counted as processed is in the channel or was received
\* (push): the two counters never disagree with the channel by more than the
\* pushes in progress.
PushesCounted ==
  /\ total_received = total_processed + total_dropped
       + Cardinality({p \in Pushers : push[p] # Outside})
  /\ total_processed + Pushing("count") = channel + delivered

\* Under the Newest policy the buffer never holds more transactions than there
\* are pushers, whatever its size and watermarks: any transaction in it makes
\* the computed size wrap around and counts as above the high watermark.
NewestHoldsFew ==
  enabled /\ drop_policy = "Newest" => channel <= Cardinality(Pushers)
=============================================================================
