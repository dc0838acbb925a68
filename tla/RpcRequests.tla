---------------------------- MODULE RpcRequests ----------------------------
(***************************************************************************)
(* The retried requests of HyperLiquidRpcService (rpc_service.rs).         *)
(* submit_transaction and wait_for_confirmation: an attempt fills in what  *)
(* the request leaves open, signs and sends; a failed or timed-out attempt *)
(* is repeated from the beginning, while what it sent may still arrive.    *)
(* The signature is deterministic, so two attempts with the same fields    *)
(* send the same transaction.  The node is external.                       *)
(* new, connect and poll_blockchain_state: an attempt asks for the number  *)
(* of the newest block, then for that block; it may fail or be cut off by  *)
(* its timeout at either request, and is tried again up to POLL_ATTEMPTS   *)
(* times.  RpcService models the breaker and the waiting between attempts. *)
(***************************************************************************)
EXTENDS Naturals, Sequences, FiniteSets

CONSTANTS
  Requests,                \* transaction requests of one account
  NONCES,                  \* the nonces a request may carry
  Unset,                   \* the request leaves the nonce open
  Other,                   \* a transaction the account sends elsewhere
  GasPrices,               \* what eth_gasPrice may answer
  MAX_RETRY_ATTEMPTS,
  CONFIRM_TIMEOUT,         \* timeout_secs, in polls
  MAX_MINED,               \* bound: transactions mined
  POLL_ATTEMPTS,           \* MAX_RETRY_ATTEMPTS
  MAX_HEAD,                \* bound: height of the chain
  MAX_HEAD_REORGS,         \* bound: blocks that are replaced
  MAX_POLLS                \* bound: polls

NoPrice == 0               \* eth_gasPrice failed and the field stays open

ASSUME SubmissionConstants ==
  /\ NONCES \subseteq Nat /\ Unset \notin NONCES /\ Other \notin Requests
  /\ GasPrices \subseteq Nat \ {NoPrice}
  /\ MAX_RETRY_ATTEMPTS \in Nat \ {0} /\ CONFIRM_TIMEOUT \in Nat /\ MAX_MINED \in Nat

ASSUME PollingConstants ==
  POLL_ATTEMPTS \in Nat \ {0} /\ {MAX_HEAD, MAX_HEAD_REORGS, MAX_POLLS} \subseteq Nat

VARIABLES
  submission,              \* the call of submit_transaction for each request
  in_flight,               \* messages with a raw transaction under way
  pool,                    \* external: what the node holds
  mined,                   \* external: the account's mined transactions
  confirmation,            \* the call of wait_for_confirmation that follows
  tx_events,               \* events sent through state_tx
  node,                    \* external: [head, version], version of the newest block
  connection,              \* connected, and the requests connect still makes
  poll,                    \* the poll under way
  polls,                   \* successful polls
  state_events             \* events sent on state_tx

txVars == <<submission, in_flight, pool, mined, confirmation, tx_events>>

TxStatus == {"ok", "reverted", "unknown"}    \* receipt.status may be missing
TxOf(r) == [req |-> r, nonce |-> submission[r].nonce, price |-> submission[r].price]
Numbered(r) == submission[r].given # Unset

TxInit ==
  /\ submission = [r \in Requests |-> [at |-> "idle", given |-> Unset, attempt |-> 0,
                                       nonce |-> 0, price |-> NoPrice]]
  /\ in_flight = {} /\ pool = {} /\ mined = <<>>
  /\ confirmation = [r \in Requests |-> [at |-> "idle", elapsed |-> 0]]
  /\ tx_events = {}

-----------------------------------------------------------------------------
(* submit_transaction                                                      *)

Submit(r, given) ==
  /\ submission[r].at = "idle"
  /\ submission' = [submission EXCEPT ![r].at = "nonce", ![r].attempt = 1,
                                      ![r].given = given]
  /\ UNCHANGED <<in_flight, pool, mined, confirmation, tx_events>>

\* Variant: the nonce counts the pending transactions.
PendingNonce(r) ==
  IF Numbered(r) THEN submission[r].given ELSE Len(mined) + Cardinality(pool)

\* get_transaction_count without a block counts what is mined.
NonceFor(r) == IF Numbered(r) THEN submission[r].given ELSE Len(mined)

FetchNonce(r) ==
  /\ submission[r].at = "nonce"
  /\ submission' = [submission EXCEPT ![r].at = "price", ![r].nonce = NonceFor(r)]
  /\ UNCHANGED <<in_flight, pool, mined, confirmation, tx_events>>

\* The gas estimate has a default, the gas price is left open on an error.
FetchPrice(r) ==
  /\ submission[r].at = "price"
  /\ \E p \in GasPrices \cup {NoPrice} :
       submission' = [submission EXCEPT ![r].at = "send", ![r].price = p]
  /\ UNCHANGED <<in_flight, pool, mined, confirmation, tx_events>>

SendRaw(r) ==
  /\ submission[r].at = "send"
  /\ in_flight' = in_flight \cup {[tx |-> TxOf(r), attempt |-> submission[r].attempt]}
  /\ submission' = [submission EXCEPT ![r].at = "answer"]
  /\ UNCHANGED <<pool, mined, confirmation, tx_events>>

AfterFailure(s) ==
  IF s.attempt < MAX_RETRY_ATTEMPTS
  THEN [s EXCEPT !.at = "nonce", !.attempt = s.attempt + 1]
  ELSE [s EXCEPT !.at = "failed"]

\* An error of the chain id, the nonce or the signature, or the timeout around
\* the attempt, whose message may still arrive.
AttemptFails(r) ==
  /\ submission[r].at \in {"nonce", "price", "send", "answer"}
  /\ submission' = [submission EXCEPT ![r] = AfterFailure(@)]
  /\ UNCHANGED <<in_flight, pool, mined, confirmation, tx_events>>

Answer(m, accepted) ==
  LET r == m.tx.req IN
  IF submission[r].at = "answer" /\ submission[r].attempt = m.attempt
  THEN submission' = [submission EXCEPT ![r] =
                        IF accepted THEN [@ EXCEPT !.at = "submitted"]
                        ELSE AfterFailure(@)]
  ELSE UNCHANGED submission

\* external: the node takes a transaction it does not know whose nonce is not
\* used, if it pays more than the one it replaces.
NodeAccepts(m) ==
  LET t == m.tx
      same == {u \in pool : u.nonce = t.nonce}
  IN /\ m \in in_flight /\ in_flight' = in_flight \ {m}
     /\ t \notin pool /\ t.nonce >= Len(mined)
     /\ \A u \in same : t.price > u.price
     /\ pool' = (pool \ same) \cup {t}
     /\ Answer(m, TRUE)
     /\ UNCHANGED <<mined, confirmation, tx_events>>

\* external: it refuses a known, stale or underpriced one, or any other.
NodeRefuses(m) ==
  /\ m \in in_flight /\ in_flight' = in_flight \ {m}
  /\ Answer(m, FALSE)
  /\ UNCHANGED <<pool, mined, confirmation, tx_events>>

\* external: transactions are executed in the order of their nonces, each nonce
\* once.
NodeMines(t, status) ==
  /\ t \in pool /\ t.nonce = Len(mined) /\ Len(mined) < MAX_MINED
  /\ mined' = Append(mined, [tx |-> t, status |-> status])
  /\ pool' = {u \in pool : u.nonce > t.nonce}
  /\ UNCHANGED <<submission, in_flight, confirmation, tx_events>>

\* external: another part of the account's owner uses a nonce.
OtherMined ==
  /\ Len(mined) < MAX_MINED
  /\ mined' = Append(mined, [tx |-> [req |-> Other], status |-> "ok"])
  /\ pool' = {u \in pool : u.nonce >= Len(mined')}
  /\ UNCHANGED <<submission, in_flight, confirmation, tx_events>>

-----------------------------------------------------------------------------
(* wait_for_confirmation, for the hash submit_transaction returned         *)

StartWait(r) ==
  /\ submission[r].at = "submitted" /\ confirmation[r].at = "idle"
  /\ confirmation' = [confirmation EXCEPT ![r].at = "loop"]
  /\ UNCHANGED <<submission, in_flight, pool, mined, tx_events>>

\* The timeout is looked at between two polls only.
CheckTimeout(r) ==
  /\ confirmation[r].at = "loop"
  /\ IF confirmation[r].elapsed >= CONFIRM_TIMEOUT
     THEN /\ confirmation' = [confirmation EXCEPT ![r].at = "timed_out"]
          /\ tx_events' = tx_events \cup {[tx |-> TxOf(r), event |-> "TransactionFailed"]}
     ELSE /\ confirmation' = [confirmation EXCEPT ![r].at = "poll"]
          /\ UNCHANGED tx_events
  /\ UNCHANGED <<submission, in_flight, pool, mined>>

StatusOk(status) == status = "ok"

\* A receipt without block number or gas ends the call without an event.
PollFindsReceipt(r) ==
  /\ confirmation[r].at = "poll"
  /\ \E i \in DOMAIN mined :
       /\ mined[i].tx = TxOf(r)
       /\ \/ /\ confirmation' = [confirmation EXCEPT ![r].at = "incomplete"]
             /\ UNCHANGED tx_events
          \/ /\ confirmation' = [confirmation EXCEPT ![r].at =
                  IF StatusOk(mined[i].status) THEN "confirmed" ELSE "reverted"]
             /\ tx_events' = tx_events \cup
                  {[tx |-> TxOf(r), event |-> IF StatusOk(mined[i].status)
                                              THEN "TransactionConfirmed"
                                              ELSE "TransactionFailed"]}
  /\ UNCHANGED <<submission, in_flight, pool, mined>>

\* No receipt yet, or an error of the request: wait for the next tick.
PollFindsNothing(r) ==
  /\ confirmation[r].at = "poll"
  /\ confirmation' = [confirmation EXCEPT ![r].at = "loop",
       ![r].elapsed = IF @ < CONFIRM_TIMEOUT THEN @ + 1 ELSE @]
  /\ UNCHANGED <<submission, in_flight, pool, mined, tx_events>>

AttemptStep(r) == FetchNonce(r) \/ FetchPrice(r) \/ SendRaw(r) \/ AttemptFails(r)
WaitStep(r) == CheckTimeout(r) \/ PollFindsReceipt(r) \/ PollFindsNothing(r)

TxNext ==
  \/ \E r \in Requests, given \in NONCES \cup {Unset} : Submit(r, given)
  \/ \E r \in Requests : AttemptStep(r) \/ StartWait(r) \/ WaitStep(r)
  \/ \E m \in in_flight : NodeAccepts(m) \/ NodeRefuses(m)
  \/ \E t \in pool, s \in TxStatus : NodeMines(t, s)
  \/ OtherMined

-----------------------------------------------------------------------------
(* connect and poll_blockchain_state                                       *)

pollingVars == <<node, connection, poll, polls, state_events>>

NoPoll == [at |-> "idle", attempt |-> 0, number |-> 0]

PollingInit ==
  /\ node = [head |-> 1, version |-> 0, reorgs |-> 0]
  /\ connection = [connected |-> FALSE, at |-> "new"]
  /\ poll = NoPoll /\ polls = 0 /\ state_events = <<>>

\* The chain grows, or its newest block is replaced or taken back.
NewHead ==
  /\ \/ node.head < MAX_HEAD /\ node' = [node EXCEPT !.head = @ + 1, !.version = 0]
     \/ /\ node.reorgs < MAX_HEAD_REORGS
        /\ \/ node' = [node EXCEPT !.version = @ + 1, !.reorgs = @ + 1]
           \/ node.head > 1 /\ node' = [node EXCEPT !.head = @ - 1, !.reorgs = @ + 1]
  /\ UNCHANGED <<connection, poll, polls, state_events>>

\* connect: the chain id, whatever it is, and the block number.  An error leaves
\* the service as it was.  It borrows the service mutably: no poll meanwhile.
Connect ==
  /\ ~connection.connected /\ poll.at = "idle"
  /\ \/ connection.at = "new" /\ connection' = [connection EXCEPT !.at = "chain id"]
     \/ /\ connection.at = "chain id"
        /\ connection' = [connected |-> TRUE, at |-> "block number"]
     \/ connection' = [connection EXCEPT !.at = "new"]
  /\ UNCHANGED <<node, poll, polls, state_events>>

\* The polling task polls, connected or not ("lazily on first request").
BeginPoll ==
  /\ connection.at # "chain id" /\ poll.at = "idle" /\ polls < MAX_POLLS
  /\ poll' = [at |-> "number", attempt |-> 1, number |-> 0]
  /\ UNCHANGED <<node, connection, polls, state_events>>

GetBlockNumber ==
  /\ poll.at = "number"
  /\ poll' = [poll EXCEPT !.at = "block", !.number = node.head]
  /\ UNCHANGED <<node, connection, polls, state_events>>

\* The block of that number as it is now, and both events without an await in
\* between.  The timestamp is that of the block's version.
GetBlock ==
  /\ poll.at = "block" /\ poll.number <= node.head
  /\ LET version == IF poll.number = node.head THEN node.version ELSE 0
     IN state_events' = state_events \o
          << [type |-> "BlockNumber", number |-> poll.number],
             [type |-> "StateSnapshot", number |-> poll.number, version |-> version] >>
  /\ poll' = NoPoll /\ polls' = polls + 1
  /\ UNCHANGED <<node, connection>>

\* Variant: an attempt that found no block is not counted.
RetryUncounted ==
  /\ poll.at \in {"number", "block"}
  /\ poll' = IF poll.at = "block" THEN [poll EXCEPT !.at = "number", !.number = 0]
             ELSE IF poll.attempt < POLL_ATTEMPTS THEN [poll EXCEPT !.attempt = @ + 1] ELSE NoPoll
  /\ UNCHANGED <<node, connection, polls, state_events>>

\* A request fails, the block is not found, or the attempt times out: the next
\* attempt starts over, the last one gives up.
FailAttempt ==
  /\ poll.at \in {"number", "block"}
  /\ poll' = IF poll.attempt < POLL_ATTEMPTS
             THEN [at |-> "number", attempt |-> poll.attempt + 1, number |-> 0] ELSE NoPoll
  /\ UNCHANGED <<node, connection, polls, state_events>>

PollStep == GetBlockNumber \/ GetBlock \/ FailAttempt
PollingNext == NewHead \/ Connect \/ BeginPoll \/ PollStep

-----------------------------------------------------------------------------
(* Properties                                                              *)

\* A request that carries its nonce is executed at most once, whatever attempts
\* time out and arrive late (the nonce is filled in only when it is missing).
NumberedOnce ==
  \A r \in Requests : Numbered(r) =>
    Cardinality({i \in DOMAIN mined : mined[i].tx.req = r}) <= 1

\* Copies of one request that can still be executed have the same nonce, so at
\* most one of them will be: a retry executes a request twice only when the
\* earlier copy was mined before the retry read the transaction count
\* (get_transaction_count(from, None) inside the retried closure).
LiveCopiesShareNonce ==
  \A t, u \in {m.tx : m \in in_flight} \cup pool :
    /\ t.req = u.req /\ ~Numbered(t.req)
    /\ t.nonce >= Len(mined) /\ u.nonce >= Len(mined)
    => t.nonce = u.nonce

\* TransactionConfirmed is sent only for a transaction that was executed with
\* success, and never together with a failure of the same one
\* (wait_for_confirmation: a missing status is no success).
ConfirmedWasExecuted ==
  \A e \in tx_events : e.event = "TransactionConfirmed" =>
    /\ \E i \in DOMAIN mined : mined[i].tx = e.tx /\ mined[i].status = "ok"
    /\ \A f \in tx_events : f.tx = e.tx => f = e

\* A submission ends, and so does the wait for its confirmation, as long as the
\* requests for the receipt are answered (MAX_RETRY_ATTEMPTS, the timeout around
\* an attempt, timeout_secs).
SubmissionsEnd ==
  \A r \in Requests : submission[r].at = "nonce" ~>
    \/ submission[r].at = "failed"
    \/ confirmation[r].at \in {"confirmed", "reverted", "timed_out", "incomplete"}

\* The receiver sees one pair of events per successful poll, a number and the
\* snapshot of that very block, and nothing of an attempt that failed or was cut
\* off between its requests (poll_blockchain_state).
EventsPaired ==
  /\ Len(state_events) = 2 * polls
  /\ \A i \in 1..polls :
       /\ state_events[2 * i - 1].type = "BlockNumber"
       /\ state_events[2 * i].type = "StateSnapshot"
       /\ state_events[2 * i].number = state_events[2 * i - 1].number

\* A poll ends, also when the blocks whose numbers it read are taken back each
\* time: an attempt that fails at either request counts (execute_with_retry).
PollsEnd == (poll.at # "idle") ~> (poll.at = "idle")
=============================================================================
