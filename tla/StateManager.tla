----------------------------- MODULE StateManager -----------------------------
(***************************************************************************)
(* The state manager of mev-core: the head and the history of block        *)
(* headers, reorganisations, and the pending transactions with the highest *)
(* nonce of each sender.  Every piece of state has its own lock, so an     *)
(* update of the header takes several steps between which others look.     *)
(***************************************************************************)
EXTENDS Integers, Sequences, FiniteSets

CONSTANTS
  Headers,                 \* [number, hash, parent_hash] of some blocks
  PendingTxs,              \* [hash, from, nonce] of some transactions
  max_block_history, max_pending_transactions, transaction_ttl,
  MAX_HEADERS, MAX_TIME,   \* bounds: headers received, time
  NoHeader

ASSUME StateManagerConstants ==
  /\ {max_block_history, max_pending_transactions, transaction_ttl,
      MAX_HEADERS, MAX_TIME} \subseteq Nat
  /\ NoHeader \notin Headers
  /\ \A t \in PendingTxs : t.nonce \in Nat

VARIABLES
  current_head, block_headers, reorg_events,
  update,                  \* update_block_header in progress
  headersReceived,
  pending_transactions,    \* set of [tx, first_seen, last_seen]
  panicked,                \* rows whose insertion panicked: their lock is
                           \* poisoned, and every later use of it panics
  nonce_tracker,
  stateTime,
  lastInsert, everPending  \* history: last insertion, transactions inserted

stateVars == <<current_head, block_headers, reorg_events, update,
               headersReceived, pending_transactions, panicked, nonce_tracker,
               stateTime, lastInsert, everPending>>
headerVars == <<current_head, block_headers, reorg_events, update,
                headersReceived>>
pendingVars == <<pending_transactions, panicked, nonce_tracker, lastInsert,
                 everPending>>

NoUpdate == [at |-> "idle"]
Senders == {t.from : t \in PendingTxs}

\* A new manager; it may or may not be initialized with a block.
StateInit ==
  /\ \E h \in Headers \cup {NoHeader} :
       /\ current_head = h
       /\ block_headers = IF h = NoHeader THEN <<>> ELSE <<h>>
  /\ reorg_events = {} /\ update = NoUpdate /\ headersReceived = 0
  /\ pending_transactions = {} /\ panicked = {}
  /\ nonce_tracker = [a \in Senders |-> 0]
  /\ stateTime = 0 /\ lastInsert = 0 /\ everPending = {}

-----------------------------------------------------------------------------
(* Block headers                                                           *)

\* Variant: only the number is compared.
NumberExtends(current, h) == h.number > current.number

\* A header follows the head when its number is larger and its parent is the
\* head; otherwise detect_reorg or handle_reorg reports a reorganisation, a
\* header that is received twice included.
Extends(current, h) ==
  /\ h.number > current.number
  /\ h.parent_hash = current.hash

\* update_block_header reads the head.
UpdateBlockHeader(h) ==
  /\ update = NoUpdate /\ headersReceived < MAX_HEADERS
  /\ headersReceived' = headersReceived + 1
  /\ update' = [at |-> IF current_head = NoHeader \/ Extends(current_head, h)
                         THEN "head" ELSE "reorg",
                current |-> current_head, header |-> h]
  /\ UNCHANGED <<current_head, block_headers, reorg_events, pendingVars,
                 stateTime>>

\* No transaction is ever affected (get_affected_transactions returns none).
StoreReorg ==
  /\ update.at = "reorg"
  /\ reorg_events' = reorg_events \cup {<<update.current, update.header>>}
  /\ update' = [update EXCEPT !.at = "head"]
  /\ UNCHANGED <<current_head, block_headers, headersReceived, pendingVars,
                 stateTime>>

SetHead ==
  /\ update.at = "head"
  /\ current_head' = update.header
  /\ update' = [update EXCEPT !.at = "history"]
  /\ UNCHANGED <<block_headers, reorg_events, headersReceived, pendingVars,
                 stateTime>>

Trim(q) ==
  IF Len(q) > max_block_history
    THEN SubSeq(q, Len(q) - max_block_history + 1, Len(q)) ELSE q

\* The update of the transactions' states that follows does nothing.
PushHistory ==
  /\ update.at = "history"
  /\ block_headers' = Trim(Append(block_headers, update.header))
  /\ update' = NoUpdate
  /\ UNCHANGED <<current_head, reorg_events, headersReceived, pendingVars,
                 stateTime>>

-----------------------------------------------------------------------------
(* Pending transactions, under their lock                                  *)

Expired(p) == p.first_seen < stateTime - transaction_ttl

\* cleanup_old_transactions.
Unexpired(S) == {p \in S : ~Expired(p)}

TrackNonce(t) ==
  nonce_tracker' = [nonce_tracker EXCEPT ![t.from] =
                      IF t.nonce > @ THEN t.nonce ELSE @]

\* update_pending_transaction of a row of the caller's: a known transaction is
\* seen again.  A new one is inserted with the time that the caller gives it,
\* and over the limit what has expired is removed, the new one included; then
\* the unwrap of its look-up panics, under the lock.
UpdatePendingTransaction(t, first_seen) ==
  /\ panicked = {}
  /\ \/ \E p \in pending_transactions :
          /\ p.tx = t
          /\ pending_transactions' = (pending_transactions \ {p})
               \cup {[p EXCEPT !.last_seen = stateTime]}
          /\ TrackNonce(t)
          /\ UNCHANGED <<panicked, lastInsert, everPending>>
     \/ /\ \A p \in pending_transactions : p.tx # t
        /\ LET row == [tx |-> t, first_seen |-> first_seen, last_seen |-> stateTime]
               added == pending_transactions \cup {row}
               kept == IF Cardinality(added) > max_pending_transactions
                         THEN Unexpired(added) ELSE added
           IN /\ pending_transactions' = kept
              /\ \/ /\ row \in kept
                    /\ TrackNonce(t)
                    /\ everPending' = everPending \cup {t}
                    /\ UNCHANGED panicked
                 \/ /\ row \notin kept
                    /\ panicked' = {row}
                    /\ UNCHANGED <<nonce_tracker, everPending>>
        /\ lastInsert' = stateTime
  /\ UNCHANGED <<headerVars, stateTime>>

\* The maintenance task, every 30 s, until it meets a poisoned lock; its
\* checkpoint stores nothing.
Maintenance ==
  /\ panicked = {}
  /\ pending_transactions' = Unexpired(pending_transactions)
  /\ UNCHANGED <<headerVars, panicked, nonce_tracker, stateTime, lastInsert,
                 everPending>>

StateTick ==
  /\ stateTime < MAX_TIME
  /\ stateTime' = stateTime + 1
  /\ UNCHANGED <<headerVars, pendingVars>>

-----------------------------------------------------------------------------
UpdateStep == StoreReorg \/ SetHead \/ PushHistory

StateNext ==
  \/ \E h \in Headers : UpdateBlockHeader(h)
  \/ UpdateStep
  \/ \E t \in PendingTxs, first_seen \in 0..stateTime :
       UpdatePendingTransaction(t, first_seen)
  \/ Maintenance
  \/ StateTick

StateSpec == StateInit /\ [][StateNext]_stateVars

-----------------------------------------------------------------------------
(* Properties                                                              *)

\* Wherever two neighbours of the history are not parent and child, that
\* break was reported, at every moment that a reader can look and however the
\* headers were reordered, repeated or trimmed (update_block_header with one
\* caller at a time).
BreaksReported ==
  /\ \A i \in 1..Len(block_headers) - 1 :
       LET a == block_headers[i]
           b == block_headers[i + 1]
       IN ~(b.number > a.number /\ b.parent_hash = a.hash)
            => <<a, b>> \in reorg_events
  /\ Len(block_headers) <= max_block_history \/ max_block_history = 0

\* Between updates the head is the last header of the history.
HeadIsLast ==
  update = NoUpdate /\ block_headers # <<>> =>
    current_head = block_headers[Len(block_headers)]

\* The tracked nonce of a sender covers every transaction of it that was ever
\* pending, also after they expired; one whose insertion panicked never was
\* (update_pending_transaction).
NonceCovers == \A t \in everPending : nonce_tracker[t.from] >= t.nonce

\* The pending transactions exceed their limit only with transactions that
\* were all young at the last insertion: the limit evicts nothing else.
OverLimitIsYoung ==
  Cardinality(pending_transactions) > max_pending_transactions =>
    \A p \in pending_transactions : p.first_seen >= lastInsert - transaction_ttl

\* Only a caller that hands over a transaction that has already expired can
\* poison the lock, and only over the limit, when everything else that expired
\* was removed with it (cleanup_old_transactions, before the unwrap).
PanicsOnStaleOnly ==
  \A row \in panicked :
    /\ row.first_seen < lastInsert - transaction_ttl
    /\ \A p \in pending_transactions :
         p.first_seen >= lastInsert - transaction_ttl

\* A pending transaction that expired is removed at last, even when it is seen
\* again and again, unless the lock is poisoned (start_maintenance_tasks).
ExpiredRemoved ==
  \A t \in PendingTxs :
    (\E p \in pending_transactions : p.tx = t /\ Expired(p))
      ~> \/ \A p \in pending_transactions : p.tx = t => ~Expired(p)
         \/ panicked # {}

\* Head, history, pending transactions and nonces, each behind a lock of its
\* own, agree with each other, also after a panic under one of the locks
\* (update_block_header, update_pending_transaction).
StateSafe ==
  /\ BreaksReported
  /\ HeadIsLast
  /\ NonceCovers
  /\ OverLimitIsYoung
  /\ PanicsOnStaleOnly
=============================================================================
