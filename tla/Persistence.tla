----------------------------- MODULE Persistence -----------------------------
(***************************************************************************)
(* The SQLite tables of mev-core (persistence.rs).  Every statement is a   *)
(* transaction of its own; the program may stop between any two and read   *)
(* the tables back.  A time is a number of hours.                          *)
(***************************************************************************)
EXTENDS Integers, FiniteSets

CONSTANTS
  BlockHashes, TxHashes,
  DAY,                     \* hours of a day
  DAYS_TO_KEEP,            \* the argument of cleanup_old_data
  KEEP_BLOCKS,             \* 10000 in the code
  MAX_NUMBER, MAX_HOURS, MAX_REORGS   \* bounds

ASSUME PersistenceConstants ==
  /\ DAY \in Nat \ {0} /\ {DAYS_TO_KEEP, KEEP_BLOCKS} \subseteq Nat
  /\ {MAX_NUMBER, MAX_HOURS, MAX_REORGS} \subseteq Nat

VARIABLES
  hour,
  header_rows,             \* number -> hash: block_headers
  tx_rows,                 \* set of [hash, status, created_at]
  reorg_rows,              \* set of [id, created_at]
  cleaning,                \* the statement of cleanup_old_data that is next
  savedHeaders,            \* history: numbers saved
  lastSaved,               \* history: the last save of each transaction
  deletedReorg             \* history: [id, age] of the reorg rows deleted

persistVars == <<hour, header_rows, tx_rows, reorg_rows, cleaning, savedHeaders,
                 lastSaved, deletedReorg>>

PersistInit ==
  /\ hour = 0 /\ header_rows = {} /\ tx_rows = {} /\ reorg_rows = {}
  /\ cleaning = "no" /\ savedHeaders = {} /\ lastSaved = {} /\ deletedReorg = {}

\* save_block_header replaces the row of the same number.
SaveBlockHeader(n, h) ==
  /\ header_rows' = {r \in header_rows : r.number # n}
                      \cup {[number |-> n, hash |-> h]}
  /\ savedHeaders' = savedHeaders \cup {n}
  /\ UNCHANGED <<hour, tx_rows, reorg_rows, cleaning, lastSaved, deletedReorg>>

\* Variant: a transaction that is saved again keeps its creation time.
UpdateTx(x, status) ==
  LET old == {r \in tx_rows : r.hash = x}
      at == IF old = {} THEN hour ELSE (CHOOSE r \in old : TRUE).created_at
  IN (tx_rows \ old) \cup {[hash |-> x, status |-> status, created_at |-> at]}

\* INSERT OR REPLACE: the row is new, and so is created_at.
ReplaceTx(x, status) ==
  {r \in tx_rows : r.hash # x}
    \cup {[hash |-> x, status |-> status, created_at |-> hour]}

SavePendingTransaction(x, status) ==
  /\ tx_rows' = ReplaceTx(x, status)
  /\ lastSaved' = {s \in lastSaved : s.hash # x}
                    \cup {[hash |-> x, status |-> status, at |-> hour]}
  /\ UNCHANGED <<hour, header_rows, reorg_rows, cleaning, savedHeaders,
                 deletedReorg>>

SaveReorgEvent ==
  /\ Cardinality(reorg_rows) + Cardinality(deletedReorg) < MAX_REORGS
  /\ reorg_rows' = reorg_rows \cup
       {[id |-> Cardinality(reorg_rows) + Cardinality(deletedReorg),
         created_at |-> hour]}
  /\ UNCHANGED <<hour, header_rows, tx_rows, cleaning, savedHeaders, lastSaved,
                 deletedReorg>>

\* load_pending_transactions, with a limit above their number.
LoadPending == {r.hash : r \in {q \in tx_rows : q.status = "Pending"}}

\* load_recent_block_headers.
LoadRecent(limit) ==
  {r \in header_rows :
     Cardinality({q \in header_rows : q.number > r.number}) < limit}

\* created_at ("2024-05-01 23:00:00") is compared with the cutoff in another
\* format ("2024-05-01T01:00:00+00:00") as text: a blank sorts before a T, so
\* every row of the day of the cutoff counts as older.
Older(created_at) ==
  created_at \div DAY <= (hour - DAYS_TO_KEEP * DAY) \div DAY

\* cleanup_old_data, statement by statement.
CleanTransactions ==
  /\ cleaning = "no"
  /\ tx_rows' = {r \in tx_rows : ~Older(r.created_at)}
  /\ cleaning' = "reorgs"
  /\ UNCHANGED <<hour, header_rows, reorg_rows, savedHeaders, lastSaved,
                 deletedReorg>>

CleanReorgs ==
  /\ cleaning = "reorgs"
  /\ reorg_rows' = {r \in reorg_rows : ~Older(r.created_at)}
  /\ deletedReorg' = deletedReorg \cup
       {[id |-> r.id, age |-> hour - r.created_at] : r \in reorg_rows \ reorg_rows'}
  /\ cleaning' = "headers"
  /\ UNCHANGED <<hour, header_rows, tx_rows, savedHeaders, lastSaved>>

KeepHeader(n) == \A r \in header_rows : n >= r.number - KEEP_BLOCKS

CleanHeaders ==
  /\ cleaning = "headers"
  /\ header_rows' = {r \in header_rows : KeepHeader(r.number)}
  /\ cleaning' = "no"
  /\ UNCHANGED <<hour, tx_rows, reorg_rows, savedHeaders, lastSaved, deletedReorg>>

\* The program stops in the middle of a clean-up and starts again.
Restart ==
  /\ cleaning # "no" /\ cleaning' = "no"
  /\ UNCHANGED <<hour, header_rows, tx_rows, reorg_rows, savedHeaders, lastSaved,
                 deletedReorg>>

Hour ==
  /\ hour < MAX_HOURS /\ hour' = hour + 1
  /\ UNCHANGED <<header_rows, tx_rows, reorg_rows, cleaning, savedHeaders,
                 lastSaved, deletedReorg>>

PersistNext ==
  \/ \E n \in 0..MAX_NUMBER, h \in BlockHashes : SaveBlockHeader(n, h)
  \/ \E x \in TxHashes, status \in {"Pending", "Included"} :
       SavePendingTransaction(x, status)
  \/ SaveReorgEvent
  \/ CleanTransactions \/ CleanReorgs \/ CleanHeaders
  \/ Restart
  \/ Hour

PersistSpec == PersistInit /\ [][PersistNext]_persistVars

-----------------------------------------------------------------------------
(* Properties                                                              *)

\* A transaction whose last save says that it is pending is read back after a
\* restart if that save, not the first one, is at most DAYS_TO_KEEP - 1 days
\* old, and so is every reorg event: the comparison of the two formats takes
\* up to a day off, never more (cleanup_old_data).
RecentIsLoaded ==
  /\ \A s \in lastSaved :
       s.status = "Pending" /\ hour - s.at <= (DAYS_TO_KEEP - 1) * DAY
         => s.hash \in LoadPending
  /\ \A d \in deletedReorg : d.age > (DAYS_TO_KEEP - 1) * DAY

\* Through clean-ups, restarts between their statements and headers of either
\* fork, the last KEEP_BLOCKS blocks below the highest number are kept, and
\* load_recent_block_headers returns one header for each number.
RecentHeadersKept ==
  LET numbers == {r.number : r \in header_rows}
  IN /\ \A n \in savedHeaders :
          (\A k \in savedHeaders : n >= k - KEEP_BLOCKS) => n \in numbers
     /\ \A limit \in 1..2 : Cardinality(LoadRecent(limit)) <= limit

\* What is recent survives clean-ups and restarts between their statements
\* (cleanup_old_data, load_pending_transactions, load_recent_block_headers).
TablesSafe ==
  /\ RecentIsLoaded
  /\ RecentHeadersKept
=============================================================================
