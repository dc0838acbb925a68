SPECIFICATION Spec
CONSTANTS
  Texts <- MCTexts
  Coins = {"BTC"}
  MIN_SPREAD_BPS = 30
  MAX_AGE = 0
  LAG = 1
  POLL_TIME = 1
  QUEUE_SIZE = 2
  MAX_TEXTS = 3
  MAX_CLOCK = 2
  MAX_HEIGHT = 3
  Missing = Missing
  NaN = NaN
  Txs = {t1, t2, t3}
  NoFrom = {t2}
  NoHash = {t3}
  CAPACITY = 1
  SEEN_LIMIT = 1
  MAX_HANDLED = 3
  MAX_CHANGES = 2
  Pushers = {p1, p2}
  BUFFER_SIZE = 3
  HIGH_NUM = 3
  LOW_NUM = 1
  DENOMINATOR = 5
  WORD = 65536
  MAX_PUSHES = 4
  Headers <- MCHeaders
  PendingTxs <- MCPendingTxs
  max_block_history = 2
  max_pending_transactions = 1
  transaction_ttl = 1
  MAX_HEADERS = 2
  MAX_TIME = 2
  NoHeader = NoHeader
  BlockHashes = {h1}
  TxHashes = {x1}
  DAY = 2
  DAYS_TO_KEEP = 1
  KEEP_BLOCKS = 1
  MAX_NUMBER = 2
  MAX_HOURS = 4
  MAX_REORGS = 1
INVARIANTS
  
  MempoolSafe
  StateSafe
  TablesSafe
PROPERTIES
  FeedsLive
CHECK_DEADLOCK FALSE
