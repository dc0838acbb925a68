SPECIFICATION Spec
CONSTANTS
  Ids = {i1}
  Callers = {c1}
  Resubmitters = {r1, r2}
  LEN = 2
  TARGET = 2
  PRICES = {9, 10}
  BUMP_NUM = 11
  BUMP_DEN = 10
  max_resubmissions = 2
  MAX_GAS = 11
  MAX_ATTEMPTS = 3
  Idle = Idle
  Tracked = {b1}
  TxsOf = {1, 2}
  TARGET_BLOCK = 2
  MAX_BLOCK = 3
  Absent = Absent
  Handlers = {h1, h2}
  Occurring = {"NonceCollision", "MempoolEviction", "Reorg"}
  auto_rollback = TRUE
  MAX_FAILURES = 2
  MAX_ACTIVATIONS = 1
  Cleaner = Cleaner
  Free = Free
  DryBundles <- MCDryBundles
  WAIT_ROUNDS = 2
  Requests = {q1}
  NONCES = {1}
  Unset = Unset
  Other = Other
  GasPrices = {1}
  MAX_RETRY_ATTEMPTS = 3
  CONFIRM_TIMEOUT = 1
  MAX_MINED = 2
  PrivateKeys = {k1, k2}
  KeyTasks = {kt1, kt2}
  KeyFiles = {f1, f2}
  Passwords = {pw1, pw2}
  MAX_KEY_CALLS = 3
  NoKey = NoKey
  Torn = Torn
  BundleParams <- MCBundleParams
  Opportunities <- MCOpportunities
  MAX_BUNDLE_AGE = 4
  Unbuilt = Unbuilt
  SimulatedCalls <- MCCalls
  GROSS_PROFIT = 1000
  Thresholds = {1, 200}
  BlockTxs = {x1, x2, x3}
  Unchecked = Unchecked
  POLL_ATTEMPTS = 3
  MAX_HEAD = 3
  MAX_HEAD_REORGS = 2
  MAX_POLLS = 2
INVARIANTS
  SubmitterSafe
  TrackerSafe
  HandlerSafe
  KeysSafe
  RpcSafe
  BundlesSound
PROPERTIES
  BundlesTemporal
CHECK_DEADLOCK FALSE
