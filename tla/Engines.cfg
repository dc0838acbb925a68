SPECIFICATION Spec
CONSTANTS
  Strategies = {s1}
  Evaluators = {e1, e2}
  Planners = {p1}
  CACHE_SIZE = 1
  Stamps = {1, 2}
  LIFETIME = 1
  MAX_EVALUATIONS = 2
  MAX_PLANS = 1
  MAX_RESETS = 1
  MAX_SECONDS = 1
  Configs = {"default", "c1", "c2"}
  DefaultConfig = "default"
  Absent = Absent
  Partial = Partial
  MAX_EDITS = 2
  Names = {"rpc"}
  CriticalNames = {"rpc"}
  Probes = {h1}
  Registrars = {r1}
  MAX_FAILURES = 1
  BatchRequests <- MCBatchRequests
  MAX_CONCURRENT = 2
  PROFIT = 3
  Callers = {c1, c2}
  BUNDLES = 2
  BATCH_SIZE = 2
  BATCH_PERMITS = 1
  ACCOUNTS = 2
  MAX_REUSE = 1
  MAX_BATCHES = 2
  RpcCallers = {u1, u2}
  ENDPOINTS = 2
  RETRY_ATTEMPTS = 2
  MAX_REQUESTS = 1
  ERRORS_TO_UNHEALTHY = 2
  Speeds = {1}
  Recorders = {l1, l2}
  Latencies = {1, 2}
  TARGET = 1
  HISTOGRAM_SIZE = 2
  MAX_RECORDS = 3
  MAX_CLEARS = 1
INVARIANTS
  StrategiesSafe
  SimulationSafe
  MonitoringSafe
PROPERTIES
  EnginesTemporal
CHECK_DEADLOCK FALSE
