SPECIFICATION FairSpec
CONSTANTS
  None = None
  Sent = Sent
  Txs = {t1, t2}
  Callers = {c1}
  FilterWorkers = {f1}
  SimulationWorkers = {s1}
  BundleWorkers = {b1}
  Processors = {r1}
  filter_input = 1
  simulation_input = 1
  bundle_input = 1
  output = 1
  THREADS = 4
INVARIANTS
  BooksBalance
  AtMostOneLate
PROPERTIES
  ImplementsPipeline
  EverythingEnds
CHECK_DEADLOCK FALSE
