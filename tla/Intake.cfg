SPECIFICATION IntakeSpec
CONSTANTS
  ConfigFiles <- MCConfigFiles
  NewRules <- MCNewRules
  FilterTxs <- MCFilterTxs
  Hours = {3, 12}
  SECOND = 3
  MAX_TIME = 3
  MAX_FILTERED = 3
  MAX_CHANGES = 3
  NoFile = NoFile
  Decoding = {t1, t2, t3}
  POOL_LIMIT = 2
  MAX_DECODES = 4
  CustomSelector = CustomSelector
  InputLengths = {0, 2, 9, 10, 11, 33, 63, 64, 73, 74, 75, 137, 138, 139}
  Missing = Missing
  TxValues = {0, 500, 1000, 2000, 20000}
  TxGasPrices = {30000, 190000}
  Settings <- MCSettings
  MAX_SETTINGS = 2
  NotANumber = NotANumber
  Nothing = Nothing
  Configs <- MCConfigs
  Messages <- MCMessages
  USDC_DECIMALS = 1
  TOKEN_DECIMALS = 3
  MAX_AMOUNT = 100000
  MAX_MESSAGES = 3
  NaN = NaN
  NoHyperLiquid = NoHyperLiquid
  CpuCounts = {1, 2}
  DecisionResults <- MCResults
  MAX_TXS = 2
  NoResult = NoResult
INVARIANTS
  FiltersSafe
  DecodersSafe
  PlansSafe
  BotSafe
PROPERTIES
  StatsSound
CHECK_DEADLOCK FALSE
