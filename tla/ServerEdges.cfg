SPECIFICATION Spec
CONSTANTS
  Callers = {c1, c2}
  Account = {"positions"}
  High = {"positions", "userRole"}
  MaxConcurrency = 1
  MaxRetries = 1
  MinInterval = 1
  ResponseCacheTtl = 1
  MaxCalls = 3
  MaxClientTime = 2
  BackoffInitial = 1
  BackoffMax = 4
  Stale = 1
  Trip = 1
  MaxFetches = 2
  MaxStreamTime = 3
  Markets <- MCMarkets
  OrderTypes <- MCOrderTypes
  ExtraDexes = {}
  DiscoveryTtl = 2
  Entry = 10
  Offsets <- MCOffsets
  MaxOrders = 2
  MaxViewTime = 2
  Coins = {"a", "b"}
  Saves = {1, 2}
  Interval = 1
  MaxRuleTime = 2
  Contents = {1, 2}
  CoinOf <- MCCoinOf
  Senders = {1, 2}
  DedupWindow = 0
  HistoryLimit = 2
  MaxSignals = 3
  MaxSignalTime = 1
  Msgs = {1, 2, 3}
  Key <- MCKey
  MaxSends = 2
  Batch = 2
  Limit = 2
  MaxTroubles = 1
  Cycles = {c1, c2}
  RuleCount = 3
  Tier <- MCTier
  Cooldown <- MCCooldown
  Attempts <- MCAttempts
  Pauses <- MCPauses
  Timed = {2}
  Unregistered = {}
  Ttl = 1
  MaxCycleTime = 3
  None = None
CHECK_DEADLOCK FALSE
INVARIANTS ReadsAreRecent StreamIsTended OldPositionsAreSeen RulesGovern SignalsAreHandedOnce
INVARIANTS DeliveredOnce FiringsAreSpaced
PROPERTIES CallsEnd QueuedIsHandled
