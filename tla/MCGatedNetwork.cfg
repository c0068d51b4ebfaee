SPECIFICATION SumSpec
CONSTANTS
  None = None
  Caller = {1, 2}
  Pace <- MCPace
  Declared <- MCDeclared
  Quota <- MCQuota
  MaxInlineWait = 2
  BackoffStart = 1
  BackoffMax = 2
  Named = {3}
  Key = {k1, k2}
  Client = {d1, d2}
  Style = {"doc", "shard", "nullable", "plain", "file", "keystore", "keychain"}
  MaxCalls = 4
  MaxFaults = 1
  Parallel = FALSE
  TornWrites = FALSE
INVARIANTS LimiterMoves AckedKept
PROPERTIES ReadsCurrent EveryWaitEnds
CHECK_DEADLOCK FALSE
