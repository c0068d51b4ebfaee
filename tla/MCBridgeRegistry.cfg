SPECIFICATION SumSpec
CONSTANTS
  None = None
  Caller = {1}
  Url <- MCUrl
  Item <- MCItem
  Trackers = {"t"}
  Index <- MCIndex
  Starts <- MCStarts
  MAX_MOVE_HOPS = 3
  Budgets <- MCBudgets
  Asker = {c1, c2}
  Key = {k1, k2}
  Host = {"device", "server"}
  MaxAsks = 2
  MaxFailures = 1
  Overlap = FALSE
  MidRun = FALSE
  Unset = Unset
  Sid <- MCSid
  Cid <- MCCid
  Answers <- MCAnswers
  Tracker = {"t"}
  batchSize = 1
  Histories <- MCHistories
INVARIANTS RecordsKept ServedAsInstalled
PROPERTIES BookKept OwnWordOnly EveryAskAnswered
CHECK_DEADLOCK FALSE
