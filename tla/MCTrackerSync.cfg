SPECIFICATION SumSpec
CONSTANTS
  a = a
  b = b
  e1 = e1
  e2 = e2
  None = None
  Caller <- TwoCallers
  Chapter <- MCChapter
  Finished = TRUE
  Entry <- TwoEntries
  Total <- MCTotal
  Known = e1
  Attempts = 2
  Budgets <- MCBudgets
  User = {u1, u2}
  Side = {"device", "server"}
  MaxExpiries = 2
  MaxDrops = 1
  MaxMishaps = 1
  MaxEvents = 2
  MaxContexts = 3
INVARIANTS WatermarkReached LoginKept
PROPERTIES TrackerCatchesUp EveryCallEnds
CHECK_DEADLOCK FALSE
