SPECIFICATION FairSpec
CONSTANTS
  c1 = c1
  c2 = c2
  None = None
  Chapter <- TwoChapters
  PagesOf <- MCPagesOf
  Attempts = 2
  Overlap = FALSE
  ShortHolds = FALSE
  Budget <- MCBudget
  MaxEvents = 2
INVARIANTS NothingForgotten CompleteMeansAll
PROPERTIES PagesKept QueueDrains
CHECK_DEADLOCK FALSE
