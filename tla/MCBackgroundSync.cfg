SPECIFICATION SumSpec
CONSTANTS
  None = None
  Entry = {1, 2}
  Run = {1}
  MaxVersion = 2
  Workers = 1
  Opened = {1}
  TakenDown = {1}
  Uninstalled = {2}
INVARIANTS NothingHidden
PROPERTIES UpdatesArrive
CHECK_DEADLOCK FALSE
