SPECIFICATION SumSpec
CONSTANTS
  Device = {1, 2}
  MaxCalls = 2
  Overlap = FALSE
  Apart = FALSE
  Early = FALSE
  Change = {c1, c2}
  Before = {c1}
  Arriving = {p1}
  MaxFlushes = 1
  MaxFailures = 1
  MaxStops = 1
PROPERTIES OneLibrary Carried
CHECK_DEADLOCK FALSE
