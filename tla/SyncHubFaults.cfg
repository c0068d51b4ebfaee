SPECIFICATION FaultySpec
CONSTANTS
  Device = {d1}
  Body = {a, b}
  Torn = Torn
  MaxSeq = 2
  MaxQueue = 2
  MaxCrashes = 0
  WriteErrors = 1
  FragileReopen = FALSE
INVARIANT AckedKept
CHECK_DEADLOCK FALSE
