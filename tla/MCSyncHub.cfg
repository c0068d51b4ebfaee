SPECIFICATION SumSpec
CONSTANTS
  Device = {d1, d2}
  Body = {a, b}
  Torn = Torn
  MaxSeq = 2
  MaxQueue = 2
  MaxCrashes = 1
  Phone = {p1, p2}
  MaxCodes = 2
  MaxCalls = 4
  MaxRestarts = 1
INVARIANTS PairingKept ToldTheTruth
PROPERTY KeepsPromise
SYMMETRY HubSymmetry
CHECK_DEADLOCK FALSE
