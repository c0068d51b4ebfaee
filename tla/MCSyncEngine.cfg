SPECIFICATION Spec
CONSTANTS
  Install <- MCInstall
  Key <- MCKey
  Tables <- AnyTable
  Page <- MCPage
  Value = {u}
  Absent = Absent
  MaxDrift = 1
  SegmentSize = 1
  PullLimit = 2
  CrashPoints <- AllPoints
  LoseTouches = FALSE
  BuildFaults = {"save"}
  PriorProgress = FALSE
  Frail = {1}
  MaxId = 4
  MaxWrites = 2
  MaxCrashes = 1
  MaxFailures = 1
  MaxRestores = 0
INVARIANTS NothingSkipped ResendIsIdentical ChangesKept Converged PriorCopySurvives
CHECK_DEADLOCK FALSE
