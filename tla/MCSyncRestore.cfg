SPECIFICATION FairSpec
CONSTANTS
  Install <- MCInstall
  Key <- MCKey
  Tables <- AnyTable
  Page <- MCPage
  Value = {u}
  Absent = Absent
  MaxDrift = 1
  SegmentSize = 1
  PullLimit = 1
  CrashPoints <- AllPoints
  LoseTouches = FALSE
  BuildFaults = {}
  PriorProgress = FALSE
  Frail = {1}
  MaxId = 4
  MaxWrites = 2
  MaxCrashes = 0
  MaxFailures = 0
  MaxRestores = 1
INVARIANT NumbersFollow
PROPERTY EventuallySettled
CHECK_DEADLOCK FALSE
