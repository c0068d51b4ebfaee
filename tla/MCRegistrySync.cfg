SPECIFICATION Spec
CONSTANTS
  None = None
  Device <- TwoDevices
  Value <- Values
  Understood <- MCUnderstood
  maxAttempts = 2
  Histories <- MCHistories
INVARIANT RecordsFollowed
PROPERTY ChoicesStand
CHECK_DEADLOCK FALSE
