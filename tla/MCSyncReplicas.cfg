SPECIFICATION Spec
CONSTANTS
  Replica <- MCReplica
  Wall <- MCWall
  Page <- MCPage
  MaxDrift = 1
  MaxWrites = 3
  MaxCounter = 2
  Backtrack = FALSE
  Value = {u, v}
  Absent = Absent
INVARIANTS Agreement StampNamesChange DismissedStaysDismissed
PROPERTIES WrittenAfterSeen NeverRewound
SYMMETRY ValueSymmetry
CHECK_DEADLOCK FALSE
