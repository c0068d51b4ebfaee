SPECIFICATION Spec
CONSTANTS
  s1 = s1
  s2 = s2
  s3 = s3
  None = None
  Collection = {"k"}
  Copy <- MCCopy
  ChapterList <- MCChapterList
  Page <- MCPage
  PageList <- MCPageList
  Key <- MCKey
  Group = {1, 2, 3, 4, 5}
  SharedId <- MCSharedId
  Budgets <- MCBudgets
INVARIANT SeriesAgree
PROPERTY PlacesKept
CHECK_DEADLOCK FALSE
