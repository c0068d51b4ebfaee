-------------------------- MODULE MCDownloadEngine --------------------------
EXTENDS DownloadEngine

CONSTANTS c1, c2

TwoChapters == {c1, c2}
MCPagesOf == [c \in TwoChapters |-> IF c = c1 THEN {1, 2} ELSE {1}]
MCBudget ==
  [call |-> 2, fault |-> 2, flap |-> 1, stop |-> 1, crash |-> 1]
CrashOnly ==
  [call |-> 0, fault |-> 0, flap |-> 0, stop |-> 0, crash |-> 1]
LimitOnly ==
  [call |-> 0, fault |-> 1, flap |-> 0, stop |-> 0, crash |-> 0]

\* One chapter of two pages, for a delete and an enqueue that two stops cut short.
OneChapter == {c1}
OnePages == [c \in OneChapter |-> {1, 2}]
TwoStops ==
  [call |-> 4, fault |-> 0, flap |-> 0, stop |-> 0, crash |-> 2]
=============================================================================
