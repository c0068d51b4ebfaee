----------------------------- MODULE MCLibrary -----------------------------
EXTENDS Library

CONSTANTS s1, s2, s3

MCKey == {s1, s2, s3}
C(id, n, lang, old) == [id |-> id, n |-> n, lang |-> lang, old |-> old]
c1 == C("c1", 1, "en", TRUE)
c2 == C("c2", 2, "en", FALSE)
c3 == C("c3", 2, "en", FALSE)
MCCopy == {c1, c2, c3}
MCChapterList == {<<>>, <<c1>>, <<c2, c1>>, <<c3, c1>>}
MCPage == 1..3
MCPageList == {<<1, 2>>, <<2>>, <<3, 2>>, <<2, 1>>}
MCSharedId == [k \in MCKey |-> {1}]
Kinds == [of |-> {s1, s2}, shelf |-> 0, group |-> 0, read |-> 0, sync |-> 0, gone |-> 0, feed |-> 0, page |-> 0]
One == [Kinds EXCEPT !.of = {s1}]
MCBudgets == {
  [Kinds EXCEPT !.of = MCKey, !.group = 3, !.shelf = 1],
  [Kinds EXCEPT !.shelf = 2, !.group = 2],
  [Kinds EXCEPT !.shelf = 1, !.read = 2],
  [Kinds EXCEPT !.read = 1, !.sync = 2, !.feed = 1],
  [One EXCEPT !.page = 3, !.sync = 1],
  [One EXCEPT !.page = 2, !.shelf = 2],
  [One EXCEPT !.read = 2, !.sync = 1, !.gone = 1],
  [Kinds EXCEPT !.gone = 2, !.shelf = 1, !.sync = 1]}
PageBudget == {[One EXCEPT !.page = 4]}
FeedBudget == {[Kinds EXCEPT !.sync = 2, !.feed = 1]}
=============================================================================
