------------------------------- MODULE Library -------------------------------
(***************************************************************************)
(* The library of library.ts: the series the user collected, what they     *)
(* read of them, the feed of new chapters, and how series are filed and    *)
(* grouped.  Calls run one at a time; each is one step.                    *)
(*                                                                         *)
(* One switch turns the reading log off; the code has one for each bridge. *)
(* Times are left out but for two: a chapter is `old` when it was          *)
(* published before anything was collected, and a removal carries the      *)
(* number of the answer that confirmed it.  Titles, covers and the offline *)
(* chapter list are left out; of the cached detail the status is kept.     *)
(***************************************************************************)
EXTENDS LibraryItems

CONSTANTS
  Key,         \* series
  Group,       \* ids of groups, in the order they are made
  SharedId,    \* series -> the ids of other services that its source names
  Budgets      \* bound: the series called about, and how often each kind of call is made, in each
               \* of some histories

Call == {"shelf", "group", "read", "sync", "gone", "feed", "page"}
Surface == {"details", "chapters", "pages"}
SeriesStatus == {"ongoing", "completed"}

VARIABLES
  series,      \* key -> its row, or None: is it in the library?
  progress,    \* key -> chapter id -> the progress kept of it, or None
  log,         \* key -> the reading log's row, for a series read without being collected
  feed,        \* the feed's rows
  detail,      \* key -> the status in the cached detail, or None
  groups,      \* group -> its members and primary, or None
  collections, \* the collections there are
  muted,       \* is history off for the bridge?
  left         \* how often each kind may still be made, and of which series (`of`)

reading == <<progress, log, feed>>
shelf == <<groups, collections, muted>>
favorites == <<items, opened>>
vars == <<series, detail, reading, shelf, favorites, left>>

CollectionSeriesItem ==
  [known : SUBSET Copy, synced : BOOLEAN, last : Id \cup {None}, recent : BOOLEAN,
   cols : SUBSET Collection, group : Group \cup {None}, ids : SUBSET UNION {SharedId[k] : k \in Key},
   removal : {None} \cup [via : Surface, at : Nat]]
ChapterProgress ==
  [id : Id, read : BOOLEAN, page : Nat \cup {None}, n : {c.n : c \in Copy} \cup {None},
   lang : {c.lang : c \in Copy} \cup {None}]
HistoryItem == [last : Id, page : Nat \cup {None}, hidden : BOOLEAN]
ActivityItem ==
  [key : Key, id : Id, n : {c.n : c \in Copy}, lang : {c.lang : c \in Copy},
   behind : {None, "joined", "unseen"}, removed : {0}]
  \cup [key : Key, id : {None}, n : {None}, lang : {None}, behind : {None}, removed : Nat]

Spend(e) ==
  /\ left[e] > 0
  /\ left' = [left EXCEPT ![e] = @ - 1]

isCollected(k) == series[k] # None

------------------------------------------------------------------------------
(* What the library says *)

ReadRows(k) == {progress[k][i] : i \in {j \in Id : progress[k][j] # None /\ progress[k][j].read}}
ReadKeys(k) == {logicalChapterKey(r) : r \in ReadRows(k)}

\* The known logical chapters in the languages the series has been read in, or without regard to
\* language before it has been, and those of them without a read copy.
logicalChapterTally(k) ==
  LET langs == {r.lang : r \in ReadRows(k)} \ {None}
      KeyOf(c) == logicalChapterKey(IF langs # {} THEN c ELSE [c EXCEPT !.lang = None])
      known == {KeyOf(c) : c \in {d \in series[k].known :
                                    langs = {} \/ d.lang = None \/ d.lang \in langs}}
  IN [known |-> known, unread |-> known \ {KeyOf(r) : r \in ReadRows(k)}]

readStateOf(k) ==
  CASE ReadRows(k) = {} -> "unstarted"
    [] ReadRows(k) # {} /\ logicalChapterTally(k).unread # {} -> "behind"
    [] OTHER -> IF series[k].synced /\ series[k].known # {} /\ detail[k] = "completed"
                THEN "finished" ELSE "caught-up"

getSeriesCompletion(k) ==
  [fullyRead |-> /\ isCollected(k) /\ series[k].synced /\ series[k].known # {}
                 /\ logicalChapterTally(k).unread = {},
   seriesFinished |-> detail[k] = "completed"]

getResume(k) ==
  IF isCollected(k) /\ series[k].last # None
  THEN [ch |-> series[k].last,
        page |-> IF progress[k][series[k].last] = None THEN 0
                 ELSE Or(progress[k][series[k].last].page, 0)]
  ELSE IF log[k] # None THEN [ch |-> log[k].last, page |-> Or(log[k].page, 0)] ELSE None

\* The feed as it is shown: rows of chapters, and of removals that still hold.
getActivity(caughtUpOnly) ==
  {a \in feed : /\ ~(caughtUpOnly /\ a.behind = "unseen")
                /\ a.removed # 0 => /\ isCollected(a.key) /\ series[a.key].removal # None
                                    /\ series[a.key].removal.at = a.removed}
unreadActivity(caughtUpOnly) ==
  {a \in getActivity(caughtUpOnly) : a.removed = 0 /\ logicalChapterKey(a) \notin ReadKeys(a.key)}

------------------------------------------------------------------------------
(* Groups; each operator gives the series and the groups after it *)

State(s, g) == [series |-> s, groups |-> g]
Point(s, K, g) == [k \in Key |-> IF k \in K /\ s[k] # None THEN [s[k] EXCEPT !.group = g] ELSE s[k]]
Unused(g) == CHOOSE id \in Group : g[id] = None

createGroup(st, members, primary) ==
  LET id == Unused(st.groups) IN
  State(Point(st.series, members, id),
        [st.groups EXCEPT ![id] = [members |-> members, primary |-> primary]])

joinGroup(st, id, k) ==
  IF k \in st.groups[id].members THEN st
  ELSE State(Point(st.series, {k}, id), [st.groups EXCEPT ![id].members = @ \cup {k}])

linkEntries(st, old, k) ==
  IF old = k THEN st
  ELSE IF st.series[old].group # None THEN joinGroup(st, st.series[old].group, k)
  ELSE createGroup(st, {old, k}, old)

Grouped(st, k) == st.series[k] # None /\ st.series[k].group # None
Rest(st, k) == IF st.groups[st.series[k].group] = None THEN {}
               ELSE st.groups[st.series[k].group].members \ {k}

\* Mutant: the rest of a dissolved group goes on pointing at it.
ForgetsTheRest(st, k) ==
  IF ~Grouped(st, k) THEN st
  ELSE State(Point(st.series, {k}, None),
             [st.groups EXCEPT ![st.series[k].group] =
                IF Cardinality(Rest(st, k)) < 2 THEN None ELSE [@ EXCEPT !.members = Rest(st, k)]])

\* A group of one is dissolved; a primary that leaves is replaced.
leaveGroup(st, k) ==
  IF ~Grouped(st, k) THEN st
  ELSE LET id == st.series[k].group
           rest == Rest(st, k)
           alone == Cardinality(rest) < 2
       IN State(Point(st.series, IF alone THEN rest \cup {k} ELSE {k}, None),
                [st.groups EXCEPT ![id] =
                   IF alone THEN None
                   ELSE [members |-> rest,
                         primary |-> IF @.primary = k THEN CHOOSE m \in rest : TRUE ELSE @.primary]])

findExternalIdMatch(k) ==
  {m \in Key \ {k} : isCollected(m) /\ series[m].ids \cap SharedId[k] # {}}

------------------------------------------------------------------------------
(* Series come and go *)

Unread == [i \in Id |-> None]
Blank == [known |-> {}, synced |-> FALSE, last |-> None, recent |-> FALSE, cols |-> {},
          group |-> None, ids |-> {}, removal |-> None]

\* The row of a series that is collected, again or anew with the reading log's place; `ids` and
\* `cols` are what the caller gave.
Collected(k, ids, cols) ==
  LET old == IF isCollected(k) THEN series[k]
             ELSE IF log[k] = None THEN Blank
             ELSE [Blank EXCEPT !.last = log[k].last, !.recent = ~log[k].hidden]
  IN [old EXCEPT !.ids = IF ids = {} THEN @ ELSE ids,
                 !.cols = IF cols \cap collections = {} THEN @ ELSE cols \cap collections,
                 !.removal = None]

\* The page of the log's row seeds the chapter's, where there is none.
adoptReadingLog(k) ==
  LET l == log[k]
      p == progress[k][l.last]
  IN IF l = None THEN progress
     ELSE IF l.page = None \/ (p # None /\ p.page # None) THEN progress
     ELSE [progress EXCEPT ![k][l.last] =
             IF p = None THEN [id |-> l.last, read |-> FALSE, page |-> l.page, n |-> None, lang |-> None]
             ELSE [p EXCEPT !.page = l.page]]

\* The rest of the library once `k` is in it: the log's row has become progress of its own.
Adopts(k) ==
  /\ progress' = IF isCollected(k) THEN progress ELSE adoptReadingLog(k)
  /\ log' = IF isCollected(k) THEN log ELSE [log EXCEPT ![k] = None]
  /\ UNCHANGED <<feed, detail, collections, muted, favorites>>

\* Series `k` as one of `others`, if there is any.
JoinsOneOf(others, st, k) ==
  \E linked \in IF others = {} THEN {st} ELSE {linkEntries(st, m, k) : m \in others} :
    series' = linked.series /\ groups' = linked.groups

\* A new series joins one that shares an id with it.
collectSeries(k) ==
  /\ Spend("shelf")
  /\ \E ids \in {{}, SharedId[k]}, cols \in {{}, Collection} :
       JoinsOneOf(IF isCollected(k) \/ ids = {} THEN {} ELSE findExternalIdMatch(k),
                  State([series EXCEPT ![k] = Collected(k, ids, cols)], groups), k)
  /\ Adopts(k)

\* One favorite of a bridge: a series that is not there yet is collected, without ids.  Of those the
\* preview showed under the same title, the user may have named one that it is another source of; by
\* now that one may be gone.
importBridgeFavorites(k) ==
  /\ ~isCollected(k) /\ Spend("shelf")
  /\ \E cols \in {{}, Collection}, named \in {{}} \cup {{m} : m \in Key \ {k}} :
       JoinsOneOf({m \in named : isCollected(m)},
                  State([series EXCEPT ![k] = Collected(k, {}, cols)], groups), k)
  /\ Adopts(k)

\* Progress and links stay; the rest goes with the series.
removeSeries(k) ==
  /\ Spend("shelf")
  /\ LET st == leaveGroup(State(series, groups), k) IN
     series' = [st.series EXCEPT ![k] = None] /\ groups' = st.groups
  /\ feed' = {a \in feed : a.key # k}
  /\ detail' = [detail EXCEPT ![k] = None]
  /\ UNCHANGED <<progress, log, collections, muted, favorites>>

importLegacyEntries ==
  /\ Spend("shelf")
  /\ \E k \in Key, i \in Id \cup {None} :
       /\ k \in left.of /\ ~isCollected(k)
       /\ series' = [series EXCEPT ![k] = [Blank EXCEPT !.last = i, !.recent = i # None]]
  /\ UNCHANGED <<detail, reading, shelf, favorites>>

------------------------------------------------------------------------------
(* What the source answers *)

\* A detail came: it is cached, its ids join the row's, and a removal the details call heard is over.
cacheSeriesDetail(k) ==
  /\ isCollected(k) /\ Spend("gone")
  /\ \E status \in SeriesStatus : detail' = [detail EXCEPT ![k] = status]
  /\ series' = [series EXCEPT ![k].ids = @ \cup SharedId[k],
       ![k].removal = IF @ # None /\ @.via = "details" THEN None ELSE @]
  /\ UNCHANGED <<reading, shelf, favorites>>

\* The source says the series is gone: the first answer is news.
recordSeriesGone(k) ==
  /\ isCollected(k) /\ Spend("gone")
  /\ LET old == series[k].removal
         at == IF old = None THEN left["gone"] ELSE old.at
     IN /\ \E via \in Surface :
             series' = [series EXCEPT ![k].removal = [via |-> via, at |-> at]]
        /\ feed' = IF old # None THEN feed ELSE
             feed \cup {[key |-> k, id |-> None, n |-> None, lang |-> None, behind |-> None,
                         removed |-> at]}
  /\ UNCHANGED <<progress, log, detail, shelf, favorites>>

\* The pages call was answered.
clearSeriesGone(k) ==
  /\ isCollected(k) /\ series[k].removal # None /\ series[k].removal.via = "pages"
  /\ series' = [series EXCEPT ![k].removal = None]
  /\ UNCHANGED <<detail, reading, shelf, favorites, left>>

\* What the feed is told of chapter `c`: did it land while the reader was behind in its language,
\* and if so, did the caught-up feed have an unread row of the series already?
standingBefore(k, c) ==
  LET known == series[k].known
      behind == \/ \E d \in known : d.lang = c.lang /\ logicalChapterKey(d) \notin ReadKeys(k)
                \/ known # {} /\ \A d \in known : d.lang # c.lang
      row == \E a \in unreadActivity(TRUE) : a.key = k /\ a.lang = c.lang
  IN IF ~behind THEN None ELSE IF row THEN "joined" ELSE "unseen"

\* The chapters of `list` that are new: once for each logical chapter, and none that is older than
\* the library's interest in the series.  None on the first list.
Added(k, list) ==
  {list[i] : i \in {j \in DOMAIN list :
     /\ series[k].synced
     /\ ~list[j].old
     /\ logicalChapterKey(list[j]) \notin {logicalChapterKey(c) : c \in series[k].known}
     /\ \A h \in 1..(j - 1) : logicalChapterKey(list[h]) # logicalChapterKey(list[j])}}

\* An empty list, for a series that had chapters, is a failure of the source and only counts as a
\* check.  Any other replaces what is known; what was saved of the series is re-anchored first.
syncChapters(k) ==
  /\ isCollected(k) /\ Spend("sync")
  /\ \E list \in ChapterList :
       IF Len(list) = 0 /\ series[k].known # {}
       THEN /\ series' = [series EXCEPT ![k].synced = TRUE]
            /\ UNCHANGED <<feed, items>>
       ELSE /\ items' = IF series[k].synced /\ Len(list) > 0
                       THEN reanchorChapterItems(series[k].known, list) ELSE items
            /\ series' = [series EXCEPT ![k].known = ToSet(list), ![k].synced = TRUE,
                 ![k].removal = IF @ # None /\ @.via = "chapters" THEN None ELSE @]
            /\ feed' = feed \cup
                 {[key |-> k, id |-> c.id, n |-> c.n, lang |-> c.lang, removed |-> 0,
                   behind |-> standingBefore(k, c)] :
                  c \in {d \in Added(k, list) : \A a \in feed : a.key = k => a.id # d.id}}
  /\ UNCHANGED <<progress, log, detail, shelf, opened>>

------------------------------------------------------------------------------
(* Reading *)

Patch(read, page, n) == [read |-> read, page |-> page, n |-> n]
Fresh(i) == [id |-> i, read |-> FALSE, page |-> None, n |-> None, lang |-> None]

\* A chapter's progress after `patch`; number and language come from the synced list when nothing
\* else gave them.
Patched(k, i, patch) ==
  LET old == IF progress[k][i] = None THEN Fresh(i) ELSE progress[k][i]
      known == IF isCollected(k) THEN {c \in series[k].known : c.id = i} ELSE {}
      meta == IF known = {} THEN Fresh(i) ELSE CHOOSE c \in known : TRUE
  IN [id |-> i, read |-> Or(patch.read, old.read), page |-> Or(patch.page, old.page),
      n |-> Or(patch.n, Or(old.n, meta.n)), lang |-> Or(old.lang, meta.lang)]

Write(k, P) ==
  progress' = [progress EXCEPT ![k] =
    [i \in Id |-> IF i \in DOMAIN P THEN Patched(k, i, P[i]) ELSE @[i]]]

\* The user read chapter `i`: the resume point moves, on the row or, for a series that is not
\* collected, on the log's row if it has one.
Touch(k, i) ==
  /\ series' = IF isCollected(k) THEN [series EXCEPT ![k].last = i, ![k].recent = TRUE] ELSE series
  /\ log' = IF isCollected(k) \/ log[k] = None THEN log
            ELSE [log EXCEPT ![k] = [last |-> i, page |-> progress'[k][i].page, hidden |-> FALSE]]

NumberOf(i) == (CHOOSE c \in Copy : c.id = i).n

\* One chapter, read, unread, or read as far as a page (1 is the last); the caller may leave out
\* the number.
writeProgress(k, i, patch) ==
  /\ Spend("read")
  /\ Write(k, [j \in {i} |-> patch])
  /\ IF progress'[k][i].read \/ patch.page # None THEN Touch(k, i) ELSE UNCHANGED <<series, log>>
  /\ UNCHANGED <<feed, detail, shelf, favorites>>

markRead(k) ==
  \E i \in Id, read \in BOOLEAN, given \in BOOLEAN :
    writeProgress(k, i, Patch(read, None, IF given THEN NumberOf(i) ELSE None))

setProgress(k) ==
  \E i \in Id, page \in {0, 1} :
    writeProgress(k, i, Patch(IF page = 1 THEN TRUE ELSE None, page, NumberOf(i)))

orderForReading(list) ==
  LET Earlier(i, j) ==
        \/ list[i].n # None /\ list[j].n # None /\ list[i].n < list[j].n
        \/ list[i].n # None /\ list[j].n = None
        \/ i < j /\ (list[i].n = None <=> list[j].n = None) /\ list[i].n = list[j].n
  IN [i \in DOMAIN list |-> list[SetToSortSeq(DOMAIN list, Earlier)[i]]]

\* Every copy of the target's language up to its number, or place in the list.
markReadUpTo(k) ==
  /\ Spend("read")
  /\ \E list \in ChapterList : \E cut \in DOMAIN list :
       LET ordered == orderForReading(list)
           target == ordered[cut]
           within == {i \in DOMAIN ordered :
             /\ ordered[i].lang = target.lang
             /\ IF target.n # None /\ ordered[i].n # None THEN ordered[i].n <= target.n ELSE i <= cut}
       IN /\ Write(k, [j \in {ordered[i].id : i \in within} |-> Patch(TRUE, None, NumberOf(j))])
          /\ Touch(k, ordered[Max(within)].id)
  /\ UNCHANGED <<feed, detail, shelf, favorites>>

\* What another reader has read is read here too; the user's place stays.
reconcileRead(k, S) ==
  /\ isCollected(k)
  /\ Write(k, [i \in {j \in S : progress[k][j] = None \/ ~progress[k][j].read} |->
                 Patch(TRUE, None, NumberOf(i))])
  /\ UNCHANGED <<series, log, feed, detail, shelf, favorites>>

pullRead(k) == Spend("read") /\ \E S \in {Id} \cup {{i} : i \in Id} : reconcileRead(k, S)

markActivityRead(k) ==
  /\ Spend("feed")
  /\ \E caughtUpOnly \in BOOLEAN :
       reconcileRead(k, {a.id : a \in {b \in feed : /\ b.key = k /\ b.removed = 0
                                                   /\ ~(caughtUpOnly /\ b.behind = "unseen")}})

recordRead(k) ==
  /\ ~isCollected(k) /\ ~muted /\ Spend("read")
  /\ \E i \in Id, page \in {None, 1} :
       log' = [log EXCEPT ![k] = [last |-> i, page |-> page, hidden |-> FALSE]]
  /\ UNCHANGED <<series, progress, feed, detail, shelf, favorites>>

resetProgress(k) ==
  /\ Spend("read")
  /\ progress' = [progress EXCEPT ![k] = Unread]
  /\ IF isCollected(k)
     THEN /\ series' = [series EXCEPT ![k].last = None, ![k].recent = FALSE]
          /\ UNCHANGED log
     ELSE log' = [log EXCEPT ![k] = None] /\ UNCHANGED series
  /\ UNCHANGED <<feed, detail, shelf, favorites>>

\* A log row is hidden, not dropped: it is the only resume point the series has.
clearHistoryEntry(k) ==
  /\ Spend("read")
  /\ IF isCollected(k)
     THEN /\ series' = [series EXCEPT ![k].last = None, ![k].recent = FALSE]
          /\ UNCHANGED log
     ELSE /\ log[k] # None
          /\ log' = [log EXCEPT ![k].hidden = TRUE]
          /\ UNCHANGED series
  /\ UNCHANGED <<progress, feed, detail, shelf, favorites>>

\* The feed is cleared, of one series or of all, or cut down to its newest rows; which those are
\* is left open.
dropActivity ==
  /\ Spend("feed")
  /\ \E S \in {{}} \cup {{a \in feed : a.key # k} : k \in Key} \cup {{a} : a \in feed} :
       feed' = S
  /\ UNCHANGED <<series, progress, log, detail, shelf, favorites>>

------------------------------------------------------------------------------
(* Filing *)

setItemCollections ==
  /\ Spend("shelf")
  /\ \E cols \in SUBSET Collection :
       \/ /\ \E k \in Key : isCollected(k) /\ series' = [series EXCEPT ![k].cols = cols \cap collections]
          /\ UNCHANGED items
       \/ /\ \E p \in Place : items[p] # None /\ items' = [items EXCEPT ![p].cols = cols \cap collections]
          /\ UNCHANGED series
  /\ UNCHANGED <<detail, reading, shelf, opened>>

createCollection ==
  /\ Spend("shelf")
  /\ \E c \in Collection \ collections : collections' = collections \cup {c}
  /\ UNCHANGED <<series, detail, reading, groups, muted, favorites>>

\* Its members stay, without it.
deleteCollection ==
  /\ Spend("shelf")
  /\ \E c \in collections :
       /\ collections' = collections \ {c}
       /\ series' = [k \in Key |-> IF isCollected(k) THEN [series[k] EXCEPT !.cols = @ \ {c}] ELSE None]
       /\ items' = [p \in Place |-> IF items[p] # None THEN [items[p] EXCEPT !.cols = @ \ {c}] ELSE None]
  /\ UNCHANGED <<detail, reading, groups, muted, opened>>

\* The user makes, joins or leaves a group, or picks another primary.  Only the primary of a new
\* group need be in the library, and the others may be in a group already.
Regroup(st) == series' = st.series /\ groups' = st.groups

editGroups ==
  /\ Spend("group")
  /\ LET st == State(series, groups) IN
     \/ \E members \in SUBSET left.of : \E k \in members :
          isCollected(k) /\ Regroup(createGroup(st, members, k))
     \/ \E g \in Group, k \in left.of : groups[g] # None /\ Regroup(joinGroup(st, g, k))
     \/ \E k \in Key : Grouped(st, k) /\ Regroup(leaveGroup(st, k))
     \/ \E g \in Group : /\ groups[g] # None
                         /\ \E k \in groups[g].members :
                              Regroup(State(series, [groups EXCEPT ![g].primary = k]))
  /\ UNCHANGED <<detail, reading, collections, muted, favorites>>

setBridgePrefs ==
  /\ Spend("shelf")
  /\ muted' = ~muted
  /\ UNCHANGED <<series, detail, reading, groups, collections, favorites>>

Favorite ==
  /\ Spend("page")
  /\ \/ openChapter
     \/ (collectPage \/ collectChapter \/ uncollectItem) /\ UNCHANGED opened
  /\ UNCHANGED <<series, detail, reading, shelf>>

------------------------------------------------------------------------------
\* An empty library, or one with a series collected and checked once; with or without collections.
Init ==
  /\ left \in Budgets
  /\ series \in {[k \in Key |-> None]} \cup
       {[k \in Key |-> IF k = first THEN [Blank EXCEPT !.known = ToSet(list), !.synced = TRUE,
                                                     !.ids = SharedId[k]] ELSE None] :
          first \in left.of, list \in ChapterList}
  /\ progress = [k \in Key |-> Unread] /\ log = [k \in Key |-> None]
  /\ feed = {} /\ detail = [k \in Key |-> None]
  /\ groups = [g \in Group |-> None] /\ collections \in {{}, Collection} /\ muted = FALSE
  /\ items = Nowhere /\ opened = Closed

Next ==
  \/ \E k \in left.of :
       \/ collectSeries(k) \/ importBridgeFavorites(k) \/ removeSeries(k) \/ cacheSeriesDetail(k)
       \/ recordSeriesGone(k) \/ clearSeriesGone(k) \/ syncChapters(k) \/ markRead(k) \/ setProgress(k)
       \/ markReadUpTo(k) \/ pullRead(k) \/ markActivityRead(k) \/ recordRead(k) \/ resetProgress(k)
       \/ clearHistoryEntry(k)
  \/ importLegacyEntries \/ dropActivity \/ setItemCollections \/ createCollection
  \/ deleteCollection \/ editGroups \/ setBridgePrefs \/ Favorite

Spec == Init /\ [][Next]_vars

------------------------------------------------------------------------------
\* Rows are rows, and every membership names a collection there is.
TypeOK ==
  /\ \A k \in Key :
       /\ series[k] \in CollectionSeriesItem \cup {None}
       /\ log[k] \in HistoryItem \cup {None} /\ detail[k] \in SeriesStatus \cup {None}
       /\ \A i \in Id : progress[k][i] \in ChapterProgress \cup {None}
       /\ isCollected(k) => series[k].cols \subseteq collections
  /\ feed \subseteq ActivityItem /\ muted \in BOOLEAN
  /\ \A p \in Place : items[p] # None => items[p] \in CollectionItem /\ items[p].cols \subseteq collections

\* A series that says it is in a group is one of its members, and the group's primary is another
\* or the same: however series are linked by their ids, regrouped by hand, removed and collected
\* again (createGroup, linkEntries, leaveGroup).
GroupListsItsSeries ==
  /\ \A k \in Key : isCollected(k) /\ series[k].group # None =>
       groups[series[k].group] # None /\ k \in groups[series[k].group].members
  /\ \A g \in Group : groups[g] # None => groups[g].primary \in groups[g].members

\* What a tracker is told and what the library shows agree: a series is finished when every chapter
\* known of it is read and it is over, whichever of the two asks (readStateOf, getSeriesCompletion).
OneMeaningOfFinished ==
  \A k \in Key : isCollected(k) =>
    (readStateOf(k) = "finished" <=> getSeriesCompletion(k) = [fullyRead |-> TRUE, seriesFinished |-> TRUE])

\* Collecting a series that was being read leaves the reader where they were, history hidden or
\* not (collectSeries, adoptReadingLog).
CollectKeepsPlace ==
  [][ \A k \in Key : log[k] # None /\ log'[k] = None /\ isCollected(k)'
        => getResume(k)' # None /\ getResume(k)'.ch = getResume(k).ch ]_vars

\* Of a page saved with its hash, the reader lights up only the page itself, in a chapter whose
\* pages it can hash: wherever the source has moved it, and whatever it has put in its place
\* (reconcileChapterPages).
PointsAtSavedPage ==
  [][ opened' # opened /\ opened'.hashed =>
        \A p \in Place : LET r == items'[p] IN
          p.ch = opened'.ch /\ p.at >= 0 /\ r # None /\ ~r.stale /\ r.hash \in r.of
            /\ Len(opened'.pages) > 0
          => opened'.pages[p.at + 1] \in r.of ]_vars

\* A saved page that was lost is lit up again only in a list that has it (models.ts:234-240).
RelitOnlyWhenFound ==
  [][ opened' # opened =>
        \A p \in Place : LET r == items[p] IN
          p.ch = opened'.ch /\ p.at >= 0 /\ r # None /\ r.stale /\ r.of \cap ToSet(opened'.pages) = {}
          => items'[p] = None \/ items'[p].stale \/ r.of # items'[p].of ]_vars

\* Marking a series' feed row read leaves none of its chapters unread (library.ts:1167-1176).
MarkedRowsRead ==
  [][ \A k \in Key : left'["feed"] # left["feed"] /\ progress'[k] # progress[k] /\ feed' = feed
        => \A a \in unreadActivity(TRUE)' : a.key # k ]_vars

\* What is said of a series twice agrees.
SeriesAgree == GroupListsItsSeries /\ OneMeaningOfFinished

\* Where the user was, in a series and in a page, is not lost or mistaken.
PlacesKept == CollectKeepsPlace /\ PointsAtSavedPage
==============================================================================
