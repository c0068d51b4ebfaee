--------------------------- MODULE BackgroundSync ---------------------------
(***************************************************************************)
(* The background check of the library for new chapters (ComicalRuntime.   *)
(* backgroundSync): the entries are taken from the one checked longest     *)
(* ago, each source is asked at once which of its series have moved, and   *)
(* the lists of those that may have are fetched, until the time is up.     *)
(*                                                                         *)
(* A chapter list is the version of the source's list it was, 0 an empty   *)
(* one; the order of the entries' chaptersSyncedAt is kept for the times.  *)
(* Each entry is of a bridge of its own.  What the pass does beside the    *)
(* list (tracker links, detail, read state) is left out, and so is the     *)
(* staleness window, whose tail is as one the budget cuts off.             *)
(***************************************************************************)
EXTENDS Integers, Sequences, FiniteSets, SequencesExt

CONSTANTS
  None,
  Entry, Run,
  MaxVersion,     \* how far the sources go
  Workers,        \* entries in the works at once (concurrency)
  Opened,         \* the entries whose page is opened
  TakenDown,      \* the entries whose source may take the series down, and restore it
  Uninstalled     \* the entries whose bridge may be uninstalled, and installed again

ASSUME NoneAssumption == None \notin Nat

VARIABLES
  source,   \* entry -> [version, up]: the source's list, and whether it serves the series
  loads,    \* the entries whose bridge loads
  row,      \* entry -> [list, rev, gone]: what the library holds of it
  order,    \* the entries by the time of their last check, longest ago first
  page,     \* entry -> the list fetched for its page and not stored yet, or None
  run,      \* run -> a background sync
  overtaken \* history: the entries a list was stored of that was older, or emptier, than was known (Overtakes)

check == <<source, loads, row, order, page, run, overtaken>>

Version == 0 .. MaxVersion
Row == [list : Version, rev : Version \cup {None}, gone : BOOLEAN]
NoCheck == [rev |-> None, unchanged |-> FALSE]
Idle == [pc |-> "idle", left |-> <<>>, first |-> TRUE, partial |-> FALSE,
         seen |-> [e \in Entry |-> None], checks |-> [e \in Entry |-> NoCheck], got |-> [e \in Entry |-> None]]

Fetched(r) == {e \in Entry : run[r].got[e] # None}

------------------------------------------------------------------------------
(* What the library records of an answer *)

stamped(e) == Append(SelectSeq(order, LAMBDA x : x # e), e)

\* Mutant: an empty list is kept away, but its revision is not.
RecordsItsRevision(e, list, rev) ==
  /\ order' = stamped(e)
  /\ row' = [row EXCEPT ![e] = IF list = 0 /\ @.list # 0 THEN [@ EXCEPT !.rev = rev]
                               ELSE [list |-> list, rev |-> rev, gone |-> FALSE]]

\* An empty list where chapters are known is a glitch: it only counts as a check.
syncChapters(e, list, rev) ==
  /\ order' = stamped(e)
  /\ row' = IF list = 0 /\ row[e].list # 0 THEN row
            ELSE [row EXCEPT ![e] = [list |-> list, rev |-> rev, gone |-> FALSE]]

\* Mutant: only the revision is recorded.
LeavesTheStamp(e, rev) == row' = [row EXCEPT ![e].rev = rev] /\ UNCHANGED order

markChaptersUnchanged(e, rev) == row' = [row EXCEPT ![e].rev = rev] /\ order' = stamped(e)

recordSeriesGone(e, checked) ==
  /\ row' = [row EXCEPT ![e].gone = TRUE]
  /\ order' = IF checked THEN stamped(e) ELSE order

\* History: a list older than the one held is stored while a run still remembers the entry, with the
\* revision it read or with the answer that matched it; or an empty list is the first one stored, and
\* a revision comes with it.
Remembered(e) == \E r \in Run : run[r].seen[e] # None \/ run[r].checks[e].unchanged
Overtakes(e, list, rev) ==
  IF list = 0 THEN row[e].list = 0 /\ rev # None ELSE list < row[e].list /\ Remembered(e)

\* It is over when the list held is again the source's.
Stored(e, list, rev) ==
  /\ syncChapters(e, list, rev)
  /\ overtaken' = IF Overtakes(e, list, rev) THEN overtaken \cup {e}
                  ELSE IF row'[e].list = source[e].version THEN overtaken \ {e} ELSE overtaken

------------------------------------------------------------------------------
(* A series' page is opened: its list is fetched, then stored without a revision *)

\* The source answers with its list, or has an empty one for a glitch.
Answers(e) == {0, source[e].version}

OpenSeries(e) ==
  /\ e \in Opened \cap loads /\ page[e] = None
  /\ \/ source[e].up /\ \E list \in Answers(e) : page' = [page EXCEPT ![e] = list]
        /\ UNCHANGED <<row, order>>
     \/ ~source[e].up /\ recordSeriesGone(e, FALSE) /\ UNCHANGED page
  /\ UNCHANGED <<source, loads, run, overtaken>>

StorePage(e) ==
  /\ page[e] # None
  /\ Stored(e, page[e], None)
  /\ page' = [page EXCEPT ![e] = None]
  /\ UNCHANGED <<source, loads, run>>

------------------------------------------------------------------------------
(* A run *)

\* The library is read.  Entries known to be gone are left out unless it is long since they were asked.
backgroundSync(r) ==
  /\ run[r].pc = "idle"
  /\ \E recent \in SUBSET {e \in Entry : row[e].gone} :
       run' = [run EXCEPT ![r] =
         [Idle EXCEPT !.pc = "listed", !.left = SelectSeq(order, LAMBDA e : e \notin recent),
                      !.seen = [e \in Entry |-> row[e].rev]]]
  /\ UNCHANGED <<source, loads, row, order, page, overtaken>>

\* The bridges are asked one after the other, those of the entries longest unchecked first, until the
\* time is up: those that do not load are left out, the others answer, fail or do not check at all.
batchCheckRevisions(r) ==
  /\ run[r].pc = "listed"
  /\ LET left == run[r].left IN
      \E n \in 0 .. Len(left) :
       LET reached == ToSet(SubSeq(left, 1, n)) IN
       /\ n = Len(left) \/ (n > 0 /\ left[n] \in loads)
       /\ \E answered \in SUBSET {e \in reached \cap loads : source[e].up} :
            run' = [run EXCEPT
              ![r].pc = "working",
              ![r].left = SelectSeq(left, LAMBDA e : e \in loads \/ e \notin reached),
              ![r].checks = [e \in Entry |->
                 IF e \notin answered THEN NoCheck
                 ELSE [rev |-> source[e].version, unchanged |-> run[r].seen[e] = source[e].version]],
              ![r].seen = Idle.seen]
  /\ UNCHANGED <<source, loads, row, order, page, overtaken>>

\* A worker takes the next entry.
Taken(r) == [run[r] EXCEPT !.left = Tail(@), !.first = FALSE]
Done(r, e) == [Taken(r) EXCEPT !.checks[e] = NoCheck]
CanTake(r, e) ==
  /\ run[r].pc = "working" /\ run[r].left # <<>> /\ Head(run[r].left) = e
  /\ Cardinality(Fetched(r)) < Workers

\* It has not moved: no list is fetched.
Unmoved(r, e) ==
  /\ CanTake(r, e) /\ e \in loads /\ run[r].checks[e].unchanged
  /\ markChaptersUnchanged(e, run[r].checks[e].rev)
  /\ run' = [run EXCEPT ![r] = Done(r, e)]
  /\ UNCHANGED <<source, loads, page, overtaken>>

\* Its list is fetched, or the source says it is gone.
Pull(r, e) ==
  /\ CanTake(r, e) /\ e \in loads /\ ~run[r].checks[e].unchanged
  /\ \/ source[e].up
        /\ \E list \in Answers(e) : run' = [run EXCEPT ![r] = [Taken(r) EXCEPT !.got[e] = list]]
        /\ UNCHANGED <<row, order>>
     \/ ~source[e].up /\ recordSeriesGone(e, TRUE) /\ run' = [run EXCEPT ![r] = Done(r, e)]
  /\ UNCHANGED <<source, loads, page, overtaken>>

\* The bridge does not load, or the request fails otherwise: nothing is written.
PullFails(r, e) ==
  /\ CanTake(r, e)
  /\ e \notin loads \/ ~run[r].checks[e].unchanged
  /\ run' = [run EXCEPT ![r] = Done(r, e)]
  /\ UNCHANGED <<source, loads, row, order, page, overtaken>>

StorePulled(r, e) ==
  /\ run[r].got[e] # None
  /\ Stored(e, run[r].got[e], run[r].checks[e].rev)
  /\ run' = [run EXCEPT ![r].got[e] = None, ![r].checks[e] = NoCheck]
  /\ UNCHANGED <<source, loads, page>>

\* The time is up: no more entries are begun, but never not the first.
TimeIsUp(r) ==
  /\ run[r].pc = "working" /\ run[r].left # <<>> /\ ~run[r].first
  /\ run' = [run EXCEPT ![r].left = <<>>, ![r].partial = TRUE,
                      ![r].checks = [e \in Entry |-> IF e \in Fetched(r) THEN @[e] ELSE NoCheck]]
  /\ UNCHANGED <<source, loads, row, order, page, overtaken>>

RunEnds(r) ==
  /\ run[r].pc = "working" /\ run[r].left = <<>> /\ Fetched(r) = {}
  /\ run' = [run EXCEPT ![r] = Idle]
  /\ UNCHANGED <<source, loads, row, order, page, overtaken>>

------------------------------------------------------------------------------
(* The sources and the bridges *)

Publish(e) ==
  /\ source[e].up /\ source[e].version < MaxVersion
  /\ source' = [source EXCEPT ![e].version = @ + 1]
  /\ UNCHANGED <<loads, row, order, page, run, overtaken>>
TakeDownOrRestore(e) ==
  /\ e \in TakenDown
  /\ source' = [source EXCEPT ![e].up = ~@]
  /\ UNCHANGED <<loads, row, order, page, run, overtaken>>
UninstallOrInstall(e) ==
  /\ e \in Uninstalled
  /\ loads' = IF e \in loads THEN loads \ {e} ELSE loads \cup {e}
  /\ UNCHANGED <<source, row, order, page, run, overtaken>>

Init ==
  /\ source = [e \in Entry |-> [version |-> 1, up |-> TRUE]]
  /\ loads = Entry
  /\ row = [e \in Entry |-> [list |-> 0, rev |-> None, gone |-> FALSE]]
  /\ order \in {s \in [1 .. Cardinality(Entry) -> Entry] : ToSet(s) = Entry}
  /\ page = [e \in Entry |-> None]
  /\ run = [r \in Run |-> Idle]
  /\ overtaken = {}

Step(r, e) == Unmoved(r, e) \/ Pull(r, e) \/ PullFails(r, e)

Next ==
  \/ \E e \in Entry : \/ Publish(e) \/ TakeDownOrRestore(e) \/ UninstallOrInstall(e)
                      \/ OpenSeries(e) \/ StorePage(e)
  \/ \E r \in Run : \/ backgroundSync(r) \/ batchCheckRevisions(r) \/ TimeIsUp(r) \/ RunEnds(r)
                    \/ \E e \in Entry : Step(r, e) \/ StorePulled(r, e)

Spec == Init /\ [][Next]_check

\* What the source has to say of the series: its list, or that it is gone.
Definite(r, e) == Pull(r, e) /\ (source[e].up => run'[r].got[e] = source[e].version)
DefinitePage(e) == OpenSeries(e) /\ (source[e].up => page'[e] = source[e].version)

\* A source that is asked again and again answers again and again, and a bridge is not installed and
\* uninstalled for ever.
Asked(r, e) == e \in loads /\ (Pull(r, e) \/ PullFails(r, e))
SourceAnswers ==
  /\ \A r \in Run, e \in Entry : <>[][~Asked(r, e)]_check \/ []<><<Definite(r, e)>>_check
  /\ \A e \in Opened : <>[][~OpenSeries(e)]_check \/ []<><<DefinitePage(e)>>_check
  /\ \A e \in Uninstalled : <>[][~UninstallOrInstall(e)]_check

\* Runs go on to their end, and what was fetched is stored.  Another run is begun later, and again and
\* again so late that every entry is old enough to be asked.
Fairness ==
  /\ \A r \in Run :
       /\ SF_check(backgroundSync(r) /\ Len(run'[r].left) = Cardinality(Entry))
       /\ WF_check(batchCheckRevisions(r)) /\ WF_check(RunEnds(r))
       /\ WF_check(\E e \in Entry : Step(r, e) \/ StorePulled(r, e))
  /\ \A e \in Opened : WF_check(StorePage(e))
  /\ SourceAnswers

FairSpec == Spec /\ Fairness

------------------------------------------------------------------------------
\* The revision held is of a newer list than the one held: the next check matches it and skips the fetch.
Hidden(e) == row[e].rev # None /\ row[e].rev > row[e].list

\* No update is hidden, however pages and runs overlap and whatever the sources answer, but by a list
\* stored over a newer one that a run remembers, or by an empty first list stored with a revision
\* (syncChapters keeps a later empty one away, and its revision with it).
NothingHidden == \A e \in Entry : Hidden(e) => e \in overtaken

\* What a source published is held in the end, however short a run's time: no entry stays at the head
\* of every run, none is never reached, none is taken for unchanged that is not (backgroundSync: the
\* order by last check is the cursor from run to run).  Nothing is said of a series while the source
\* does not serve it, its bridge does not load, or it is hidden as above.
UpdatesArrive ==
  \A e \in Entry : []<>(row[e].list = source[e].version \/ ~source[e].up \/ e \notin loads \/ Hidden(e))

\* batchCheckRevisions: "Nothing here can cause an update to be missed; the worst case is the per-entry
\* behavior that predates it."
NoUpdateMissed == \A e \in Entry : ~Hidden(e)

\* A series the source serves again is not held to be gone for ever (BackgroundSyncOptions.removedStaleMs:
\* "re-asked in case the source restores it").
ReturnIsNoticed == \A e \in Entry : []<>(~row[e].gone \/ ~source[e].up \/ e \notin loads)
=============================================================================
