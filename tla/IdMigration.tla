---------------------------- MODULE IdMigration ----------------------------
(***************************************************************************)
(* A bridge update changed the ids it gives its series and chapters: what  *)
(* this device holds under the old ids is moved onto the new ones before   *)
(* anything else reaches the bridge (runtime/id-migration.ts), first the   *)
(* library (library/id-remap.ts), then the downloads (downloads/           *)
(* id-remap.ts).  A run may stop anywhere and be run again; a backup with  *)
(* old ids may be restored (backup.ts).                                    *)
(*                                                                         *)
(* A run works through an agenda of moves; each writes the record on the   *)
(* new id ("put") and then removes the one on the old ("drop").  Titles,   *)
(* the pages within a chapter and the sizes of downloads are left out;     *)
(* a downloaded page is named by the chapter it was fetched for.           *)
(***************************************************************************)
EXTENDS Integers, Sequences, SequencesExt, FiniteSets, FiniteSetsExt

CONSTANTS
  Unset,
  Sid, Cid,    \* series and chapter ids, old and new
  Answers,     \* what the bridge may make of them: records of series and chapter
  Tracker,
  batchSize,
  Histories    \* bound: how often each kind of event happens, in each of some histories

\* An id that is current comes back unchanged, as migrateIds is asked to have it.
ASSUME AnswersIdempotent ==
  \A t \in Answers : \A s \in Sid :
    /\ t.series[t.series[s]] = t.series[s]
    /\ \A c \in Cid : t.chapter[t.series[s]][t.chapter[s][c]] = t.chapter[s][c]

Event == {"read", "file", "download", "restore", "fail", "crash", "midmove", "overlap"}
Place == Sid \X Cid

VARIABLES
  to,          \* the bridge's answer
  rows,        \* series -> its row in the library, or Unset
  saved,       \* chapters saved on their own
  progress,    \* place -> the progress kept of the chapter, or Unset
  docs,        \* the cached detail and chapter list: when cached, and the ids in it
  links,       \* series -> the trackers it is linked at
  log,         \* series -> the reading log's row, or Unset
  feed,        \* places the feed has rows of
  group,       \* the members of the one group, or none
  downloads,   \* place -> the downloaded chapter, or Unset
  blobs,       \* pages on disk
  mark,        \* was this version's migration recorded as done?
  settled,     \* the restores there had been when a run last ended, or Unset
  run,         \* the run in progress, or AtRest
  restores,    \* idMigrationRound
  did,         \* places read, the last per series, chapters downloaded; was the update in use yet?
  remaining         \* how often each kind of event may still happen

records == <<rows, saved, progress, docs, links, log, feed, group>>
offline == <<downloads, blobs>>
migrationVars == <<to, records, offline, mark, settled, run, restores, did, remaining>>

CollectionSeriesItem == [last : Cid \cup {Unset}, at : Nat, known : SUBSET Cid, grouped : BOOLEAN]
ChapterProgress == [read : BOOLEAN, page : Nat, at : Nat]
DownloadedChapter == [state : {"queued", "downloading", "complete"}, files : SUBSET Place]

Uses(e) == remaining[e] > 0 /\ remaining' = [remaining EXCEPT ![e] = @ - 1]
AtRest == [agenda |-> <<>>, phase |-> "idle", refs |-> {}, moves |-> [s \in Sid |-> Unset],
         complete |-> TRUE, seen |-> Unset, dropped |-> {}, at |-> 0]
Resting == run.phase = "idle"
\* The user's own calls come between runs; a scenario may let them come during one.
Free == Resting \/ remaining["overlap"] > 0

\* One chapter, by its new ids.
Now(p) == <<to.series[p[1]], to.chapter[p[1]][p[2]]>>
OnOldId(p) == Now(p) # p
Clock == did.clock

------------------------------------------------------------------------------
(* What is held, and what becomes of an id *)

ChaptersOf(s) ==
  (IF rows[s] = Unset THEN {} ELSE rows[s].known \cup {rows[s].last})
    \cup {c \in Cid : <<s, c>> \in saved \cup feed \/ progress[<<s, c>>] # Unset}
    \cup (IF log[s] = Unset THEN {} ELSE {log[s].last})
Referenced(s) == ChaptersOf(s) # {} \/ s \in group

\* The series the library holds anything under, and their chapters.
libraryIdReferences ==
  {<<s, (ChaptersOf(s) \cup IF docs["chapters"][s] = Unset THEN {} ELSE docs["chapters"][s].ids) \ {Unset}>> :
     s \in {x \in Sid : Referenced(x)}}

\* With those of the downloads.
idReferences ==
  LET held == {r[1] : r \in libraryIdReferences}
      kept(s) == {c \in Cid : downloads[<<s, c>>] # Unset}
  IN {<<r[1], r[2] \cup kept(r[1])>> : r \in libraryIdReferences}
       \cup {<<s, kept(s)>> : s \in {x \in Sid : x \notin held /\ kept(x) # {}}}

Touched == {s \in Sid : run.moves[s] # Unset}
seriesTo(s) == IF s \in Touched THEN to.series[s] ELSE s
chapterTo(s, c) == IF s \in Touched /\ c \in run.moves[s] THEN to.chapter[s][c] ELSE c
MoveTo(p) == <<seriesTo(p[1]), chapterTo(p[1], p[2])>>
InPlace(s) == seriesTo(s) = s

------------------------------------------------------------------------------
(* Moves of the library.  `Put` and `Drop` give the variables after either half. *)

Later(a, b) == IF a.at > b.at THEN a ELSE b

\* The later read wins, the chapter lists join.
mergeMoved(there, moved) ==
  [last |-> Later(moved, there).last, at |-> Later(moved, there).at,
   known |-> there.known \cup moved.known, grouped |-> there.grouped \/ moved.grouped]

\* Mutant: the newer of two records stands.
TakesTheNewer(a, b) == IF a.at <= b.at THEN b ELSE a

\* Two records of a chapter become one, forward only.
mergeProgress(a, b) ==
  [read |-> a.read \/ b.read, page |-> Max({a.page, b.page}), at |-> Max({a.at, b.at})]

moveItem(s) ==
  [rows[s] EXCEPT !.known = {chapterTo(s, c) : c \in @},
                  !.last = IF @ = Unset THEN Unset ELSE chapterTo(s, @)]

putItems(s) ==
  LET ns == seriesTo(s) IN
  /\ rows' = IF rows[s] = Unset THEN rows
             ELSE [rows EXCEPT ![ns] = IF ns = s \/ @ = Unset THEN moveItem(s) ELSE mergeMoved(@, moveItem(s))]
  /\ saved' = saved \cup {MoveTo(p) : p \in {q \in saved : q[1] = s}}
  /\ UNCHANGED <<progress, docs, links, log, feed, group>>

dropItems(s) ==
  /\ rows' = IF InPlace(s) THEN rows ELSE [rows EXCEPT ![s] = Unset]
  /\ saved' = {p \in saved : p[1] # s \/ MoveTo(p) = p}
  /\ UNCHANGED <<progress, docs, links, log, feed, group>>

\* Each record of the progress that was read moves in a step of its own; `seen` is what was read of
\* the old and the new series, and what has been put since.
putProgress(s) ==
  \E c \in {d \in Cid : <<s, d>> \notin run.dropped /\ run.seen[<<s, d>>] # Unset /\ MoveTo(<<s, d>>) # <<s, d>>} :
    LET p == <<s, c>>
        q == MoveTo(p)
        moved == IF run.seen[q] = Unset THEN run.seen[p] ELSE mergeProgress(run.seen[q], run.seen[p])
    IN /\ progress' = [progress EXCEPT ![q] = moved]
       /\ run' = [run EXCEPT !.seen[q] = moved, !.dropped = @ \cup {p}]

dropProgress(s) ==
  progress' = [p \in Place |->
    IF p[1] = s /\ (~InPlace(s) \/ p \in run.dropped) THEN Unset ELSE progress[p]]

\* The newer of two cached documents stands.
putDocs(kind, s) ==
  LET doc == docs[kind][s]
      moved == [doc EXCEPT !.ids = {chapterTo(s, c) : c \in @}]
      there == docs[kind][seriesTo(s)]
  IN docs' = IF doc = Unset THEN docs
             ELSE IF InPlace(s) \/ there = Unset \/ there.at < doc.at
             THEN [docs EXCEPT ![kind][seriesTo(s)] = moved] ELSE docs
dropDocs(kind, s) == docs' = IF InPlace(s) THEN docs ELSE [docs EXCEPT ![kind][s] = Unset]

moveTrackerLinks(s) == links' = [links EXCEPT ![seriesTo(s)] = @ \cup links[s]]
dropTrackerLinks(s) == links' = IF InPlace(s) THEN links ELSE [links EXCEPT ![s] = {}]

putLog(s) ==
  LET moved == [log[s] EXCEPT !.last = chapterTo(s, @)] IN
  log' = IF log[s] = Unset THEN log
         ELSE [log EXCEPT ![seriesTo(s)] = IF InPlace(s) \/ @ = Unset \/ @.at < moved.at THEN moved ELSE @]
dropLog(s) == log' = IF InPlace(s) THEN log ELSE [log EXCEPT ![s] = Unset]

putFeed == feed' = feed \cup {MoveTo(p) : p \in feed}
dropFeed == feed' = {p \in feed : MoveTo(p) = p}

\* Two members may have become one series: a group of one is none.
moveGroup ==
  LET members == {seriesTo(s) : s \in group} IN
  /\ group' = IF Cardinality(members) >= 2 THEN members ELSE {}
  /\ rows' = IF Cardinality(members) >= 2 THEN rows
             ELSE [s \in Sid |-> IF s \in members /\ rows[s] # Unset
                                 THEN [rows[s] EXCEPT !.grouped = FALSE] ELSE rows[s]]

------------------------------------------------------------------------------
(* Moves of the downloads *)

Put(p, worse) ==
  LET q == MoveTo(p)
      there == downloads[q]
      spare == IF worse THEN downloads[p].files ELSE IF there # Unset THEN there.files ELSE {}
  IN /\ downloads' = IF worse THEN downloads ELSE [downloads EXCEPT ![q] = downloads[p]]
     /\ run' = [run EXCEPT !.phase = "drop", !.dropped = @ \cup spare]
Done(chapter) == Cardinality(chapter.files)

\* The copy with more pages is kept; the files of the other are removed when all have moved.
putChapter(p) ==
  LET there == downloads[MoveTo(p)] IN Put(p, there # Unset /\ Done(there) >= Done(downloads[p]))
dropChapter(p) == downloads' = [downloads EXCEPT ![p] = Unset]

------------------------------------------------------------------------------
(* A run *)

Step(kind, s) == [kind |-> kind, of |-> s]
ForEach(kinds, S) ==
  FoldLeft(LAMBDA acc, s : acc \o [i \in 1..Len(kinds) |-> Step(kinds[i], s)], <<>>, SetToSeq(S))

\* The order of remapLibraryIds, then remapDownloadIds.
Agenda(touched) ==
  ForEach(<<"items", "progress", "detail", "links", "chapters">>, touched)
    \o ForEach(<<"log">>, touched) \o <<Step("feed", Unset), Step("group", Unset)>>
    \o ForEach(<<"downloads">>, touched) \o <<Step("blobs", Unset)>>

On(kind) == run.phase \in {"read", "put", "drop"} /\ run.agenda # <<>> /\ Head(run.agenda).kind = kind
Of == Head(run.agenda).of
KeepsDropped(agenda) == agenda # <<>> /\ Head(agenda).kind \in {"chapter", "blobs", "downloads"}
FirstPhase(agenda) ==
  IF agenda = <<>> THEN "mark" ELSE IF Head(agenda).kind = "progress" THEN "read" ELSE "put"
Begin(agenda, r) ==
  [r EXCEPT !.agenda = agenda, !.seen = Unset, !.phase = FirstPhase(agenda),
            !.dropped = IF KeepsDropped(agenda) THEN @ ELSE {}]
Advance == run' = Begin(Tail(run.agenda), run)
Dropping == run' = [run EXCEPT !.phase = "drop"]
Halves(put, drop) == \/ run.phase = "put" /\ put /\ Dropping
                     \/ run.phase = "drop" /\ drop /\ Advance

moveItems == On("items") /\ Halves(putItems(Of), dropItems(Of))

moveProgress ==
  /\ On("progress")
  /\ \/ /\ run.phase = "read"
        /\ run' = [run EXCEPT !.phase = "put", !.seen = progress]
        /\ UNCHANGED progress
     \/ run.phase = "put" /\ putProgress(Of)
     \/ /\ run.phase = "put" /\ Dropping /\ UNCHANGED progress
        /\ \A c \in Cid : \/ <<Of, c>> \in run.dropped \/ run.seen[<<Of, c>>] = Unset
                          \/ MoveTo(<<Of, c>>) = <<Of, c>>
     \/ run.phase = "drop" /\ dropProgress(Of) /\ Advance
  /\ UNCHANGED <<rows, saved, docs, links, log, feed, group>>

moveTheRest ==
  \/ /\ \E kind \in {"detail", "chapters"} : On(kind) /\ Halves(putDocs(kind, Of), dropDocs(kind, Of))
     /\ UNCHANGED <<rows, saved, progress, links, log, feed, group>>
  \/ /\ On("links") /\ Halves(moveTrackerLinks(Of), dropTrackerLinks(Of))
     /\ UNCHANGED <<rows, saved, progress, docs, log, feed, group>>
  \/ /\ On("log") /\ Halves(putLog(Of), dropLog(Of))
     /\ UNCHANGED <<rows, saved, progress, docs, links, feed, group>>
  \/ /\ On("feed") /\ Halves(putFeed, dropFeed)
     /\ UNCHANGED <<rows, saved, progress, docs, links, log, group>>
  \/ /\ On("group") /\ moveGroup /\ Advance
     /\ UNCHANGED <<saved, progress, docs, links, log, feed>>

remapLibraryIds == (moveItems \/ moveProgress \/ moveTheRest) /\ UNCHANGED offline

\* A chapter that is being downloaded stays, and the run will have to be repeated.
remapDownloadIds ==
  /\ UNCHANGED records
  /\ \/ /\ On("downloads")
        /\ LET mine == {p \in Place : p[1] = Of /\ downloads[p] # Unset /\ MoveTo(p) # p}
               busy == {p \in mine : downloads[p].state = "downloading"}
           IN run' = Begin(ForEach(<<"chapter">>, mine \ busy) \o Tail(run.agenda),
                           [run EXCEPT !.complete = @ /\ busy = {}])
        /\ UNCHANGED offline
     \/ /\ On("chapter") /\ UNCHANGED blobs
        /\ \/ run.phase = "put" /\ putChapter(Of)
           \/ run.phase = "drop" /\ dropChapter(Of) /\ Advance
     \/ On("blobs") /\ blobs' = blobs \ run.dropped /\ UNCHANGED downloads /\ Advance

\* The first get of the bridge, and the first after a restore or a restart, begins a run.
Get ==
  /\ Resting /\ settled # restores
  /\ IF mark THEN settled' = restores /\ run' = AtRest /\ UNCHANGED mark
     ELSE IF idReferences = {} THEN settled' = restores /\ mark' = TRUE /\ run' = AtRest
     ELSE run' = [AtRest EXCEPT !.phase = "ask", !.refs = idReferences, !.at = restores] /\ UNCHANGED <<settled, mark>>
  /\ did' = [did EXCEPT !.updated = TRUE]
  /\ UNCHANGED <<to, records, offline, restores, remaining>>

\* One batch: the bridge names some series it cannot translate now, or throws and ends the run.
Answered(r) == {c \in r[2] : to.chapter[r[1]][c] # c}
migrateIds ==
  /\ run.phase = "ask" /\ run.refs # {}
  /\ \E batch \in SUBSET run.refs :
       /\ Cardinality(batch) = Min({batchSize, Cardinality(run.refs)})
       /\ \/ /\ UNCHANGED <<remaining, settled>>
             /\ run' = [run EXCEPT !.refs = @ \ batch, !.moves = [s \in Sid |->
                   IF \E r \in batch : r[1] = s /\ (to.series[s] # s \/ Answered(r) # {})
                   THEN Answered(CHOOSE r \in batch : r[1] = s) ELSE @[s]]]
          \/ /\ Uses("fail") /\ UNCHANGED settled
             /\ \E no \in batch :
                  run' = [run EXCEPT !.refs = @ \ batch, !.complete = FALSE, !.moves = [s \in Sid |->
                    IF \E r \in batch \ {no} : r[1] = s /\ (to.series[s] # s \/ Answered(r) # {})
                    THEN Answered(CHOOSE r \in batch : r[1] = s) ELSE @[s]]]
          \/ Uses("fail") /\ run' = AtRest /\ settled' = run.at
  /\ UNCHANGED <<to, records, offline, mark, restores, did>>

Ask == run.phase = "ask" /\ run.refs = {}
       /\ run' = Begin(IF Touched = {} THEN <<>> ELSE Agenda(Touched), run)
       /\ UNCHANGED <<to, records, offline, mark, settled, restores, did, remaining>>

Move == (remapLibraryIds \/ remapDownloadIds) /\ UNCHANGED <<to, mark, settled, restores, did, remaining>>

setIdMigrationMark ==
  /\ run.phase = "mark"
  /\ mark' = (mark \/ run.complete) /\ settled' = run.at /\ run' = AtRest
  /\ UNCHANGED <<to, records, offline, restores, did, remaining>>

\* The app stops; in the middle of a move only where the scenario has it.
StopApp ==
  /\ IF On("chapter") /\ run.phase = "drop" THEN Uses("midmove") ELSE Uses("crash")
  /\ run' = AtRest /\ settled' = Unset
  /\ UNCHANGED <<to, records, offline, mark, restores, did>>

\* The bridge is invalidated, or the list of bridges refreshed: the next get looks again.
invalidate ==
  /\ settled' = Unset /\ settled # Unset
  /\ UNCHANGED <<to, records, offline, mark, run, restores, did, remaining>>

------------------------------------------------------------------------------
(* What goes on beside it *)

\* Old ids are used until they have been moved.
Usable(p) == mark => ~OnOldId(p)
Did(p) == did' = [did EXCEPT !.clock = @ + 1, !.last[Now(p)[1]] = [ch |-> Now(p)[2], at |-> Clock + 1]]

\* The user reads a chapter, or a part of it.
markRead(p, read) ==
  /\ Free /\ Usable(p) /\ Uses("read")
  /\ LET old == progress[p] IN
     progress' = [progress EXCEPT ![p] =
       [read |-> read \/ (old # Unset /\ old.read), page |-> IF read THEN 1 ELSE 0, at |-> Clock + 1]]
  /\ rows' = IF rows[p[1]] = Unset THEN rows ELSE [rows EXCEPT ![p[1]].last = p[2], ![p[1]].at = Clock + 1]
  /\ log' = IF rows[p[1]] # Unset THEN log ELSE [log EXCEPT ![p[1]] = [last |-> p[2], at |-> Clock + 1]]
  /\ did' = [did EXCEPT !.clock = @ + 1, !.read = IF read THEN @ \cup {Now(p)} ELSE @,
              !.last[Now(p)[1]] = [ch |-> Now(p)[2], at |-> Clock + 1]]
  /\ UNCHANGED <<to, saved, docs, links, feed, group, offline, mark, settled, run, restores>>

\* The user collects a series, whose chapters are then listed; saves one; links it; groups it.
File(s) ==
  /\ Free /\ Uses("file")
  /\ \/ /\ rows[s] = Unset /\ \A c \in Cid : to.chapter[s][c] # c => Usable(<<s, c>>)
        /\ \E known \in {{c \in Cid : to.chapter[s][c] # c}, {c \in Cid : to.chapter[s][c] = c}} :
             /\ \A c \in known : Usable(<<s, c>>)
             /\ rows' = [rows EXCEPT ![s] = [last |-> IF log[s] = Unset THEN Unset ELSE log[s].last,
                          at |-> IF log[s] = Unset THEN 0 ELSE log[s].at, known |-> known, grouped |-> FALSE]]
             /\ docs' = [kind \in DOMAIN docs |->
                  [docs[kind] EXCEPT ![s] = [at |-> Clock, ids |-> IF kind = "chapters" THEN known ELSE {}]]]
             /\ feed' = feed \cup {<<s, c>> : c \in known}
        /\ log' = [log EXCEPT ![s] = Unset] /\ UNCHANGED <<saved, links, group>>
     \/ /\ \E c \in Cid : Usable(<<s, c>>) /\ saved' = saved \cup {<<s, c>>}
        /\ UNCHANGED <<rows, docs, log, feed, links, group>>
     \/ /\ rows[s] # Unset /\ links' = [links EXCEPT ![s] = Tracker]
        /\ UNCHANGED <<rows, saved, docs, log, feed, group>>
     \/ /\ group = {}
        /\ \E k \in Sid \ {s} : /\ rows[s] # Unset /\ rows[k] # Unset /\ group' = {s, k}
                                /\ rows' = [rows EXCEPT ![s].grouped = TRUE, ![k].grouped = TRUE]
        /\ UNCHANGED <<saved, docs, log, feed, links>>
  /\ UNCHANGED <<to, progress, offline, mark, settled, run, restores, did>>

\* The engine: a chapter is queued, begun and done.  To begin it asks the bridge for its pages: not
\* during a run, and once the update is in use not under an old id.
Download(p) ==
  /\ \/ /\ Free /\ (did.updated => ~OnOldId(p)) /\ Uses("download") /\ downloads[p] = Unset
        /\ downloads' = [downloads EXCEPT ![p] = [state |-> "queued", files |-> {}]]
        /\ UNCHANGED <<blobs, did>>
     \/ /\ Resting /\ (did.updated => ~OnOldId(p))
        /\ downloads[p] # Unset /\ downloads[p].state = "queued"
        /\ downloads' = [downloads EXCEPT ![p].state = "downloading"]
        /\ UNCHANGED <<blobs, did, remaining>>
     \/ /\ downloads[p] # Unset /\ downloads[p].state = "downloading"
        /\ downloads' = [downloads EXCEPT ![p] = [state |-> "complete", files |-> {p}]]
        /\ blobs' = blobs \cup {p}
        /\ did' = [did EXCEPT !.downloaded = @ \cup {Now(p)}] /\ UNCHANGED remaining
  /\ UNCHANGED <<to, records, mark, settled, run, restores>>

\* A backup with a series that was read under the old ids: its records win, and the place in it with
\* them.  Every bridge is looked at again.
restoreBackup ==
  /\ Free /\ Uses("restore")
  /\ \E p \in Place :
       /\ OnOldId(p)
       /\ progress' = [progress EXCEPT ![p] = [read |-> TRUE, page |-> 1, at |-> 0]]
       /\ rows' = [rows EXCEPT ![p[1]] = [last |-> p[2], at |-> 0, known |-> {p[2]}, grouped |-> FALSE]]
       /\ log' = [log EXCEPT ![p[1]] = Unset]
       /\ did' = [did EXCEPT !.read = @ \cup {Now(p)}, !.last[Now(p)[1]] = Unset]
  /\ mark' = FALSE /\ restores' = restores + 1
  /\ UNCHANGED <<to, saved, docs, links, feed, group, offline, settled, run>>

------------------------------------------------------------------------------
Nothing == [s \in Sid |-> Unset]

MigrationInit ==
  /\ to \in Answers
  /\ rows = Nothing /\ saved = {} /\ progress = [p \in Place |-> Unset]
  /\ docs = [kind \in {"detail", "chapters"} |-> Nothing]
  /\ links = [s \in Sid |-> {}] /\ log = Nothing /\ feed = {} /\ group = {}
  /\ downloads = [p \in Place |-> Unset] /\ blobs = {}
  /\ mark = FALSE /\ settled = Unset /\ run = AtRest /\ restores = 0
  /\ did = [read |-> {}, downloaded |-> {}, updated |-> FALSE, clock |-> 0, last |-> Nothing]
  /\ remaining \in Histories

MigrationNext ==
  \/ \E p \in Place : (\E read \in BOOLEAN : markRead(p, read)) \/ Download(p)
  \/ \E s \in Sid : File(s)
  \/ restoreBackup \/ Get \/ migrateIds \/ Ask \/ Move \/ setIdMigrationMark \/ StopApp \/ invalidate

MigrationSpec == MigrationInit /\ [][MigrationNext]_migrationVars

------------------------------------------------------------------------------
\* What the user read stays read, under the old id or the new, wherever a run is stopped and however
\* often it is run again (mergeProgress, moveProgress: "nothing the user did is dropped").
ReadKept ==
  \A q \in did.read : \E p \in Place : Now(p) = q /\ progress[p] # Unset /\ progress[p].read

\* So does the place where the user was last: it is on a row or in the log (mergeMoved).
ResumeKept ==
  \A n \in Sid : did.last[n] # Unset =>
    \E s \in Sid : /\ to.series[s] = n
                   /\ \/ rows[s] # Unset /\ rows[s].at = did.last[n].at /\ Now(<<s, rows[s].last>>)[2] = did.last[n].ch
                      \/ log[s] # Unset /\ log[s].at = did.last[n].at /\ Now(<<s, log[s].last>>)[2] = did.last[n].ch

\* Once the migration is recorded as done nothing is left on an old id: no series failed, no chapter
\* was being downloaded, no backup came after (setIdMigrationMark, "never mistaken for finished").
MarkedMeansMoved ==
  mark => /\ \A s \in Sid : rows[s] # Unset \/ log[s] # Unset \/ s \in group \/ links[s] # {} => to.series[s] = s
          /\ \A p \in Place : progress[p] # Unset \/ downloads[p] # Unset \/ p \in saved \cup feed => ~OnOldId(p)
          /\ \A s \in Sid : rows[s] # Unset => \A c \in rows[s].known \cup ({rows[s].last} \ {Unset}) : ~OnOldId(<<s, c>>)

\* A chapter that was downloaded still is, with its pages on disk (moveChapter).
DownloadsKept ==
  \A q \in did.downloaded : \E p \in Place :
    Now(p) = q /\ downloads[p] # Unset /\ downloads[p].files # {} /\ downloads[p].files \subseteq blobs

\* All of these: an id that changes costs the user nothing.
RecordsKept == ReadKept /\ ResumeKept /\ MarkedMeansMoved /\ DownloadsKept
=============================================================================
