---------------------------- MODULE DownloadEngine ----------------------------
(***************************************************************************)
(* The download engine of one series of one bridge (engine.ts) and the     *)
(* manifest it keeps in a store (downloads.ts): chapters, their pages, and *)
(* the files of pages.  One drain loop at a time takes the chapters that   *)
(* are pending, resolves the page list of one that has none, and fetches   *)
(* its missing pages; meanwhile the user enqueues, pauses, resumes,        *)
(* retries and deletes.                                                    *)
(*                                                                         *)
(* A step ends at each await of something outside the process: a fetch, a  *)
(* file, the gate, a timer, or a write to the store.  Reads of the store   *)
(* belong to the step that uses them (a host's store caches its documents, *)
(* downloads-store.ts), so every write may land between two of another     *)
(* call.  A write is durable when it is made: each caller awaits it before *)
(* its next, so a stop that loses one is a stop before it.                 *)
(*                                                                         *)
(* The calls resume and retry name a chapter that is there.  Not covered:  *)
(* partial chapters (`onlyPages`), enqueues that bring their page list or  *)
(* come in bulk, more than one worker, page budgets, id migrations, and    *)
(* deleting a series or everything at once.                                *)
(***************************************************************************)
EXTENDS Integers, FiniteSetsExt

CONSTANTS
  Chapter,     \* the chapters of the series
  PagesOf,     \* chapter -> its page indexes at the source
  None,        \* nothing
  Attempts,    \* attemptsPerPage
  Overlap,     \* may calls overlap a resolution's writes, and deletes the other calls?
  ShortHolds,  \* may a rate limit's hold end while the loop is still running?
  Budget,      \* bound: how many of each kind of event happen
  MaxEvents    \* bound: and of all of them

Event == {"call", "fault", "flap", "stop", "crash"}
Page == UNION {PagesOf[c] : c \in Chapter}
NoChapter == [state |-> "absent", resolved |-> TRUE]
ChapterState == {"queued", "downloading", "complete", "failed", "paused"}
ChapterRow == [state : ChapterState, resolved : BOOLEAN] \cup {NoChapter}

\* The calls that are several steps: an enqueue, a delete, a pause or resume of the series.
EnqueueCall == [at : {"row", "state", "flag"}, chapter : Chapter, state : ChapterState]
DeleteCall == [at : {"row", "files"}, chapter : Chapter, files : SUBSET Page]
BulkCall == [to : {"paused", "queued"}, rows : UNION {[S -> ChapterRow] : S \in SUBSET Chapter}]

ASSUME DownloadAssumption ==
  /\ PagesOf \in [Chapter -> SUBSET Nat]
  /\ Attempts \in Nat \ {0}
  /\ Budget \in [Event -> Nat]
  /\ None \notin Chapter \cup ChapterRow \cup EnqueueCall \cup DeleteCall \cup BulkCall

VARIABLES
  series,     \* has the store a row for the series?
  chapter,    \* chapter -> its row
  page,       \* chapter -> page -> the state of its row
  file,       \* the <<chapter, page>> pairs that have bytes on disk
  pc,         \* where the drain loop is; "off" when there is none
  todo,       \* the pass's chapters still to take, each with `resolved` as it was listed
  cur,        \* the chapter being downloaded
  copy,       \* its row as resolveChapterPages read it
  kept,       \* and its pages that were complete then
  queue,      \* pages still to write rows for, or to fetch
  attempt, landed, progressed,
  rekick, stopRequested, cancelled, cancelledSeries,
  blocked,    \* is the bridge held?
  idleTimer, unblockTimer,
  enq, del, bulk,  \* an enqueue, a delete, a pause or resume of the series under way
  kickDue,    \* a call has made its writes and has still to kick
  gate,       \* what mayDownload answers
  recheck,    \* does this host gate and recheck (a device), or neither (a server)?
  spent       \* event -> how many have happened

stored == <<series, chapter, page, file>>
loop == <<pc, todo, cur, copy, kept, queue, attempt, landed, progressed>>
control == <<rekick, stopRequested, idleTimer, unblockTimer>>
flags == <<cancelled, cancelledSeries>>
calls == <<enq, del, bulk, kickDue>>
host == <<gate, recheck>>
vars == <<stored, loop, control, flags, blocked, calls, host, spent>>

\* A host at boot, which kicks the engine: some chapters await their first download, and
\* memory holds nothing.
Init ==
  /\ chapter \in [Chapter -> {NoChapter, [state |-> "queued", resolved |-> FALSE]}]
  /\ series = (\E c \in Chapter : chapter[c] # NoChapter)
  /\ page = [c \in Chapter |-> [p \in Page |-> "absent"]]
  /\ file = {}
  /\ pc = "off" /\ todo = <<>> /\ cur = None /\ copy = None /\ kept = {} /\ queue = {}
  /\ attempt = 0 /\ landed = FALSE /\ progressed = FALSE
  /\ rekick = FALSE /\ stopRequested = FALSE /\ idleTimer = FALSE /\ unblockTimer = "none"
  /\ cancelled = {} /\ cancelledSeries = FALSE /\ blocked = FALSE
  /\ enq = None /\ del = None /\ bulk = None
  /\ kickDue = TRUE
  /\ gate = TRUE
  /\ recheck \in BOOLEAN
  /\ spent = [e \in Event |-> 0]

\* One more event of a kind.
Events == MapThenSumSet(LAMBDA x : spent[x], Event)
Spend(e) ==
  /\ spent[e] < Budget[e] /\ Events < MaxEvents
  /\ spent' = [spent EXCEPT ![e] = @ + 1]

-----------------------------------------------------------------------------
(***************************************************************************)
(* The manifest.                                                           *)
(***************************************************************************)
Known(c) == chapter[c] # NoChapter
Rows(c) == {p \in Page : page[c][p] # "absent"}
Outstanding(c) == {p \in Rows(c) : page[c][p] # "complete"}

\* deriveChapterState: what the page rows say of their chapter.
Derived(rows) ==
  LET states == {rows[p] : p \in Page} \ {"absent"}
  IN  IF states = {} THEN "queued"
      ELSE IF states = {"complete"} THEN "complete"
      ELSE IF "failed" \in states THEN "failed"
      ELSE IF "complete" \in states THEN "downloading"
      ELSE "queued"

\* Mutant: the rows alone decide.
RecomputedFromRows(c, rows) ==
  LET derived == Derived(rows)
  IN  IF chapter[c].state = "paused" /\ derived # "complete" THEN "paused" ELSE derived

\* recomputeChapter: rows cannot prove an unresolved chapter complete, and a pause survives
\* until all is.
Recomputed(c, rows) ==
  LET derived == IF Derived(rows) = "complete" /\ ~chapter[c].resolved THEN "queued" ELSE Derived(rows)
  IN  IF chapter[c].state = "paused" /\ derived # "complete" THEN "paused" ELSE derived

PutState(c, s) == chapter' = [chapter EXCEPT ![c].state = s]
PutPage(c, p, s) == page' = [page EXCEPT ![c][p] = s]

Marked(c) == IF chapter[c].state \in {"queued", "failed"} THEN "downloading" ELSE chapter[c].state
Paused(c) == IF chapter[c].state = "complete" THEN "complete" ELSE "paused"
Resumed(c) == IF chapter[c].state = "paused" THEN "queued" ELSE chapter[c].state

\* pendingChapters: what is listed under a series the store knows, and still needs work.
Pending == {c \in Chapter : series /\ chapter[c].state \in {"queued", "downloading"}}

\* No resolution is between reading the chapter and writing it.
Free(c) == Overlap \/ ~(pc = "rows" /\ cur = c)

IsCancelled(c) == cancelledSeries \/ c \in cancelled

-----------------------------------------------------------------------------
(***************************************************************************)
(* Starting and stopping the loop.                                         *)
(***************************************************************************)
\* drain(): join the running loop and ask it for one more pass, or start one.
Drain ==
  IF pc # "off"
  THEN rekick' = TRUE /\ UNCHANGED <<loop, stopRequested, idleTimer>>
  ELSE /\ pc' = "top"
       /\ rekick' = FALSE /\ stopRequested' = FALSE /\ idleTimer' = FALSE
       /\ UNCHANGED <<todo, cur, copy, kept, queue, attempt, landed, progressed>>

\* A call, or the host at boot, kicks.
Kick ==
  /\ kickDue
  /\ kickDue' = FALSE
  /\ Drain
  /\ UNCHANGED <<stored, unblockTimer, flags, blocked, enq, del, bulk, host, spent>>

Stop ==
  /\ Spend("stop")
  /\ stopRequested' = TRUE /\ idleTimer' = FALSE /\ unblockTimer' = "none"
  /\ UNCHANGED <<stored, loop, rekick, flags, blocked, calls, host>>

IdleFires ==
  /\ idleTimer
  /\ IF pc = "off" /\ ~stopRequested /\ Pending # {}
     THEN Drain
     ELSE idleTimer' = FALSE /\ UNCHANGED <<loop, rekick, stopRequested>>
  /\ UNCHANGED <<stored, unblockTimer, flags, blocked, calls, host, spent>>

\* The time of the hold passes, and with it that of the timer set for its end.
HoldEnds ==
  /\ blocked
  /\ ShortHolds \/ recheck \/ pc = "off"
  /\ blocked' = FALSE
  /\ unblockTimer' = IF unblockTimer = "armed" THEN "due" ELSE unblockTimer
  /\ UNCHANGED <<stored, loop, rekick, stopRequested, idleTimer, flags, calls, host, spent>>

UnblockFires ==
  /\ unblockTimer = "due"
  /\ unblockTimer' = "none"
  /\ IF stopRequested THEN UNCHANGED <<loop, rekick, stopRequested, idleTimer>> ELSE Drain
  /\ UNCHANGED <<stored, flags, blocked, calls, host, spent>>

GateFlips ==
  /\ recheck /\ Spend("flap")
  /\ gate' = ~gate
  /\ UNCHANGED <<stored, loop, control, flags, blocked, calls, recheck>>

\* The process stops and starts again: only the store and the files are left.
Crash ==
  /\ Spend("crash")
  /\ pc' = "off" /\ todo' = <<>> /\ cur' = None /\ copy' = None /\ kept' = {} /\ queue' = {}
  /\ attempt' = 0 /\ landed' = FALSE /\ progressed' = FALSE
  /\ rekick' = FALSE /\ stopRequested' = FALSE /\ idleTimer' = FALSE /\ unblockTimer' = "none"
  /\ cancelled' = {} /\ cancelledSeries' = FALSE /\ blocked' = FALSE
  /\ enq' = None /\ del' = None /\ bulk' = None
  /\ kickDue' = TRUE
  /\ UNCHANGED <<stored, host>>

-----------------------------------------------------------------------------
(***************************************************************************)
(* The drain loop.                                                         *)
(***************************************************************************)
\* Done with a chapter, on to the next.
Leave(did) ==
  /\ pc' = "next" /\ progressed' = (progressed \/ did)
  /\ cur' = None /\ copy' = None /\ kept' = {} /\ queue' = {} /\ attempt' = 0 /\ landed' = FALSE
  /\ UNCHANGED todo

InLoop == UNCHANGED <<control, flags, calls, host>>

\* A pass begins: stopped, gated or empty ends the loop.
Top ==
  /\ pc = "top"
  /\ IF stopRequested \/ ~gate \/ Pending = {}
     THEN pc' = "exit" /\ todo' = <<>>
     ELSE pc' = "next" /\ todo' = [c \in Pending |-> chapter[c].resolved]
  /\ progressed' = FALSE
  /\ InLoop /\ UNCHANGED <<stored, cur, copy, kept, queue, attempt, landed, blocked, spent>>

\* The pass is over; one that advanced nothing is the last.
EndPass ==
  /\ pc = "next"
  /\ DOMAIN todo = {} \/ stopRequested \/ ~gate
  /\ pc' = IF progressed THEN "top" ELSE "exit"
  /\ todo' = <<>> /\ progressed' = FALSE
  /\ InLoop /\ UNCHANGED <<stored, cur, copy, kept, queue, attempt, landed, blocked, spent>>

\* The next chapter of the pass.  One unresolved when it was listed is marked, and its
\* resolution starts, unless it has gone; the others go on to their pages.
TakeChapter ==
  /\ pc = "next" /\ ~stopRequested /\ gate
  /\ \E c \in DOMAIN todo :
       /\ todo' = [x \in DOMAIN todo \ {c} |-> todo[x]]
       /\ IF IsCancelled(c) \/ blocked \/ (~todo[c] /\ ~Known(c))
          THEN UNCHANGED <<pc, cur, chapter>>
          ELSE /\ cur' = c
               /\ IF todo[c]
                  THEN pc' = "pages" /\ UNCHANGED chapter
                  ELSE pc' = "resolve" /\ PutState(c, Marked(c))
  /\ InLoop
  /\ UNCHANGED <<series, page, file, copy, kept, queue, attempt, landed, progressed, blocked, spent>>

\* The page list has come: resolveChapterPages reads the chapter and its rows.
Resolve ==
  /\ pc = "resolve"
  /\ Overlap \/ del = None
  /\ IF Known(cur)
     THEN /\ pc' = "rows" /\ copy' = chapter[cur] /\ queue' = PagesOf[cur]
          /\ kept' = {p \in Page : page[cur][p] = "complete"}
          /\ UNCHANGED <<todo, cur, attempt, landed, progressed>>
     ELSE Leave(FALSE)
  /\ InLoop /\ UNCHANGED <<stored, blocked, spent>>

\* The page list could not be had: failChapter, or a hold that leaves the chapter pending.
ResolveFails ==
  /\ pc = "resolve" /\ Spend("fault")
  /\ IF Known(cur) THEN PutState(cur, "failed") ELSE UNCHANGED chapter
  /\ Leave(FALSE)
  /\ InLoop /\ UNCHANGED <<series, page, file, blocked>>

ResolveLimited ==
  /\ pc = "resolve" /\ Spend("fault")
  /\ blocked' = TRUE
  /\ Leave(FALSE)
  /\ InLoop /\ UNCHANGED stored

\* writePages, one row at a time; a page complete when they were read keeps its file.
WriteRow ==
  /\ pc = "rows" /\ queue # {}
  /\ LET p == Min(queue)
     IN  /\ PutPage(cur, p, IF p \in kept THEN "complete" ELSE "queued")
         /\ queue' = queue \ {p}
  /\ InLoop
  /\ UNCHANGED <<series, chapter, file, pc, todo, cur, copy, kept, attempt, landed, progressed,
                 blocked, spent>>

\* Then the chapter as it was read, resolved.
WriteResolved ==
  /\ pc = "rows" /\ queue = {}
  /\ chapter' = [chapter EXCEPT ![cur] = [copy EXCEPT !.resolved = TRUE]]
  /\ pc' = "resolved"
  /\ InLoop
  /\ UNCHANGED <<series, page, file, todo, cur, copy, kept, queue, attempt, landed, progressed,
                 blocked, spent>>

Resolved ==
  /\ pc = "resolved"
  /\ IF Known(cur)
     THEN /\ PutState(cur, Recomputed(cur, page[cur]))
          /\ pc' = "pages" /\ copy' = None /\ kept' = {}
          /\ UNCHANGED <<todo, cur, queue, attempt, landed, progressed>>
     ELSE Leave(FALSE) /\ UNCHANGED chapter
  /\ InLoop /\ UNCHANGED <<series, page, file, blocked, spent>>

\* The pages still to fetch.  None: nothing is written, whatever the chapter's state.
ReadPages ==
  /\ pc = "pages"
  /\ IF Outstanding(cur) = {} \/ ~Known(cur)
     THEN Leave(FALSE) /\ UNCHANGED chapter
     ELSE /\ PutState(cur, Marked(cur))
          /\ queue' = Outstanding(cur) /\ pc' = "worker"
          /\ UNCHANGED <<todo, cur, copy, kept, attempt, landed, progressed>>
  /\ InLoop /\ UNCHANGED <<series, page, file, blocked, spent>>

\* The worker, between pages.
NextPage ==
  /\ pc = "worker"
  /\ IF stopRequested \/ IsCancelled(cur) \/ blocked \/ queue = {}
     THEN Leave(landed)
     ELSE /\ pc' = "fetch" /\ attempt' = 1
          /\ UNCHANGED <<todo, cur, copy, kept, queue, landed, progressed>>
  /\ InLoop /\ UNCHANGED <<stored, blocked, spent>>

\* The bytes have come and are on disk.
WriteFile ==
  /\ pc = "fetch"
  /\ file' = file \cup {<<cur, Min(queue)>>}
  /\ pc' = "file"
  /\ InLoop
  /\ UNCHANGED <<series, chapter, page, todo, cur, copy, kept, queue, attempt, landed, progressed,
                 blocked, spent>>

\* An attempt is spent: another, or failPage, unless the chapter has been cancelled.
AttemptFails ==
  LET p == Min(queue)
  IN  IF attempt < Attempts
      THEN /\ UNCHANGED page
           /\ IF IsCancelled(cur) THEN Leave(landed)
              ELSE /\ pc' = "fetch" /\ attempt' = attempt + 1
                   /\ UNCHANGED <<todo, cur, copy, kept, queue, landed, progressed>>
      ELSE /\ queue' = queue \ {p} /\ attempt' = 0
           /\ IF IsCancelled(cur) \/ ~Known(cur)
              THEN pc' = "worker" /\ UNCHANGED page
              ELSE /\ pc' = "failed"
                   /\ IF p \in Rows(cur) THEN PutPage(cur, p, "failed") ELSE UNCHANGED page
           /\ UNCHANGED <<todo, cur, copy, kept, landed, progressed>>

FetchFails ==
  /\ pc = "fetch" /\ Spend("fault")
  /\ AttemptFails
  /\ InLoop /\ UNCHANGED <<series, chapter, file, blocked>>

FetchLimited ==
  /\ pc = "fetch" /\ Spend("fault")
  /\ blocked' = TRUE
  /\ Leave(landed)
  /\ InLoop /\ UNCHANGED stored

\* recordPage: the page's row, if it and the chapter are still there, and then the chapter's.
RecordPage ==
  /\ pc = "file"
  /\ IF Known(cur) /\ Min(queue) \in Rows(cur)
     THEN /\ PutPage(cur, Min(queue), "complete")
          /\ pc' = "record"
          /\ UNCHANGED <<todo, cur, copy, kept, queue, attempt, landed, progressed>>
     ELSE AttemptFails
  /\ InLoop /\ UNCHANGED <<series, chapter, file, blocked, spent>>

Recorded ==
  /\ pc = "record"
  /\ IF Known(cur)
     THEN /\ PutState(cur, Recomputed(cur, page[cur]))
          /\ queue' = queue \ {Min(queue)} /\ attempt' = 0 /\ landed' = TRUE /\ pc' = "worker"
          /\ UNCHANGED <<page, todo, cur, copy, kept, progressed>>
     ELSE AttemptFails /\ UNCHANGED chapter
  /\ InLoop /\ UNCHANGED <<series, file, blocked, spent>>

FailRecorded ==
  /\ pc = "failed"
  /\ IF Known(cur) THEN PutState(cur, Recomputed(cur, page[cur])) ELSE UNCHANGED chapter
  /\ pc' = "worker"
  /\ InLoop
  /\ UNCHANGED <<series, page, file, todo, cur, copy, kept, queue, attempt, landed, progressed,
                 blocked, spent>>

\* drainLoop has returned: once more if a kick came while it ran.
ExitLoop ==
  /\ pc = "exit"
  /\ IF rekick /\ ~stopRequested
     THEN pc' = "top" /\ rekick' = FALSE
     ELSE pc' = "finally" /\ UNCHANGED rekick
  /\ UNCHANGED <<stored, todo, cur, copy, kept, queue, attempt, landed, progressed, stopRequested,
                 idleTimer, unblockTimer, flags, blocked, calls, host, spent>>

\* Mutant: a kick in the gap after the loop is dropped.
SettleIgnoringKick ==
  /\ pc = "finally"
  /\ rekick' = IF stopRequested THEN rekick ELSE FALSE
  /\ pc' = "off"
  /\ idleTimer' = (idleTimer \/ (recheck /\ ~stopRequested))
  /\ unblockTimer' = IF blocked /\ ~stopRequested THEN "armed" ELSE "none"
  /\ UNCHANGED <<stored, todo, cur, copy, kept, queue, attempt, landed, progressed, stopRequested,
                 flags, blocked, calls, host, spent>>

\* Mutant: no timer for the end of a hold.
SettleWithoutUnblock ==
  /\ pc = "finally"
  /\ rekick' = IF stopRequested THEN rekick ELSE FALSE
  /\ IF rekick /\ ~stopRequested
     THEN pc' = "top" /\ idleTimer' = FALSE /\ UNCHANGED unblockTimer
     ELSE /\ pc' = "off"
          /\ idleTimer' = (idleTimer \/ (recheck /\ ~stopRequested))
          /\ unblockTimer' = "none"
  /\ UNCHANGED <<stored, todo, cur, copy, kept, queue, attempt, landed, progressed, stopRequested,
                 flags, blocked, calls, host, spent>>

\* The loop is gone: a kick that came since starts another, or the timers are set.
Settle ==
  /\ pc = "finally"
  /\ rekick' = IF stopRequested THEN rekick ELSE FALSE
  /\ IF rekick /\ ~stopRequested
     THEN pc' = "top" /\ idleTimer' = FALSE /\ UNCHANGED unblockTimer
     ELSE /\ pc' = "off"
          /\ idleTimer' = (idleTimer \/ (recheck /\ ~stopRequested))
          /\ unblockTimer' = IF blocked /\ ~stopRequested THEN "armed" ELSE "none"
  /\ UNCHANGED <<stored, todo, cur, copy, kept, queue, attempt, landed, progressed, stopRequested,
                 flags, blocked, calls, host, spent>>

DrainStep ==
  \/ Top \/ EndPass \/ TakeChapter
  \/ Resolve \/ WriteRow \/ WriteResolved \/ Resolved
  \/ ReadPages \/ NextPage \/ WriteFile \/ RecordPage \/ Recorded \/ FailRecorded
  \/ ExitLoop \/ Settle

-----------------------------------------------------------------------------
(***************************************************************************)
(* The user's calls.                                                       *)
(***************************************************************************)
InCall == UNCHANGED <<loop, control, blocked, host>>

\* A lazy enqueue: the series' row, the chapter's, its state, the roll-up; then the flag.
Enqueue(c) ==
  /\ enq = None /\ (Overlap \/ del = None)
  /\ Spend("call")
  /\ cancelled' = cancelled \ {c}
  /\ series' = TRUE
  /\ enq' = [at |-> "row", chapter |-> c, state |-> "queued"]
  /\ InCall /\ UNCHANGED <<chapter, page, file, cancelledSeries, del, bulk, kickDue>>

EnqueueRow ==
  /\ enq # None /\ enq.at = "row" /\ Free(enq.chapter)
  /\ chapter' = [chapter EXCEPT ![enq.chapter] = [state |-> "queued", resolved |-> FALSE]]
  /\ enq' = [enq EXCEPT !.at = "state"]
  /\ InCall /\ UNCHANGED <<series, page, file, flags, del, bulk, kickDue, spent>>

EnqueueState ==
  /\ enq # None /\ enq.at = "state" /\ Free(enq.chapter)
  /\ IF Known(enq.chapter)
     THEN /\ PutState(enq.chapter, Recomputed(enq.chapter, page[enq.chapter]))
          /\ enq' = [enq EXCEPT !.at = "flag", !.state = Recomputed(enq.chapter, page[enq.chapter])]
     ELSE enq' = None /\ UNCHANGED chapter
  /\ InCall /\ UNCHANGED <<series, page, file, flags, del, bulk, kickDue, spent>>

\* One arriving in a series being paused is paused too, if anything else of it is; the kick
\* follows unless the chapter ended up paused.
EnqueueFlag ==
  /\ enq # None /\ enq.at = "flag" /\ Free(enq.chapter)
  /\ LET c == enq.chapter
         held == cancelledSeries /\ enq.state # "complete"
         sibling == \E o \in Chapter \ {c} : chapter[o].state = "paused"
         pause == held /\ sibling /\ Known(c)
         answer == IF pause THEN Paused(c) ELSE enq.state
     IN  /\ IF pause THEN PutState(c, Paused(c)) ELSE UNCHANGED chapter
         /\ cancelledSeries' = (cancelledSeries /\ ~(held /\ ~sibling))
         /\ kickDue' = (kickDue \/ answer # "paused")
  /\ enq' = None
  /\ InCall /\ UNCHANGED <<series, page, file, cancelled, del, bulk, spent>>

\* The flag first, for the worker; a chapter that is not there has it too.
PauseChapter(c) ==
  /\ Free(c) /\ Spend("call")
  /\ cancelled' = cancelled \cup {c}
  /\ IF Known(c) THEN PutState(c, Paused(c)) ELSE UNCHANGED chapter
  /\ InCall /\ UNCHANGED <<series, page, file, cancelledSeries, calls>>

\* resumeChapter, which resumes the series as well.
ResumeChapter(c) ==
  /\ Known(c) /\ Free(c) /\ Spend("call")
  /\ cancelled' = cancelled \ {c} /\ cancelledSeries' = FALSE
  /\ PutState(c, Resumed(c))
  /\ kickDue' = TRUE
  /\ InCall /\ UNCHANGED <<series, page, file, enq, del, bulk>>

\* retryChapter; its writes are taken together.
RetryChapter(c) ==
  /\ Known(c) /\ Free(c) /\ Spend("call")
  /\ cancelled' = cancelled \ {c} /\ cancelledSeries' = FALSE
  /\ LET rows == [p \in Page |-> IF p \in Outstanding(c) THEN "queued" ELSE page[c][p]]
     IN  page' = [page EXCEPT ![c] = rows] /\ PutState(c, Recomputed(c, rows))
  /\ kickDue' = TRUE
  /\ InCall /\ UNCHANGED <<series, file, enq, del, bulk>>

\* The chapters of the series as listed now, of which those that qualify are written in turn.
PauseSeries ==
  /\ bulk = None /\ (Overlap \/ del = None)
  /\ Spend("call")
  /\ cancelledSeries' = TRUE
  /\ bulk' = [to |-> "paused",
              rows |-> [c \in {x \in Chapter : Known(x) /\ chapter[x].state \notin {"complete", "paused"}}
                          |-> chapter[c]]]
  /\ InCall /\ UNCHANGED <<stored, cancelled, enq, del, kickDue>>

ResumeSeries ==
  /\ bulk = None /\ (Overlap \/ del = None)
  /\ Spend("call")
  /\ cancelledSeries' = FALSE /\ cancelled' = {}
  /\ bulk' = [to |-> "queued",
              rows |-> [c \in {x \in Chapter : chapter[x].state = "paused"} |-> chapter[c]]]
  /\ InCall /\ UNCHANGED <<stored, enq, del, kickDue>>

BulkPut ==
  /\ bulk # None
  /\ \E c \in DOMAIN bulk.rows :
       /\ Free(c)
       /\ chapter' = [chapter EXCEPT ![c] = [bulk.rows[c] EXCEPT !.state = bulk.to]]
       /\ bulk' = [bulk EXCEPT !.rows = [x \in DOMAIN bulk.rows \ {c} |-> bulk.rows[x]]]
  /\ InCall /\ UNCHANGED <<series, page, file, flags, enq, del, kickDue, spent>>

BulkEnd ==
  /\ bulk # None /\ DOMAIN bulk.rows = {}
  /\ bulk' = None
  /\ kickDue' = (kickDue \/ bulk.to = "queued")
  /\ InCall /\ UNCHANGED <<stored, flags, enq, del, spent>>

\* Mutant: the pages are not purged.
DeleteLeavingPages(c) ==
  /\ del = None /\ Known(c) /\ Free(c)
  /\ Overlap \/ (enq = None /\ bulk = None)
  /\ Spend("call")
  /\ del' = [at |-> "row", chapter |-> c, files |-> {p \in Page : page[c][p] = "complete"}]
  /\ InCall /\ UNCHANGED <<series, chapter, page, file, flags, enq, bulk, kickDue>>

\* A delete lists the files of the chapter and purges its pages; then the chapter, and the
\* series when it was the last; then the files and the flags.
Delete(c) ==
  /\ del = None /\ Known(c) /\ Free(c)
  /\ Overlap \/ (enq = None /\ bulk = None)
  /\ Spend("call")
  /\ del' = [at |-> "row", chapter |-> c, files |-> {p \in Page : page[c][p] = "complete"}]
  /\ page' = [page EXCEPT ![c] = [p \in Page |-> "absent"]]
  /\ InCall /\ UNCHANGED <<series, chapter, file, flags, enq, bulk, kickDue>>

DeleteRow ==
  /\ del # None /\ del.at = "row"
  /\ chapter' = [chapter EXCEPT ![del.chapter] = NoChapter]
  /\ series' = (series /\ \E c \in Chapter \ {del.chapter} : Known(c))
  /\ del' = [del EXCEPT !.at = "files"]
  /\ InCall /\ UNCHANGED <<page, file, flags, enq, bulk, kickDue, spent>>

DeleteFiles ==
  /\ del # None /\ del.at = "files"
  /\ file' = file \ {<<del.chapter, p>> : p \in del.files}
  /\ cancelled' = IF series THEN cancelled \ {del.chapter} ELSE {}
  /\ cancelledSeries' = (series /\ cancelledSeries)
  /\ del' = None
  /\ InCall /\ UNCHANGED <<series, chapter, page, enq, bulk, kickDue, spent>>

CallStep ==
  \/ EnqueueRow \/ EnqueueState \/ EnqueueFlag
  \/ BulkPut \/ BulkEnd
  \/ DeleteRow \/ DeleteFiles

Call ==
  \/ \E c \in Chapter : Enqueue(c) \/ PauseChapter(c) \/ ResumeChapter(c) \/ RetryChapter(c) \/ Delete(c)
  \/ PauseSeries \/ ResumeSeries

Next ==
  \/ DrainStep \/ ResolveFails \/ ResolveLimited \/ FetchFails \/ FetchLimited
  \/ Kick \/ Stop \/ IdleFires \/ HoldEnds \/ UnblockFires \/ GateFlips \/ Crash
  \/ Call \/ CallStep

Spec == Init /\ [][Next]_vars

\* Fetches answer, calls go on, timers fire and time passes.
FairSpec ==
  /\ Spec
  /\ WF_vars(DrainStep) /\ WF_vars(CallStep)
  /\ WF_vars(Kick) /\ WF_vars(IdleFires) /\ WF_vars(UnblockFires) /\ WF_vars(HoldEnds)

-----------------------------------------------------------------------------
AtChapter == {"resolve", "rows", "resolved", "pages", "worker", "fetch", "file", "record", "failed"}

TypeOK ==
  /\ series \in BOOLEAN
  /\ chapter \in [Chapter -> ChapterRow]
  /\ page \in [Chapter -> [Page -> {"absent", "queued", "complete", "failed"}]]
  /\ file \subseteq Chapter \X Page
  /\ pc \in {"off", "top", "next", "exit", "finally"} \cup AtChapter
  /\ todo = [c \in DOMAIN todo |-> todo[c]] /\ DOMAIN todo \subseteq Chapter
  /\ \A c \in DOMAIN todo : todo[c] \in BOOLEAN
  /\ IF pc \in AtChapter THEN cur \in Chapter \ DOMAIN todo ELSE cur = None
  /\ copy \in ChapterRow \cup {None}
  /\ kept \subseteq Page /\ queue \subseteq Page
  /\ attempt \in 0..Attempts
  /\ pc \in {"fetch", "file", "record"} => queue # {}
  /\ landed \in BOOLEAN /\ progressed \in BOOLEAN /\ rekick \in BOOLEAN /\ stopRequested \in BOOLEAN
  /\ cancelledSeries \in BOOLEAN /\ blocked \in BOOLEAN /\ idleTimer \in BOOLEAN
  /\ unblockTimer \in {"none", "armed", "due"}
  /\ cancelled \subseteq Chapter
  /\ enq \in EnqueueCall \cup {None} /\ del \in DeleteCall \cup {None} /\ bulk \in BulkCall \cup {None}
  /\ kickDue \in BOOLEAN /\ gate \in BOOLEAN /\ recheck \in BOOLEAN
  /\ spent \in [Event -> Nat] /\ \A e \in Event : spent[e] <= Budget[e]

\* A chapter the engine has something to do for, and may.
Ready(c) ==
  /\ c \in Pending /\ ~IsCancelled(c)
  /\ ~chapter[c].resolved \/ Outstanding(c) # {}

\* Work is not forgotten: with the loop gone, no kick coming and no stop asked for, a chapter with
\* something to fetch has a timer that will start the loop (drain's rekick, scheduleUnblock,
\* scheduleIdleRecheck).
NothingForgotten ==
  (pc = "off" /\ ~kickDue /\ ~stopRequested /\ enq = None /\ bulk = None) =>
    \A c \in Chapter : Ready(c) => idleTimer \/ unblockTimer # "none"

\* A chapter that reads complete can be read offline: its page list is the one resolved, and no
\* page of it is missing, but while it is being deleted (recomputeChapter, isChapterComplete).
CompleteMeansAll ==
  \A c \in Chapter : chapter[c].state = "complete" =>
    /\ chapter[c].resolved
    /\ Rows(c) = {} \/ \A p \in PagesOf[c] : page[c][p] = "complete"

\* A page that reads complete has its bytes: they are written before its row, and removed after
\* it, with a stop anywhere between (recordPage, deleteChapter).
BytesBehindPages ==
  \A c \in Chapter, p \in Page : page[c][p] = "complete" => <<c, p>> \in file

\* Completed pages are kept: whatever is enqueued, resolved, retried or failed again, only a
\* delete lets go of a page that is complete (writePages, requeueMissing, failPage).
CompletePagesKept ==
  [][\A c \in Chapter : (\E p \in Page : page[c][p] = "complete" /\ page'[c][p] # "complete") =>
       Rows(c)' = {}]_vars

\* Both, step by step from a first state in which nothing is downloaded: a page that was fetched
\* stays fetched and on disk until it is deleted.
PagesKept == [][BytesBehindPages']_vars /\ CompletePagesKept

\* What can be fetched is not left waiting for ever: once the host lets the engine run, each
\* chapter that has something to do is without it again and again.
QueueDrains ==
  \A c \in Chapter : <>[](gate /\ ~stopRequested) => []<>~Ready(c)

\* The loop does not spin: however many pages fail, it ends.
LoopEnds == []<>(pc = "off")

\* What the loop leaves behind has been settled: a chapter all of whose pages have their bytes
\* is not still waiting.
SettledComplete ==
  (pc = "off" /\ ~kickDue /\ ~stopRequested /\ enq = None /\ bulk = None) =>
    \A c \in Pending : chapter[c].resolved /\ Rows(c) # {} => Outstanding(c) # {}

=============================================================================
