------------------------ MODULE DownloadEngine_proofs ------------------------
(***************************************************************************)
(* Proofs about the download engine, for any chapters, page lists, numbers *)
(* of attempts and budgets of events: that a page which was fetched stays  *)
(* fetched and on disk until it is deleted (PagesKept), that a chapter     *)
(* which reads complete can be read offline (CompleteMeansAll), and that   *)
(* the engine never rests with work it could do and no timer to start it   *)
(* (NothingForgotten).  None of them holds when calls overlap the writes   *)
(* of a resolution or of a delete (Overlap).  The last two take at most    *)
(* one stop of the process, and the last that no rate limit's hold ends    *)
(* while a server's loop is still running (ShortHolds).                    *)
(*                                                                         *)
(* There are three invariants, each of which rests on the one before it:   *)
(*  - KeepInv: where the loop is and what the calls under way hold, against *)
(*    the manifest's rows;                                                 *)
(*  - WholeInv: a chapter that counts as resolved has all its pages, or    *)
(*    none while a delete or a stop in one has taken them;                 *)
(*  - ForgetInv: each chapter with something to fetch has someone who will *)
(*    see to it (Hope): a loop that makes another pass or has the chapter  *)
(*    in this one, a call that will kick, or a timer.                      *)
(* A lemma shows of each action that it keeps each of them: TopKeeps,      *)
(* TopWhole, TopHopes and so on.                                           *)
(***************************************************************************)
EXTENDS DownloadEngine, WellFoundedInduction, TLAPS

\* The states a chapter's row can be in, and where the loop is with one.
Row == ChapterRow \ {NoChapter}
Fetching == {"worker", "fetch", "file", "record", "failed"}

\* An enqueue has written the series' row, then the chapter's.
EnqueueOK == enq # None => series /\ (enq.at # "row" => Known(enq.chapter))

\* A delete has the store to itself but for the loop: the pages it purged do not come back, and then
\* the chapter does not.
DeleteOK ==
  del # None =>
    /\ enq = None /\ bulk = None
    /\ Rows(del.chapter) = {}
    /\ pc = "rows" => cur # del.chapter
    /\ del.at = "files" => ~Known(del.chapter)

\* The delete under way is of the chapter.
Deleting(c) == del # None /\ del.chapter = c

\* The chapters a pause or resume of the series has still to write are there.
BulkOK ==
  bulk # None =>
    /\ bulk.to = "queued" => ~cancelledSeries
    /\ \A c \in DOMAIN bulk.rows :
         Known(c) /\ bulk.rows[c] \in Row

\* The manifest's rows: pages are of the chapter's list, all of it once that is resolved.
RowsOK ==
  \A c \in Chapter :
    /\ Rows(c) \subseteq PagesOf[c]
    /\ Known(c) => series
    /\ ~Known(c) => Rows(c) = {}

\* A resolution writes what it read, for nothing else writes meanwhile.
ResolutionOK ==
  pc = "rows" =>
    /\ copy = chapter[cur] /\ Known(cur)
    /\ queue \subseteq PagesOf[cur] /\ PagesOf[cur] \ queue \subseteq Rows(cur)
    /\ \A p \in Page : page[cur][p] = "complete" => p \in kept
    /\ \A p \in kept : page[cur][p] = "complete"

\* The pages a worker still has before it are not complete, but for the one it has just recorded.
QueueOK ==
  /\ pc \in Fetching => queue \subseteq PagesOf[cur]
  /\ pc \in {"fetch", "file", "record"} => queue # {}
  /\ pc \in {"worker", "fetch", "file", "failed"} => \A p \in queue : page[cur][p] # "complete"
  /\ pc = "record" => \A p \in queue \ {Min(queue)} : page[cur][p] # "complete"

\* A page being recorded has its bytes, unless its row went.
BytesOK ==
  /\ BytesBehindPages
  /\ pc = "file" => <<cur, Min(queue)>> \in file \/ page[cur][Min(queue)] = "absent"

\* A chapter that counts as resolved has all its pages, none while a delete or a stop in one has
\* taken them, or is having them written again after that.
Stopped == spent["crash"] > 0
Whole(c) ==
  \/ PagesOf[c] \subseteq Rows(c)
  \/ Rows(c) = {} /\ (Deleting(c) \/ Stopped)
  \/ pc = "rows" /\ cur = c /\ Stopped /\ chapter[c].state # "complete"

WholeOK ==
  \A c \in Chapter :
    /\ Known(c) /\ chapter[c].resolved => Whole(c)
    /\ bulk # None /\ c \in DOMAIN bulk.rows /\ bulk.rows[c].resolved => Whole(c)

CompleteOK ==
  \A c \in Chapter : chapter[c].state = "complete" =>
    /\ chapter[c].resolved
    /\ Outstanding(c) = {}
    /\ c \in DOMAIN todo \/ (pc \in AtChapter /\ cur = c) => Rows(c) # {} \/ Deleting(c)

\* What a chapter that reads complete rests on.
WholeInv == WholeOK /\ CompleteOK

\* Outside a pass nothing is left of the list.
PassOK == pc \in {"off", "top", "exit", "finally"} => DOMAIN todo = {}

\* The calls under way that will come to a chapter.
Listed(c) == bulk # None /\ c \in DOMAIN bulk.rows
Arriving(c) ==
  enq # None /\ enq.chapter = c /\ ~(enq.at = "flag" /\ enq.state \in {"paused", "complete"})

\* While the series is paused, a chapter that is not paused is about to be, but for one whose
\* resolution failed, which the loop has left.
PausedSoon(c) ==
  \/ Listed(c) \/ Arriving(c) \/ Deleting(c)
  \/ chapter[c].state = "failed" /\ c \notin DOMAIN todo /\ ~(pc \in AtChapter /\ cur = c)

PausedThrough ==
  cancelledSeries =>
    \A c \in Chapter : chapter[c].state \in {"queued", "downloading", "failed"} => PausedSoon(c)

\* A chapter that reads failed when a page has just failed has a page that says so.
FailedOK ==
  pc = "failed" /\ Known(cur) /\ chapter[cur].resolved /\ chapter[cur].state = "failed" =>
    Rows(cur) = {} \/ \E p \in Page : page[cur][p] = "failed"

\* A chapter with something to fetch: a failed one too, as long as the loop may still turn it back.
Wanted(c) ==
  /\ ~IsCancelled(c)
  /\ ~chapter[c].resolved \/ Outstanding(c) # {}
  /\ \/ chapter[c].state \in {"queued", "downloading"}
     \/ /\ chapter[c].state = "failed"
        /\ \/ c \in DOMAIN todo
           \/ cur = c /\ pc \in {"resolve", "rows", "resolved", "pages"}
           \/ cur = c /\ pc \in Fetching /\ ~chapter[c].resolved

\* What will see to it: the loop, which will make another pass or has the chapter in this one; a
\* call, which will kick; or a timer.
Sure ==
  /\ pc # "off"
  /\ recheck \/ rekick \/ blocked \/ pc = "top" \/ (pc \in AtChapter \cup {"next"} /\ progressed)

Waiting(c) ==
  pc \in AtChapter \cup {"next"} /\ c \in DOMAIN todo /\ (todo[c] => chapter[c].resolved)

Handled(c) ==
  /\ cur = c
  /\ \/ pc \in {"resolve", "rows"}
     \/ pc \in {"resolved", "pages"} /\ chapter[c].resolved
     \/ pc \in Fetching /\ landed
     \/ pc \in Fetching \ {"failed"} /\ chapter[c].resolved /\ queue # {}
     \/ pc = "failed" /\ chapter[c].resolved /\ \E p \in Page : page[c][p] = "failed"

CallWill(c) ==
  \/ kickDue
  \/ enq # None /\ enq.chapter = c /\ ~(enq.at = "flag" /\ enq.state = "paused")
  \/ bulk # None /\ (bulk.to = "queued" \/ c \in DOMAIN bulk.rows)

TimerWill == pc = "off" /\ (idleTimer \/ unblockTimer # "none")

Hope(c) == Sure \/ Waiting(c) \/ Handled(c) \/ CallWill(c) \/ TimerWill

HopeOK == ~stopRequested => \A c \in Chapter : Wanted(c) => Hope(c)

\* A server's gate is always open.
GateOK == recheck \/ gate

\* What rest of the engine rests on.
ForgetInv == GateOK /\ PassOK /\ PausedThrough /\ FailedOK /\ HopeOK

\* What every other invariant rests on.
KeepInv == TypeOK /\ EnqueueOK /\ DeleteOK /\ BulkOK /\ RowsOK /\ ResolutionOK /\ QueueOK /\ BytesOK

\* The type invariant, a part at a time.
StoreTypes ==
  /\ series \in BOOLEAN
  /\ chapter \in [Chapter -> ChapterRow]
  /\ page \in [Chapter -> [Page -> {"absent", "queued", "complete", "failed"}]]
  /\ file \subseteq Chapter \X Page

LoopTypes ==
  /\ pc \in {"off", "top", "next", "exit", "finally"} \cup AtChapter
  /\ todo = [c \in DOMAIN todo |-> todo[c]] /\ DOMAIN todo \subseteq Chapter
  /\ \A c \in DOMAIN todo : todo[c] \in BOOLEAN
  /\ IF pc \in AtChapter THEN cur \in Chapter \ DOMAIN todo ELSE cur = None
  /\ copy \in ChapterRow \cup {None}
  /\ kept \subseteq Page /\ queue \subseteq Page
  /\ attempt \in 0..Attempts
  /\ pc \in {"fetch", "file", "record"} => queue # {}
  /\ landed \in BOOLEAN /\ progressed \in BOOLEAN

FlagTypes ==
  /\ rekick \in BOOLEAN /\ stopRequested \in BOOLEAN
  /\ cancelledSeries \in BOOLEAN /\ blocked \in BOOLEAN /\ idleTimer \in BOOLEAN
  /\ unblockTimer \in {"none", "armed", "due"}
  /\ cancelled \subseteq Chapter
  /\ kickDue \in BOOLEAN /\ gate \in BOOLEAN /\ recheck \in BOOLEAN

CallTypes ==
  /\ enq \in EnqueueCall \cup {None} /\ del \in DeleteCall \cup {None} /\ bulk \in BulkCall \cup {None}

SpentTypes == spent \in [Event -> Nat] /\ \A e \in Event : spent[e] <= Budget[e]

\* What a write of a chapter's state leaves alone.
Restated(c) ==
  /\ chapter' \in [Chapter -> ChapterRow]
  /\ \A x \in Chapter : (Known(x)' <=> Known(x)) /\ chapter'[x].resolved = chapter[x].resolved
  /\ \A x \in Chapter : x # c => chapter'[x] = chapter[x]

\* A step that writes the state s to a chapter's row, or writes nothing.
Rewritten(c, s) == Restated(c) /\ (chapter'[c] = chapter[c] \/ (Known(c) /\ chapter'[c].state = s))

\* What the state recomputed for a chapter says of it and its pages.
Tells(c) ==
  LET s == Recomputed(c, page[c])
  IN  /\ s \in ChapterState
      /\ s = "complete" => chapter[c].resolved /\ Outstanding(c) = {} /\ Rows(c) # {}
      /\ chapter[c].resolved /\ Outstanding(c) = {} /\ Rows(c) # {} => s = "complete"
      /\ s = "failed" => \E p \in Page : page[c][p] = "failed"
      /\ (\E p \in Page : page[c][p] = "failed") => s \in {"failed", "paused"}
      /\ s # "paused" /\ chapter[c].state = "paused" => s = "complete"
      /\ s = "paused" => chapter[c].state = "paused"

\* The invariant with its types in parts, and what follows of them at once.
KeepFacts ==
  /\ StoreTypes /\ LoopTypes /\ FlagTypes /\ CallTypes /\ SpentTypes
  /\ EnqueueOK /\ DeleteOK /\ BulkOK /\ RowsOK /\ ResolutionOK /\ QueueOK /\ BytesOK
  /\ queue # {} => Min(queue) \in queue
  /\ bulk # None => /\ bulk.to \in {"paused", "queued"} /\ bulk = [to |-> bulk.to, rows |-> bulk.rows]
                    /\ DOMAIN bulk.rows \subseteq Chapter
                    /\ \A x \in DOMAIN bulk.rows : bulk.rows[x] \in ChapterRow

\* What an attempt that fails does.
AttemptSpent ==
  /\ LoopTypes'
  /\ page' \in [Chapter -> [Page -> {"absent", "queued", "complete", "failed"}]]
  /\ \A c \in Chapter, p \in Page : page'[c][p] # page[c][p] =>
       c = cur /\ p = Min(queue) /\ Known(c) /\ page[c][p] # "absent" /\ page'[c][p] = "failed"
  /\ UNCHANGED todo
  /\ \/ Leave(landed) /\ IsCancelled(cur)
     \/ pc' = "fetch" /\ UNCHANGED <<queue, cur, landed, progressed>>
     \/ /\ \/ pc' = "worker" /\ (IsCancelled(cur) \/ ~Known(cur))
           \/ pc' = "failed" /\ (Min(queue) \in Rows(cur) => page'[cur][Min(queue)] = "failed")
        /\ queue' = queue \ {Min(queue)} /\ UNCHANGED <<cur, landed, progressed>>

\* What PagesKept says of a step's pages.
PagesStay ==
  \A c \in Chapter :
    (\E p \in Page : page[c][p] = "complete" /\ page'[c][p] # "complete") => Rows(c)' = {}

-----------------------------------------------------------------------------
(* Constants, the least page of a set, and the calls as records             *)

LEMMA AssumedConstants ==
  /\ PagesOf \in [Chapter -> SUBSET Nat]
  /\ Attempts \in Nat \ {0}
  /\ Budget \in [Event -> Nat]
  BY DownloadAssumption

LEMMA PagesAreNaturals == /\ Page \subseteq Nat
                          /\ \A c \in Chapter : PagesOf[c] \subseteq Page
  BY DownloadAssumption DEF Page

\* A non-empty set of naturals has a least member, which Min then is.
LEMMA Minimal ==
  ASSUME NEW R, NEW N, IsWellFoundedOn(R, N), NEW S, S \subseteq N, S # {}
  PROVE  \E n \in S : \A m \in S : ~ (<<m, n>> \in R)
  BY WFMin

LEMMA LeastOf ==
  ASSUME NEW R, NEW N, IsWellFoundedOn(R, N), NEW S, S \subseteq N, S # {}
  PROVE  N = Nat /\ (\A m, n \in Nat : m < n => <<m, n>> \in R) => Min(S) \in S
<1>1. \E n \in S : \A m \in S : ~ (<<m, n>> \in R)
  BY Minimal
<1> HAVE N = Nat /\ \A m, n \in Nat : m < n => <<m, n>> \in R
<1>2. PICK n \in S : \A m \in S : ~ (<<m, n>> \in R)
  BY <1>1
<1>3. ASSUME NEW m \in S PROVE n <= m
  <2>1. ~ (<<m, n>> \in R) /\ m \in Nat /\ n \in Nat
    BY <1>2
  <2> QED
    BY <2>1
<1> QED
  BY <1>2, <1>3 DEF Min

LEMMA LeastIsThere == ASSUME NEW S, S \subseteq Nat, S # {} PROVE Min(S) \in S
<1>1. \A m, n \in Nat : m < n => <<m, n>> \in OpToRel(<, Nat)
  BY DEF OpToRel
<1>2. PICK R : IsWellFoundedOn(R, Nat) /\ \A m, n \in Nat : m < n => <<m, n>> \in R
  BY <1>1, NatLessThanWellFounded, Zenon
<1> QED
  BY <1>2, LeastOf

\* The events, and that no call is None.
LEMMA EventIs == {"call", "fault", "flap", "stop", "crash"} = Event
  BY DEF Event

LEMMA NoCallIsNone ==
  /\ \A x \in EnqueueCall : x # None
  /\ \A x \in DeleteCall : x # None
  /\ \A x \in BulkCall : x # None
  /\ \A c \in Chapter : c # None
  BY DownloadAssumption

\* A pause or resume of the series, taken apart, put together and begun.
LEMMA BulkIs ==
  ASSUME NEW b \in BulkCall
  PROVE  /\ b.to \in {"paused", "queued"} /\ b = [to |-> b.to, rows |-> b.rows]
         /\ DOMAIN b.rows \subseteq Chapter /\ b.rows = [c \in DOMAIN b.rows |-> b.rows[c]]
         /\ \A c \in DOMAIN b.rows : b.rows[c] \in ChapterRow
<1>1. PICK S \in SUBSET Chapter : b.rows \in [S -> ChapterRow]
  BY DEF BulkCall
<1> QED
  BY <1>1 DEF BulkCall

LEMMA BulkMade ==
  ASSUME NEW to \in {"paused", "queued"}, NEW S \in SUBSET Chapter, NEW rows \in [S -> ChapterRow]
  PROVE  [to |-> to, rows |-> rows] \in BulkCall
  BY DEF BulkCall

LEMMA BulkStarts ==
  ASSUME StoreTypes
  PROVE  /\ PauseSeries => bulk' # None
         /\ ResumeSeries => bulk' # None /\ bulk'.to = "queued"
<1>1. ASSUME NEW to \in {"paused", "queued"}, NEW S \in SUBSET Chapter
      PROVE  [to |-> to, rows |-> [c \in S |-> chapter[c]]] # None
  BY <1>1, BulkMade, NoCallIsNone DEF StoreTypes
<1>2. PauseSeries => bulk' # None
  BY <1>1 DEF PauseSeries
<1>3. ResumeSeries => bulk' # None /\ bulk'.to = "queued"
  BY <1>1 DEF ResumeSeries
<1> QED
  BY <1>2, <1>3

\* The type invariant is its parts; with the rest of KeepInv they are what a step starts from.
LEMMA TypeParts == /\ TypeOK <=> StoreTypes /\ LoopTypes /\ FlagTypes /\ CallTypes /\ SpentTypes
                   /\ TypeOK' <=> StoreTypes' /\ LoopTypes' /\ FlagTypes' /\ CallTypes' /\ SpentTypes'
<1>1. TypeOK <=> StoreTypes /\ LoopTypes /\ FlagTypes /\ CallTypes /\ SpentTypes
  BY Zenon DEF TypeOK, StoreTypes, LoopTypes, FlagTypes, CallTypes, SpentTypes
<1>2. TypeOK' <=> StoreTypes' /\ LoopTypes' /\ FlagTypes' /\ CallTypes' /\ SpentTypes'
  BY <1>1, PTL
<1> QED
  BY <1>1, <1>2

LEMMA KeepIs == ASSUME KeepInv PROVE KeepFacts
<1>1. StoreTypes /\ LoopTypes /\ FlagTypes /\ CallTypes /\ SpentTypes
  BY TypeParts DEF KeepInv
<1>2. queue # {} => Min(queue) \in queue
  BY <1>1, LeastIsThere, PagesAreNaturals DEF LoopTypes
<1>3. bulk # None => /\ bulk.to \in {"paused", "queued"} /\ bulk = [to |-> bulk.to, rows |-> bulk.rows]
                     /\ DOMAIN bulk.rows \subseteq Chapter
                     /\ \A x \in DOMAIN bulk.rows : bulk.rows[x] \in ChapterRow
  BY <1>1, BulkIs DEF CallTypes
<1> QED
  BY <1>1, <1>2, <1>3 DEF KeepInv, KeepFacts

\* A write of a state.
-----------------------------------------------------------------------------
(* What the writes of a row, and a failed attempt, do                       *)

\* A write of a state, of a row, of a page; and the state it leaves.
LEMMA StateWritten ==
  ASSUME StoreTypes, NEW c \in Chapter, Known(c), NEW s \in ChapterState, PutState(c, s)
  PROVE  Restated(c) /\ chapter'[c].state = s
<1>1. chapter[c] \in [state : ChapterState, resolved : BOOLEAN]
  BY DEF StoreTypes, Known, ChapterRow
<1>2. chapter'[c] = [state |-> s, resolved |-> chapter[c].resolved]
  BY <1>1 DEF PutState, StoreTypes
<1>3. chapter'[c] # NoChapter
  BY <1>2 DEF NoChapter, ChapterState
<1>4. \A x \in Chapter : x # c => chapter'[x] = chapter[x]
  BY DEF PutState, StoreTypes
<1>5. chapter'[c] \in ChapterRow
  BY <1>1, <1>2 DEF ChapterRow
<1>6. chapter' \in [Chapter -> ChapterRow]
  BY <1>4, <1>5 DEF PutState, StoreTypes
<1> QED
  BY <1>2, <1>3, <1>4, <1>6 DEF Restated, Known

LEMMA StateOf ==
  ASSUME StoreTypes, NEW c \in Chapter
  PROVE  IF Known(c) THEN chapter[c].state \in ChapterState /\ chapter[c].state # "absent"
                     ELSE chapter[c].state = "absent"
  BY DEF StoreTypes, Known, ChapterRow, NoChapter, ChapterState

LEMMA NothingWritten == ASSUME StoreTypes, NEW c \in Chapter, UNCHANGED chapter PROVE Restated(c)
  BY DEF StoreTypes, Restated, Known

\* A write of a whole row.
LEMMA RowWritten ==
  ASSUME StoreTypes, NEW c \in Chapter, NEW row \in Row, chapter' = [chapter EXCEPT ![c] = row]
  PROVE  /\ chapter' \in [Chapter -> ChapterRow]
         /\ Known(c)' /\ chapter'[c] = row
         /\ \A x \in Chapter : x # c => chapter'[x] = chapter[x]
  BY DEF StoreTypes, Row, Known

LEMMA RowMade ==
  /\ \A r \in Row : r \in [state : ChapterState, resolved : BOOLEAN]
  /\ \A r \in [state : ChapterState, resolved : BOOLEAN] : r \in Row
  BY DEF Row, ChapterRow, NoChapter, ChapterState

\* A write of a page's row.
LEMMA PageWritten ==
  ASSUME StoreTypes, NEW c \in Chapter, NEW p \in Page,
         NEW s \in {"absent", "queued", "complete", "failed"}, PutPage(c, p, s)
  PROVE  /\ page' \in [Chapter -> [Page -> {"absent", "queued", "complete", "failed"}]]
         /\ page'[c][p] = s
         /\ \A x \in Chapter, q \in Page : x # c \/ q # p => page'[x][q] = page[x][q]
<1>1. page[c] \in [Page -> {"absent", "queued", "complete", "failed"}]
  BY DEF StoreTypes
<1>2. page' = [page EXCEPT ![c] = [page[c] EXCEPT ![p] = s]]
  BY DEF PutPage
<1>3. [page[c] EXCEPT ![p] = s] \in [Page -> {"absent", "queued", "complete", "failed"}]
  BY <1>1
<1> QED
  BY <1>1, <1>2, <1>3 DEF StoreTypes

LEMMA NothingListed == DOMAIN <<>> = {} /\ <<>> = [x \in DOMAIN <<>> |-> <<>>[x]]
  OBVIOUS

\* Leaving a chapter, and an attempt that fails.
LEMMA LeaveTypes == ASSUME LoopTypes, NEW did \in BOOLEAN, Leave(did) PROVE LoopTypes'
<1> USE DEF Leave, LoopTypes
<1>1. pc' \in {"off", "top", "next", "exit", "finally"} \cup AtChapter
  OBVIOUS
<1>2. todo' = [c \in DOMAIN todo' |-> todo'[c]] /\ DOMAIN todo' \subseteq Chapter
  OBVIOUS
<1>3. \A c \in DOMAIN todo' : todo'[c] \in BOOLEAN
  OBVIOUS
<1>4. IF pc' \in AtChapter THEN cur' \in Chapter \ DOMAIN todo' ELSE cur' = None
  BY DEF AtChapter
<1>5. copy' \in ChapterRow \cup {None} /\ kept' \subseteq Page /\ queue' \subseteq Page
  OBVIOUS
<1>6. attempt' \in 0..Attempts
  BY AssumedConstants
<1>7. pc' \in {"fetch", "file", "record"} => queue' # {}
  OBVIOUS
<1>8. landed' \in BOOLEAN
  OBVIOUS
<1>9. progressed' \in BOOLEAN
  OBVIOUS
<1> QED
  BY <1>1, <1>2, <1>3, <1>4, <1>5, <1>6, <1>7, <1>8, <1>9

LEMMA AttemptFailsDoes ==
  ASSUME KeepFacts, pc \in {"fetch", "file", "record"}, AttemptFails
  PROVE  AttemptSpent
<1> DEFINE p == Min(queue)
<1>1. /\ StoreTypes /\ LoopTypes /\ p \in queue /\ p \in Page /\ cur \in Chapter
      /\ cur \notin DOMAIN todo /\ landed \in BOOLEAN
  BY DEF KeepFacts, LoopTypes, AtChapter
<1>2. CASE attempt < Attempts /\ IsCancelled(cur)
  <2>1. Leave(landed) /\ UNCHANGED page
    BY <1>2 DEF AttemptFails
  <2> QED
    BY <1>1, <1>2, <2>1, LeaveTypes DEF StoreTypes, AttemptSpent, Leave
<1>3. CASE attempt < Attempts /\ ~IsCancelled(cur)
  <2>1. /\ pc' = "fetch" /\ attempt' = attempt + 1
        /\ UNCHANGED <<todo, cur, copy, kept, queue, landed, progressed, page>>
    BY <1>3 DEF AttemptFails
  <2>2. attempt' \in 0..Attempts
    BY <1>1, <1>3, <2>1, AssumedConstants DEF LoopTypes
  <2>3. LoopTypes'
    BY <1>1, <2>1, <2>2 DEF LoopTypes, AtChapter
  <2> QED
    BY <1>1, <2>1, <2>3 DEF StoreTypes, AttemptSpent
<1>4. CASE ~(attempt < Attempts)
  <2>1. /\ queue' = queue \ {p} /\ attempt' = 0
        /\ \/ pc' = "worker" /\ (IsCancelled(cur) \/ ~Known(cur))
           \/ pc' = "failed" /\ (p \in Rows(cur) => PutPage(cur, p, "failed"))
        /\ UNCHANGED <<todo, cur, copy, kept, landed, progressed>>
    BY <1>4 DEF AttemptFails
  <2>2. UNCHANGED page \/ (Known(cur) /\ p \in Rows(cur) /\ PutPage(cur, p, "failed"))
    BY <1>4 DEF AttemptFails
  <2>3. attempt' \in 0..Attempts
    BY <2>1, AssumedConstants
  <2>4. LoopTypes'
    BY <1>1, <2>1, <2>3 DEF LoopTypes, AtChapter
  <2>5. CASE UNCHANGED page
    <3>1. Known(cur) /\ p \in Rows(cur) /\ PutPage(cur, p, "failed") => page'[cur][p] = "failed"
      BY <1>1, PageWritten
    <3>2. p \in Rows(cur) => Known(cur)
      BY <1>1 DEF KeepFacts, RowsOK
    <3> QED
      BY <1>1, <2>1, <2>4, <2>5, <3>1, <3>2 DEF StoreTypes, AttemptSpent
  <2>6. CASE Known(cur) /\ p \in Rows(cur) /\ PutPage(cur, p, "failed")
    <3>1. /\ page' \in [Chapter -> [Page -> {"absent", "queued", "complete", "failed"}]]
          /\ page'[cur][p] = "failed"
          /\ \A x \in Chapter, q \in Page : x # cur \/ q # p => page'[x][q] = page[x][q]
      BY <1>1, <2>6, PageWritten
    <3> QED
      BY <1>1, <2>1, <2>4, <2>6, <3>1 DEF Rows, AttemptSpent
  <2> QED
    BY <2>2, <2>5, <2>6
<1> QED
  BY <1>2, <1>3, <1>4

\* What recomputeChapter can answer, and the rows it writes.
LEMMA RecomputedIs ==
  ASSUME StoreTypes, NEW c \in Chapter, Known(c),
         NEW rows \in [Page -> {"absent", "queued", "complete", "failed"}]
  PROVE  /\ Recomputed(c, rows) \in ChapterState
         /\ Recomputed(c, rows) = "complete" =>
              chapter[c].resolved /\ \A p \in Page : rows[p] \in {"absent", "complete"}
         /\ Recomputed(c, rows) = "complete" => \E p \in Page : rows[p] = "complete"
         /\ chapter[c].resolved /\ (\A p \in Page : rows[p] \in {"absent", "complete"})
              /\ (\E p \in Page : rows[p] = "complete") => Recomputed(c, rows) = "complete"
         /\ Recomputed(c, rows) = "failed" => \E p \in Page : rows[p] = "failed"
         /\ (\E p \in Page : rows[p] = "failed") => Recomputed(c, rows) \in {"failed", "paused"}
         /\ Recomputed(c, rows) # "paused" /\ chapter[c].state = "paused" =>
              Recomputed(c, rows) = "complete"
         /\ Recomputed(c, rows) = "paused" => chapter[c].state = "paused"
<1> DEFINE states == {rows[p] : p \in Page} \ {"absent"}
<1>1. states \subseteq {"queued", "complete", "failed"}
  OBVIOUS
<1>2. CASE states = {}
  BY <1>2 DEF Recomputed, Derived, ChapterState
<1>3. CASE states = {"complete"}
  BY <1>3 DEF Recomputed, Derived, ChapterState
<1>4. CASE states # {} /\ states # {"complete"}
  BY <1>4 DEF Recomputed, Derived, ChapterState
<1> QED
  BY <1>2, <1>3, <1>4

\* The same, of a chapter's own rows.
LEMMA RecomputedHere ==
  ASSUME StoreTypes, NEW c \in Chapter, Known(c)
  PROVE  Tells(c)
<1> USE DEF Tells
<1>1. page[c] \in [Page -> {"absent", "queued", "complete", "failed"}]
  BY DEF StoreTypes
<1>2. Outstanding(c) = {} => \A p \in Page : page[c][p] \in {"absent", "complete"}
  BY DEF Outstanding, Rows
<1>3. Rows(c) # {} /\ Outstanding(c) = {} => \E p \in Page : page[c][p] = "complete"
  BY DEF Outstanding, Rows
<1>4. (\A p \in Page : page[c][p] \in {"absent", "complete"}) => Outstanding(c) = {}
  BY DEF Outstanding, Rows
<1>5. (\E p \in Page : page[c][p] = "complete") => Rows(c) # {}
  BY DEF Rows
<1> QED
  BY <1>1, <1>2, <1>3, <1>4, <1>5, RecomputedIs

\* The four ways a call or the loop writes a chapter's state.
LEMMA MarkedWritten ==
  ASSUME StoreTypes, NEW c \in Chapter, Known(c), PutState(c, Marked(c))
  PROVE  Restated(c) /\ chapter'[c].state = Marked(c)
<1>1. Marked(c) \in ChapterState
  BY DEF StoreTypes, Known, ChapterRow, Marked, ChapterState
<1> QED
  BY <1>1, StateWritten

LEMMA PausedWritten ==
  ASSUME StoreTypes, NEW c \in Chapter, Known(c), PutState(c, Paused(c))
  PROVE  Restated(c) /\ chapter'[c].state = Paused(c)
<1>1. Paused(c) \in ChapterState
  BY DEF Paused, ChapterState
<1> QED
  BY <1>1, StateWritten

LEMMA ResumedWritten ==
  ASSUME StoreTypes, NEW c \in Chapter, Known(c), PutState(c, Resumed(c))
  PROVE  Restated(c) /\ chapter'[c].state = Resumed(c)
<1>1. Resumed(c) \in ChapterState
  BY DEF StoreTypes, Known, ChapterRow, Resumed, ChapterState
<1> QED
  BY <1>1, StateWritten

LEMMA RecomputedWritten ==
  ASSUME StoreTypes, NEW c \in Chapter, Known(c),
         NEW rows \in [Page -> {"absent", "queued", "complete", "failed"}],
         PutState(c, Recomputed(c, rows))
  PROVE  Restated(c) /\ chapter'[c].state = Recomputed(c, rows)
  BY RecomputedIs, StateWritten

\* What an event leaves of the count of stops.
LEMMA OtherEvent ==
  ASSUME SpentTypes, NEW e \in Event, e # "crash", Spend(e)
  PROVE  Stopped' <=> Stopped
  BY EventIs DEF SpentTypes, Spend, Stopped

LEMMA OneStop ==
  ASSUME SpentTypes, Spend("crash"), Budget["crash"] <= 1
  PROVE  ~Stopped /\ Stopped'
<1>1. /\ "crash" \in Event /\ spent["crash"] \in Nat /\ Budget["crash"] \in Nat
      /\ spent["crash"] < Budget["crash"] /\ spent'["crash"] = spent["crash"] + 1
  BY EventIs, AssumedConstants DEF SpentTypes, Spend
<1> QED
  BY <1>1 DEF Stopped

\* What a step must leave alone to keep each part of WholeInv.
LEMMA WholeFramed ==
  ASSUME WholeOK, bulk' = bulk, Stopped => Stopped',
         \A c \in Chapter :
           /\ Rows(c)' = Rows(c)
           /\ Known(c)' /\ chapter'[c].resolved => Known(c) /\ chapter[c].resolved
           /\ Deleting(c) => Deleting(c)'
           /\ pc = "rows" /\ cur = c /\ chapter[c].state # "complete" =>
                pc' = "rows" /\ cur' = c /\ chapter'[c].state # "complete"
  PROVE  WholeOK'
<1>1. \A c \in Chapter : Whole(c) => Whole(c)'
  BY DEF Whole
<1> QED
  BY <1>1 DEF WholeOK

LEMMA CompleteFramed ==
  ASSUME CompleteOK,
         \A c \in Chapter :
           /\ Rows(c)' = Rows(c) /\ Outstanding(c)' \subseteq Outstanding(c)
           /\ chapter'[c].state = "complete" =>
                chapter[c].state = "complete" /\ chapter'[c].resolved = chapter[c].resolved
           /\ Deleting(c) => Deleting(c)'
           /\ c \in DOMAIN todo' \/ (pc' \in AtChapter /\ cur' = c) =>
                c \in DOMAIN todo \/ (pc \in AtChapter /\ cur = c)
  PROVE  CompleteOK'
  BY DEF CompleteOK

\* An attempt that fails forgets nothing.
LEMMA AttemptFailsHopes ==
  ASSUME KeepFacts, WholeOK, HopeOK, pc \in {"fetch", "file", "record"}, pc = "record" => ~Known(cur),
         AttemptFails, InLoop, UNCHANGED <<chapter, blocked>>
  PROVE  FailedOK' /\ HopeOK'
<1> USE DEF InLoop, control, flags, calls, host
<1>1. AttemptSpent
  BY AttemptFailsDoes
<1>2. /\ StoreTypes /\ cur \in Chapter /\ cur \notin DOMAIN todo
      /\ Min(queue) \in queue /\ Min(queue) \in Page
      /\ Min(queue) \in PagesOf[cur]
      /\ Known(cur) => page[cur][Min(queue)] # "complete"
  BY DEF KeepFacts, LoopTypes, AtChapter, QueueOK, Fetching
<1>3. Known(cur) /\ chapter[cur].resolved /\ Min(queue) \notin Rows(cur) => Rows(cur) = {}
  BY <1>2 DEF WholeOK, Whole
<1>4. \A x \in Chapter : Rows(x)' = Rows(x) /\ Outstanding(x)' = Outstanding(x)
  <2>1. \A x \in Chapter, p \in Page : page'[x][p] # page[x][p] =>
          page[x][p] # "absent" /\ page[x][p] # "complete" /\ page'[x][p] = "failed"
    BY <1>1, <1>2 DEF AttemptSpent
  <2> QED
    BY <2>1 DEF Rows, Outstanding
<1>5. FailedOK'
  <2> SUFFICES ASSUME pc' = "failed", Known(cur), chapter[cur].resolved
               PROVE  Rows(cur)' = {} \/ \E p \in Page : page'[cur][p] = "failed"
    BY <1>1 DEF FailedOK, AttemptSpent, Leave, Known
  <2>1. cur' = cur /\ (Min(queue) \in Rows(cur) => page'[cur][Min(queue)] = "failed")
    BY <1>1 DEF AttemptSpent, Leave
  <2>2. Rows(cur)' = Rows(cur)
    BY <1>2, <1>4, <2>1
  <2> QED
    BY <1>2, <1>3, <2>1, <2>2
<1>6. HopeOK'
  <2> SUFFICES ASSUME ~stopRequested, NEW x \in Chapter, Wanted(x)' PROVE Hope(x)'
    BY DEF HopeOK
  <2>1. /\ IsCancelled(x)' = IsCancelled(x) /\ CallWill(x)' = CallWill(x)
        /\ todo' = todo /\ pc' \in AtChapter \cup {"next"}
    BY <1>1 DEF IsCancelled, CallWill, AttemptSpent, Leave, AtChapter
  <2>2. Sure => Sure'
    BY <1>1, <2>1 DEF Sure, AtChapter, AttemptSpent, Leave
  <2>3. Waiting(x) => Waiting(x)'
    BY <2>1 DEF Waiting
  <2>4. CASE x # cur
    <3>1. cur' # x
      BY <1>1, <2>4, NoCallIsNone DEF AttemptSpent, Leave
    <3>2. Wanted(x)
      BY <1>4, <2>1, <3>1, <2>4 DEF Wanted
    <3> QED
      BY <2>1, <2>2, <2>3, <2>4, <3>2 DEF HopeOK, Hope, Handled, TimerWill
  <2>5. CASE x = cur
    <3>1. ~IsCancelled(cur) /\ Known(cur)
      BY <1>2, <2>1, <2>5, StateOf DEF Wanted
    <3>2. Wanted(cur)
      BY <1>1, <1>2, <1>4, <2>1, <2>5, NoCallIsNone DEF Wanted, Fetching, AttemptSpent, Leave
    <3>3. Sure \/ Handled(cur) \/ CallWill(cur)
      BY <1>2, <2>5, <3>2 DEF HopeOK, Hope, Waiting, TimerWill
    <3>4. CASE landed
      BY <1>1, <2>5, <3>1, <3>4 DEF AttemptSpent, Hope, Handled, Fetching
    <3>5. CASE Handled(cur) /\ ~landed
      <4>1. chapter[cur].resolved
        BY <3>5 DEF Handled, Fetching
      <4>2. Outstanding(cur) # {}
        BY <3>2, <4>1 DEF Wanted
      <4>3. Min(queue) \in Rows(cur)
        BY <1>3, <3>1, <4>1, <4>2 DEF Outstanding
      <4> QED
        BY <1>1, <1>2, <2>5, <3>1, <4>1, <4>3 DEF AttemptSpent, Hope, Handled, Fetching
    <3> QED
      BY <2>1, <2>2, <2>5, <3>3, <3>4, <3>5 DEF Hope
  <2> QED
    BY <2>4, <2>5
<1> QED
  BY <1>5, <1>6

-----------------------------------------------------------------------------
(* KeepInv, action by action: the loop, its failures and the timers         *)

LEMMA TopKeeps ==
  ASSUME KeepInv, ~Overlap, Top
  PROVE  KeepInv' /\ PagesStay
<1> USE DEF Top, InLoop, Pending, loop, control, flags, calls, host, stored
<1>1. KeepFacts
  BY KeepIs
<1>2. /\ StoreTypes' /\ FlagTypes' /\ CallTypes' /\ SpentTypes' /\ EnqueueOK' /\ BulkOK'
      /\ RowsOK' /\ PagesStay
  BY <1>1 DEF KeepFacts, StoreTypes, FlagTypes, CallTypes, SpentTypes, EnqueueOK, Known, BulkOK,
     RowsOK, Rows, PagesStay
<1>3. LoopTypes'
  <2>1. /\ todo' = [x \in DOMAIN todo' |-> todo'[x]] /\ DOMAIN todo' \subseteq Chapter
        /\ \A x \in DOMAIN todo' : todo'[x] \in BOOLEAN
    <3>1. CASE todo' = <<>>
      BY <3>1, NothingListed
    <3>2. CASE todo' = [x \in Pending |-> chapter[x].resolved]
      <4>1. \A x \in Pending : chapter[x].resolved \in BOOLEAN
        BY <1>1 DEF KeepFacts, StoreTypes, ChapterRow, NoChapter, Pending
      <4> QED
        BY <3>2, <4>1 DEF Pending
    <3> QED
      BY <3>1, <3>2
  <2> QED
    BY <1>1, <2>1 DEF KeepFacts, LoopTypes, AtChapter
<1>4. DeleteOK'
  BY <1>1, NoCallIsNone DEF KeepFacts, DeleteOK, Rows, Known, NoChapter
<1>5. ResolutionOK'
  BY DEF ResolutionOK, Rows
<1>6. QueueOK'
  BY DEF QueueOK, Fetching
<1>7. BytesOK'
  BY <1>1, PagesAreNaturals DEF KeepFacts, BytesOK, BytesBehindPages
<1> QED
  BY <1>2, <1>3, <1>4, <1>5, <1>6, <1>7, TypeParts DEF KeepInv

LEMMA EndPassKeeps ==
  ASSUME KeepInv, ~Overlap, EndPass
  PROVE  KeepInv' /\ PagesStay
<1> USE DEF EndPass, InLoop, loop, control, flags, calls, host, stored
<1>1. KeepFacts
  BY KeepIs
<1>2. /\ StoreTypes' /\ FlagTypes' /\ CallTypes' /\ SpentTypes' /\ EnqueueOK' /\ BulkOK'
      /\ RowsOK' /\ PagesStay
  BY <1>1 DEF KeepFacts, StoreTypes, FlagTypes, CallTypes, SpentTypes, EnqueueOK, Known, BulkOK,
     RowsOK, Rows, PagesStay
<1>3. LoopTypes'
  BY <1>1, PagesAreNaturals, AssumedConstants, NothingListed DEF KeepFacts, LoopTypes, StoreTypes,
     AtChapter, Rows, Known, ChapterRow, NoChapter
<1>4. DeleteOK'
  BY <1>1, NoCallIsNone DEF KeepFacts, DeleteOK, Rows, Known, NoChapter
<1>5. ResolutionOK'
  BY DEF ResolutionOK, Rows
<1>6. QueueOK'
  BY DEF QueueOK, Fetching
<1>7. BytesOK'
  BY <1>1, PagesAreNaturals DEF KeepFacts, BytesOK, BytesBehindPages
<1> QED
  BY <1>2, <1>3, <1>4, <1>5, <1>6, <1>7, TypeParts DEF KeepInv

LEMMA TakeChapterKeeps ==
  ASSUME KeepInv, ~Overlap, TakeChapter
  PROVE  KeepInv' /\ PagesStay
<1> USE DEF TakeChapter, InLoop, IsCancelled, loop, control, flags, calls, host, stored
<1>1. KeepFacts
  BY KeepIs
<1>2. \E c \in Chapter : Restated(c)
  BY <1>1, MarkedWritten DEF KeepFacts, Restated, Known, StoreTypes, LoopTypes
<1>3. FlagTypes' /\ CallTypes' /\ SpentTypes' /\ PagesStay
  BY <1>1 DEF KeepFacts, FlagTypes, CallTypes, SpentTypes, PagesStay, Rows
<1>4. StoreTypes'
  BY <1>1, <1>2, PagesAreNaturals DEF KeepFacts, StoreTypes, EnqueueCall, DeleteCall, Restated
<1>5. LoopTypes'
  BY <1>1, <1>2, PagesAreNaturals, AssumedConstants DEF KeepFacts, LoopTypes, StoreTypes, AtChapter,
     Rows
<1>6. EnqueueOK'
  BY <1>1, <1>2, NoCallIsNone DEF KeepFacts, EnqueueOK, Known, NoChapter, CallTypes, EnqueueCall,
     DeleteOK, Restated, StoreTypes
<1>7. DeleteOK'
  BY <1>1, <1>2, NoCallIsNone DEF KeepFacts, DeleteOK, Rows, Known, NoChapter, StoreTypes,
     CallTypes, DeleteCall, Free, Restated, LoopTypes, AtChapter
<1>8. BulkOK'
  BY <1>1, <1>2, NoCallIsNone DEF KeepFacts, BulkOK, CallTypes, Restated, DeleteOK
<1>9. RowsOK'
  BY <1>1, <1>2, PagesAreNaturals, NoCallIsNone DEF KeepFacts, RowsOK, Rows, Known, NoChapter,
     StoreTypes, LoopTypes, CallTypes, ResolutionOK, EnqueueOK, EnqueueCall, DeleteCall, Restated,
     AtChapter
<1>10. ResolutionOK'
  BY DEF ResolutionOK, Rows, Known, StoreTypes
<1>11. QueueOK'
  BY DEF QueueOK, Fetching, StoreTypes
<1>12. BytesOK'
  BY <1>1, <1>2, PagesAreNaturals DEF KeepFacts, BytesOK, BytesBehindPages
<1> QED
  BY <1>3, <1>4, <1>5, <1>6, <1>7, <1>8, <1>9, <1>10, <1>11, <1>12, TypeParts DEF KeepInv

LEMMA ResolveKeeps ==
  ASSUME KeepInv, ~Overlap, Resolve
  PROVE  KeepInv' /\ PagesStay
<1> USE DEF Resolve, InLoop, loop, control, flags, calls, host, stored
<1>1. KeepFacts
  BY KeepIs
<1>2. /\ StoreTypes' /\ FlagTypes' /\ CallTypes' /\ SpentTypes' /\ EnqueueOK' /\ BulkOK'
      /\ RowsOK' /\ PagesStay
  BY <1>1 DEF KeepFacts, StoreTypes, FlagTypes, CallTypes, SpentTypes, EnqueueOK, Known, BulkOK,
     RowsOK, Rows, PagesStay
<1>3. LoopTypes'
  <2>1. CASE Known(cur)
    <3>1. cur \in Chapter /\ copy' \in ChapterRow
      BY <1>1, <2>1 DEF KeepFacts, LoopTypes, StoreTypes, AtChapter
    <3> QED
      BY <1>1, <2>1, <3>1, PagesAreNaturals DEF KeepFacts, LoopTypes, AtChapter
  <2>2. CASE ~Known(cur)
    BY <1>1, <2>2, LeaveTypes DEF KeepFacts
  <2> QED
    BY <2>1, <2>2
<1>4. DeleteOK'
  BY NoCallIsNone DEF KeepFacts, DeleteOK, Rows
<1>5. ResolutionOK'
  BY PagesAreNaturals, NoCallIsNone DEF KeepFacts, ResolutionOK, Rows, Known, StoreTypes, LoopTypes,
     DeleteCall, EnqueueCall, Restated, Leave
<1>6. QueueOK'
  BY PagesAreNaturals DEF KeepFacts, QueueOK, Fetching, StoreTypes, LoopTypes, Outstanding, RowsOK,
     Leave
<1>7. BytesOK'
  BY <1>1, PagesAreNaturals DEF KeepFacts, BytesOK, BytesBehindPages, StoreTypes, LoopTypes,
     AtChapter, QueueOK, DeleteCall, CallTypes, Leave
<1> QED
  BY <1>2, <1>3, <1>4, <1>5, <1>6, <1>7, TypeParts DEF KeepInv

LEMMA ResolveFailsKeeps ==
  ASSUME KeepInv, ~Overlap, ResolveFails
  PROVE  KeepInv' /\ PagesStay
<1> USE DEF ResolveFails, InLoop, loop, control, flags, calls, host, stored
<1>1. KeepFacts
  BY KeepIs
<1>2. Restated(cur)
  BY <1>1, StateWritten DEF KeepFacts, Restated, Known, StoreTypes, LoopTypes, EnqueueCall,
     ChapterState
<1>3. FlagTypes' /\ CallTypes' /\ PagesStay
  BY <1>1 DEF KeepFacts, FlagTypes, CallTypes, PagesStay, Rows
<1>4. StoreTypes'
  BY <1>1, <1>2, PagesAreNaturals DEF KeepFacts, StoreTypes, LoopTypes, CallTypes, ChapterState,
     ChapterRow, DeleteCall, Restated, Leave
<1>5. LoopTypes'
  BY <1>1, <1>2, PagesAreNaturals, AssumedConstants, LeaveTypes DEF KeepFacts, LoopTypes,
     StoreTypes, AtChapter, Rows, Known, ChapterRow, NoChapter
<1>6. SpentTypes'
  BY <1>1, <1>2, AssumedConstants, EventIs DEF KeepFacts, SpentTypes, Spend, Leave
<1>7. EnqueueOK'
  BY <1>1, <1>2, NoCallIsNone DEF KeepFacts, EnqueueOK, Known, NoChapter, CallTypes, EnqueueCall,
     DeleteOK, Restated, StoreTypes, Leave
<1>8. DeleteOK'
  BY <1>1, <1>2, NoCallIsNone DEF KeepFacts, DeleteOK, Rows, Known, NoChapter, StoreTypes,
     CallTypes, DeleteCall, Free, Restated, LoopTypes, AtChapter, Leave
<1>9. BulkOK'
  BY <1>1, <1>2, NoCallIsNone DEF KeepFacts, BulkOK, Known, NoChapter, StoreTypes, CallTypes,
     Restated, DeleteOK, Row
<1>10. RowsOK'
  BY <1>1, <1>2, PagesAreNaturals, NoCallIsNone DEF KeepFacts, RowsOK, Rows, Known, NoChapter,
     StoreTypes, LoopTypes, CallTypes, EnqueueOK, EnqueueCall, DeleteCall, Restated, AtChapter,
     Leave
<1>11. ResolutionOK'
  BY <1>1, <1>2, PagesAreNaturals, NoCallIsNone DEF KeepFacts, ResolutionOK, DeleteCall,
     EnqueueCall, Restated, Leave
<1>12. QueueOK'
  BY <1>1, <1>2, PagesAreNaturals DEF KeepFacts, QueueOK, Outstanding, RowsOK, Leave
<1>13. BytesOK'
  BY <1>1, <1>2, PagesAreNaturals DEF KeepFacts, BytesOK, BytesBehindPages, StoreTypes, LoopTypes,
     AtChapter, QueueOK, DeleteCall, CallTypes, Leave
<1> QED
  BY <1>1, <1>3, <1>4, <1>5, <1>6, <1>7, <1>8, <1>9, <1>10, <1>11, <1>12, <1>13, TypeParts DEF
     KeepInv

LEMMA ResolveLimitedKeeps ==
  ASSUME KeepInv, ~Overlap, ResolveLimited
  PROVE  KeepInv' /\ PagesStay
<1> USE DEF ResolveLimited, InLoop, loop, control, flags, calls, host, stored
<1>1. KeepFacts
  BY KeepIs
<1>2. StoreTypes' /\ CallTypes' /\ EnqueueOK' /\ BulkOK' /\ RowsOK' /\ PagesStay
  BY <1>1 DEF KeepFacts, StoreTypes, CallTypes, EnqueueOK, Known, BulkOK, RowsOK, Rows, PagesStay
<1>3. LoopTypes'
  BY <1>1, PagesAreNaturals, AssumedConstants, LeaveTypes DEF KeepFacts, LoopTypes, StoreTypes,
     AtChapter, Rows, Known, ChapterRow, NoChapter
<1>4. FlagTypes'
  BY <1>1 DEF KeepFacts, FlagTypes, Leave
<1>5. SpentTypes'
  BY <1>1, AssumedConstants, EventIs DEF KeepFacts, SpentTypes, Spend, Leave
<1>6. DeleteOK'
  BY <1>1, NoCallIsNone DEF KeepFacts, DeleteOK, Rows, Known, NoChapter, StoreTypes, CallTypes,
     LoopTypes, AtChapter, Leave
<1>7. ResolutionOK'
  BY PagesAreNaturals, NoCallIsNone DEF KeepFacts, ResolutionOK, Rows, Known, StoreTypes, LoopTypes,
     DeleteCall, EnqueueCall, Restated, Leave
<1>8. QueueOK'
  BY PagesAreNaturals DEF KeepFacts, QueueOK, Fetching, StoreTypes, LoopTypes, Outstanding, RowsOK,
     Leave
<1>9. BytesOK'
  BY <1>1, PagesAreNaturals DEF KeepFacts, BytesOK, BytesBehindPages, StoreTypes, LoopTypes,
     AtChapter, QueueOK, DeleteCall, CallTypes, Leave
<1> QED
  BY <1>2, <1>3, <1>4, <1>5, <1>6, <1>7, <1>8, <1>9, TypeParts DEF KeepInv

LEMMA WriteRowKeeps ==
  ASSUME KeepInv, ~Overlap, WriteRow
  PROVE  KeepInv' /\ PagesStay
<1> USE DEF WriteRow, InLoop, PutPage, loop, control, flags, calls, host, stored
<1>1. KeepFacts
  BY KeepIs
<1>2. FlagTypes' /\ CallTypes' /\ SpentTypes' /\ EnqueueOK' /\ BulkOK'
  BY <1>1 DEF KeepFacts, FlagTypes, CallTypes, SpentTypes, EnqueueOK, Known, BulkOK
<1>3. StoreTypes'
  BY <1>1, PagesAreNaturals DEF KeepFacts, StoreTypes, LoopTypes, CallTypes, ChapterState
<1>4. LoopTypes'
  BY <1>1, PagesAreNaturals, AssumedConstants DEF KeepFacts, LoopTypes, StoreTypes
<1>5. DeleteOK'
  BY <1>1, NoCallIsNone DEF KeepFacts, DeleteOK, Rows, Known, NoChapter
<1>6. RowsOK'
  BY <1>1, PagesAreNaturals, NoCallIsNone DEF KeepFacts, RowsOK, Rows, Known, NoChapter, StoreTypes,
     LoopTypes, CallTypes, ResolutionOK
<1>7. ResolutionOK'
  BY <1>1, PagesAreNaturals, NoCallIsNone DEF KeepFacts, ResolutionOK, Rows, Known, StoreTypes,
     LoopTypes, CallTypes, AtChapter, Free
<1>8. QueueOK'
  BY DEF QueueOK, Fetching
<1>9. BytesOK'
  BY <1>1, PagesAreNaturals DEF KeepFacts, BytesOK, BytesBehindPages, StoreTypes, LoopTypes,
     AtChapter, ResolutionOK
<1>10. PagesStay
  BY <1>1, PagesAreNaturals DEF KeepFacts, PagesStay, StoreTypes, Fetching, ResolutionOK, Rows
<1> QED
  BY <1>1, <1>2, <1>3, <1>4, <1>5, <1>6, <1>7, <1>8, <1>9, <1>10, TypeParts DEF KeepInv

LEMMA WriteResolvedKeeps ==
  ASSUME KeepInv, ~Overlap, WriteResolved
  PROVE  KeepInv' /\ PagesStay
<1> USE DEF WriteResolved, InLoop, loop, control, flags, calls, host, stored
<1>1. KeepFacts
  BY KeepIs
<1>2. /\ chapter' \in [Chapter -> ChapterRow]
      /\ Known(cur)' /\ Known(cur) /\ chapter'[cur].resolved = TRUE
      /\ chapter'[cur].state = chapter[cur].state
      /\ \A x \in Chapter : x # cur => chapter'[x] = chapter[x]
  <2> DEFINE row == [copy EXCEPT !.resolved = TRUE]
  <2>1. cur \in Chapter /\ copy = chapter[cur] /\ Known(cur) /\ copy \in Row
    BY <1>1 DEF KeepFacts, LoopTypes, AtChapter, ResolutionOK, StoreTypes, Known, Row
  <2>2. /\ row \in [state : ChapterState, resolved : BOOLEAN]
        /\ row.resolved = TRUE /\ row.state = copy.state
    BY ONLY <2>1, RowMade
  <2>3. row \in Row
    BY ONLY <2>2, RowMade
  <2>4. chapter' = [chapter EXCEPT ![cur] = row]
    OBVIOUS
  <2> HIDE DEF row
  <2> QED
    BY <1>1, <2>1, <2>2, <2>3, <2>4, RowWritten DEF KeepFacts
<1>3. FlagTypes' /\ CallTypes' /\ SpentTypes' /\ PagesStay
  BY <1>1 DEF KeepFacts, FlagTypes, CallTypes, SpentTypes, PagesStay, Rows
<1>4. StoreTypes'
  BY <1>1, <1>2, PagesAreNaturals DEF KeepFacts, StoreTypes, LoopTypes, CallTypes
<1>5. LoopTypes'
  BY <1>1, <1>2, PagesAreNaturals, AssumedConstants DEF KeepFacts, LoopTypes, StoreTypes, AtChapter,
     Rows
<1>6. EnqueueOK'
  BY <1>1, <1>2, NoCallIsNone DEF KeepFacts, EnqueueOK, Known
<1>7. DeleteOK'
  BY <1>1, <1>2, NoCallIsNone DEF KeepFacts, DeleteOK, Rows, Known, NoChapter
<1>8. BulkOK'
  BY <1>1, <1>2, NoCallIsNone DEF KeepFacts, BulkOK, Known, NoChapter
<1>9. RowsOK'
  BY <1>1, <1>2, PagesAreNaturals, NoCallIsNone DEF KeepFacts, RowsOK, Rows, Known, NoChapter,
     StoreTypes, LoopTypes, CallTypes
<1>10. ResolutionOK'
  BY DEF ResolutionOK, Rows, Known, StoreTypes
<1>11. QueueOK'
  BY DEF QueueOK, Fetching, StoreTypes
<1>12. BytesOK'
  BY <1>1, <1>2, PagesAreNaturals DEF KeepFacts, BytesOK, BytesBehindPages
<1> QED
  BY <1>3, <1>4, <1>5, <1>6, <1>7, <1>8, <1>9, <1>10, <1>11, <1>12, TypeParts DEF KeepInv

LEMMA ResolvedKeeps ==
  ASSUME KeepInv, ~Overlap, Resolved
  PROVE  KeepInv' /\ PagesStay
<1> USE DEF Resolved, InLoop, loop, control, flags, calls, host, stored
<1>1. KeepFacts
  BY KeepIs
<1>2. Restated(cur)
  BY <1>1, RecomputedWritten DEF KeepFacts, Restated, Known, StoreTypes, LoopTypes, AtChapter,
     CallTypes, EnqueueCall, ChapterState
<1>3. FlagTypes' /\ CallTypes' /\ SpentTypes' /\ PagesStay
  BY <1>1 DEF KeepFacts, FlagTypes, CallTypes, SpentTypes, PagesStay, Rows
<1>4. StoreTypes'
  BY <1>1, <1>2, PagesAreNaturals DEF KeepFacts, StoreTypes, LoopTypes, CallTypes, ChapterState,
     ChapterRow, DeleteCall, Restated, Leave
<1>5. LoopTypes'
  BY <1>1, <1>2, PagesAreNaturals, AssumedConstants, LeaveTypes DEF KeepFacts, LoopTypes,
     StoreTypes, AtChapter, Rows, Known, ChapterRow, NoChapter
<1>6. EnqueueOK'
  BY <1>1, <1>2, NoCallIsNone DEF KeepFacts, EnqueueOK, Known, NoChapter, CallTypes, EnqueueCall,
     DeleteOK, Restated, StoreTypes, Leave
<1>7. DeleteOK'
  BY <1>1, <1>2, NoCallIsNone DEF KeepFacts, DeleteOK, Rows, Known, NoChapter, StoreTypes,
     CallTypes, DeleteCall, Free, Restated, LoopTypes, AtChapter, Leave
<1>8. BulkOK'
  BY <1>1, <1>2, NoCallIsNone DEF KeepFacts, BulkOK, Known, NoChapter, StoreTypes, CallTypes,
     Restated, DeleteOK, Row
<1>9. RowsOK'
  BY <1>1, <1>2, PagesAreNaturals, NoCallIsNone DEF KeepFacts, RowsOK, Rows, Known, NoChapter,
     StoreTypes, LoopTypes, CallTypes, EnqueueOK, EnqueueCall, DeleteCall, Restated, AtChapter,
     Leave
<1>10. ResolutionOK'
  BY <1>1, <1>2, PagesAreNaturals, NoCallIsNone DEF KeepFacts, ResolutionOK, DeleteCall,
     EnqueueCall, Restated, Leave
<1>11. QueueOK'
  BY <1>1, <1>2, PagesAreNaturals DEF KeepFacts, QueueOK, Fetching, StoreTypes, LoopTypes,
     Outstanding, RowsOK, Leave
<1>12. BytesOK'
  BY <1>1, <1>2, PagesAreNaturals DEF KeepFacts, BytesOK, BytesBehindPages, StoreTypes, LoopTypes,
     AtChapter, QueueOK, DeleteCall, CallTypes, Leave
<1> QED
  BY <1>3, <1>4, <1>5, <1>6, <1>7, <1>8, <1>9, <1>10, <1>11, <1>12, TypeParts DEF KeepInv

LEMMA ReadPagesKeeps ==
  ASSUME KeepInv, ~Overlap, ReadPages
  PROVE  KeepInv' /\ PagesStay
<1> USE DEF ReadPages, InLoop, Outstanding, loop, control, flags, calls, host, stored
<1>1. KeepFacts
  BY KeepIs
<1>2. Restated(cur)
  BY <1>1, MarkedWritten DEF KeepFacts, Restated, Known, StoreTypes, LoopTypes, AtChapter,
     CallTypes, EnqueueCall, ChapterState
<1>3. FlagTypes' /\ CallTypes' /\ SpentTypes' /\ PagesStay
  BY <1>1 DEF KeepFacts, FlagTypes, CallTypes, SpentTypes, PagesStay, Rows
<1>4. StoreTypes'
  BY <1>1, <1>2, PagesAreNaturals DEF KeepFacts, StoreTypes, LoopTypes, CallTypes, ChapterState,
     ChapterRow, DeleteCall, Restated, Leave
<1>5. LoopTypes'
  BY <1>1, <1>2, PagesAreNaturals, AssumedConstants, LeaveTypes DEF KeepFacts, LoopTypes,
     StoreTypes, AtChapter, Rows, Known, ChapterRow, NoChapter
<1>6. EnqueueOK'
  BY <1>1, <1>2, NoCallIsNone DEF KeepFacts, EnqueueOK, Known, NoChapter, CallTypes, EnqueueCall,
     DeleteOK, Restated, StoreTypes, Leave
<1>7. DeleteOK'
  BY <1>1, <1>2, NoCallIsNone DEF KeepFacts, DeleteOK, Rows, Known, NoChapter, StoreTypes,
     CallTypes, DeleteCall, Free, Restated, LoopTypes, AtChapter, Leave
<1>8. BulkOK'
  BY <1>1, <1>2, NoCallIsNone DEF KeepFacts, BulkOK, Known, NoChapter, StoreTypes, CallTypes,
     Restated, DeleteOK, Row
<1>9. RowsOK'
  BY <1>1, <1>2, PagesAreNaturals, NoCallIsNone DEF KeepFacts, RowsOK, Rows, Known, NoChapter,
     StoreTypes, LoopTypes, CallTypes, EnqueueOK, EnqueueCall, DeleteCall, Restated, AtChapter,
     Leave
<1>10. ResolutionOK'
  BY <1>1, <1>2, PagesAreNaturals, NoCallIsNone DEF KeepFacts, ResolutionOK, DeleteCall,
     EnqueueCall, Restated, Leave
<1>11. QueueOK'
  BY <1>1, <1>2, PagesAreNaturals DEF KeepFacts, QueueOK, Fetching, StoreTypes, LoopTypes,
     Outstanding, RowsOK, Leave
<1>12. BytesOK'
  BY <1>1, <1>2, PagesAreNaturals DEF KeepFacts, BytesOK, BytesBehindPages, StoreTypes, LoopTypes,
     AtChapter, QueueOK, DeleteCall, CallTypes, Leave
<1> QED
  BY <1>3, <1>4, <1>5, <1>6, <1>7, <1>8, <1>9, <1>10, <1>11, <1>12, TypeParts DEF KeepInv

LEMMA NextPageKeeps ==
  ASSUME KeepInv, ~Overlap, NextPage
  PROVE  KeepInv' /\ PagesStay
<1> USE DEF NextPage, InLoop, IsCancelled, loop, control, flags, calls, host, stored
<1>1. KeepFacts
  BY KeepIs
<1>2. /\ StoreTypes' /\ FlagTypes' /\ CallTypes' /\ SpentTypes' /\ EnqueueOK' /\ BulkOK'
      /\ RowsOK' /\ PagesStay
  BY <1>1 DEF KeepFacts, StoreTypes, FlagTypes, CallTypes, SpentTypes, EnqueueOK, Known, BulkOK,
     RowsOK, Rows, PagesStay
<1>3. LoopTypes'
  BY <1>1, PagesAreNaturals, AssumedConstants, LeaveTypes DEF KeepFacts, LoopTypes, StoreTypes,
     AtChapter, Rows
<1>4. DeleteOK'
  BY <1>1, NoCallIsNone DEF KeepFacts, DeleteOK, Rows, Known, NoChapter, StoreTypes, CallTypes,
     LoopTypes, AtChapter, Leave
<1>5. ResolutionOK'
  BY PagesAreNaturals, NoCallIsNone DEF KeepFacts, ResolutionOK, Rows, Known, StoreTypes, LoopTypes,
     DeleteCall, EnqueueCall, Restated, Leave
<1>6. QueueOK'
  BY <1>1, PagesAreNaturals DEF KeepFacts, QueueOK, Fetching, StoreTypes, LoopTypes, Outstanding,
     RowsOK, Leave
<1>7. BytesOK'
  BY <1>1, PagesAreNaturals DEF KeepFacts, BytesOK, BytesBehindPages, StoreTypes, LoopTypes,
     AtChapter, QueueOK, DeleteCall, CallTypes, Leave
<1> QED
  BY <1>2, <1>3, <1>4, <1>5, <1>6, <1>7, TypeParts DEF KeepInv

LEMMA WriteFileKeeps ==
  ASSUME KeepInv, ~Overlap, WriteFile
  PROVE  KeepInv' /\ PagesStay
<1> USE DEF WriteFile, InLoop, loop, control, flags, calls, host, stored
<1>1. KeepFacts
  BY KeepIs
<1>2. FlagTypes' /\ CallTypes' /\ SpentTypes' /\ EnqueueOK' /\ BulkOK' /\ RowsOK' /\ PagesStay
  BY <1>1 DEF KeepFacts, FlagTypes, CallTypes, SpentTypes, EnqueueOK, Known, BulkOK, RowsOK, Rows,
     PagesStay
<1>3. StoreTypes'
  BY <1>1, PagesAreNaturals DEF KeepFacts, StoreTypes, LoopTypes, CallTypes, ChapterState
<1>4. LoopTypes'
  BY <1>1, PagesAreNaturals, AssumedConstants DEF KeepFacts, LoopTypes, StoreTypes, AtChapter
<1>5. DeleteOK'
  BY <1>1, NoCallIsNone DEF KeepFacts, DeleteOK, Rows, Known, NoChapter
<1>6. ResolutionOK'
  BY DEF ResolutionOK, Rows
<1>7. QueueOK'
  BY <1>1, PagesAreNaturals DEF KeepFacts, QueueOK, Fetching
<1>8. BytesOK'
  BY <1>1, PagesAreNaturals DEF KeepFacts, BytesOK, BytesBehindPages
<1> QED
  BY <1>1, <1>2, <1>3, <1>4, <1>5, <1>6, <1>7, <1>8, TypeParts DEF KeepInv

LEMMA FetchFailsKeeps ==
  ASSUME KeepInv, ~Overlap, FetchFails
  PROVE  KeepInv' /\ PagesStay
<1> USE DEF FetchFails, InLoop, IsCancelled, loop, control, flags, calls, host, stored
<1>1. KeepFacts
  BY KeepIs
<1>2. AttemptFails => AttemptSpent
  BY <1>1, AttemptFailsDoes
<1>3. FlagTypes' /\ CallTypes' /\ EnqueueOK' /\ BulkOK'
  BY <1>1 DEF KeepFacts, FlagTypes, CallTypes, EnqueueOK, Known, BulkOK
<1>4. StoreTypes'
  BY <1>1, <1>2, PagesAreNaturals DEF KeepFacts, StoreTypes, LoopTypes, CallTypes, ChapterState,
     DeleteCall, Restated, Leave, AttemptSpent
<1>5. LoopTypes'
  BY <1>1, <1>2, PagesAreNaturals, AssumedConstants, LeaveTypes DEF ChapterRow, NoChapter,
     AttemptSpent
<1>6. SpentTypes'
  BY <1>1, <1>2, AssumedConstants, EventIs DEF KeepFacts, SpentTypes, Spend
<1>7. DeleteOK'
  BY <1>1, <1>2, NoCallIsNone DEF KeepFacts, DeleteOK, Rows, Known, NoChapter, StoreTypes,
     CallTypes, DeleteCall, Free, Restated, LoopTypes, AtChapter, Leave, AttemptSpent
<1>8. RowsOK'
  BY <1>1, <1>2, PagesAreNaturals, NoCallIsNone DEF KeepFacts, RowsOK, Rows, Known, NoChapter,
     StoreTypes, LoopTypes, CallTypes, ResolutionOK, EnqueueCall, DeleteCall, Restated, AtChapter,
     Leave, AttemptSpent
<1>9. ResolutionOK'
  BY <1>2, PagesAreNaturals, NoCallIsNone DEF KeepFacts, ResolutionOK, Rows, Known, StoreTypes,
     LoopTypes, CallTypes, EnqueueCall, Restated, Leave, AttemptSpent
<1>10. QueueOK'
  BY <1>1, <1>2, PagesAreNaturals DEF KeepFacts, QueueOK, Fetching, StoreTypes, LoopTypes,
     AtChapter, RowsOK, Leave, AttemptSpent
<1>11. BytesOK'
  BY <1>1, <1>2, PagesAreNaturals DEF KeepFacts, BytesOK, BytesBehindPages, DeleteCall, CallTypes,
     Leave, AttemptSpent
<1>12. PagesStay
  BY <1>1, <1>2, PagesAreNaturals DEF KeepFacts, PagesStay, StoreTypes, LoopTypes, QueueOK,
     AtChapter, Known, RowsOK, Leave, AttemptSpent
<1> QED
  BY <1>3, <1>4, <1>5, <1>6, <1>7, <1>8, <1>9, <1>10, <1>11, <1>12, TypeParts DEF KeepInv

LEMMA FetchLimitedKeeps ==
  ASSUME KeepInv, ~Overlap, FetchLimited
  PROVE  KeepInv' /\ PagesStay
<1> USE DEF FetchLimited, InLoop, loop, control, flags, calls, host, stored
<1>1. KeepFacts
  BY KeepIs
<1>2. StoreTypes' /\ CallTypes' /\ EnqueueOK' /\ BulkOK' /\ RowsOK' /\ PagesStay
  BY <1>1 DEF KeepFacts, StoreTypes, CallTypes, EnqueueOK, Known, BulkOK, RowsOK, Rows, PagesStay
<1>3. LoopTypes'
  BY <1>1, PagesAreNaturals, AssumedConstants, LeaveTypes DEF KeepFacts, LoopTypes
<1>4. FlagTypes'
  BY <1>1 DEF KeepFacts, FlagTypes, Leave
<1>5. SpentTypes'
  BY <1>1, AssumedConstants, EventIs DEF KeepFacts, SpentTypes, Spend, Leave
<1>6. DeleteOK'
  BY <1>1, NoCallIsNone DEF KeepFacts, DeleteOK, Rows, Known, NoChapter, StoreTypes, CallTypes,
     LoopTypes, AtChapter, Leave
<1>7. ResolutionOK'
  BY PagesAreNaturals, NoCallIsNone DEF KeepFacts, ResolutionOK, Rows, Known, StoreTypes, LoopTypes,
     DeleteCall, EnqueueCall, Restated, Leave
<1>8. QueueOK'
  BY PagesAreNaturals DEF KeepFacts, QueueOK, Fetching, StoreTypes, LoopTypes, Outstanding, RowsOK,
     Leave
<1>9. BytesOK'
  BY <1>1, PagesAreNaturals DEF KeepFacts, BytesOK, BytesBehindPages, StoreTypes, LoopTypes,
     AtChapter, QueueOK, DeleteCall, CallTypes, Leave
<1> QED
  BY <1>2, <1>3, <1>4, <1>5, <1>6, <1>7, <1>8, <1>9, TypeParts DEF KeepInv

LEMMA RecordPageKeeps ==
  ASSUME KeepInv, ~Overlap, RecordPage
  PROVE  KeepInv' /\ PagesStay
<1> USE DEF RecordPage, InLoop, IsCancelled, loop, control, flags, calls, host, stored
<1>1. KeepFacts
  BY KeepIs
<1>2. AttemptFails => AttemptSpent
  BY <1>1, AttemptFailsDoes
<1>3. PutPage(cur, Min(queue), "complete") =>
        /\ page' \in [Chapter -> [Page -> {"absent", "queued", "complete", "failed"}]]
        /\ page'[cur][Min(queue)] = "complete"
        /\ \A x \in Chapter, q \in Page : x # cur \/ q # Min(queue) => page'[x][q] = page[x][q]
  <2>1. cur \in Chapter /\ Min(queue) \in Page
    BY <1>1 DEF KeepFacts, LoopTypes, AtChapter
  <2> QED
    BY <1>1, <2>1, PageWritten DEF KeepFacts
<1>4. FlagTypes' /\ CallTypes' /\ SpentTypes' /\ EnqueueOK' /\ BulkOK'
  BY <1>1 DEF KeepFacts, FlagTypes, CallTypes, SpentTypes, EnqueueOK, Known, BulkOK
<1>5. StoreTypes'
  BY <1>1, <1>2, <1>3, PagesAreNaturals DEF KeepFacts, StoreTypes, LoopTypes, CallTypes,
     ChapterState, DeleteCall, Restated, Leave, AttemptSpent
<1>6. LoopTypes'
  BY <1>1, <1>2, <1>3, PagesAreNaturals, AssumedConstants, LeaveTypes DEF KeepFacts, LoopTypes,
     StoreTypes, AtChapter, Rows, Known, ChapterRow, NoChapter, AttemptSpent
<1>7. DeleteOK'
  BY <1>1, <1>2, <1>3, NoCallIsNone DEF KeepFacts, DeleteOK, Rows, Known, NoChapter, StoreTypes,
     CallTypes, DeleteCall, Free, Restated, LoopTypes, AtChapter, Leave, AttemptSpent
<1>8. RowsOK'
  BY <1>1, <1>2, <1>3, PagesAreNaturals, NoCallIsNone DEF KeepFacts, RowsOK, Rows, Known, NoChapter,
     StoreTypes, LoopTypes, CallTypes, ResolutionOK, EnqueueCall, DeleteCall, Restated, AtChapter,
     Leave, AttemptSpent
<1>9. ResolutionOK'
  BY <1>1, <1>2, <1>3, PagesAreNaturals, NoCallIsNone DEF KeepFacts, ResolutionOK, Rows, Known,
     StoreTypes, DeleteCall, EnqueueCall, Restated, Leave, AttemptSpent
<1>10. QueueOK'
  BY <1>1, <1>2, <1>3, PagesAreNaturals DEF KeepFacts, QueueOK, Fetching, StoreTypes, Outstanding,
     RowsOK, Leave, AttemptSpent
<1>11. BytesOK'
  <2>1. /\ StoreTypes /\ cur \in Chapter /\ Min(queue) \in Page /\ BytesBehindPages /\ file' = file
        /\ <<cur, Min(queue)>> \in file \/ page[cur][Min(queue)] = "absent"
    BY <1>1 DEF KeepFacts, LoopTypes, AtChapter, BytesOK
  <2>2. CASE PutPage(cur, Min(queue), "complete") /\ Min(queue) \in Rows(cur) /\ pc' = "record"
    BY <1>3, <2>1, <2>2 DEF BytesOK, BytesBehindPages, Rows
  <2>3. CASE AttemptFails
    <3>1. pc' # "file"
      BY <1>2, <2>3 DEF AttemptSpent, Leave
    <3>2. BytesBehindPages'
      BY <1>2, <2>1, <2>3 DEF AttemptSpent, BytesBehindPages
    <3> QED
      BY <3>1, <3>2 DEF BytesOK
  <2> QED
    BY <2>2, <2>3
<1>12. PagesStay
  BY <1>1, <1>2, <1>3, PagesAreNaturals DEF KeepFacts, PagesStay, StoreTypes, LoopTypes, QueueOK,
     AtChapter, Known, RowsOK, Leave, AttemptSpent
<1> QED
  BY <1>1, <1>4, <1>5, <1>6, <1>7, <1>8, <1>9, <1>10, <1>11, <1>12, TypeParts DEF KeepInv

LEMMA RecordedKeeps ==
  ASSUME KeepInv, ~Overlap, Recorded
  PROVE  KeepInv' /\ PagesStay
<1> USE DEF Recorded, InLoop, IsCancelled, loop, control, flags, calls, host, stored
<1>1. KeepFacts
  BY KeepIs
<1>2. AttemptFails => AttemptSpent
  BY <1>1, AttemptFailsDoes
<1>3. Restated(cur)
  BY <1>1, RecomputedWritten DEF KeepFacts, Restated, Known, StoreTypes, LoopTypes
<1>4. FlagTypes' /\ CallTypes' /\ SpentTypes'
  BY <1>1 DEF KeepFacts, FlagTypes, CallTypes, SpentTypes
<1>5. StoreTypes'
  BY <1>1, <1>2, <1>3, PagesAreNaturals DEF KeepFacts, StoreTypes, LoopTypes, CallTypes,
     ChapterState, DeleteCall, Restated, Leave, AttemptSpent
<1>6. LoopTypes'
  <2>1. CASE Known(cur)
    <3>1. 0 \in 0..Attempts
      BY AssumedConstants
    <3> QED
      BY <1>1, <2>1, <3>1 DEF KeepFacts, LoopTypes, AtChapter
  <2>2. CASE ~Known(cur)
    BY <1>1, <1>2, <2>2 DEF AttemptSpent
  <2> QED
    BY <2>1, <2>2
<1>7. EnqueueOK'
  BY <1>1, <1>2, <1>3, NoCallIsNone DEF KeepFacts, EnqueueOK, Known, NoChapter, CallTypes,
     EnqueueCall, DeleteOK, Restated
<1>8. DeleteOK'
  BY <1>1, <1>2, <1>3, NoCallIsNone DEF KeepFacts, DeleteOK, Rows, Known, NoChapter, StoreTypes,
     CallTypes, DeleteCall, Free, Restated, LoopTypes, AtChapter, Leave, AttemptSpent
<1>9. BulkOK'
  BY <1>1, <1>2, <1>3, NoCallIsNone DEF KeepFacts, BulkOK, Known, NoChapter, StoreTypes, CallTypes,
     Restated, DeleteOK, Row
<1>10. RowsOK'
  BY <1>1, <1>2, <1>3, PagesAreNaturals, NoCallIsNone DEF KeepFacts, RowsOK, Rows, EnqueueCall,
     DeleteCall, Restated, AtChapter, Leave, AttemptSpent
<1>11. ResolutionOK'
  BY <1>1, <1>2, <1>3, PagesAreNaturals, NoCallIsNone DEF KeepFacts, ResolutionOK, Rows, Known,
     StoreTypes, DeleteCall, EnqueueCall, Restated, Leave, AttemptSpent
<1>12. QueueOK'
  BY <1>1, <1>2, <1>3, PagesAreNaturals DEF KeepFacts, QueueOK, Fetching, StoreTypes, LoopTypes,
     AtChapter, ResolutionOK, Rows, Outstanding, RowsOK, Leave, AttemptSpent
<1>13. BytesOK'
  BY <1>1, <1>2, <1>3, PagesAreNaturals DEF KeepFacts, BytesOK, BytesBehindPages, StoreTypes,
     LoopTypes, AtChapter, ResolutionOK, DeleteCall, CallTypes, Leave, AttemptSpent
<1>14. PagesStay
  BY <1>1, <1>2, <1>3, PagesAreNaturals DEF KeepFacts, PagesStay, Known, RowsOK, Leave, AttemptSpent
<1> QED
  BY <1>1, <1>4, <1>5, <1>6, <1>7, <1>8, <1>9, <1>10, <1>11, <1>12, <1>13, <1>14, TypeParts DEF
     KeepInv

LEMMA FailRecordedKeeps ==
  ASSUME KeepInv, ~Overlap, FailRecorded
  PROVE  KeepInv' /\ PagesStay
<1> USE DEF FailRecorded, InLoop, loop, control, flags, calls, host, stored
<1>1. KeepFacts
  BY KeepIs
<1>2. Restated(cur)
  BY <1>1, RecomputedWritten DEF KeepFacts, Restated, Known, StoreTypes, LoopTypes
<1>3. FlagTypes' /\ CallTypes' /\ SpentTypes' /\ PagesStay
  BY <1>1 DEF KeepFacts, FlagTypes, CallTypes, SpentTypes, PagesStay, Rows
<1>4. StoreTypes'
  BY <1>1, <1>2, PagesAreNaturals DEF KeepFacts, StoreTypes, EnqueueCall, DeleteCall, Restated
<1>5. LoopTypes'
  BY <1>1, <1>2, PagesAreNaturals, AssumedConstants DEF KeepFacts, LoopTypes, StoreTypes, AtChapter,
     Rows
<1>6. EnqueueOK'
  BY <1>1, <1>2, NoCallIsNone DEF KeepFacts, EnqueueOK, Known, NoChapter, CallTypes, EnqueueCall,
     DeleteOK, Restated, StoreTypes
<1>7. DeleteOK'
  BY <1>1, <1>2, NoCallIsNone DEF KeepFacts, DeleteOK, Rows, Known, NoChapter, StoreTypes,
     CallTypes, DeleteCall, Free, Restated, LoopTypes, AtChapter
<1>8. BulkOK'
  BY <1>1, <1>2, NoCallIsNone DEF KeepFacts, BulkOK, CallTypes, Restated, DeleteOK
<1>9. RowsOK'
  BY <1>1, <1>2, PagesAreNaturals, NoCallIsNone DEF KeepFacts, RowsOK, Rows, Known, NoChapter,
     StoreTypes, LoopTypes, CallTypes, ResolutionOK, EnqueueOK, EnqueueCall, DeleteCall, Restated,
     AtChapter
<1>10. ResolutionOK'
  BY DEF ResolutionOK, Rows, Known, StoreTypes
<1>11. QueueOK'
  BY <1>1, <1>2, PagesAreNaturals DEF KeepFacts, QueueOK, Fetching, StoreTypes
<1>12. BytesOK'
  BY <1>1, <1>2, PagesAreNaturals DEF KeepFacts, BytesOK, BytesBehindPages
<1> QED
  BY <1>3, <1>4, <1>5, <1>6, <1>7, <1>8, <1>9, <1>10, <1>11, <1>12, TypeParts DEF KeepInv

LEMMA ExitLoopKeeps ==
  ASSUME KeepInv, ~Overlap, ExitLoop
  PROVE  KeepInv' /\ PagesStay
<1> USE DEF ExitLoop, loop, control, flags, calls, host, stored
<1>1. KeepFacts
  BY KeepIs
<1>2. StoreTypes' /\ CallTypes' /\ SpentTypes' /\ EnqueueOK' /\ BulkOK' /\ RowsOK' /\ PagesStay
  BY <1>1 DEF KeepFacts, StoreTypes, CallTypes, SpentTypes, EnqueueOK, Known, BulkOK, RowsOK, Rows,
     PagesStay
<1>3. LoopTypes'
  BY <1>1, PagesAreNaturals, AssumedConstants DEF KeepFacts, LoopTypes, StoreTypes, AtChapter
<1>4. FlagTypes'
  BY <1>1 DEF KeepFacts, FlagTypes
<1>5. DeleteOK'
  BY <1>1, NoCallIsNone DEF KeepFacts, DeleteOK, Rows, Known, NoChapter
<1>6. ResolutionOK'
  BY DEF ResolutionOK, Rows
<1>7. QueueOK'
  BY DEF QueueOK, Fetching
<1>8. BytesOK'
  BY <1>1, PagesAreNaturals DEF KeepFacts, BytesOK, BytesBehindPages
<1> QED
  BY <1>1, <1>2, <1>3, <1>4, <1>5, <1>6, <1>7, <1>8, TypeParts DEF KeepInv

LEMMA SettleKeeps ==
  ASSUME KeepInv, ~Overlap, Settle
  PROVE  KeepInv' /\ PagesStay
<1> USE DEF Settle, loop, control, flags, calls, host, stored
<1>1. KeepFacts
  BY KeepIs
<1>2. StoreTypes' /\ CallTypes' /\ SpentTypes' /\ EnqueueOK' /\ BulkOK' /\ RowsOK' /\ PagesStay
  BY <1>1 DEF KeepFacts, StoreTypes, CallTypes, SpentTypes, EnqueueOK, Known, BulkOK, RowsOK, Rows,
     PagesStay
<1>3. LoopTypes'
  BY <1>1, PagesAreNaturals, AssumedConstants DEF KeepFacts, LoopTypes, StoreTypes, AtChapter
<1>4. FlagTypes'
  BY <1>1 DEF KeepFacts, FlagTypes
<1>5. DeleteOK'
  BY <1>1, NoCallIsNone DEF KeepFacts, DeleteOK, Rows, Known, NoChapter
<1>6. ResolutionOK'
  BY DEF ResolutionOK, Rows
<1>7. QueueOK'
  BY DEF QueueOK, Fetching
<1>8. BytesOK'
  BY <1>1, PagesAreNaturals DEF KeepFacts, BytesOK, BytesBehindPages
<1> QED
  BY <1>1, <1>2, <1>3, <1>4, <1>5, <1>6, <1>7, <1>8, TypeParts DEF KeepInv

LEMMA KickKeeps ==
  ASSUME KeepInv, ~Overlap, Kick
  PROVE  KeepInv' /\ PagesStay
<1> USE DEF Kick, Drain, loop, control, flags, calls, host, stored
<1>1. KeepFacts
  BY KeepIs
<1>2. StoreTypes' /\ CallTypes' /\ SpentTypes' /\ EnqueueOK' /\ BulkOK' /\ RowsOK' /\ PagesStay
  BY <1>1 DEF KeepFacts, StoreTypes, CallTypes, SpentTypes, EnqueueOK, Known, BulkOK, RowsOK, Rows,
     PagesStay
<1>3. LoopTypes'
  BY <1>1, PagesAreNaturals, AssumedConstants DEF KeepFacts, LoopTypes, StoreTypes, AtChapter
<1>4. FlagTypes'
  BY <1>1 DEF KeepFacts, FlagTypes
<1>5. DeleteOK'
  BY <1>1, NoCallIsNone DEF KeepFacts, DeleteOK, Rows, Known, NoChapter
<1>6. ResolutionOK'
  BY <1>1, PagesAreNaturals, NoCallIsNone DEF KeepFacts, ResolutionOK, Rows, Known, StoreTypes
<1>7. QueueOK'
  BY <1>1, PagesAreNaturals DEF KeepFacts, QueueOK, Fetching
<1>8. BytesOK'
  BY <1>1, PagesAreNaturals DEF KeepFacts, BytesOK, BytesBehindPages
<1> QED
  BY <1>1, <1>2, <1>3, <1>4, <1>5, <1>6, <1>7, <1>8, TypeParts DEF KeepInv

LEMMA StopKeeps ==
  ASSUME KeepInv, ~Overlap, Stop
  PROVE  KeepInv' /\ PagesStay
<1> USE DEF Stop, loop, control, flags, calls, host, stored
<1>1. KeepFacts
  BY KeepIs
<1>2. /\ StoreTypes' /\ LoopTypes' /\ CallTypes' /\ EnqueueOK' /\ DeleteOK' /\ BulkOK'
      /\ RowsOK' /\ ResolutionOK' /\ QueueOK' /\ BytesOK' /\ PagesStay
  BY <1>1 DEF KeepFacts, StoreTypes, LoopTypes, CallTypes, EnqueueOK, Known, DeleteOK, Rows, BulkOK,
     RowsOK, ResolutionOK, QueueOK, BytesOK, BytesBehindPages, PagesStay
<1>3. FlagTypes'
  BY <1>1 DEF KeepFacts, FlagTypes
<1>4. SpentTypes'
  BY <1>1, AssumedConstants, EventIs DEF KeepFacts, SpentTypes, Spend
<1> QED
  BY <1>1, <1>2, <1>3, <1>4, TypeParts DEF KeepInv

LEMMA IdleFiresKeeps ==
  ASSUME KeepInv, ~Overlap, IdleFires
  PROVE  KeepInv' /\ PagesStay
<1> USE DEF IdleFires, Drain, loop, control, flags, calls, host, stored
<1>1. KeepFacts
  BY KeepIs
<1>2. StoreTypes' /\ CallTypes' /\ SpentTypes' /\ EnqueueOK' /\ BulkOK' /\ RowsOK' /\ PagesStay
  BY <1>1 DEF KeepFacts, StoreTypes, CallTypes, SpentTypes, EnqueueOK, Known, BulkOK, RowsOK, Rows,
     PagesStay
<1>3. LoopTypes'
  BY <1>1, PagesAreNaturals, AssumedConstants DEF KeepFacts, LoopTypes, StoreTypes, AtChapter
<1>4. FlagTypes'
  BY <1>1 DEF KeepFacts, FlagTypes
<1>5. DeleteOK'
  BY <1>1, NoCallIsNone DEF KeepFacts, DeleteOK, Rows, Known, NoChapter
<1>6. ResolutionOK'
  BY <1>1, PagesAreNaturals, NoCallIsNone DEF KeepFacts, ResolutionOK, Rows, Known, StoreTypes
<1>7. QueueOK'
  BY <1>1, PagesAreNaturals DEF KeepFacts, QueueOK, Fetching
<1>8. BytesOK'
  BY <1>1, PagesAreNaturals DEF KeepFacts, BytesOK, BytesBehindPages, StoreTypes, LoopTypes,
     AtChapter, ResolutionOK, QueueOK, DeleteCall, CallTypes
<1> QED
  BY <1>1, <1>2, <1>3, <1>4, <1>5, <1>6, <1>7, <1>8, TypeParts DEF KeepInv

LEMMA HoldEndsKeeps ==
  ASSUME KeepInv, ~Overlap, HoldEnds
  PROVE  KeepInv' /\ PagesStay
<1> USE DEF HoldEnds, loop, control, flags, calls, host, stored
<1>1. KeepFacts
  BY KeepIs
<1>2. /\ StoreTypes' /\ LoopTypes' /\ CallTypes' /\ SpentTypes' /\ EnqueueOK' /\ DeleteOK'
      /\ BulkOK' /\ RowsOK' /\ ResolutionOK' /\ QueueOK' /\ BytesOK' /\ PagesStay
  BY <1>1 DEF KeepFacts, StoreTypes, LoopTypes, CallTypes, SpentTypes, EnqueueOK, Known, DeleteOK,
     Rows, BulkOK, RowsOK, ResolutionOK, QueueOK, BytesOK, BytesBehindPages, PagesStay
<1>3. FlagTypes'
  BY <1>1 DEF KeepFacts, FlagTypes
<1> QED
  BY <1>1, <1>2, <1>3, TypeParts DEF KeepInv

LEMMA UnblockFiresKeeps ==
  ASSUME KeepInv, ~Overlap, UnblockFires
  PROVE  KeepInv' /\ PagesStay
<1> USE DEF UnblockFires, Drain, loop, control, flags, calls, host, stored
<1>1. KeepFacts
  BY KeepIs
<1>2. StoreTypes' /\ CallTypes' /\ SpentTypes' /\ EnqueueOK' /\ BulkOK' /\ RowsOK' /\ PagesStay
  BY <1>1 DEF KeepFacts, StoreTypes, CallTypes, SpentTypes, EnqueueOK, Known, BulkOK, RowsOK, Rows,
     PagesStay
<1>3. LoopTypes'
  BY <1>1, PagesAreNaturals, AssumedConstants DEF KeepFacts, LoopTypes, StoreTypes, AtChapter
<1>4. FlagTypes'
  BY <1>1 DEF KeepFacts, FlagTypes
<1>5. DeleteOK'
  BY <1>1, NoCallIsNone DEF KeepFacts, DeleteOK, Rows, Known, NoChapter
<1>6. ResolutionOK'
  BY <1>1, PagesAreNaturals, NoCallIsNone DEF KeepFacts, ResolutionOK, Rows, Known, StoreTypes
<1>7. QueueOK'
  BY <1>1, PagesAreNaturals DEF KeepFacts, QueueOK, Fetching
<1>8. BytesOK'
  BY <1>1, PagesAreNaturals DEF KeepFacts, BytesOK, BytesBehindPages
<1> QED
  BY <1>1, <1>2, <1>3, <1>4, <1>5, <1>6, <1>7, <1>8, TypeParts DEF KeepInv

LEMMA GateFlipsKeeps ==
  ASSUME KeepInv, ~Overlap, GateFlips
  PROVE  KeepInv' /\ PagesStay
<1> USE DEF GateFlips, loop, control, flags, calls, host, stored
<1>1. KeepFacts
  BY KeepIs
<1>2. /\ StoreTypes' /\ LoopTypes' /\ CallTypes' /\ EnqueueOK' /\ DeleteOK' /\ BulkOK'
      /\ RowsOK' /\ ResolutionOK' /\ QueueOK' /\ BytesOK' /\ PagesStay
  BY <1>1 DEF KeepFacts, StoreTypes, LoopTypes, CallTypes, EnqueueOK, Known, DeleteOK, Rows, BulkOK,
     RowsOK, ResolutionOK, QueueOK, BytesOK, BytesBehindPages, PagesStay
<1>3. FlagTypes'
  BY <1>1 DEF KeepFacts, FlagTypes
<1>4. SpentTypes'
  BY <1>1, AssumedConstants, EventIs DEF KeepFacts, SpentTypes, Spend
<1> QED
  BY <1>1, <1>2, <1>3, <1>4, TypeParts DEF KeepInv

LEMMA CrashKeeps ==
  ASSUME KeepInv, ~Overlap, Crash
  PROVE  KeepInv' /\ PagesStay
<1> USE DEF Crash, loop, control, flags, calls, host, stored
<1>1. KeepFacts
  BY KeepIs
<1>2. StoreTypes' /\ RowsOK' /\ PagesStay
  BY <1>1 DEF KeepFacts, StoreTypes, RowsOK, Rows, Known, PagesStay
<1>3. LoopTypes'
  <2>1. DOMAIN todo' = {} /\ todo' = [x \in DOMAIN todo' |-> todo'[x]]
    BY NothingListed
  <2>2. attempt' \in 0..Attempts
    BY AssumedConstants
  <2> QED
    BY <2>1, <2>2 DEF LoopTypes, AtChapter
<1>4. FlagTypes'
  BY <1>1 DEF KeepFacts, FlagTypes
<1>5. CallTypes'
  BY DEF CallTypes, StoreTypes
<1>6. SpentTypes'
  BY <1>1, AssumedConstants, EventIs DEF KeepFacts, SpentTypes, Spend
<1>7. EnqueueOK'
  BY NoCallIsNone DEF KeepFacts, EnqueueOK
<1>8. DeleteOK'
  BY NoCallIsNone DEF KeepFacts, DeleteOK
<1>9. BulkOK'
  BY NoCallIsNone DEF KeepFacts, BulkOK
<1>10. ResolutionOK'
  BY DEF ResolutionOK, Rows
<1>11. QueueOK'
  BY DEF QueueOK, Fetching
<1>12. BytesOK'
  BY <1>1, PagesAreNaturals DEF KeepFacts, BytesOK, BytesBehindPages
<1> QED
  BY <1>1, <1>2, <1>3, <1>4, <1>5, <1>6, <1>7, <1>8, <1>9, <1>10, <1>11, <1>12, TypeParts DEF
     KeepInv

-----------------------------------------------------------------------------
(* KeepInv, action by action: the calls                                     *)

LEMMA EnqueueKeeps ==
  ASSUME KeepInv, ~Overlap, NEW c \in Chapter, Enqueue(c)
  PROVE  KeepInv' /\ PagesStay
<1> USE DEF Enqueue, InCall, loop, control, flags, calls, host, stored
<1>1. KeepFacts
  BY KeepIs
<1>2. LoopTypes' /\ BulkOK' /\ ResolutionOK' /\ QueueOK' /\ BytesOK' /\ PagesStay
  BY <1>1 DEF KeepFacts, LoopTypes, BulkOK, Known, ResolutionOK, Rows, QueueOK, BytesOK,
     BytesBehindPages, PagesStay
<1>3. StoreTypes'
  BY <1>1, PagesAreNaturals DEF KeepFacts, StoreTypes
<1>4. FlagTypes'
  BY <1>1 DEF KeepFacts, FlagTypes
<1>5. CallTypes'
  BY <1>1, NoCallIsNone DEF KeepFacts, CallTypes, StoreTypes, EnqueueCall, DeleteCall, ChapterState
<1>6. SpentTypes'
  BY <1>1, AssumedConstants, EventIs DEF KeepFacts, SpentTypes, Spend
<1>7. EnqueueOK'
  BY NoCallIsNone DEF KeepFacts, EnqueueOK
<1>8. DeleteOK'
  BY NoCallIsNone DEF KeepFacts, DeleteOK
<1>9. RowsOK'
  BY <1>1, PagesAreNaturals, NoCallIsNone DEF KeepFacts, RowsOK, Rows, Known, NoChapter, StoreTypes,
     LoopTypes, CallTypes
<1> QED
  BY <1>2, <1>3, <1>4, <1>5, <1>6, <1>7, <1>8, <1>9, TypeParts DEF KeepInv

LEMMA EnqueueRowKeeps ==
  ASSUME KeepInv, ~Overlap, EnqueueRow
  PROVE  KeepInv' /\ PagesStay
<1> USE DEF EnqueueRow, InCall, loop, control, flags, calls, host, stored
<1>1. KeepFacts
  BY KeepIs
<1>2. /\ chapter' \in [Chapter -> ChapterRow]
      /\ chapter'[enq.chapter] # NoChapter /\ chapter'[enq.chapter].resolved = FALSE
      /\ \A x \in Chapter : x # enq.chapter => chapter'[x] = chapter[x]
  <2> DEFINE row == [state |-> "queued", resolved |-> FALSE]
  <2>1. enq.chapter \in Chapter /\ row \in Row
    BY <1>1, RowMade DEF KeepFacts, CallTypes, EnqueueCall, ChapterState
  <2>2. chapter' = [chapter EXCEPT ![enq.chapter] = row] /\ row.resolved = FALSE
    OBVIOUS
  <2> HIDE DEF row
  <2>3. /\ chapter' \in [Chapter -> ChapterRow]
        /\ chapter'[enq.chapter] # NoChapter /\ chapter'[enq.chapter] = row
        /\ \A x \in Chapter : x # enq.chapter => chapter'[x] = chapter[x]
    <3>1. StoreTypes
      BY <1>1 DEF KeepFacts
    <3> QED
      BY ONLY <3>1, <2>1, <2>2, RowWritten DEF Known
  <2> QED
    BY <2>2, <2>3
<1>3. LoopTypes' /\ FlagTypes' /\ SpentTypes' /\ QueueOK' /\ BytesOK' /\ PagesStay
  BY <1>1 DEF KeepFacts, LoopTypes, FlagTypes, SpentTypes, QueueOK, BytesOK, BytesBehindPages,
     PagesStay, Rows
<1>4. StoreTypes'
  BY <1>1, <1>2, PagesAreNaturals DEF KeepFacts, StoreTypes, LoopTypes, CallTypes
<1>5. CallTypes'
  BY <1>1, <1>2, NoCallIsNone DEF KeepFacts, CallTypes, StoreTypes, EnqueueCall
<1>6. EnqueueOK'
  BY <1>1, <1>2, NoCallIsNone DEF KeepFacts, EnqueueOK, Known
<1>7. DeleteOK'
  BY <1>1, <1>2, NoCallIsNone DEF KeepFacts, DeleteOK
<1>8. BulkOK'
  BY <1>1, <1>2, NoCallIsNone DEF KeepFacts, BulkOK, Known, NoChapter
<1>9. RowsOK'
  BY <1>1, <1>2, PagesAreNaturals, NoCallIsNone DEF KeepFacts, RowsOK, Rows, Known, NoChapter,
     StoreTypes, LoopTypes, CallTypes, ResolutionOK, EnqueueOK, EnqueueCall, DeleteCall, Restated,
     AtChapter
<1>10. ResolutionOK'
  BY <1>1, <1>2, PagesAreNaturals, NoCallIsNone DEF KeepFacts, ResolutionOK, Rows, Known,
     StoreTypes, LoopTypes, CallTypes, AtChapter, Free
<1> QED
  BY <1>3, <1>4, <1>5, <1>6, <1>7, <1>8, <1>9, <1>10, TypeParts DEF KeepInv

LEMMA EnqueueStateKeeps ==
  ASSUME KeepInv, ~Overlap, EnqueueState
  PROVE  KeepInv' /\ PagesStay
<1> USE DEF EnqueueState, InCall, loop, control, flags, calls, host, stored
<1>1. KeepFacts
  BY KeepIs
<1>2. /\ enq.chapter \in Chapter
      /\ page[enq.chapter] \in [Page -> {"absent", "queued", "complete", "failed"}]
      /\ Known(enq.chapter) => Recomputed(enq.chapter, page[enq.chapter]) \in ChapterState
  BY <1>1, RecomputedIs DEF KeepFacts, CallTypes, EnqueueCall, StoreTypes
<1>3. Restated(enq.chapter)
  BY <1>1, RecomputedWritten DEF KeepFacts, Restated, Known, StoreTypes, LoopTypes, AtChapter,
     CallTypes, EnqueueCall, ChapterState
<1>4. LoopTypes' /\ FlagTypes' /\ SpentTypes' /\ QueueOK' /\ BytesOK' /\ PagesStay
  BY <1>1 DEF KeepFacts, LoopTypes, FlagTypes, SpentTypes, QueueOK, BytesOK, BytesBehindPages,
     PagesStay, Rows
<1>5. StoreTypes'
  BY <1>1, <1>2, <1>3, PagesAreNaturals DEF KeepFacts, StoreTypes, LoopTypes, CallTypes,
     ChapterState, EnqueueCall, DeleteCall, Restated
<1>6. CallTypes'
  BY <1>1, <1>2, <1>3, NoCallIsNone DEF KeepFacts, CallTypes, StoreTypes, EnqueueCall, DeleteCall,
     ChapterState, ChapterRow, NoChapter
<1>7. EnqueueOK'
  BY <1>1, <1>2, <1>3, NoCallIsNone DEF KeepFacts, EnqueueOK, Known, NoChapter, CallTypes,
     EnqueueCall, DeleteOK, Restated, StoreTypes
<1>8. DeleteOK'
  BY <1>1, <1>2, <1>3, NoCallIsNone DEF KeepFacts, DeleteOK
<1>9. BulkOK'
  BY <1>1, <1>2, <1>3, NoCallIsNone DEF KeepFacts, BulkOK, Known, NoChapter, StoreTypes, CallTypes,
     Restated, DeleteOK
<1>10. RowsOK'
  BY <1>1, <1>2, <1>3, PagesAreNaturals, NoCallIsNone DEF KeepFacts, RowsOK, Rows, Known, NoChapter,
     StoreTypes, LoopTypes, Row, EnqueueOK, EnqueueCall, DeleteCall, Restated, AtChapter
<1>11. ResolutionOK'
  BY <1>1, <1>2, <1>3, PagesAreNaturals, NoCallIsNone DEF KeepFacts, ResolutionOK, Rows, Known,
     StoreTypes, LoopTypes, CallTypes, AtChapter, Free, DeleteOK, DeleteCall, EnqueueCall, Restated
<1> QED
  BY <1>4, <1>5, <1>6, <1>7, <1>8, <1>9, <1>10, <1>11, TypeParts DEF KeepInv

LEMMA EnqueueFlagKeeps ==
  ASSUME KeepInv, ~Overlap, EnqueueFlag
  PROVE  KeepInv' /\ PagesStay
<1> USE DEF EnqueueFlag, InCall, loop, control, flags, calls, host, stored
<1>1. KeepFacts
  BY KeepIs
<1>2. Restated(enq.chapter)
  BY <1>1, PausedWritten DEF KeepFacts, Restated, Known, StoreTypes, LoopTypes, AtChapter,
     CallTypes, EnqueueCall, ChapterState
<1>3. LoopTypes' /\ SpentTypes' /\ QueueOK' /\ BytesOK' /\ PagesStay
  BY <1>1 DEF KeepFacts, LoopTypes, SpentTypes, QueueOK, BytesOK, BytesBehindPages, PagesStay, Rows
<1>4. StoreTypes'
  BY <1>1, <1>2, PagesAreNaturals DEF KeepFacts, StoreTypes, EnqueueCall, DeleteCall, Restated
<1>5. FlagTypes'
  BY <1>1, <1>2 DEF KeepFacts, FlagTypes
<1>6. CallTypes'
  BY <1>1, <1>2, NoCallIsNone DEF KeepFacts, CallTypes, StoreTypes
<1>7. EnqueueOK'
  BY DEF KeepFacts, EnqueueOK
<1>8. DeleteOK'
  BY <1>1, <1>2, NoCallIsNone DEF KeepFacts, DeleteOK
<1>9. BulkOK'
  BY <1>1, <1>2, NoCallIsNone DEF KeepFacts, BulkOK, Known, NoChapter, StoreTypes, CallTypes,
     Restated, DeleteOK, Row, ResolutionOK, Free
<1>10. RowsOK'
  BY <1>1, <1>2, PagesAreNaturals, NoCallIsNone DEF KeepFacts, RowsOK, Rows, Known, NoChapter,
     StoreTypes, LoopTypes, CallTypes, ResolutionOK, EnqueueOK, EnqueueCall, DeleteCall, Restated,
     AtChapter
<1>11. ResolutionOK'
  BY <1>1, <1>2, PagesAreNaturals, NoCallIsNone DEF KeepFacts, ResolutionOK, Rows, Known,
     StoreTypes, LoopTypes, CallTypes, AtChapter, Free, DeleteOK, DeleteCall, EnqueueCall, Restated
<1> QED
  BY <1>1, <1>3, <1>4, <1>5, <1>6, <1>7, <1>8, <1>9, <1>10, <1>11, TypeParts DEF KeepInv

LEMMA PauseChapterKeeps ==
  ASSUME KeepInv, ~Overlap, NEW c \in Chapter, PauseChapter(c)
  PROVE  KeepInv' /\ PagesStay
<1> USE DEF PauseChapter, InCall, loop, control, flags, calls, host, stored
<1>1. KeepFacts
  BY KeepIs
<1>2. Restated(c)
  BY <1>1, PausedWritten DEF KeepFacts, Restated, Known, StoreTypes
<1>3. LoopTypes' /\ CallTypes' /\ QueueOK' /\ BytesOK' /\ PagesStay
  BY <1>1 DEF KeepFacts, LoopTypes, CallTypes, QueueOK, BytesOK, BytesBehindPages, PagesStay, Rows
<1>4. StoreTypes'
  BY <1>1, <1>2, PagesAreNaturals DEF KeepFacts, StoreTypes, EnqueueCall, DeleteCall, Restated
<1>5. FlagTypes'
  BY <1>1, <1>2 DEF KeepFacts, FlagTypes
<1>6. SpentTypes'
  BY <1>1, <1>2, AssumedConstants, EventIs DEF KeepFacts, SpentTypes, Spend
<1>7. EnqueueOK'
  BY <1>1, <1>2, NoCallIsNone DEF KeepFacts, EnqueueOK, Known, NoChapter, CallTypes, EnqueueCall,
     DeleteOK, Restated, StoreTypes
<1>8. DeleteOK'
  BY <1>1, <1>2, NoCallIsNone DEF KeepFacts, DeleteOK, Rows, Known, NoChapter, StoreTypes,
     CallTypes, DeleteCall, Free, Restated, LoopTypes, AtChapter
<1>9. BulkOK'
  BY <1>1, <1>2, NoCallIsNone DEF KeepFacts, BulkOK, CallTypes, Restated, DeleteOK
<1>10. RowsOK'
  BY <1>1, <1>2, PagesAreNaturals, NoCallIsNone DEF KeepFacts, RowsOK, Rows, Known, NoChapter,
     StoreTypes, LoopTypes, CallTypes, ResolutionOK, EnqueueOK, EnqueueCall, DeleteCall, Restated,
     AtChapter
<1>11. ResolutionOK'
  BY <1>1, <1>2, PagesAreNaturals, NoCallIsNone DEF KeepFacts, ResolutionOK, Rows, Known,
     StoreTypes, LoopTypes, CallTypes, AtChapter, Free, DeleteOK, DeleteCall, EnqueueCall, Restated
<1> QED
  BY <1>1, <1>3, <1>4, <1>5, <1>6, <1>7, <1>8, <1>9, <1>10, <1>11, TypeParts DEF KeepInv

LEMMA ResumeChapterKeeps ==
  ASSUME KeepInv, ~Overlap, NEW c \in Chapter, ResumeChapter(c)
  PROVE  KeepInv' /\ PagesStay
<1> USE DEF ResumeChapter, InCall, loop, control, flags, calls, host, stored
<1>1. KeepFacts
  BY KeepIs
<1>2. Restated(c)
  BY <1>1, ResumedWritten DEF KeepFacts, Restated
<1>3. LoopTypes' /\ CallTypes' /\ QueueOK' /\ BytesOK' /\ PagesStay
  BY <1>1 DEF KeepFacts, LoopTypes, CallTypes, QueueOK, BytesOK, BytesBehindPages, PagesStay, Rows
<1>4. StoreTypes'
  BY <1>1, <1>2, PagesAreNaturals DEF KeepFacts, StoreTypes, EnqueueCall, DeleteCall, Restated
<1>5. FlagTypes'
  BY <1>1, <1>2 DEF KeepFacts, FlagTypes
<1>6. SpentTypes'
  BY <1>1, <1>2, AssumedConstants, EventIs DEF KeepFacts, SpentTypes, Spend
<1>7. EnqueueOK'
  BY <1>1, <1>2, NoCallIsNone DEF KeepFacts, EnqueueOK, Known, NoChapter, CallTypes, EnqueueCall,
     DeleteOK, Restated, StoreTypes
<1>8. DeleteOK'
  BY <1>1, <1>2, NoCallIsNone DEF KeepFacts, DeleteOK, Rows, Known, NoChapter, StoreTypes,
     CallTypes, DeleteCall, Free, Restated, LoopTypes, AtChapter
<1>9. BulkOK'
  BY <1>1, <1>2, NoCallIsNone DEF KeepFacts, BulkOK, CallTypes, Restated, DeleteOK
<1>10. RowsOK'
  BY <1>1, <1>2, PagesAreNaturals, NoCallIsNone DEF KeepFacts, RowsOK, Rows, Known, NoChapter,
     StoreTypes, LoopTypes, CallTypes, ResolutionOK, EnqueueOK, EnqueueCall, DeleteCall, Restated,
     AtChapter
<1>11. ResolutionOK'
  BY <1>1, <1>2, PagesAreNaturals, NoCallIsNone DEF KeepFacts, ResolutionOK, Rows, Known,
     StoreTypes, LoopTypes, CallTypes, AtChapter, Free, DeleteOK, DeleteCall, EnqueueCall, Restated
<1> QED
  BY <1>1, <1>3, <1>4, <1>5, <1>6, <1>7, <1>8, <1>9, <1>10, <1>11, TypeParts DEF KeepInv

LEMMA RetryChapterKeeps ==
  ASSUME KeepInv, ~Overlap, NEW c \in Chapter, RetryChapter(c)
  PROVE  KeepInv' /\ PagesStay
<1> USE DEF RetryChapter, InCall, Outstanding, loop, control, flags, calls, host, stored
<1>1. KeepFacts
  BY KeepIs
<1>2. Restated(c)
  BY <1>1, RecomputedWritten DEF KeepFacts, Restated, Known, StoreTypes
<1>3. LoopTypes' /\ CallTypes'
  BY <1>1 DEF KeepFacts, LoopTypes, CallTypes
<1>4. StoreTypes'
  BY <1>1, <1>2, PagesAreNaturals DEF KeepFacts, StoreTypes, EnqueueCall, DeleteCall, Restated
<1>5. FlagTypes'
  BY <1>1, <1>2 DEF KeepFacts, FlagTypes
<1>6. SpentTypes'
  BY <1>1, <1>2, AssumedConstants, EventIs DEF KeepFacts, SpentTypes, Spend
<1>7. EnqueueOK'
  BY <1>1, <1>2, NoCallIsNone DEF KeepFacts, EnqueueOK, Known, NoChapter, CallTypes, EnqueueCall,
     DeleteOK, Restated, StoreTypes
<1>8. DeleteOK'
  BY <1>1, <1>2, NoCallIsNone DEF KeepFacts, DeleteOK, Rows, Known, NoChapter, StoreTypes,
     CallTypes, DeleteCall, Free, Restated, LoopTypes, AtChapter
<1>9. BulkOK'
  BY <1>1, <1>2, NoCallIsNone DEF KeepFacts, BulkOK, CallTypes, Restated, DeleteOK
<1>10. RowsOK'
  BY <1>1, <1>2, PagesAreNaturals, NoCallIsNone DEF KeepFacts, RowsOK, Rows, Known, NoChapter,
     StoreTypes, LoopTypes, CallTypes, ResolutionOK, EnqueueOK, EnqueueCall, DeleteCall, Restated,
     AtChapter
<1>11. ResolutionOK'
  BY <1>1, <1>2, PagesAreNaturals, NoCallIsNone DEF KeepFacts, ResolutionOK, Rows, Known,
     StoreTypes, LoopTypes, CallTypes, AtChapter, Free, DeleteOK, DeleteCall, EnqueueCall, Restated
<1>12. QueueOK'
  BY <1>1, <1>2, PagesAreNaturals DEF KeepFacts, QueueOK, Fetching, StoreTypes
<1>13. BytesOK'
  BY <1>1, <1>2, PagesAreNaturals DEF KeepFacts, BytesOK, BytesBehindPages, StoreTypes, LoopTypes,
     AtChapter, ResolutionOK, DeleteOK, Rows
<1>14. PagesStay
  BY <1>2, PagesAreNaturals DEF KeepFacts, PagesStay
<1> QED
  BY <1>3, <1>4, <1>5, <1>6, <1>7, <1>8, <1>9, <1>10, <1>11, <1>12, <1>13, <1>14, TypeParts DEF
     KeepInv

LEMMA PauseSeriesKeeps ==
  ASSUME KeepInv, ~Overlap, PauseSeries
  PROVE  KeepInv' /\ PagesStay
<1> USE DEF PauseSeries, InCall, loop, control, flags, calls, host, stored
<1>1. KeepFacts
  BY KeepIs
<1>2. /\ StoreTypes' /\ LoopTypes' /\ EnqueueOK' /\ RowsOK' /\ ResolutionOK' /\ QueueOK'
      /\ BytesOK' /\ PagesStay
  BY <1>1 DEF KeepFacts, StoreTypes, LoopTypes, EnqueueOK, Known, RowsOK, Rows, ResolutionOK,
     QueueOK, BytesOK, BytesBehindPages, PagesStay
<1>3. FlagTypes'
  BY <1>1 DEF KeepFacts, FlagTypes
<1>4. CallTypes'
  <2> DEFINE S == {x \in Chapter : Known(x) /\ chapter[x].state \notin {"complete", "paused"}}
             rows == [c \in S |-> chapter[c]]
  <2>1. S \in SUBSET Chapter /\ rows \in [S -> ChapterRow]
    BY <1>1 DEF KeepFacts, StoreTypes
  <2>2. [to |-> "paused", rows |-> rows] \in BulkCall
    BY <2>1, BulkMade
  <2> QED
    BY <1>1, <2>2 DEF KeepFacts, CallTypes
<1>5. SpentTypes'
  BY <1>1, AssumedConstants, EventIs DEF KeepFacts, SpentTypes, Spend
<1>6. DeleteOK'
  BY NoCallIsNone DEF KeepFacts, DeleteOK
<1>7. BulkOK'
  BY <1>1, NoCallIsNone DEF KeepFacts, BulkOK, Known, NoChapter, StoreTypes, Row, ResolutionOK, Free
<1> QED
  BY <1>2, <1>3, <1>4, <1>5, <1>6, <1>7, TypeParts DEF KeepInv

LEMMA ResumeSeriesKeeps ==
  ASSUME KeepInv, ~Overlap, ResumeSeries
  PROVE  KeepInv' /\ PagesStay
<1> USE DEF ResumeSeries, InCall, loop, control, flags, calls, host, stored
<1>1. KeepFacts
  BY KeepIs
<1>2. /\ StoreTypes' /\ LoopTypes' /\ EnqueueOK' /\ RowsOK' /\ ResolutionOK' /\ QueueOK'
      /\ BytesOK' /\ PagesStay
  BY <1>1 DEF KeepFacts, StoreTypes, LoopTypes, EnqueueOK, Known, RowsOK, Rows, ResolutionOK,
     QueueOK, BytesOK, BytesBehindPages, PagesStay
<1>3. FlagTypes'
  BY <1>1 DEF KeepFacts, FlagTypes
<1>4. CallTypes'
  <2> DEFINE S == {x \in Chapter : chapter[x].state = "paused"}
             rows == [c \in S |-> chapter[c]]
  <2>1. S \in SUBSET Chapter /\ rows \in [S -> ChapterRow]
    BY <1>1 DEF KeepFacts, StoreTypes
  <2>2. [to |-> "queued", rows |-> rows] \in BulkCall
    BY <2>1, BulkMade
  <2> QED
    BY <1>1, <2>2 DEF KeepFacts, CallTypes
<1>5. SpentTypes'
  BY <1>1, AssumedConstants, EventIs DEF KeepFacts, SpentTypes, Spend
<1>6. DeleteOK'
  BY NoCallIsNone DEF KeepFacts, DeleteOK
<1>7. BulkOK'
  BY <1>1, NoCallIsNone DEF KeepFacts, BulkOK, Known, NoChapter, StoreTypes, Row, ResolutionOK, Free
<1> QED
  BY <1>2, <1>3, <1>4, <1>5, <1>6, <1>7, TypeParts DEF KeepInv

LEMMA BulkPutKeeps ==
  ASSUME KeepInv, ~Overlap, BulkPut
  PROVE  KeepInv' /\ PagesStay
<1> USE DEF BulkPut, InCall, loop, control, flags, calls, host, stored
<1>1. KeepFacts
  BY KeepIs
<1>2. PICK c \in DOMAIN bulk.rows :
        /\ Free(c)
        /\ chapter' = [chapter EXCEPT ![c] = [bulk.rows[c] EXCEPT !.state = bulk.to]]
        /\ bulk' = [bulk EXCEPT !.rows = [x \in DOMAIN bulk.rows \ {c} |-> bulk.rows[x]]]
  OBVIOUS
<1>3. /\ chapter' \in [Chapter -> ChapterRow]
      /\ c \in Chapter /\ Known(c) /\ Known(c)' /\ chapter'[c].resolved = bulk.rows[c].resolved
      /\ \A x \in Chapter : x # c => chapter'[x] = chapter[x]
  <2> DEFINE row == [bulk.rows[c] EXCEPT !.state = bulk.to]
  <2>1. c \in Chapter /\ bulk.rows[c] \in Row /\ Known(c) /\ bulk.to \in ChapterState
    BY <1>1 DEF KeepFacts, BulkOK, ChapterState
  <2>2. row \in [state : ChapterState, resolved : BOOLEAN] /\ row.resolved = bulk.rows[c].resolved
        /\ row.state = bulk.to
    BY ONLY <2>1, RowMade
  <2>3. row \in Row
    BY ONLY <2>2, RowMade
  <2>4. chapter' = [chapter EXCEPT ![c] = row]
    BY <1>2
  <2> HIDE DEF row
  <2> QED
    BY <1>1, <2>1, <2>2, <2>3, <2>4, RowWritten DEF KeepFacts
<1>4. bulk' = [to |-> bulk.to, rows |-> [x \in DOMAIN bulk.rows \ {c} |-> bulk.rows[x]]]
  BY <1>1, <1>2 DEF KeepFacts
<1>5. LoopTypes' /\ FlagTypes' /\ SpentTypes' /\ QueueOK' /\ BytesOK' /\ PagesStay
  BY <1>1 DEF KeepFacts, LoopTypes, FlagTypes, SpentTypes, QueueOK, BytesOK, BytesBehindPages,
     PagesStay, Rows
<1>6. StoreTypes'
  BY <1>1, <1>2, <1>3, <1>4, PagesAreNaturals DEF KeepFacts, StoreTypes, LoopTypes
<1>7. CallTypes'
  <2>1. [x \in DOMAIN bulk.rows \ {c} |-> bulk.rows[x]] \in [DOMAIN bulk.rows \ {c} -> ChapterRow]
    BY <1>1 DEF KeepFacts
  <2>2. bulk' \in BulkCall
    BY <1>1, <1>4, <2>1, BulkMade DEF KeepFacts
  <2> QED
    BY <1>1, <2>2 DEF KeepFacts, CallTypes
<1>8. EnqueueOK'
  BY <1>1, <1>2, <1>3, <1>4, NoCallIsNone DEF KeepFacts, EnqueueOK, Known
<1>9. DeleteOK'
  BY <1>1 DEF KeepFacts, DeleteOK, Rows, Known
<1>10. BulkOK'
  BY <1>1, <1>2, <1>3, <1>4, NoCallIsNone DEF KeepFacts, BulkOK, Known
<1>11. RowsOK'
  BY <1>1, <1>2, <1>3, <1>4, PagesAreNaturals, NoCallIsNone DEF KeepFacts, RowsOK, Rows, Known,
     NoChapter, StoreTypes, LoopTypes
<1>12. ResolutionOK'
  BY <1>1, <1>2, <1>3, <1>4, PagesAreNaturals, NoCallIsNone DEF KeepFacts, ResolutionOK, Rows,
     Known, StoreTypes, LoopTypes, CallTypes, AtChapter, Free
<1> QED
  BY <1>5, <1>6, <1>7, <1>8, <1>9, <1>10, <1>11, <1>12, TypeParts DEF KeepInv

LEMMA BulkEndKeeps ==
  ASSUME KeepInv, ~Overlap, BulkEnd
  PROVE  KeepInv' /\ PagesStay
<1> USE DEF BulkEnd, InCall, loop, control, flags, calls, host, stored
<1>1. KeepFacts
  BY KeepIs
<1>2. /\ StoreTypes' /\ LoopTypes' /\ SpentTypes' /\ EnqueueOK' /\ RowsOK' /\ ResolutionOK'
      /\ QueueOK' /\ BytesOK' /\ PagesStay
  BY <1>1 DEF KeepFacts, StoreTypes, LoopTypes, SpentTypes, EnqueueOK, Known, RowsOK, Rows,
     ResolutionOK, QueueOK, BytesOK, BytesBehindPages, PagesStay
<1>3. FlagTypes'
  BY <1>1 DEF KeepFacts, FlagTypes
<1>4. CallTypes'
  BY <1>1, NoCallIsNone DEF KeepFacts, CallTypes, StoreTypes
<1>5. DeleteOK'
  BY <1>1, NoCallIsNone DEF KeepFacts, DeleteOK
<1>6. BulkOK'
  BY NoCallIsNone DEF KeepFacts, BulkOK
<1> QED
  BY <1>1, <1>2, <1>3, <1>4, <1>5, <1>6, TypeParts DEF KeepInv

LEMMA DeleteKeeps ==
  ASSUME KeepInv, ~Overlap, NEW c \in Chapter, Delete(c)
  PROVE  KeepInv' /\ PagesStay
<1> USE DEF Delete, InCall, loop, control, flags, calls, host, stored
<1>1. KeepFacts
  BY KeepIs
<1>2. LoopTypes' /\ FlagTypes' /\ EnqueueOK' /\ BulkOK'
  BY <1>1 DEF KeepFacts, LoopTypes, FlagTypes, EnqueueOK, Known, BulkOK
<1>3. StoreTypes'
  BY <1>1, PagesAreNaturals DEF KeepFacts, StoreTypes
<1>4. CallTypes'
  BY <1>1, NoCallIsNone DEF KeepFacts, CallTypes, DeleteCall, ChapterState
<1>5. SpentTypes'
  BY <1>1, AssumedConstants, EventIs DEF KeepFacts, SpentTypes, Spend
<1>6. DeleteOK'
  BY <1>1, NoCallIsNone DEF KeepFacts, DeleteOK, Rows, Known, NoChapter, StoreTypes, CallTypes,
     DeleteCall, Free
<1>7. RowsOK'
  BY <1>1, PagesAreNaturals, NoCallIsNone DEF KeepFacts, RowsOK, Rows, Known, NoChapter, StoreTypes,
     LoopTypes, CallTypes
<1>8. ResolutionOK'
  BY <1>1, PagesAreNaturals, NoCallIsNone DEF KeepFacts, ResolutionOK, Rows, Known, StoreTypes,
     LoopTypes, CallTypes, AtChapter, Free
<1>9. QueueOK'
  BY <1>1, PagesAreNaturals DEF KeepFacts, QueueOK, Fetching
<1>10. BytesOK'
  BY <1>1, PagesAreNaturals DEF KeepFacts, BytesOK, BytesBehindPages, StoreTypes, LoopTypes,
     AtChapter
<1>11. PagesStay
  BY <1>1, PagesAreNaturals DEF KeepFacts, PagesStay, StoreTypes, Fetching, ResolutionOK, Rows
<1> QED
  BY <1>2, <1>3, <1>4, <1>5, <1>6, <1>7, <1>8, <1>9, <1>10, <1>11, TypeParts DEF KeepInv

LEMMA DeleteRowKeeps ==
  ASSUME KeepInv, ~Overlap, DeleteRow
  PROVE  KeepInv' /\ PagesStay
<1> USE DEF DeleteRow, InCall, loop, control, flags, calls, host, stored
<1>1. KeepFacts
  BY KeepIs
<1>2. LoopTypes' /\ FlagTypes' /\ SpentTypes' /\ QueueOK' /\ BytesOK' /\ PagesStay
  BY <1>1 DEF KeepFacts, LoopTypes, FlagTypes, SpentTypes, QueueOK, BytesOK, BytesBehindPages,
     PagesStay, Rows
<1>3. StoreTypes'
  BY <1>1, PagesAreNaturals DEF KeepFacts, StoreTypes, LoopTypes, CallTypes, ChapterState,
     ChapterRow, NoChapter, AtChapter, EnqueueCall, DeleteCall, Restated
<1>4. CallTypes'
  BY <1>1, NoCallIsNone DEF KeepFacts, CallTypes, DeleteCall, ChapterState
<1>5. EnqueueOK'
  BY <1>1, NoCallIsNone DEF KeepFacts, EnqueueOK, Known, NoChapter, CallTypes, EnqueueCall, DeleteOK
<1>6. DeleteOK'
  BY <1>1, NoCallIsNone DEF KeepFacts, DeleteOK, Rows, Known, NoChapter, StoreTypes, CallTypes,
     DeleteCall, Free
<1>7. BulkOK'
  BY <1>1, NoCallIsNone DEF KeepFacts, BulkOK, Known, NoChapter, StoreTypes, CallTypes, Restated,
     DeleteOK
<1>8. RowsOK'
  <2>1. del.chapter \in Chapter /\ chapter'[del.chapter] = NoChapter
    BY <1>1 DEF KeepFacts, CallTypes, DeleteCall, StoreTypes
  <2>2. \A x \in Chapter : x # del.chapter => chapter'[x] = chapter[x]
    BY <1>1 DEF KeepFacts, StoreTypes
  <2>3. page' = page /\ Rows(del.chapter) = {}
    BY <1>1 DEF KeepFacts, DeleteOK
  <2>4. \A x \in Chapter : Known(x)' => x # del.chapter /\ Known(x)
    BY <2>1, <2>2 DEF Known
  <2>5. \A x \in Chapter : Known(x)' => series'
    BY <1>1, <2>4 DEF KeepFacts, RowsOK
  <2>6. \A x \in Chapter : ~Known(x)' => x = del.chapter \/ ~Known(x)
    BY <2>2 DEF Known
  <2> QED
    BY <1>1, <2>3, <2>5, <2>6 DEF KeepFacts, RowsOK, Rows
<1>9. ResolutionOK'
  BY <1>1, PagesAreNaturals, NoCallIsNone DEF KeepFacts, ResolutionOK, Rows, Known, StoreTypes,
     DeleteOK, DeleteCall, EnqueueCall, Restated
<1> QED
  BY <1>2, <1>3, <1>4, <1>5, <1>6, <1>7, <1>8, <1>9, TypeParts DEF KeepInv

LEMMA DeleteFilesKeeps ==
  ASSUME KeepInv, ~Overlap, DeleteFiles
  PROVE  KeepInv' /\ PagesStay
<1> USE DEF DeleteFiles, InCall, loop, control, flags, calls, host, stored
<1>1. KeepFacts
  BY KeepIs
<1>2. LoopTypes' /\ SpentTypes' /\ EnqueueOK' /\ RowsOK' /\ ResolutionOK' /\ QueueOK' /\ PagesStay
  BY <1>1 DEF KeepFacts, LoopTypes, SpentTypes, EnqueueOK, Known, RowsOK, Rows, ResolutionOK,
     QueueOK, PagesStay
<1>3. StoreTypes'
  BY <1>1, PagesAreNaturals DEF KeepFacts, StoreTypes
<1>4. FlagTypes'
  BY <1>1 DEF KeepFacts, FlagTypes
<1>5. CallTypes'
  BY <1>1, NoCallIsNone DEF KeepFacts, CallTypes, StoreTypes
<1>6. DeleteOK'
  BY NoCallIsNone DEF KeepFacts, DeleteOK
<1>7. BulkOK'
  BY <1>1, NoCallIsNone DEF KeepFacts, BulkOK, Known, NoChapter, StoreTypes, CallTypes, Restated,
     DeleteOK
<1>8. BytesOK'
  BY <1>1, PagesAreNaturals DEF KeepFacts, BytesOK, BytesBehindPages, StoreTypes, LoopTypes,
     AtChapter, ResolutionOK, DeleteOK, Rows, Outstanding
<1> QED
  BY <1>1, <1>2, <1>3, <1>4, <1>5, <1>6, <1>7, <1>8, TypeParts DEF KeepInv

-----------------------------------------------------------------------------
(* KeepInv holds from the start, and pages stay                             *)

LEMMA KeepStarts == ASSUME Init PROVE KeepInv
<1> USE DEF Init
<1>1. StoreTypes
  <2>1. {NoChapter, [state |-> "queued", resolved |-> FALSE]} \subseteq ChapterRow
    BY DEF ChapterRow, ChapterState
  <2>2. chapter \in [Chapter -> ChapterRow]
    BY <2>1
  <2>3. series \in BOOLEAN
    OBVIOUS
  <2> QED
    BY <2>2, <2>3 DEF StoreTypes
<1>2. LoopTypes
  <2>1. DOMAIN todo = {} /\ todo = [x \in DOMAIN todo |-> todo[x]]
    BY NothingListed
  <2>2. attempt \in 0..Attempts
    BY AssumedConstants
  <2> QED
    BY <2>1, <2>2 DEF LoopTypes, AtChapter
<1>3. FlagTypes /\ CallTypes
  BY DEF FlagTypes, CallTypes
<1>4. SpentTypes
  BY AssumedConstants DEF SpentTypes
<1>5. EnqueueOK /\ DeleteOK /\ BulkOK /\ ResolutionOK /\ QueueOK
  BY DEF EnqueueOK, DeleteOK, BulkOK, ResolutionOK, QueueOK, Fetching
<1>6. RowsOK
  BY DEF RowsOK, Rows, Known
<1>7. BytesOK
  BY DEF BytesOK, BytesBehindPages
<1> QED
  BY <1>1, <1>2, <1>3, <1>4, <1>5, <1>6, <1>7, TypeParts DEF KeepInv

LEMMA KeepStays == ASSUME KeepInv, ~Overlap, [Next]_vars PROVE KeepInv' /\ [PagesStay]_vars
<1>1. CASE DrainStep
  BY <1>1, TopKeeps, EndPassKeeps, TakeChapterKeeps, ResolveKeeps, WriteRowKeeps,
     WriteResolvedKeeps, ResolvedKeeps, ReadPagesKeeps, NextPageKeeps, WriteFileKeeps,
     RecordPageKeeps, RecordedKeeps, FailRecordedKeeps, ExitLoopKeeps, SettleKeeps DEF DrainStep
<1>2. CASE ResolveFails \/ ResolveLimited \/ FetchFails \/ FetchLimited
  BY <1>2, ResolveFailsKeeps, ResolveLimitedKeeps, FetchFailsKeeps, FetchLimitedKeeps
<1>3. CASE Kick \/ Stop \/ IdleFires \/ HoldEnds \/ UnblockFires \/ GateFlips \/ Crash
  BY <1>3, KickKeeps, StopKeeps, IdleFiresKeeps, HoldEndsKeeps, UnblockFiresKeeps, GateFlipsKeeps,
     CrashKeeps
<1>4. CASE Call
  BY <1>4, EnqueueKeeps, PauseChapterKeeps, ResumeChapterKeeps, RetryChapterKeeps, DeleteKeeps,
     PauseSeriesKeeps, ResumeSeriesKeeps DEF Call
<1>5. CASE CallStep
  BY <1>5, EnqueueRowKeeps, EnqueueStateKeeps, EnqueueFlagKeeps, BulkPutKeeps, BulkEndKeeps,
     DeleteRowKeeps, DeleteFilesKeeps DEF CallStep
<1>6. CASE UNCHANGED vars
  <2> USE <1>6 DEF vars, stored, loop, control, flags, calls, host
  <2>1. TypeOK'
    BY DEF KeepInv, TypeOK
  <2>2. (EnqueueOK /\ DeleteOK /\ BulkOK /\ RowsOK /\ ResolutionOK /\ QueueOK /\ BytesOK)'
    BY DEF KeepInv, EnqueueOK, DeleteOK, BulkOK, RowsOK, ResolutionOK, QueueOK, BytesOK,
       BytesBehindPages, Rows, Known
  <2> QED
    BY <2>1, <2>2 DEF KeepInv
<1> QED
  BY <1>1, <1>2, <1>3, <1>4, <1>5, <1>6 DEF Next

\* Whatever is enqueued, resolved, fetched, failed, retried or paused, and wherever the process stops,
\* a page that was fetched keeps its complete row and its bytes until its chapter is deleted (recordPage,
\* writePages, requeueMissing, failPage, deleteChapter), as long as no call writes in the middle of a
\* resolution of the same chapter, nor beside a delete.
THEOREM DownloadedPagesStay ==
  ASSUME ~Overlap
  PROVE  Spec => PagesKept
<1>1. Init => KeepInv
  BY KeepStarts
<1>2. KeepInv /\ [Next]_vars => KeepInv' /\ [PagesStay]_vars
  BY KeepStays
<1>3. KeepInv => BytesBehindPages
  BY DEF KeepInv, BytesOK
<1> QED
  BY <1>1, <1>2, <1>3, PTL DEF Spec, PagesKept, CompletePagesKept, PagesStay

-----------------------------------------------------------------------------
(* WholeInv, action by action: the loop, its failures and the timers        *)

LEMMA TopWhole ==
  ASSUME KeepInv, WholeInv, ~Overlap, Budget["crash"] <= 1, Top
  PROVE  WholeInv'
<1> USE DEF Top, InLoop, Pending, loop, control, flags, calls, host, stored
<1>1. KeepFacts /\ WholeOK /\ CompleteOK
  BY KeepIs DEF WholeInv
<1>2. Stopped' <=> Stopped
  BY DEF Stopped
<1>3. WholeOK'
  BY <1>1, <1>2, PagesAreNaturals, NoCallIsNone DEF KeepFacts, WholeOK, Whole, Deleting, Known,
     Rows, StoreTypes, LoopTypes, CallTypes
<1>4. CompleteOK'
  BY <1>1, <1>2, PagesAreNaturals, NoCallIsNone DEF KeepFacts, CompleteOK, Outstanding, Deleting,
     Known, Rows, StoreTypes, LoopTypes, CallTypes, DeleteCall
<1> QED
  BY <1>3, <1>4 DEF WholeInv

LEMMA EndPassWhole ==
  ASSUME KeepInv, WholeInv, ~Overlap, Budget["crash"] <= 1, EndPass
  PROVE  WholeInv'
<1> USE DEF EndPass, InLoop, loop, control, flags, calls, host, stored
<1>1. KeepFacts /\ WholeOK /\ CompleteOK
  BY KeepIs DEF WholeInv
<1>2. Stopped' <=> Stopped
  BY DEF Stopped
<1>3. WholeOK'
  BY <1>1, <1>2, PagesAreNaturals, NoCallIsNone DEF KeepFacts, WholeOK, Whole, Deleting, Known,
     Rows, StoreTypes, LoopTypes, CallTypes
<1>4. CompleteOK'
  BY <1>1, <1>2, PagesAreNaturals, NoCallIsNone DEF KeepFacts, CompleteOK, Outstanding, Deleting,
     Known, Rows, StoreTypes, LoopTypes, CallTypes, DeleteCall
<1> QED
  BY <1>3, <1>4 DEF WholeInv

LEMMA TakeChapterWhole ==
  ASSUME KeepInv, WholeInv, ~Overlap, Budget["crash"] <= 1, TakeChapter
  PROVE  WholeInv'
<1> USE DEF TakeChapter, InLoop, IsCancelled, loop, control, flags, calls, host, stored
<1>1. KeepFacts /\ WholeOK /\ CompleteOK
  BY KeepIs DEF WholeInv
<1>2. Stopped' <=> Stopped
  BY DEF Stopped
<1>3. \A x \in Chapter :
        /\ Known(x)' <=> Known(x)
        /\ chapter'[x].resolved = chapter[x].resolved
        /\ chapter'[x].state = "complete" => chapter[x].state = "complete"
  <2>1. CASE UNCHANGED chapter
    BY <2>1 DEF Known
  <2>2. CASE \E c \in Chapter : Known(c) /\ PutState(c, Marked(c))
    <3>1. PICK c \in Chapter : Known(c) /\ PutState(c, Marked(c))
      BY <2>2
    <3>2. Restated(c) /\ chapter'[c].state = Marked(c)
      BY <1>1, <3>1, MarkedWritten DEF KeepFacts
    <3> QED
      BY <3>2 DEF Restated, Marked
  <2> QED
    BY <1>1, <2>1, <2>2 DEF KeepFacts, LoopTypes
<1>4. WholeOK'
  BY <1>1, <1>2, <1>3, PagesAreNaturals, NoCallIsNone DEF KeepFacts, WholeOK, Whole, Deleting,
     Known, Rows
<1>5. CompleteOK'
  BY <1>1, <1>2, <1>3, PagesAreNaturals, NoCallIsNone DEF KeepFacts, CompleteOK, Outstanding,
     Deleting, Known, Rows, StoreTypes, LoopTypes, CallTypes, DeleteCall
<1> QED
  BY <1>4, <1>5 DEF WholeInv

LEMMA ResolveWhole ==
  ASSUME KeepInv, WholeInv, ~Overlap, Budget["crash"] <= 1, Resolve
  PROVE  WholeInv'
<1> USE DEF Resolve, InLoop, Leave, loop, control, flags, calls, host, stored
<1>1. KeepFacts /\ WholeOK /\ CompleteOK
  BY KeepIs DEF WholeInv
<1>2. Stopped' <=> Stopped
  BY DEF Stopped
<1>3. WholeOK'
  BY <1>1, <1>2, PagesAreNaturals, NoCallIsNone DEF KeepFacts, WholeOK, Whole, Deleting, Known,
     Rows, StoreTypes, LoopTypes, CallTypes
<1>4. CompleteOK'
  BY <1>1, <1>2, PagesAreNaturals, NoCallIsNone DEF KeepFacts, CompleteOK, Outstanding, Deleting,
     Known, Rows, StoreTypes, LoopTypes, CallTypes, DeleteCall
<1> QED
  BY <1>3, <1>4 DEF WholeInv

LEMMA ResolveFailsWhole ==
  ASSUME KeepInv, WholeInv, ~Overlap, Budget["crash"] <= 1, ResolveFails
  PROVE  WholeInv'
<1> USE DEF ResolveFails, InLoop, Leave, loop, control, flags, calls, host, stored
<1>1. KeepFacts /\ WholeOK /\ CompleteOK
  BY KeepIs DEF WholeInv
<1>2. Stopped' <=> Stopped
  BY <1>1, OtherEvent, EventIs DEF KeepFacts
<1>3. Restated(cur) /\ (chapter'[cur] = chapter[cur] \/ (Known(cur) /\ chapter'[cur].state = "failed"))
  <2>1. cur \in Chapter /\ StoreTypes
    BY <1>1 DEF KeepFacts, LoopTypes, AtChapter, CallTypes, EnqueueCall
  <2>2. "failed" \in ChapterState
    BY DEF ChapterState
  <2>3. CASE UNCHANGED chapter
    BY <2>1, <2>3, NothingWritten
  <2>4. CASE Known(cur) /\ PutState(cur, "failed")
    BY <2>1, <2>2, <2>4, StateWritten
  <2> QED
    BY <2>3, <2>4
<1>4. WholeOK'
  BY <1>1, <1>2, <1>3, PagesAreNaturals, NoCallIsNone DEF KeepFacts, WholeOK, Whole, Deleting,
     Known, Rows, StoreTypes, LoopTypes, CallTypes, DeleteCall, EnqueueCall, AtChapter, Restated
<1>5. CompleteOK'
  BY <1>1, <1>2, <1>3, PagesAreNaturals, NoCallIsNone DEF KeepFacts, CompleteOK, Outstanding,
     Deleting, Known, Rows, EnqueueCall, AtChapter, Restated, NoChapter
<1> QED
  BY <1>4, <1>5 DEF WholeInv

LEMMA ResolveLimitedWhole ==
  ASSUME KeepInv, WholeInv, ~Overlap, Budget["crash"] <= 1, ResolveLimited
  PROVE  WholeInv'
<1> USE DEF ResolveLimited, InLoop, Leave, loop, control, flags, calls, host, stored
<1>1. KeepFacts /\ WholeOK /\ CompleteOK
  BY KeepIs DEF WholeInv
<1>2. Stopped' <=> Stopped
  BY <1>1, OtherEvent, EventIs DEF KeepFacts
<1>3. WholeOK'
  BY <1>1, <1>2, PagesAreNaturals, NoCallIsNone DEF KeepFacts, WholeOK, Whole, Deleting, Known,
     Rows, StoreTypes, LoopTypes, CallTypes
<1>4. CompleteOK'
  BY <1>1, <1>2, PagesAreNaturals, NoCallIsNone DEF KeepFacts, CompleteOK, Outstanding, Deleting,
     Known, Rows
<1> QED
  BY <1>3, <1>4 DEF WholeInv

LEMMA WriteRowWhole ==
  ASSUME KeepInv, WholeInv, ~Overlap, Budget["crash"] <= 1, WriteRow
  PROVE  WholeInv'
<1> USE DEF WriteRow, InLoop, loop, control, flags, calls, host, stored
<1>1. KeepFacts /\ WholeOK /\ CompleteOK
  BY KeepIs DEF WholeInv
<1>2. Stopped' <=> Stopped
  BY DEF Stopped
<1>3. /\ Min(queue) \in queue /\ Min(queue) \in Page /\ Min(queue) \in PagesOf[cur] /\ cur \in Chapter
      /\ page'[cur][Min(queue)] = (IF Min(queue) \in kept THEN "complete" ELSE "queued")
      /\ \A x \in Chapter, q \in Page : x # cur \/ q # Min(queue) => page'[x][q] = page[x][q]
  <2> DEFINE s == IF Min(queue) \in kept THEN "complete" ELSE "queued"
  <2>1. /\ StoreTypes /\ Min(queue) \in queue /\ Min(queue) \in Page /\ Min(queue) \in PagesOf[cur]
        /\ cur \in Chapter
    BY <1>1 DEF KeepFacts, LoopTypes, AtChapter, ResolutionOK
  <2>2. s \in {"absent", "queued", "complete", "failed"} /\ PutPage(cur, Min(queue), s)
    BY DEF PutPage
  <2> HIDE DEF s
  <2>3. /\ page'[cur][Min(queue)] = s
        /\ \A x \in Chapter, q \in Page : x # cur \/ q # Min(queue) => page'[x][q] = page[x][q]
    BY ONLY <2>1, <2>2, PageWritten
  <2> QED
    BY ONLY <2>1, <2>3 DEF s
<1>4. Rows(cur)' = Rows(cur) \cup {Min(queue)} /\ \A x \in Chapter : x # cur => Rows(x)' = Rows(x)
  BY <1>3 DEF Rows
<1>5. del # None => del.chapter # cur
  BY <1>1 DEF KeepFacts, DeleteOK
<1>6. WholeOK'
  <2>1. \A c \in Chapter : c # cur /\ Whole(c) => Whole(c)'
    BY <1>1, <1>2, <1>3, <1>4 DEF Whole, Deleting
  <2>2. Whole(cur) => Whole(cur)'
    BY <1>1, <1>2, <1>3, <1>4, <1>5 DEF Whole, Deleting, KeepFacts, CompleteOK, AtChapter,
       ResolutionOK, WholeOK
  <2> QED
    BY <1>1, <1>3, <2>1, <2>2 DEF WholeOK, Known
<1>7. CompleteOK'
  <2>1. chapter[cur].state = "complete" => page[cur][Min(queue)] = "complete" /\ Min(queue) \in kept
    <3> HAVE chapter[cur].state = "complete"
    <3>1. Known(cur) /\ chapter[cur].resolved /\ Outstanding(cur) = {} /\ Rows(cur) # {}
      BY <1>1, <1>3, <1>5 DEF KeepFacts, CompleteOK, Known, NoChapter, AtChapter, Deleting
    <3>2. PagesOf[cur] \subseteq Rows(cur)
      BY <1>1, <1>3, <3>1 DEF WholeOK, Whole
    <3>3. page[cur][Min(queue)] = "complete"
      BY <1>3, <3>1, <3>2 DEF Outstanding
    <3> QED
      BY <1>1, <1>3, <3>3 DEF KeepFacts, ResolutionOK
  <2>2. \A c \in Chapter : chapter[c].state = "complete" => Outstanding(c)' = {}
    <3> SUFFICES ASSUME NEW c \in Chapter, chapter[c].state = "complete" PROVE Outstanding(c)' = {}
      OBVIOUS
    <3>1. Outstanding(c) = {}
      BY <1>1 DEF CompleteOK
    <3>2. \A q \in Page : page'[c][q] = page[c][q]
      BY <1>3, <2>1
    <3> QED
      BY <3>1, <3>2 DEF Outstanding, Rows
  <2> QED
    BY <1>1, <1>3, <1>4, <2>2 DEF CompleteOK, Deleting, AtChapter
<1> QED
  BY <1>6, <1>7 DEF WholeInv

LEMMA WriteResolvedWhole ==
  ASSUME KeepInv, WholeInv, ~Overlap, Budget["crash"] <= 1, WriteResolved
  PROVE  WholeInv'
<1> USE DEF WriteResolved, InLoop, loop, control, flags, calls, host, stored
<1>1. KeepFacts /\ WholeOK /\ CompleteOK
  BY KeepIs DEF WholeInv
<1>2. Stopped' <=> Stopped
  BY DEF Stopped
<1>3. /\ cur \in Chapter /\ Known(cur) /\ PagesOf[cur] \subseteq Rows(cur)
      /\ chapter'[cur].state = chapter[cur].state /\ chapter'[cur].resolved = TRUE
      /\ \A x \in Chapter : x # cur => chapter'[x] = chapter[x]
  <2>1. /\ cur \in Chapter /\ Known(cur) /\ PagesOf[cur] \subseteq Rows(cur)
        /\ copy = chapter[cur] /\ chapter[cur] \in Row
    BY <1>1 DEF KeepFacts, LoopTypes, AtChapter, ResolutionOK, StoreTypes, Row, Known
  <2>2. chapter'[cur] = [chapter[cur] EXCEPT !.resolved = TRUE]
    BY <1>1, <2>1 DEF KeepFacts, StoreTypes
  <2>3. chapter'[cur].state = chapter[cur].state /\ chapter'[cur].resolved = TRUE
    BY ONLY <2>1, <2>2, RowMade
  <2> QED
    BY <1>1, <2>1, <2>3 DEF KeepFacts, StoreTypes
<1>4. \A x \in Chapter : Rows(x)' = Rows(x) /\ Outstanding(x)' = Outstanding(x)
  BY DEF Rows, Outstanding
<1>5. WholeOK'
  <2>1. \A c \in Chapter : c # cur /\ Whole(c) => Whole(c)'
    BY <1>3, <1>4, <1>2 DEF Whole, Deleting
  <2>2. Whole(cur)'
    BY <1>3, <1>4 DEF Whole
  <2>3. \A c \in Chapter : c # cur /\ Known(c)' => Known(c)
    BY <1>3 DEF Known
  <2> QED
    BY <1>1, <1>3, <2>1, <2>2, <2>3 DEF WholeOK
<1>6. CompleteOK'
  BY <1>1, <1>3, <1>4 DEF CompleteOK, Deleting, AtChapter
<1> QED
  BY <1>5, <1>6 DEF WholeInv

LEMMA ResolvedWhole ==
  ASSUME KeepInv, WholeInv, ~Overlap, Budget["crash"] <= 1, Resolved
  PROVE  WholeInv'
<1> USE DEF Rewritten, Resolved, InLoop, Leave, loop, control, flags, calls, host, stored
<1>1. KeepFacts /\ WholeOK /\ CompleteOK
  BY KeepIs DEF WholeInv
<1>2. Stopped' <=> Stopped
  BY DEF Stopped
<1>3. Rewritten(cur, Recomputed(cur, page[cur]))
  <2>1. cur \in Chapter /\ StoreTypes
    BY <1>1 DEF KeepFacts, LoopTypes, AtChapter, CallTypes, EnqueueCall
  <2>2. page[cur] \in [Page -> {"absent", "queued", "complete", "failed"}]
    BY <1>1, <2>1 DEF KeepFacts, StoreTypes
  <2>3. CASE UNCHANGED chapter
    BY <2>1, <2>3, NothingWritten
  <2>4. CASE Known(cur) /\ PutState(cur, Recomputed(cur, page[cur]))
    BY <2>1, <2>2, <2>4, RecomputedWritten
  <2> QED
    BY <2>3, <2>4
<1>4. Known(cur) /\ Recomputed(cur, page[cur]) = "complete" =>
        /\ chapter[cur].resolved /\ Outstanding(cur) = {} /\ Rows(cur) # {}
  BY <1>1, RecomputedIs DEF KeepFacts, Outstanding, Rows, StoreTypes, LoopTypes, AtChapter
<1>5. WholeOK'
  BY <1>1, <1>2, <1>3, <1>4, PagesAreNaturals, NoCallIsNone DEF KeepFacts, WholeOK, Whole, Deleting,
     Known, Rows, StoreTypes, LoopTypes, CallTypes, DeleteCall, EnqueueCall, AtChapter, Restated
<1>6. CompleteOK'
  BY <1>1, <1>2, <1>3, <1>4, PagesAreNaturals, NoCallIsNone DEF KeepFacts, CompleteOK, Outstanding,
     Deleting, Known, Rows, StoreTypes, LoopTypes, CallTypes, DeleteCall, EnqueueCall, AtChapter,
     Restated, NoChapter
<1> QED
  BY <1>5, <1>6 DEF WholeInv

LEMMA ReadPagesWhole ==
  ASSUME KeepInv, WholeInv, ~Overlap, Budget["crash"] <= 1, ReadPages
  PROVE  WholeInv'
<1> USE DEF Rewritten, ReadPages, InLoop, Leave, Outstanding, loop, control, flags, calls, host, stored
<1>1. KeepFacts /\ WholeOK /\ CompleteOK
  BY KeepIs DEF WholeInv
<1>2. Stopped' <=> Stopped
  BY DEF Stopped
<1>3. Rewritten(cur, Marked(cur))
  <2>1. cur \in Chapter /\ StoreTypes
    BY <1>1 DEF KeepFacts, LoopTypes, AtChapter, CallTypes, EnqueueCall
  <2>2. CASE UNCHANGED chapter
    BY <2>1, <2>2, NothingWritten
  <2>3. CASE Known(cur) /\ PutState(cur, Marked(cur))
    BY <2>1, <2>3, MarkedWritten
  <2> QED
    BY <2>2, <2>3
<1>4. WholeOK'
  BY <1>1, <1>2, <1>3, PagesAreNaturals, NoCallIsNone DEF KeepFacts, WholeOK, Whole, Deleting,
     Known, Rows, EnqueueCall, AtChapter, Restated, Marked
<1>5. CompleteOK'
  BY <1>1, <1>2, <1>3, PagesAreNaturals, NoCallIsNone DEF KeepFacts, CompleteOK, Outstanding,
     Deleting, Known, Rows, StoreTypes, LoopTypes, CallTypes, DeleteCall, EnqueueCall, AtChapter,
     Restated, NoChapter, Marked
<1> QED
  BY <1>4, <1>5 DEF WholeInv

LEMMA NextPageWhole ==
  ASSUME KeepInv, WholeInv, ~Overlap, Budget["crash"] <= 1, NextPage
  PROVE  WholeInv'
<1> USE DEF NextPage, InLoop, Leave, IsCancelled, loop, control, flags, calls, host, stored
<1>1. KeepFacts /\ WholeOK /\ CompleteOK
  BY KeepIs DEF WholeInv
<1>2. Stopped' <=> Stopped
  BY DEF Stopped
<1>3. WholeOK'
  BY <1>1, <1>2, PagesAreNaturals, NoCallIsNone DEF KeepFacts, WholeOK, Whole, Deleting, Known,
     Rows, StoreTypes, LoopTypes, CallTypes
<1>4. CompleteOK'
  BY <1>1, <1>2, PagesAreNaturals, NoCallIsNone DEF KeepFacts, CompleteOK, Outstanding, Deleting,
     Known, Rows, StoreTypes, LoopTypes, CallTypes, DeleteCall
<1> QED
  BY <1>3, <1>4 DEF WholeInv

LEMMA WriteFileWhole ==
  ASSUME KeepInv, WholeInv, ~Overlap, Budget["crash"] <= 1, WriteFile
  PROVE  WholeInv'
<1> USE DEF WriteFile, InLoop, loop, control, flags, calls, host, stored
<1>1. KeepFacts /\ WholeOK /\ CompleteOK
  BY KeepIs DEF WholeInv
<1>2. Stopped' <=> Stopped
  BY DEF Stopped
<1>3. WholeOK'
  BY <1>1, <1>2, PagesAreNaturals, NoCallIsNone DEF KeepFacts, WholeOK, Whole, Deleting, Known,
     Rows, StoreTypes, LoopTypes, CallTypes
<1>4. CompleteOK'
  BY <1>1, <1>2, PagesAreNaturals, NoCallIsNone DEF KeepFacts, CompleteOK, Outstanding, Deleting,
     Known, Rows, StoreTypes, LoopTypes, CallTypes, DeleteCall
<1> QED
  BY <1>3, <1>4 DEF WholeInv

LEMMA FetchFailsWhole ==
  ASSUME KeepInv, WholeInv, ~Overlap, Budget["crash"] <= 1, FetchFails
  PROVE  WholeInv'
<1> USE DEF FetchFails, InLoop, Leave, IsCancelled, loop, control, flags, calls, host, stored
<1>1. KeepFacts /\ WholeOK /\ CompleteOK
  BY KeepIs DEF WholeInv
<1>2. Stopped' <=> Stopped
  BY <1>1, OtherEvent, EventIs DEF KeepFacts
<1>3. AttemptFails => AttemptSpent
  BY <1>1, AttemptFailsDoes
<1>4. \A c \in Chapter : Rows(c)' = Rows(c) /\ Outstanding(c)' \subseteq Outstanding(c)
  <2> SUFFICES ASSUME NEW c \in Chapter
               PROVE  Rows(c)' = Rows(c) /\ Outstanding(c)' \subseteq Outstanding(c)
    OBVIOUS
  <2>1. \A p \in Page : page'[c][p] # page[c][p] =>
          page[c][p] # "absent" /\ page'[c][p] # "absent" /\ page[c][p] # "complete"
    BY <1>1, <1>3 DEF AttemptSpent, KeepFacts, QueueOK
  <2> QED
    BY <2>1 DEF Rows, Outstanding
<1>5. WholeOK'
  BY <1>1, <1>2, <1>4, WholeFramed DEF Deleting, Known
<1>6. CompleteOK'
  BY <1>1, <1>3, <1>4, CompleteFramed DEF Deleting, AttemptSpent, Leave, AtChapter
<1> QED
  BY <1>5, <1>6 DEF WholeInv

LEMMA FetchLimitedWhole ==
  ASSUME KeepInv, WholeInv, ~Overlap, Budget["crash"] <= 1, FetchLimited
  PROVE  WholeInv'
<1> USE DEF FetchLimited, InLoop, Leave, loop, control, flags, calls, host, stored
<1>1. KeepFacts /\ WholeOK /\ CompleteOK
  BY KeepIs DEF WholeInv
<1>2. Stopped' <=> Stopped
  BY <1>1, OtherEvent, EventIs DEF KeepFacts
<1>3. WholeOK'
  BY <1>1, <1>2, PagesAreNaturals, NoCallIsNone DEF KeepFacts, WholeOK, Whole, Deleting, Known,
     Rows, StoreTypes, LoopTypes, CallTypes
<1>4. CompleteOK'
  BY <1>1, <1>2, PagesAreNaturals, NoCallIsNone DEF KeepFacts, CompleteOK, Outstanding, Deleting,
     Known, Rows
<1> QED
  BY <1>3, <1>4 DEF WholeInv

LEMMA RecordPageWhole ==
  ASSUME KeepInv, WholeInv, ~Overlap, Budget["crash"] <= 1, RecordPage
  PROVE  WholeInv'
<1> USE DEF RecordPage, InLoop, Leave, IsCancelled, loop, control, flags, calls, host, stored
<1>1. KeepFacts /\ WholeOK /\ CompleteOK
  BY KeepIs DEF WholeInv
<1>2. Stopped' <=> Stopped
  BY DEF Stopped
<1>3. AttemptFails => AttemptSpent
  BY <1>1, AttemptFailsDoes
<1>4. \A c \in Chapter : Rows(c)' = Rows(c) /\ Outstanding(c)' \subseteq Outstanding(c)
  <2> SUFFICES ASSUME NEW c \in Chapter
               PROVE  Rows(c)' = Rows(c) /\ Outstanding(c)' \subseteq Outstanding(c)
    OBVIOUS
  <2>1. \A p \in Page : page'[c][p] # page[c][p] =>
          page[c][p] # "absent" /\ page'[c][p] # "absent" /\ page[c][p] # "complete"
    <3>1. CASE AttemptFails
      BY <1>1, <1>3, <3>1 DEF AttemptSpent, KeepFacts, QueueOK
    <3>2. CASE PutPage(cur, Min(queue), "complete") /\ Min(queue) \in Rows(cur)
      <4>1. /\ StoreTypes /\ cur \in Chapter /\ Min(queue) \in queue /\ Min(queue) \in Page
            /\ page[cur][Min(queue)] # "complete"
        BY <1>1 DEF KeepFacts, LoopTypes, AtChapter, QueueOK
      <4>2. /\ page'[cur][Min(queue)] = "complete"
            /\ \A x \in Chapter, q \in Page : x # cur \/ q # Min(queue) => page'[x][q] = page[x][q]
        BY <3>2, <4>1, PageWritten
      <4> QED
        BY <3>2, <4>1, <4>2 DEF Rows
    <3> QED
      BY <3>1, <3>2
  <2> QED
    BY <2>1 DEF Rows, Outstanding
<1>5. WholeOK'
  BY <1>1, <1>2, <1>4, WholeFramed DEF Deleting, Known
<1>6. CompleteOK'
  BY <1>1, <1>3, <1>4, CompleteFramed DEF Deleting, AttemptSpent, Leave, AtChapter
<1> QED
  BY <1>5, <1>6 DEF WholeInv

LEMMA RecordedWhole ==
  ASSUME KeepInv, WholeInv, ~Overlap, Budget["crash"] <= 1, Recorded
  PROVE  WholeInv'
<1> USE DEF Rewritten, Recorded, InLoop, Leave, IsCancelled, loop, control, flags, calls, host, stored
<1>1. KeepFacts /\ WholeOK /\ CompleteOK
  BY KeepIs DEF WholeInv
<1>2. Stopped' <=> Stopped
  BY DEF Stopped
<1>3. AttemptFails => AttemptSpent
  BY <1>1, AttemptFailsDoes
<1>4. Rewritten(cur, Recomputed(cur, page[cur]))
  <2>1. cur \in Chapter /\ StoreTypes
    BY <1>1 DEF KeepFacts, LoopTypes, AtChapter, CallTypes, EnqueueCall
  <2>2. page[cur] \in [Page -> {"absent", "queued", "complete", "failed"}]
    BY <1>1, <2>1 DEF KeepFacts, StoreTypes
  <2>3. CASE UNCHANGED chapter
    BY <2>1, <2>3, NothingWritten
  <2>4. CASE Known(cur) /\ PutState(cur, Recomputed(cur, page[cur]))
    BY <2>1, <2>2, <2>4, RecomputedWritten
  <2> QED
    BY <2>3, <2>4
<1>5. Known(cur) /\ Recomputed(cur, page[cur]) = "complete" =>
        /\ chapter[cur].resolved /\ Outstanding(cur) = {} /\ Rows(cur) # {}
  BY <1>1, RecomputedIs DEF KeepFacts, Outstanding, Rows, StoreTypes, LoopTypes, AtChapter
<1>6. WholeOK'
  BY <1>1, <1>2, <1>3, <1>4, <1>5, PagesAreNaturals, NoCallIsNone DEF KeepFacts, WholeOK, Whole,
     Deleting, Known, Rows, StoreTypes, LoopTypes, CallTypes, DeleteCall, EnqueueCall, AtChapter,
     Restated, AttemptSpent
<1>7. CompleteOK'
  <2>1. \A c \in Chapter : Rows(c)' = Rows(c) /\ Outstanding(c)' = Outstanding(c)
    <3>1. \A c \in Chapter, p \in Page : page'[c][p] = page[c][p]
      BY <1>1, <1>3 DEF AttemptSpent
    <3> QED
      BY <3>1 DEF Rows, Outstanding
  <2>2. CASE Known(cur)
    BY <1>1, <1>4, <1>5, <2>1, <2>2 DEF CompleteOK, Restated, Deleting, AtChapter
  <2>3. CASE ~Known(cur)
    BY <1>1, <1>3, <2>1, <2>3, CompleteFramed DEF Deleting, AttemptSpent, Leave, AtChapter
  <2> QED
    BY <2>2, <2>3
<1> QED
  BY <1>6, <1>7 DEF WholeInv

LEMMA FailRecordedWhole ==
  ASSUME KeepInv, WholeInv, ~Overlap, Budget["crash"] <= 1, FailRecorded
  PROVE  WholeInv'
<1> USE DEF Rewritten, FailRecorded, InLoop, loop, control, flags, calls, host, stored
<1>1. KeepFacts /\ WholeOK /\ CompleteOK
  BY KeepIs DEF WholeInv
<1>2. Stopped' <=> Stopped
  BY DEF Stopped
<1>3. Rewritten(cur, Recomputed(cur, page[cur]))
  <2>1. cur \in Chapter /\ StoreTypes
    BY <1>1 DEF KeepFacts, LoopTypes, AtChapter, CallTypes, EnqueueCall
  <2>2. page[cur] \in [Page -> {"absent", "queued", "complete", "failed"}]
    BY <1>1, <2>1 DEF KeepFacts, StoreTypes
  <2>3. CASE UNCHANGED chapter
    BY <2>1, <2>3, NothingWritten
  <2>4. CASE Known(cur) /\ PutState(cur, Recomputed(cur, page[cur]))
    BY <2>1, <2>2, <2>4, RecomputedWritten
  <2> QED
    BY <2>3, <2>4
<1>4. Known(cur) /\ Recomputed(cur, page[cur]) = "complete" =>
        /\ chapter[cur].resolved /\ Outstanding(cur) = {} /\ Rows(cur) # {}
  BY <1>1, RecomputedIs DEF KeepFacts, Outstanding, Rows, StoreTypes, LoopTypes, AtChapter
<1>5. WholeOK'
  BY <1>1, <1>2, <1>3, <1>4, PagesAreNaturals, NoCallIsNone DEF KeepFacts, WholeOK, Whole, Deleting,
     Known, Rows, StoreTypes, LoopTypes, CallTypes, DeleteCall, EnqueueCall, AtChapter, Restated
<1>6. CompleteOK'
  BY <1>1, <1>2, <1>3, <1>4, PagesAreNaturals, NoCallIsNone DEF KeepFacts, CompleteOK, Outstanding,
     Deleting, Known, Rows, StoreTypes, LoopTypes, CallTypes, DeleteCall, EnqueueCall, AtChapter,
     Restated, NoChapter
<1> QED
  BY <1>5, <1>6 DEF WholeInv

LEMMA ExitLoopWhole ==
  ASSUME KeepInv, WholeInv, ~Overlap, Budget["crash"] <= 1, ExitLoop
  PROVE  WholeInv'
<1> USE DEF ExitLoop, loop, control, flags, calls, host, stored
<1>1. KeepFacts /\ WholeOK /\ CompleteOK
  BY KeepIs DEF WholeInv
<1>2. Stopped' <=> Stopped
  BY DEF Stopped
<1>3. WholeOK'
  BY <1>1, <1>2, PagesAreNaturals, NoCallIsNone DEF KeepFacts, WholeOK, Whole, Deleting, Known,
     Rows, StoreTypes, LoopTypes, CallTypes
<1>4. CompleteOK'
  BY <1>1, <1>2, PagesAreNaturals, NoCallIsNone DEF KeepFacts, CompleteOK, Outstanding, Deleting,
     Known, Rows, StoreTypes, LoopTypes, CallTypes, DeleteCall
<1> QED
  BY <1>3, <1>4 DEF WholeInv

LEMMA SettleWhole ==
  ASSUME KeepInv, WholeInv, ~Overlap, Budget["crash"] <= 1, Settle
  PROVE  WholeInv'
<1> USE DEF Settle, loop, control, flags, calls, host, stored
<1>1. KeepFacts /\ WholeOK /\ CompleteOK
  BY KeepIs DEF WholeInv
<1>2. Stopped' <=> Stopped
  BY DEF Stopped
<1>3. WholeOK'
  BY <1>1, <1>2, PagesAreNaturals, NoCallIsNone DEF KeepFacts, WholeOK, Whole, Deleting, Known,
     Rows, StoreTypes, LoopTypes, CallTypes
<1>4. CompleteOK'
  BY <1>1, <1>2, PagesAreNaturals, NoCallIsNone DEF KeepFacts, CompleteOK, Outstanding, Deleting,
     Known, Rows, StoreTypes, LoopTypes, CallTypes, DeleteCall
<1> QED
  BY <1>3, <1>4 DEF WholeInv

LEMMA KickWhole ==
  ASSUME KeepInv, WholeInv, ~Overlap, Budget["crash"] <= 1, Kick
  PROVE  WholeInv'
<1> USE DEF Kick, Drain, loop, control, flags, calls, host, stored
<1>1. KeepFacts /\ WholeOK /\ CompleteOK
  BY KeepIs DEF WholeInv
<1>2. Stopped' <=> Stopped
  BY DEF Stopped
<1>3. WholeOK'
  BY <1>1, <1>2, PagesAreNaturals, NoCallIsNone DEF KeepFacts, WholeOK, Whole, Deleting, Known,
     Rows, StoreTypes, LoopTypes, CallTypes
<1>4. CompleteOK'
  BY <1>1, <1>2, PagesAreNaturals, NoCallIsNone DEF KeepFacts, CompleteOK, Outstanding, Deleting,
     Known, Rows, StoreTypes, LoopTypes, CallTypes, DeleteCall
<1> QED
  BY <1>3, <1>4 DEF WholeInv

LEMMA StopWhole ==
  ASSUME KeepInv, WholeInv, ~Overlap, Budget["crash"] <= 1, Stop
  PROVE  WholeInv'
<1> USE DEF Stop, loop, control, flags, calls, host, stored
<1>1. KeepFacts /\ WholeOK /\ CompleteOK
  BY KeepIs DEF WholeInv
<1>2. Stopped' <=> Stopped
  BY <1>1, OtherEvent, EventIs DEF KeepFacts
<1>3. WholeOK'
  BY <1>1, <1>2, PagesAreNaturals, NoCallIsNone DEF KeepFacts, WholeOK, Whole, Deleting, Known,
     Rows, StoreTypes, LoopTypes, CallTypes
<1>4. CompleteOK'
  BY <1>1, <1>2, PagesAreNaturals, NoCallIsNone DEF KeepFacts, CompleteOK, Outstanding, Deleting,
     Known, Rows
<1> QED
  BY <1>3, <1>4 DEF WholeInv

LEMMA IdleFiresWhole ==
  ASSUME KeepInv, WholeInv, ~Overlap, Budget["crash"] <= 1, IdleFires
  PROVE  WholeInv'
<1> USE DEF IdleFires, Drain, loop, control, flags, calls, host, stored
<1>1. KeepFacts /\ WholeOK /\ CompleteOK
  BY KeepIs DEF WholeInv
<1>2. Stopped' <=> Stopped
  BY DEF Stopped
<1>3. WholeOK'
  BY <1>1, <1>2, PagesAreNaturals, NoCallIsNone DEF KeepFacts, WholeOK, Whole, Deleting, Known,
     Rows, StoreTypes, LoopTypes, CallTypes
<1>4. CompleteOK'
  BY <1>1, <1>2, PagesAreNaturals, NoCallIsNone DEF KeepFacts, CompleteOK, Outstanding, Deleting,
     Known, Rows, StoreTypes, LoopTypes, CallTypes, DeleteCall
<1> QED
  BY <1>3, <1>4 DEF WholeInv

LEMMA HoldEndsWhole ==
  ASSUME KeepInv, WholeInv, ~Overlap, Budget["crash"] <= 1, HoldEnds
  PROVE  WholeInv'
<1> USE DEF HoldEnds, loop, control, flags, calls, host, stored
<1>1. KeepFacts /\ WholeOK /\ CompleteOK
  BY KeepIs DEF WholeInv
<1>2. Stopped' <=> Stopped
  BY DEF Stopped
<1>3. WholeOK'
  BY <1>1, <1>2, PagesAreNaturals, NoCallIsNone DEF KeepFacts, WholeOK, Whole, Deleting, Known,
     Rows, StoreTypes, LoopTypes, CallTypes
<1>4. CompleteOK'
  BY <1>1, <1>2, PagesAreNaturals, NoCallIsNone DEF KeepFacts, CompleteOK, Outstanding, Deleting,
     Known, Rows
<1> QED
  BY <1>3, <1>4 DEF WholeInv

LEMMA UnblockFiresWhole ==
  ASSUME KeepInv, WholeInv, ~Overlap, Budget["crash"] <= 1, UnblockFires
  PROVE  WholeInv'
<1> USE DEF UnblockFires, Drain, loop, control, flags, calls, host, stored
<1>1. KeepFacts /\ WholeOK /\ CompleteOK
  BY KeepIs DEF WholeInv
<1>2. Stopped' <=> Stopped
  BY DEF Stopped
<1>3. WholeOK'
  BY <1>1, <1>2, PagesAreNaturals, NoCallIsNone DEF KeepFacts, WholeOK, Whole, Deleting, Known,
     Rows, StoreTypes, LoopTypes, CallTypes
<1>4. CompleteOK'
  BY <1>1, <1>2, PagesAreNaturals, NoCallIsNone DEF KeepFacts, CompleteOK, Outstanding, Deleting,
     Known, Rows, StoreTypes, LoopTypes, CallTypes, DeleteCall
<1> QED
  BY <1>3, <1>4 DEF WholeInv

LEMMA GateFlipsWhole ==
  ASSUME KeepInv, WholeInv, ~Overlap, Budget["crash"] <= 1, GateFlips
  PROVE  WholeInv'
<1> USE DEF GateFlips, loop, control, flags, calls, host, stored
<1>1. KeepFacts /\ WholeOK /\ CompleteOK
  BY KeepIs DEF WholeInv
<1>2. Stopped' <=> Stopped
  BY <1>1, OtherEvent, EventIs DEF KeepFacts
<1>3. WholeOK'
  BY <1>1, <1>2, PagesAreNaturals, NoCallIsNone DEF KeepFacts, WholeOK, Whole, Deleting, Known,
     Rows, StoreTypes, LoopTypes, CallTypes
<1>4. CompleteOK'
  BY <1>1, <1>2, PagesAreNaturals, NoCallIsNone DEF KeepFacts, CompleteOK, Outstanding, Deleting,
     Known, Rows
<1> QED
  BY <1>3, <1>4 DEF WholeInv

LEMMA CrashWhole ==
  ASSUME KeepInv, WholeInv, ~Overlap, Budget["crash"] <= 1, Crash
  PROVE  WholeInv'
<1> USE DEF Crash, loop, control, flags, calls, host, stored
<1>1. KeepFacts /\ WholeOK /\ CompleteOK
  BY KeepIs DEF WholeInv
<1>2. ~Stopped /\ Stopped'
  BY <1>1, OneStop DEF KeepFacts
<1>3. WholeOK'
  BY <1>1, <1>2, PagesAreNaturals, NoCallIsNone DEF KeepFacts, WholeOK, Whole, Deleting, Known,
     Rows, StoreTypes, LoopTypes, CallTypes
<1>4. CompleteOK'
  BY <1>1, <1>2, PagesAreNaturals, NoCallIsNone DEF KeepFacts, CompleteOK, Outstanding, Deleting,
     Known, Rows
<1> QED
  BY <1>3, <1>4 DEF WholeInv

-----------------------------------------------------------------------------
(* WholeInv, action by action: the calls                                    *)

LEMMA EnqueueWhole ==
  ASSUME KeepInv, WholeInv, ~Overlap, Budget["crash"] <= 1, NEW c \in Chapter, Enqueue(c)
  PROVE  WholeInv'
<1> USE DEF Enqueue, InCall, loop, control, flags, calls, host, stored
<1>1. KeepFacts /\ WholeOK /\ CompleteOK
  BY KeepIs DEF WholeInv
<1>2. Stopped' <=> Stopped
  BY <1>1, OtherEvent, EventIs DEF KeepFacts
<1>3. WholeOK'
  BY <1>1, <1>2, PagesAreNaturals, NoCallIsNone DEF KeepFacts, WholeOK, Whole, Deleting, Known,
     Rows, StoreTypes, LoopTypes, CallTypes
<1>4. CompleteOK'
  BY <1>1, <1>2, PagesAreNaturals, NoCallIsNone DEF KeepFacts, CompleteOK, Outstanding, Deleting,
     Known, Rows
<1> QED
  BY <1>3, <1>4 DEF WholeInv

LEMMA EnqueueRowWhole ==
  ASSUME KeepInv, WholeInv, ~Overlap, Budget["crash"] <= 1, EnqueueRow
  PROVE  WholeInv'
<1> USE DEF EnqueueRow, InCall, loop, control, flags, calls, host, stored
<1>1. KeepFacts /\ WholeOK /\ CompleteOK
  BY KeepIs DEF WholeInv
<1>2. Stopped' <=> Stopped
  BY DEF Stopped
<1>3. WholeOK'
  BY <1>1, <1>2, PagesAreNaturals, NoCallIsNone DEF KeepFacts, WholeOK, Whole, Deleting, Known,
     Rows, StoreTypes, LoopTypes, CallTypes
<1>4. CompleteOK'
  BY <1>1, <1>2, PagesAreNaturals, NoCallIsNone DEF KeepFacts, CompleteOK, Outstanding, Deleting,
     Known, Rows
<1> QED
  BY <1>3, <1>4 DEF WholeInv

LEMMA EnqueueStateWhole ==
  ASSUME KeepInv, WholeInv, ~Overlap, Budget["crash"] <= 1, EnqueueState
  PROVE  WholeInv'
<1> USE DEF Rewritten, EnqueueState, InCall, loop, control, flags, calls, host, stored
<1>1. KeepFacts /\ WholeOK /\ CompleteOK
  BY KeepIs DEF WholeInv
<1>2. Stopped' <=> Stopped
  BY DEF Stopped
<1>3. Rewritten(enq.chapter, Recomputed(enq.chapter, page[enq.chapter]))
  <2>1. enq.chapter \in Chapter /\ StoreTypes
    BY <1>1 DEF KeepFacts, LoopTypes, AtChapter, CallTypes, EnqueueCall
  <2>2. page[enq.chapter] \in [Page -> {"absent", "queued", "complete", "failed"}]
    BY <1>1, <2>1 DEF KeepFacts, StoreTypes
  <2>3. CASE UNCHANGED chapter
    BY <2>1, <2>3, NothingWritten
  <2>4. CASE Known(enq.chapter) /\ PutState(enq.chapter, Recomputed(enq.chapter, page[enq.chapter]))
    BY <2>1, <2>2, <2>4, RecomputedWritten
  <2> QED
    BY <2>3, <2>4
<1>4. Known(enq.chapter) /\ Recomputed(enq.chapter, page[enq.chapter]) = "complete" =>
        /\ chapter[enq.chapter].resolved /\ Outstanding(enq.chapter) = {} /\ Rows(enq.chapter) # {}
  BY <1>1, RecomputedIs DEF KeepFacts, Outstanding, Rows, StoreTypes, CallTypes, EnqueueCall
<1>5. WholeOK'
  <2>1. \A c \in Chapter : Rows(c)' = Rows(c)
    BY DEF Rows
  <2>2. pc = "rows" => cur # enq.chapter
    BY <1>1 DEF Free
  <2> QED
    BY <1>1, <1>2, <1>3, <2>1, <2>2, WholeFramed DEF Deleting, Restated
<1>6. CompleteOK'
  BY <1>1, <1>2, <1>3, <1>4, PagesAreNaturals, NoCallIsNone DEF KeepFacts, CompleteOK, Outstanding,
     Deleting, Known, Rows, StoreTypes, LoopTypes, CallTypes, DeleteCall, EnqueueCall, AtChapter,
     Restated, NoChapter
<1> QED
  BY <1>5, <1>6 DEF WholeInv

LEMMA EnqueueFlagWhole ==
  ASSUME KeepInv, WholeInv, ~Overlap, Budget["crash"] <= 1, EnqueueFlag
  PROVE  WholeInv'
<1> USE DEF Rewritten, EnqueueFlag, InCall, loop, control, flags, calls, host, stored
<1>1. KeepFacts /\ WholeOK /\ CompleteOK
  BY KeepIs DEF WholeInv
<1>2. Stopped' <=> Stopped
  BY DEF Stopped
<1>3. Rewritten(enq.chapter, Paused(enq.chapter))
  <2>1. enq.chapter \in Chapter /\ StoreTypes
    BY <1>1 DEF KeepFacts, LoopTypes, AtChapter, CallTypes, EnqueueCall
  <2>2. CASE UNCHANGED chapter
    BY <2>1, <2>2, NothingWritten
  <2>3. CASE Known(enq.chapter) /\ PutState(enq.chapter, Paused(enq.chapter))
    BY <2>1, <2>3, PausedWritten
  <2> QED
    BY <2>2, <2>3
<1>4. WholeOK'
  BY <1>1, <1>2, <1>3, PagesAreNaturals, NoCallIsNone DEF KeepFacts, WholeOK, Whole, Deleting,
     Known, Rows, EnqueueCall, AtChapter, Restated, Paused
<1>5. CompleteOK'
  BY <1>1, <1>2, <1>3, PagesAreNaturals, NoCallIsNone DEF KeepFacts, CompleteOK, Outstanding,
     Deleting, Known, Rows, StoreTypes, LoopTypes, CallTypes, DeleteCall, EnqueueCall, AtChapter,
     Restated, NoChapter, Paused
<1> QED
  BY <1>4, <1>5 DEF WholeInv

LEMMA PauseChapterWhole ==
  ASSUME KeepInv, WholeInv, ~Overlap, Budget["crash"] <= 1, NEW c \in Chapter, PauseChapter(c)
  PROVE  WholeInv'
<1> USE DEF Rewritten, PauseChapter, InCall, loop, control, flags, calls, host, stored
<1>1. KeepFacts /\ WholeOK /\ CompleteOK
  BY KeepIs DEF WholeInv
<1>2. Stopped' <=> Stopped
  BY <1>1, OtherEvent, EventIs DEF KeepFacts
<1>3. Rewritten(c, Paused(c))
  <2>1. c \in Chapter /\ StoreTypes
    BY <1>1 DEF KeepFacts, LoopTypes, AtChapter, CallTypes, EnqueueCall
  <2>2. CASE UNCHANGED chapter
    BY <2>1, <2>2, NothingWritten
  <2>3. CASE Known(c) /\ PutState(c, Paused(c))
    BY <2>1, <2>3, PausedWritten
  <2> QED
    BY <2>2, <2>3
<1>4. WholeOK'
  BY <1>1, <1>2, <1>3, PagesAreNaturals, NoCallIsNone DEF KeepFacts, WholeOK, Whole, Deleting,
     Known, Rows, EnqueueCall, AtChapter, Restated, Paused
<1>5. CompleteOK'
  BY <1>1, <1>2, <1>3, PagesAreNaturals, NoCallIsNone DEF KeepFacts, CompleteOK, Outstanding,
     Deleting, Known, Rows, StoreTypes, LoopTypes, CallTypes, DeleteCall, EnqueueCall, AtChapter,
     Restated, NoChapter, Paused
<1> QED
  BY <1>4, <1>5 DEF WholeInv

LEMMA ResumeChapterWhole ==
  ASSUME KeepInv, WholeInv, ~Overlap, Budget["crash"] <= 1, NEW c \in Chapter, ResumeChapter(c)
  PROVE  WholeInv'
<1> USE DEF Rewritten, ResumeChapter, InCall, loop, control, flags, calls, host, stored
<1>1. KeepFacts /\ WholeOK /\ CompleteOK
  BY KeepIs DEF WholeInv
<1>2. Stopped' <=> Stopped
  BY <1>1, OtherEvent, EventIs DEF KeepFacts
<1>3. Rewritten(c, Resumed(c))
  <2>1. c \in Chapter /\ StoreTypes
    BY <1>1 DEF KeepFacts, LoopTypes, AtChapter, CallTypes, EnqueueCall
  <2> QED
    BY <2>1, ResumedWritten
<1>4. WholeOK'
  BY <1>1, <1>2, <1>3, PagesAreNaturals, NoCallIsNone DEF KeepFacts, WholeOK, Whole, Deleting,
     Known, Rows, EnqueueCall, AtChapter, Restated, Resumed
<1>5. CompleteOK'
  BY <1>1, <1>2, <1>3, PagesAreNaturals, NoCallIsNone DEF KeepFacts, CompleteOK, Outstanding,
     Deleting, Known, Rows, StoreTypes, LoopTypes, CallTypes, DeleteCall, EnqueueCall, AtChapter,
     Restated, NoChapter, Resumed
<1> QED
  BY <1>4, <1>5 DEF WholeInv

LEMMA RetryChapterWhole ==
  ASSUME KeepInv, WholeInv, ~Overlap, Budget["crash"] <= 1, NEW c \in Chapter, RetryChapter(c)
  PROVE  WholeInv'
<1> USE DEF RetryChapter, InCall, Outstanding, loop, control, flags, calls, host, stored
<1>1. KeepFacts /\ WholeOK /\ CompleteOK
  BY KeepIs DEF WholeInv
<1>2. Stopped' <=> Stopped
  BY <1>1, OtherEvent, EventIs DEF KeepFacts
<1>3. /\ Rows(c)' = Rows(c)
      /\ \A x \in Chapter : x # c => Rows(x)' = Rows(x) /\ Outstanding(x)' = Outstanding(x)
      /\ Recomputed(c, page'[c]) = "complete" =>
           chapter[c].resolved /\ Outstanding(c)' = {} /\ Rows(c)' # {}
  <2> DEFINE rows == [p \in Page |-> IF p \in Outstanding(c) THEN "queued" ELSE page[c][p]]
  <2>1. /\ page' = [page EXCEPT ![c] = rows]
        /\ rows \in [Page -> {"absent", "queued", "complete", "failed"}]
        /\ \A p \in Page : rows[p] = IF p \in Outstanding(c) THEN "queued" ELSE page[c][p]
    BY <1>1 DEF KeepFacts, StoreTypes
  <2> HIDE DEF rows
  <2>2. page'[c] = rows /\ \A x \in Chapter : x # c => page'[x] = page[x]
    BY <1>1, <2>1 DEF KeepFacts, StoreTypes
  <2>3. Rows(c)' = Rows(c)
    BY <2>1, <2>2 DEF Rows, Outstanding
  <2>4. \A x \in Chapter : x # c => Rows(x)' = Rows(x) /\ Outstanding(x)' = Outstanding(x)
    BY <2>2 DEF Rows, Outstanding
  <2>5. Recomputed(c, rows) = "complete" =>
          /\ chapter[c].resolved
          /\ \A p \in Page : rows[p] \in {"absent", "complete"}
          /\ \E p \in Page : rows[p] = "complete"
    BY <1>1, <2>1, RecomputedIs DEF KeepFacts
  <2>6. Recomputed(c, rows) = "complete" => Outstanding(c)' = {} /\ Rows(c)' # {}
    BY <2>2, <2>5 DEF Rows, Outstanding
  <2> QED
    BY <2>2, <2>3, <2>4, <2>5, <2>6
<1>4. Restated(c) /\ chapter'[c].state = Recomputed(c, page'[c])
  <2>1. c \in Chapter /\ StoreTypes /\ Known(c) /\ PutState(c, Recomputed(c, page'[c]))
    BY <1>1 DEF KeepFacts, StoreTypes
  <2>2. page'[c] \in [Page -> {"absent", "queued", "complete", "failed"}]
    BY <1>1, <2>1 DEF KeepFacts, StoreTypes
  <2> QED
    BY <2>1, <2>2, RecomputedWritten
<1>5. WholeOK'
  <2>1. pc = "rows" => cur # c
    BY <1>1 DEF Free
  <2> QED
    BY <1>1, <1>2, <1>3, <1>4, <2>1, WholeFramed DEF Deleting, Restated
<1>6. CompleteOK'
  <2>1. /\ \A x \in Chapter : x # c =>
             chapter'[x] = chapter[x] /\ Rows(x)' = Rows(x) /\ Outstanding(x)' = Outstanding(x)
        /\ chapter'[c].resolved = chapter[c].resolved
    BY <1>3, <1>4 DEF Restated
  <2>2. \A x \in Chapter : Deleting(x)' = Deleting(x)
    BY DEF Deleting
  <2>3. chapter'[c].state = "complete" => chapter[c].resolved /\ Outstanding(c)' = {} /\ Rows(c)' # {}
    BY <1>3, <1>4
  <2>4. UNCHANGED <<pc, todo, cur>> /\ CompleteOK
    BY <1>1
  <2> QED
    BY ONLY <2>1, <2>2, <2>3, <2>4 DEF CompleteOK
<1> QED
  BY <1>5, <1>6 DEF WholeInv

LEMMA PauseSeriesWhole ==
  ASSUME KeepInv, WholeInv, ~Overlap, Budget["crash"] <= 1, PauseSeries
  PROVE  WholeInv'
<1> USE DEF PauseSeries, InCall, loop, control, flags, calls, host, stored
<1>1. KeepFacts /\ WholeOK /\ CompleteOK
  BY KeepIs DEF WholeInv
<1>2. Stopped' <=> Stopped
  BY <1>1, OtherEvent, EventIs DEF KeepFacts
<1>3. WholeOK'
  BY <1>1, <1>2, PagesAreNaturals, NoCallIsNone DEF KeepFacts, WholeOK, Whole, Deleting, Known,
     Rows, StoreTypes, LoopTypes, CallTypes
<1>4. CompleteOK'
  BY <1>1, <1>2, PagesAreNaturals, NoCallIsNone DEF KeepFacts, CompleteOK, Outstanding, Deleting,
     Known, Rows
<1> QED
  BY <1>3, <1>4 DEF WholeInv

LEMMA ResumeSeriesWhole ==
  ASSUME KeepInv, WholeInv, ~Overlap, Budget["crash"] <= 1, ResumeSeries
  PROVE  WholeInv'
<1> USE DEF ResumeSeries, InCall, loop, control, flags, calls, host, stored
<1>1. KeepFacts /\ WholeOK /\ CompleteOK
  BY KeepIs DEF WholeInv
<1>2. Stopped' <=> Stopped
  BY <1>1, OtherEvent, EventIs DEF KeepFacts
<1>3. WholeOK'
  <2>1. \A c \in Chapter : Whole(c) => Whole(c)'
    BY <1>2 DEF Whole, Rows, Deleting
  <2>2. \A c \in Chapter : c \in DOMAIN bulk'.rows => Known(c) /\ bulk'.rows[c] = chapter[c]
    BY DEF Known, NoChapter
  <2> QED
    BY <1>1, <2>1, <2>2 DEF WholeOK, Known
<1>4. CompleteOK'
  BY <1>1, <1>2, PagesAreNaturals, NoCallIsNone DEF KeepFacts, CompleteOK, Outstanding, Deleting,
     Known, Rows
<1> QED
  BY <1>3, <1>4 DEF WholeInv

LEMMA BulkPutWhole ==
  ASSUME KeepInv, WholeInv, ~Overlap, Budget["crash"] <= 1, BulkPut
  PROVE  WholeInv'
<1> USE DEF BulkPut, InCall, loop, control, flags, calls, host, stored
<1>1. KeepFacts /\ WholeOK /\ CompleteOK
  BY KeepIs DEF WholeInv
<1>2. Stopped' <=> Stopped
  BY DEF Stopped
<1>3. WholeOK'
  BY <1>1, <1>2, PagesAreNaturals, NoCallIsNone DEF KeepFacts, WholeOK, Whole, Deleting, Known,
     Rows, StoreTypes, LoopTypes, CallTypes
<1>4. CompleteOK'
  BY <1>1, <1>2, PagesAreNaturals, NoCallIsNone DEF KeepFacts, CompleteOK, Outstanding, Deleting,
     Known, Rows
<1> QED
  BY <1>3, <1>4 DEF WholeInv

LEMMA BulkEndWhole ==
  ASSUME KeepInv, WholeInv, ~Overlap, Budget["crash"] <= 1, BulkEnd
  PROVE  WholeInv'
<1> USE DEF BulkEnd, InCall, loop, control, flags, calls, host, stored
<1>1. KeepFacts /\ WholeOK /\ CompleteOK
  BY KeepIs DEF WholeInv
<1>2. Stopped' <=> Stopped
  BY DEF Stopped
<1>3. WholeOK'
  BY <1>1, <1>2, PagesAreNaturals, NoCallIsNone DEF KeepFacts, WholeOK, Whole, Deleting, Known,
     Rows, StoreTypes, LoopTypes, CallTypes
<1>4. CompleteOK'
  BY <1>1, <1>2, PagesAreNaturals, NoCallIsNone DEF KeepFacts, CompleteOK, Outstanding, Deleting,
     Known, Rows
<1> QED
  BY <1>3, <1>4 DEF WholeInv

LEMMA DeleteWhole ==
  ASSUME KeepInv, WholeInv, ~Overlap, Budget["crash"] <= 1, NEW c \in Chapter, Delete(c)
  PROVE  WholeInv'
<1> USE DEF Delete, InCall, loop, control, flags, calls, host, stored
<1>1. KeepFacts /\ WholeOK /\ CompleteOK
  BY KeepIs DEF WholeInv
<1>2. Stopped' <=> Stopped
  BY <1>1, OtherEvent, EventIs DEF KeepFacts
<1>3. WholeOK'
  BY <1>1, <1>2, PagesAreNaturals, NoCallIsNone DEF KeepFacts, WholeOK, Whole, Deleting, Known,
     Rows, StoreTypes, LoopTypes, CallTypes, DeleteCall, EnqueueCall, AtChapter, Restated
<1>4. CompleteOK'
  BY <1>1, <1>2, PagesAreNaturals, NoCallIsNone DEF KeepFacts, CompleteOK, Outstanding, Deleting,
     Known, Rows, StoreTypes, LoopTypes, CallTypes, DeleteCall
<1> QED
  BY <1>3, <1>4 DEF WholeInv

LEMMA DeleteRowWhole ==
  ASSUME KeepInv, WholeInv, ~Overlap, Budget["crash"] <= 1, DeleteRow
  PROVE  WholeInv'
<1> USE DEF DeleteRow, InCall, loop, control, flags, calls, host, stored
<1>1. KeepFacts /\ WholeOK /\ CompleteOK
  BY KeepIs DEF WholeInv
<1>2. Stopped' <=> Stopped
  BY DEF Stopped
<1>3. WholeOK'
  <2>1. /\ del.chapter \in Chapter /\ bulk = None /\ bulk' = None
        /\ del # None /\ del' # None /\ del'.chapter = del.chapter
    BY <1>1, NoCallIsNone DEF KeepFacts, CallTypes, DeleteCall, DeleteOK
  <2>2. /\ chapter'[del.chapter] = NoChapter
        /\ \A x \in Chapter : x # del.chapter => chapter'[x] = chapter[x]
    BY <1>1, <2>1 DEF KeepFacts, StoreTypes
  <2>3. \A c \in Chapter : c # del.chapter /\ Whole(c) => Whole(c)'
    BY <1>2, <2>1, <2>2 DEF Whole, Rows, Deleting
  <2> QED
    BY <1>1, <2>1, <2>2, <2>3 DEF WholeOK, Known
<1>4. CompleteOK'
  BY <1>1, <1>2, PagesAreNaturals, NoCallIsNone DEF KeepFacts, CompleteOK, Outstanding, Deleting,
     Known, Rows, StoreTypes, LoopTypes, CallTypes, DeleteCall, EnqueueCall, AtChapter, Restated,
     NoChapter
<1> QED
  BY <1>3, <1>4 DEF WholeInv

LEMMA DeleteFilesWhole ==
  ASSUME KeepInv, WholeInv, ~Overlap, Budget["crash"] <= 1, DeleteFiles
  PROVE  WholeInv'
<1> USE DEF DeleteFiles, InCall, loop, control, flags, calls, host, stored
<1>1. KeepFacts /\ WholeOK /\ CompleteOK
  BY KeepIs DEF WholeInv
<1>2. Stopped' <=> Stopped
  BY DEF Stopped
<1>3. /\ del.chapter \in Chapter /\ bulk = None /\ ~Known(del.chapter)
      /\ \A c \in Chapter : c # del.chapter => ~Deleting(c)
  BY <1>1 DEF KeepFacts, CallTypes, DeleteCall, DeleteOK, Deleting
<1>4. WholeOK'
  <2>1. \A c \in Chapter : c # del.chapter /\ Whole(c) => Whole(c)'
    BY <1>2, <1>3 DEF Whole, Rows
  <2> QED
    BY <1>1, <1>3, <2>1 DEF WholeOK, Known
<1>5. CompleteOK'
  BY <1>1, <1>3 DEF CompleteOK, Known, NoChapter, Rows, Outstanding
<1> QED
  BY <1>4, <1>5 DEF WholeInv

-----------------------------------------------------------------------------
(* WholeInv holds from the start, and complete chapters can be read         *)

LEMMA WholeStarts == ASSUME Init PROVE WholeInv
  BY DEF Init, WholeInv, WholeOK, CompleteOK, Known, NoChapter

LEMMA WholeStays ==
  ASSUME KeepInv, WholeInv, ~Overlap, Budget["crash"] <= 1, [Next]_vars
  PROVE  WholeInv'
<1>1. CASE DrainStep
  BY <1>1, TopWhole, EndPassWhole, TakeChapterWhole, ResolveWhole, WriteRowWhole,
     WriteResolvedWhole, ResolvedWhole, ReadPagesWhole, NextPageWhole, WriteFileWhole,
     RecordPageWhole, RecordedWhole, FailRecordedWhole, ExitLoopWhole, SettleWhole DEF DrainStep
<1>2. CASE ResolveFails \/ ResolveLimited \/ FetchFails \/ FetchLimited
  BY <1>2, ResolveFailsWhole, ResolveLimitedWhole, FetchFailsWhole, FetchLimitedWhole
<1>3. CASE Kick \/ Stop \/ IdleFires \/ HoldEnds \/ UnblockFires \/ GateFlips \/ Crash
  BY <1>3, KickWhole, StopWhole, IdleFiresWhole, HoldEndsWhole, UnblockFiresWhole, GateFlipsWhole,
     CrashWhole
<1>4. CASE Call
  BY <1>4, EnqueueWhole, PauseChapterWhole, ResumeChapterWhole, RetryChapterWhole, DeleteWhole,
     PauseSeriesWhole, ResumeSeriesWhole DEF Call
<1>5. CASE CallStep
  BY <1>5, EnqueueRowWhole, EnqueueStateWhole, EnqueueFlagWhole, BulkPutWhole, BulkEndWhole,
     DeleteRowWhole, DeleteFilesWhole DEF CallStep
<1>6. CASE UNCHANGED vars
  BY <1>6 DEF vars, stored, loop, control, flags, calls, host, WholeInv, WholeOK, CompleteOK, Whole,
     Stopped, Deleting, Rows, Outstanding, Known
<1> QED
  BY <1>1, <1>2, <1>3, <1>4, <1>5, <1>6 DEF Next

LEMMA CompleteReads == ASSUME KeepInv, WholeInv PROVE CompleteMeansAll
<1> SUFFICES ASSUME NEW c \in Chapter, chapter[c].state = "complete"
             PROVE  /\ chapter[c].resolved
                    /\ Rows(c) = {} \/ \A p \in PagesOf[c] : page[c][p] = "complete"
  BY DEF CompleteMeansAll
<1>1. Known(c) /\ chapter[c].resolved /\ Outstanding(c) = {}
  BY DEF WholeInv, CompleteOK, Known, NoChapter
<1>2. PagesOf[c] \subseteq Rows(c) \/ Rows(c) = {}
  BY <1>1 DEF WholeInv, WholeOK, Whole
<1> QED
  BY <1>1, <1>2, PagesAreNaturals DEF Outstanding

\* A chapter that reads complete has the page list its resolution wrote and every page of it, or no
\* pages at all, which is where a delete under way or one a stop cut short leaves it (recomputeChapter,
\* isChapterComplete), as long as calls do not overlap and the process stops at most once: a second
\* stop can cut the resolution of a chapter that still counts as resolved from before the delete the
\* first one cut.
THEOREM CompleteCanBeRead ==
  ASSUME ~Overlap, Budget["crash"] <= 1
  PROVE  Spec => []CompleteMeansAll
<1>1. Init => KeepInv /\ WholeInv
  BY KeepStarts, WholeStarts
<1>2. KeepInv /\ WholeInv /\ [Next]_vars => (KeepInv /\ WholeInv)'
  BY KeepStays, WholeStays
<1>3. KeepInv /\ WholeInv => CompleteMeansAll
  BY CompleteReads
<1> QED
  BY <1>1, <1>2, <1>3, PTL DEF Spec

-----------------------------------------------------------------------------
(* ForgetInv, action by action: the loop, its failures and the timers       *)

LEMMA TopHopes ==
  ASSUME KeepInv, WholeInv, ForgetInv, ~Overlap, ~ShortHolds, Top
  PROVE  ForgetInv'
<1> USE DEF Top, InLoop, Pending, loop, control, flags, calls, host, stored
<1>1. KeepFacts /\ WholeOK /\ CompleteOK /\ GateOK /\ PassOK /\ PausedThrough /\ FailedOK /\ HopeOK
  BY KeepIs DEF WholeInv, ForgetInv
<1>2. GateOK'
  BY <1>1, NoCallIsNone DEF KeepFacts, GateOK
<1>3. PassOK'
  BY <1>1, NoCallIsNone DEF KeepFacts, PassOK, LoopTypes, AtChapter
<1>4. PausedThrough'
  BY <1>1, NoCallIsNone DEF KeepFacts, PausedThrough, PausedSoon, Listed, Arriving, Deleting,
     DeleteOK, BulkOK, StoreTypes, LoopTypes, FlagTypes, CallTypes, DeleteCall
<1>5. FailedOK'
  BY NoCallIsNone DEF KeepFacts, FailedOK, Rows
<1>6. HopeOK'
  <2> SUFFICES ASSUME ~stopRequested', NEW x \in Chapter, Wanted(x)' PROVE Hope(x)'
    BY DEF HopeOK
  <2>1. cur' = None /\ chapter' = chapter /\ pc' \in {"exit", "next"} /\ cur' # x
    BY <1>1, NoCallIsNone DEF KeepFacts, LoopTypes, AtChapter
  <2>2. CASE pc' = "exit" /\ todo' = <<>>
    <3>1. x \notin DOMAIN todo'
      BY <2>2, NothingListed
    <3>2. chapter[x].state \in {"queued", "downloading"}
      BY <2>1, <3>1 DEF Wanted
    <3>3. x \in Pending \/ ~series
      BY <3>2
    <3>4. series
      BY <1>1, <3>2 DEF KeepFacts, RowsOK, Known, NoChapter
    <3>5. recheck
      BY <1>1, <2>2, <3>3, <3>4 DEF GateOK
    <3> QED
      BY <2>2, <3>5 DEF Hope, Sure
  <2>3. CASE pc' = "next" /\ todo' = [y \in Pending |-> chapter[y].resolved]
    <3>1. chapter[x].state \in {"queued", "downloading"}
      BY <2>1, <2>3, NoCallIsNone DEF Wanted, Fetching
    <3>2. series
      BY <1>1, <3>1 DEF KeepFacts, RowsOK, Known, NoChapter
    <3>3. x \in Pending
      BY <3>1, <3>2
    <3> QED
      BY <2>1, <2>3, <3>3 DEF Hope, Waiting
  <2> QED
    BY <2>2, <2>3
<1> QED
  BY <1>2, <1>3, <1>4, <1>5, <1>6 DEF ForgetInv

LEMMA EndPassHopes ==
  ASSUME KeepInv, WholeInv, ForgetInv, ~Overlap, ~ShortHolds, EndPass
  PROVE  ForgetInv'
<1> USE DEF EndPass, InLoop, loop, control, flags, calls, host, stored
<1>1. KeepFacts /\ WholeOK /\ CompleteOK /\ GateOK /\ PassOK /\ PausedThrough /\ FailedOK /\ HopeOK
  BY KeepIs DEF WholeInv, ForgetInv
<1>2. GateOK'
  BY <1>1, NoCallIsNone DEF KeepFacts, GateOK
<1>3. PassOK'
  BY <1>1, NoCallIsNone DEF KeepFacts, PassOK, LoopTypes, AtChapter
<1>4. PausedThrough'
  BY <1>1, NoCallIsNone DEF KeepFacts, PausedThrough, PausedSoon, Listed, Arriving, Deleting,
     DeleteOK, BulkOK, StoreTypes, LoopTypes, FlagTypes, CallTypes, DeleteCall
<1>5. FailedOK'
  BY NoCallIsNone DEF KeepFacts, FailedOK, Rows
<1>6. HopeOK'
  <2> SUFFICES ASSUME ~stopRequested', NEW x \in Chapter, Wanted(x)' PROVE Hope(x)'
    BY DEF HopeOK
  <2> QED
    BY <1>1, NoCallIsNone DEF KeepFacts, HopeOK, Hope, Wanted, Sure, Waiting, Handled, CallWill,
       TimerWill, IsCancelled, GateOK, PassOK, Outstanding, Rows, Fetching, StoreTypes, LoopTypes,
       FlagTypes, CallTypes
<1> QED
  BY <1>2, <1>3, <1>4, <1>5, <1>6 DEF ForgetInv

LEMMA TakeChapterHopes ==
  ASSUME KeepInv, WholeInv, ForgetInv, ~Overlap, ~ShortHolds, TakeChapter
  PROVE  ForgetInv'
<1> USE DEF TakeChapter, InLoop, loop, control, flags, calls, host, stored
<1>1. KeepFacts /\ WholeOK /\ CompleteOK /\ GateOK /\ PassOK /\ PausedThrough /\ FailedOK /\ HopeOK
  BY KeepIs DEF WholeInv, ForgetInv
<1>2. PICK c \in DOMAIN todo :
        /\ todo' = [y \in DOMAIN todo \ {c} |-> todo[y]]
        /\ \/ /\ IsCancelled(c) \/ blocked \/ ~Known(c)
              /\ UNCHANGED <<pc, cur, chapter>>
           \/ todo[c] /\ cur' = c /\ pc' = "pages" /\ UNCHANGED chapter
           \/ ~todo[c] /\ Known(c) /\ cur' = c /\ pc' = "resolve" /\ PutState(c, Marked(c))
  OBVIOUS
<1>3. /\ c \in Chapter /\ cur = None
      /\ DOMAIN todo' = DOMAIN todo \ {c} /\ \A y \in DOMAIN todo' : todo'[y] = todo[y]
  BY <1>1, <1>2 DEF KeepFacts, LoopTypes, AtChapter
<1>4. /\ \A y \in Chapter : y # c => chapter'[y] = chapter[y]
      /\ chapter'[c].resolved = chapter[c].resolved
      /\ \/ chapter'[c].state = chapter[c].state
         \/ chapter'[c].state = "downloading" /\ chapter[c].state \in {"queued", "failed"}
  <2>1. CASE UNCHANGED chapter
    BY <2>1
  <2>2. CASE Known(c) /\ PutState(c, Marked(c))
    <3>1. Restated(c) /\ chapter'[c].state = Marked(c)
      BY <1>1, <1>3, <2>2, MarkedWritten DEF KeepFacts
    <3> QED
      BY <1>3, <3>1 DEF Restated, Marked
  <2> QED
    BY <1>2, <2>1, <2>2
<1>5. GateOK'
  BY <1>1, <1>2, NoCallIsNone DEF KeepFacts, GateOK, Marked
<1>6. PassOK'
  BY <1>2 DEF PassOK
<1>7. PausedThrough'
  <2> SUFFICES ASSUME cancelledSeries', NEW x \in Chapter,
                      chapter'[x].state \in {"queued", "downloading", "failed"}
               PROVE  PausedSoon(x)'
    BY DEF PausedThrough
  <2> USE DEF PausedSoon
  <2>1. x \in DOMAIN todo' => x \in DOMAIN todo
    BY <1>3
  <2>2. Listed(x)' = Listed(x) /\ Arriving(x)' = Arriving(x) /\ Deleting(x)' = Deleting(x)
    BY DEF Listed, Arriving, Deleting
  <2>3. \/ Listed(x) \/ Arriving(x) \/ Deleting(x)
        \/ x # c /\ chapter[x].state = "failed" /\ x \notin DOMAIN todo
    BY <1>1, <1>2, <1>4 DEF PausedThrough
  <2> QED
    BY <1>2, <1>3, <1>4, <2>1, <2>2, <2>3, NoCallIsNone DEF AtChapter
<1>8. FailedOK'
  BY <1>2 DEF FailedOK
<1>9. HopeOK'
  <2> SUFFICES ASSUME ~stopRequested', NEW x \in Chapter, Wanted(x)' PROVE Hope(x)'
    BY DEF HopeOK
  <2>1. /\ IsCancelled(x)' = IsCancelled(x) /\ CallWill(x)' = CallWill(x)
        /\ Outstanding(x)' = Outstanding(x)
    BY DEF IsCancelled, CallWill, Outstanding, Rows
  <2>2. Sure => Sure'
    BY <1>2 DEF Sure, AtChapter
  <2>3. CASE x # c
    <3>1. chapter'[x] = chapter[x] /\ cur' # x
      BY <1>2, <1>3, <1>4, <2>3, NoCallIsNone
    <3>2. Wanted(x)
      BY <1>3, <2>1, <3>1 DEF Wanted
    <3>3. Waiting(x) => Waiting(x)'
      BY <1>2, <1>3, <2>3, <3>1 DEF Waiting, AtChapter
    <3> QED
      BY <1>1, <1>3, <2>1, <2>2, <3>2, <3>3, NoCallIsNone DEF HopeOK, Hope, Handled, TimerWill
  <2>4. CASE x = c
    <3>1. Wanted(x)
      BY <1>2, <1>3, <1>4, <2>1, <2>4 DEF Wanted
    <3>2. Sure \/ Waiting(x) \/ CallWill(x)
      BY <1>1, <1>3, <3>1, NoCallIsNone DEF HopeOK, Hope, Handled, TimerWill
    <3>3. CASE IsCancelled(c) \/ blocked \/ ~Known(c)
      <4>1. ~IsCancelled(c) /\ Known(c)
        BY <2>4, <3>1 DEF Wanted, Known, NoChapter
      <4>2. blocked' /\ pc' # "off"
        BY <1>2, <3>3, <4>1
      <4> QED
        BY <4>2 DEF Hope, Sure
    <3>4. CASE todo[c] /\ cur' = c /\ pc' = "pages" /\ UNCHANGED chapter
      BY <2>1, <2>2, <2>4, <3>2, <3>4 DEF Hope, Waiting, Handled
    <3>5. CASE cur' = c /\ pc' = "resolve"
      BY <2>4, <3>5 DEF Hope, Handled
    <3> QED
      BY <1>2, <3>3, <3>4, <3>5
  <2> QED
    BY <2>3, <2>4
<1> QED
  BY <1>5, <1>6, <1>7, <1>8, <1>9 DEF ForgetInv

LEMMA ResolveHopes ==
  ASSUME KeepInv, WholeInv, ForgetInv, ~Overlap, ~ShortHolds, Resolve
  PROVE  ForgetInv'
<1> USE DEF Resolve, InLoop, Leave, loop, control, flags, calls, host, stored
<1>1. KeepFacts /\ WholeOK /\ CompleteOK /\ GateOK /\ PassOK /\ PausedThrough /\ FailedOK /\ HopeOK
  BY KeepIs DEF WholeInv, ForgetInv
<1>2. GateOK'
  BY <1>1, NoCallIsNone DEF KeepFacts, GateOK
<1>3. PassOK'
  BY <1>1, NoCallIsNone DEF KeepFacts, PassOK, LoopTypes, AtChapter
<1>4. PausedThrough'
  BY <1>1, NoCallIsNone DEF KeepFacts, PausedThrough, PausedSoon, Listed, Arriving, Deleting,
     DeleteOK, BulkOK, StoreTypes, LoopTypes, FlagTypes, CallTypes, DeleteCall
<1>5. FailedOK'
  BY NoCallIsNone DEF KeepFacts, FailedOK, Rows
<1>6. HopeOK'
  <2> SUFFICES ASSUME ~stopRequested', NEW x \in Chapter, Wanted(x)' PROVE Hope(x)'
    BY DEF HopeOK
  <2> QED
    BY <1>1, NoCallIsNone DEF KeepFacts, HopeOK, Hope, Wanted, Sure, Waiting, Handled, CallWill,
       TimerWill, IsCancelled, GateOK, PassOK, Outstanding, Rows, Fetching, StoreTypes, LoopTypes,
       FlagTypes, CallTypes, DeleteCall, EnqueueCall, AtChapter, Restated, Known, NoChapter
<1> QED
  BY <1>2, <1>3, <1>4, <1>5, <1>6 DEF ForgetInv

LEMMA ResolveFailsHopes ==
  ASSUME KeepInv, WholeInv, ForgetInv, ~Overlap, ~ShortHolds, ResolveFails
  PROVE  ForgetInv'
<1> USE DEF ResolveFails, InLoop, Leave, loop, control, flags, calls, host, stored
<1>1. KeepFacts /\ WholeOK /\ CompleteOK /\ GateOK /\ PassOK /\ PausedThrough /\ FailedOK /\ HopeOK
  BY KeepIs DEF WholeInv, ForgetInv
<1>2. Restated(cur) /\ (chapter'[cur] = chapter[cur] \/ (Known(cur) /\ chapter'[cur].state = "failed"))
  <2>1. cur \in Chapter /\ StoreTypes
    BY <1>1 DEF KeepFacts, LoopTypes, AtChapter, CallTypes, EnqueueCall
  <2>2. "failed" \in ChapterState
    BY DEF ChapterState
  <2>3. CASE UNCHANGED chapter
    BY <2>1, <2>3, NothingWritten
  <2>4. CASE Known(cur) /\ PutState(cur, "failed")
    BY <2>1, <2>2, <2>4, StateWritten
  <2> QED
    BY <2>3, <2>4
<1>3. GateOK'
  BY <1>1, <1>2, NoCallIsNone DEF KeepFacts, GateOK
<1>4. PassOK'
  BY <1>1, <1>2, NoCallIsNone DEF KeepFacts, PassOK, LoopTypes, AtChapter
<1>5. PausedThrough'
  BY <1>1, <1>2, NoCallIsNone DEF KeepFacts, PausedThrough, PausedSoon, Listed, Arriving, Deleting,
     DeleteOK, BulkOK, StoreTypes, LoopTypes, FlagTypes, CallTypes, DeleteCall, EnqueueCall,
     AtChapter, Restated, Known, NoChapter
<1>6. FailedOK'
  BY DEF FailedOK, Rows
<1>7. HopeOK'
  <2> SUFFICES ASSUME ~stopRequested', NEW x \in Chapter, Wanted(x)' PROVE Hope(x)'
    BY DEF HopeOK
  <2>1. IsCancelled(x)' = IsCancelled(x) /\ CallWill(x)' = CallWill(x)
    BY DEF IsCancelled, CallWill
  <2>2. Sure => Sure'
    BY DEF Sure, AtChapter
  <2>3. CASE x # cur
    <3>1. chapter'[x] = chapter[x] /\ page'[x] = page[x]
      BY <1>2, <2>3 DEF Restated
    <3>2. cur' # x
      BY <2>3, NoCallIsNone
    <3>3. Outstanding(x)' = Outstanding(x)
      BY <3>1 DEF Outstanding, Rows
    <3>4. Wanted(x)
      BY <2>1, <2>3, <3>1, <3>2, <3>3 DEF Wanted
    <3>5. Waiting(x) => Waiting(x)'
      BY <3>1 DEF Waiting, AtChapter
    <3> QED
      BY <1>1, <2>1, <2>2, <2>3, <3>4, <3>5 DEF HopeOK, Hope, Handled, TimerWill
  <2>4. CASE x = cur
    <3>1. cur' # x /\ x \notin DOMAIN todo'
      BY <1>1, <2>4, NoCallIsNone DEF KeepFacts, LoopTypes, AtChapter
    <3>2. chapter'[x].state \in {"queued", "downloading"}
      BY <3>1 DEF Wanted
    <3>3. StoreTypes /\ x \in Chapter /\ "failed" \in ChapterState
      BY <1>1 DEF KeepFacts, ChapterState
    <3>4. CASE Known(cur)
      BY <2>4, <3>2, <3>3, <3>4, StateWritten
    <3>5. CASE ~Known(cur)
      BY <2>4, <3>2, <3>3, <3>5, StateOf
    <3> QED
      BY <3>4, <3>5
  <2> QED
    BY <2>3, <2>4
<1> QED
  BY <1>3, <1>4, <1>5, <1>6, <1>7 DEF ForgetInv

LEMMA ResolveLimitedHopes ==
  ASSUME KeepInv, WholeInv, ForgetInv, ~Overlap, ~ShortHolds, ResolveLimited
  PROVE  ForgetInv'
<1> USE DEF ResolveLimited, InLoop, Leave, loop, control, flags, calls, host, stored
<1>1. KeepFacts /\ WholeOK /\ CompleteOK /\ GateOK /\ PassOK /\ PausedThrough /\ FailedOK /\ HopeOK
  BY KeepIs DEF WholeInv, ForgetInv
<1>2. GateOK'
  BY <1>1, NoCallIsNone DEF KeepFacts, GateOK
<1>3. PassOK'
  BY <1>1, NoCallIsNone DEF KeepFacts, PassOK, LoopTypes, AtChapter
<1>4. PausedThrough'
  BY <1>1, NoCallIsNone DEF KeepFacts, PausedThrough, PausedSoon, Listed, Arriving, Deleting
<1>5. FailedOK'
  BY NoCallIsNone DEF KeepFacts, FailedOK, Rows
<1>6. HopeOK'
  <2> SUFFICES ASSUME ~stopRequested', NEW x \in Chapter, Wanted(x)' PROVE Hope(x)'
    BY DEF HopeOK
  <2> QED
    BY NoCallIsNone DEF KeepFacts, HopeOK, Hope, Wanted, Sure, Waiting
<1> QED
  BY <1>2, <1>3, <1>4, <1>5, <1>6 DEF ForgetInv

LEMMA WriteRowHopes ==
  ASSUME KeepInv, WholeInv, ForgetInv, ~Overlap, ~ShortHolds, WriteRow
  PROVE  ForgetInv'
<1> USE DEF WriteRow, InLoop, loop, control, flags, calls, host, stored
<1>1. KeepFacts /\ WholeOK /\ CompleteOK /\ GateOK /\ PassOK /\ PausedThrough /\ FailedOK /\ HopeOK
  BY KeepIs DEF WholeInv, ForgetInv
<1>2. /\ Min(queue) \in queue /\ Min(queue) \in Page /\ Min(queue) \in PagesOf[cur] /\ cur \in Chapter
      /\ page'[cur][Min(queue)] = (IF Min(queue) \in kept THEN "complete" ELSE "queued")
      /\ \A x \in Chapter, q \in Page : x # cur \/ q # Min(queue) => page'[x][q] = page[x][q]
  <2> DEFINE s == IF Min(queue) \in kept THEN "complete" ELSE "queued"
  <2>1. /\ StoreTypes /\ Min(queue) \in queue /\ Min(queue) \in Page /\ Min(queue) \in PagesOf[cur]
        /\ cur \in Chapter
    BY <1>1 DEF KeepFacts, LoopTypes, AtChapter, ResolutionOK
  <2>2. s \in {"absent", "queued", "complete", "failed"} /\ PutPage(cur, Min(queue), s)
    BY DEF PutPage
  <2> HIDE DEF s
  <2>3. /\ page'[cur][Min(queue)] = s
        /\ \A x \in Chapter, q \in Page : x # cur \/ q # Min(queue) => page'[x][q] = page[x][q]
    BY ONLY <2>1, <2>2, PageWritten
  <2> QED
    BY ONLY <2>1, <2>3 DEF s
<1>3. Rows(cur)' = Rows(cur) \cup {Min(queue)} /\ \A x \in Chapter : x # cur => Rows(x)' = Rows(x)
  BY <1>2 DEF Rows
<1>4. del # None => del.chapter # cur
  BY <1>1 DEF KeepFacts, DeleteOK
<1>5. GateOK'
  BY <1>1, <1>2, <1>3, <1>4, NoCallIsNone DEF KeepFacts, GateOK
<1>6. PassOK'
  BY DEF KeepFacts, PassOK
<1>7. PausedThrough'
  BY <1>1, <1>2, <1>3, <1>4, NoCallIsNone DEF KeepFacts, PausedThrough, PausedSoon, Listed,
     Arriving, Deleting, DeleteOK
<1>8. FailedOK'
  BY DEF KeepFacts, FailedOK, Rows, StoreTypes
<1>9. HopeOK'
  <2> SUFFICES ASSUME ~stopRequested', NEW x \in Chapter, Wanted(x)' PROVE Hope(x)'
    BY DEF HopeOK
  <2> QED
    BY <1>1, <1>2, <1>3, <1>4, NoCallIsNone DEF KeepFacts, HopeOK, Hope, Wanted, Sure, Waiting,
       Handled, CallWill, TimerWill, IsCancelled, GateOK, PassOK, Outstanding, Rows, Fetching,
       StoreTypes, LoopTypes, FlagTypes
<1> QED
  BY <1>5, <1>6, <1>7, <1>8, <1>9 DEF ForgetInv

LEMMA WriteResolvedHopes ==
  ASSUME KeepInv, WholeInv, ForgetInv, ~Overlap, ~ShortHolds, WriteResolved
  PROVE  ForgetInv'
<1> USE DEF WriteResolved, InLoop, loop, control, flags, calls, host, stored
<1>1. KeepFacts /\ WholeOK /\ CompleteOK /\ GateOK /\ PassOK /\ PausedThrough /\ FailedOK /\ HopeOK
  BY KeepIs DEF WholeInv, ForgetInv
<1>2. /\ cur \in Chapter /\ Known(cur) /\ PagesOf[cur] \subseteq Rows(cur)
      /\ chapter'[cur].state = chapter[cur].state /\ chapter'[cur].resolved = TRUE
      /\ \A x \in Chapter : x # cur => chapter'[x] = chapter[x]
  <2>1. /\ cur \in Chapter /\ Known(cur) /\ PagesOf[cur] \subseteq Rows(cur)
        /\ copy = chapter[cur] /\ chapter[cur] \in Row
    BY <1>1 DEF KeepFacts, LoopTypes, AtChapter, ResolutionOK, StoreTypes, Row, Known
  <2>2. chapter'[cur] = [chapter[cur] EXCEPT !.resolved = TRUE]
    BY <1>1, <2>1 DEF KeepFacts, StoreTypes
  <2>3. chapter'[cur].state = chapter[cur].state /\ chapter'[cur].resolved = TRUE
    BY ONLY <2>1, <2>2, RowMade
  <2> QED
    BY <1>1, <2>1, <2>3 DEF KeepFacts, StoreTypes
<1>3. \A x \in Chapter : Rows(x)' = Rows(x) /\ Outstanding(x)' = Outstanding(x)
  BY DEF Rows, Outstanding
<1>4. GateOK'
  BY <1>1, <1>2, <1>3, NoCallIsNone DEF KeepFacts, GateOK
<1>5. PassOK'
  BY <1>1, <1>2, <1>3, NoCallIsNone DEF KeepFacts, PassOK, LoopTypes, AtChapter
<1>6. PausedThrough'
  BY <1>1, <1>2, <1>3, NoCallIsNone DEF KeepFacts, PausedThrough, PausedSoon, Listed, Arriving,
     Deleting, DeleteOK, BulkOK, StoreTypes, LoopTypes, FlagTypes, CallTypes, DeleteCall
<1>7. FailedOK'
  BY DEF FailedOK, Rows, StoreTypes, LoopTypes
<1>8. HopeOK'
  <2> SUFFICES ASSUME ~stopRequested', NEW x \in Chapter, Wanted(x)' PROVE Hope(x)'
    BY DEF HopeOK
  <2> QED
    BY <1>1, <1>2, <1>3, NoCallIsNone DEF KeepFacts, HopeOK, Hope, Wanted, Sure, Waiting, Handled,
       CallWill, TimerWill, IsCancelled, GateOK, CallTypes, DeleteCall, EnqueueCall, AtChapter,
       Restated, Known, NoChapter
<1> QED
  BY <1>4, <1>5, <1>6, <1>7, <1>8 DEF ForgetInv

LEMMA ResolvedHopes ==
  ASSUME KeepInv, WholeInv, ForgetInv, ~Overlap, ~ShortHolds, Resolved
  PROVE  ForgetInv'
<1> USE DEF Rewritten, Tells, Resolved, InLoop, Leave, loop, control, flags, calls, host, stored
<1>1. KeepFacts /\ WholeOK /\ CompleteOK /\ GateOK /\ PassOK /\ PausedThrough /\ FailedOK /\ HopeOK
  BY KeepIs DEF WholeInv, ForgetInv
<1>2. Rewritten(cur, Recomputed(cur, page[cur]))
  <2>1. cur \in Chapter /\ StoreTypes
    BY <1>1 DEF KeepFacts, LoopTypes, AtChapter, CallTypes, EnqueueCall
  <2>2. page[cur] \in [Page -> {"absent", "queued", "complete", "failed"}]
    BY <1>1, <2>1 DEF KeepFacts, StoreTypes
  <2>3. CASE UNCHANGED chapter
    BY <2>1, <2>3, NothingWritten
  <2>4. CASE Known(cur) /\ PutState(cur, Recomputed(cur, page[cur]))
    BY <2>1, <2>2, <2>4, RecomputedWritten
  <2> QED
    BY <2>3, <2>4
<1>3. Known(cur) => Tells(cur)
  BY <1>1, RecomputedHere DEF KeepFacts, LoopTypes, AtChapter, CallTypes, EnqueueCall
<1>4. GateOK'
  BY <1>1, <1>2, <1>3, NoCallIsNone DEF KeepFacts, GateOK
<1>5. PassOK'
  BY <1>1, <1>2, <1>3, NoCallIsNone DEF KeepFacts, PassOK, LoopTypes, AtChapter
<1>6. PausedThrough'
  <2> SUFFICES ASSUME cancelledSeries', NEW x \in Chapter,
                      chapter'[x].state \in {"queued", "downloading", "failed"}
               PROVE  PausedSoon(x)'
    BY DEF PausedThrough
  <2> USE DEF PausedSoon
  <2>1. Listed(x)' = Listed(x) /\ Arriving(x)' = Arriving(x) /\ Deleting(x)' = Deleting(x)
    BY DEF Listed, Arriving, Deleting
  <2>2. cur \in Chapter /\ StoreTypes
    BY <1>1 DEF KeepFacts, LoopTypes, AtChapter
  <2>3. CASE x # cur
    <3>1. chapter'[x] = chapter[x] /\ cur' # x /\ todo' = todo
      BY <1>2, <2>3, NoCallIsNone DEF Restated
    <3> QED
      BY <1>1, <2>1, <2>3, <3>1 DEF PausedThrough
  <2>4. CASE x = cur /\ Known(cur)
    <3>1. chapter'[cur].state = Recomputed(cur, page[cur])
      BY <2>2, <2>4, RecomputedHere, StateWritten
    <3>2. chapter[cur].state # "paused"
      BY <1>3, <2>4, <3>1
    <3>3. chapter[cur].state = "complete" => Deleting(cur)
      BY <1>1, <1>3, <2>2, <2>4, <3>1 DEF CompleteOK, AtChapter
    <3>4. chapter[cur].state \in {"queued", "downloading", "failed"} \/ Deleting(cur)
      BY <2>2, <2>4, <3>2, <3>3, StateOf DEF ChapterState
    <3> QED
      BY <1>1, <2>1, <2>2, <2>4, <3>4 DEF PausedThrough, AtChapter
  <2>5. CASE x = cur /\ ~Known(cur)
    <3>1. chapter' = chapter
      BY <2>5
    <3> QED
      BY <2>2, <2>5, <3>1, StateOf
  <2> QED
    BY <2>3, <2>4, <2>5
<1>7. FailedOK'
  BY DEF FailedOK, Rows, StoreTypes, LoopTypes
<1>8. HopeOK'
  <2> SUFFICES ASSUME ~stopRequested', NEW x \in Chapter, Wanted(x)' PROVE Hope(x)'
    BY DEF HopeOK
  <2>1. IsCancelled(x)' = IsCancelled(x) /\ CallWill(x)' = CallWill(x)
    BY DEF IsCancelled, CallWill
  <2>2. Sure => Sure'
    BY DEF Sure, AtChapter
  <2>3. cur \in Chapter /\ StoreTypes /\ cur \notin DOMAIN todo
    BY <1>1 DEF KeepFacts, LoopTypes, AtChapter
  <2>4. CASE x # cur
    <3>1. chapter'[x] = chapter[x] /\ page'[x] = page[x]
      BY <1>2, <2>4 DEF Restated
    <3>2. cur' # x
      BY <2>4, NoCallIsNone
    <3>3. Outstanding(x)' = Outstanding(x)
      BY <3>1 DEF Outstanding, Rows
    <3>4. Wanted(x)
      BY <2>1, <2>4, <3>1, <3>2, <3>3 DEF Wanted
    <3>5. Waiting(x) => Waiting(x)'
      BY <3>1 DEF Waiting, AtChapter
    <3> QED
      BY <1>1, <2>1, <2>2, <2>4, <3>4, <3>5 DEF HopeOK, Hope, Handled, TimerWill
  <2>5. CASE x = cur /\ Known(cur)
    <3>1. /\ chapter'[cur].state = Recomputed(cur, page[cur])
          /\ chapter'[cur].resolved = chapter[cur].resolved
      BY <1>2, <2>3, <2>5, RecomputedHere, StateWritten DEF Restated
    <3>2. CASE chapter[cur].resolved
      BY <2>5, <3>1, <3>2 DEF Hope, Handled
    <3>3. CASE ~chapter[cur].resolved
      <4>1. chapter[cur].state \notin {"paused", "complete"}
        BY <1>1, <1>3, <2>3, <2>5, <3>1, <3>3 DEF Wanted, CompleteOK
      <4>2. Wanted(cur)
        BY <2>1, <2>3, <2>5, <3>3, <4>1, StateOf DEF Wanted, ChapterState
      <4> QED
        BY <1>1, <2>1, <2>2, <2>3, <2>5, <3>3, <4>2 DEF HopeOK, Hope, Waiting, Handled, TimerWill,
           Fetching
    <3> QED
      BY <3>2, <3>3
  <2>6. CASE x = cur /\ ~Known(cur)
    BY <2>3, <2>6, StateOf DEF Wanted
  <2> QED
    BY <2>4, <2>5, <2>6
<1> QED
  BY <1>4, <1>5, <1>6, <1>7, <1>8 DEF ForgetInv

LEMMA ReadPagesHopes ==
  ASSUME KeepInv, WholeInv, ForgetInv, ~Overlap, ~ShortHolds, ReadPages
  PROVE  ForgetInv'
<1> USE DEF Rewritten, ReadPages, InLoop, Leave, Outstanding, loop, control, flags, calls, host, stored
<1>1. KeepFacts /\ WholeOK /\ CompleteOK /\ GateOK /\ PassOK /\ PausedThrough /\ FailedOK /\ HopeOK
  BY KeepIs DEF WholeInv, ForgetInv
<1>2. Rewritten(cur, Marked(cur))
  <2>1. cur \in Chapter /\ StoreTypes
    BY <1>1 DEF KeepFacts, LoopTypes, AtChapter, CallTypes, EnqueueCall
  <2>2. CASE UNCHANGED chapter
    BY <2>1, <2>2, NothingWritten
  <2>3. CASE Known(cur) /\ PutState(cur, Marked(cur))
    BY <2>1, <2>3, MarkedWritten
  <2> QED
    BY <2>2, <2>3
<1>3. GateOK'
  BY <1>1, <1>2, NoCallIsNone DEF KeepFacts, GateOK, Marked
<1>4. PassOK'
  BY <1>1, <1>2, NoCallIsNone DEF KeepFacts, PassOK, LoopTypes, AtChapter, Marked
<1>5. PausedThrough'
  BY <1>1, <1>2, NoCallIsNone DEF KeepFacts, PausedThrough, PausedSoon, Listed, Arriving, Deleting,
     DeleteOK, BulkOK, StoreTypes, AtChapter, Restated, Known, NoChapter, Marked
<1>6. FailedOK'
  BY <1>2, NoCallIsNone DEF KeepFacts, FailedOK
<1>7. HopeOK'
  <2> SUFFICES ASSUME ~stopRequested', NEW x \in Chapter, Wanted(x)' PROVE Hope(x)'
    BY DEF HopeOK
  <2> QED
    BY <1>1, <1>2, NoCallIsNone DEF KeepFacts, HopeOK, Hope, Wanted, Sure, Waiting, Handled,
       CallWill, TimerWill, IsCancelled, GateOK, PassOK, Outstanding, Rows, Fetching, StoreTypes,
       LoopTypes, FlagTypes, CallTypes, DeleteCall, EnqueueCall, AtChapter, Restated, Known,
       NoChapter, Marked
<1> QED
  BY <1>3, <1>4, <1>5, <1>6, <1>7 DEF ForgetInv

LEMMA NextPageHopes ==
  ASSUME KeepInv, WholeInv, ForgetInv, ~Overlap, ~ShortHolds, NextPage
  PROVE  ForgetInv'
<1> USE DEF NextPage, InLoop, Leave, loop, control, flags, calls, host, stored
<1>1. KeepFacts /\ WholeOK /\ CompleteOK /\ GateOK /\ PassOK /\ PausedThrough /\ FailedOK /\ HopeOK
  BY KeepIs DEF WholeInv, ForgetInv
<1>2. GateOK'
  BY <1>1, NoCallIsNone DEF KeepFacts, GateOK
<1>3. PassOK'
  BY <1>1, NoCallIsNone DEF KeepFacts, PassOK, LoopTypes, AtChapter
<1>4. PausedThrough'
  BY <1>1, NoCallIsNone DEF KeepFacts, PausedThrough, PausedSoon, Listed, Arriving, Deleting,
     DeleteOK, BulkOK, StoreTypes, LoopTypes, FlagTypes, CallTypes, DeleteCall
<1>5. FailedOK'
  BY NoCallIsNone DEF KeepFacts, FailedOK, Rows
<1>6. HopeOK'
  <2> SUFFICES ASSUME ~stopRequested', NEW x \in Chapter, Wanted(x)' PROVE Hope(x)'
    BY DEF HopeOK
  <2> QED
    BY <1>1, NoCallIsNone DEF KeepFacts, HopeOK, Hope, Wanted, Sure, Waiting, Handled, CallWill,
       TimerWill, IsCancelled, GateOK, PassOK, Outstanding, Rows, Fetching, StoreTypes, LoopTypes,
       FlagTypes, CallTypes, DeleteCall, EnqueueCall, AtChapter, Restated, Known, NoChapter
<1> QED
  BY <1>2, <1>3, <1>4, <1>5, <1>6 DEF ForgetInv

LEMMA WriteFileHopes ==
  ASSUME KeepInv, WholeInv, ForgetInv, ~Overlap, ~ShortHolds, WriteFile
  PROVE  ForgetInv'
<1> USE DEF WriteFile, InLoop, loop, control, flags, calls, host, stored
<1>1. KeepFacts /\ WholeOK /\ CompleteOK /\ GateOK /\ PassOK /\ PausedThrough /\ FailedOK /\ HopeOK
  BY KeepIs DEF WholeInv, ForgetInv
<1>2. GateOK'
  BY <1>1, NoCallIsNone DEF KeepFacts, GateOK
<1>3. PassOK'
  BY <1>1, NoCallIsNone DEF KeepFacts, PassOK, LoopTypes, AtChapter
<1>4. PausedThrough'
  BY <1>1, NoCallIsNone DEF KeepFacts, PausedThrough, PausedSoon, Listed, Arriving, Deleting,
     DeleteOK, BulkOK, StoreTypes, LoopTypes, FlagTypes, CallTypes, DeleteCall
<1>5. FailedOK'
  BY NoCallIsNone DEF KeepFacts, FailedOK, Rows
<1>6. HopeOK'
  <2> SUFFICES ASSUME ~stopRequested', NEW x \in Chapter, Wanted(x)' PROVE Hope(x)'
    BY DEF HopeOK
  <2> QED
    BY <1>1, NoCallIsNone DEF KeepFacts, HopeOK, Hope, Wanted, Sure, Waiting, Handled, CallWill,
       TimerWill, IsCancelled, GateOK, PassOK, Outstanding, Rows, Fetching, StoreTypes, LoopTypes,
       FlagTypes, CallTypes, DeleteCall, EnqueueCall, AtChapter, Restated, Known, NoChapter
<1> QED
  BY <1>2, <1>3, <1>4, <1>5, <1>6 DEF ForgetInv

LEMMA FetchFailsHopes ==
  ASSUME KeepInv, WholeInv, ForgetInv, ~Overlap, ~ShortHolds, FetchFails
  PROVE  ForgetInv'
<1> USE DEF FetchFails, InLoop, Leave, loop, control, flags, calls, host, stored
<1>1. KeepFacts /\ WholeOK /\ CompleteOK /\ GateOK /\ PassOK /\ PausedThrough /\ FailedOK /\ HopeOK
  BY KeepIs DEF WholeInv, ForgetInv
<1>2. AttemptFails => AttemptSpent
  BY <1>1, AttemptFailsDoes
<1>3. FailedOK' /\ HopeOK'
  BY <1>1, AttemptFailsHopes
<1>4. GateOK'
  BY <1>1, <1>2, <1>3, NoCallIsNone DEF KeepFacts, GateOK, AttemptSpent
<1>5. PassOK'
  BY <1>2, <1>3, NoCallIsNone DEF KeepFacts, PassOK, LoopTypes, AtChapter, AttemptSpent
<1>6. PausedThrough'
  BY <1>1, <1>2, <1>3, NoCallIsNone DEF KeepFacts, PausedThrough, PausedSoon, Listed, Arriving,
     Deleting, DeleteOK, BulkOK, StoreTypes, AtChapter, Restated, Known, NoChapter, AttemptSpent
<1>7. FailedOK'
  BY <1>3
<1>8. HopeOK'
  BY <1>3
<1> QED
  BY <1>4, <1>5, <1>6, <1>7, <1>8 DEF ForgetInv

LEMMA FetchLimitedHopes ==
  ASSUME KeepInv, WholeInv, ForgetInv, ~Overlap, ~ShortHolds, FetchLimited
  PROVE  ForgetInv'
<1> USE DEF FetchLimited, InLoop, Leave, loop, control, flags, calls, host, stored
<1>1. KeepFacts /\ WholeOK /\ CompleteOK /\ GateOK /\ PassOK /\ PausedThrough /\ FailedOK /\ HopeOK
  BY KeepIs DEF WholeInv, ForgetInv
<1>2. GateOK'
  BY <1>1, NoCallIsNone DEF KeepFacts, GateOK
<1>3. PassOK'
  BY <1>1, NoCallIsNone DEF KeepFacts, PassOK, LoopTypes, AtChapter
<1>4. PausedThrough'
  BY <1>1, NoCallIsNone DEF KeepFacts, PausedThrough, PausedSoon, Listed, Arriving, Deleting
<1>5. FailedOK'
  BY NoCallIsNone DEF KeepFacts, FailedOK, Rows
<1>6. HopeOK'
  <2> SUFFICES ASSUME ~stopRequested', NEW x \in Chapter, Wanted(x)' PROVE Hope(x)'
    BY DEF HopeOK
  <2> QED
    BY NoCallIsNone DEF KeepFacts, HopeOK, Hope, Wanted, Sure, Waiting
<1> QED
  BY <1>2, <1>3, <1>4, <1>5, <1>6 DEF ForgetInv

LEMMA RecordPageHopes ==
  ASSUME KeepInv, WholeInv, ForgetInv, ~Overlap, ~ShortHolds, RecordPage
  PROVE  ForgetInv'
<1> USE DEF RecordPage, InLoop, Leave, loop, control, flags, calls, host, stored
<1>1. KeepFacts /\ WholeOK /\ CompleteOK /\ GateOK /\ PassOK /\ PausedThrough /\ FailedOK /\ HopeOK
  BY KeepIs DEF WholeInv, ForgetInv
<1>2. AttemptFails => AttemptSpent
  BY <1>1, AttemptFailsDoes
<1>3. AttemptFails => FailedOK' /\ HopeOK'
  BY <1>1, AttemptFailsHopes
<1>4. GateOK'
  BY <1>1, <1>2, <1>3, NoCallIsNone DEF KeepFacts, GateOK, AttemptSpent
<1>5. PassOK'
  BY <1>2, <1>3, NoCallIsNone DEF KeepFacts, PassOK, LoopTypes, AtChapter, AttemptSpent
<1>6. PausedThrough'
  BY <1>1, <1>2, <1>3, NoCallIsNone DEF KeepFacts, PausedThrough, PausedSoon, Listed, Arriving,
     Deleting, DeleteOK, BulkOK, StoreTypes, AtChapter, Restated, Known, NoChapter, AttemptSpent
<1>7. FailedOK'
  BY <1>3 DEF FailedOK
<1>8. HopeOK'
  <2>1. CASE AttemptFails
    BY <1>3, <2>1
  <2>2. CASE /\ PutPage(cur, Min(queue), "complete") /\ Min(queue) \in Rows(cur) /\ pc' = "record"
             /\ UNCHANGED <<todo, cur, copy, kept, queue, attempt, landed, progressed>>
    <3> SUFFICES ASSUME ~stopRequested', NEW x \in Chapter, Wanted(x)' PROVE Hope(x)'
      BY DEF HopeOK
    <3>1. StoreTypes /\ cur \in Chapter /\ Min(queue) \in queue /\ Min(queue) \in Page
      BY <1>1 DEF KeepFacts, LoopTypes, AtChapter
    <3>2. /\ page'[cur][Min(queue)] = "complete"
          /\ \A y \in Chapter, q \in Page : y # cur \/ q # Min(queue) => page'[y][q] = page[y][q]
      BY <2>2, <3>1, PageWritten
    <3>3. Outstanding(x)' \subseteq Outstanding(x)
      BY <3>1, <3>2 DEF Outstanding, Rows
    <3>4. Wanted(x)
      BY <2>2, <3>3 DEF Wanted, IsCancelled, Fetching
    <3>5. Hope(x)
      BY <1>1, <3>4 DEF HopeOK
    <3> QED
      BY <2>2, <3>5 DEF Hope, Sure, Waiting, Handled, CallWill, TimerWill, AtChapter, Fetching
  <2> QED
    BY <2>1, <2>2
<1> QED
  BY <1>4, <1>5, <1>6, <1>7, <1>8 DEF ForgetInv

LEMMA RecordedHopes ==
  ASSUME KeepInv, WholeInv, ForgetInv, ~Overlap, ~ShortHolds, Recorded
  PROVE  ForgetInv'
<1> USE DEF Rewritten, Tells, Recorded, InLoop, Leave, loop, control, flags, calls, host, stored
<1>1. KeepFacts /\ WholeOK /\ CompleteOK /\ GateOK /\ PassOK /\ PausedThrough /\ FailedOK /\ HopeOK
  BY KeepIs DEF WholeInv, ForgetInv
<1>2. AttemptFails => AttemptSpent
  BY <1>1, AttemptFailsDoes
<1>3. Rewritten(cur, Recomputed(cur, page[cur]))
  <2>1. cur \in Chapter /\ StoreTypes
    BY <1>1 DEF KeepFacts, LoopTypes, AtChapter, CallTypes, EnqueueCall
  <2>2. page[cur] \in [Page -> {"absent", "queued", "complete", "failed"}]
    BY <1>1, <2>1 DEF KeepFacts, StoreTypes
  <2>3. CASE UNCHANGED chapter
    BY <2>1, <2>3, NothingWritten
  <2>4. CASE Known(cur) /\ PutState(cur, Recomputed(cur, page[cur]))
    BY <2>1, <2>2, <2>4, RecomputedWritten
  <2> QED
    BY <2>3, <2>4
<1>4. Known(cur) => Tells(cur)
  BY <1>1, RecomputedHere DEF KeepFacts, LoopTypes, AtChapter, CallTypes, EnqueueCall
<1>5. GateOK'
  BY <1>1, <1>2, <1>3, <1>4, NoCallIsNone DEF KeepFacts, GateOK, AttemptSpent
<1>6. PassOK'
  BY <1>1, <1>2, <1>3, <1>4 DEF PassOK, LoopTypes, AtChapter, AttemptSpent
<1>7. PausedThrough'
  <2> SUFFICES ASSUME cancelledSeries', NEW x \in Chapter,
                      chapter'[x].state \in {"queued", "downloading", "failed"}
               PROVE  PausedSoon(x)'
    BY DEF PausedThrough
  <2> USE DEF PausedSoon
  <2>1. Listed(x)' = Listed(x) /\ Arriving(x)' = Arriving(x) /\ Deleting(x)' = Deleting(x)
    BY DEF Listed, Arriving, Deleting
  <2>2. cur \in Chapter /\ StoreTypes
    BY <1>1 DEF KeepFacts, LoopTypes, AtChapter
  <2>3. CASE x # cur
    <3>1. chapter'[x] = chapter[x] /\ cur' # x /\ todo' = todo
      BY <1>2, <1>3, <2>3, NoCallIsNone DEF Restated, AttemptSpent, Leave
    <3> QED
      BY <1>1, <2>1, <2>3, <3>1 DEF PausedThrough
  <2>4. CASE x = cur /\ Known(cur)
    <3>1. chapter'[cur].state = Recomputed(cur, page[cur])
      BY <2>2, <2>4, RecomputedHere, StateWritten
    <3>2. chapter[cur].state # "paused"
      BY <1>4, <2>4, <3>1
    <3>3. chapter[cur].state = "complete" => Deleting(cur)
      BY <1>1, <1>4, <2>2, <2>4, <3>1 DEF CompleteOK, AtChapter
    <3>4. chapter[cur].state \in {"queued", "downloading", "failed"} \/ Deleting(cur)
      BY <2>2, <2>4, <3>2, <3>3, StateOf DEF ChapterState
    <3> QED
      BY <1>1, <2>1, <2>2, <2>4, <3>4 DEF PausedThrough, AtChapter
  <2>5. CASE x = cur /\ ~Known(cur)
    <3>1. chapter' = chapter
      BY <2>5
    <3> QED
      BY <2>2, <2>5, <3>1, StateOf
  <2> QED
    BY <2>3, <2>4, <2>5
<1>8. FailedOK'
  BY <1>2, <1>3, <1>4, NoCallIsNone DEF KeepFacts, FailedOK, Rows, StoreTypes, LoopTypes, FlagTypes,
     Restated, Known, NoChapter, AttemptSpent
<1>9. HopeOK'
  <2> SUFFICES ASSUME ~stopRequested', NEW x \in Chapter, Wanted(x)' PROVE Hope(x)'
    BY DEF HopeOK
  <2> QED
    BY <1>1, <1>2, <1>3, <1>4, NoCallIsNone DEF KeepFacts, HopeOK, Hope, Wanted, Sure, Waiting,
       Handled, CallWill, TimerWill, IsCancelled, GateOK, PassOK, Outstanding, Rows, Fetching,
       StoreTypes, LoopTypes, FlagTypes, CallTypes, DeleteCall, EnqueueCall, AtChapter, Restated,
       Known, NoChapter, AttemptSpent
<1> QED
  BY <1>5, <1>6, <1>7, <1>8, <1>9 DEF ForgetInv

LEMMA FailRecordedHopes ==
  ASSUME KeepInv, WholeInv, ForgetInv, ~Overlap, ~ShortHolds, FailRecorded
  PROVE  ForgetInv'
<1> USE DEF Rewritten, Tells, FailRecorded, InLoop, loop, control, flags, calls, host, stored
<1>1. KeepFacts /\ WholeOK /\ CompleteOK /\ GateOK /\ PassOK /\ PausedThrough /\ FailedOK /\ HopeOK
  BY KeepIs DEF WholeInv, ForgetInv
<1>2. Rewritten(cur, Recomputed(cur, page[cur]))
  <2>1. cur \in Chapter /\ StoreTypes
    BY <1>1 DEF KeepFacts, LoopTypes, AtChapter, CallTypes, EnqueueCall
  <2>2. page[cur] \in [Page -> {"absent", "queued", "complete", "failed"}]
    BY <1>1, <2>1 DEF KeepFacts, StoreTypes
  <2>3. CASE UNCHANGED chapter
    BY <2>1, <2>3, NothingWritten
  <2>4. CASE Known(cur) /\ PutState(cur, Recomputed(cur, page[cur]))
    BY <2>1, <2>2, <2>4, RecomputedWritten
  <2> QED
    BY <2>3, <2>4
<1>3. Known(cur) => Tells(cur)
  BY <1>1, RecomputedHere DEF KeepFacts, LoopTypes, AtChapter, CallTypes, EnqueueCall
<1>4. GateOK'
  BY <1>1, <1>2, <1>3, NoCallIsNone DEF KeepFacts, GateOK
<1>5. PassOK'
  BY <1>1, <1>2, <1>3, NoCallIsNone DEF KeepFacts, PassOK, LoopTypes, AtChapter
<1>6. PausedThrough'
  <2> SUFFICES ASSUME cancelledSeries', NEW x \in Chapter,
                      chapter'[x].state \in {"queued", "downloading", "failed"}
               PROVE  PausedSoon(x)'
    BY DEF PausedThrough
  <2> USE DEF PausedSoon
  <2>1. Listed(x)' = Listed(x) /\ Arriving(x)' = Arriving(x) /\ Deleting(x)' = Deleting(x)
    BY DEF Listed, Arriving, Deleting
  <2>2. cur \in Chapter /\ StoreTypes
    BY <1>1 DEF KeepFacts, LoopTypes, AtChapter
  <2>3. CASE x # cur
    <3>1. chapter'[x] = chapter[x] /\ cur' # x /\ todo' = todo
      BY <1>2, <2>3, NoCallIsNone DEF Restated
    <3> QED
      BY <1>1, <2>1, <2>3, <3>1 DEF PausedThrough
  <2>4. CASE x = cur /\ Known(cur)
    <3>1. chapter'[cur].state = Recomputed(cur, page[cur])
      BY <2>2, <2>4, RecomputedHere, StateWritten
    <3>2. chapter[cur].state # "paused"
      BY <1>3, <2>4, <3>1
    <3>3. chapter[cur].state = "complete" => Deleting(cur)
      BY <1>1, <1>3, <2>2, <2>4, <3>1 DEF CompleteOK, AtChapter
    <3>4. chapter[cur].state \in {"queued", "downloading", "failed"} \/ Deleting(cur)
      BY <2>2, <2>4, <3>2, <3>3, StateOf DEF ChapterState
    <3> QED
      BY <1>1, <2>1, <2>2, <2>4, <3>4 DEF PausedThrough, AtChapter
  <2>5. CASE x = cur /\ ~Known(cur)
    <3>1. chapter' = chapter
      BY <2>5
    <3> QED
      BY <2>2, <2>5, <3>1, StateOf
  <2> QED
    BY <2>3, <2>4, <2>5
<1>7. FailedOK'
  BY DEF FailedOK, Rows, StoreTypes, LoopTypes
<1>8. HopeOK'
  <2> SUFFICES ASSUME ~stopRequested', NEW x \in Chapter, Wanted(x)' PROVE Hope(x)'
    BY DEF HopeOK
  <2>1. IsCancelled(x)' = IsCancelled(x) /\ CallWill(x)' = CallWill(x)
    BY DEF IsCancelled, CallWill
  <2>2. Sure => Sure'
    BY DEF Sure, AtChapter
  <2>3. cur \in Chapter /\ StoreTypes /\ cur \notin DOMAIN todo /\ Outstanding(cur)' = Outstanding(cur)
    BY <1>1 DEF KeepFacts, LoopTypes, AtChapter, Outstanding, Rows
  <2>4. CASE x # cur
    <3>1. chapter'[x] = chapter[x] /\ page'[x] = page[x]
      BY <1>2, <2>4 DEF Restated
    <3>2. cur' # x
      BY <2>4, NoCallIsNone
    <3>3. Outstanding(x)' = Outstanding(x)
      BY <3>1 DEF Outstanding, Rows
    <3>4. Wanted(x)
      BY <2>1, <2>4, <3>1, <3>2, <3>3 DEF Wanted
    <3>5. Waiting(x) => Waiting(x)'
      BY <3>1 DEF Waiting, AtChapter
    <3> QED
      BY <1>1, <2>1, <2>2, <2>4, <3>4, <3>5 DEF HopeOK, Hope, Handled, TimerWill
  <2>5. CASE x = cur /\ Known(cur)
    <3>1. /\ chapter'[cur].state = Recomputed(cur, page[cur])
          /\ chapter'[cur].resolved = chapter[cur].resolved
      BY <1>2, <2>3, <2>5, RecomputedHere, StateWritten DEF Restated
    <3>2. chapter[cur].state # "paused"
      BY <1>3, <2>3, <2>5, <3>1 DEF Wanted
    <3>3. chapter[cur].state # "complete"
      BY <1>1, <2>3, <2>5, <3>1 DEF Wanted, CompleteOK
    <3>4. chapter[cur].state \in {"queued", "downloading", "failed"}
      BY <2>3, <2>5, <3>2, <3>3, StateOf DEF ChapterState
    <3>5. CASE landed
      BY <2>5, <3>5 DEF Hope, Handled, Fetching
    <3>6. CASE ~landed
      <4>1. chapter[cur].resolved => ~\E p \in Page : page[cur][p] = "failed"
        BY <1>3, <2>3, <2>5, <3>1, NoCallIsNone DEF Wanted, Fetching
      <4>2. chapter[cur].resolved => chapter[cur].state # "failed"
        <5> SUFFICES ASSUME chapter[cur].resolved, chapter[cur].state = "failed" PROVE FALSE
          OBVIOUS
        <5>1. Rows(cur) = {}
          BY <1>1, <2>5, <4>1 DEF FailedOK
        <5> QED
          BY <2>3, <2>5, <3>1, <5>1 DEF Wanted, Outstanding
      <4>3. Wanted(cur)
        BY <2>1, <2>3, <2>5, <3>1, <3>4, <4>2 DEF Wanted, Fetching
      <4> QED
        BY <1>1, <2>1, <2>2, <2>3, <2>5, <3>6, <4>1, <4>3 DEF HopeOK, Hope, Waiting, Handled,
           TimerWill, Fetching
    <3> QED
      BY <3>5, <3>6
  <2>6. CASE x = cur /\ ~Known(cur)
    <3>1. chapter' = chapter
      BY <2>6
    <3> QED
      BY <2>3, <2>6, <3>1, StateOf DEF Wanted
  <2> QED
    BY <2>4, <2>5, <2>6
<1> QED
  BY <1>4, <1>5, <1>6, <1>7, <1>8 DEF ForgetInv

LEMMA ExitLoopHopes ==
  ASSUME KeepInv, WholeInv, ForgetInv, ~Overlap, ~ShortHolds, ExitLoop
  PROVE  ForgetInv'
<1> USE DEF ExitLoop, loop, control, flags, calls, host, stored
<1>1. KeepFacts /\ WholeOK /\ CompleteOK /\ GateOK /\ PassOK /\ PausedThrough /\ FailedOK /\ HopeOK
  BY KeepIs DEF WholeInv, ForgetInv
<1>2. GateOK'
  BY <1>1, NoCallIsNone DEF KeepFacts, GateOK
<1>3. PassOK'
  BY <1>1, NoCallIsNone DEF KeepFacts, PassOK, LoopTypes, AtChapter
<1>4. PausedThrough'
  BY <1>1, NoCallIsNone DEF KeepFacts, PausedThrough, PausedSoon, Listed, Arriving, Deleting,
     DeleteOK, BulkOK, StoreTypes, LoopTypes, FlagTypes, CallTypes, DeleteCall
<1>5. FailedOK'
  BY NoCallIsNone DEF KeepFacts, FailedOK, Rows
<1>6. HopeOK'
  <2> SUFFICES ASSUME ~stopRequested', NEW x \in Chapter, Wanted(x)' PROVE Hope(x)'
    BY DEF HopeOK
  <2> QED
    BY <1>1, NoCallIsNone DEF KeepFacts, HopeOK, Hope, Wanted, Sure, Waiting, Handled, CallWill,
       TimerWill, IsCancelled, GateOK, PassOK, Outstanding, Rows, Fetching, StoreTypes, LoopTypes,
       FlagTypes, CallTypes, DeleteCall, EnqueueCall, AtChapter, Restated, Known, NoChapter
<1> QED
  BY <1>2, <1>3, <1>4, <1>5, <1>6 DEF ForgetInv

LEMMA SettleHopes ==
  ASSUME KeepInv, WholeInv, ForgetInv, ~Overlap, ~ShortHolds, Settle
  PROVE  ForgetInv'
<1> USE DEF Settle, loop, control, flags, calls, host, stored
<1>1. KeepFacts /\ WholeOK /\ CompleteOK /\ GateOK /\ PassOK /\ PausedThrough /\ FailedOK /\ HopeOK
  BY KeepIs DEF WholeInv, ForgetInv
<1>2. GateOK'
  BY <1>1, NoCallIsNone DEF KeepFacts, GateOK
<1>3. PassOK'
  BY <1>1, NoCallIsNone DEF KeepFacts, PassOK, LoopTypes, AtChapter
<1>4. PausedThrough'
  BY <1>1, NoCallIsNone DEF KeepFacts, PausedThrough, PausedSoon, Listed, Arriving, Deleting,
     DeleteOK, BulkOK, StoreTypes, LoopTypes, FlagTypes, CallTypes, DeleteCall
<1>5. FailedOK'
  BY NoCallIsNone DEF KeepFacts, FailedOK, Rows
<1>6. HopeOK'
  <2> SUFFICES ASSUME ~stopRequested', NEW x \in Chapter, Wanted(x)' PROVE Hope(x)'
    BY DEF HopeOK
  <2> QED
    BY <1>1, NoCallIsNone DEF KeepFacts, HopeOK, Hope, Wanted, Sure, Waiting, Handled, CallWill,
       TimerWill, IsCancelled, GateOK, PassOK, Outstanding, Rows, Fetching, StoreTypes, LoopTypes,
       FlagTypes, CallTypes, DeleteCall, EnqueueCall, AtChapter, Restated, Known, NoChapter
<1> QED
  BY <1>2, <1>3, <1>4, <1>5, <1>6 DEF ForgetInv

LEMMA KickHopes ==
  ASSUME KeepInv, WholeInv, ForgetInv, ~Overlap, ~ShortHolds, Kick
  PROVE  ForgetInv'
<1> USE DEF Kick, Drain, loop, control, flags, calls, host, stored
<1>1. KeepFacts /\ WholeOK /\ CompleteOK /\ GateOK /\ PassOK /\ PausedThrough /\ FailedOK /\ HopeOK
  BY KeepIs DEF WholeInv, ForgetInv
<1>2. GateOK'
  BY <1>1, NoCallIsNone DEF KeepFacts, GateOK
<1>3. PassOK'
  BY <1>1, NoCallIsNone DEF KeepFacts, PassOK, LoopTypes, AtChapter
<1>4. PausedThrough'
  BY <1>1, NoCallIsNone DEF KeepFacts, PausedThrough, PausedSoon, Listed, Arriving, Deleting,
     DeleteOK, BulkOK, StoreTypes, LoopTypes, FlagTypes, CallTypes, DeleteCall
<1>5. FailedOK'
  BY <1>1, NoCallIsNone DEF KeepFacts, FailedOK, Rows, StoreTypes, LoopTypes, FlagTypes, CallTypes,
     Restated, Known, NoChapter
<1>6. HopeOK'
  <2> SUFFICES ASSUME ~stopRequested', NEW x \in Chapter, Wanted(x)' PROVE Hope(x)'
    BY DEF HopeOK
  <2> QED
    BY NoCallIsNone DEF KeepFacts, HopeOK, Hope, Wanted, Sure, Waiting
<1> QED
  BY <1>2, <1>3, <1>4, <1>5, <1>6 DEF ForgetInv

LEMMA StopHopes ==
  ASSUME KeepInv, WholeInv, ForgetInv, ~Overlap, ~ShortHolds, Stop
  PROVE  ForgetInv'
<1> USE DEF Stop, loop, control, flags, calls, host, stored
<1>1. KeepFacts /\ WholeOK /\ CompleteOK /\ GateOK /\ PassOK /\ PausedThrough /\ FailedOK /\ HopeOK
  BY KeepIs DEF WholeInv, ForgetInv
<1>2. GateOK'
  BY <1>1, NoCallIsNone DEF KeepFacts, GateOK
<1>3. PassOK'
  BY <1>1, NoCallIsNone DEF KeepFacts, PassOK, LoopTypes, AtChapter
<1>4. PausedThrough'
  BY <1>1, NoCallIsNone DEF KeepFacts, PausedThrough, PausedSoon, Listed, Arriving, Deleting
<1>5. FailedOK'
  BY <1>1, NoCallIsNone DEF KeepFacts, FailedOK, Rows, StoreTypes, LoopTypes, FlagTypes, CallTypes,
     Restated, Known, NoChapter
<1>6. HopeOK'
  <2> SUFFICES ASSUME ~stopRequested', NEW x \in Chapter, Wanted(x)' PROVE Hope(x)'
    BY DEF HopeOK
  <2> QED
    OBVIOUS
<1> QED
  BY <1>2, <1>3, <1>4, <1>5, <1>6 DEF ForgetInv

LEMMA IdleFiresHopes ==
  ASSUME KeepInv, WholeInv, ForgetInv, ~Overlap, ~ShortHolds, IdleFires
  PROVE  ForgetInv'
<1> USE DEF IdleFires, Drain, loop, control, flags, calls, host, stored
<1>1. KeepFacts /\ WholeOK /\ CompleteOK /\ GateOK /\ PassOK /\ PausedThrough /\ FailedOK /\ HopeOK
  BY KeepIs DEF WholeInv, ForgetInv
<1>2. GateOK'
  BY <1>1, NoCallIsNone DEF KeepFacts, GateOK
<1>3. PassOK'
  BY <1>1, NoCallIsNone DEF KeepFacts, PassOK, LoopTypes, AtChapter
<1>4. PausedThrough'
  BY <1>1, NoCallIsNone DEF KeepFacts, PausedThrough, PausedSoon, Listed, Arriving, Deleting,
     DeleteOK, BulkOK, StoreTypes, LoopTypes, FlagTypes, CallTypes, DeleteCall
<1>5. FailedOK'
  BY <1>1, NoCallIsNone DEF KeepFacts, FailedOK, Rows, StoreTypes, LoopTypes, FlagTypes, CallTypes,
     Restated, Known, NoChapter
<1>6. HopeOK'
  <2> SUFFICES ASSUME ~stopRequested', NEW x \in Chapter, Wanted(x)' PROVE Hope(x)'
    BY DEF HopeOK
  <2>1. CASE pc # "off"
    <3>1. Wanted(x) /\ ~stopRequested
      BY <2>1 DEF Wanted, IsCancelled, Outstanding, Rows
    <3> QED
      BY <1>1, <2>1, <3>1 DEF HopeOK, Hope, Sure, Waiting, Handled, CallWill, TimerWill
  <2>2. CASE pc = "off" /\ ~stopRequested /\ Pending # {}
    BY <2>2 DEF Hope, Sure
  <2>3. CASE pc = "off" /\ ~stopRequested /\ Pending = {}
    <3>1. x \notin DOMAIN todo /\ x # cur /\ x # cur'
      BY <1>1, <2>3, NoCallIsNone DEF PassOK, KeepFacts, LoopTypes, AtChapter
    <3>2. chapter[x].state \in {"queued", "downloading"}
      BY <2>3, <3>1 DEF Wanted
    <3>3. series
      BY <1>1, <3>2 DEF KeepFacts, RowsOK, Known, NoChapter
    <3> QED
      BY <2>3, <3>2, <3>3 DEF Pending
  <2>4. CASE pc = "off" /\ stopRequested
    BY <2>4
  <2> QED
    BY <2>1, <2>2, <2>3, <2>4
<1> QED
  BY <1>2, <1>3, <1>4, <1>5, <1>6 DEF ForgetInv

LEMMA HoldEndsHopes ==
  ASSUME KeepInv, WholeInv, ForgetInv, ~Overlap, ~ShortHolds, HoldEnds
  PROVE  ForgetInv'
<1> USE DEF HoldEnds, loop, control, flags, calls, host, stored
<1>1. KeepFacts /\ WholeOK /\ CompleteOK /\ GateOK /\ PassOK /\ PausedThrough /\ FailedOK /\ HopeOK
  BY KeepIs DEF WholeInv, ForgetInv
<1>2. GateOK'
  BY <1>1, NoCallIsNone DEF KeepFacts, GateOK
<1>3. PassOK'
  BY <1>1, NoCallIsNone DEF KeepFacts, PassOK, LoopTypes, AtChapter
<1>4. PausedThrough'
  BY <1>1, NoCallIsNone DEF KeepFacts, PausedThrough, PausedSoon, Listed, Arriving, Deleting
<1>5. FailedOK'
  BY <1>1, NoCallIsNone DEF KeepFacts, FailedOK, Rows, StoreTypes, LoopTypes, FlagTypes, CallTypes,
     Restated, Known, NoChapter
<1>6. HopeOK'
  <2> SUFFICES ASSUME ~stopRequested', NEW x \in Chapter, Wanted(x)' PROVE Hope(x)'
    BY DEF HopeOK
  <2> QED
    BY <1>1, NoCallIsNone DEF KeepFacts, HopeOK, Hope, Wanted, Sure, Waiting, Handled, CallWill,
       TimerWill, IsCancelled, GateOK, PassOK, Outstanding, Rows, Fetching, StoreTypes, LoopTypes,
       FlagTypes, CallTypes
<1> QED
  BY <1>2, <1>3, <1>4, <1>5, <1>6 DEF ForgetInv

LEMMA UnblockFiresHopes ==
  ASSUME KeepInv, WholeInv, ForgetInv, ~Overlap, ~ShortHolds, UnblockFires
  PROVE  ForgetInv'
<1> USE DEF UnblockFires, Drain, loop, control, flags, calls, host, stored
<1>1. KeepFacts /\ WholeOK /\ CompleteOK /\ GateOK /\ PassOK /\ PausedThrough /\ FailedOK /\ HopeOK
  BY KeepIs DEF WholeInv, ForgetInv
<1>2. GateOK'
  BY <1>1, NoCallIsNone DEF KeepFacts, GateOK
<1>3. PassOK'
  BY <1>1, NoCallIsNone DEF KeepFacts, PassOK, LoopTypes, AtChapter
<1>4. PausedThrough'
  BY <1>1, NoCallIsNone DEF KeepFacts, PausedThrough, PausedSoon, Listed, Arriving, Deleting,
     DeleteOK, BulkOK, StoreTypes, LoopTypes, FlagTypes, CallTypes, DeleteCall
<1>5. FailedOK'
  BY <1>1, NoCallIsNone DEF KeepFacts, FailedOK, Rows, StoreTypes, LoopTypes, FlagTypes, CallTypes,
     Restated, Known, NoChapter
<1>6. HopeOK'
  <2> SUFFICES ASSUME ~stopRequested', NEW x \in Chapter, Wanted(x)' PROVE Hope(x)'
    BY DEF HopeOK
  <2> QED
    BY NoCallIsNone DEF KeepFacts, HopeOK, Hope, Wanted, Sure, Waiting
<1> QED
  BY <1>2, <1>3, <1>4, <1>5, <1>6 DEF ForgetInv

LEMMA GateFlipsHopes ==
  ASSUME KeepInv, WholeInv, ForgetInv, ~Overlap, ~ShortHolds, GateFlips
  PROVE  ForgetInv'
<1> USE DEF GateFlips, loop, control, flags, calls, host, stored
<1>1. KeepFacts /\ WholeOK /\ CompleteOK /\ GateOK /\ PassOK /\ PausedThrough /\ FailedOK /\ HopeOK
  BY KeepIs DEF WholeInv, ForgetInv
<1>2. GateOK'
  BY <1>1, NoCallIsNone DEF KeepFacts, GateOK
<1>3. PassOK'
  BY <1>1, NoCallIsNone DEF KeepFacts, PassOK, LoopTypes, AtChapter
<1>4. PausedThrough'
  BY <1>1, NoCallIsNone DEF KeepFacts, PausedThrough, PausedSoon, Listed, Arriving, Deleting
<1>5. FailedOK'
  BY <1>1, NoCallIsNone DEF KeepFacts, FailedOK, Rows, StoreTypes, LoopTypes, FlagTypes, CallTypes,
     Restated, Known, NoChapter
<1>6. HopeOK'
  <2> SUFFICES ASSUME ~stopRequested', NEW x \in Chapter, Wanted(x)' PROVE Hope(x)'
    BY DEF HopeOK
  <2> QED
    BY <1>1, NoCallIsNone DEF KeepFacts, HopeOK, Hope, Wanted, Sure, Waiting, Handled, CallWill,
       TimerWill, IsCancelled, GateOK, PassOK, Outstanding, Rows, Fetching, StoreTypes, LoopTypes,
       FlagTypes, CallTypes
<1> QED
  BY <1>2, <1>3, <1>4, <1>5, <1>6 DEF ForgetInv

LEMMA CrashHopes ==
  ASSUME KeepInv, WholeInv, ForgetInv, ~Overlap, ~ShortHolds, Crash
  PROVE  ForgetInv'
<1> USE DEF Crash, loop, control, flags, calls, host, stored
<1>1. KeepFacts /\ WholeOK /\ CompleteOK /\ GateOK /\ PassOK /\ PausedThrough /\ FailedOK /\ HopeOK
  BY KeepIs DEF WholeInv, ForgetInv
<1>2. GateOK'
  BY <1>1, NoCallIsNone DEF KeepFacts, GateOK
<1>3. PassOK'
  BY <1>1, NoCallIsNone DEF KeepFacts, PassOK, LoopTypes, AtChapter
<1>4. PausedThrough'
  BY <1>1, NoCallIsNone DEF KeepFacts, PausedThrough, PausedSoon
<1>5. FailedOK'
  BY NoCallIsNone DEF KeepFacts, FailedOK, Rows
<1>6. HopeOK'
  <2> SUFFICES ASSUME ~stopRequested', NEW x \in Chapter, Wanted(x)' PROVE Hope(x)'
    BY DEF HopeOK
  <2> QED
    BY NoCallIsNone DEF KeepFacts, HopeOK, Hope, Wanted, Sure, Waiting, Handled, CallWill,
       TimerWill, IsCancelled, GateOK, PassOK
<1> QED
  BY <1>2, <1>3, <1>4, <1>5, <1>6 DEF ForgetInv

-----------------------------------------------------------------------------
(* ForgetInv, action by action: the calls                                   *)

LEMMA EnqueueHopes ==
  ASSUME KeepInv, WholeInv, ForgetInv, ~Overlap, ~ShortHolds, NEW c \in Chapter, Enqueue(c)
  PROVE  ForgetInv'
<1> USE DEF Enqueue, InCall, loop, control, flags, calls, host, stored
<1>1. KeepFacts /\ WholeOK /\ CompleteOK /\ GateOK /\ PassOK /\ PausedThrough /\ FailedOK /\ HopeOK
  BY KeepIs DEF WholeInv, ForgetInv
<1>2. GateOK'
  BY <1>1, NoCallIsNone DEF KeepFacts, GateOK
<1>3. PassOK'
  BY <1>1, NoCallIsNone DEF KeepFacts, PassOK, LoopTypes, AtChapter
<1>4. PausedThrough'
  BY <1>1, NoCallIsNone DEF KeepFacts, PausedThrough, PausedSoon, Listed, Arriving, Deleting
<1>5. FailedOK'
  BY <1>1, NoCallIsNone DEF KeepFacts, FailedOK, Rows, StoreTypes, LoopTypes, FlagTypes, CallTypes,
     Restated, Known, NoChapter
<1>6. HopeOK'
  <2> SUFFICES ASSUME ~stopRequested', NEW x \in Chapter, Wanted(x)' PROVE Hope(x)'
    BY DEF HopeOK
  <2>1. CASE x = c
    <3>1. enq' # None /\ enq'.chapter = c /\ enq'.at = "row"
      BY <1>1, NoCallIsNone DEF EnqueueCall, ChapterState
    <3> QED
      BY <2>1, <3>1 DEF Hope, CallWill
  <2>2. CASE x # c
    <3>1. Wanted(x) /\ ~stopRequested
      BY <2>2 DEF Wanted, IsCancelled, Outstanding, Rows
    <3> QED
      BY <1>1, <3>1 DEF HopeOK, Hope, Sure, Waiting, Handled, CallWill, TimerWill
  <2> QED
    BY <2>1, <2>2
<1> QED
  BY <1>2, <1>3, <1>4, <1>5, <1>6 DEF ForgetInv

LEMMA EnqueueRowHopes ==
  ASSUME KeepInv, WholeInv, ForgetInv, ~Overlap, ~ShortHolds, EnqueueRow
  PROVE  ForgetInv'
<1> USE DEF EnqueueRow, InCall, loop, control, flags, calls, host, stored
<1>1. KeepFacts /\ WholeOK /\ CompleteOK /\ GateOK /\ PassOK /\ PausedThrough /\ FailedOK /\ HopeOK
  BY KeepIs DEF WholeInv, ForgetInv
<1>2. GateOK'
  BY <1>1, NoCallIsNone DEF KeepFacts, GateOK
<1>3. PassOK'
  BY <1>1, NoCallIsNone DEF KeepFacts, PassOK, LoopTypes, AtChapter
<1>4. PausedThrough'
  BY <1>1, NoCallIsNone DEF KeepFacts, PausedThrough, PausedSoon, Listed, Arriving, Deleting,
     DeleteOK, BulkOK, StoreTypes, LoopTypes, FlagTypes, CallTypes, DeleteCall, EnqueueCall,
     AtChapter, Restated, Known, NoChapter
<1>5. FailedOK'
  BY <1>1, NoCallIsNone DEF KeepFacts, FailedOK, Rows, StoreTypes, LoopTypes, FlagTypes, CallTypes,
     Restated, Known, NoChapter
<1>6. HopeOK'
  <2> SUFFICES ASSUME ~stopRequested', NEW x \in Chapter, Wanted(x)' PROVE Hope(x)'
    BY DEF HopeOK
  <2> QED
    BY <1>1, NoCallIsNone DEF KeepFacts, HopeOK, Hope, Wanted, Sure, Waiting, Handled, CallWill,
       TimerWill, IsCancelled, GateOK, PassOK, Outstanding, Rows, Fetching, StoreTypes, LoopTypes,
       FlagTypes, CallTypes, DeleteCall, EnqueueCall, AtChapter, Restated, Known, NoChapter
<1> QED
  BY <1>2, <1>3, <1>4, <1>5, <1>6 DEF ForgetInv

LEMMA EnqueueStateHopes ==
  ASSUME KeepInv, WholeInv, ForgetInv, ~Overlap, ~ShortHolds, EnqueueState
  PROVE  ForgetInv'
<1> USE DEF Rewritten, Tells, EnqueueState, InCall, loop, control, flags, calls, host, stored
<1>1. KeepFacts /\ WholeOK /\ CompleteOK /\ GateOK /\ PassOK /\ PausedThrough /\ FailedOK /\ HopeOK
  BY KeepIs DEF WholeInv, ForgetInv
<1>2. /\ enq.chapter \in Chapter /\ StoreTypes /\ enq # None /\ enq \in EnqueueCall
      /\ ~Known(enq.chapter) => UNCHANGED chapter
      /\ Known(enq.chapter) =>
           /\ enq' # None /\ enq'.chapter = enq.chapter /\ enq'.at = "flag"
           /\ enq'.state = Recomputed(enq.chapter, page[enq.chapter])
  <2>1. enq.chapter \in Chapter /\ StoreTypes /\ enq # None /\ enq \in EnqueueCall
    BY <1>1 DEF KeepFacts, CallTypes, EnqueueCall
  <2>2. ASSUME Known(enq.chapter)
        PROVE  /\ enq'.chapter = enq.chapter /\ enq'.at = "flag"
               /\ enq'.state = Recomputed(enq.chapter, page[enq.chapter]) /\ enq' \in EnqueueCall
    BY <2>1, <2>2, RecomputedHere DEF EnqueueCall
  <2>3. ASSUME Known(enq.chapter) PROVE enq' # None
    BY <2>2, <2>3, NoCallIsNone
  <2> QED
    BY <2>1, <2>2, <2>3
<1>3. Rewritten(enq.chapter, Recomputed(enq.chapter, page[enq.chapter]))
  <2>1. enq.chapter \in Chapter /\ StoreTypes
    BY <1>1 DEF KeepFacts, LoopTypes, AtChapter, CallTypes, EnqueueCall
  <2>2. page[enq.chapter] \in [Page -> {"absent", "queued", "complete", "failed"}]
    BY <1>1, <2>1 DEF KeepFacts, StoreTypes
  <2>3. CASE UNCHANGED chapter
    BY <2>1, <2>3, NothingWritten
  <2>4. CASE Known(enq.chapter) /\ PutState(enq.chapter, Recomputed(enq.chapter, page[enq.chapter]))
    BY <2>1, <2>2, <2>4, RecomputedWritten
  <2> QED
    BY <2>3, <2>4
<1>4. Known(enq.chapter) => Tells(enq.chapter)
  BY <1>1, RecomputedHere DEF KeepFacts, LoopTypes, AtChapter, CallTypes, EnqueueCall
<1>5. GateOK'
  BY <1>1, <1>2, <1>3, <1>4, NoCallIsNone DEF KeepFacts, GateOK
<1>6. PassOK'
  BY <1>1 DEF KeepFacts, PassOK
<1>7. PausedThrough'
  <2> SUFFICES ASSUME cancelledSeries', NEW x \in Chapter,
                      chapter'[x].state \in {"queued", "downloading", "failed"}
               PROVE  PausedSoon(x)'
    BY DEF PausedThrough
  <2> USE DEF PausedSoon
  <2>1. Listed(x)' = Listed(x) /\ Deleting(x)' = Deleting(x)
    BY DEF Listed, Deleting
  <2>2. CASE x # enq.chapter
    <3>1. chapter'[x] = chapter[x] /\ ~Arriving(x)
      BY <1>3, <2>2 DEF Restated, Arriving
    <3> QED
      BY <1>1, <2>1, <3>1 DEF PausedThrough
  <2>3. CASE x = enq.chapter
    <3>1. Known(enq.chapter)
      BY <1>2, <2>3, StateOf
    <3>2. chapter'[x].state = Recomputed(enq.chapter, page[enq.chapter])
      BY <1>2, <2>3, <3>1, RecomputedHere, StateWritten
    <3> QED
      BY <1>2, <2>3, <3>1, <3>2 DEF Arriving
  <2> QED
    BY <2>2, <2>3
<1>8. FailedOK'
  BY <1>1, <1>2, <1>3, <1>4, NoCallIsNone DEF KeepFacts, FailedOK, Rows, StoreTypes, LoopTypes,
     AtChapter, Restated, Known, NoChapter
<1>9. HopeOK'
  <2> SUFFICES ASSUME ~stopRequested', NEW x \in Chapter, Wanted(x)' PROVE Hope(x)'
    BY DEF HopeOK
  <2> QED
    BY <1>1, <1>2, <1>3, <1>4, NoCallIsNone DEF KeepFacts, HopeOK, Hope, Wanted, Sure, Waiting,
       Handled, CallWill, TimerWill, IsCancelled, GateOK, PassOK, Outstanding, Rows, Fetching,
       StoreTypes, LoopTypes, FlagTypes, CallTypes, DeleteCall, EnqueueCall, AtChapter, Restated,
       Known, NoChapter
<1> QED
  BY <1>5, <1>6, <1>7, <1>8, <1>9 DEF ForgetInv

LEMMA EnqueueFlagHopes ==
  ASSUME KeepInv, WholeInv, ForgetInv, ~Overlap, ~ShortHolds, EnqueueFlag
  PROVE  ForgetInv'
<1> USE DEF Rewritten, EnqueueFlag, InCall, loop, control, flags, calls, host, stored
<1>1. KeepFacts /\ WholeOK /\ CompleteOK /\ GateOK /\ PassOK /\ PausedThrough /\ FailedOK /\ HopeOK
  BY KeepIs DEF WholeInv, ForgetInv
<1>2. /\ enq.chapter \in Chapter /\ StoreTypes /\ enq # None
      /\ del = None /\ enq.state \in ChapterState
  BY <1>1 DEF KeepFacts, CallTypes, EnqueueCall, DeleteOK
<1>3. Rewritten(enq.chapter, Paused(enq.chapter))
  <2>1. enq.chapter \in Chapter /\ StoreTypes
    BY <1>1 DEF KeepFacts, LoopTypes, AtChapter, CallTypes, EnqueueCall
  <2>2. CASE UNCHANGED chapter
    BY <2>1, <2>2, NothingWritten
  <2>3. CASE Known(enq.chapter) /\ PutState(enq.chapter, Paused(enq.chapter))
    BY <2>1, <2>3, PausedWritten
  <2> QED
    BY <2>2, <2>3
<1>4. GateOK'
  BY <1>1, <1>2, <1>3, NoCallIsNone DEF KeepFacts, GateOK, Paused
<1>5. PassOK'
  BY <1>1 DEF PassOK, LoopTypes
<1>6. PausedThrough'
  <2> SUFFICES ASSUME cancelledSeries', NEW x \in Chapter,
                      chapter'[x].state \in {"queued", "downloading", "failed"}
               PROVE  PausedSoon(x)'
    BY DEF PausedThrough
  <2> USE DEF PausedSoon
  <2>1. cancelledSeries /\ Listed(x)' = Listed(x) /\ Deleting(x)' = Deleting(x)
    BY DEF Listed, Deleting
  <2>2. CASE x # enq.chapter
    <3>1. chapter'[x] = chapter[x] /\ ~Arriving(x)
      BY <1>3, <2>2 DEF Restated, Arriving
    <3> QED
      BY <1>1, <2>1, <3>1 DEF PausedThrough
  <2>3. CASE x = enq.chapter /\ enq.state = "complete"
    <3>1. chapter' = chapter /\ ~Arriving(x)
      BY <2>3 DEF Arriving
    <3> QED
      BY <1>1, <2>1, <3>1 DEF PausedThrough
  <2>4. CASE x = enq.chapter /\ enq.state # "complete"
    <3>1. \E y \in Chapter \ {enq.chapter} : chapter[y].state = "paused"
      BY <2>1, <2>4
    <3>2. CASE Known(x)
      <4>1. PutState(x, Paused(x))
        BY <2>1, <2>4, <3>1, <3>2
      <4>2. chapter'[x].state = Paused(x)
        BY <1>2, <2>4, <3>2, <4>1, PausedWritten
      <4> QED
        BY <4>2 DEF Paused
    <3>3. CASE ~Known(x)
      <4>1. chapter' = chapter
        BY <2>4, <3>3
      <4> QED
        BY <1>2, <2>4, <3>3, <4>1, StateOf
    <3> QED
      BY <3>2, <3>3
  <2> QED
    BY <2>2, <2>3, <2>4
<1>7. FailedOK'
  BY <1>1, <1>2, <1>3, NoCallIsNone DEF KeepFacts, FailedOK, Rows, StoreTypes, LoopTypes, FlagTypes,
     Restated, Known, NoChapter, Paused
<1>8. HopeOK'
  <2> SUFFICES ASSUME ~stopRequested', NEW x \in Chapter, Wanted(x)' PROVE Hope(x)'
    BY DEF HopeOK
  <2>1. CASE kickDue'
    BY <2>1 DEF Hope, CallWill
  <2> SUFFICES ASSUME ~kickDue' PROVE Hope(x)'
    BY <2>1
  <2> DEFINE held == cancelledSeries /\ enq.state # "complete"
             sibling == \E y \in Chapter \ {enq.chapter} : chapter[y].state = "paused"
             pause == held /\ sibling /\ Known(enq.chapter)
  <2>2. pause \/ enq.state = "paused"
    OBVIOUS
  <2>3. /\ \A y \in Chapter : y # enq.chapter => chapter'[y] = chapter[y]
        /\ ~pause => chapter' = chapter
        /\ Outstanding(x)' = Outstanding(x)
    BY <1>3 DEF Restated, Outstanding, Rows
  <2>4. CASE x = enq.chapter /\ pause
    <3>1. PutState(x, Paused(x))
      BY <2>4
    <3>2. chapter'[x].state = Paused(x)
      BY <1>2, <2>4, <3>1, PausedWritten
    <3> QED
      BY <3>2 DEF Wanted, Paused
  <2>5. CASE (x # enq.chapter \/ ~pause) /\ cancelledSeries' = cancelledSeries
    <3>1. chapter'[x] = chapter[x] /\ Wanted(x)
      BY <2>3, <2>5 DEF Wanted, IsCancelled
    <3>2. CallWill(x) => CallWill(x)'
      BY <1>2, <2>2, <2>5, <3>1 DEF CallWill
    <3> QED
      BY <1>1, <3>1, <3>2 DEF HopeOK, Hope, Sure, Waiting, Handled, TimerWill
  <2>6. CASE cancelledSeries' # cancelledSeries
    <3>1. held /\ ~sibling
      BY <1>1, <2>6 DEF KeepFacts, FlagTypes
    <3>2. enq.state = "paused" /\ chapter' = chapter
      BY <2>2, <2>3, <3>1
    <3>3. ~Arriving(x) \/ (enq.at # "flag" /\ enq.chapter = x)
      BY <3>2 DEF Arriving
    <3>4. ~Arriving(x) /\ ~Deleting(x)
      BY <1>2, <3>3 DEF Deleting
    <3>5. \/ Listed(x)
          \/ chapter[x].state = "failed" /\ x \notin DOMAIN todo /\ ~(pc \in AtChapter /\ cur = x)
      BY <1>1, <3>1, <3>2, <3>4 DEF PausedThrough, PausedSoon, Wanted
    <3>6. Listed(x)
      BY <1>1, <3>2, <3>5, NoCallIsNone DEF Wanted, AtChapter, Fetching
    <3> QED
      BY <3>6 DEF Hope, CallWill, Listed
  <2> QED
    BY <1>1, <2>4, <2>5, <2>6
<1> QED
  BY <1>4, <1>5, <1>6, <1>7, <1>8 DEF ForgetInv

LEMMA PauseChapterHopes ==
  ASSUME KeepInv, WholeInv, ForgetInv, ~Overlap, ~ShortHolds, NEW c \in Chapter, PauseChapter(c)
  PROVE  ForgetInv'
<1> USE DEF Rewritten, PauseChapter, InCall, loop, control, flags, calls, host, stored
<1>1. KeepFacts /\ WholeOK /\ CompleteOK /\ GateOK /\ PassOK /\ PausedThrough /\ FailedOK /\ HopeOK
  BY KeepIs DEF WholeInv, ForgetInv
<1>2. Rewritten(c, Paused(c))
  <2>1. c \in Chapter /\ StoreTypes
    BY <1>1 DEF KeepFacts, LoopTypes, AtChapter, CallTypes, EnqueueCall
  <2>2. CASE UNCHANGED chapter
    BY <2>1, <2>2, NothingWritten
  <2>3. CASE Known(c) /\ PutState(c, Paused(c))
    BY <2>1, <2>3, PausedWritten
  <2> QED
    BY <2>2, <2>3
<1>3. GateOK'
  BY <1>1, <1>2, NoCallIsNone DEF KeepFacts, GateOK, Paused
<1>4. PassOK'
  BY <1>1, <1>2, NoCallIsNone DEF KeepFacts, PassOK, LoopTypes, AtChapter, Paused
<1>5. PausedThrough'
  BY <1>1, <1>2, NoCallIsNone DEF KeepFacts, PausedThrough, PausedSoon, Listed, Arriving, Deleting,
     DeleteOK, BulkOK, StoreTypes, AtChapter, Restated, Known, NoChapter, Paused
<1>6. FailedOK'
  BY <1>1, <1>2, NoCallIsNone DEF KeepFacts, FailedOK, Rows, StoreTypes, LoopTypes, FlagTypes,
     Restated, Known, NoChapter, Paused
<1>7. HopeOK'
  <2> SUFFICES ASSUME ~stopRequested', NEW x \in Chapter, Wanted(x)' PROVE Hope(x)'
    BY DEF HopeOK
  <2> QED
    BY <1>1, <1>2, NoCallIsNone DEF KeepFacts, HopeOK, Hope, Wanted, Sure, Waiting, Handled,
       CallWill, TimerWill, IsCancelled, GateOK, PassOK, Outstanding, Rows, Fetching, StoreTypes,
       LoopTypes, FlagTypes, CallTypes, DeleteCall, EnqueueCall, AtChapter, Restated, Known,
       NoChapter, Paused
<1> QED
  BY <1>3, <1>4, <1>5, <1>6, <1>7 DEF ForgetInv

LEMMA ResumeChapterHopes ==
  ASSUME KeepInv, WholeInv, ForgetInv, ~Overlap, ~ShortHolds, NEW c \in Chapter, ResumeChapter(c)
  PROVE  ForgetInv'
<1> USE DEF Rewritten, ResumeChapter, InCall, loop, control, flags, calls, host, stored
<1>1. KeepFacts /\ WholeOK /\ CompleteOK /\ GateOK /\ PassOK /\ PausedThrough /\ FailedOK /\ HopeOK
  BY KeepIs DEF WholeInv, ForgetInv
<1>2. Rewritten(c, Resumed(c))
  <2>1. c \in Chapter /\ StoreTypes
    BY <1>1 DEF KeepFacts, LoopTypes, AtChapter, CallTypes, EnqueueCall
  <2> QED
    BY <2>1, ResumedWritten
<1>3. GateOK'
  BY <1>1, <1>2, NoCallIsNone DEF KeepFacts, GateOK, Resumed
<1>4. PassOK'
  BY <1>1, <1>2, NoCallIsNone DEF KeepFacts, PassOK, LoopTypes, AtChapter, Resumed
<1>5. PausedThrough'
  BY <1>2, NoCallIsNone DEF KeepFacts, PausedThrough, PausedSoon
<1>6. FailedOK'
  BY <1>1, <1>2, NoCallIsNone DEF KeepFacts, FailedOK, Rows, StoreTypes, LoopTypes, FlagTypes,
     Restated, Known, NoChapter, Resumed
<1>7. HopeOK'
  <2> SUFFICES ASSUME ~stopRequested', NEW x \in Chapter, Wanted(x)' PROVE Hope(x)'
    BY DEF HopeOK
  <2> QED
    BY <1>2, NoCallIsNone DEF KeepFacts, HopeOK, Hope, Wanted, Sure, Waiting, Handled, CallWill,
       TimerWill, IsCancelled, GateOK, PassOK
<1> QED
  BY <1>3, <1>4, <1>5, <1>6, <1>7 DEF ForgetInv

LEMMA RetryChapterHopes ==
  ASSUME KeepInv, WholeInv, ForgetInv, ~Overlap, ~ShortHolds, NEW c \in Chapter, RetryChapter(c)
  PROVE  ForgetInv'
<1> USE DEF RetryChapter, InCall, Outstanding, loop, control, flags, calls, host, stored
<1>1. KeepFacts /\ WholeOK /\ CompleteOK /\ GateOK /\ PassOK /\ PausedThrough /\ FailedOK /\ HopeOK
  BY KeepIs DEF WholeInv, ForgetInv
<1>2. /\ Rows(c)' = Rows(c)
      /\ \A x \in Chapter : x # c => Rows(x)' = Rows(x) /\ Outstanding(x)' = Outstanding(x)
      /\ Recomputed(c, page'[c]) = "complete" =>
           chapter[c].resolved /\ Outstanding(c)' = {} /\ Rows(c)' # {}
  <2> DEFINE rows == [p \in Page |-> IF p \in Outstanding(c) THEN "queued" ELSE page[c][p]]
  <2>1. /\ page' = [page EXCEPT ![c] = rows]
        /\ rows \in [Page -> {"absent", "queued", "complete", "failed"}]
        /\ \A p \in Page : rows[p] = IF p \in Outstanding(c) THEN "queued" ELSE page[c][p]
    BY <1>1 DEF KeepFacts, StoreTypes
  <2> HIDE DEF rows
  <2>2. page'[c] = rows /\ \A x \in Chapter : x # c => page'[x] = page[x]
    BY <1>1, <2>1 DEF KeepFacts, StoreTypes
  <2>3. Rows(c)' = Rows(c)
    BY <2>1, <2>2 DEF Rows, Outstanding
  <2>4. \A x \in Chapter : x # c => Rows(x)' = Rows(x) /\ Outstanding(x)' = Outstanding(x)
    BY <2>2 DEF Rows, Outstanding
  <2>5. Recomputed(c, rows) = "complete" =>
          /\ chapter[c].resolved
          /\ \A p \in Page : rows[p] \in {"absent", "complete"}
          /\ \E p \in Page : rows[p] = "complete"
    BY <1>1, <2>1, RecomputedIs DEF KeepFacts
  <2>6. Recomputed(c, rows) = "complete" => Outstanding(c)' = {} /\ Rows(c)' # {}
    BY <2>2, <2>5 DEF Rows, Outstanding
  <2> QED
    BY <2>2, <2>3, <2>4, <2>5, <2>6
<1>3. Restated(c) /\ chapter'[c].state = Recomputed(c, page'[c])
  <2>1. c \in Chapter /\ StoreTypes /\ Known(c) /\ PutState(c, Recomputed(c, page'[c]))
    BY <1>1 DEF KeepFacts, StoreTypes
  <2>2. page'[c] \in [Page -> {"absent", "queued", "complete", "failed"}]
    BY <1>1, <2>1 DEF KeepFacts, StoreTypes
  <2> QED
    BY <2>1, <2>2, RecomputedWritten
<1>4. GateOK'
  BY <1>1, <1>2, <1>3, NoCallIsNone DEF KeepFacts, GateOK
<1>5. PassOK'
  BY <1>1, <1>2, <1>3, NoCallIsNone DEF KeepFacts, PassOK, LoopTypes, AtChapter
<1>6. PausedThrough'
  BY <1>2, <1>3, NoCallIsNone DEF KeepFacts, PausedThrough
<1>7. FailedOK'
  <2> SUFFICES ASSUME pc = "failed", chapter'[cur].resolved, chapter'[cur].state = "failed"
               PROVE  Rows(cur)' = {} \/ \E p \in Page : page'[cur][p] = "failed"
    BY DEF FailedOK
  <2>1. CASE cur = c
    <3>1. page'[c] \in [Page -> {"absent", "queued", "complete", "failed"}] /\ StoreTypes /\ Known(c)
      BY <1>1 DEF KeepFacts, StoreTypes
    <3> QED
      BY <1>3, <2>1, <3>1, RecomputedIs
  <2>2. CASE cur # c
    <3>1. cur \in Chapter /\ chapter'[cur] = chapter[cur] /\ page'[cur] = page[cur] /\ Known(cur)
      BY <1>1, <1>3, <2>2 DEF KeepFacts, LoopTypes, AtChapter, Restated, Known, NoChapter,
         StoreTypes
    <3> QED
      BY <1>1, <3>1 DEF FailedOK, Rows
  <2> QED
    BY <2>1, <2>2
<1>8. HopeOK'
  <2> SUFFICES ASSUME ~stopRequested', NEW x \in Chapter, Wanted(x)' PROVE Hope(x)'
    BY DEF HopeOK
  <2> QED
    BY <1>2, <1>3, NoCallIsNone DEF KeepFacts, HopeOK, Hope, Wanted, Sure, Waiting, Handled,
       CallWill, TimerWill, IsCancelled, GateOK
<1> QED
  BY <1>4, <1>5, <1>6, <1>7, <1>8 DEF ForgetInv

LEMMA PauseSeriesHopes ==
  ASSUME KeepInv, WholeInv, ForgetInv, ~Overlap, ~ShortHolds, PauseSeries
  PROVE  ForgetInv'
<1> USE DEF PauseSeries, InCall, loop, control, flags, calls, host, stored
<1>1. KeepFacts /\ WholeOK /\ CompleteOK /\ GateOK /\ PassOK /\ PausedThrough /\ FailedOK /\ HopeOK
  BY KeepIs DEF WholeInv, ForgetInv
<1>2. GateOK'
  BY <1>1, NoCallIsNone DEF KeepFacts, GateOK
<1>3. PassOK'
  BY <1>1, NoCallIsNone DEF KeepFacts, PassOK, LoopTypes, AtChapter
<1>4. PausedThrough'
  <2> SUFFICES ASSUME cancelledSeries', NEW x \in Chapter,
                      chapter'[x].state \in {"queued", "downloading", "failed"}
               PROVE  PausedSoon(x)'
    BY DEF PausedThrough
  <2> USE DEF PausedSoon
  <2>1. Known(x) /\ chapter[x].state \notin {"complete", "paused"}
    BY <1>1, StateOf DEF KeepFacts
  <2>2. x \in DOMAIN bulk'.rows
    BY <2>1
  <2>3. bulk' # None
    BY BulkStarts, <1>1 DEF KeepFacts
  <2> QED
    BY <2>2, <2>3 DEF Listed
<1>5. FailedOK'
  BY <1>1, NoCallIsNone DEF KeepFacts, FailedOK, Rows, StoreTypes, LoopTypes, FlagTypes, CallTypes,
     Restated, Known, NoChapter
<1>6. HopeOK'
  <2> SUFFICES ASSUME ~stopRequested', NEW x \in Chapter, Wanted(x)' PROVE Hope(x)'
    BY DEF HopeOK
  <2> QED
    BY NoCallIsNone DEF KeepFacts, HopeOK, Hope, Wanted, Sure, Waiting, Handled, CallWill,
       TimerWill, IsCancelled, GateOK, PassOK
<1> QED
  BY <1>2, <1>3, <1>4, <1>5, <1>6 DEF ForgetInv

LEMMA ResumeSeriesHopes ==
  ASSUME KeepInv, WholeInv, ForgetInv, ~Overlap, ~ShortHolds, ResumeSeries
  PROVE  ForgetInv'
<1> USE DEF ResumeSeries, InCall, loop, control, flags, calls, host, stored
<1>1. KeepFacts /\ WholeOK /\ CompleteOK /\ GateOK /\ PassOK /\ PausedThrough /\ FailedOK /\ HopeOK
  BY KeepIs DEF WholeInv, ForgetInv
<1>2. GateOK'
  BY <1>1, NoCallIsNone DEF KeepFacts, GateOK
<1>3. PassOK'
  BY <1>1, NoCallIsNone DEF KeepFacts, PassOK, LoopTypes, AtChapter
<1>4. PausedThrough'
  BY <1>1, NoCallIsNone DEF KeepFacts, PausedThrough, PausedSoon
<1>5. FailedOK'
  BY <1>1, NoCallIsNone DEF KeepFacts, FailedOK, Rows, StoreTypes, LoopTypes, FlagTypes, CallTypes,
     Restated, Known, NoChapter
<1>6. HopeOK'
  <2> SUFFICES ASSUME ~stopRequested', NEW x \in Chapter, Wanted(x)' PROVE Hope(x)'
    BY DEF HopeOK
  <2>1. bulk' # None /\ bulk'.to = "queued"
    BY BulkStarts, <1>1 DEF KeepFacts
  <2> QED
    BY <2>1 DEF Hope, CallWill
<1> QED
  BY <1>2, <1>3, <1>4, <1>5, <1>6 DEF ForgetInv

LEMMA BulkPutHopes ==
  ASSUME KeepInv, WholeInv, ForgetInv, ~Overlap, ~ShortHolds, BulkPut
  PROVE  ForgetInv'
<1> USE DEF BulkPut, InCall, loop, control, flags, calls, host, stored
<1>1. KeepFacts /\ WholeOK /\ CompleteOK /\ GateOK /\ PassOK /\ PausedThrough /\ FailedOK /\ HopeOK
  BY KeepIs DEF WholeInv, ForgetInv
<1>2. PICK c \in DOMAIN bulk.rows :
        /\ chapter' = [chapter EXCEPT ![c] = [bulk.rows[c] EXCEPT !.state = bulk.to]]
        /\ bulk' = [bulk EXCEPT !.rows = [x \in DOMAIN bulk.rows \ {c} |-> bulk.rows[x]]]
  OBVIOUS
<1>3. /\ bulk # None /\ bulk' # None /\ bulk'.to = bulk.to /\ DOMAIN bulk'.rows = DOMAIN bulk.rows \ {c}
      /\ c \in Chapter /\ chapter'[c].state = bulk.to /\ bulk.to \in {"paused", "queued"}
      /\ \A x \in Chapter : x # c => chapter'[x] = chapter[x]
  <2>1. /\ bulk' = [to |-> bulk.to, rows |-> [x \in DOMAIN bulk.rows \ {c} |-> bulk.rows[x]]]
        /\ c \in Chapter /\ bulk.rows[c] \in Row /\ bulk.to \in {"paused", "queued"}
        /\ DOMAIN bulk.rows \subseteq Chapter /\ \A x \in DOMAIN bulk.rows : bulk.rows[x] \in ChapterRow
    BY <1>1, <1>2 DEF KeepFacts, BulkOK
  <2>2. bulk' # None
    BY <2>1, BulkMade, NoCallIsNone
  <2>3. chapter'[c].state = bulk.to /\ \A x \in Chapter : x # c => chapter'[x] = chapter[x]
    BY <1>1, <1>2, <2>1, RowMade DEF KeepFacts, StoreTypes
  <2> QED
    BY <2>1, <2>2, <2>3
<1>4. GateOK'
  BY <1>1, <1>2, <1>3, NoCallIsNone DEF KeepFacts, GateOK
<1>5. PassOK'
  BY <1>1, <1>2, <1>3, NoCallIsNone DEF KeepFacts, PassOK, LoopTypes, AtChapter
<1>6. PausedThrough'
  <2> SUFFICES ASSUME cancelledSeries', NEW x \in Chapter,
                      chapter'[x].state \in {"queued", "downloading", "failed"}
               PROVE  PausedSoon(x)'
    BY DEF PausedThrough
  <2> USE DEF PausedSoon
  <2>1. Arriving(x)' = Arriving(x) /\ Deleting(x)' = Deleting(x)
    BY DEF Arriving, Deleting
  <2>2. CASE x = c
    <3>1. bulk.to = "paused"
      BY <1>1, <1>3 DEF KeepFacts, BulkOK
    <3> QED
      BY <1>3, <2>2, <3>1
  <2>3. CASE x # c
    BY <1>1, <1>3, <2>1, <2>3 DEF PausedThrough, Listed
  <2> QED
    BY <2>2, <2>3
<1>7. FailedOK'
  <2>1. cur \in Chapter \/ pc # "failed"
    BY <1>1 DEF KeepFacts, LoopTypes, AtChapter
  <2> QED
    BY <1>1, <1>3, <2>1 DEF FailedOK, Rows, Known
<1>8. HopeOK'
  <2> SUFFICES ASSUME ~stopRequested', NEW x \in Chapter, Wanted(x)' PROVE Hope(x)'
    BY DEF HopeOK
  <2>1. CASE bulk.to = "queued"
    BY <1>3, <2>1 DEF Hope, CallWill
  <2>2. CASE bulk.to = "paused"
    <3>1. x # c
      BY <1>3, <2>2 DEF Wanted
    <3>2. Wanted(x) /\ chapter'[x] = chapter[x]
      BY <1>3, <3>1 DEF Wanted, IsCancelled, Outstanding, Rows
    <3>3. CallWill(x) => CallWill(x)'
      BY <1>3, <3>1 DEF CallWill
    <3> QED
      BY <1>1, <3>2, <3>3 DEF HopeOK, Hope, Sure, Waiting, Handled, TimerWill
  <2> QED
    BY <1>3, <2>1, <2>2
<1> QED
  BY <1>4, <1>5, <1>6, <1>7, <1>8 DEF ForgetInv

LEMMA BulkEndHopes ==
  ASSUME KeepInv, WholeInv, ForgetInv, ~Overlap, ~ShortHolds, BulkEnd
  PROVE  ForgetInv'
<1> USE DEF BulkEnd, InCall, loop, control, flags, calls, host, stored
<1>1. KeepFacts /\ WholeOK /\ CompleteOK /\ GateOK /\ PassOK /\ PausedThrough /\ FailedOK /\ HopeOK
  BY KeepIs DEF WholeInv, ForgetInv
<1>2. GateOK'
  BY <1>1, NoCallIsNone DEF KeepFacts, GateOK
<1>3. PassOK'
  BY <1>1, NoCallIsNone DEF KeepFacts, PassOK, LoopTypes, AtChapter
<1>4. PausedThrough'
  BY <1>1, NoCallIsNone DEF KeepFacts, PausedThrough, PausedSoon, Listed, Arriving, Deleting
<1>5. FailedOK'
  BY <1>1, NoCallIsNone DEF KeepFacts, FailedOK, Rows, StoreTypes, LoopTypes, FlagTypes, CallTypes,
     Restated, Known, NoChapter
<1>6. HopeOK'
  <2> SUFFICES ASSUME ~stopRequested', NEW x \in Chapter, Wanted(x)' PROVE Hope(x)'
    BY DEF HopeOK
  <2> QED
    BY <1>1, NoCallIsNone DEF KeepFacts, HopeOK, Hope, Wanted, Sure, Waiting, Handled, CallWill,
       TimerWill, IsCancelled, GateOK, PassOK, Outstanding, Rows, Fetching, StoreTypes, LoopTypes,
       FlagTypes, CallTypes
<1> QED
  BY <1>2, <1>3, <1>4, <1>5, <1>6 DEF ForgetInv

LEMMA DeleteHopes ==
  ASSUME KeepInv, WholeInv, ForgetInv, ~Overlap, ~ShortHolds, NEW c \in Chapter, Delete(c)
  PROVE  ForgetInv'
<1> USE DEF Delete, InCall, loop, control, flags, calls, host, stored
<1>1. KeepFacts /\ WholeOK /\ CompleteOK /\ GateOK /\ PassOK /\ PausedThrough /\ FailedOK /\ HopeOK
  BY KeepIs DEF WholeInv, ForgetInv
<1>2. GateOK'
  BY <1>1, NoCallIsNone DEF KeepFacts, GateOK
<1>3. PassOK'
  BY <1>1, NoCallIsNone DEF KeepFacts, PassOK, LoopTypes, AtChapter
<1>4. PausedThrough'
  BY <1>1, NoCallIsNone DEF KeepFacts, PausedThrough, PausedSoon, Listed, Arriving, Deleting
<1>5. FailedOK'
  BY <1>1, NoCallIsNone DEF KeepFacts, FailedOK, Rows, StoreTypes, LoopTypes, FlagTypes, CallTypes,
     Restated, Known, NoChapter
<1>6. HopeOK'
  <2> SUFFICES ASSUME ~stopRequested', NEW x \in Chapter, Wanted(x)' PROVE Hope(x)'
    BY DEF HopeOK
  <2> QED
    BY <1>1, NoCallIsNone DEF KeepFacts, HopeOK, Hope, Wanted, Sure, Waiting, Handled, CallWill,
       TimerWill, IsCancelled, GateOK, PassOK, Outstanding, Rows, Fetching, StoreTypes, LoopTypes,
       FlagTypes, CallTypes
<1> QED
  BY <1>2, <1>3, <1>4, <1>5, <1>6 DEF ForgetInv

LEMMA DeleteRowHopes ==
  ASSUME KeepInv, WholeInv, ForgetInv, ~Overlap, ~ShortHolds, DeleteRow
  PROVE  ForgetInv'
<1> USE DEF DeleteRow, InCall, loop, control, flags, calls, host, stored
<1>1. KeepFacts /\ WholeOK /\ CompleteOK /\ GateOK /\ PassOK /\ PausedThrough /\ FailedOK /\ HopeOK
  BY KeepIs DEF WholeInv, ForgetInv
<1>2. GateOK'
  BY <1>1, NoCallIsNone DEF KeepFacts, GateOK
<1>3. PassOK'
  BY <1>1, NoCallIsNone DEF KeepFacts, PassOK, LoopTypes, AtChapter
<1>4. PausedThrough'
  BY <1>1, NoCallIsNone DEF KeepFacts, PausedThrough, PausedSoon, Listed, Arriving, Deleting,
     DeleteOK, BulkOK, StoreTypes, LoopTypes, FlagTypes, CallTypes, DeleteCall, EnqueueCall,
     AtChapter, Restated, Known, NoChapter
<1>5. FailedOK'
  BY <1>1, NoCallIsNone DEF KeepFacts, FailedOK, Rows, StoreTypes, LoopTypes, FlagTypes, CallTypes,
     Restated, Known, NoChapter
<1>6. HopeOK'
  <2> SUFFICES ASSUME ~stopRequested', NEW x \in Chapter, Wanted(x)' PROVE Hope(x)'
    BY DEF HopeOK
  <2> QED
    BY <1>1, NoCallIsNone DEF KeepFacts, HopeOK, Hope, Wanted, Sure, Waiting, Handled, CallWill,
       TimerWill, IsCancelled, GateOK, PassOK, Outstanding, Rows, Fetching, StoreTypes, LoopTypes,
       FlagTypes, CallTypes, DeleteCall, EnqueueCall, AtChapter, Restated, Known, NoChapter
<1> QED
  BY <1>2, <1>3, <1>4, <1>5, <1>6 DEF ForgetInv

LEMMA DeleteFilesHopes ==
  ASSUME KeepInv, WholeInv, ForgetInv, ~Overlap, ~ShortHolds, DeleteFiles
  PROVE  ForgetInv'
<1> USE DEF DeleteFiles, InCall, loop, control, flags, calls, host, stored
<1>1. KeepFacts /\ WholeOK /\ CompleteOK /\ GateOK /\ PassOK /\ PausedThrough /\ FailedOK /\ HopeOK
  BY KeepIs DEF WholeInv, ForgetInv
<1>2. /\ del.chapter \in Chapter /\ bulk = None /\ ~Known(del.chapter)
      /\ \A c \in Chapter : c # del.chapter => ~Deleting(c)
  BY <1>1 DEF KeepFacts, CallTypes, DeleteCall, DeleteOK, Deleting
<1>3. GateOK'
  BY <1>1, <1>2, NoCallIsNone DEF KeepFacts, GateOK
<1>4. PassOK'
  BY <1>1, <1>2, NoCallIsNone DEF KeepFacts, PassOK, LoopTypes, AtChapter
<1>5. PausedThrough'
  BY <1>1, <1>2, NoCallIsNone DEF KeepFacts, PausedThrough, PausedSoon, Listed, Arriving, Deleting,
     DeleteOK, BulkOK, StoreTypes, LoopTypes, FlagTypes, CallTypes, DeleteCall, EnqueueCall,
     AtChapter, Restated, Known, NoChapter
<1>6. FailedOK'
  BY <1>1, <1>2, NoCallIsNone DEF KeepFacts, FailedOK, Rows, StoreTypes, LoopTypes, AtChapter,
     Restated, Known, NoChapter
<1>7. HopeOK'
  <2> SUFFICES ASSUME ~stopRequested', NEW x \in Chapter, Wanted(x)' PROVE Hope(x)'
    BY DEF HopeOK
  <2>1. Known(x)
    BY <1>1, StateOf DEF KeepFacts, Wanted
  <2>2. x # del.chapter /\ series
    BY <1>1, <1>2, <2>1 DEF KeepFacts, RowsOK
  <2>3. IsCancelled(x)' = IsCancelled(x)
    BY <2>2 DEF IsCancelled
  <2>4. Wanted(x)
    BY <2>3 DEF Wanted, Outstanding, Rows
  <2> QED
    BY <1>1, <2>4 DEF HopeOK, Hope, Sure, Waiting, Handled, CallWill, TimerWill
<1> QED
  BY <1>3, <1>4, <1>5, <1>6, <1>7 DEF ForgetInv

-----------------------------------------------------------------------------
(* ForgetInv holds from the start, and nothing is forgotten                 *)

LEMMA ForgetStarts == ASSUME Init PROVE ForgetInv
<1>1. GateOK /\ PassOK /\ PausedThrough /\ FailedOK
  BY NothingListed DEF Init, GateOK, PassOK, PausedThrough, FailedOK
<1>2. HopeOK
  BY DEF Init, HopeOK, Hope, CallWill
<1> QED
  BY <1>1, <1>2 DEF ForgetInv

LEMMA ForgetStays ==
  ASSUME KeepInv, WholeInv, ForgetInv, ~Overlap, ~ShortHolds, [Next]_vars
  PROVE  ForgetInv'
<1>1. CASE DrainStep
  BY <1>1, TopHopes, EndPassHopes, TakeChapterHopes, ResolveHopes, WriteRowHopes,
     WriteResolvedHopes, ResolvedHopes, ReadPagesHopes, NextPageHopes, WriteFileHopes,
     RecordPageHopes, RecordedHopes, FailRecordedHopes, ExitLoopHopes, SettleHopes DEF DrainStep
<1>2. CASE ResolveFails \/ ResolveLimited \/ FetchFails \/ FetchLimited
  BY <1>2, ResolveFailsHopes, ResolveLimitedHopes, FetchFailsHopes, FetchLimitedHopes
<1>3. CASE Kick \/ Stop \/ IdleFires \/ HoldEnds \/ UnblockFires \/ GateFlips \/ Crash
  BY <1>3, KickHopes, StopHopes, IdleFiresHopes, HoldEndsHopes, UnblockFiresHopes, GateFlipsHopes,
     CrashHopes
<1>4. CASE Call
  BY <1>4, EnqueueHopes, PauseChapterHopes, ResumeChapterHopes, RetryChapterHopes, DeleteHopes,
     PauseSeriesHopes, ResumeSeriesHopes DEF Call
<1>5. CASE CallStep
  BY <1>5, EnqueueRowHopes, EnqueueStateHopes, EnqueueFlagHopes, BulkPutHopes, BulkEndHopes,
     DeleteRowHopes, DeleteFilesHopes DEF CallStep
<1>6. CASE UNCHANGED vars
  <2> USE <1>6 DEF vars, stored, loop, control, flags, calls, host
  <2>1. (GateOK /\ PassOK /\ PausedThrough /\ FailedOK)'
    BY DEF ForgetInv, GateOK, PassOK, PausedThrough, FailedOK, PausedSoon, Listed, Arriving,
       Deleting, Rows, Known
  <2>2. \A c \in Chapter : Wanted(c)' = Wanted(c) /\ Hope(c)' = Hope(c)
    BY DEF Wanted, IsCancelled, Outstanding, Rows, Hope, Sure, Waiting, Handled, CallWill, TimerWill
  <2> QED
    BY <2>1, <2>2 DEF ForgetInv, HopeOK
<1> QED
  BY <1>1, <1>2, <1>3, <1>4, <1>5, <1>6 DEF Next

LEMMA HopeAtRest == ASSUME KeepInv, ForgetInv PROVE NothingForgotten
<1> SUFFICES ASSUME pc = "off", ~kickDue, ~stopRequested, enq = None, bulk = None,
                    NEW c \in Chapter, Ready(c)
             PROVE  idleTimer \/ unblockTimer # "none"
  BY DEF NothingForgotten
<1>1. Wanted(c)
  BY DEF Ready, Pending, Wanted
<1>2. Hope(c)
  BY <1>1 DEF ForgetInv, HopeOK
<1>3. ~Sure /\ ~Waiting(c) /\ ~Handled(c) /\ ~CallWill(c)
  BY DEF Sure, Waiting, Handled, CallWill, AtChapter, Fetching
<1> QED
  BY <1>2, <1>3 DEF Hope, TimerWill

\* With the loop gone, no kick due, no stop asked for and no call under way, a chapter that has something
\* to fetch has a timer that will start the loop: a kick that comes while the loop ends is not lost
\* (rekick), a hold has its timer (scheduleUnblock), and a device's closed gate and failed passes have
\* the recheck (scheduleIdleRecheck).  On a server it needs holds that outlast the loop, and on both one
\* stop of the process at most.
THEOREM NothingIsForgotten ==
  ASSUME ~Overlap, ~ShortHolds, Budget["crash"] <= 1
  PROVE  Spec => []NothingForgotten
<1>1. Init => KeepInv /\ WholeInv /\ ForgetInv
  BY KeepStarts, WholeStarts, ForgetStarts
<1>2. KeepInv /\ WholeInv /\ ForgetInv /\ [Next]_vars => (KeepInv /\ WholeInv /\ ForgetInv)'
  BY KeepStays, WholeStays, ForgetStays
<1>3. KeepInv /\ WholeInv /\ ForgetInv => NothingForgotten
  BY HopeAtRest
<1> QED
  BY <1>1, <1>2, <1>3, PTL DEF Spec

=============================================================================
