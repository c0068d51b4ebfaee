----------------------------- MODULE TrackerSync -----------------------------
(***************************************************************************)
(* One series and one tracker, as runtime.ts brings them together: reading *)
(* writes the library, then tells the source (read-sync) and the tracker;  *)
(* the background pass pulls the source's read marks; the user collects,   *)
(* links, syncs and unlinks by hand, imports from the tracker's list, and  *)
(* edits the entry at the tracker itself.                                  *)
(*                                                                         *)
(* Calls take no lock.  A step ends where a call awaits the source or the  *)
(* tracker; what it read of the library before stays in its record.  Reads *)
(* and writes of the library between two such awaits are one step.         *)
(*                                                                         *)
(* Chapter numbers are counted in halves, so that 3 is chapter 1.5: a      *)
(* tracker keeps whole numbers (Echo).  0 stands for a number that is not  *)
(* there.  Not covered: the flag that turns a bridge's trackers off, and   *)
(* trackers that cannot be listed or cannot be written.                    *)
(***************************************************************************)
EXTENDS Integers, FiniteSets, FiniteSetsExt

CONSTANTS
  Caller,      \* calls that may run at one time
  Chapter,     \* the numbers of the series' chapters, in halves
  Finished,    \* is the series over, by its cached detail?
  Entry,       \* entries of the tracker
  Total,       \* entry -> its chapter count, 0 when it gives none
  Known,       \* the entry the series' externalIds names, or None
  Attempts,    \* PUSH_ATTEMPTS
  None,
  Budgets      \* bound: how often each kind of event happens, in each of some histories

Status == {"planning", "reading", "completed", "rereading", "dropped"}
Event == {"read", "unread", "fault", "edit", "hand", "crash"}

ASSUME TrackerAssumption ==
  /\ IsFiniteSet(Chapter) /\ Chapter \subseteq Nat \ {0}
  /\ Total \in [Entry -> Nat]
  /\ Known \in Entry \cup {None}
  /\ None \notin [n : Nat, status : Status]
  /\ None \notin [ext : Entry, mark : Nat, status : Status \cup {None}, total : Nat, done : BOOLEAN]

VARIABLES
  held,        \* is the series in the library?
  read,        \* chapters read here
  sourceRead,  \* chapters the source has as read
  link,        \* the tracker link, or None
  remote,      \* entry -> what the tracker holds of it, or None
  call,        \* caller -> what it is doing
  astray,      \* history: the tracker was set back by hand, or the link was pointed elsewhere
  outrun,      \* history: the entries whose last count pushed is less than the link, or a call that
               \* ran beside the push, takes them to have (Pushed)
  left         \* how often each kind of event may still happen

library == <<held, read, link>>
vars == <<held, read, sourceRead, link, remote, call, astray, outrun, left>>

Idle == [pc |-> "idle"]
Spend(e) == left[e] > 0 /\ left' = [left EXCEPT ![e] = @ - 1]
Goto(c, r) == call' = [call EXCEPT ![c] = r]
At(c, pc) == call[c].pc = pc
Most(S) == Max(S \cup {0})
Echo(n) == n - (n % 2)

Init ==
  /\ held \in BOOLEAN
  /\ read = {} /\ sourceRead = {} /\ link = None
  /\ remote \in [Entry -> {None, [n |-> 2, status |-> "reading"]}]
  /\ call = [c \in Caller |-> Idle]
  /\ astray = FALSE /\ outrun = {}
  /\ left \in Budgets

------------------------------------------------------------------------------
\* What to tell the tracker about link `l`, and what of it the link then keeps.  The entry's
\* count clamps the number; completion is told once.
decideTrackerPush(l, most, finishedHere) ==
  LET n == IF l.total # 0 THEN Min({most, l.total}) ELSE most
      advanced == n > l.mark
      completed == ((l.total # 0 /\ Echo(most) >= l.total) \/ finishedHere) /\ ~l.done
  IN [due    |-> advanced \/ completed,
      n      |-> IF advanced THEN n ELSE 0,
      done   |-> completed,
      status |-> CASE completed -> "completed"
                   [] ~completed /\ advanced /\ l.status = "completed" -> "rereading"
                   [] ~completed /\ advanced /\ l.status \in {None, "planning"} -> "reading"
                   [] OTHER -> None]

Untold == [due |-> FALSE, n |-> 0, done |-> FALSE, status |-> None]
isFinishedLocally == Finished /\ Chapter \subseteq read

Or(x, y) == IF x = None THEN y ELSE x

\* The link after a push of `d` was recorded on it.
Told(l, d) == [l EXCEPT !.mark = IF d.n # 0 THEN d.n ELSE @,
                        !.status = Or(d.status, @),
                        !.done = @ \/ d.done]

\* The link after what the tracker holds, `item`, and then a push were recorded; `mark` is the
\* watermark the caller read.
recordTrackerEntry(l, e, item, mark, d) ==
  Told(IF item = None THEN l
       ELSE [l EXCEPT !.status = item.status, !.mark = Max({item.n, mark}),
                      !.total = IF Total[e] # 0 THEN Total[e] ELSE @], d)

\* Library.linkTracker: the rest of a link that is there stays when it is pointed at `e`.
linkTo(e) ==
  IF link = None THEN [ext |-> e, mark |-> 0, status |-> None, total |-> 0, done |-> FALSE]
  ELSE [link EXCEPT !.ext = e]

\* What a push, or a reconcile with an entry at hand, does next.
Pushing(e, d, item, mark) ==
  [pc |-> "push", ext |-> e, d |-> d, item |-> item, mark |-> mark, tries |-> 1]

------------------------------------------------------------------------------
(* Reading *)

\* The library's write of a read, then the source's turn.
Reads(c, S) ==
  /\ At(c, "idle") /\ Spend("read")
  /\ read' = read \cup S
  /\ UNCHANGED <<held, link, sourceRead, remote, astray, outrun>>
  /\ Goto(c, [pc |-> "source", marks |-> S, on |-> TRUE])

markRead(c) == \E n \in Chapter : Reads(c, {n})
markReadUpTo(c) == \E n \in Chapter : Reads(c, {m \in Chapter : m <= n})

markUnread(c) ==
  /\ At(c, "idle") /\ Spend("unread")
  /\ \E n \in read :
       /\ read' = read \ {n}
       /\ Goto(c, [pc |-> "source", marks |-> {n}, on |-> FALSE])
  /\ UNCHANGED <<held, link, sourceRead, remote, astray, outrun>>

\* Clearing a feed row reads chapters without telling the source.
markActivityRead(c) ==
  /\ At(c, "idle") /\ held /\ Spend("read")
  /\ \E n \in Chapter : read' = read \cup {n}
  /\ Goto(c, [pc |-> "sync"])
  /\ UNCHANGED <<held, link, sourceRead, remote, astray, outrun>>

\* Each mark at the source is best effort; only reading goes on to the trackers.
pushReadUpToBridge(c) ==
  /\ At(c, "source")
  /\ \E S \in {{}, call[c].marks} :
       sourceRead' = IF call[c].on THEN sourceRead \cup S ELSE sourceRead \ S
  /\ Goto(c, IF call[c].on THEN [pc |-> "sync"] ELSE Idle)
  /\ UNCHANGED <<library, remote, astray, left, outrun>>

------------------------------------------------------------------------------
(* Telling the tracker *)

syncEntryToTrackers(c) ==
  /\ At(c, "sync")
  /\ LET d == decideTrackerPush(link, Most(read), isFinishedLocally) IN
     Goto(c, IF link # None /\ Most(read) > 0 /\ d.due
             THEN Pushing(link.ext, d, None, 0) ELSE Idle)
  /\ UNCHANGED <<library, sourceRead, remote, astray, left, outrun>>

\* The tracker takes an update: it has the entry from now on.
Takes(e, d) ==
  remote' = [remote EXCEPT ![e] =
    [n      |-> IF d.n # 0 THEN Echo(d.n) ELSE IF @ = None THEN 0 ELSE @.n,
     status |-> Or(d.status, IF @ = None THEN "reading" ELSE @.status)]]

\* History: the counts of entry `e` that the link, and the calls beside `c`, go by.  A push of less sets
\* back what they know; the next one that they do not go beyond makes up for it.
CountOf(item) == IF item = None THEN 0 ELSE item.n
CountsOf(o, e) ==
  CASE o.pc = "lookup" /\ o.link.ext = e -> {o.link.mark}
    [] o.pc \in {"preview", "collect", "imported"} /\ o.ext = e -> {o.item.n}
    [] o.pc \in {"push", "record"} /\ o.ext = e ->
         {CountOf(o.item), o.mark} \cup (IF o.pc = "record" THEN {o.d.n} ELSE {})
    [] OTHER -> {}
Counted(c, e) == (IF link # None /\ link.ext = e THEN {link.mark} ELSE {})
                 \cup UNION {CountsOf(call[b], e) : b \in Caller \ {c}}
Pushed(c, e, d) ==
  /\ Takes(e, d)
  /\ outrun' = IF d.n = 0 THEN outrun
               ELSE IF \E n \in Counted(c, e) : n > d.n THEN outrun \cup {e} ELSE outrun \ {e}

\* Mutant: a push given up on is recorded all the same.
RecordsWhatFailed(c) ==
  /\ At(c, "push")
  /\ \/ Pushed(c, call[c].ext, call[c].d) /\ UNCHANGED left
     \/ UNCHANGED <<remote, outrun>> /\ Spend("fault")
  /\ Goto(c, [call[c] EXCEPT !.pc = "record"])
  /\ UNCHANGED <<library, sourceRead, astray>>

\* One attempt: it is answered; or it fails, before or after the tracker took it, and is tried
\* again unless it cannot help or was the last.
pushToTracker(c) ==
  /\ At(c, "push")
  /\ LET o == call[c] IN
     \/ /\ Pushed(c, o.ext, o.d)
        /\ Goto(c, [o EXCEPT !.pc = "record"])
        /\ UNCHANGED left
     \/ /\ Pushed(c, o.ext, o.d) \/ UNCHANGED <<remote, outrun>>
        /\ Spend("fault")
        /\ \/ o.tries < Attempts /\ Goto(c, [o EXCEPT !.tries = @ + 1])
           \/ Goto(c, Idle)
  /\ UNCHANGED <<library, sourceRead, astray>>

\* updateTrackerLink writes onto whatever link is there now, of whichever entry, or fails when there is none.
updateTrackerLink(c) ==
  /\ At(c, "record")
  /\ LET o == call[c] IN
     link' = IF link = None THEN None
             ELSE recordTrackerEntry(link, o.ext, o.item, o.mark, o.d)
  /\ astray' = (astray \/ (link # None /\ link.ext # call[c].ext))
  /\ Goto(c, Idle)
  /\ UNCHANGED <<held, read, sourceRead, remote, outrun, left>>

\* Reconcile link `l` with what the tracker holds: push when the library leads, else record.
syncLinkWithEntry(l, item) ==
  LET eff == [l EXCEPT !.status = IF item = None THEN @ ELSE item.status,
                       !.total = IF item # None /\ Total[l.ext] # 0 THEN Total[l.ext] ELSE @,
                       !.mark = IF item = None THEN @ ELSE Max({@, item.n})]
      d == decideTrackerPush(eff, Most(read), isFinishedLocally)
  IN IF d.due THEN Pushing(l.ext, d, item, l.mark)
     ELSE [Pushing(l.ext, Untold, item, l.mark) EXCEPT !.pc = "record"]

\* Sync by hand: the link is read, then the tracker's list is walked for its entry.
syncEntryWithTracker(c) ==
  /\ At(c, "idle") /\ link # None /\ Spend("hand")
  /\ Goto(c, [pc |-> "lookup", link |-> link])
  /\ UNCHANGED <<library, sourceRead, remote, astray, outrun>>

LookUp(c) ==
  /\ At(c, "lookup")
  /\ \/ /\ Goto(c, syncLinkWithEntry(call[c].link, remote[call[c].link.ext]))
        /\ UNCHANGED left
     \/ Spend("fault") /\ Goto(c, Idle)
  /\ UNCHANGED <<library, sourceRead, remote, astray, outrun>>

linkTracker(c) ==
  /\ At(c, "idle") /\ held /\ Spend("hand")
  /\ \E e \in Entry :
       /\ link' = linkTo(e)
       /\ astray' = (astray \/ (link # None /\ link.ext # e))
       /\ Goto(c, [pc |-> "lookup", link |-> linkTo(e)])
  /\ UNCHANGED <<held, read, sourceRead, remote, outrun>>

unlinkTracker ==
  /\ link # None /\ Spend("hand")
  /\ link' = None
  /\ UNCHANGED <<held, read, sourceRead, remote, call, astray, outrun>>

\* Library.removeSeries: progress and links survive it.
removeSeries ==
  /\ held /\ Spend("hand")
  /\ held' = FALSE
  /\ UNCHANGED <<read, link, sourceRead, remote, call, astray, outrun>>

------------------------------------------------------------------------------
(* Importing one entry: the list is shown, and what it said is imported when confirmed *)

\* Any listed entry may be picked for the series: one the preview matched with it, or one the user
\* found the series for by a search.
previewTrackerImport(c) ==
  /\ At(c, "idle") /\ Spend("hand")
  /\ \E e \in Entry :
       /\ remote[e] # None
       /\ Goto(c, [pc |-> "preview", ext |-> e, item |-> remote[e]])
  /\ UNCHANGED <<library, sourceRead, remote, astray, outrun>>

\* Is the link's watermark now that of another entry?
Repointed == link' # None /\ link # None /\ link'.ext # link.ext

\* A series the library has is linked and reconciled; one it does not have is collected first.  Or
\* the user drops the list.
importTrackerEntries(c) ==
  /\ At(c, "preview")
  /\ LET e == call[c].ext
         l == linkTo(e)
     IN \/ held /\ link' = l /\ Goto(c, syncLinkWithEntry(l, call[c].item))
        \/ ~held /\ Goto(c, [call[c] EXCEPT !.pc = "collect"]) /\ UNCHANGED link
        \/ Goto(c, Idle) /\ UNCHANGED link
  /\ astray' = (astray \/ Repointed)
  /\ UNCHANGED <<held, read, sourceRead, remote, left, outrun>>

\* The source's detail came, or none did: the series is collected, and its chapters are asked for.
\* A bridge that does not load fails the import.
collectForImport(c) ==
  /\ At(c, "collect")
  /\ \/ held' = TRUE /\ Goto(c, [call[c] EXCEPT !.pc = "imported"]) /\ UNCHANGED left
     \/ Spend("fault") /\ Goto(c, Idle) /\ UNCHANGED held
  /\ UNCHANGED <<read, link, sourceRead, remote, astray, outrun>>

\* The link takes the tracker's state, and its chapters are read up to there when the user wants
\* that.  A series that was removed meanwhile cannot be linked.
seedImported(c) ==
  /\ At(c, "imported")
  /\ LET e == call[c].ext
         l == linkTo(e)
         item == call[c].item
     IN IF held
        THEN /\ link' = recordTrackerEntry(l, e, item, l.mark, Untold)
             /\ \/ read' = read \cup {n \in Chapter : n <= item.n}
                \/ UNCHANGED read
        ELSE UNCHANGED <<link, read>>
  /\ Goto(c, Idle)
  /\ astray' = (astray \/ Repointed)
  /\ UNCHANGED <<held, sourceRead, remote, left, outrun>>

------------------------------------------------------------------------------
(* Collecting the series *)

\* It may be there already.  Its detail and chapters are then asked for, as far as they answer.
collectSeries(c) ==
  /\ At(c, "idle") /\ Spend("hand")
  /\ held' = TRUE
  /\ Goto(c, [pc |-> "capture"])
  /\ UNCHANGED <<read, link, sourceRead, remote, astray, outrun>>

\* When the caller or the detail gave the series' ids, it is linked to the entry they name, whatever
\* it was linked to before.
autoLink(c) ==
  /\ At(c, "capture")
  /\ \/ link' = IF held /\ Known # None THEN linkTo(Known) ELSE link
     \/ UNCHANGED link
  /\ Goto(c, Idle)
  /\ astray' = (astray \/ Repointed)
  /\ UNCHANGED <<held, read, sourceRead, remote, left, outrun>>

------------------------------------------------------------------------------
(* The background pass over this series *)

relinkEntry(c) ==
  /\ At(c, "idle") /\ held
  /\ link' = IF link = None /\ Known # None THEN linkTo(Known) ELSE link
  /\ Goto(c, [pc |-> "pull"])
  /\ UNCHANGED <<held, read, sourceRead, remote, astray, left, outrun>>

\* Mutant: the background pass ends with the source's marks.
PullsOnly(c) ==
  /\ At(c, "pull")
  /\ read' = read \cup sourceRead
  /\ Goto(c, Idle)
  /\ UNCHANGED <<held, link, sourceRead, remote, astray, left, outrun>>

\* The source's read marks are joined to the library's.
reconcileRead(c) ==
  /\ At(c, "pull")
  /\ \/ /\ read' = read \cup sourceRead
        /\ Goto(c, [pc |-> "sync"])
        /\ UNCHANGED left
     \/ Spend("fault") /\ Goto(c, Idle) /\ UNCHANGED read
  /\ UNCHANGED <<held, link, sourceRead, remote, astray, outrun>>

------------------------------------------------------------------------------
(* Around the calls *)

\* The user changes the entry at the tracker.
EditRemote ==
  /\ Spend("edit")
  /\ \E e \in Entry, n \in {0, 2, 4}, s \in {"reading", "dropped"} :
       /\ remote' = [remote EXCEPT ![e] = [n |-> n, status |-> s]]
       /\ astray' = (astray \/ (remote[e] # None /\ n < remote[e].n))
  /\ UNCHANGED <<library, sourceRead, call, outrun>>

\* The process stops: links and progress are on disk, calls are not.
Stop ==
  /\ \E c \in Caller : ~At(c, "idle")
  /\ Spend("crash")
  /\ call' = [c \in Caller |-> Idle]
  /\ UNCHANGED <<library, sourceRead, remote, astray, outrun>>

Steps(c) ==
  \/ pushReadUpToBridge(c) \/ syncEntryToTrackers(c) \/ pushToTracker(c)
  \/ updateTrackerLink(c) \/ LookUp(c) \/ importTrackerEntries(c) \/ collectForImport(c)
  \/ seedImported(c) \/ autoLink(c) \/ reconcileRead(c)

Next ==
  \/ \E c \in Caller :
       \/ markRead(c) \/ markReadUpTo(c) \/ markUnread(c) \/ markActivityRead(c)
       \/ syncEntryWithTracker(c) \/ linkTracker(c) \/ previewTrackerImport(c) \/ collectSeries(c)
       \/ relinkEntry(c) \/ Steps(c)
  \/ unlinkTracker \/ removeSeries \/ EditRemote \/ Stop

Spec == Init /\ [][Next]_vars
\* A call goes on, and the background pass comes round again.
FairSpec == Spec /\ \A c \in Caller : WF_vars(Steps(c)) /\ WF_vars(relinkEntry(c))

------------------------------------------------------------------------------
LinkRow == [ext : Entry, mark : {0} \cup Chapter \cup {2, 4, 6}, status : Status \cup {None},
            total : {Total[e] : e \in Entry} \cup {0}, done : BOOLEAN]

\* The library's and the tracker's rows are rows.
TypeOK ==
  /\ held \in BOOLEAN /\ astray \in BOOLEAN
  /\ read \subseteq Chapter /\ sourceRead \subseteq Chapter
  /\ link \in LinkRow \cup {None}
  /\ \A e \in Entry : remote[e] # None => remote[e].n \in Nat /\ remote[e].status \in Status

\* The watermark is what the tracker is known to hold: with no call under way, however many ran side by
\* side, failed or were cut off, the tracker holds at least the whole chapters of it.  If it did not,
\* nothing would push again, and a sync by hand would report the two in step.  Excepted are what was set
\* back by hand, and pushes that overlap and land in the other order (outrun).
AtRest == (\A c \in Caller : At(c, "idle")) /\ link # None /\ link.mark > 0 /\ ~astray
MarkIsHeld == remote[link.ext] # None /\ remote[link.ext].n >= Echo(link.mark)
WatermarkReached == AtRest /\ link.ext \notin outrun => MarkIsHeld

\* runtime.ts:1345: "The watermark records what we know reached the tracker".
WatermarkIsKnown == AtRest => MarkIsHeld

\* However pushes fail and whenever the process stops, the tracker ends up holding what was read
\* here, as far as it counts.
TrackerCatchesUp ==
  <>[](link # None /\ held /\ ~astray /\ link.ext \notin outrun /\ read # {} =>
         /\ remote[link.ext] # None
         /\ remote[link.ext].n >= Echo(IF link.total = 0 THEN Most(read)
                                       ELSE Min({Most(read), link.total})))
=============================================================================
