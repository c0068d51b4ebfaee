--------------------------- MODULE Trackers_proofs ---------------------------
(***************************************************************************)
(* Proofs about the two halves of a tracker.                               *)
(*                                                                         *)
(* TrackerSync: the tracker holds what the watermark says                  *)
(* (WatermarkReached), for any chapters and entries and any number of      *)
(* calls, faults, edits and stops, however the calls overlap.              *)
(*                                                                         *)
(* TrackerTokens: a tracker's login is kept (LoginKept), for any users and *)
(* any number of expiries, logins, lost answers and restarts, on either    *)
(* side, however calls, loads, renewals, logins and drops overlap.         *)
(***************************************************************************)
EXTENDS TrackerSync, TrackerTokens, SequenceTheorems, FiniteSetTheorems, WellFoundedInduction, TLAPS

-----------------------------------------------------------------------------
(* The watermark: the invariant.  A number that the link, or a call under  *)
(* way, goes by for an entry (CountsOf) was held by the tracker when it    *)
(* was read, and still is: a push that lands on less than another one goes *)
(* by puts the entry into outrun, and an edit that sets it back is in      *)
(* astray.  What a call is about to push is more than it goes by itself.   *)

Item == [n : Nat, status : Status]
Link == [ext : Entry, mark : Nat, status : Status \cup {None}, total : Nat, done : BOOLEAN]
Decision == [due : BOOLEAN, n : Nat, done : BOOLEAN, status : Status \cup {None}]
Push == [pc : {"push", "record"}, ext : Entry, d : Decision, item : Item \cup {None}, mark : Nat, tries : Nat]
Import == [pc : {"preview", "collect", "imported"}, ext : Entry, item : Item]
Marks == [pc : {"source"}, marks : SUBSET Chapter, on : BOOLEAN]
Lookup == [pc : {"lookup"}, link : Link]
Pause == [pc : {"idle", "sync", "capture", "pull"}]
Calls == Push \cup Import \cup Marks \cup Lookup \cup Pause

SyncTypes ==
  /\ astray \in BOOLEAN
  /\ read \subseteq Chapter /\ sourceRead \subseteq Chapter
  /\ link \in Link \cup {None}
  /\ remote \in [Entry -> Item \cup {None}]
  /\ call \in [Caller -> Calls]

\* Entry `e` holds at least the whole chapters of `n`.
Holds(e, n) == remote[e] # None /\ remote[e].n >= Echo(n)

Beyond(o) ==
  o.pc \in {"push", "record"} /\ o.d.n # 0 => o.d.n > CountOf(o.item) /\ o.d.n > o.mark
Backed(o) == \A e \in Entry \ outrun : \A n \in CountsOf(o, e) : n > 0 => Holds(e, n)
LinkOK == link # None /\ link.mark > 0 /\ link.ext \notin outrun => Holds(link.ext, link.mark)

SyncInv ==
  /\ SyncTypes
  /\ \A c \in Caller : Beyond(call[c])
  /\ astray \/ (LinkOK /\ \A c \in Caller : Backed(call[c]))

-----------------------------------------------------------------------------
(* Numbers *)

\* A finite set of numbers has a greatest: a least set without one would have it with one element less.
LEMMA GreatestIs ==
  ASSUME NEW C \in SUBSET Nat, IsFiniteSet(C), C # {}
  PROVE  Max(C) \in C
<1> DEFINE Tops(T) == {x \in T : \A y \in T : x >= y}
           Without == {T \in SUBSET C : T # {} /\ Tops(T) = {}}
<1> SUFFICES ASSUME Without # {} PROVE FALSE
  <2>1. C \notin Without => \E x \in C : \A y \in C : x >= y
    OBVIOUS
  <2> QED
    BY <2>1 DEF Max
<1>1. IsWellFoundedOn(StrictSubsetOrdering(C), SUBSET C)
  BY FS_StrictSubsetOrderingWellFounded, FS_FiniteSubsetsOfFinite
<1>2. PICK T \in Without : \A U \in Without : ~(<<U, T>> \in StrictSubsetOrdering(C))
  <2> HIDE DEF Without
  <2>1. Without \subseteq SUBSET C
    BY DEF Without
  <2> QED
    BY <1>1, <2>1, WFMin
<1>3. PICK x \in T : TRUE
  OBVIOUS
<1>4. T \ {x} \notin Without
  BY <1>2, <1>3, ZenonT(60) DEF StrictSubsetOrdering
<1>5. CASE T \ {x} = {}
  BY <1>3, <1>5
<1>6. CASE \E z \in T \ {x} : \A y \in T \ {x} : z >= y
  <2>1. PICK z \in T \ {x} : \A y \in T \ {x} : z >= y
    BY <1>6
  <2>2. x \in Nat /\ z \in Nat /\ \A y \in T : y \in Nat
    BY <1>3, <2>1
  <2>3. CASE z >= x
    BY <2>1, <2>2, <2>3
  <2>4. CASE x >= z
    <3>1. \A y \in T : x >= y
      BY <2>1, <2>2, <2>4
    <3> QED
      BY <3>1, <1>3
  <2> QED
    BY <2>2, <2>3, <2>4
<1> QED
  BY <1>4, <1>5, <1>6

LEMMA MostIsNat ==
  ASSUME NEW S \in SUBSET Chapter
  PROVE  Most(S) \in Nat
<1>1. S \cup {0} \in SUBSET Nat /\ S \cup {0} # {}
  BY TrackerAssumption
<1>2. IsFiniteSet(S \cup {0})
  BY TrackerAssumption, FS_Subset, FS_AddElement
<1> QED
  BY <1>1, <1>2, GreatestIs DEF Most

LEMMA OfTwo ==
  ASSUME NEW m \in Nat, NEW n \in Nat
  PROVE  /\ Min({m, n}) \in Nat
         /\ Max({m, n}) = IF m > n THEN m ELSE n
<1>1. \A x \in {m, n} : (\A y \in {m, n} : x <= y) => x \in Nat
  OBVIOUS
<1>2. \E x \in {m, n} : \A y \in {m, n} : x <= y
  OBVIOUS
<1>3. \E x \in {m, n} : \A y \in {m, n} : x >= y
  OBVIOUS
<1>4. Min({m, n}) \in {m, n}
  BY <1>2 DEF Min
<1>5. Max({m, n}) \in {m, n} /\ \A y \in {m, n} : Max({m, n}) >= y
  BY <1>3 DEF Max
<1> QED
  BY <1>4, <1>5

LEMMA EchoGrows ==
  ASSUME NEW m \in Nat, NEW n \in Nat, m <= n
  PROVE  Echo(m) \in Nat /\ Echo(n) \in Nat /\ Echo(m) <= Echo(n)
  BY DEF Echo

\* What is pushed is more than the link says.
LEMMA Decided ==
  ASSUME NEW l \in Link, NEW most \in Nat, NEW over
  PROVE  /\ decideTrackerPush(l, most, over) \in Decision
         /\ decideTrackerPush(l, most, over).n # 0 => decideTrackerPush(l, most, over).n > l.mark
<1> DEFINE n == IF l.total # 0 THEN Min({most, l.total}) ELSE most
           d == decideTrackerPush(l, most, over)
<1>1. l.total \in Nat /\ l.mark \in Nat /\ l.done \in BOOLEAN
  BY DEF Link
<1>2. n \in Nat
  BY <1>1, OfTwo
<1>3. d.n = (IF n > l.mark THEN n ELSE 0) /\ d.n \in Nat
  BY <1>2 DEF decideTrackerPush
<1>4. d.status \in Status \cup {None}
  BY DEF decideTrackerPush, Status
<1>5. d.done \in BOOLEAN /\ d.due \in BOOLEAN
  BY DEF decideTrackerPush
<1>6. d = [due |-> d.due, n |-> d.n, done |-> d.done, status |-> d.status]
  BY DEF decideTrackerPush
<1> QED
  BY <1>3, <1>4, <1>5, <1>6 DEF Decision

LEMMA LinkedIs ==
  ASSUME link \in Link \cup {None}, NEW e \in Entry
  PROVE  /\ linkTo(e) \in Link /\ linkTo(e).ext = e
         /\ linkTo(e).mark = IF link = None THEN 0 ELSE link.mark
  BY DEF linkTo, Link

LEMMA Recorded ==
  ASSUME NEW l \in Link, NEW e \in Entry, NEW item \in Item \cup {None}, NEW mark \in Nat, NEW d \in Decision
  PROVE  /\ recordTrackerEntry(l, e, item, mark, d) \in Link
         /\ recordTrackerEntry(l, e, item, mark, d).ext = l.ext
         /\ d.n # 0 => recordTrackerEntry(l, e, item, mark, d).mark = d.n
         /\ d.n = 0 /\ item = None => recordTrackerEntry(l, e, item, mark, d).mark = l.mark
         /\ d.n = 0 /\ item # None => recordTrackerEntry(l, e, item, mark, d).mark \in {item.n, mark}
<1> DEFINE seen == IF item = None THEN l
                   ELSE [l EXCEPT !.status = item.status, !.mark = Max({item.n, mark}),
                                  !.total = IF Total[e] # 0 THEN Total[e] ELSE @]
<1>1. d.n \in Nat /\ d.status \in Status \cup {None} /\ d.done \in BOOLEAN
  BY DEF Decision
<1>2. item # None => /\ item.n \in Nat /\ item.status \in Status
                     /\ Max({item.n, mark}) = (IF item.n > mark THEN item.n ELSE mark)
  BY OfTwo DEF Item
<1>3. Total[e] \in Nat
  BY TrackerAssumption
<1>4. /\ seen \in Link /\ seen.ext = l.ext
      /\ seen.mark = IF item = None THEN l.mark ELSE IF item.n > mark THEN item.n ELSE mark
  BY <1>2, <1>3 DEF Link
<1>5. recordTrackerEntry(l, e, item, mark, d) = Told(seen, d)
  BY DEF recordTrackerEntry
<1> HIDE DEF seen
<1>6. /\ Told(seen, d) \in Link /\ Told(seen, d).ext = seen.ext
      /\ Told(seen, d).mark = IF d.n # 0 THEN d.n ELSE seen.mark
  BY <1>1, <1>4 DEF Told, Or, Link
<1> QED
  BY <1>4, <1>5, <1>6

\* What a reconcile does next: it pushes what is more than both sides have, or records.
LEMMA Reconciled ==
  ASSUME read \subseteq Chapter, NEW l \in Link, NEW item \in Item \cup {None}
  PROVE  LET o == syncLinkWithEntry(l, item) IN
         /\ o \in Push /\ o.ext = l.ext /\ o.item = item /\ o.mark = l.mark
         /\ o.d.n # 0 => o.d.n > l.mark /\ (item # None => o.d.n > item.n)
         /\ o.pc = "record" => o.d.n = 0
<1> DEFINE eff == [l EXCEPT !.status = IF item = None THEN @ ELSE item.status,
                            !.total = IF item # None /\ Total[l.ext] # 0 THEN Total[l.ext] ELSE @,
                            !.mark = IF item = None THEN @ ELSE Max({@, item.n})]
           d == decideTrackerPush(eff, Most(read), isFinishedLocally)
<1>1. l.ext \in Entry /\ l.mark \in Nat /\ Total[l.ext] \in Nat
  BY TrackerAssumption DEF Link
<1>2. item # None => /\ item.n \in Nat /\ item.status \in Status
                     /\ Max({l.mark, item.n}) = (IF l.mark > item.n THEN l.mark ELSE item.n)
  BY <1>1, OfTwo DEF Item
<1>3. eff \in Link /\ eff.mark \in Nat /\ eff.mark >= l.mark /\ (item # None => eff.mark >= item.n)
  <2>1. CASE item = None
    <3>1. eff = [l EXCEPT !.status = l.status, !.total = l.total, !.mark = l.mark]
      BY <2>1 DEF Link
    <3>2. l.status \in Status \cup {None} /\ l.total \in Nat
      BY DEF Link
    <3> HIDE DEF eff
    <3>3. eff \in Link /\ eff.mark = l.mark
      BY <1>1, <3>1, <3>2 DEF Link
    <3> QED
      BY <1>1, <2>1, <3>3
  <2>2. CASE item # None
    <3> DEFINE total == IF Total[l.ext] # 0 THEN Total[l.ext] ELSE l.total
               mark == IF l.mark > item.n THEN l.mark ELSE item.n
    <3>1. total \in Nat /\ mark \in Nat /\ mark >= l.mark /\ mark >= item.n
      BY <1>1, <1>2, <2>2 DEF Link
    <3>2. eff = [l EXCEPT !.status = item.status, !.total = total, !.mark = mark]
      BY <1>2, <2>2
    <3> HIDE DEF total, mark, eff
    <3> QED
      BY <1>2, <2>2, <3>1, <3>2 DEF Link
  <2> QED
    BY <2>1, <2>2
<1>4. d \in Decision /\ (d.n # 0 => d.n > eff.mark)
  <2> HIDE DEF eff
  <2> QED
    BY <1>3, Decided, MostIsNat
<1>5. syncLinkWithEntry(l, item) = IF d.due THEN Pushing(l.ext, d, item, l.mark)
                                   ELSE [Pushing(l.ext, Untold, item, l.mark) EXCEPT !.pc = "record"]
  BY DEF syncLinkWithEntry
<1> HIDE DEF d
<1>6. d.n \in Nat
  BY <1>4 DEF Decision
<1>7. CASE d.due
  <2>1. syncLinkWithEntry(l, item) = [pc |-> "push", ext |-> l.ext, d |-> d, item |-> item,
                                      mark |-> l.mark, tries |-> 1]
    BY <1>5, <1>7 DEF Pushing
  <2> HIDE DEF eff
  <2>2. d.n # 0 => d.n > l.mark /\ (item # None => d.n > item.n)
    BY <1>1, <1>2, <1>3, <1>4, <1>6
  <2> QED
    BY <1>1, <1>4, <2>1, <2>2 DEF Push
<1>8. CASE ~d.due
  <2>1. syncLinkWithEntry(l, item) =
          [pc |-> "record", ext |-> l.ext, d |-> Untold, item |-> item, mark |-> l.mark, tries |-> 1]
    BY <1>5, <1>8 DEF Pushing
  <2>2. Untold \in Decision /\ Untold.n = 0
    BY DEF Untold, Decision
  <2> QED
    BY <1>1, <2>1, <2>2 DEF Push
<1> QED
  BY <1>7, <1>8

-----------------------------------------------------------------------------
(* The numbers a call goes by *)

LEMMA CountsAre ==
  ASSUME NEW o \in Calls, NEW e \in Entry
  PROVE  /\ CountsOf(o, e) \subseteq Nat
         /\ o \in Pause \cup Marks => CountsOf(o, e) = {}
         /\ o \in Lookup => CountsOf(o, e) = IF o.link.ext = e THEN {o.link.mark} ELSE {}
         /\ o \in Import => CountsOf(o, e) = IF o.ext = e THEN {o.item.n} ELSE {}
         /\ o \in Push => CountsOf(o, e) = IF o.ext = e
                                           THEN {CountOf(o.item), o.mark} \cup
                                                (IF o.pc = "record" THEN {o.d.n} ELSE {})
                                           ELSE {}
<1>1. CASE o \in Pause \cup Marks
  <2>1. o.pc \in {"idle", "sync", "capture", "pull", "source"}
    BY <1>1 DEF Pause, Marks
  <2> QED
    BY <1>1, <2>1 DEF CountsOf, Push, Import, Lookup
<1>2. CASE o \in Lookup
  <2>1. o.pc = "lookup" /\ o.link.mark \in Nat
    BY <1>2 DEF Lookup, Link
  <2> QED
    BY <1>2, <2>1 DEF CountsOf, Push, Import, Pause, Marks
<1>3. CASE o \in Import
  <2>1. o.pc \in {"preview", "collect", "imported"} /\ o.item.n \in Nat
    BY <1>3 DEF Import, Item
  <2> QED
    BY <1>3, <2>1 DEF CountsOf, Push, Lookup, Pause, Marks
<1>4. CASE o \in Push
  <2>1. /\ o.pc \in {"push", "record"} /\ o.mark \in Nat /\ o.d.n \in Nat /\ CountOf(o.item) \in Nat
    BY <1>4 DEF Push, CountOf, Item, Decision
  <2> QED
    BY <1>4, <2>1 DEF CountsOf, Import, Lookup, Pause, Marks
<1> QED
  BY <1>1, <1>2, <1>3, <1>4 DEF Calls

LEMMA CallAt ==
  ASSUME SyncTypes, NEW c \in Caller
  PROVE  /\ call[c] \in Calls
         /\ call[c].pc \in {"push", "record"} => call[c] \in Push
         /\ call[c].pc \in {"preview", "collect", "imported"} => call[c] \in Import
         /\ call[c].pc = "lookup" => call[c] \in Lookup
<1>1. call[c] \in Calls
  BY DEF SyncTypes
<1> QED
  BY <1>1 DEF Calls, Push, Import, Marks, Lookup, Pause

\* A step that leaves the tracker alone: the call goes on with numbers that are held, and so does the link.
LEMMA Goes ==
  ASSUME SyncInv, NEW c \in Caller, NEW r \in Calls, Goto(c, r),
         UNCHANGED <<remote, outrun>>, read' \subseteq Chapter, sourceRead' \subseteq Chapter,
         link' \in Link \cup {None}, astray' \in BOOLEAN, Beyond(r),
         ~astray' => ~astray /\ LinkOK' /\ Backed(r)
  PROVE  SyncInv'
<1>1. call' \in [Caller -> Calls] /\ call'[c] = r /\ \A b \in Caller \ {c} : call'[b] = call[b]
  BY DEF SyncInv, SyncTypes, Goto
<1>2. ASSUME NEW b \in Caller PROVE Beyond(call[b])' /\ (~astray' => Backed(call[b])')
  <2>1. PICK o : o = call'[b]
    OBVIOUS
  <2>2. Beyond(o) /\ (~astray' => Backed(o))
    BY <1>1, <2>1 DEF SyncInv
  <2>3. Backed(o) => Backed(o)'
    BY DEF Backed, Holds
  <2> QED
    BY <2>1, <2>2, <2>3 DEF Backed, Beyond
<1> QED
  BY <1>1, <1>2 DEF SyncInv, SyncTypes

\* A call that has nothing to say of link and tracker.
LEMMA GoesQuietly ==
  ASSUME SyncInv, NEW c \in Caller, NEW r \in Marks \cup Pause, Goto(c, r),
         UNCHANGED <<link, remote, astray, outrun>>, read' \subseteq Chapter, sourceRead' \subseteq Chapter
  PROVE  SyncInv'
<1>1. r \in Calls /\ Beyond(r)
  BY DEF Calls, Beyond, Marks, Pause
<1>2. Backed(r)
  BY <1>1, CountsAre DEF Backed
<1>3. /\ link' \in Link \cup {None} /\ astray' \in BOOLEAN
      /\ ~astray' => ~astray /\ LinkOK'
  BY DEF SyncInv, SyncTypes, LinkOK, Holds
<1> QED
  BY <1>1, <1>2, <1>3, Goes

\* A link that is pointed at an entry keeps its watermark, or begins at nothing.
LEMMA LinkMoves ==
  ASSUME SyncInv, NEW e \in Entry, link' = linkTo(e), UNCHANGED <<remote, outrun>>,
         astray' = (astray \/ (link # None /\ link.ext # e))
  PROVE  /\ link' \in Link /\ link'.ext = e /\ astray' \in BOOLEAN
         /\ ~astray' => ~astray /\ LinkOK'
<1>1. /\ link' \in Link /\ link'.ext = e
      /\ link'.mark = IF link = None THEN 0 ELSE link.mark
  BY LinkedIs DEF SyncInv, SyncTypes
<1>2. astray' \in BOOLEAN /\ (~astray' => ~astray /\ (link # None => link.ext = e))
  BY DEF SyncInv, SyncTypes
<1>3. ~astray' => LinkOK'
  BY <1>1, <1>2 DEF SyncInv, LinkOK, Holds
<1> QED
  BY <1>1, <1>2, <1>3

LEMMA RepointedIs ==
  ASSUME SyncTypes, NEW e \in Entry, link' = linkTo(e)
  PROVE  Repointed <=> (link # None /\ link.ext # e)
<1>1. link' \in Link /\ link'.ext = e
  BY LinkedIs DEF SyncTypes
<1>2. link' # None
  BY <1>1, TrackerAssumption DEF Link
<1> QED
  BY <1>1, <1>2 DEF Repointed

-----------------------------------------------------------------------------
(* Each action keeps the invariant *)

LEMMA ReadingKeeps ==
  ASSUME SyncInv, NEW c \in Caller,
         \/ markRead(c) \/ markReadUpTo(c) \/ markUnread(c) \/ markActivityRead(c)
         \/ pushReadUpToBridge(c) \/ reconcileRead(c)
  PROVE  SyncInv'
<1>1. read \subseteq Chapter /\ sourceRead \subseteq Chapter /\ call[c] \in Calls
  BY DEF SyncInv, SyncTypes
<1>2. CASE markRead(c) \/ markReadUpTo(c)
  <2>1. PICK S \in SUBSET Chapter : Reads(c, S)
    BY <1>2 DEF markRead, markReadUpTo
  <2>2. [pc |-> "source", marks |-> S, on |-> TRUE] \in Marks \cup Pause
    BY DEF Marks
  <2> QED
    BY <1>1, <2>1, <2>2, GoesQuietly DEF Reads
<1>3. CASE markUnread(c)
  <2>1. PICK n \in read : read' = read \ {n} /\ Goto(c, [pc |-> "source", marks |-> {n}, on |-> FALSE])
    BY <1>3 DEF markUnread
  <2>2. [pc |-> "source", marks |-> {n}, on |-> FALSE] \in Marks \cup Pause
    BY <1>1 DEF Marks
  <2>3. read' \subseteq Chapter /\ sourceRead' \subseteq Chapter /\ UNCHANGED <<link, remote, astray, outrun>>
    BY <1>1, <1>3, <2>1 DEF markUnread
  <2> QED
    BY <2>1, <2>2, <2>3, GoesQuietly
<1>4. CASE markActivityRead(c)
  <2>1. [pc |-> "sync"] \in Marks \cup Pause
    BY DEF Pause
  <2>2. read' \subseteq Chapter /\ sourceRead' \subseteq Chapter /\ UNCHANGED <<link, remote, astray, outrun>>
    BY <1>1, <1>4 DEF markActivityRead
  <2> QED
    BY <1>4, <2>1, <2>2, GoesQuietly DEF markActivityRead
<1>5. CASE pushReadUpToBridge(c)
  <2>1. call[c].marks \subseteq Chapter
    BY <1>1, <1>5 DEF pushReadUpToBridge, At, Calls, Push, Import, Marks, Lookup, Pause
  <2>2. PICK r \in {[pc |-> "sync"], Idle} : Goto(c, r)
    BY <1>5 DEF pushReadUpToBridge
  <2>3. r \in Marks \cup Pause
    BY DEF Pause, Idle
  <2>4. read' \subseteq Chapter /\ sourceRead' \subseteq Chapter /\ UNCHANGED <<link, remote, astray, outrun>>
    BY <1>1, <1>5, <2>1 DEF pushReadUpToBridge, library
  <2> QED
    BY <2>2, <2>3, <2>4, GoesQuietly
<1>6. CASE reconcileRead(c)
  <2>1. PICK r \in {[pc |-> "sync"], Idle} : Goto(c, r)
    BY <1>6 DEF reconcileRead
  <2>2. r \in Marks \cup Pause
    BY DEF Pause, Idle
  <2>3. read' \subseteq Chapter /\ sourceRead' \subseteq Chapter /\ UNCHANGED <<link, remote, astray, outrun>>
    BY <1>1, <1>6 DEF reconcileRead
  <2> QED
    BY <2>1, <2>2, <2>3, GoesQuietly
<1> QED
  BY <1>2, <1>3, <1>4, <1>5, <1>6

\* A call that waits for the tracker is told no more than what is known of the link it goes by.
LEMMA SyncEntryKeeps ==
  ASSUME SyncInv, NEW c \in Caller, syncEntryToTrackers(c)
  PROVE  SyncInv'
<1> DEFINE d == decideTrackerPush(link, Most(read), isFinishedLocally)
           r == Pushing(link.ext, d, None, 0)
<1>1. /\ UNCHANGED <<link, remote, astray, outrun, read, sourceRead>>
      /\ read \subseteq Chapter /\ sourceRead \subseteq Chapter
  BY DEF syncEntryToTrackers, library, SyncInv, SyncTypes
<1>2. CASE Goto(c, Idle)
  <2>1. Idle \in Marks \cup Pause
    BY DEF Pause, Idle
  <2> QED
    BY <1>1, <1>2, <2>1, GoesQuietly
<1>3. CASE link # None /\ Goto(c, r)
  <2>1. link \in Link
    BY <1>3 DEF SyncInv, SyncTypes
  <2>2. d \in Decision
    BY <1>1, <2>1, Decided, MostIsNat
  <2> HIDE DEF d
  <2>3. r = [pc |-> "push", ext |-> link.ext, d |-> d, item |-> None, mark |-> 0, tries |-> 1]
    BY DEF Pushing
  <2>4. r \in Push
    BY <2>1, <2>2, <2>3 DEF Push, Link
  <2> HIDE DEF r
  <2>5. PICK o \in Push : o = r
    BY <2>4
  <2>6. o.pc = "push" /\ o.item = None /\ o.mark = 0 /\ o.d.n \in Nat /\ o \in Calls
    BY <2>2, <2>3, <2>5 DEF Decision, Calls
  <2>7. Beyond(o) /\ Backed(o)
    <3>1. \A e \in Entry : CountsOf(o, e) \subseteq {0}
      BY <2>6, CountsAre DEF CountOf
    <3>2. \A e \in Entry : \A n \in CountsOf(o, e) : ~(n > 0)
      BY <3>1
    <3> QED
      BY <2>6, <3>2 DEF Beyond, Backed, CountOf
  <2>8. link' \in Link \cup {None} /\ astray' \in BOOLEAN /\ (~astray' => ~astray /\ LinkOK')
    BY <1>1 DEF SyncInv, SyncTypes, LinkOK, Holds
  <2> QED
    BY <1>1, <1>3, <2>5, <2>6, <2>7, <2>8, Goes
<1> QED
  BY <1>2, <1>3 DEF syncEntryToTrackers

\* A push that lands: what the entry is taken to have, by the link and by every call, it has, or it is outrun.
LEMMA LandingKeeps ==
  ASSUME SyncInv, NEW c \in Caller, NEW o \in Push, o = call[c], Pushed(c, o.ext, o.d), UNCHANGED <<link, astray>>
  PROVE  /\ remote' \in [Entry -> Item \cup {None}]
         /\ o.d.n > 0 => Holds(o.ext, o.d.n)'
         /\ ~astray => LinkOK' /\ \A b \in Caller : \A e \in Entry \ outrun' :
                                    \A n \in CountsOf(call[b], e) : n > 0 => Holds(e, n)'
<1>1. o.ext \in Entry /\ o.d \in Decision /\ o.item \in Item \cup {None} /\ remote[o.ext] \in Item \cup {None}
  BY DEF Push, SyncInv, SyncTypes
<1>2. o.d.n \in Nat /\ o.d.status \in Status \cup {None} /\ Echo(o.d.n) \in Nat
  BY <1>1, EchoGrows DEF Decision
<1> DEFINE x == [n |-> IF o.d.n # 0 THEN Echo(o.d.n) ELSE IF remote[o.ext] = None THEN 0 ELSE remote[o.ext].n,
                 status |-> Or(o.d.status, IF remote[o.ext] = None THEN "reading" ELSE remote[o.ext].status)]
<1>3. remote' = [remote EXCEPT ![o.ext] = x]
  BY DEF Pushed, Takes
<1>4. x \in Item /\ x # None
  <2>1. x.n \in Nat
    BY <1>1, <1>2 DEF Item
  <2>2. x.status \in Status
    BY <1>1, <1>2 DEF Item, Or, Status
  <2> QED
    BY <2>1, <2>2, TrackerAssumption DEF Item
<1>5. /\ o.d.n # 0 => x.n = Echo(o.d.n)
      /\ o.d.n = 0 /\ remote[o.ext] # None => x.n = remote[o.ext].n
  OBVIOUS
<1> HIDE DEF x
<1>6. /\ remote' \in [Entry -> Item \cup {None}] /\ remote'[o.ext] = x
      /\ \A e \in Entry : e # o.ext => remote'[e] = remote[e]
  BY <1>1, <1>3, <1>4 DEF SyncInv, SyncTypes
<1>7. o.d.n > 0 => Holds(o.ext, o.d.n)'
  BY <1>2, <1>4, <1>5, <1>6 DEF Holds
<1>8. ASSUME NEW e \in Entry, NEW k \in Nat, Holds(e, k), e = o.ext /\ o.d.n # 0 => k <= o.d.n
      PROVE  Holds(e, k)'
  <2>1. CASE e # o.ext \/ o.d.n = 0
    BY <1>4, <1>5, <1>6, <1>8, <2>1 DEF Holds
  <2>2. CASE e = o.ext /\ o.d.n # 0
    <3>1. Echo(k) \in Nat /\ Echo(k) <= Echo(o.d.n)
      BY <1>2, <1>8, <2>2, EchoGrows
    <3> QED
      BY <1>2, <1>4, <1>5, <1>6, <2>2, <3>1 DEF Holds
  <2> QED
    BY <2>1, <2>2
\* A number that an entry not outrun is taken to have: it was held before, or the push made up for it.
<1>9. ASSUME NEW e \in Entry \ outrun', NEW k \in Nat, k > 0, e \notin outrun => Holds(e, k),
             e = o.ext /\ o.d.n # 0 => k \in Counted(c, e) \/ k <= o.d.n
      PROVE  Holds(e, k)'
  <2>1. outrun' = IF o.d.n = 0 THEN outrun
                  ELSE IF \E n \in Counted(c, o.ext) : n > o.d.n THEN outrun \cup {o.ext} ELSE outrun \ {o.ext}
    BY DEF Pushed
  <2>2. CASE e # o.ext \/ o.d.n = 0
    BY <1>8, <1>9, <2>1, <2>2
  <2>3. CASE e = o.ext /\ o.d.n # 0
    <3>1. k <= o.d.n
      BY <1>2, <1>9, <2>1, <2>3
    <3>2. Echo(k) \in Nat /\ Echo(k) <= Echo(o.d.n)
      BY <1>2, <3>1, EchoGrows
    <3> QED
      BY <1>2, <1>4, <1>5, <1>6, <2>3, <3>2 DEF Holds
  <2> QED
    BY <2>2, <2>3
<1>10. ASSUME ~astray PROVE LinkOK'
  <2> SUFFICES ASSUME link # None, link.mark > 0, link.ext \notin outrun' PROVE Holds(link.ext, link.mark)'
    BY DEF LinkOK, Holds
  <2>1. link.ext \in Entry /\ link.mark \in Nat /\ link.mark \in Counted(c, link.ext)
    BY DEF SyncInv, SyncTypes, Link, Counted
  <2>2. link.ext \notin outrun => Holds(link.ext, link.mark)
    BY <1>10 DEF SyncInv, LinkOK
  <2> QED
    BY <1>9, <2>1, <2>2
<1>11. ASSUME ~astray, NEW b \in Caller, NEW e \in Entry \ outrun', NEW n \in CountsOf(call[b], e), n > 0
       PROVE  Holds(e, n)'
  <2>1. call[b] \in Calls /\ n \in Nat
    BY CallAt, CountsAre DEF SyncInv
  <2>2. e \notin outrun => Holds(e, n)
    BY <1>11 DEF SyncInv, Backed
  <2>3. e = o.ext /\ o.d.n # 0 => n \in Counted(c, e) \/ n <= o.d.n
    <3>1. CASE b # c
      BY <3>1 DEF Counted
    <3>2. CASE b = c
      <4>1. o \in Calls /\ Beyond(o) /\ n \in CountsOf(o, e)
        BY <3>2 DEF Calls, SyncInv
      <4>2. e = o.ext => n \in {CountOf(o.item), o.mark, o.d.n}
        BY <4>1, CountsAre
      <4>3. o.pc \in {"push", "record"} /\ o.mark \in Nat /\ CountOf(o.item) \in Nat
        BY DEF Push, CountOf, Item
      <4> QED
        BY <1>2, <2>1, <4>1, <4>2, <4>3, <1>11 DEF Beyond
    <3> QED
      BY <3>1, <3>2
  <2> QED
    BY <1>9, <1>11, <2>1, <2>2, <2>3
<1> QED
  BY <1>6, <1>7, <1>10, <1>11

LEMMA PushKeeps ==
  ASSUME SyncInv, NEW c \in Caller, pushToTracker(c)
  PROVE  SyncInv'
<1>1. PICK o \in Push : o = call[c]
  BY CallAt DEF pushToTracker, At, SyncInv
<1>2. /\ o.pc = "push" /\ o \in Calls /\ UNCHANGED <<read, sourceRead, link, astray>>
      /\ Beyond(o) /\ (~astray => Backed(o))
  BY <1>1 DEF pushToTracker, At, library, SyncInv, Calls
<1>3. PICK r \in Push \cup {Idle} :
        /\ Goto(c, r)
        /\ Pushed(c, o.ext, o.d) \/ UNCHANGED <<remote, outrun>>
        /\ r # Idle => /\ r.ext = o.ext /\ r.d = o.d /\ r.item = o.item /\ r.mark = o.mark
                       /\ r.pc = "push" \/ (r.pc = "record" /\ Pushed(c, o.ext, o.d))
  <2>1. [o EXCEPT !.pc = "record"] \in Push /\ [o EXCEPT !.tries = @ + 1] \in Push
    BY <1>1 DEF Push
  <2>2. CASE Pushed(c, o.ext, o.d) /\ Goto(c, [o EXCEPT !.pc = "record"])
    <3>1. LET r == [o EXCEPT !.pc = "record"] IN
            r.ext = o.ext /\ r.d = o.d /\ r.item = o.item /\ r.mark = o.mark /\ r.pc = "record"
      BY <1>1 DEF Push
    <3> QED
      BY <2>1, <2>2, <3>1
  <2>3. CASE (Pushed(c, o.ext, o.d) \/ UNCHANGED <<remote, outrun>>) /\ Goto(c, [o EXCEPT !.tries = @ + 1])
    <3>1. LET r == [o EXCEPT !.tries = @ + 1] IN
            r.ext = o.ext /\ r.d = o.d /\ r.item = o.item /\ r.mark = o.mark /\ r.pc = "push"
      BY <1>2 DEF Push
    <3> QED
      BY <2>1, <2>3, <3>1
  <2>4. CASE (Pushed(c, o.ext, o.d) \/ UNCHANGED <<remote, outrun>>) /\ Goto(c, Idle)
    BY <2>4
  <2> QED
    BY <1>1, <2>2, <2>3, <2>4 DEF pushToTracker
<1>4. r \in Calls /\ Beyond(r)
  BY <1>2, <1>3 DEF Calls, Pause, Idle, Beyond
<1>5. \A e \in Entry : CountsOf(r, e) \subseteq CountsOf(o, e) \cup
                         (IF e = o.ext /\ Pushed(c, o.ext, o.d) THEN {o.d.n} ELSE {})
  <2>1. CASE r = Idle
    <3>1. r \in Pause
      BY <2>1 DEF Pause, Idle
    <3> QED
      BY <1>4, <3>1, CountsAre
  <2>2. CASE r # Idle
    BY <1>2, <1>3, <1>4, <2>2, CountsAre
  <2> QED
    BY <2>1, <2>2
<1>6. CASE Pushed(c, o.ext, o.d)
  <2>1. /\ remote' \in [Entry -> Item \cup {None}]
        /\ o.d.n > 0 => Holds(o.ext, o.d.n)'
        /\ ~astray => LinkOK' /\ \A b \in Caller : \A e \in Entry \ outrun' :
                                   \A n \in CountsOf(call[b], e) : n > 0 => Holds(e, n)'
    BY <1>1, <1>2, <1>6, LandingKeeps
  <2>2. call' \in [Caller -> Calls] /\ call'[c] = r /\ \A b \in Caller \ {c} : call'[b] = call[b]
    BY <1>3, <1>4 DEF SyncInv, SyncTypes, Goto
  <2>3. ASSUME NEW b \in Caller PROVE Beyond(call[b])' /\ (~astray' => Backed(call[b])')
    <3>1. PICK q : q = call'[b]
      OBVIOUS
    <3>2. Beyond(q)
      BY <1>4, <2>2, <3>1 DEF SyncInv
    <3>3. ~astray => \A e \in Entry \ outrun' : \A n \in CountsOf(q, e) : n > 0 => Holds(e, n)'
      BY <1>1, <1>5, <2>1, <2>2, <3>1
    <3> QED
      BY <1>2, <3>1, <3>2, <3>3 DEF Backed, Beyond
  <2> QED
    BY <1>2, <2>1, <2>2, <2>3 DEF SyncInv, SyncTypes
<1>7. CASE ~Pushed(c, o.ext, o.d)
  <2>1. UNCHANGED <<remote, outrun>>
    BY <1>3, <1>7
  <2>2. ~astray => Backed(r)
    BY <1>2, <1>5, <1>7 DEF Backed
  <2>3. link' \in Link \cup {None} /\ astray' \in BOOLEAN /\ (~astray' => ~astray /\ LinkOK')
    BY <1>2, <2>1 DEF SyncInv, SyncTypes, LinkOK, Holds
  <2>4. read' \subseteq Chapter /\ sourceRead' \subseteq Chapter
    BY <1>2 DEF SyncInv, SyncTypes
  <2>5. ~astray' => ~astray /\ LinkOK' /\ Backed(r)
    BY <2>2, <2>3
  <2> QED
    BY <1>3, <1>4, <2>1, <2>3, <2>4, <2>5, Goes
<1> QED
  BY <1>6, <1>7

LEMMA RecordKeeps ==
  ASSUME SyncInv, NEW c \in Caller, updateTrackerLink(c)
  PROVE  SyncInv'
<1>1. PICK o \in Push : o = call[c]
  BY CallAt DEF updateTrackerLink, At, SyncInv
<1>2. /\ o.pc = "record" /\ UNCHANGED <<read, sourceRead, remote, outrun>> /\ Goto(c, Idle)
      /\ link' = IF link = None THEN None ELSE recordTrackerEntry(link, o.ext, o.item, o.mark, o.d)
      /\ astray' = (astray \/ (link # None /\ link.ext # o.ext))
      /\ ~astray => LinkOK /\ Backed(o)
  BY <1>1 DEF updateTrackerLink, At, SyncInv
<1>3. /\ o.ext \in Entry /\ o.item \in Item \cup {None} /\ o.mark \in Nat /\ o.d \in Decision
      /\ (o.item # None => o.item.n \in Nat)
  BY DEF Push, Item
<1>4. ASSUME ~astray, o.ext \notin outrun, NEW n \in {CountOf(o.item), o.mark, o.d.n}, n > 0
      PROVE  Holds(o.ext, n)
  <2>1. n \in CountsOf(o, o.ext)
    BY <1>2, <1>3, CountsAre DEF Calls
  <2> QED
    BY <1>2, <1>3, <1>4, <2>1 DEF Backed
<1>5. link' \in Link \cup {None} /\ (~astray' => LinkOK')
  <2>1. CASE link = None
    BY <1>2, <2>1 DEF LinkOK
  <2>2. CASE link # None
    <3>1. link \in Link /\ link.mark \in Nat
      BY <2>2 DEF SyncInv, SyncTypes, Link
    <3>2. /\ link' \in Link /\ link'.ext = link.ext
          /\ o.d.n # 0 => link'.mark = o.d.n
          /\ o.d.n = 0 /\ o.item = None => link'.mark = link.mark
          /\ o.d.n = 0 /\ o.item # None => link'.mark \in {o.item.n, o.mark}
      <4>1. link' = recordTrackerEntry(link, o.ext, o.item, o.mark, o.d)
        BY <1>2, <2>2
      <4>2. /\ recordTrackerEntry(link, o.ext, o.item, o.mark, o.d) \in Link
            /\ recordTrackerEntry(link, o.ext, o.item, o.mark, o.d).ext = link.ext
            /\ o.d.n # 0 => recordTrackerEntry(link, o.ext, o.item, o.mark, o.d).mark = o.d.n
            /\ o.d.n = 0 /\ o.item = None
               => recordTrackerEntry(link, o.ext, o.item, o.mark, o.d).mark = link.mark
            /\ o.d.n = 0 /\ o.item # None
               => recordTrackerEntry(link, o.ext, o.item, o.mark, o.d).mark \in {o.item.n, o.mark}
        BY ONLY <1>3, <3>1, Recorded, Zenon
      <4> QED
        BY ONLY <4>1, <4>2, Zenon
    <3>3. ASSUME ~astray', link'.mark > 0, link.ext \notin outrun PROVE Holds(link.ext, link'.mark)
      <4>1. ~astray /\ link.ext = o.ext /\ LinkOK
        BY <1>2, <2>2, <3>3
      <4>2. CASE o.d.n # 0 \/ o.item # None
        <5>1. link'.mark \in {CountOf(o.item), o.mark, o.d.n}
          BY <3>2, <4>2 DEF CountOf
        <5> QED
          BY <1>4, <3>3, <4>1, <5>1
      <4>3. CASE o.d.n = 0 /\ o.item = None
        BY <2>2, <3>2, <3>3, <4>1, <4>3 DEF LinkOK
      <4> QED
        BY <4>2, <4>3
    <3> QED
      BY <1>2, <3>2, <3>3 DEF LinkOK, Holds
  <2> QED
    BY <2>1, <2>2
<1>6. Idle \in Pause /\ Idle \in Calls /\ Beyond(Idle)
  BY DEF Calls, Pause, Idle, Beyond
<1>7. Backed(Idle)
  BY <1>6, CountsAre DEF Backed
<1>8. astray' \in BOOLEAN /\ (~astray' => ~astray) /\ read' \subseteq Chapter /\ sourceRead' \subseteq Chapter
  BY <1>2 DEF SyncInv, SyncTypes
<1> QED
  BY <1>2, <1>5, <1>6, <1>7, <1>8, Goes

\* What a reconcile goes by: the entry as it was listed, and the watermark the link had.
LEMMA Reconciling ==
  ASSUME SyncInv, NEW l \in Link, NEW item \in Item \cup {None}, NEW o, o = syncLinkWithEntry(l, item)
  PROVE  /\ o \in Push /\ Beyond(o)
         /\ (l.ext \notin outrun => /\ l.mark > 0 => Holds(l.ext, l.mark)
                                    /\ item # None /\ item.n > 0 => Holds(l.ext, item.n)) => Backed(o)
<1>1. /\ o \in Push /\ o.ext = l.ext /\ o.item = item /\ o.mark = l.mark
      /\ o.d.n # 0 => o.d.n > l.mark /\ (item # None => o.d.n > item.n)
      /\ o.pc = "record" => o.d.n = 0
  BY Reconciled DEF SyncInv, SyncTypes
<1>2. o \in Calls /\ o.d.n \in Nat
  BY <1>1 DEF Calls, Push, Decision
<1>3. Beyond(o)
  BY <1>1, <1>2 DEF Beyond, CountOf
<1>4. ASSUME NEW e \in Entry, NEW n \in CountsOf(o, e), n > 0
      PROVE  e = l.ext /\ (n = l.mark \/ (item # None /\ n = item.n))
  <2>1. e = l.ext /\ n \in {CountOf(item), l.mark} \cup (IF o.pc = "record" THEN {o.d.n} ELSE {})
    BY <1>1, <1>2, CountsAre
  <2> QED
    BY <1>1, <1>4, <2>1 DEF CountOf
<1> QED
  BY <1>1, <1>3, <1>4 DEF Backed

\* A sync by hand: the link is read, then the tracker's list, then the two are reconciled.
LEMMA HandSyncKeeps ==
  ASSUME SyncInv, NEW c \in Caller, syncEntryWithTracker(c) \/ LookUp(c)
  PROVE  SyncInv'
<1>1. /\ UNCHANGED <<read, sourceRead, link, remote, astray, outrun>>
      /\ read \subseteq Chapter /\ sourceRead \subseteq Chapter
  BY DEF syncEntryWithTracker, LookUp, library, SyncInv, SyncTypes
<1>2. link' \in Link \cup {None} /\ astray' \in BOOLEAN /\ (~astray' => ~astray /\ LinkOK')
  BY <1>1 DEF SyncInv, SyncTypes, LinkOK, Holds
<1>3. CASE Goto(c, Idle)
  <2>1. Idle \in Marks \cup Pause
    BY DEF Pause, Idle
  <2> QED
    BY <1>1, <1>3, <2>1, GoesQuietly
<1>4. CASE syncEntryWithTracker(c)
  <2>1. PICK l \in Link : l = link /\ link # None
    BY <1>4 DEF syncEntryWithTracker, SyncInv, SyncTypes
  <2>2. PICK r \in Lookup : r.pc = "lookup" /\ r.link = l /\ Goto(c, r)
    BY <1>4, <2>1 DEF syncEntryWithTracker, Lookup
  <2>3. r \in Calls /\ Beyond(r)
    BY <2>2 DEF Calls, Beyond
  <2>4. ~astray => Backed(r)
    BY <2>1, <2>2, <2>3, CountsAre DEF SyncInv, LinkOK, Backed
  <2> QED
    BY <1>1, <1>2, <2>2, <2>3, <2>4, Goes
<1>5. CASE LookUp(c) /\ Goto(c, syncLinkWithEntry(call[c].link, remote[call[c].link.ext]))
  <2>1. PICK r \in Lookup : r = call[c] /\ r \in Calls
    BY <1>5, CallAt DEF LookUp, At, SyncInv
  <2>2. PICK l \in Link : l = r.link
    BY DEF Lookup
  <2>3. PICK item \in Item \cup {None} : item = remote[l.ext]
    BY DEF Link, SyncInv, SyncTypes
  <2>4. item # None => item.n \in Nat /\ Holds(l.ext, item.n)
    BY <2>3 DEF Holds, Echo, Item
  <2>5. ~astray /\ l.ext \notin outrun /\ l.mark > 0 => Holds(l.ext, l.mark)
    <3>1. l.ext \in Entry /\ l.mark \in CountsOf(r, l.ext)
      BY <2>1, <2>2, CountsAre DEF Link
    <3> QED
      BY <2>1, <3>1 DEF SyncInv, Backed
  <2>6. PICK o : o = syncLinkWithEntry(l, item)
    OBVIOUS
  <2>7. o \in Calls /\ Beyond(o) /\ (~astray => Backed(o))
    BY <2>4, <2>5, <2>6, Reconciling DEF Calls
  <2>8. Goto(c, o)
    BY <1>5, <2>1, <2>2, <2>3, <2>6
  <2> QED
    BY <1>1, <1>2, <2>7, <2>8, Goes
<1> QED
  BY <1>3, <1>4, <1>5 DEF LookUp

LEMMA LinkingKeeps ==
  ASSUME SyncInv, NEW c \in Caller, linkTracker(c)
  PROVE  SyncInv'
<1>1. PICK e \in Entry : /\ link' = linkTo(e) /\ astray' = (astray \/ (link # None /\ link.ext # e))
                         /\ Goto(c, [pc |-> "lookup", link |-> linkTo(e)])
  BY DEF linkTracker
<1>2. /\ UNCHANGED <<read, sourceRead, remote, outrun>>
      /\ read' \subseteq Chapter /\ sourceRead' \subseteq Chapter
  BY DEF linkTracker, SyncInv, SyncTypes
<1>3. /\ link' \in Link /\ link'.ext = e /\ astray' \in BOOLEAN
      /\ ~astray' => ~astray /\ LinkOK'
  BY <1>1, <1>2, LinkMoves
<1>4. PICK l \in Link : l = link' /\ l # None
  BY <1>3, TrackerAssumption DEF Link
<1>5. PICK r \in Lookup : r.pc = "lookup" /\ r.link = l /\ Goto(c, r)
  BY <1>1, <1>4 DEF Lookup
<1>6. r \in Calls /\ Beyond(r)
  BY <1>5 DEF Calls, Beyond
<1>7. ~astray' => Backed(r)
  BY <1>2, <1>3, <1>4, <1>5, <1>6, CountsAre DEF LinkOK, Backed, Holds
<1> QED
  BY <1>2, <1>3, <1>5, <1>6, <1>7, Goes

LEMMA LettingGoKeeps ==
  ASSUME SyncInv, unlinkTracker \/ removeSeries
  PROVE  SyncInv'
<1>1. UNCHANGED <<read, sourceRead, remote, call, astray, outrun>> /\ (link' = None \/ UNCHANGED link)
  BY DEF unlinkTracker, removeSeries
<1> QED
  BY <1>1 DEF SyncInv, SyncTypes, LinkOK, Beyond, Backed, Holds

\* A link may be pointed at the entry the series' ids name, when it is collected or checked.
LEMMA AutoLinkKeeps ==
  ASSUME SyncInv, NEW c \in Caller, collectSeries(c) \/ autoLink(c) \/ relinkEntry(c)
  PROVE  SyncInv'
<1>1. PICK r \in Pause : Goto(c, r)
  BY DEF collectSeries, autoLink, relinkEntry, Pause, Idle
<1>2. /\ UNCHANGED <<read, sourceRead, remote, outrun>>
      /\ read' \subseteq Chapter /\ sourceRead' \subseteq Chapter
  BY DEF collectSeries, autoLink, relinkEntry, SyncInv, SyncTypes
<1>3. r \in Calls /\ Beyond(r)
  BY DEF Calls, Pause, Beyond
<1>4. Backed(r)
  BY <1>3, CountsAre DEF Backed
<1>5. CASE UNCHANGED <<link, astray>>
  BY <1>1, <1>2, <1>5, GoesQuietly
<1>6. CASE Known # None /\ link' = linkTo(Known) /\ astray' = (astray \/ (link # None /\ link.ext # Known))
  <2>1. Known \in Entry
    BY <1>6, TrackerAssumption
  <2>2. link' \in Link /\ astray' \in BOOLEAN /\ (~astray' => ~astray /\ LinkOK')
    BY <1>2, <1>6, <2>1, LinkMoves
  <2> QED
    BY <1>1, <1>2, <1>3, <1>4, <2>2, Goes
<1>7. \/ UNCHANGED <<link, astray>>
      \/ Known # None /\ link' = linkTo(Known) /\ astray' = (astray \/ (link # None /\ link.ext # Known))
  <2>1. CASE collectSeries(c)
    BY <2>1 DEF collectSeries
  <2>2. CASE autoLink(c)
    <3>1. astray' = (astray \/ Repointed) /\ ((Known # None /\ link' = linkTo(Known)) \/ UNCHANGED link)
      BY <2>2 DEF autoLink
    <3>2. CASE Known # None /\ link' = linkTo(Known)
      <4>1. Known \in Entry
        BY <3>2, TrackerAssumption
      <4> QED
        BY <3>1, <3>2, <4>1, RepointedIs DEF SyncInv
    <3>3. CASE UNCHANGED link
      BY <3>1, <3>3 DEF Repointed, SyncInv, SyncTypes
    <3> QED
      BY <3>1, <3>2, <3>3
  <2>3. CASE relinkEntry(c)
    BY <2>3 DEF relinkEntry, SyncInv, SyncTypes
  <2> QED
    BY <2>1, <2>2, <2>3
<1> QED
  BY <1>5, <1>6, <1>7

\* The list is shown as the tracker holds it.
LEMMA PreviewKeeps ==
  ASSUME SyncInv, NEW c \in Caller, previewTrackerImport(c)
  PROVE  SyncInv'
<1>1. PICK e \in Entry : remote[e] # None /\ Goto(c, [pc |-> "preview", ext |-> e, item |-> remote[e]])
  BY DEF previewTrackerImport
<1>2. /\ UNCHANGED <<read, sourceRead, link, remote, astray, outrun>>
      /\ read' \subseteq Chapter /\ sourceRead' \subseteq Chapter
      /\ link' \in Link \cup {None} /\ astray' \in BOOLEAN /\ (~astray' => ~astray /\ LinkOK')
  BY DEF previewTrackerImport, library, SyncInv, SyncTypes, LinkOK, Holds
<1>3. PICK item \in Item : item = remote[e]
  BY <1>1 DEF SyncInv, SyncTypes
<1>4. item.n \in Nat /\ Holds(e, item.n)
  BY <1>1, <1>3 DEF Holds, Echo, Item
<1>5. PICK r \in Import : r.pc = "preview" /\ r.ext = e /\ r.item = item /\ Goto(c, r)
  BY <1>1, <1>3 DEF Import
<1>6. r \in Calls /\ Beyond(r)
  BY <1>5 DEF Calls, Beyond
<1>7. Backed(r)
  BY <1>4, <1>5, <1>6, CountsAre DEF Backed
<1> QED
  BY <1>2, <1>5, <1>6, <1>7, Goes

LEMMA ImportKeeps ==
  ASSUME SyncInv, NEW c \in Caller, importTrackerEntries(c)
  PROVE  SyncInv'
<1>1. PICK o \in Import : o = call[c]
  BY CallAt DEF importTrackerEntries, At, SyncInv
<1>2. /\ o.pc = "preview" /\ o.ext \in Entry /\ o.item \in Item /\ o.item.n \in Nat /\ o \in Calls
      /\ ~astray => Backed(o)
  BY <1>1 DEF importTrackerEntries, At, Import, Item, SyncInv, Calls
<1>3. ~astray /\ o.ext \notin outrun /\ o.item.n > 0 => Holds(o.ext, o.item.n)
  BY <1>1, <1>2, CountsAre DEF Backed
<1>4. /\ UNCHANGED <<read, sourceRead, remote, outrun>> /\ astray' = (astray \/ Repointed)
      /\ read' \subseteq Chapter /\ sourceRead' \subseteq Chapter
  BY DEF importTrackerEntries, SyncInv, SyncTypes
<1>5. CASE link' = linkTo(o.ext) /\ Goto(c, syncLinkWithEntry(linkTo(o.ext), o.item))
  <2>1. astray' = (astray \/ (link # None /\ link.ext # o.ext))
    BY <1>2, <1>4, <1>5, RepointedIs DEF SyncInv
  <2>2. link' \in Link /\ link'.ext = o.ext /\ astray' \in BOOLEAN /\ (~astray' => ~astray /\ LinkOK')
    BY <1>2, <1>4, <1>5, <2>1, LinkMoves
  <2>3. PICK l \in Link : l = link' /\ l # None
    BY <2>2, TrackerAssumption DEF Link
  <2>4. ~astray' /\ l.ext \notin outrun /\ l.mark > 0 => Holds(l.ext, l.mark)
    BY <1>4, <2>2, <2>3 DEF LinkOK, Holds
  <2>5. ~astray' /\ l.ext \notin outrun /\ o.item.n > 0 => Holds(l.ext, o.item.n)
    BY <1>3, <2>2, <2>3
  <2>6. PICK p : p = syncLinkWithEntry(l, o.item)
    OBVIOUS
  <2>7. p \in Calls /\ Beyond(p) /\ (~astray' => Backed(p))
    BY <1>2, <2>4, <2>5, <2>6, Reconciling DEF Calls
  <2>8. Goto(c, p)
    BY <1>5, <2>3, <2>6
  <2> QED
    BY <1>4, <2>2, <2>7, <2>8, Goes
<1>6. CASE UNCHANGED link /\ (Goto(c, Idle) \/ Goto(c, [o EXCEPT !.pc = "collect"]))
  <2>1. UNCHANGED <<link, astray>>
    BY <1>4, <1>6 DEF Repointed, SyncInv, SyncTypes
  <2>2. CASE Goto(c, Idle)
    <3>1. Idle \in Marks \cup Pause
      BY DEF Pause, Idle
    <3> QED
      BY <1>4, <2>1, <2>2, <3>1, GoesQuietly
  <2>3. CASE Goto(c, [o EXCEPT !.pc = "collect"])
    <3>1. PICK r \in Import : Goto(c, r) /\ r.pc = "collect" /\ r.ext = o.ext /\ r.item = o.item
      BY <2>3 DEF Import
    <3>2. r \in Calls /\ Beyond(r)
      BY <3>1 DEF Calls, Beyond
    <3>3. ~astray => Backed(r)
      BY <1>3, <3>1, <3>2, CountsAre DEF Backed
    <3>4. link' \in Link \cup {None} /\ astray' \in BOOLEAN /\ (~astray' => ~astray /\ LinkOK')
      BY <1>4, <2>1 DEF SyncInv, SyncTypes, LinkOK, Holds
    <3> QED
      BY <1>4, <2>1, <3>1, <3>2, <3>3, <3>4, Goes
  <2> QED
    BY <1>6, <2>2, <2>3
<1> QED
  BY <1>1, <1>5, <1>6 DEF importTrackerEntries

LEMMA CollectKeeps ==
  ASSUME SyncInv, NEW c \in Caller, collectForImport(c)
  PROVE  SyncInv'
<1>1. PICK o \in Import : o = call[c]
  BY CallAt DEF collectForImport, At, SyncInv
<1>2. o \in Calls /\ (~astray => Backed(o))
  BY <1>1 DEF SyncInv, Calls
<1>3. /\ UNCHANGED <<read, sourceRead, link, remote, astray, outrun>>
      /\ read' \subseteq Chapter /\ sourceRead' \subseteq Chapter
      /\ link' \in Link \cup {None} /\ astray' \in BOOLEAN /\ (~astray' => ~astray /\ LinkOK')
  BY DEF collectForImport, SyncInv, SyncTypes, LinkOK, Holds
<1>4. CASE Goto(c, Idle)
  <2>1. Idle \in Marks \cup Pause
    BY DEF Pause, Idle
  <2> QED
    BY <1>3, <1>4, <2>1, GoesQuietly
<1>5. CASE Goto(c, [o EXCEPT !.pc = "imported"])
  <2>1. PICK r \in Import : Goto(c, r) /\ r.pc = "imported" /\ r.ext = o.ext /\ r.item = o.item
    BY <1>5 DEF Import
  <2>2. r \in Calls /\ Beyond(r)
    BY <2>1 DEF Calls, Beyond
  <2>3. ~astray => Backed(r)
    BY <1>2, <2>1, <2>2, CountsAre DEF Backed
  <2> QED
    BY <1>3, <2>1, <2>2, <2>3, Goes
<1> QED
  BY <1>1, <1>4, <1>5 DEF collectForImport

LEMMA SeedKeeps ==
  ASSUME SyncInv, NEW c \in Caller, seedImported(c)
  PROVE  SyncInv'
<1>1. PICK o \in Import : o = call[c]
  BY CallAt DEF seedImported, At, SyncInv
<1>2. /\ o.pc = "imported" /\ o.ext \in Entry /\ o.item \in Item /\ o.item.n \in Nat /\ o \in Calls
      /\ ~astray => Backed(o)
  BY <1>1 DEF seedImported, At, Import, Item, SyncInv, Calls
<1>3. ~astray /\ o.ext \notin outrun /\ o.item.n > 0 => Holds(o.ext, o.item.n)
  BY <1>1, <1>2, CountsAre DEF Backed
<1>4. /\ UNCHANGED <<sourceRead, remote, outrun>> /\ astray' = (astray \/ Repointed) /\ Goto(c, Idle)
      /\ read' \subseteq Chapter /\ sourceRead' \subseteq Chapter
  BY DEF seedImported, SyncInv, SyncTypes
<1>5. Idle \in Pause /\ Idle \in Marks \cup Pause /\ Idle \in Calls /\ Beyond(Idle)
  BY DEF Calls, Pause, Idle, Beyond
<1>6. Backed(Idle)
  BY <1>5, CountsAre DEF Backed
<1>7. CASE link' = recordTrackerEntry(linkTo(o.ext), o.ext, o.item, linkTo(o.ext).mark, Untold)
  <2>1. PICK l \in Link : l = linkTo(o.ext) /\ l.ext = o.ext /\ l.mark = IF link = None THEN 0 ELSE link.mark
    BY <1>2, LinkedIs DEF SyncInv, SyncTypes
  <2>2. l.mark \in Nat /\ Untold \in Decision /\ Untold.n = 0
    BY DEF Link, Untold, Decision
  <2>3. o.item # None
    BY <1>2, TrackerAssumption DEF Item
  <2>4. link' \in Link /\ link'.ext = o.ext /\ link'.mark \in {o.item.n, l.mark} /\ link' # None
    <3>1. link' \in Link /\ link'.ext = l.ext
      BY <1>2, <1>7, <2>1, <2>2, Recorded
    <3>2. link'.mark \in {o.item.n, l.mark}
      BY <1>2, <1>7, <2>1, <2>2, <2>3, Recorded
    <3> QED
      BY <2>1, <3>1, <3>2, TrackerAssumption DEF Link
  <2>5. astray' \in BOOLEAN /\ (~astray' => ~astray /\ (link # None => link.ext = o.ext))
    BY <1>4, <2>4 DEF Repointed, SyncInv, SyncTypes
  <2>6. ASSUME ~astray', link'.mark > 0, o.ext \notin outrun PROVE Holds(o.ext, link'.mark)
    <3>1. CASE link'.mark = o.item.n
      BY <1>3, <2>5, <2>6, <3>1
    <3>2. CASE link'.mark = l.mark
      BY <2>1, <2>5, <2>6, <3>2 DEF SyncInv, LinkOK
    <3> QED
      BY <2>4, <3>1, <3>2
  <2>7. ~astray' => ~astray /\ LinkOK'
    BY <1>4, <2>4, <2>5, <2>6 DEF LinkOK, Holds
  <2> QED
    BY <1>4, <1>5, <1>6, <2>4, <2>5, <2>7, Goes
<1>8. CASE UNCHANGED link
  <2>1. UNCHANGED astray
    BY <1>4, <1>8 DEF Repointed, SyncInv, SyncTypes
  <2> QED
    BY <1>4, <1>5, <1>8, <2>1, GoesQuietly
<1> QED
  BY <1>1, <1>7, <1>8 DEF seedImported

\* An edit that sets an entry back is what `astray` is for.
LEMMA EditKeeps ==
  ASSUME SyncInv, EditRemote
  PROVE  SyncInv'
<1>1. PICK e \in Entry, n \in {0, 2, 4}, s \in {"reading", "dropped"} :
        /\ remote' = [remote EXCEPT ![e] = [n |-> n, status |-> s]]
        /\ astray' = (astray \/ (remote[e] # None /\ n < remote[e].n))
  BY DEF EditRemote
<1>2. UNCHANGED <<read, sourceRead, link, call, outrun>>
  BY DEF EditRemote, library
<1>3. [n |-> n, status |-> s] \in Item /\ [n |-> n, status |-> s] # None
  BY TrackerAssumption DEF Item, Status
<1>4. /\ remote' \in [Entry -> Item \cup {None}]
      /\ remote'[e] = [n |-> n, status |-> s] /\ remote'[e] # None /\ remote'[e].n = n
      /\ \A f \in Entry : f # e => remote'[f] = remote[f]
  BY <1>1, <1>3 DEF SyncInv, SyncTypes
<1>5. ~astray' => ~astray /\ \A f \in Entry, k \in Nat : Holds(f, k) => Holds(f, k)'
  <2> SUFFICES ASSUME ~astray', NEW f \in Entry, NEW k \in Nat, Holds(f, k) PROVE Holds(f, k)'
    BY <1>1
  <2>1. CASE f # e
    BY <1>4, <2>1 DEF Holds
  <2>2. CASE f = e
    <3>1. remote[e] # None /\ remote[e].n >= Echo(k)
      BY <2>2 DEF Holds
    <3>2. remote[e].n \in Nat
      BY <3>1 DEF SyncInv, SyncTypes, Item
    <3>3. n \in Nat /\ n >= remote[e].n
      <4>1. ~(n < remote[e].n)
        BY <1>1, <3>1
      <4>2. n \in Nat
        OBVIOUS
      <4> QED
        BY <3>2, <4>1, <4>2
    <3>4. Echo(k) \in Nat
      BY EchoGrows
    <3> QED
      BY <1>4, <2>2, <3>1, <3>2, <3>3, <3>4 DEF Holds
  <2> QED
    BY <2>1, <2>2
<1>6. ASSUME NEW c \in Caller PROVE Beyond(call[c])' /\ (~astray' => Backed(call[c])')
  <2>1. PICK o \in Calls : o = call[c] /\ o = call'[c]
    BY <1>2 DEF SyncInv, SyncTypes
  <2>2. Beyond(o) /\ (~astray' => Backed(o))
    BY <1>5, <2>1 DEF SyncInv
  <2>3. ~astray' => Backed(o)'
    BY <1>2, <1>5, <2>2, CountsAre DEF Backed
  <2> QED
    BY <2>1, <2>2, <2>3 DEF Backed, Beyond
<1>7. ~astray' => LinkOK'
  BY <1>2, <1>5 DEF SyncInv, SyncTypes, LinkOK, Link
<1>8. astray' \in BOOLEAN
  BY <1>1 DEF SyncInv, SyncTypes
<1> QED
  BY <1>2, <1>4, <1>6, <1>7, <1>8 DEF SyncInv, SyncTypes

\* A call that is cut off goes by nothing any more.
LEMMA StopKeeps ==
  ASSUME SyncInv, Stop
  PROVE  SyncInv'
<1>1. call' = [c \in Caller |-> Idle] /\ UNCHANGED <<read, sourceRead, link, remote, astray, outrun>>
  BY DEF Stop, library
<1>2. Idle \in Calls /\ Idle \in Pause /\ Beyond(Idle)
  BY DEF Calls, Pause, Idle, Beyond
<1>3. Backed(Idle)'
  BY <1>2, CountsAre DEF Backed
<1> QED
  BY <1>1, <1>2, <1>3 DEF SyncInv, SyncTypes, LinkOK, Holds, Beyond, Backed

-----------------------------------------------------------------------------
(* The specification *)

LEMMA SyncStartsRight ==
  ASSUME Init
  PROVE  SyncInv
<1>1. [n |-> 2, status |-> "reading"] \in Item
  BY DEF Item, Status
<1>2. Idle \in Calls /\ Idle \in Pause /\ Beyond(Idle)
  BY DEF Calls, Pause, Idle, Beyond
<1>3. Backed(Idle)
  BY <1>2, CountsAre DEF Backed
<1> QED
  BY <1>1, <1>2, <1>3 DEF Init, SyncInv, SyncTypes, LinkOK

LEMMA SyncStaysRight ==
  ASSUME SyncInv, [Next]_vars
  PROVE  SyncInv'
<1>1. CASE Next
  BY <1>1, ReadingKeeps, SyncEntryKeeps, PushKeeps, RecordKeeps, HandSyncKeeps, LinkingKeeps, LettingGoKeeps,
     AutoLinkKeeps, PreviewKeeps, ImportKeeps, CollectKeeps, SeedKeeps, EditKeeps, StopKeeps DEF Next, Steps
<1>2. CASE UNCHANGED vars
  BY <1>2 DEF vars, library, SyncInv, SyncTypes, LinkOK, Beyond, Backed, Holds
<1> QED
  BY <1>1, <1>2

\* Whatever is read, collected, imported, edited at the tracker, fails or stops, and however many calls run
\* side by side, the tracker holds what the watermark says (pushTrackerUpdate, recordTrackerEntry), but where
\* a push that landed last was of less than another call, or the link, went by (outrun).
THEOREM TheWatermarkIsReached == Spec => []WatermarkReached
<1>1. Init => SyncInv
  BY SyncStartsRight
<1>2. SyncInv /\ [Next]_vars => SyncInv'
  BY SyncStaysRight
<1>3. SyncInv => WatermarkReached
  BY DEF SyncInv, LinkOK, Holds, WatermarkReached, AtRest, MarkIsHeld
<1> QED
  BY <1>1, <1>2, <1>3, PTL DEF Spec


-----------------------------------------------------------------------------
(* The login: the invariant.  What is known of pairs is not newer than     *)
(* what the service takes (Older).  On a server a renewed pair that is not *)
(* stored yet is the only one: no context that could renew it again has    *)
(* been loaded with it.  On a device the pair goes from the native context *)
(* through the turns into the settings, and each place holds newer pairs   *)
(* than the next.  A context is renewed once: its tracker goes on with the *)
(* access token it was loaded with, and its network knows only the new one *)
(* (Renewed).  So what can be renewed was loaded from what is stored now,  *)
(* and nothing is on its way.                                              *)

Pairs == [access : Nat, refresh : Nat]
Context == [access : Nat, current : Nat, refresh : Nat, renewing : {"no", "asked", "granted", "saved"},
            got : Pairs, pending : Pairs]
Place == {"idle", "loading", "waiting", "calling", "sent", "refused", "renewing", "retrying", "served",
          "failed", "draining"}
Turn == [by : User \cup {NoUser}, pair : Pairs]

TokenTypes ==
  /\ side \in {"device", "server"}
  /\ service \in [access : Nat, refresh : Nat, live : BOOLEAN]
  /\ stored \in Pairs
  /\ contexts \in [Contexts -> Context]
  /\ cached \in Contexts \cup {0} /\ native \in Contexts \cup {0}
  /\ taken \in [User -> Pairs]
  /\ at \in [User -> Place] /\ using \in [User -> Contexts \cup {0}] /\ bearer \in [User -> Nat]
  /\ turns \in Seq(Turn)
  /\ excused \in BOOLEAN

Renewed(i) == contexts[i].current # contexts[i].access
Granting(i) == contexts[i].renewing = "granted"

\* No pair is newer than the one the service takes.
Older ==
  /\ service.refresh <= service.access
  /\ stored.access <= service.access /\ stored.refresh <= service.refresh
  /\ \A u \in User : taken[u].access <= service.access /\ taken[u].refresh <= service.refresh
  /\ \A i \in Contexts :
       /\ contexts[i].access <= service.access /\ contexts[i].refresh <= service.refresh
       /\ contexts[i].renewing = "saved" => contexts[i].got.refresh <= service.refresh
       /\ contexts[i].pending.access <= service.access
       /\ Granting(i) => /\ contexts[i].got.refresh = service.refresh
                         /\ contexts[i].access < contexts[i].got.access /\ contexts[i].got.access <= service.access

\* A server's renewed pair is in the settings, or with the one context that was granted it.
ServerOK ==
  /\ native = 0 /\ turns = <<>>
  /\ (\A i \in Contexts : ~Granting(i)) => stored.refresh = service.refresh
  /\ \A i \in Contexts : Granting(i) =>
       /\ stored.refresh < service.refresh
       /\ \A u \in User : taken[u].refresh < service.refresh
       /\ \A j \in Contexts : /\ contexts[j].refresh < service.refresh
                              /\ contexts[j].renewing = "saved" => contexts[j].got.refresh < service.refresh
                              /\ Granting(j) => j = i

\* What each user of a device carries and has read.
CarriesOK ==
  \A u \in User :
    /\ at[u] \in {"sent", "refused"} => using[u] \in Contexts /\ bearer[u] = contexts[using[u]].access
    /\ at[u] = "loading" => cached = 0 /\ loader = u
    /\ taken[u].refresh <= stored.refresh

\* What each context of a device has.  One that can be renewed has what is stored.
ContextsOK ==
  /\ cached \in {0, native}
  /\ \A i \in Contexts :
       /\ contexts[i].renewing # "no" => ~Renewed(i) /\ contexts[i].renewing # "saved"
       /\ contexts[i].pending # NoPair => Renewed(i) /\ contexts[i].pending.refresh = service.refresh
       /\ ~Renewed(i) => contexts[i].refresh <= stored.refresh
       /\ Holding(i) => i = cached /\ turns = <<>> /\ stored.refresh < service.refresh
  /\ native # 0 /\ cached = 0 => Renewed(native) \/ contexts[native].refresh < service.refresh

\* The turns are in the order the service gave the pairs, the latest last.
TurnsOK ==
  /\ \A m \in 1..Len(turns) : turns[m].pair.access <= service.access /\ stored.refresh < turns[m].pair.refresh
  /\ \A m, n \in 1..Len(turns) : m < n => turns[m].pair.refresh < turns[n].pair.refresh
  /\ turns # <<>> => turns[Len(turns)].pair.refresh = service.refresh
  /\ turns = <<>> /\ (\A i \in Contexts : ~Holding(i)) => stored.refresh = service.refresh

Steady ==
  /\ Older
  /\ side = "server" => ServerOK
  /\ side = "device" => CarriesOK /\ ContextsOK /\ TurnsOK

LoginInv == TokenTypes /\ (excused \/ Steady)

-----------------------------------------------------------------------------
(* What the types say, spelt out *)

Sized ==
  /\ 0 \notin Contexts /\ NoPair \in Pairs /\ NoPair.access = 0 /\ NoPair.refresh = 0
  /\ service.access \in Nat /\ service.refresh \in Nat
  /\ stored \in Pairs /\ stored.access \in Nat /\ stored.refresh \in Nat
  /\ \A u \in User : taken[u] \in Pairs /\ taken[u].access \in Nat /\ taken[u].refresh \in Nat /\ bearer[u] \in Nat
  /\ \A i \in Contexts :
       /\ contexts[i] \in Context
       /\ contexts[i].access \in Nat /\ contexts[i].current \in Nat /\ contexts[i].refresh \in Nat
       /\ contexts[i].got \in Pairs /\ contexts[i].got.access \in Nat /\ contexts[i].got.refresh \in Nat
       /\ contexts[i].pending \in Pairs /\ contexts[i].pending.access \in Nat /\ contexts[i].pending.refresh \in Nat
       /\ contexts[i].renewing \in {"no", "asked", "granted", "saved"}
  /\ Len(turns) \in Nat /\ (turns # <<>> => Len(turns) > 0)
  /\ \A m \in 1..Len(turns) : /\ turns[m].by \in User \cup {NoUser} /\ turns[m].pair \in Pairs
                              /\ turns[m].pair.access \in Nat /\ turns[m].pair.refresh \in Nat

LEMMA TokensAre ==
  ASSUME TokenTypes
  PROVE  Sized
<1>1. \A p \in Pairs : p.access \in Nat /\ p.refresh \in Nat
  BY DEF Pairs
<1>2. \A x \in Context : /\ x.access \in Nat /\ x.current \in Nat /\ x.refresh \in Nat
                         /\ x.got \in Pairs /\ x.pending \in Pairs
                         /\ x.renewing \in {"no", "asked", "granted", "saved"}
  BY DEF Context
<1>3. 0 \notin Contexts /\ NoPair \in Pairs /\ NoPair.access = 0 /\ NoPair.refresh = 0
  BY TokenAssumption DEF Contexts, NoPair, Pairs
<1>4. /\ service.access \in Nat /\ service.refresh \in Nat /\ stored \in Pairs
      /\ \A u \in User : taken[u] \in Pairs /\ bearer[u] \in Nat
      /\ \A i \in Contexts : contexts[i] \in Context
  BY DEF TokenTypes
<1>5. /\ Len(turns) \in Nat /\ (turns # <<>> => Len(turns) > 0)
      /\ \A m \in 1..Len(turns) : turns[m] \in Turn
  BY DEF TokenTypes
<1>6. \A t \in Turn : t.by \in User \cup {NoUser} /\ t.pair \in Pairs
  BY DEF Turn
<1>7. \A m \in 1..Len(turns) : /\ turns[m].by \in User \cup {NoUser} /\ turns[m].pair \in Pairs
                               /\ turns[m].pair.access \in Nat /\ turns[m].pair.refresh \in Nat
  BY <1>1, <1>5, <1>6
<1> QED
  BY <1>1, <1>2, <1>3, <1>4, <1>5, <1>7 DEF Sized

LEMMA ContextWritten ==
  ASSUME TokenTypes, NEW i \in Contexts, NEW x \in Context, contexts' = [contexts EXCEPT ![i] = x]
  PROVE  /\ contexts' \in [Contexts -> Context] /\ contexts'[i] = x
         /\ \A j \in Contexts : j # i => contexts'[j] = contexts[j]
  BY DEF TokenTypes

\* Of a renewal, a step changes how far it is, and what it got.
LEMMA RenewalMoves ==
  ASSUME TokenTypes, NEW i \in Contexts, NEW how \in {"no", "asked", "granted", "saved"}, NEW pair \in Pairs,
         contexts' = [contexts EXCEPT ![i] = [contexts[i] EXCEPT !.renewing = how, !.got = pair]]
  PROVE  /\ contexts' \in [Contexts -> Context]
         /\ \A j \in Contexts :
              /\ contexts'[j].access = contexts[j].access /\ contexts'[j].current = contexts[j].current
              /\ contexts'[j].refresh = contexts[j].refresh /\ contexts'[j].pending = contexts[j].pending
              /\ j # i => contexts'[j].renewing = contexts[j].renewing /\ contexts'[j].got = contexts[j].got
         /\ contexts'[i].renewing = how /\ contexts'[i].got = pair
<1>1. contexts[i] \in Context /\ [contexts[i] EXCEPT !.renewing = how, !.got = pair] \in Context
  <2>1. contexts[i] \in Context
    BY DEF TokenTypes
  <2> QED
    BY <2>1 DEF Context
<1>2. /\ contexts' \in [Contexts -> Context]
      /\ contexts'[i] = [contexts[i] EXCEPT !.renewing = how, !.got = pair]
      /\ \A j \in Contexts : j # i => contexts'[j] = contexts[j]
  BY <1>1, ContextWritten
<1> QED
  BY <1>1, <1>2 DEF Context

-----------------------------------------------------------------------------
(* Steps of the users that leave settings and contexts alone *)

\* Only the users move.  Who has sent a request has the token of the context it runs in.
LEMMA UsersMoveKeeps ==
  ASSUME LoginInv, UNCHANGED <<side, stored, contexts, cached, native, turns, excused>>,
         service' \in [access : Nat, refresh : Nat, live : BOOLEAN],
         service'.access = service.access, service'.refresh = service.refresh,
         taken' \in [User -> Pairs], at' \in [User -> Place], using' \in [User -> Contexts \cup {0}],
         bearer' \in [User -> Nat],
         \A u \in User : taken'[u] \in {taken[u], stored},
         side = "device" =>
           \A u \in User :
             /\ at'[u] \in {"sent", "refused"} =>
                  \/ at[u] \in {"sent", "refused"} /\ using'[u] = using[u] /\ bearer'[u] = bearer[u]
                  \/ using'[u] \in Contexts /\ bearer'[u] = contexts[using'[u]].access
             /\ at'[u] = "loading" => cached = 0 /\ loader' = u
  PROVE  LoginInv'
<1>1. TokenTypes /\ (excused \/ Steady) /\ Sized
  BY TokensAre DEF LoginInv
<1>2. TokenTypes'
  BY <1>1 DEF TokenTypes
<1>3. ASSUME ~excused PROVE Steady'
  <2>1. Steady
    BY <1>1, <1>3
  <2>2. Older'
    BY <1>1, <2>1 DEF Steady, Older, Granting, Sized
  <2>3. side = "server" => ServerOK'
    BY <1>1, <2>1 DEF Steady, ServerOK, Granting
  <2>4. side = "device" => CarriesOK'
    BY <1>1, <2>1 DEF Steady, CarriesOK, Sized
  <2>5. side = "device" => ContextsOK' /\ TurnsOK'
    BY <1>1, <2>1 DEF Steady, ContextsOK, TurnsOK, Holding, Renewed
  <2> QED
    BY <2>2, <2>3, <2>4, <2>5 DEF Steady
<1> QED
  BY <1>1, <1>2, <1>3 DEF LoginInv

LEMMA GetKeeps ==
  ASSUME LoginInv, NEW u \in User, get(u)
  PROVE  LoginInv'
<1>1. TokenTypes /\ Sized /\ (excused \/ Steady)
  BY TokensAre DEF LoginInv
<1>2. UNCHANGED <<side, service, stored, contexts, cached, native, turns, excused, taken, bearer>>
  BY DEF get, pastVars
<1>3. PICK place \in {"calling", "waiting", "loading"} :
        /\ at' = [at EXCEPT ![u] = place]
        /\ place = "loading" /\ side = "device" => cached = 0 /\ loader = NoUser /\ loader' = u
        /\ UNCHANGED loader \/ loader = NoUser
  BY DEF get
<1>a. using' \in [User -> Contexts \cup {0}] /\ \A v \in User : v # u => using'[v] = using[v]
  <2>1. using' = using \/ using' = [using EXCEPT ![u] = cached]
    BY DEF get
  <2>2. cached \in Contexts \cup {0} /\ using \in [User -> Contexts \cup {0}]
    BY <1>1 DEF TokenTypes
  <2> QED
    BY <2>1, <2>2
<1>4. at' \in [User -> Place] /\ at'[u] = place /\ \A v \in User : v # u => at'[v] = at[v]
  BY <1>1, <1>3 DEF TokenTypes, Place
<1>5. service' \in [access : Nat, refresh : Nat, live : BOOLEAN] /\ taken' \in [User -> Pairs] /\ bearer' \in [User -> Nat]
  BY <1>1, <1>2 DEF TokenTypes
<1>6. CASE excused
  BY <1>1, <1>2, <1>a, <1>4, <1>6 DEF LoginInv, TokenTypes
<1>7. CASE ~excused
  <2>1. side = "device" => \A v \in User : at[v] = "loading" => cached = 0 /\ loader = v
    BY <1>1, <1>7 DEF Steady, CarriesOK
  <2>2. side = "device" =>
          \A v \in User :
             /\ at'[v] \in {"sent", "refused"} =>
                  \/ at[v] \in {"sent", "refused"} /\ using'[v] = using[v] /\ bearer'[v] = bearer[v]
                  \/ using'[v] \in Contexts /\ bearer'[v] = contexts[using'[v]].access
             /\ at'[v] = "loading" => cached = 0 /\ loader' = v
    BY <1>2, <1>3, <1>a, <1>4, <2>1, TokenAssumption
  <2> QED
    BY <1>2, <1>a, <1>4, <1>5, <2>2, UsersMoveKeeps
<1> QED
  BY <1>6, <1>7

LEMMA LoadReadsKeeps ==
  ASSUME LoginInv, NEW u \in User, LoadReads(u)
  PROVE  LoginInv'
<1>1. TokenTypes /\ Sized /\ (excused \/ Steady)
  BY TokensAre DEF LoginInv
<1>2. /\ taken' = [taken EXCEPT ![u] = stored]
      /\ UNCHANGED <<side, service, stored, contexts, cached, native, turns, excused, at, using, bearer, loader>>
  BY DEF LoadReads, callVars, pastVars
<1>3. TokenTypes' /\ \A v \in User : taken'[v] \in {taken[v], stored}
  BY <1>1, <1>2 DEF TokenTypes
<1>4. CASE excused
  BY <1>2, <1>3, <1>4 DEF LoginInv
<1>5. CASE ~excused
  <2>1. side = "device" => \A v \in User : at[v] = "loading" => cached = 0 /\ loader = v
    BY <1>1, <1>5 DEF Steady, CarriesOK
  <2> QED
    BY <1>2, <1>3, <2>1, UsersMoveKeeps DEF TokenTypes
<1> QED
  BY <1>4, <1>5

\* A call is sent with the token its context was loaded with.
LEMMA CallKeeps ==
  ASSUME LoginInv, NEW u \in User, callTracker(u)
  PROVE  LoginInv'
<1> DEFINE context == IF side = "device" THEN native ELSE using[u]
<1>1. TokenTypes /\ Sized /\ (excused \/ Steady) /\ context \in Contexts \cup {0}
  BY TokensAre DEF LoginInv, TokenTypes
<1>2. /\ UNCHANGED <<side, service, stored, contexts, cached, native, turns, excused, taken, loader>>
      /\ \/ /\ context # 0
            /\ using' = [using EXCEPT ![u] = context]
            /\ bearer' = [bearer EXCEPT ![u] = contexts[context].access]
            /\ at' = [at EXCEPT ![u] = "sent"]
         \/ /\ at' = [at EXCEPT ![u] = "failed"]
            /\ UNCHANGED <<using, bearer>>
  BY DEF callTracker, loadVars, pastVars
<1> HIDE DEF context
<1>3. /\ TokenTypes'
      /\ \A v \in User : v # u => at'[v] = at[v] /\ using'[v] = using[v] /\ bearer'[v] = bearer[v]
      /\ at'[u] = "failed" \/ (at'[u] = "sent" /\ using'[u] \in Contexts /\ bearer'[u] = contexts[using'[u]].access)
  <2>1. CASE context # 0 /\ using' = [using EXCEPT ![u] = context] /\ at' = [at EXCEPT ![u] = "sent"]
             /\ bearer' = [bearer EXCEPT ![u] = contexts[context].access]
    <3>1. context \in Contexts /\ contexts[context].access \in Nat
      BY <1>1, <2>1 DEF Sized
    <3> QED
      BY <1>1, <1>2, <2>1, <3>1 DEF TokenTypes, Place
  <2>2. CASE at' = [at EXCEPT ![u] = "failed"] /\ UNCHANGED <<using, bearer>>
    BY <1>1, <1>2, <2>2 DEF TokenTypes, Place
  <2> QED
    BY <1>2, <2>1, <2>2
<1>4. CASE excused
  BY <1>2, <1>3, <1>4 DEF LoginInv
<1>5. CASE ~excused
  <2>1. side = "device" => \A v \in User : at[v] = "loading" => cached = 0 /\ loader = v
    BY <1>1, <1>5 DEF Steady, CarriesOK
  <2> QED
    BY <1>2, <1>3, <2>1, UsersMoveKeeps DEF TokenTypes
<1> QED
  BY <1>4, <1>5

LEMMA AnsweredKeeps ==
  ASSUME LoginInv, NEW u \in User, Answered(u)
  PROVE  LoginInv'
<1>1. TokenTypes /\ Sized /\ (excused \/ Steady)
  BY TokensAre DEF LoginInv
<1>2. /\ UNCHANGED <<side, service, stored, contexts, cached, native, turns, excused, taken, loader, using, bearer>>
  BY DEF Answered, loadVars, pastVars
<1>a. PICK place \in {"served", "refused", "failed"} :
        at' = [at EXCEPT ![u] = place] /\ (place = "refused" => at[u] = "sent")
  BY DEF Answered
<1>3. TokenTypes' /\ at'[u] = place /\ \A v \in User : v # u => at'[v] = at[v]
  <2>1. at' \in [User -> Place] /\ at'[u] = place /\ \A v \in User : v # u => at'[v] = at[v]
    BY <1>1, <1>a DEF TokenTypes, Place
  <2> QED
    BY <1>1, <1>2, <2>1 DEF TokenTypes
<1>4. CASE excused
  BY <1>2, <1>3, <1>4 DEF LoginInv
<1>5. CASE ~excused
  <2>1. side = "device" => \A v \in User : at[v] = "loading" => cached = 0 /\ loader = v
    BY <1>1, <1>5 DEF Steady, CarriesOK
  <2> QED
    BY <1>2, <1>a, <1>3, <2>1, UsersMoveKeeps DEF TokenTypes
<1> QED
  BY <1>4, <1>5

LEMMA ExpireKeeps ==
  ASSUME LoginInv, Expire
  PROVE  LoginInv'
<1>1. TokenTypes /\ Sized /\ (excused \/ Steady)
  BY TokensAre DEF LoginInv
<1>2. /\ UNCHANGED <<side, stored, contexts, cached, native, turns, excused, taken, loader, using, bearer, at>>
      /\ service' = [service EXCEPT !.live = FALSE]
  BY DEF Expire, loadVars, callVars
<1>3. /\ service' \in [access : Nat, refresh : Nat, live : BOOLEAN]
      /\ service'.access = service.access /\ service'.refresh = service.refresh
  BY <1>1, <1>2 DEF TokenTypes
<1>4. CASE excused
  BY <1>1, <1>2, <1>3, <1>4 DEF LoginInv, TokenTypes
<1>5. CASE ~excused
  <2>1. side = "device" => \A v \in User : at[v] = "loading" => cached = 0 /\ loader = v
    BY <1>1, <1>5 DEF Steady, CarriesOK
  <2> QED
    BY <1>1, <1>2, <1>3, <2>1, UsersMoveKeeps DEF TokenTypes
<1> QED
  BY <1>4, <1>5

-----------------------------------------------------------------------------
(* A load *)

\* Told that it is stale, a load leaves no native context.
LEMMA LoadIsDoneAgain ==
  ASSUME LoginInv, NEW u \in User, LoadEnds(u), outdated
  PROVE  LoginInv'
<1>1. TokenTypes /\ Sized /\ (excused \/ Steady)
  BY TokensAre DEF LoginInv
<1>2. /\ side = "device" /\ at[u] = "loading" /\ taken' = [taken EXCEPT ![u] = NoPair] /\ native' = 0
      /\ UNCHANGED <<side, service, stored, contexts, cached, loader, at, using, bearer, turns, excused>>
  BY DEF LoadEnds, pastVars
<1>3. TokenTypes' /\ \A v \in User : taken'[v] \in {taken[v], NoPair}
  BY <1>1, <1>2 DEF TokenTypes, Sized
<1>4. ASSUME ~excused PROVE Steady'
  <2>1. Steady /\ cached = 0
    BY <1>1, <1>2, <1>4 DEF Steady, CarriesOK
  <2>2. Older'
    BY <1>1, <1>2, <1>3, <2>1 DEF Steady, Older, Granting, Sized
  <2>3. CarriesOK'
    BY <1>1, <1>2, <1>3, <2>1 DEF Steady, CarriesOK, Sized
  <2>4. ContextsOK' /\ TurnsOK'
    BY <1>2, <2>1 DEF Steady, ContextsOK, TurnsOK, Holding, Renewed
  <2> QED
    BY <1>2, <2>2, <2>3, <2>4 DEF Steady
<1> QED
  BY <1>1, <1>2, <1>3, <1>4 DEF LoginInv

\* What is loaded is what was stored, in a context that nobody was using.
LEMMA LoadKeeps ==
  ASSUME LoginInv, NEW u \in User, LoadEnds(u), ~outdated
  PROVE  LoginInv'
<1>1. TokenTypes /\ Sized /\ (excused \/ Steady)
  BY TokensAre DEF LoginInv
<1>2. PICK j \in Contexts : cached' = j /\ Unused(j)
  BY DEF LoadEnds
<1>3. /\ at[u] = "loading" /\ taken' = [taken EXCEPT ![u] = NoPair]
      /\ contexts' = [contexts EXCEPT ![j] = loadTracker(taken[u])]
      /\ native' = IF side = "device" THEN j ELSE 0
      /\ loader' = NoUser
      /\ UNCHANGED <<side, service, stored, bearer, turns, excused>>
  BY <1>2 DEF LoadEnds, pastVars
<1> DEFINE handed == {u} \cup {v \in User : at[v] = "waiting"}
<1>4. /\ at' = [v \in User |-> IF v \in handed THEN "calling" ELSE at[v]]
      /\ using' = [v \in User |-> IF v \in handed THEN j ELSE using[v]]
  BY <1>2 DEF LoadEnds
<1>5. PICK x \in Context : x = loadTracker(taken[u])
  BY <1>1 DEF loadTracker, Context, Sized
<1>6. /\ contexts' \in [Contexts -> Context] /\ contexts'[j] = x
      /\ \A i \in Contexts : i # j => contexts'[i] = contexts[i]
  BY <1>1, <1>3, <1>5, ContextWritten
<1>7. /\ x.access = taken[u].access /\ x.current = x.access /\ x.refresh = taken[u].refresh /\ x.renewing = "no"
      /\ x.pending = NoPair
  BY <1>5 DEF loadTracker
<1>8. TokenTypes' /\ \A v \in User : taken'[v] \in {taken[v], NoPair}
  <2>1. at' \in [User -> Place] /\ using' \in [User -> Contexts \cup {0}]
    BY <1>1, <1>4 DEF TokenTypes, Place
  <2>2. taken' \in [User -> Pairs] /\ \A v \in User : taken'[v] \in {taken[v], NoPair}
    BY <1>1, <1>3 DEF TokenTypes, Sized
  <2> QED
    BY <1>1, <1>2, <1>3, <1>6, <2>1, <2>2 DEF TokenTypes
<1>9. ASSUME ~excused PROVE Steady'
  <2>1. Steady
    BY <1>1, <1>9
  <2>2. Older'
    BY <1>1, <1>3, <1>6, <1>7, <1>8, <2>1 DEF Steady, Older, Granting, Sized
  <2>3. ASSUME side = "server" PROVE ServerOK'
    BY <1>1, <1>2, <1>3, <1>6, <1>7, <1>8, <2>1, <2>3 DEF Steady, ServerOK, Granting, Sized, Unused
  <2>4. ASSUME side = "device" PROVE CarriesOK' /\ ContextsOK' /\ TurnsOK'
    <3>1. CarriesOK /\ ContextsOK /\ TurnsOK /\ cached = 0 /\ loader = u /\ native' = j
      BY <1>3, <2>1, <2>4 DEF Steady, CarriesOK
    <3>2. \A i \in Contexts : ~Holding(i)
      BY <1>1, <3>1 DEF ContextsOK, Sized
    <3>3. \A v \in User : at'[v] \in {"sent", "refused"} =>
            at[v] = at'[v] /\ using'[v] = using[v] /\ using[v] # j
      BY <1>2, <1>4 DEF Unused
    <3>4. \A v \in User : at'[v] # "loading"
      BY <1>3, <1>4, <3>1 DEF CarriesOK
    <3>5. CarriesOK'
      BY <1>1, <1>3, <1>6, <1>8, <3>1, <3>3, <3>4 DEF CarriesOK, Sized
    <3>6. \A i \in Contexts : ~Holding(i)' /\ (i # j => (Renewed(i)' <=> Renewed(i)))
      BY <1>6, <1>7, <3>2 DEF Holding, Renewed
    <3>7. ContextsOK'
      BY <1>1, <1>2, <1>3, <1>6, <1>7, <3>1, <3>6 DEF ContextsOK, CarriesOK, Renewed, Sized
    <3>8. TurnsOK'
      BY <1>3, <3>1, <3>2, <3>6 DEF TurnsOK
    <3> QED
      BY <3>5, <3>7, <3>8
  <2> QED
    BY <1>3, <2>2, <2>3, <2>4 DEF Steady
<1> QED
  BY <1>1, <1>3, <1>8, <1>9 DEF LoginInv

-----------------------------------------------------------------------------
(* A renewal *)

LEMMA RenewalMarked ==
  ASSUME TokenTypes, NEW i \in Contexts, NEW how \in {"no", "asked", "granted", "saved"},
         contexts' = [contexts EXCEPT ![i].renewing = how]
  PROVE  /\ contexts' \in [Contexts -> Context]
         /\ \A j \in Contexts :
              /\ contexts'[j].access = contexts[j].access /\ contexts'[j].current = contexts[j].current
              /\ contexts'[j].refresh = contexts[j].refresh /\ contexts'[j].pending = contexts[j].pending
              /\ contexts'[j].got = contexts[j].got
              /\ j # i => contexts'[j].renewing = contexts[j].renewing
         /\ contexts'[i].renewing = how
<1>1. contexts[i] \in Context /\ [contexts[i] EXCEPT !.renewing = how] \in Context
  <2>1. contexts[i] \in Context
    BY DEF TokenTypes
  <2> QED
    BY <2>1 DEF Context
<1>2. contexts' = [contexts EXCEPT ![i] = [contexts[i] EXCEPT !.renewing = how]]
  OBVIOUS
<1>3. /\ contexts' \in [Contexts -> Context] /\ contexts'[i] = [contexts[i] EXCEPT !.renewing = how]
      /\ \A j \in Contexts : j # i => contexts'[j] = contexts[j]
  BY <1>1, <1>2, ContextWritten
<1> QED
  BY <1>1, <1>3 DEF Context

\* A renewal that is asked for, and one that fails, change nothing that is known.
LEMMA AskingKeeps ==
  ASSUME LoginInv, UNCHANGED <<side, service, stored, cached, native, turns, excused, taken, using, bearer, loader>>,
         NEW i \in Contexts, NEW how \in {"no", "asked"}, contexts[i].renewing \in {"no", "asked"},
         side = "device" /\ how = "asked" => ~Renewed(i),
         contexts' = [contexts EXCEPT ![i].renewing = how],
         at' \in [User -> Place], \A v \in User : at'[v] \in {"sent", "refused", "loading"} => at'[v] = at[v]
  PROVE  LoginInv'
<1>1. TokenTypes /\ Sized /\ (excused \/ Steady)
  BY TokensAre DEF LoginInv
<1>2. /\ contexts' \in [Contexts -> Context]
      /\ \A j \in Contexts :
           /\ contexts'[j].access = contexts[j].access /\ contexts'[j].current = contexts[j].current
           /\ contexts'[j].refresh = contexts[j].refresh /\ contexts'[j].pending = contexts[j].pending
           /\ contexts'[j].got = contexts[j].got
           /\ j # i => contexts'[j].renewing = contexts[j].renewing
      /\ contexts'[i].renewing = how
  BY <1>1, RenewalMarked
<1>3. TokenTypes'
  BY <1>1, <1>2 DEF TokenTypes
<1>4. /\ \A j \in Contexts : /\ Granting(j)' <=> Granting(j)
                             /\ Renewed(j)' <=> Renewed(j)
                             /\ Holding(j)' <=> Holding(j)
                             /\ contexts'[j].renewing = "saved" => contexts[j].renewing = "saved"
                             /\ side = "device" /\ contexts'[j].renewing # "no" => contexts[j].renewing # "no" \/ ~Renewed(j)
  BY <1>2 DEF Granting, Renewed, Holding
<1>5. ASSUME ~excused PROVE Steady'
  <2>1. Steady
    BY <1>1, <1>5
  <2>2. Older'
    BY <1>2, <1>4, <2>1 DEF Steady, Older
  <2>3. side = "server" => ServerOK'
    BY <1>2, <1>4, <2>1 DEF Steady, ServerOK
  <2>4. side = "device" => CarriesOK' /\ TurnsOK'
    BY <1>2, <1>4, <2>1 DEF Steady, CarriesOK, TurnsOK
  <2>5. ASSUME side = "device" PROVE ContextsOK'
    <3>1. ContextsOK
      BY <2>1, <2>5 DEF Steady
    <3>2. \A j \in Contexts : contexts'[j].renewing # "no" => ~Renewed(j)' /\ contexts'[j].renewing # "saved"
      <4>1. \A j \in Contexts : j # i /\ contexts'[j].renewing # "no" => ~Renewed(j) /\ contexts'[j].renewing # "saved"
        BY <1>2, <3>1 DEF ContextsOK
      <4>2. contexts'[i].renewing # "no" => ~Renewed(i) /\ contexts'[i].renewing # "saved"
        BY <1>2, <2>5
      <4> QED
        BY <1>4, <4>1, <4>2
    <3>3. \A j \in Contexts : contexts'[j].pending # NoPair =>
             Renewed(j)' /\ contexts'[j].pending.refresh = service'.refresh
      BY <1>2, <1>4, <3>1 DEF ContextsOK
    <3>4. \A j \in Contexts : /\ ~Renewed(j)' => contexts'[j].refresh <= stored'.refresh
                              /\ Holding(j)' => j = cached' /\ turns' = <<>> /\ stored'.refresh < service'.refresh
      BY <1>2, <1>4, <3>1 DEF ContextsOK
    <3>5. native # 0 /\ cached = 0 => Renewed(native)' \/ contexts'[native].refresh < service'.refresh
      BY <1>1, <1>2, <1>4, <3>1 DEF ContextsOK, TokenTypes
    <3> QED
      BY <3>1, <3>2, <3>3, <3>4, <3>5 DEF ContextsOK
  <2> QED
    BY <2>2, <2>3, <2>4, <2>5 DEF Steady
<1> QED
  BY <1>1, <1>3, <1>5 DEF LoginInv

LEMMA RequestKeeps ==
  ASSUME LoginInv, NEW u \in User, request(u)
  PROVE  LoginInv'
<1>1. TokenTypes /\ Sized /\ (excused \/ Steady)
  BY TokensAre DEF LoginInv
<1>2. /\ UNCHANGED <<side, service, stored, cached, native, loader, taken, using, bearer, turns, excused>>
      /\ at[u] = "refused"
  BY DEF request, pastVars
<1>3. PICK place \in {"renewing", "failed"} : at' = [at EXCEPT ![u] = place]
  BY DEF request
<1>4. /\ at' \in [User -> Place]
      /\ \A v \in User : at'[v] \in {"sent", "refused", "loading"} => at'[v] = at[v]
  BY <1>1, <1>3 DEF TokenTypes, Place
<1>5. CASE contexts' = contexts
  <2>1. CASE excused
    BY <1>1, <1>2, <1>4, <1>5, <2>1 DEF LoginInv, TokenTypes
  <2>2. CASE ~excused
    <3>1. side = "device" => \A v \in User : at[v] = "loading" => cached = 0 /\ loader = v
      BY <1>1, <2>2 DEF Steady, CarriesOK
    <3>2. /\ service' \in [access : Nat, refresh : Nat, live : BOOLEAN] /\ taken' \in [User -> Pairs]
          /\ using' \in [User -> Contexts \cup {0}] /\ bearer' \in [User -> Nat]
      BY <1>1, <1>2 DEF TokenTypes
    <3> QED
      BY <1>2, <1>4, <1>5, <3>1, <3>2, UsersMoveKeeps
  <2> QED
    BY <2>1, <2>2
<1>6. CASE contexts' # contexts
  <2>1. /\ contexts' = [contexts EXCEPT ![using[u]].renewing = "asked"] /\ contexts[using[u]].renewing = "no"
        /\ contexts[using[u]].current = bearer[u]
    BY <1>6 DEF request
  <2>2. using[u] \in Contexts
    <3>1. contexts = [j \in Contexts |-> contexts[j]]
      BY <1>1 DEF TokenTypes
    <3> QED
      BY <1>6, <2>1, <3>1
  <2>3. CASE excused
    <3>1. contexts' \in [Contexts -> Context]
      BY <1>1, <2>1, <2>2, RenewalMarked
    <3> QED
      BY <1>1, <1>2, <1>4, <2>3, <3>1 DEF LoginInv, TokenTypes
  <2>4. CASE ~excused
    <3>1. side = "device" => ~Renewed(using[u])
      BY <1>1, <1>2, <2>1, <2>4 DEF Steady, CarriesOK, Renewed
    <3> QED
      BY <1>2, <1>4, <2>1, <2>2, <3>1, AskingKeeps
  <2> QED
    BY <2>3, <2>4
<1> QED
  BY <1>5, <1>6

LEMMA FailingKeeps ==
  ASSUME LoginInv, NEW i \in Contexts, contexts[i].renewing = "asked", RenewalFails(i),
         UNCHANGED <<side, service, stored, cached, native, turns, excused, taken, using, bearer, loader>>
  PROVE  LoginInv'
<1>1. TokenTypes
  BY DEF LoginInv
<1>2. contexts' = [contexts EXCEPT ![i].renewing = "no"]
  BY DEF RenewalFails
<1>3. /\ at' \in [User -> Place]
      /\ \A v \in User : at'[v] \in {"sent", "refused", "loading"} => at'[v] = at[v]
  BY <1>1 DEF RenewalFails, TokenTypes, Place
<1> QED
  BY <1>2, <1>3, AskingKeeps

\* No other renewed pair is on its way when the service renews one.
LEMMA NobodyElse ==
  ASSUME TokenTypes, Steady, NEW i \in Contexts, contexts[i].renewing = "asked", contexts[i].refresh = service.refresh
  PROVE  /\ \A j \in Contexts : ~Granting(j)
         /\ side = "device" => /\ \A j \in Contexts : ~Holding(j)
                               /\ turns = <<>> /\ stored.refresh = service.refresh
                               /\ i = native => i = cached
<1>1. Sized
  BY TokensAre
<1>2. CASE side = "server"
  BY <1>1, <1>2 DEF Steady, ServerOK, Sized
<1>3. CASE side = "device"
  <2>1. stored.refresh = service.refresh
    BY <1>1, <1>3 DEF Steady, ContextsOK, Older, Sized
  <2>2. turns = <<>>
    BY <1>1, <1>3, <2>1 DEF Steady, TurnsOK, Sized
  <2>3. \A j \in Contexts : ~Holding(j)
    BY <1>1, <1>3, <2>1 DEF Steady, ContextsOK, Sized
  <2>4. i = native => i = cached
    BY <1>1, <1>3 DEF Steady, ContextsOK, Sized
  <2> QED
    BY <1>3, <2>1, <2>2, <2>3, <2>4 DEF Holding, Granting
<1> QED
  BY <1>2, <1>3 DEF TokenTypes

\* The service renews a pair: it is the only one on its way, and newer than all others.
LEMMA GrantKeeps ==
  ASSUME LoginInv, NEW i \in Contexts, NEW omits \in BOOLEAN,
         contexts[i].renewing = "asked", contexts[i].refresh = service.refresh,
         service' = Granted(omits),
         contexts' = [contexts EXCEPT ![i].renewing = "granted", ![i].got = Sent(omits)],
         excused' = (excused \/ omits \/ (side = "device" /\ i # native)),
         UNCHANGED <<side, stored, cached, native, turns, taken, using, bearer, loader, at>>
  PROVE  LoginInv'
<1>1. TokenTypes /\ Sized /\ (excused \/ Steady)
  BY TokensAre DEF LoginInv
<1>2. PICK pair \in Pairs : pair = Sent(omits)
  <2>1. /\ Sent(omits).access = service.access + 1 /\ Sent(omits).refresh \in {0, service.access + 1}
        /\ Sent(omits) = [access |-> Sent(omits).access, refresh |-> Sent(omits).refresh]
    BY DEF Sent, Pair
  <2>2. service.access + 1 \in Nat /\ 0 \in Nat
    BY <1>1 DEF Sized
  <2>3. Sent(omits) \in Pairs
    BY <2>1, <2>2 DEF Pairs
  <2> QED
    BY <2>3
<1>3. contexts' = [contexts EXCEPT ![i] = [contexts[i] EXCEPT !.renewing = "granted", !.got = pair]]
  BY <1>1, <1>2 DEF TokenTypes, Context
<1>4. /\ contexts' \in [Contexts -> Context]
      /\ \A j \in Contexts :
           /\ contexts'[j].access = contexts[j].access /\ contexts'[j].current = contexts[j].current
           /\ contexts'[j].refresh = contexts[j].refresh /\ contexts'[j].pending = contexts[j].pending
           /\ j # i => contexts'[j].renewing = contexts[j].renewing /\ contexts'[j].got = contexts[j].got
      /\ contexts'[i].renewing = "granted" /\ contexts'[i].got = pair
  BY <1>1, <1>3, RenewalMoves
<1>5. service' \in [access : Nat, refresh : Nat, live : BOOLEAN] /\ service'.access = service.access + 1
  BY <1>1 DEF Granted, Sized
<1>6. TokenTypes'
  BY <1>1, <1>4, <1>5 DEF TokenTypes
<1>7. ASSUME ~excused' PROVE Steady'
  <2>1. Steady /\ ~excused /\ ~omits /\ (side = "device" => i = native)
    BY <1>1, <1>7
  <2>2. /\ service'.refresh = service.access + 1
        /\ pair.access = service.access + 1 /\ pair.refresh = service.access + 1
    BY <1>2, <2>1 DEF Granted, Sent, Pair
  <2>3. /\ \A j \in Contexts : ~Granting(j)
        /\ side = "device" => /\ \A j \in Contexts : ~Holding(j)
                              /\ turns = <<>> /\ stored.refresh = service.refresh /\ i = cached
    BY <1>1, <2>1, NobodyElse
  <2>4. \A j \in Contexts : /\ Granting(j)' <=> j = i
                            /\ Renewed(j)' <=> Renewed(j)
                            /\ j # i => contexts'[j].renewing = contexts[j].renewing /\ contexts'[j].got = contexts[j].got
    BY <1>4, <2>3 DEF Granting, Renewed
  <2>5. Older'
    <3>1. /\ service'.refresh <= service'.access
          /\ stored.access <= service'.access /\ stored.refresh <= service'.refresh
          /\ \A u \in User : taken[u].access <= service'.access /\ taken[u].refresh <= service'.refresh
      BY <1>1, <1>5, <2>1, <2>2 DEF Steady, Older, Sized
    <3>2. \A j \in Contexts :
            /\ contexts'[j].access <= service'.access /\ contexts'[j].refresh <= service'.refresh
            /\ contexts'[j].pending.access <= service'.access
      BY <1>1, <1>4, <1>5, <2>1, <2>2 DEF Steady, Older, Sized
    <3>3. \A j \in Contexts : contexts'[j].renewing = "saved" => contexts'[j].got.refresh <= service'.refresh
      BY <1>1, <1>4, <2>1, <2>2 DEF Steady, Older, Sized
    <3>4. contexts'[i].access < contexts'[i].got.access
      BY <1>1, <1>4, <2>1, <2>2 DEF Steady, Older, Sized
    <3>5. contexts'[i].got.access <= service'.access /\ contexts'[i].got.refresh = service'.refresh
      BY <1>1, <1>4, <1>5, <2>2 DEF Sized
    <3> QED
      BY <2>4, <3>1, <3>2, <3>3, <3>4, <3>5 DEF Older
  <2>6. ASSUME side = "server" PROVE ServerOK'
    <3>1. /\ stored.refresh < service'.refresh
          /\ \A u \in User : taken[u].refresh < service'.refresh
          /\ \A j \in Contexts : /\ contexts'[j].refresh < service'.refresh
                                 /\ contexts'[j].renewing = "saved" => contexts'[j].got.refresh < service'.refresh
      BY <1>1, <1>4, <2>1, <2>2 DEF Steady, Older, Sized
    <3> QED
      BY <2>1, <2>4, <2>6, <3>1 DEF Steady, ServerOK
  <2>7. ASSUME side = "device" PROVE CarriesOK' /\ ContextsOK' /\ TurnsOK'
    <3>1. CarriesOK /\ ContextsOK /\ TurnsOK /\ stored.refresh < service'.refresh
      BY <1>1, <2>1, <2>2, <2>7 DEF Steady, Older, Sized
    <3>2. CarriesOK'
      BY <1>4, <3>1 DEF CarriesOK
    <3>3. Holding(i)' /\ \A j \in Contexts : Holding(j)' => j = i
      BY <1>4, <2>3, <2>7 DEF Holding
    <3>4. \A j \in Contexts : contexts'[j].pending = NoPair
      BY <1>4, <2>3, <2>7 DEF Holding
    <3>5. ~Renewed(i)
      BY <3>1 DEF ContextsOK
    <3>6. ContextsOK'
      BY <1>1, <1>4, <2>3, <2>4, <2>7, <3>1, <3>3, <3>4, <3>5 DEF ContextsOK, Sized
    <3>7. TurnsOK'
      BY <2>3, <2>7, <3>3 DEF TurnsOK
    <3> QED
      BY <3>2, <3>6, <3>7
  <2> QED
    BY <2>5, <2>6, <2>7 DEF Steady
<1> QED
  BY <1>1, <1>6, <1>7 DEF LoginInv

LEMMA DoRefreshKeeps ==
  ASSUME LoginInv, NEW i \in Contexts, doRefresh(i)
  PROVE  LoginInv'
<1>1. CASE contexts[i].refresh # service.refresh
  BY <1>1, FailingKeeps DEF doRefresh
<1>2. CASE contexts[i].refresh = service.refresh
  <2>1. PICK omits \in BOOLEAN :
          /\ service' = Granted(omits)
          /\ contexts' = [contexts EXCEPT ![i].renewing = "granted", ![i].got = Sent(omits)]
          /\ excused' = (excused \/ omits \/ (side = "device" /\ i # native))
    BY <1>2 DEF doRefresh
  <2> QED
    BY <1>2, <2>1, GrantKeeps DEF doRefresh
<1> QED
  BY <1>1, <1>2

LEMMA RefreshLostKeeps ==
  ASSUME LoginInv, NEW i \in Contexts, RefreshLost(i)
  PROVE  LoginInv'
<1>1. CASE UNCHANGED <<service, excused>>
  BY <1>1, FailingKeeps DEF RefreshLost
<1>2. CASE service' = Granted(FALSE) /\ excused' = TRUE
  <2>1. TokenTypes /\ Sized
    BY TokensAre DEF LoginInv
  <2>2. service' \in [access : Nat, refresh : Nat, live : BOOLEAN]
    BY <1>2, <2>1 DEF Granted, Sized
  <2>3. contexts' \in [Contexts -> Context]
    BY <2>1, RenewalMarked DEF RefreshLost, RenewalFails
  <2>4. at' \in [User -> Place]
    BY <2>1 DEF RefreshLost, RenewalFails, TokenTypes, Place
  <2> QED
    BY <1>2, <2>1, <2>2, <2>3, <2>4 DEF LoginInv, TokenTypes, RefreshLost
<1> QED
  BY <1>1, <1>2 DEF RefreshLost

\* A server stores the pair it was granted: nothing is on its way any more.
LEMMA SaveKeeps ==
  ASSUME LoginInv, NEW i \in Contexts, Save(i)
  PROVE  LoginInv'
<1>1. TokenTypes /\ Sized /\ (excused \/ Steady)
  BY TokensAre DEF LoginInv
<1>2. /\ side = "server" /\ Granting(i) /\ stored' = contexts[i].got
      /\ contexts' = [contexts EXCEPT ![i].renewing = "saved"]
      /\ UNCHANGED <<side, service, cached, native, taken, at, using, bearer, turns, excused>>
  BY DEF Save, callVars, pastVars, Granting
<1>3. /\ contexts' \in [Contexts -> Context]
      /\ \A j \in Contexts :
           /\ contexts'[j].access = contexts[j].access /\ contexts'[j].current = contexts[j].current
           /\ contexts'[j].refresh = contexts[j].refresh /\ contexts'[j].pending = contexts[j].pending
           /\ contexts'[j].got = contexts[j].got
           /\ j # i => contexts'[j].renewing = contexts[j].renewing
      /\ contexts'[i].renewing = "saved"
  BY <1>1, <1>2, RenewalMarked
<1>4. TokenTypes'
  BY <1>1, <1>2, <1>3 DEF TokenTypes, Sized
<1>5. ASSUME ~excused PROVE Steady'
  <2>1. Older /\ ServerOK
    BY <1>1, <1>2, <1>5 DEF Steady
  <2>2. stored'.refresh = service.refresh /\ stored'.access <= service.access
    BY <1>2, <2>1 DEF Older
  <2>3. \A j \in Contexts : ~Granting(j)'
    BY <1>2, <1>3, <2>1 DEF ServerOK, Granting
  <2>4. \A j \in Contexts : contexts'[j].renewing = "saved" => contexts'[j].got.refresh <= service.refresh
    <3>1. contexts[i].got.refresh <= service.refresh
      BY <1>1, <1>2, <2>1 DEF Older, Sized
    <3> QED
      BY <1>3, <2>1, <3>1 DEF Older
  <2>5. Older'
    BY <1>1, <1>2, <1>3, <2>1, <2>2, <2>3, <2>4 DEF Older, Sized
  <2>6. ServerOK'
    BY <1>2, <2>1, <2>2, <2>3 DEF ServerOK
  <2> QED
    BY <1>2, <2>5, <2>6 DEF Steady
<1> QED
  BY <1>1, <1>2, <1>4, <1>5 DEF LoginInv

\* The network takes up the renewed pair, and its tracker goes on with the token it has.
LEMMA OnRefreshedKeeps ==
  ASSUME LoginInv, NEW i \in Contexts, onRefreshed(i)
  PROVE  LoginInv'
<1>1. TokenTypes /\ Sized /\ (excused \/ Steady)
  BY TokensAre DEF LoginInv
<1>2. PICK got \in Pairs : got = contexts[i].got
  BY <1>1 DEF Sized
<1>3. PICK x \in Context :
        /\ x.access = contexts[i].access /\ x.current = got.access
        /\ x.refresh = (IF got.refresh = 0 THEN contexts[i].refresh ELSE got.refresh)
        /\ x.renewing = "no" /\ x.got = NoPair
        /\ x.pending = (IF side = "device" THEN got ELSE NoPair)
        /\ contexts' = [contexts EXCEPT ![i] = x]
  <2> DEFINE x == [contexts[i] EXCEPT !.current = got.access,
                                      !.refresh = IF got.refresh = 0 THEN @ ELSE got.refresh,
                                      !.renewing = "no", !.got = NoPair,
                                      !.pending = IF side = "device" THEN got ELSE NoPair]
  <2>1. contexts[i] \in Context /\ got.access \in Nat /\ got.refresh \in Nat
    BY <1>1, <1>2 DEF Sized, Pairs
  <2>2. x \in Context
    BY <1>1, <2>1 DEF Sized, Context
  <2>3. contexts' = [contexts EXCEPT ![i] = x]
    BY <1>1, <1>2 DEF onRefreshed, TokenTypes
  <2> QED
    BY <2>1, <2>2, <2>3 DEF Context
<1>4. /\ contexts' \in [Contexts -> Context] /\ contexts'[i] = x
      /\ \A j \in Contexts : j # i => contexts'[j] = contexts[j]
  BY <1>1, <1>3, ContextWritten
<1>5. /\ contexts[i].renewing = (IF side = "device" THEN "granted" ELSE "saved")
      /\ bearer' = [u \in User |-> IF u \in Joined(i) THEN got.access ELSE bearer[u]]
      /\ at' = [u \in User |-> IF u \in Joined(i) THEN "retrying" ELSE at[u]]
      /\ cached' = IF side = "server" THEN 0 ELSE cached
      /\ UNCHANGED <<side, service, stored, native, loader, taken, using, turns, excused>>
  BY <1>2 DEF onRefreshed, pastVars
<1>6. /\ at' \in [User -> Place] /\ bearer' \in [User -> Nat]
      /\ \A v \in User : at'[v] # "retrying" => at'[v] = at[v] /\ (at[v] # "renewing" => bearer'[v] = bearer[v])
  <2>1. got.access \in Nat
    BY <1>1, <1>2 DEF Sized
  <2> QED
    BY <1>1, <1>5, <2>1 DEF TokenTypes, Place, Joined
<1>7. TokenTypes'
  <2>1. cached' \in Contexts \cup {0}
    BY <1>1, <1>5 DEF TokenTypes
  <2> QED
    BY <1>1, <1>4, <1>5, <1>6, <2>1 DEF TokenTypes
<1>8. ASSUME ~excused PROVE Steady'
  <2>1. Steady
    BY <1>1, <1>8
  <2>2. x.refresh <= service.refresh /\ x.pending.access <= service.access
    BY <1>1, <1>2, <1>3, <1>5, <2>1 DEF Steady, Older, Granting, Sized
  <2>3. Older'
    BY <1>1, <1>3, <1>4, <1>5, <2>1, <2>2 DEF Steady, Older, Granting, Sized
  <2>4. ASSUME side = "server" PROVE ServerOK'
    <3>1. ServerOK /\ ~Granting(i) /\ \A j \in Contexts : Granting(j)' <=> Granting(j)
      BY <1>3, <1>4, <1>5, <2>1, <2>4 DEF Steady, Granting
    <3>2. \A j \in Contexts : Granting(j) => x.refresh < service.refresh
      BY <1>2, <1>3, <1>5, <2>4, <3>1 DEF ServerOK
    <3> QED
      BY <1>3, <1>4, <1>5, <2>4, <3>1, <3>2 DEF ServerOK
  <2>5. ASSUME side = "device" PROVE CarriesOK' /\ ContextsOK' /\ TurnsOK'
    <3>1. CarriesOK /\ ContextsOK /\ TurnsOK
      BY <2>1, <2>5 DEF Steady
    <3>2. Holding(i) /\ i = cached /\ turns = <<>> /\ stored.refresh < service.refresh /\ cached' = cached /\ i = native
      BY <1>1, <1>5, <2>5, <3>1 DEF ContextsOK, Holding, Sized
    <3>3. x.pending = got /\ got.refresh = service.refresh /\ x.access < got.access
      BY <1>2, <1>3, <1>5, <2>1, <2>5 DEF Steady, Older, Granting
    <3>4. got # NoPair
      BY <1>1, <1>2, <1>3, <3>3 DEF Sized
    <3>5. /\ Renewed(i)' /\ Holding(i)' /\ x.renewing = "no"
          /\ \A j \in Contexts : j # i => (Renewed(j)' <=> Renewed(j)) /\ (Holding(j)' <=> Holding(j))
      BY <1>1, <1>3, <1>4, <3>3, <3>4 DEF Renewed, Holding, Sized
    <3>6. CarriesOK'
      <4>1. \A j \in Contexts : contexts'[j].access = contexts[j].access
        BY <1>3, <1>4
      <4> QED
        BY <1>5, <1>6, <3>1, <3>2, <4>1 DEF CarriesOK
    <3>7. ContextsOK'
      BY <1>4, <1>5, <3>1, <3>2, <3>3, <3>5, <1>1 DEF ContextsOK, Sized
    <3>8. TurnsOK'
      BY <1>5, <3>1, <3>2, <3>5 DEF TurnsOK
    <3> QED
      BY <3>6, <3>7, <3>8
  <2> QED
    BY <1>5, <2>3, <2>4, <2>5 DEF Steady
<1> QED
  BY <1>1, <1>5, <1>7, <1>8 DEF LoginInv

-----------------------------------------------------------------------------
(* A call's end, and the turns *)

\* A call that finds nothing to fetch.
LEMMA QuietEndKeeps ==
  ASSUME LoginInv, NEW u \in User, afterCall(u), contexts' = contexts, turns' = turns
  PROVE  LoginInv'
<1>1. TokenTypes /\ Sized /\ (excused \/ Steady)
  BY TokensAre DEF LoginInv
<1>2. UNCHANGED <<side, service, stored, contexts, cached, native, taken, turns, excused, loader>>
  BY DEF afterCall, pastVars
<1>3. PICK place \in {"idle", "calling", "draining"} : at' = [at EXCEPT ![u] = place]
  BY DEF afterCall
<1>4. at' \in [User -> Place] /\ at'[u] = place /\ \A v \in User : v # u => at'[v] = at[v]
  BY <1>1, <1>3 DEF TokenTypes, Place
<1>5. /\ using' \in [User -> Contexts \cup {0}] /\ \A v \in User : v # u => using'[v] = using[v]
      /\ bearer' \in [User -> Nat] /\ \A v \in User : v # u => bearer'[v] = bearer[v]
  BY <1>1 DEF afterCall, TokenTypes
<1>6. CASE excused
  BY <1>1, <1>2, <1>4, <1>5, <1>6 DEF LoginInv, TokenTypes
<1>7. CASE ~excused
  <2>1. side = "device" => \A v \in User : at[v] = "loading" => cached = 0 /\ loader = v
    BY <1>1, <1>7 DEF Steady, CarriesOK
  <2>2. service' \in [access : Nat, refresh : Nat, live : BOOLEAN] /\ taken' \in [User -> Pairs]
    BY <1>1, <1>2 DEF TokenTypes
  <2> QED
    BY <1>2, <1>3, <1>4, <1>5, <2>1, <2>2, UsersMoveKeeps
<1> QED
  BY <1>6, <1>7

\* The pair put aside by the native context is the latest, and goes last.
LEMMA FetchKeeps ==
  ASSUME LoginInv, NEW u \in User, afterCall(u), contexts' # contexts \/ turns' # turns
  PROVE  LoginInv'
<1>1. TokenTypes /\ Sized /\ (excused \/ Steady)
  BY TokensAre DEF LoginInv
<1>2. /\ UNCHANGED <<side, service, stored, cached, native, taken, excused, loader, using>>
      /\ native # 0 /\ contexts[native].pending # NoPair
      /\ contexts' = [contexts EXCEPT ![native].pending = NoPair]
      /\ turns' = Append(turns, [by |-> u, pair |-> contexts[native].pending])
      /\ at' = [at EXCEPT ![u] = "draining"] /\ bearer' = [bearer EXCEPT ![u] = 0]
  BY DEF afterCall, pastVars
<1>3. native \in Contexts
  BY <1>1, <1>2 DEF TokenTypes
<1>4. PICK x \in Context :
        /\ x.access = contexts[native].access /\ x.current = contexts[native].current
        /\ x.refresh = contexts[native].refresh /\ x.renewing = contexts[native].renewing
        /\ x.got = contexts[native].got /\ x.pending = NoPair
        /\ contexts' = [contexts EXCEPT ![native] = x]
  <2> DEFINE x == [contexts[native] EXCEPT !.pending = NoPair]
  <2>1. contexts[native] \in Context
    BY <1>1, <1>3 DEF TokenTypes
  <2>2. x \in Context
    BY <1>1, <2>1 DEF Sized, Context
  <2> QED
    BY <1>2, <2>1, <2>2 DEF Context
<1>5. /\ contexts' \in [Contexts -> Context] /\ contexts'[native] = x
      /\ \A j \in Contexts : j # native => contexts'[j] = contexts[j]
  BY <1>1, <1>3, <1>4, ContextWritten
<1>6. PICK t \in Turn : t.by = u /\ t.pair = contexts[native].pending /\ turns' = Append(turns, t)
  <2>1. [by |-> u, pair |-> contexts[native].pending] \in Turn
    BY <1>1, <1>3 DEF Turn, Sized
  <2> QED
    BY <1>2, <2>1
<1>7. TokenTypes'
  <2>1. at' \in [User -> Place] /\ bearer' \in [User -> Nat]
    BY <1>1, <1>2 DEF TokenTypes, Place
  <2>2. turns' \in Seq(Turn)
    BY <1>1, <1>6, AppendProperties DEF TokenTypes
  <2> QED
    BY <1>1, <1>2, <1>5, <2>1, <2>2 DEF TokenTypes
<1>8. ASSUME ~excused PROVE Steady'
  <2>1. Steady
    BY <1>1, <1>8
  <2>2. Older'
    <3>1. \A j \in Contexts :
            /\ contexts'[j].access = contexts[j].access /\ contexts'[j].refresh = contexts[j].refresh
            /\ contexts'[j].renewing = contexts[j].renewing /\ contexts'[j].got = contexts[j].got
            /\ contexts'[j].pending \in {contexts[j].pending, NoPair}
      BY <1>4, <1>5
    <3>2. Older /\ NoPair.access <= service.access
      BY <1>1, <2>1 DEF Steady, Sized
    <3> QED
      BY <1>2, <3>1, <3>2 DEF Older, Granting
  <2>3. side = "device"
    BY <1>1, <1>2, <2>1 DEF Steady, ServerOK, TokenTypes
  <2>4. CarriesOK /\ ContextsOK /\ TurnsOK
    BY <2>1, <2>3 DEF Steady
  <2>5. /\ native = cached /\ turns = <<>> /\ stored.refresh < service.refresh /\ Renewed(native)
        /\ contexts[native].pending.refresh = service.refresh /\ contexts[native].renewing = "no"
    BY <1>2, <1>3, <2>4 DEF ContextsOK, Holding
  <2>6. turns' = <<t>> /\ Len(turns') = 1 /\ turns'[1] = t
    BY <1>6, <2>5
  <2>7. \A j \in Contexts : ~Holding(j)' /\ (Renewed(j)' <=> Renewed(j)) /\ contexts'[j].refresh = contexts[j].refresh
                            /\ contexts'[j].access = contexts[j].access
    BY <1>1, <1>3, <1>4, <1>5, <2>4, <2>5 DEF ContextsOK, Holding, Renewed, Sized
  <2>8. CarriesOK'
    <3>1. \A v \in User : at'[v] # "draining" => at'[v] = at[v] /\ bearer'[v] = bearer[v]
      BY <1>1, <1>2 DEF TokenTypes
    <3> QED
      BY <1>2, <2>4, <2>7, <3>1 DEF CarriesOK
  <2>9. ContextsOK'
    BY <1>1, <1>2, <1>3, <1>4, <1>5, <2>4, <2>5, <2>7 DEF ContextsOK, Sized
  <2>10. TurnsOK'
    <3>1. t.pair.access <= service.access /\ t.pair.refresh = service.refresh
      BY <1>3, <1>6, <2>1, <2>5 DEF Steady, Older
    <3>2. \A m \in 1..Len(turns') : m = 1
      BY <2>6
    <3> QED
      BY <1>2, <2>5, <2>6, <3>1, <3>2 DEF TurnsOK
  <2> QED
    BY <1>2, <2>2, <2>3, <2>8, <2>9, <2>10 DEF Steady
<1> QED
  BY <1>1, <1>2, <1>7, <1>8 DEF LoginInv

\* The first of the turns is stored: it is older than all that wait behind it.
LEMMA TurnKeeps ==
  ASSUME LoginInv, drainAndPersist
  PROVE  LoginInv'
<1>1. TokenTypes /\ Sized /\ (excused \/ Steady)
  BY TokensAre DEF LoginInv
<1>2. turns # <<>> /\ Len(turns) > 0 /\ Head(turns) = turns[1] /\ 1 \in 1..Len(turns)
  BY <1>1 DEF drainAndPersist, TokenTypes, Sized
<1>3. /\ stored' = turns[1].pair /\ turns' = Tail(turns) /\ cached' = 0
      /\ UNCHANGED <<side, service, contexts, loader, taken, bearer>>
      /\ native' = native \/ (cached # 0 /\ native' = 0)
  BY <1>2 DEF drainAndPersist, Drop
<1>a. excused' \in BOOLEAN /\ (excused => excused')
  BY <1>1 DEF drainAndPersist, Drop, TokenTypes
<1>4. /\ at' \in [User -> Place] /\ using' \in [User -> Contexts \cup {0}]
      /\ \A v \in User : at'[v] \notin {"idle", "calling"} => at'[v] = at[v] /\ using'[v] = using[v]
  <2>1. CASE UNCHANGED <<at, using>>
    BY <1>1, <2>1 DEF TokenTypes
  <2>2. CASE /\ turns[1].by # NoUser
             /\ \/ at' = [at EXCEPT ![turns[1].by] = "idle"] /\ using' = [using EXCEPT ![turns[1].by] = 0]
                \/ at' = [at EXCEPT ![turns[1].by] = "calling"] /\ UNCHANGED using
    <3>1. turns[1].by \in User
      BY <1>1, <1>2, <2>2 DEF Sized
    <3> QED
      BY <1>1, <2>2, <3>1 DEF TokenTypes, Place
  <2> QED
    BY <1>2, <2>1, <2>2 DEF drainAndPersist
<1>5. /\ Len(turns') = Len(turns) - 1 /\ turns' \in Seq(Turn)
      /\ \A m \in 1..Len(turns') : turns'[m] = turns[m + 1] /\ m + 1 \in 1..Len(turns)
  BY <1>1, <1>2, <1>3, HeadTailProperties DEF TokenTypes
<1>6. TokenTypes'
  <2>1. stored' \in Pairs
    BY <1>1, <1>2, <1>3 DEF Sized
  <2>2. native' \in Contexts \cup {0} /\ cached' \in Contexts \cup {0} /\ excused' \in BOOLEAN
    BY <1>1, <1>3, <1>a DEF TokenTypes
  <2> QED
    BY <1>1, <1>3, <1>4, <1>5, <2>1, <2>2 DEF TokenTypes
<1>7. ASSUME ~excused' PROVE Steady'
  <2>1. Steady /\ ~excused
    BY <1>1, <1>a, <1>7
  <2>2. side = "device"
    BY <1>1, <1>2, <2>1 DEF Steady, ServerOK, TokenTypes
  <2>3. Older /\ CarriesOK /\ ContextsOK /\ TurnsOK
    BY <2>1, <2>2 DEF Steady
  <2>4. \A m \in 1..Len(turns) : turns[m].pair.refresh <= service.refresh
    <3>1. turns[Len(turns)].pair.refresh = service.refresh /\ Len(turns) \in 1..Len(turns)
      BY <1>1, <1>2, <2>3 DEF TurnsOK, Sized
    <3>2. \A m \in 1..Len(turns) : m # Len(turns) => m < Len(turns)
      BY <1>1 DEF Sized
    <3> QED
      BY <1>1, <2>3, <3>1, <3>2 DEF TurnsOK, Sized
  <2>5. /\ stored.refresh < stored'.refresh /\ stored'.refresh <= service.refresh /\ stored'.access <= service.access
        /\ stored'.refresh \in Nat
    BY <1>1, <1>2, <1>3, <2>3, <2>4 DEF TurnsOK, Sized
  <2>6. Older'
    BY <1>3, <2>3, <2>5 DEF Older, Granting
  <2>7. CarriesOK'
    <3>1. \A v \in User : taken[v].refresh <= stored'.refresh
      BY <1>1, <2>3, <2>5 DEF CarriesOK, Sized
    <3>2. \A v \in User : at'[v] \in {"sent", "refused", "loading"} => at'[v] = at[v] /\ using'[v] = using[v]
      BY <1>4
    <3> QED
      BY <1>3, <2>3, <3>1, <3>2 DEF CarriesOK
  <2>8. ContextsOK'
    <3>1. \A j \in Contexts : ~Holding(j)' /\ ~Holding(j) /\ (Renewed(j)' <=> Renewed(j))
      BY <1>2, <1>3, <2>3 DEF ContextsOK, Holding, Renewed
    <3>2. \A j \in Contexts : ~Renewed(j) => contexts[j].refresh <= stored'.refresh /\ contexts[j].refresh < service.refresh
      BY <1>1, <2>3, <2>5 DEF ContextsOK, Sized
    <3> QED
      BY <1>1, <1>3, <2>3, <3>1, <3>2 DEF ContextsOK, TokenTypes
  <2>9. TurnsOK'
    <3>1. \A m \in 1..Len(turns') : turns'[m].pair.access <= service.access /\ stored'.refresh < turns'[m].pair.refresh
      <4>1. \A m \in 1..Len(turns') : 1 < m + 1
        BY <1>5
      <4> QED
        BY <1>2, <1>3, <1>5, <2>3, <4>1 DEF TurnsOK
    <3>2. \A m, n \in 1..Len(turns') : m < n => turns'[m].pair.refresh < turns'[n].pair.refresh
      <4>1. \A m, n \in 1..Len(turns') : m < n => m + 1 < n + 1
        BY <1>1, <1>5 DEF Sized
      <4> QED
        BY <1>5, <2>3, <4>1 DEF TurnsOK
    <3>3. turns' # <<>> => turns'[Len(turns')].pair.refresh = service.refresh
      <4>1. turns' # <<>> => Len(turns') \in 1..Len(turns') /\ Len(turns') + 1 = Len(turns)
        BY <1>1, <1>5 DEF Sized
      <4> QED
        BY <1>2, <1>5, <2>3, <4>1 DEF TurnsOK
    <3>4. turns' = <<>> => stored'.refresh = service.refresh
      <4>1. turns' = <<>> => Len(turns) = 1
        BY <1>1, <1>5 DEF Sized
      <4> QED
        BY <1>2, <1>3, <2>3, <4>1 DEF TurnsOK
    <3> QED
      BY <1>3, <3>1, <3>2, <3>3, <3>4 DEF TurnsOK
  <2> QED
    BY <1>3, <2>2, <2>6, <2>7, <2>8, <2>9 DEF Steady
<1> QED
  BY <1>6, <1>7 DEF LoginInv

-----------------------------------------------------------------------------
(* What drops the loaded tracker, logins and restarts *)

LEMMA DropKeeps ==
  ASSUME LoginInv, Drop, UNCHANGED <<side, service, stored, contexts, loader, taken, at, using, bearer, turns>>
  PROVE  LoginInv'
<1>1. TokenTypes /\ Sized /\ (excused \/ Steady)
  BY TokensAre DEF LoginInv
<1>2. TokenTypes'
  BY <1>1 DEF Drop, TokenTypes
<1>3. ASSUME ~excused' PROVE Steady'
  <2>1. Steady /\ (cached # 0 /\ native # 0 => ~Holding(native))
    BY <1>1, <1>3 DEF Drop
  <2>2. cached' = 0 /\ native' = IF cached # 0 THEN 0 ELSE native
    BY DEF Drop
  <2>3. Older'
    BY <2>1 DEF Steady, Older, Granting
  <2>4. side = "server" => ServerOK'
    BY <2>1, <2>2 DEF Steady, ServerOK, Granting
  <2>5. ASSUME side = "device" PROVE CarriesOK' /\ ContextsOK' /\ TurnsOK'
    <3>1. CarriesOK /\ ContextsOK /\ TurnsOK
      BY <2>1, <2>5 DEF Steady
    <3>2. \A j \in Contexts : ~Holding(j) /\ ~Holding(j)' /\ (Renewed(j)' <=> Renewed(j))
      BY <1>1, <2>1, <3>1 DEF ContextsOK, Holding, Renewed, Sized
    <3>3. CarriesOK'
      BY <2>2, <3>1 DEF CarriesOK
    <3>4. ContextsOK'
      BY <1>1, <2>2, <3>1, <3>2 DEF ContextsOK, TokenTypes
    <3>5. TurnsOK'
      BY <3>1, <3>2 DEF TurnsOK
    <3> QED
      BY <3>3, <3>4, <3>5
  <2> QED
    BY <2>3, <2>4, <2>5 DEF Steady
<1> QED
  BY <1>1, <1>2, <1>3 DEF LoginInv

\* The pair of a login is the latest, and nothing else is on its way.
LEMMA LoginKeeps ==
  ASSUME LoginInv, Login
  PROVE  LoginInv'
<1>1. TokenTypes /\ Sized /\ (excused \/ Steady)
  BY TokensAre DEF LoginInv
<1>2. PICK token \in Nat : token = service.access + 1
  BY <1>1 DEF Sized
<1>3. /\ service' = [access |-> token, refresh |-> token, live |-> TRUE]
      /\ UNCHANGED <<side, contexts, cached, native, loader, taken, at, using, bearer>>
      /\ excused' = (excused \/ \E i \in Contexts : Holding(i))
  BY <1>2 DEF Login, loadVars, callVars
<1>4. PICK t \in Turn : /\ t.by = NoUser /\ t.pair = Pair(token, token) /\ t.pair.access = token /\ t.pair.refresh = token
                        /\ t.pair \in Pairs
  <2>1. Pair(token, token) \in Pairs /\ Pair(token, token).access = token /\ Pair(token, token).refresh = token
    BY DEF Pair, Pairs
  <2>2. [by |-> NoUser, pair |-> Pair(token, token)] \in Turn
    BY <2>1 DEF Turn
  <2> QED
    BY <2>1, <2>2
<1>5. \/ side = "device" /\ turns' = Append(turns, t) /\ stored' = stored
      \/ side = "server" /\ stored' = t.pair /\ turns' = turns
  <2>1. t = [by |-> NoUser, pair |-> Pair(token, token)]
    BY <1>4 DEF Turn
  <2> QED
    BY <1>2, <1>4, <2>1 DEF Login
<1>6. TokenTypes'
  <2>1. service' \in [access : Nat, refresh : Nat, live : BOOLEAN] /\ excused' \in BOOLEAN
    BY <1>1, <1>3 DEF TokenTypes
  <2>2. Append(turns, t) \in Seq(Turn)
    BY <1>1, AppendProperties DEF TokenTypes
  <2>3. turns' \in Seq(Turn) /\ stored' \in Pairs
    BY <1>1, <1>4, <1>5, <2>2 DEF TokenTypes
  <2> QED
    BY <1>1, <1>3, <2>1, <2>3 DEF TokenTypes
<1>7. ASSUME ~excused' PROVE Steady'
  <2>1. Steady /\ \A j \in Contexts : ~Holding(j) /\ ~Holding(j)' /\ ~Granting(j)' /\ (Renewed(j)' <=> Renewed(j))
    BY <1>1, <1>3, <1>7 DEF Holding, Granting, Renewed
  <2>2. /\ service'.access = token /\ service'.refresh = token
        /\ service.access < token /\ service.refresh < token
    BY <1>1, <1>2, <1>3, <2>1 DEF Steady, Older, Sized
  <2>3. stored'.access <= token /\ stored'.refresh <= token
    BY <1>1, <1>4, <1>5, <2>1, <2>2 DEF Steady, Older, Sized
  <2>4. Older'
    <3>1. \A u \in User : taken[u].access <= token /\ taken[u].refresh <= token
      BY <1>1, <2>1, <2>2 DEF Steady, Older, Sized
    <3>2. \A i \in Contexts :
            /\ contexts[i].access <= token /\ contexts[i].refresh <= token /\ contexts[i].pending.access <= token
            /\ contexts[i].renewing = "saved" => contexts[i].got.refresh <= token
      BY <1>1, <2>1, <2>2 DEF Steady, Older, Sized
    <3> QED
      BY <1>3, <2>1, <2>2, <2>3, <3>1, <3>2 DEF Older
  <2>5. ASSUME side = "server" PROVE ServerOK'
    BY <1>3, <1>4, <1>5, <2>1, <2>2, <2>5 DEF Steady, ServerOK
  <2>6. ASSUME side = "device" PROVE CarriesOK' /\ ContextsOK' /\ TurnsOK'
    <3>1. /\ CarriesOK /\ ContextsOK /\ TurnsOK /\ stored' = stored
          /\ turns' = Append(turns, t)
      BY <1>5, <2>1, <2>6 DEF Steady
    <3>2. CarriesOK'
      BY <1>3, <3>1 DEF CarriesOK
    <3>3. ContextsOK'
      <4>1. \A j \in Contexts : contexts[j].refresh < token /\ contexts[j].pending = NoPair
        BY <1>1, <2>1, <2>2 DEF Steady, Older, Sized, Holding
      <4> QED
        BY <1>1, <1>3, <2>1, <2>2, <3>1, <4>1 DEF ContextsOK, TokenTypes
    <3>4. /\ Len(turns') = Len(turns) + 1 /\ turns'[Len(turns')] = t
          /\ \A m \in 1..Len(turns) : turns'[m] = turns[m]
          /\ \A m \in 1..Len(turns') : m = Len(turns') \/ m \in 1..Len(turns)
      BY <1>1, <3>1, AppendProperties DEF TokenTypes
    <3>5. \A m \in 1..Len(turns) : turns[m].pair.refresh < token /\ turns[m].pair.access <= token
      <4>1. \A m \in 1..Len(turns) : m = Len(turns) \/ (m < Len(turns) /\ Len(turns) \in 1..Len(turns))
        BY <1>1 DEF Sized
      <4>2. \A m \in 1..Len(turns) : turns[m].pair.refresh <= turns[Len(turns)].pair.refresh
        BY <1>1, <3>1, <4>1 DEF TurnsOK, Sized
      <4>3. \A m \in 1..Len(turns) : turns[Len(turns)].pair.refresh = service.refresh
        BY <1>1, <3>1 DEF TurnsOK, Sized
      <4> QED
        BY <1>1, <2>2, <3>1, <4>2, <4>3 DEF TurnsOK, Sized
    <3>6. stored.refresh < token
      BY <1>1, <2>1, <2>2 DEF Steady, Older, Sized
    <3>7. TurnsOK'
      <4>1. \A m \in 1..Len(turns') : turns'[m].pair.access <= token /\ stored.refresh < turns'[m].pair.refresh
        BY <1>4, <3>1, <3>4, <3>5, <3>6 DEF TurnsOK
      <4>2. \A m, n \in 1..Len(turns') : m < n => turns'[m].pair.refresh < turns'[n].pair.refresh
        <5>1. SUFFICES ASSUME NEW m \in 1..Len(turns'), NEW n \in 1..Len(turns'), m < n
                       PROVE  turns'[m].pair.refresh < turns'[n].pair.refresh
          OBVIOUS
        <5>2. m \in 1..Len(turns) /\ turns'[m] = turns[m]
          BY <1>1, <3>4, <5>1 DEF Sized
        <5>3. CASE n = Len(turns')
          BY <1>4, <3>4, <3>5, <5>2, <5>3
        <5>4. CASE n \in 1..Len(turns)
          BY <3>1, <3>4, <5>1, <5>2, <5>4 DEF TurnsOK
        <5> QED
          BY <3>4, <5>3, <5>4
      <4>3. turns' # <<>>
        BY <1>1, <3>4 DEF Sized
      <4> QED
        BY <1>4, <2>2, <3>1, <3>4, <4>1, <4>2, <4>3 DEF TurnsOK
    <3> QED
      BY <3>2, <3>3, <3>7
  <2> QED
    BY <1>3, <2>4, <2>5, <2>6 DEF Steady
<1> QED
  BY <1>6, <1>7 DEF LoginInv

\* A process that starts has what is stored, and nothing loaded or on its way.
LEMMA Fresh ==
  ASSUME side' \in {"device", "server"}, service' \in [access : Nat, refresh : Nat, live : BOOLEAN],
         stored' \in Pairs, excused' \in BOOLEAN,
         contexts' = [i \in Contexts |-> loadTracker(NoPair)], cached' = 0, native' = 0,
         taken' = [u \in User |-> NoPair], at' = [u \in User |-> "idle"],
         using' = [u \in User |-> 0], bearer' = [u \in User |-> 0], turns' = <<>>,
         ~excused' => /\ stored'.refresh = service'.refresh
                      /\ service'.refresh <= service'.access /\ stored'.access <= service'.access
  PROVE  LoginInv'
<1>1. PICK x \in Context : x = loadTracker(NoPair)
  BY DEF loadTracker, Context, NoPair, Pairs
<1>2. /\ x.access = 0 /\ x.current = 0 /\ x.refresh = 0 /\ x.renewing = "no" /\ x.pending = NoPair
      /\ NoPair \in Pairs /\ NoPair.access = 0 /\ NoPair.refresh = 0
  BY <1>1 DEF loadTracker, NoPair, Pairs
<1>3. /\ contexts' \in [Contexts -> Context] /\ \A i \in Contexts : contexts'[i] = x
      /\ taken' \in [User -> Pairs] /\ \A u \in User : taken'[u] = NoPair
      /\ at' \in [User -> Place] /\ \A u \in User : at'[u] = "idle"
      /\ using' \in [User -> Contexts \cup {0}] /\ bearer' \in [User -> Nat]
  BY <1>1, <1>2 DEF Place
<1>4. turns' \in Seq(Turn) /\ Len(turns') = 0
  OBVIOUS
<1>5. TokenTypes'
  BY <1>3, <1>4 DEF TokenTypes
<1>6. ASSUME ~excused' PROVE Steady'
  <2>1. \A i \in Contexts : ~Granting(i)' /\ ~Holding(i)' /\ ~Renewed(i)'
    BY <1>2, <1>3 DEF Granting, Holding, Renewed
  <2>2. service'.access \in Nat /\ service'.refresh \in Nat /\ stored'.refresh \in Nat /\ stored'.access \in Nat
    BY DEF Pairs
  <2>3. Older'
    BY <1>2, <1>3, <1>6, <2>1, <2>2 DEF Older
  <2>4. ServerOK'
    BY <1>6, <2>1 DEF ServerOK
  <2>5. CarriesOK' /\ ContextsOK' /\ TurnsOK'
    BY <1>2, <1>3, <1>4, <1>6, <2>1, <2>2 DEF CarriesOK, ContextsOK, TurnsOK
  <2> QED
    BY <2>3, <2>4, <2>5 DEF Steady
<1> QED
  BY <1>5, <1>6 DEF LoginInv

LEMMA RestartKeeps ==
  ASSUME LoginInv, Restart
  PROVE  LoginInv'
<1>1. TokenTypes /\ (excused \/ Steady)
  BY DEF LoginInv
<1>2. /\ side' \in {"device", "server"} /\ service' \in [access : Nat, refresh : Nat, live : BOOLEAN]
      /\ stored' \in Pairs /\ excused' \in BOOLEAN
  BY <1>1 DEF Restart, TokenTypes
<1>3. ~excused' => /\ stored'.refresh = service'.refresh
                   /\ service'.refresh <= service'.access /\ stored'.access <= service'.access
  BY <1>1 DEF Restart, Steady, Older
<1> QED
  BY <1>2, <1>3, Fresh DEF Restart

-----------------------------------------------------------------------------
(* The theorem *)

LEMMA LoginStartsRight == TokenInit => LoginInv
<1> SUFFICES ASSUME TokenInit PROVE LoginInv
  OBVIOUS
<1>1. PICK x \in Context : x = loadTracker(NoPair)
  BY DEF loadTracker, Context, NoPair, Pairs
<1>2. /\ x.access = 0 /\ x.current = 0 /\ x.refresh = 0 /\ x.renewing = "no" /\ x.pending = NoPair
      /\ NoPair \in Pairs /\ NoPair.access = 0 /\ NoPair.refresh = 0
  BY <1>1 DEF loadTracker, NoPair, Pairs
<1>3. stored \in Pairs /\ stored.access = 1 /\ stored.refresh = 1 /\ service.access = 1 /\ service.refresh = 1
  BY DEF TokenInit, Pair, Pairs
<1>4. /\ contexts \in [Contexts -> Context] /\ \A i \in Contexts : contexts[i] = x
      /\ taken \in [User -> Pairs] /\ \A u \in User : taken[u] = NoPair
      /\ at \in [User -> Place] /\ \A u \in User : at[u] = "idle"
      /\ using \in [User -> Contexts \cup {0}] /\ bearer \in [User -> Nat]
  BY <1>1, <1>2 DEF TokenInit, Place
<1>a. turns = <<>> /\ turns \in Seq(Turn) /\ Len(turns) = 0
  BY DEF TokenInit
<1>b. cached = 0 /\ native = 0 /\ excused \in BOOLEAN
  BY DEF TokenInit
<1>5. TokenTypes
  BY <1>3, <1>4, <1>a, <1>b, TokenAssumption DEF TokenInit, TokenTypes
<1>6. \A i \in Contexts : ~Granting(i) /\ ~Holding(i) /\ ~Renewed(i)
  BY <1>2, <1>4 DEF Granting, Holding, Renewed
<1>7. Older
  BY <1>2, <1>3, <1>4, <1>6 DEF Older
<1>8. ServerOK /\ CarriesOK /\ ContextsOK /\ TurnsOK
  BY <1>2, <1>3, <1>4, <1>6, <1>a, <1>b DEF ServerOK, CarriesOK, ContextsOK, TurnsOK
<1> QED
  BY <1>5, <1>7, <1>8 DEF LoginInv, Steady

LEMMA LoginStaysRight == LoginInv /\ [TokenNext]_tokenVars => LoginInv'
<1> SUFFICES ASSUME LoginInv, [TokenNext]_tokenVars PROVE LoginInv'
  OBVIOUS
<1>1. CASE UNCHANGED tokenVars
  <2>1. /\ UNCHANGED <<side, service, stored, contexts, cached, native, turns, excused, taken, at, using, bearer>>
        /\ loader' = loader
    BY <1>1 DEF tokenVars
  <2>2. TokenTypes' <=> TokenTypes
    BY <2>1 DEF TokenTypes
  <2>3. \A i \in Contexts : (Granting(i)' <=> Granting(i)) /\ (Holding(i)' <=> Holding(i)) /\ (Renewed(i)' <=> Renewed(i))
    BY <2>1 DEF Granting, Holding, Renewed
  <2>4. Older => Older'
    BY <2>1, <2>3 DEF Older
  <2>5. ServerOK => ServerOK'
    BY <2>1, <2>3 DEF ServerOK
  <2>6. CarriesOK => CarriesOK'
    BY <2>1 DEF CarriesOK
  <2>7. TokenTypes /\ ContextsOK => ContextsOK'
    BY <2>1, <2>3 DEF ContextsOK, TokenTypes
  <2>8. TurnsOK => TurnsOK'
    BY <2>1, <2>3 DEF TurnsOK
  <2> QED
    BY <2>1, <2>2, <2>4, <2>5, <2>6, <2>7, <2>8 DEF LoginInv, Steady
<1>2. CASE \E u \in User : get(u)
  BY <1>2, GetKeeps
<1>3. ASSUME NEW u \in User, UserStep(u) PROVE LoginInv'
  <2>1. CASE LoadEnds(u)
    BY <2>1, LoadIsDoneAgain, LoadKeeps
  <2>2. CASE afterCall(u)
    BY <2>2, QuietEndKeeps, FetchKeeps
  <2> QED
    BY <1>3, <2>1, <2>2, LoadReadsKeeps, CallKeeps, AnsweredKeeps, RequestKeeps DEF UserStep
<1>4. ASSUME NEW i \in Contexts, ContextStep(i) \/ RefreshLost(i) PROVE LoginInv'
  BY <1>4, DoRefreshKeeps, SaveKeeps, OnRefreshedKeeps, RefreshLostKeeps DEF ContextStep
<1>5. CASE drainAndPersist
  BY <1>5, TurnKeeps
<1>6. CASE Login
  BY <1>6, LoginKeeps
<1>7. CASE LoginEnds \/ refresh
  BY <1>7, DropKeeps DEF LoginEnds, refresh, callVars
<1>8. CASE Expire
  BY <1>8, ExpireKeeps
<1>9. CASE Restart
  BY <1>9, RestartKeeps
<1> QED
  BY <1>1, <1>2, <1>3, <1>4, <1>5, <1>6, <1>7, <1>8, <1>9 DEF TokenNext

\* The pair that the service takes is stored, granted, put aside, or the last of the turns.
LEMMA SomebodyHasIt == LoginInv => LoginKept
<1> SUFFICES ASSUME LoginInv, ~excused PROVE \E pair \in Holders : pair.refresh = service.refresh
  BY DEF LoginKept
<1>1. TokenTypes /\ Sized /\ Steady
  BY TokensAre DEF LoginInv
<1>2. CASE stored.refresh = service.refresh
  BY <1>2 DEF Holders
<1>3. ASSUME NEW i \in Contexts, Granting(i) PROVE \E pair \in Holders : pair.refresh = service.refresh
  <2>1. contexts[i].got \in Holders
    BY <1>3 DEF Holders, Granting
  <2>2. contexts[i].got.refresh = service.refresh
    BY <1>1, <1>3 DEF Steady, Older
  <2> QED
    BY <2>1, <2>2
<1>4. CASE side = "server"
  BY <1>1, <1>2, <1>3, <1>4 DEF Steady, ServerOK
<1>5. CASE side = "device"
  <2>1. ContextsOK /\ TurnsOK
    BY <1>1, <1>5 DEF Steady
  <2>2. CASE turns # <<>>
    <3>1. Len(turns) \in DOMAIN turns
      BY <1>1, <2>2 DEF TokenTypes, Sized
    <3>2. turns[Len(turns)].pair \in Holders
      BY <3>1 DEF Holders
    <3> QED
      BY <2>1, <2>2, <3>2 DEF TurnsOK
  <2>3. ASSUME NEW i \in Contexts, Holding(i), ~Granting(i) PROVE \E pair \in Holders : pair.refresh = service.refresh
    <3>1. contexts[i].pending # NoPair /\ i = native /\ native # 0
      BY <1>1, <2>1, <2>3 DEF ContextsOK, Holding, Granting, Sized
    <3>2. contexts[i].pending \in Holders
      BY <3>1 DEF Holders
    <3> QED
      BY <2>1, <3>1, <3>2 DEF ContextsOK
  <2> QED
    BY <1>2, <1>3, <2>1, <2>2, <2>3 DEF TurnsOK
<1> QED
  BY <1>1, <1>4, <1>5 DEF TokenTypes

(* The login: in every execution, with any number of callers, contexts, expiries, *)
(* logins, drops and mishaps, the refresh token the service takes is stored or    *)
(* with someone who will store it, unless one of the losses named in the          *)
(* property has come first.                                                       *)
THEOREM LoginsAreKept == TokenSpec => []LoginKept
<1>1. TokenInit => LoginInv
  BY LoginStartsRight
<1>2. LoginInv /\ [TokenNext]_tokenVars => LoginInv'
  BY LoginStaysRight
<1>3. LoginInv => LoginKept
  BY SomebodyHasIt
<1> QED
  BY <1>1, <1>2, <1>3, PTL DEF TokenSpec
=============================================================================
