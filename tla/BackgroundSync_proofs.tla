----------------------- MODULE BackgroundSync_proofs -----------------------
(***************************************************************************)
(* Proof that a background check hides no update (NothingHidden), for any  *)
(* entries, any number of runs at once and of workers in each, and pages   *)
(* opened and stored at any time beside them.                              *)
(*                                                                         *)
(* A revision comes into the library from a check's answer, with a list    *)
(* fetched after it or with the list already there.  It is the second that *)
(* takes an argument: the answer matched the revision a run had read when  *)
(* it began, and the list the library holds is still at least as new as    *)
(* that (Covered), or the entry is one that was overtaken.  An entry is no *)
(* longer one when the source's own list is held: it covers every revision *)
(* there is, remembered or recorded.                                       *)
(***************************************************************************)
EXTENDS BackgroundSync, TLAPS

Revision == Nat \cup {None}
Checks == [Entry -> [rev : Revision, unchanged : BOOLEAN]]
RunOK(x) ==
  x \in [pc : {"idle", "listed", "working"}, left : {x.left}, first : {x.first}, partial : {x.partial},
         seen : [Entry -> Revision], checks : Checks, got : [Entry -> Revision]]

Types ==
  /\ source \in [Entry -> [version : Nat \ {0}, up : BOOLEAN]]
  /\ row \in [Entry -> [list : Nat, rev : Revision, gone : BOOLEAN]]
  /\ page \in [Entry -> Revision]
  /\ run = [r \in Run |-> run[r]] /\ \A r \in Run : RunOK(run[r])

\* The revision is of a list the source has had, and the list held is as new, unless overtaken.
Covered(e, v) == v <= source[e].version /\ (v <= row[e].list \/ e \in overtaken)

\* Every list is one the source had.
ListsAreTheSources ==
  \A e \in Entry :
    /\ row[e].list <= source[e].version
    /\ row[e].rev # None => row[e].rev <= source[e].version
    /\ page[e] # None => page[e] <= source[e].version
    /\ \A r \in Run : run[r].got[e] # None => run[r].got[e] <= source[e].version

\* What a run remembers of an entry: the revision it read when it began, then the source's answer,
\* which a list fetched since is as new as.
NoOlder(list, v) == list \notin {None, 0} => v <= list
RemembersOf(x, e) ==
  /\ x.seen[e] # None => Covered(e, x.seen[e])
  /\ x.checks[e].unchanged => x.checks[e].rev # None /\ Covered(e, x.checks[e].rev)
  /\ x.checks[e].rev # None => x.checks[e].rev <= source[e].version /\ NoOlder(x.got[e], x.checks[e].rev)
  /\ x.pc # "working" => x.got[e] = None
Remembers(r, e) == RemembersOf(run[r], e)

RunsRemember == \A r \in Run, e \in Entry : Remembers(r, e)

NothingHiddenInv == Types /\ NothingHidden /\ ListsAreTheSources /\ RunsRemember

-----------------------------------------------------------------------------
(* The steps of the sources, the bridges and the series pages               *)

LEMMA InitHidesNothing == Init => NothingHiddenInv
<1> SUFFICES ASSUME Init PROVE NothingHiddenInv
  OBVIOUS
<1>1. \A e \in Entry : source[e] = [version |-> 1, up |-> TRUE] /\ row[e] = [list |-> 0, rev |-> None, gone |-> FALSE]
                       /\ page[e] = None
  BY DEF Init
<1>2. \A r \in Run : run[r] = Idle
  BY DEF Init
<1>3. RunOK(Idle) /\ \A e \in Entry : Idle.seen[e] = None /\ Idle.checks[e] = NoCheck /\ Idle.got[e] = None
  BY DEF RunOK, Idle, NoCheck, Revision, Checks
<1>4. Types
  BY <1>1, <1>2, <1>3 DEF Init, Types, Revision
<1>5. NothingHidden /\ ListsAreTheSources
  BY <1>1, <1>2, <1>3, NoneAssumption DEF NothingHidden, Hidden, ListsAreTheSources
<1>6. RunsRemember
  BY <1>2, <1>3 DEF RunsRemember, Remembers, RemembersOf, NoCheck
<1> QED
  BY <1>4, <1>5, <1>6 DEF NothingHiddenInv

\* What every step starts from.
LEMMA Facts ==
  ASSUME NothingHiddenInv
  PROVE  /\ run = [q \in Run |-> run[q]] /\ \A q \in Run : RunOK(run[q]) /\ \A e \in Entry : RemembersOf(run[q], e)
         /\ row \in [Entry -> [list : Nat, rev : Revision, gone : BOOLEAN]]
         /\ page \in [Entry -> Revision] /\ source \in [Entry -> [version : Nat \ {0}, up : BOOLEAN]]
         /\ \A e \in Entry : /\ row[e].rev # None /\ row[e].rev > row[e].list => e \in overtaken
                             /\ row[e].rev # None => row[e].rev <= source[e].version
                             /\ row[e].list <= source[e].version /\ source[e].version \in Nat \ {0}
                             /\ row[e].list \in Nat /\ row[e].rev \in Revision
                             /\ page[e] # None => page[e] \in Nat /\ page[e] <= source[e].version
  BY DEF NothingHiddenInv, Types, NothingHidden, Hidden, ListsAreTheSources, RunsRemember, Remembers, Revision

\* What a run remembers is not touched by what moves nothing but the sources, and lists on their way.
LEMMA StillRemembered ==
  ASSUME NothingHiddenInv, NEW r \in Run, NEW e \in Entry, NEW x, RemembersOf(x, e), RunOK(x),
         row'[e].list = row[e].list, e \in overtaken' <=> e \in overtaken,
         source'[e].version \in Nat, source'[e].version >= source[e].version
  PROVE  RemembersOf(x, e)'
<1>1. source[e].version \in Nat /\ row[e].list \in Nat
  BY Facts
<1>2. /\ x.seen[e] # None => x.seen[e] \in Nat
      /\ x.checks[e].rev # None => x.checks[e].rev \in Nat
  BY DEF RunOK, Revision, Checks
<1> QED
  BY <1>1, <1>2 DEF RemembersOf, Covered

LEMMA PublishHidesNothing ==
  ASSUME NothingHiddenInv, NEW e \in Entry, Publish(e) \/ TakeDownOrRestore(e) \/ UninstallOrInstall(e)
  PROVE  NothingHiddenInv'
<1>1. UNCHANGED <<row, page, run, overtaken>>
  BY DEF Publish, TakeDownOrRestore, UninstallOrInstall
<1>2. source' \in [Entry -> [version : Nat \ {0}, up : BOOLEAN]] /\ \A x \in Entry : source'[x].version >= source[x].version
  <2>1. source \in [Entry -> [version : Nat \ {0}, up : BOOLEAN]]
    BY Facts
  <2>2. CASE Publish(e)
    BY <2>1, <2>2 DEF Publish
  <2>3. CASE TakeDownOrRestore(e)
    <3>1. (~source[e].up) \in BOOLEAN
      BY Zenon
    <3>2. PICK up \in BOOLEAN : source' = [source EXCEPT ![e].up = up]
      BY <2>3, <3>1, Zenon DEF TakeDownOrRestore
    <3> QED
      BY <2>1, <3>2
  <2>4. CASE UninstallOrInstall(e)
    BY <2>1, <2>4 DEF UninstallOrInstall
  <2> QED
    BY <2>2, <2>3, <2>4
<1>3. Types' /\ NothingHidden'
  BY <1>1, <1>2 DEF NothingHiddenInv, Types, NothingHidden, Hidden
<1>4. ListsAreTheSources'
  BY <1>1, <1>2 DEF NothingHiddenInv, Types, ListsAreTheSources, Revision, RunOK
<1>5. ASSUME NEW r \in Run, NEW x \in Entry PROVE RemembersOf(run[r], x)'
  <2>1. RemembersOf(run[r], x) /\ RunOK(run[r]) /\ source'[x].version \in Nat
    BY <1>2, Facts
  <2> QED
    BY <1>1, <1>2, <2>1, StillRemembered
<1>6. RunsRemember'
  BY <1>1, <1>5 DEF RunsRemember, Remembers
<1> QED
  BY <1>3, <1>4, <1>6 DEF NothingHiddenInv

LEMMA OpenSeriesHidesNothing ==
  ASSUME NothingHiddenInv, NEW e \in Entry, OpenSeries(e)
  PROVE  NothingHiddenInv'
<1>1. UNCHANGED <<source, run, overtaken>>
  BY DEF OpenSeries
<1>2. /\ row' \in [Entry -> [list : Nat, rev : Revision, gone : BOOLEAN]]
      /\ \A x \in Entry : row'[x].list = row[x].list /\ row'[x].rev = row[x].rev
  <2>1. row' = row \/ row' = [row EXCEPT ![e].gone = TRUE]
    BY DEF OpenSeries, recordSeriesGone
  <2>2. row \in [Entry -> [list : Nat, rev : Revision, gone : BOOLEAN]]
    BY Facts
  <2>3. CASE row' = row
    BY <2>2, <2>3
  <2>4. CASE row' = [row EXCEPT ![e].gone = TRUE]
    BY <2>2, <2>4
  <2> QED
    BY <2>1, <2>3, <2>4
<1>3. page' \in [Entry -> Revision] /\ \A x \in Entry : page'[x] # None => page'[x] <= source[x].version
  <2>1. CASE UNCHANGED page
    BY <2>1, Facts
  <2>2. ASSUME NEW list \in Answers(e), page' = [page EXCEPT ![e] = list]
        PROVE  page' \in [Entry -> Revision] /\ \A x \in Entry : page'[x] # None => page'[x] <= source[x].version
    BY <2>2, Facts DEF Answers, Revision
  <2> QED
    BY <2>1, <2>2 DEF OpenSeries
<1>4. Types' /\ NothingHidden' /\ ListsAreTheSources'
  BY <1>1, <1>2, <1>3 DEF NothingHiddenInv, Types, NothingHidden, Hidden, ListsAreTheSources
<1>5. ASSUME NEW r \in Run, NEW x \in Entry PROVE RemembersOf(run[r], x)'
  <2>1. RemembersOf(run[r], x) /\ RunOK(run[r]) /\ source'[x].version \in Nat /\ source'[x].version >= source[x].version
    BY <1>1, Facts
  <2> QED
    BY <1>1, <1>2, <2>1, StillRemembered
<1>6. RunsRemember'
  BY <1>1, <1>5 DEF RunsRemember, Remembers
<1> QED
  BY <1>4, <1>6 DEF NothingHiddenInv

\* A list that is stored is one fetched before, with the revision answered before it was, or none.  Where
\* it is older than the one held, or empty and the first, the entry is remembered by no run or overtaken.
LEMMA StoredHidesNothing ==
  ASSUME NothingHiddenInv, NEW e \in Entry, NEW list \in Nat, NEW rev \in Revision, list <= source[e].version,
         rev # None => rev <= source[e].version /\ NoOlder(list, rev),
         Stored(e, list, rev), source' = source
  PROVE  /\ row' \in [Entry -> [list : Nat, rev : Revision, gone : BOOLEAN]]
         /\ \A x \in Entry \ {e} : row'[x] = row[x] /\ (x \in overtaken' <=> x \in overtaken)
         /\ row'[e].list <= source[e].version
         /\ row'[e].rev # None => row'[e].rev <= source[e].version
         /\ row'[e].rev # None => row'[e].rev <= row'[e].list \/ e \in overtaken'
         /\ \A v \in Nat : Remembered(e) /\ Covered(e, v) => Covered(e, v)'
<1>1. /\ row \in [Entry -> [list : Nat, rev : Revision, gone : BOOLEAN]]
      /\ row[e].list \in Nat /\ row[e].list <= source[e].version /\ source[e].version \in Nat \ {0}
      /\ row[e].rev # None => row[e].rev \in Nat /\ row[e].rev <= source[e].version
      /\ row[e].rev # None /\ row[e].rev > row[e].list => e \in overtaken
  BY Facts DEF Revision
<1>2. rev # None => rev \in Nat
  BY DEF Revision
<1>3. overtaken' = IF Overtakes(e, list, rev) THEN overtaken \cup {e}
                   ELSE IF row'[e].list = source[e].version THEN overtaken \ {e} ELSE overtaken
  BY DEF Stored
<1>4. \A x \in Entry \ {e} : x \in overtaken' <=> x \in overtaken
  BY <1>3
<1>5. CASE list = 0 /\ row[e].list # 0
  <2>1. row' = row /\ ~Overtakes(e, list, rev)
    BY <1>5 DEF Stored, syncChapters, Overtakes
  <2>2. e \in overtaken /\ e \notin overtaken' => row[e].list = source[e].version
    BY <1>3, <2>1
  <2> QED
    BY <1>1, <1>4, <2>1, <2>2 DEF Covered
<1>6. CASE ~(list = 0 /\ row[e].list # 0)
  <2>1. row' = [row EXCEPT ![e] = [list |-> list, rev |-> rev, gone |-> FALSE]]
    BY <1>6 DEF Stored, syncChapters
  <2>2. /\ row'[e].list = list /\ row'[e].rev = rev /\ \A x \in Entry \ {e} : row'[x] = row[x]
        /\ row' \in [Entry -> [list : Nat, rev : Revision, gone : BOOLEAN]]
    BY <1>1, <2>1
  <2>3. e \in overtaken /\ e \notin overtaken' => list = source[e].version
    BY <1>3, <2>2
  <2>4. rev # None => rev <= list \/ e \in overtaken'
    <3>1. CASE list = 0
      BY <1>3, <1>6, <3>1 DEF Overtakes
    <3>2. CASE list # 0
      BY <3>2, NoneAssumption DEF NoOlder
    <3> QED
      BY <3>1, <3>2
  <2>5. ASSUME NEW v \in Nat, Remembered(e), Covered(e, v) PROVE Covered(e, v)'
    <3>1. v <= source[e].version /\ (v <= row[e].list \/ e \in overtaken)
      BY <2>5 DEF Covered
    <3>2. CASE e \in overtaken
      BY <1>1, <2>2, <2>3, <3>1, <3>2 DEF Covered
    <3>3. CASE list >= row[e].list
      BY <1>1, <2>2, <2>3, <3>1, <3>3 DEF Covered
    <3>4. CASE ~(list >= row[e].list)
      <4>1. list # 0
        BY <1>1, <1>6, <3>4
      <4>2. Overtakes(e, list, rev)
        BY <1>1, <2>5, <3>4, <4>1 DEF Overtakes
      <4> QED
        BY <1>3, <3>1, <4>2 DEF Covered
    <3> QED
      BY <3>2, <3>3, <3>4
  <2> QED
    BY <1>4, <2>2, <2>4, <2>5
<1> QED
  BY <1>5, <1>6

\* So what a run remembers, or less, is as it was remembered.
LEMMA StoredRemembers ==
  ASSUME NothingHiddenInv, NEW r \in Run, NEW e \in Entry, NEW x, RunOK(x), RemembersOf(x, e), source' = source,
         x.seen[e] # None => run[r].seen[e] # None, x.checks[e].unchanged => run[r].checks[e].unchanged,
         \A v \in Nat : Remembered(e) /\ Covered(e, v) => Covered(e, v)'
  PROVE  RemembersOf(x, e)'
<1>1. x.seen[e] \in Revision /\ x.checks[e].rev \in Revision
  BY DEF RunOK, Checks
<1>2. x.seen[e] # None => Covered(e, x.seen[e])'
  BY <1>1 DEF RemembersOf, Remembered, Revision
<1>3. x.checks[e].unchanged => x.checks[e].rev # None /\ Covered(e, x.checks[e].rev)'
  BY <1>1 DEF RemembersOf, Remembered, Revision
<1> QED
  BY <1>2, <1>3 DEF RemembersOf

LEMMA StorePageHidesNothing ==
  ASSUME NothingHiddenInv, NEW e \in Entry, StorePage(e)
  PROVE  NothingHiddenInv'
<1>1. /\ page[e] \in Nat /\ page[e] <= source[e].version /\ Stored(e, page[e], None)
      /\ page' = [page EXCEPT ![e] = None] /\ UNCHANGED <<source, run>>
  BY Facts DEF StorePage
<1>2. /\ row' \in [Entry -> [list : Nat, rev : Revision, gone : BOOLEAN]]
      /\ \A x \in Entry \ {e} : row'[x] = row[x] /\ (x \in overtaken' <=> x \in overtaken)
      /\ row'[e].list <= source[e].version
      /\ row'[e].rev # None => row'[e].rev <= source[e].version
      /\ row'[e].rev # None => row'[e].rev <= row'[e].list \/ e \in overtaken'
      /\ \A v \in Nat : Remembered(e) /\ Covered(e, v) => Covered(e, v)'
  BY <1>1, StoredHidesNothing DEF Revision
<1>3. page' \in [Entry -> Revision] /\ page'[e] = None /\ \A x \in Entry \ {e} : page'[x] = page[x]
  BY <1>1, Facts DEF Revision
<1>4. row'[e].rev \in Revision /\ row'[e].list \in Nat
  BY <1>2
<1>5. Types' /\ NothingHidden' /\ ListsAreTheSources'
  <2>1. Types'
    BY <1>1, <1>2, <1>3 DEF NothingHiddenInv, Types
  <2>2. NothingHidden'
    BY <1>2, <1>4, Facts DEF NothingHidden, Hidden, Revision
  <2>3. ListsAreTheSources'
    BY <1>1, <1>2, <1>3 DEF NothingHiddenInv, ListsAreTheSources
  <2> QED
    BY <2>1, <2>2, <2>3
<1>6. ASSUME NEW r \in Run, NEW x \in Entry \ {e} PROVE RemembersOf(run[r], x)'
  <2>1. RemembersOf(run[r], x) /\ RunOK(run[r]) /\ source'[x].version \in Nat /\ source'[x].version >= source[x].version
    BY <1>1, Facts
  <2> QED
    BY <1>1, <1>2, <2>1, StillRemembered
<1>7. ASSUME NEW r \in Run PROVE RemembersOf(run[r], e)'
  <2>1. RemembersOf(run[r], e) /\ RunOK(run[r])
    BY Facts
  <2> QED
    BY <1>1, <1>2, <2>1, StoredRemembers
<1>8. RunsRemember'
  BY <1>1, <1>6, <1>7 DEF RunsRemember, Remembers
<1> QED
  BY <1>5, <1>8 DEF NothingHiddenInv

-----------------------------------------------------------------------------
(* The steps of a run                                                       *)

\* What a step of one run asks of it alone, where the library's lists stay as they are.
LEMMA RunStepKeeps ==
  ASSUME NothingHiddenInv, NEW r \in Run, NEW x, RunOK(x), run' = [run EXCEPT ![r] = x],
         UNCHANGED <<source, page, overtaken>>,
         row' \in [Entry -> [list : Nat, rev : Revision, gone : BOOLEAN]],
         \A e \in Entry : row'[e].list = row[e].list /\ (row'[e].rev # None => Covered(e, row'[e].rev)),
         \A e \in Entry : RemembersOf(x, e) /\ (x.got[e] # None => x.got[e] <= source[e].version)
  PROVE  NothingHiddenInv'
<1>1. run' = [q \in Run |-> run'[q]] /\ run'[r] = x /\ \A q \in Run \ {r} : run'[q] = run[q]
  BY Facts
<1>2. Types'
  BY <1>1 DEF NothingHiddenInv, Types
<1>3. NothingHidden' /\ ListsAreTheSources'
  <2>1. \A e \in Entry : row[e].list \in Nat /\ row'[e].rev \in Revision
    BY Facts
  <2>2. NothingHidden'
    BY <2>1 DEF NothingHidden, Hidden, Covered, Revision
  <2>3. ListsAreTheSources'
    BY <1>1 DEF NothingHiddenInv, ListsAreTheSources, Covered
  <2> QED
    BY <2>2, <2>3
<1>4. ASSUME NEW y, NEW e \in Entry, RunOK(y), RemembersOf(y, e) PROVE RemembersOf(y, e)'
  <2>1. source'[e].version \in Nat /\ source'[e].version >= source[e].version
    BY Facts
  <2> QED
    BY <1>4, <2>1, StillRemembered
<1>5. ASSUME NEW q \in Run, NEW e \in Entry PROVE Remembers(q, e)'
  <2>1. CASE q = r
    <3>1. RemembersOf(x, e)'
      BY <1>4
    <3> QED
      BY <1>1, <2>1, <3>1 DEF Remembers
  <2>2. CASE q # r
    <3>1. RunOK(run[q]) /\ RemembersOf(run[q], e)
      BY Facts
    <3>2. RemembersOf(run[q], e)'
      BY <1>1, <1>4, <2>2, <3>1, StillRemembered, Facts
    <3> QED
      BY <3>2 DEF Remembers
  <2> QED
    BY <2>1, <2>2
<1> QED
  BY <1>2, <1>3, <1>5 DEF NothingHiddenInv, RunsRemember

\* What the library holds is covered: a run that begins may remember it.
LEMMA HeldIsCovered ==
  ASSUME NothingHiddenInv, NEW e \in Entry
  PROVE  /\ row[e].rev # None => Covered(e, row[e].rev)
         /\ \A r \in Run : run[r].got[e] # None => run[r].got[e] <= source[e].version
<1>1. row[e].list \in Nat /\ row[e].rev \in Revision
  BY Facts
<1> QED
  BY <1>1, Facts DEF Covered, NothingHiddenInv, ListsAreTheSources, Revision

LEMMA BackgroundSyncHidesNothing ==
  ASSUME NothingHiddenInv, NEW r \in Run, backgroundSync(r)
  PROVE  NothingHiddenInv'
<1>1. PICK recent \in SUBSET {e \in Entry : row[e].gone} :
        run' = [run EXCEPT ![r] =
         [Idle EXCEPT !.pc = "listed", !.left = SelectSeq(order, LAMBDA e : e \notin recent),
                      !.seen = [e \in Entry |-> row[e].rev]]]
  BY DEF backgroundSync
<1> DEFINE left == SelectSeq(order, LAMBDA e : e \notin recent)
           seen == [e \in Entry |-> row[e].rev]
           x == [Idle EXCEPT !.pc = "listed", !.left = left, !.seen = seen]
<1>2. run' = [run EXCEPT ![r] = x]
  BY <1>1
<1> HIDE DEF left
<1>3. seen \in [Entry -> Revision] /\ \A e \in Entry : seen[e] = row[e].rev
  BY Facts
<1> HIDE DEF seen
<1>4. RunOK(Idle) /\ \A e \in Entry : Idle.got[e] = None /\ Idle.checks[e].rev = None /\ ~Idle.checks[e].unchanged
  BY DEF RunOK, Idle, NoCheck, Revision, Checks
<1>5. RunOK(x) /\ x.seen = seen /\ x.checks = Idle.checks /\ x.got = Idle.got
  BY <1>3, <1>4 DEF RunOK
<1> HIDE DEF x
<1>6. ASSUME NEW e \in Entry PROVE RemembersOf(x, e) /\ (x.got[e] # None => x.got[e] <= source[e].version)
  BY <1>3, <1>4, <1>5, HeldIsCovered DEF RemembersOf
<1>7. UNCHANGED <<source, page, overtaken, row>>
  BY DEF backgroundSync
<1>8. row' \in [Entry -> [list : Nat, rev : Revision, gone : BOOLEAN]]
  BY <1>7, Facts
<1>9. \A e \in Entry : row'[e].list = row[e].list /\ (row'[e].rev # None => Covered(e, row'[e].rev))
  BY <1>7, HeldIsCovered
<1> QED
  BY <1>2, <1>5, <1>6, <1>7, <1>8, <1>9, RunStepKeeps

\* A step of a run that leaves the library as it is.
LEMMA RunAlone ==
  ASSUME NothingHiddenInv, NEW r \in Run, NEW x, RunOK(x), run' = [run EXCEPT ![r] = x],
         UNCHANGED <<source, page, overtaken, row>>,
         \A e \in Entry : RemembersOf(x, e) /\ (x.got[e] # None => x.got[e] <= source[e].version)
  PROVE  NothingHiddenInv'
<1>1. row' \in [Entry -> [list : Nat, rev : Revision, gone : BOOLEAN]]
  BY Facts
<1>2. \A e \in Entry : row'[e].list = row[e].list /\ (row'[e].rev # None => Covered(e, row'[e].rev))
  BY HeldIsCovered
<1> QED
  BY <1>1, <1>2, RunStepKeeps

\* What the batch check, and a stored page, make of a run.
Checked(x, left, checks) == [x EXCEPT !.pc = "working", !.left = left, !.checks = checks, !.seen = Idle.seen]
Settled(x, e) == [x EXCEPT !.got[e] = None, !.checks[e] = NoCheck]

LEMMA RunChecked ==
  ASSUME NEW x, RunOK(x), NEW left, NEW checks \in Checks
  PROVE  LET y == Checked(x, left, checks) IN
         RunOK(y) /\ y.seen = Idle.seen /\ y.checks = checks /\ y.got = x.got /\ y.pc = "working"
<1>1. Idle.seen \in [Entry -> Revision]
  BY DEF Idle, Revision
<1> QED
  BY <1>1 DEF Checked, RunOK

LEMMA RunSettled ==
  ASSUME NEW x, RunOK(x), NEW e \in Entry
  PROVE  LET y == Settled(x, e) IN
         /\ RunOK(y) /\ y.pc = x.pc /\ y.seen = x.seen
         /\ y.got = [x.got EXCEPT ![e] = None] /\ y.checks = [x.checks EXCEPT ![e] = NoCheck]
<1> DEFINE got == [x.got EXCEPT ![e] = None]
           checks == [x.checks EXCEPT ![e] = NoCheck]
<1>1. got \in [Entry -> Revision] /\ checks \in Checks
  BY DEF RunOK, Checks, NoCheck, Revision
<1>2. Settled(x, e) = [x EXCEPT !.got = got, !.checks = checks]
  BY DEF Settled, RunOK
<1> HIDE DEF got, checks
<1>3. LET y == [x EXCEPT !.got = got, !.checks = checks] IN
      RunOK(y) /\ y.pc = x.pc /\ y.seen = x.seen /\ y.got = got /\ y.checks = checks
  BY <1>1 DEF RunOK
<1> QED
  BY <1>2, <1>3 DEF got, checks

LEMMA BatchCheckHidesNothing ==
  ASSUME NothingHiddenInv, NEW r \in Run, batchCheckRevisions(r)
  PROVE  NothingHiddenInv'
<1>0. PICK n \in 0 .. Len(run[r].left) :
        \E answered \in SUBSET {e \in ToSet(SubSeq(run[r].left, 1, n)) \cap loads : source[e].up} :
          run' = [run EXCEPT
              ![r].pc = "working",
              ![r].left = SelectSeq(run[r].left, LAMBDA e : e \in loads \/ e \notin ToSet(SubSeq(run[r].left, 1, n))),
              ![r].checks = [e \in Entry |->
                 IF e \notin answered THEN NoCheck
                 ELSE [rev |-> source[e].version, unchanged |-> run[r].seen[e] = source[e].version]],
              ![r].seen = Idle.seen]
  BY DEF batchCheckRevisions
<1>1. PICK answered \in SUBSET {e \in ToSet(SubSeq(run[r].left, 1, n)) \cap loads : source[e].up} :
        run' = [run EXCEPT
              ![r].pc = "working",
              ![r].left = SelectSeq(run[r].left, LAMBDA e : e \in loads \/ e \notin ToSet(SubSeq(run[r].left, 1, n))),
              ![r].checks = [e \in Entry |->
                 IF e \notin answered THEN NoCheck
                 ELSE [rev |-> source[e].version, unchanged |-> run[r].seen[e] = source[e].version]],
              ![r].seen = Idle.seen]
  BY <1>0
<1> DEFINE left == SelectSeq(run[r].left, LAMBDA e : e \in loads \/ e \notin ToSet(SubSeq(run[r].left, 1, n)))
           checks == [e \in Entry |->
                        IF e \notin answered THEN NoCheck
                        ELSE [rev |-> source[e].version, unchanged |-> run[r].seen[e] = source[e].version]]
           y == Checked(run[r], left, checks)
<1> HIDE DEF left
<1>2. checks \in Checks
      /\ \A e \in Entry : /\ checks[e].rev \in {None, source[e].version}
                          /\ checks[e].unchanged => checks[e].rev = source[e].version /\ run[r].seen[e] = source[e].version
  BY Facts DEF NoCheck, Revision, Checks
<1>3. run' = [run EXCEPT ![r].pc = "working", ![r].left = left, ![r].checks = checks, ![r].seen = Idle.seen]
  BY <1>1 DEF left
<1> HIDE DEF checks
<1>4. run' = [run EXCEPT ![r] = y]
  BY <1>3 DEF Checked
<1>5. RunOK(run[r]) /\ run[r].pc = "listed" /\ UNCHANGED <<source, page, row, overtaken>>
  BY Facts DEF batchCheckRevisions
<1>6. RunOK(y) /\ y.seen = Idle.seen /\ y.checks = checks /\ y.got = run[r].got /\ y.pc = "working"
  BY <1>2, <1>5, RunChecked
<1> HIDE DEF y
<1>7. \A e \in Entry : Idle.seen[e] = None
  BY DEF Idle
<1>8. ASSUME NEW e \in Entry PROVE RemembersOf(y, e) /\ (y.got[e] # None => y.got[e] <= source[e].version)
  <2>1. RemembersOf(run[r], e) /\ source[e].version \in Nat
    BY Facts
  <2>2. run[r].got[e] = None /\ source[e].version # None
        /\ (run[r].seen[e] # None => Covered(e, run[r].seen[e]))
    BY <1>5, <2>1, NoneAssumption DEF RemembersOf
  <2> QED
    BY <1>2, <1>6, <1>7, <2>1, <2>2 DEF RemembersOf, NoOlder
<1> QED
  BY <1>4, <1>5, <1>6, <1>8, RunAlone

\* What is asked of a run that forgets something: its answers are as before or gone.
LEMMA ForgettingRemembers ==
  ASSUME NothingHiddenInv, NEW r \in Run, NEW x, NEW e \in Entry,
         x.pc = run[r].pc, x.seen = run[r].seen, x.got = run[r].got, x.checks[e] \in {run[r].checks[e], NoCheck}
  PROVE  RemembersOf(x, e) /\ (x.got[e] # None => x.got[e] <= source[e].version)
<1>1. RemembersOf(run[r], e)
  BY Facts
<1> QED
  BY <1>1, HeldIsCovered DEF RemembersOf, NoCheck

LEMMA DoneIs ==
  ASSUME NothingHiddenInv, NEW r \in Run, NEW e \in Entry
  PROVE  LET x == Done(r, e) IN
         /\ RunOK(x) /\ x.pc = run[r].pc /\ x.seen = run[r].seen /\ x.got = run[r].got
         /\ \A y \in Entry : x.checks[y] \in {run[r].checks[y], NoCheck}
  BY Facts DEF RunOK, Done, Taken, Checks, NoCheck, Revision

LEMMA DoneRemembers ==
  ASSUME NothingHiddenInv, NEW r \in Run, NEW e \in Entry
  PROVE  \A y \in Entry : LET x == Done(r, e) IN
           RemembersOf(x, y) /\ (x.got[y] # None => x.got[y] <= source[y].version)
  BY DoneIs, ForgettingRemembers

\* The answer that matched what the run had read: the list held covers it still, or was overtaken.
LEMMA UnmovedHidesNothing ==
  ASSUME NothingHiddenInv, NEW r \in Run, NEW e \in Entry, Unmoved(r, e)
  PROVE  NothingHiddenInv'
<1>1. /\ run[r].checks[e].unchanged /\ row' = [row EXCEPT ![e].rev = run[r].checks[e].rev]
      /\ run' = [run EXCEPT ![r] = Done(r, e)] /\ UNCHANGED <<source, page, overtaken>>
  BY DEF Unmoved, markChaptersUnchanged
<1>2. RemembersOf(run[r], e) /\ RunOK(run[r])
  BY Facts
<1>3. run[r].checks[e].rev \in Revision /\ Covered(e, run[r].checks[e].rev)
  BY <1>1, <1>2 DEF RemembersOf, RunOK, Checks
<1>4. /\ row' \in [Entry -> [list : Nat, rev : Revision, gone : BOOLEAN]]
      /\ row'[e].rev = run[r].checks[e].rev /\ \A x \in Entry \ {e} : row'[x] = row[x]
      /\ \A x \in Entry : row'[x].list = row[x].list
  BY <1>1, <1>3, Facts
<1>5. \A x \in Entry : row'[x].list = row[x].list /\ (row'[x].rev # None => Covered(x, row'[x].rev))
  BY <1>3, <1>4, HeldIsCovered
<1> DEFINE y == Done(r, e)
<1>6. RunOK(y) /\ run' = [run EXCEPT ![r] = y]
      /\ \A x \in Entry : RemembersOf(y, x) /\ (y.got[x] # None => y.got[x] <= source[x].version)
  BY <1>1, DoneIs, DoneRemembers
<1> HIDE DEF y
<1> QED
  BY <1>1, <1>4, <1>5, <1>6, RunStepKeeps

\* A list is fetched: as it is the source's of now, it is no older than any answer.
LEMMA PullHidesNothing ==
  ASSUME NothingHiddenInv, NEW r \in Run, NEW e \in Entry, Pull(r, e)
  PROVE  NothingHiddenInv'
<1>0. UNCHANGED <<source, page, overtaken>> /\ run[r].pc = "working"
  BY DEF Pull, CanTake
<1>1. CASE recordSeriesGone(e, TRUE) /\ run' = [run EXCEPT ![r] = Done(r, e)]
  <2>1. row' = [row EXCEPT ![e].gone = TRUE]
    BY <1>1 DEF recordSeriesGone
  <2>2. /\ row' \in [Entry -> [list : Nat, rev : Revision, gone : BOOLEAN]]
        /\ \A x \in Entry : row'[x].list = row[x].list /\ row'[x].rev = row[x].rev
    BY <2>1, Facts
  <2>3. \A x \in Entry : row'[x].list = row[x].list /\ (row'[x].rev # None => Covered(x, row'[x].rev))
    BY <2>2, HeldIsCovered
  <2> DEFINE y == Done(r, e)
  <2>4. RunOK(y) /\ run' = [run EXCEPT ![r] = y]
        /\ \A x \in Entry : RemembersOf(y, x) /\ (y.got[x] # None => y.got[x] <= source[x].version)
    BY <1>1, DoneIs, DoneRemembers
  <2> HIDE DEF y
  <2> QED
    BY <1>0, <2>2, <2>3, <2>4, RunStepKeeps
<1>2. ASSUME NEW list \in Answers(e), run' = [run EXCEPT ![r] = [Taken(r) EXCEPT !.got[e] = list]], UNCHANGED row
      PROVE  NothingHiddenInv'
  <2>1. list \in Nat /\ list <= source[e].version /\ (list # 0 => list = source[e].version)
    BY Facts DEF Answers
  <2> DEFINE y == [Taken(r) EXCEPT !.got[e] = list]
  <2>2. RunOK(y) /\ y.pc = run[r].pc /\ y.seen = run[r].seen /\ y.checks = run[r].checks
        /\ y.got = [run[r].got EXCEPT ![e] = list]
    BY <2>1, Facts DEF RunOK, Taken, Revision
  <2>3. y.got[e] = list /\ \A x \in Entry \ {e} : y.got[x] = run[r].got[x]
    BY <2>2, Facts DEF RunOK
  <2>4. run' = [run EXCEPT ![r] = y]
    BY <1>2
  <2> HIDE DEF y
  <2>5. ASSUME NEW x \in Entry PROVE RemembersOf(y, x) /\ (y.got[x] # None => y.got[x] <= source[x].version)
    <3>1. RemembersOf(run[r], x)
      BY Facts
    <3>2. CASE x = e
      BY <1>0, <2>1, <2>2, <2>3, <3>1, <3>2 DEF RemembersOf, NoOlder
    <3>3. CASE x # e
      BY <1>0, <2>2, <2>3, <3>1, <3>3, HeldIsCovered DEF RemembersOf
    <3> QED
      BY <3>2, <3>3
  <2> QED
    BY <1>0, <1>2, <2>2, <2>4, <2>5, RunAlone
<1> QED
  BY <1>1, <1>2 DEF Pull

LEMMA PullFailsHidesNothing ==
  ASSUME NothingHiddenInv, NEW r \in Run, NEW e \in Entry, PullFails(r, e)
  PROVE  NothingHiddenInv'
<1> DEFINE y == Done(r, e)
<1>1. UNCHANGED <<source, page, row, overtaken>> /\ run' = [run EXCEPT ![r] = y]
  BY DEF PullFails
<1>2. RunOK(y) /\ \A x \in Entry : RemembersOf(y, x) /\ (y.got[x] # None => y.got[x] <= source[x].version)
  BY DoneIs, DoneRemembers
<1> HIDE DEF y
<1> QED
  BY <1>1, <1>2, RunAlone

LEMMA StorePulledHidesNothing ==
  ASSUME NothingHiddenInv, NEW r \in Run, NEW e \in Entry, StorePulled(r, e)
  PROVE  NothingHiddenInv'
<1> DEFINE list == run[r].got[e]
           rev == run[r].checks[e].rev
<1>0. PICK y : y = Settled(run[r], e)
  OBVIOUS
<1>1. RunOK(run[r]) /\ RemembersOf(run[r], e) /\ run = [q \in Run |-> run[q]]
  BY Facts
<1>2. /\ list \in Nat /\ rev \in Revision /\ list <= source[e].version
      /\ rev # None => rev <= source[e].version /\ NoOlder(list, rev)
  BY <1>1, HeldIsCovered DEF StorePulled, RemembersOf, RunOK, Checks, Revision
<1>3. UNCHANGED <<source, page>> /\ Stored(e, list, rev) /\ run' = [run EXCEPT ![r] = y]
  BY <1>0 DEF StorePulled, Settled
<1>4. /\ row' \in [Entry -> [list : Nat, rev : Revision, gone : BOOLEAN]]
      /\ \A x \in Entry \ {e} : row'[x] = row[x] /\ (x \in overtaken' <=> x \in overtaken)
      /\ row'[e].list <= source[e].version
      /\ row'[e].rev # None => row'[e].rev <= source[e].version
      /\ row'[e].rev # None => row'[e].rev <= row'[e].list \/ e \in overtaken'
      /\ \A v \in Nat : Remembered(e) /\ Covered(e, v) => Covered(e, v)'
  <2> HIDE DEF list, rev
  <2> QED
    BY <1>2, <1>3, StoredHidesNothing
<1> HIDE DEF list, rev
<1>5. /\ RunOK(y) /\ y.pc = run[r].pc /\ y.seen = run[r].seen
      /\ y.got = [run[r].got EXCEPT ![e] = None] /\ y.checks = [run[r].checks EXCEPT ![e] = NoCheck]
  BY <1>0, <1>1, RunSettled
<1>6. /\ y.got[e] = None /\ y.checks[e] = NoCheck
      /\ \A x \in Entry \ {e} : y.got[x] = run[r].got[x] /\ y.checks[x] = run[r].checks[x]
  BY <1>1, <1>5 DEF RunOK, Checks
<1>7. run' = [q \in Run |-> run'[q]] /\ run'[r] = y /\ \A q \in Run \ {r} : run'[q] = run[q]
  BY <1>1, <1>3
<1>8. Types'
  BY <1>3, <1>4, <1>5, <1>7 DEF NothingHiddenInv, Types
<1>9. NothingHidden'
  <2>1. row'[e].rev \in Revision /\ row'[e].list \in Nat
    BY <1>4
  <2> QED
    BY <1>4, <2>1, Facts DEF NothingHidden, Hidden, Revision
<1>10. ListsAreTheSources'
  <2>1. \A x \in Entry : /\ source'[x].version = source[x].version /\ page'[x] = page[x]
                         /\ row'[x].list <= source[x].version
                         /\ row'[x].rev # None => row'[x].rev <= source[x].version
    BY <1>3, <1>4, Facts
  <2>2. \A x \in Entry, q \in Run : run'[q].got[x] \in {None, run[q].got[x]}
    BY <1>6, <1>7
  <2> QED
    BY <2>1, <2>2 DEF NothingHiddenInv, ListsAreTheSources
<1>11. ASSUME NEW x \in Entry PROVE RemembersOf(y, x)
  <2>1. RemembersOf(run[r], x)
    BY Facts
  <2>2. CASE x = e
    BY <1>5, <1>6, <2>1, <2>2 DEF RemembersOf, NoCheck
  <2>3. CASE x # e
    BY <1>5, <1>6, <2>1, <2>3 DEF RemembersOf
  <2> QED
    BY <2>2, <2>3
<1>12. ASSUME NEW z, RunOK(z), NEW q \in Run, NEW x \in Entry, RemembersOf(z, x),
              z.seen[x] # None => run[q].seen[x] # None, z.checks[x].unchanged => run[q].checks[x].unchanged
       PROVE  RemembersOf(z, x)'
  <2>1. CASE x = e
    BY <1>3, <1>4, <1>12, <2>1, StoredRemembers
  <2>2. CASE x # e
    <3>1. /\ row'[x].list = row[x].list /\ (x \in overtaken' <=> x \in overtaken)
          /\ source'[x].version \in Nat /\ source'[x].version >= source[x].version
      BY <1>3, <1>4, <2>2, Facts
    <3> QED
      BY <1>12, <3>1, StillRemembered
  <2> QED
    BY <2>1, <2>2
<1>13. ASSUME NEW x \in Entry PROVE RemembersOf(y, x)'
  <2>1. y.checks[x].unchanged => run[r].checks[x].unchanged
    BY <1>6 DEF NoCheck
  <2> QED
    BY <1>5, <1>11, <1>12, <2>1
<1>14. ASSUME NEW q \in Run \ {r}, NEW x \in Entry PROVE RemembersOf(run[q], x)'
  <2>1. PICK z : z = run[q]
    OBVIOUS
  <2>2. RunOK(z) /\ RemembersOf(z, x)
    BY <2>1, Facts
  <2>3. RemembersOf(z, x)'
    BY <1>12, <2>1, <2>2
  <2> QED
    BY <1>7, <2>1, <2>3
<1>15. RunsRemember'
  BY <1>7, <1>13, <1>14 DEF RunsRemember, Remembers
<1> QED
  BY <1>8, <1>9, <1>10, <1>15 DEF NothingHiddenInv

LEMMA TimeIsUpHidesNothing ==
  ASSUME NothingHiddenInv, NEW r \in Run, TimeIsUp(r)
  PROVE  NothingHiddenInv'
<1> DEFINE checks == [e \in Entry |-> IF e \in Fetched(r) THEN run[r].checks[e] ELSE NoCheck]
           x == [run[r] EXCEPT !.left = <<>>, !.partial = TRUE, !.checks = checks]
<1>1. checks \in Checks /\ \A e \in Entry : checks[e] \in {run[r].checks[e], NoCheck}
  BY Facts DEF RunOK, Checks, NoCheck, Revision
<1>2. UNCHANGED <<source, page, row, overtaken>> /\ run' = [run EXCEPT ![r] = x]
  BY DEF TimeIsUp
<1> HIDE DEF checks
<1>3. RunOK(x) /\ x.pc = run[r].pc /\ x.seen = run[r].seen /\ x.got = run[r].got /\ x.checks = checks
  BY <1>1, Facts DEF RunOK
<1> HIDE DEF x
<1>4. \A e \in Entry : RemembersOf(x, e) /\ (x.got[e] # None => x.got[e] <= source[e].version)
  BY <1>1, <1>3, ForgettingRemembers
<1> QED
  BY <1>2, <1>3, <1>4, RunAlone

LEMMA RunEndsHidesNothing ==
  ASSUME NothingHiddenInv, NEW r \in Run, RunEnds(r)
  PROVE  NothingHiddenInv'
<1>1. UNCHANGED <<source, page, row, overtaken>> /\ run' = [run EXCEPT ![r] = Idle]
  BY DEF RunEnds
<1>2. RunOK(Idle) /\ \A e \in Entry : Idle.seen[e] = None /\ Idle.checks[e] = NoCheck /\ Idle.got[e] = None
  BY DEF RunOK, Idle, NoCheck, Revision, Checks
<1>3. \A e \in Entry : RemembersOf(Idle, e) /\ (Idle.got[e] # None => Idle.got[e] <= source[e].version)
  BY <1>2 DEF RemembersOf, NoCheck
<1> QED
  BY <1>1, <1>2, <1>3, RunAlone

-----------------------------------------------------------------------------
\* No update is hidden by any number of runs of backgroundSync and of openings of series pages beside
\* them: the revision the library holds of a series is never newer than the chapter list it holds, so the
\* next check of it (batchCheckRevisions) never matches a list that was not fetched, but where an older
\* list was stored over a newer one that a run remembered, or an empty first list with a revision.
THEOREM NoUpdateIsHidden == Spec => []NothingHidden
<1>1. Init => NothingHiddenInv
  BY InitHidesNothing
<1>2. NothingHiddenInv /\ [Next]_check => NothingHiddenInv'
  <2> SUFFICES ASSUME NothingHiddenInv, [Next]_check PROVE NothingHiddenInv'
    OBVIOUS
  <2>1. CASE \E e \in Entry : Publish(e) \/ TakeDownOrRestore(e) \/ UninstallOrInstall(e)
    BY <2>1, PublishHidesNothing
  <2>2. CASE \E e \in Entry : OpenSeries(e) \/ StorePage(e)
    BY <2>2, OpenSeriesHidesNothing, StorePageHidesNothing
  <2>3. CASE \E r \in Run : backgroundSync(r) \/ batchCheckRevisions(r) \/ TimeIsUp(r) \/ RunEnds(r)
    BY <2>3, BackgroundSyncHidesNothing, BatchCheckHidesNothing, TimeIsUpHidesNothing, RunEndsHidesNothing
  <2>4. CASE \E r \in Run, e \in Entry : Unmoved(r, e) \/ Pull(r, e) \/ PullFails(r, e)
    BY <2>4, UnmovedHidesNothing, PullHidesNothing, PullFailsHidesNothing
  <2>5. CASE \E r \in Run, e \in Entry : StorePulled(r, e)
    BY <2>5, StorePulledHidesNothing
  <2>6. CASE UNCHANGED check
    BY <2>6 DEF check, NothingHiddenInv, Types, NothingHidden, Hidden, ListsAreTheSources, RunsRemember,
       Remembers, RemembersOf, Covered
  <2> QED
    BY <2>1, <2>2, <2>3, <2>4, <2>5, <2>6 DEF Next, Step
<1>3. NothingHiddenInv => NothingHidden
  BY DEF NothingHiddenInv
<1> QED
  BY <1>1, <1>2, <1>3, PTL DEF Spec
=============================================================================
