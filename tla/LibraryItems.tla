---------------------------- MODULE LibraryItems ----------------------------
(***************************************************************************)
(* The pages and chapters the user saved of one series (library.ts): how a *)
(* chapter that is opened re-anchors the pages saved in it, and how a      *)
(* fresh chapter list re-anchors both.  Library adds the series itself.    *)
(*                                                                         *)
(* A page is named by what it shows; its hash is that name, its URL the    *)
(* name and the turn of a source that signs its URLs.  `of` is not in the  *)
(* code: it holds the pages the user saved under a record.                 *)
(***************************************************************************)
EXTENDS Integers, Sequences, SequencesExt, FiniteSets, FiniteSetsExt

CONSTANTS
  None,
  Collection,  \* the collections the user may make
  Copy,        \* the chapters a source may list: id, n (or None), lang (or None), old
  ChapterList, \* the chapter lists it may give: sequences of Copy
  Page,        \* pages, by what they show
  PageList     \* the pages a chapter may have, over time: sequences of Page

Id == {c.id : c \in Copy}
Turn == {0, 1}
Longest == Max({Len(s) : s \in PageList})
Place == [ch : Id, at : -1..(Longest - 1)]   \* of a page from 0; a chapter's own is at -1

VARIABLES
  items,       \* place -> the record saved there, or None
  opened       \* the chapter list page the reader has open: id, pages, turn, are they hashed?

CollectionItem ==
  [cols : SUBSET Collection, count : Nat, url : {None} \cup (Page \X Turn),
   hash : {None} \cup Page, n : {c.n : c \in Copy} \cup {None},
   lang : {c.lang : c \in Copy} \cup {None}, stale : BOOLEAN, of : SUBSET Page]

Closed == [ch |-> None, pages |-> <<>>, turn |-> 0, hashed |-> FALSE]
Or(x, y) == IF x = None THEN y ELSE x

\* A chapter by number and language; one without a number stands alone.
logicalChapterKey(c) ==
  IF c.n = None THEN <<"id", c.id, None>> ELSE <<"n", c.n, c.lang>>

------------------------------------------------------------------------------
(* Pages *)

Positions(o) == 0..(Len(o.pages) - 1)
UrlAt(o, i) == <<o.pages[i + 1], o.turn>>
HashAt(o, i) == IF o.hashed /\ i \in Positions(o) THEN o.pages[i + 1] ELSE None
FirstOf(S) == IF S = {} THEN None ELSE Min(S)

\* Mutant: a hash that differs at the record's own place is no evidence.
TrustsTheCount(o, at, r) ==
  Or(FirstOf({i \in Positions(o) : r.hash # None /\ HashAt(o, i) = r.hash}),
     Or(FirstOf({i \in Positions(o) : UrlAt(o, i) = r.url}),
        IF r.count = Len(o.pages) /\ at \in Positions(o) THEN at ELSE None))

\* Where the page saved at `at` is in the open list: by hash, by URL; else where it was, unless
\* the page there is known to be another or the chapter's length has changed.
locate(o, at, r) ==
  Or(FirstOf({i \in Positions(o) : r.hash # None /\ HashAt(o, i) = r.hash}),
     Or(FirstOf({i \in Positions(o) : UrlAt(o, i) = r.url}),
        IF /\ ~(r.hash # None /\ HashAt(o, at) # None /\ HashAt(o, at) # r.hash)
           /\ r.count = Len(o.pages) /\ at \in Positions(o)
        THEN at ELSE None))

\* Two records on one place become one: the later's fields over the earlier's.
mergeItemRecords(a, b) ==
  [b EXCEPT !.cols = @ \cup a.cols, !.url = Or(@, a.url), !.hash = Or(@, a.hash),
            !.n = Or(@, a.n), !.lang = Or(@, a.lang),
            !.stale = @ /\ a.stale, !.of = @ \cup a.of]

landItem(next, p, r) ==
  [next EXCEPT ![p] = IF @ = None THEN r ELSE mergeItemRecords(@, r)]

Nowhere == [p \in Place |-> None]
InOrder(S) == SetToSortSeq(S, LAMBDA p, q : p.at < q.at)
\* What the store holds after records at `gone` were deleted and `next` put.
Written(next, gone) ==
  [p \in Place |-> IF next[p] # None THEN next[p] ELSE IF p \in gone THEN None ELSE items[p]]

\* The pages saved in the open chapter, put where the list says they are, or kept as stale.
reconcileChapterPages(o) ==
  LET mine == {p \in Place : p.ch = o.ch /\ p.at >= 0 /\ items[p] # None}
      Heal(next, p) ==
        LET r == items[p]
            at == locate(o, p.at, r)
        IN IF at = None
           THEN landItem(next, p, [r EXCEPT !.count = Len(o.pages), !.stale = TRUE])
           ELSE landItem(next, [p EXCEPT !.at = at],
                         [r EXCEPT !.count = Len(o.pages), !.stale = FALSE, !.url = UrlAt(o, at),
                                   !.hash = Or(@, HashAt(o, at))])
  IN IF Len(o.pages) = 0 THEN items
     ELSE Written(FoldLeft(Heal, Nowhere, InOrder(mine)), mine)

\* The page indices the reader lights up.
getCollectedPageIndices(ch) ==
  {p.at : p \in {q \in Place : q.ch = ch /\ q.at >= 0 /\ items[q] # None /\ ~items[q].stale}}

------------------------------------------------------------------------------
(* Chapters *)

FirstWith(list, Test(_)) ==
  LET i == SelectInSeq(list, Test) IN IF i = 0 THEN None ELSE list[i]

\* What is saved of the series, against a fresh list: a chapter that vanished is looked for by
\* number and language, those of the list before (`known`) or of its own record.
reanchorChapterItems(known, list) ==
  LET fresh == {c.id : c \in ToSet(list)}
      Same(n, lang) == FirstWith(list, LAMBDA c : n # None /\ c.n = n /\ c.lang = lang)
      Before(p) == LET S == {c \in known : c.id = p.ch}
                   IN IF S = {} THEN None ELSE Same((CHOOSE c \in S : TRUE).n, (CHOOSE c \in S : TRUE).lang)
      Target(p) == Or(Before(p), IF p.at = -1 THEN Same(items[p].n, items[p].lang) ELSE None)
      Moved == {p \in Place : items[p] # None /\ p.ch \notin fresh /\ Target(p) # None}
      Anchor(next, p) ==
        LET q == [p EXCEPT !.ch = Target(p).id]
            r == [items[p] EXCEPT !.stale = FALSE]
        IN IF p.ch \in fresh
           THEN IF items[p].stale THEN landItem(next, p, r) ELSE next
           ELSE IF p \notin Moved
           THEN IF items[p].stale THEN next ELSE landItem(next, p, [r EXCEPT !.stale = TRUE])
           ELSE landItem(next, q, IF next[q] = None /\ items[q] # None
                                  THEN mergeItemRecords(items[q], r) ELSE r)
  IN Written(FoldLeft(Anchor, Nowhere, InOrder({p \in Place : items[p] # None})), Moved)

------------------------------------------------------------------------------
(* The user's calls *)

\* A chapter is opened: the reader has its pages, and the hashes of all or none of them.
openChapter ==
  \E ch \in Id, pages \in PageList, t \in Turn, h \in BOOLEAN :
    LET o == [ch |-> ch, pages |-> pages, turn |-> t, hashed |-> h] IN
    /\ opened' = o
    /\ items' = reconcileChapterPages(o)

\* A page is saved as it is seen; once the reader has hashed it, it is saved again with the hash.
collectPage ==
  \E at \in Positions(opened), h \in BOOLEAN :
    LET p == [ch |-> opened.ch, at |-> at]
        shown == opened.pages[at + 1]
        old == items[p]
    IN items' = [items EXCEPT ![p] =
         [cols |-> IF old = None THEN {} ELSE old.cols, count |-> Len(opened.pages),
          url |-> UrlAt(opened, at),
          hash |-> IF h THEN shown ELSE IF old = None THEN None ELSE old.hash,
          n |-> None, lang |-> None, stale |-> FALSE,
          of |-> {shown} \cup IF old = None THEN {} ELSE old.of]]

collectChapter ==
  \E c \in Copy :
    LET p == [ch |-> c.id, at |-> -1] IN
    items' = [items EXCEPT ![p] =
      [cols |-> IF @ = None THEN {} ELSE @.cols, count |-> 0, url |-> None, hash |-> None,
       n |-> c.n, lang |-> c.lang, stale |-> FALSE, of |-> {}]]

uncollectItem == \E p \in Place : items[p] # None /\ items' = [items EXCEPT ![p] = None]
=============================================================================
