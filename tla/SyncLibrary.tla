----------------------------- MODULE SyncLibrary -----------------------------
(***************************************************************************)
(* Two devices sync their libraries: what of a library's records travels,  *)
(* how a record that comes is written, and how two libraries that grew up  *)
(* apart are joined (sync/library.ts over engine.ts). Each library is one  *)
(* series, one chapter, one row of the feed and a shelf each device brings *)
(* along, of the same name as the other's.                                 *)
(*                                                                         *)
(* The hub is one log; a round pulls all of it and pushes all that is      *)
(* unsent. Stamps are the numbers of the calls that made them: clocks,     *)
(* segments and failures are SyncEngine's. Groups, preferences, tracker    *)
(* links and the reading log travel as shelves do.                         *)
(***************************************************************************)
EXTENDS Naturals, Sequences, FiniteSets, SequencesExt

CONSTANTS
  Device,    \* 1..2
  MaxCalls,  \* bound on the user's calls
  Overlap,   \* whether a round is applied in the middle of recording what was read
  Apart,     \* whether the second device joins before the first one's library is in the log
  Early      \* whether the user makes calls on a device, or removes a series, before the join

ASSUME LibraryAssumption == Device = {1, 2} /\ MaxCalls \in Nat /\ {Overlap, Apart, Early} \subseteq BOOLEAN

VARIABLES
  lib,       \* each device's library
  stamps,    \* the version sync knows of each record, Unknown for none
  dirty,     \* records to send
  held,      \* records whose deletion a pull may not bring
  seen,      \* how much of the log each device has applied
  round,     \* where each device's round is: "none" or "pulled"
  joined,    \* whether a device has adopted what it had: "no", "pulled" or "yes"
  reader,    \* the record of a page read that is under way, as read from the store
  log,       \* the hub's log
  clock,     \* the last stamp given
  edited,    \* (history) the last edit of the series, or its removal
  rewound,   \* (history) whether the user has ever marked the chapter unread
  refiled,   \* (history) whether the user has changed or deleted shelves
  removed,   \* (history) whether the user has ever removed the series
  calls

syncVars == <<lib, stamps, dirty, held, seen, round, joined, reader, log, clock, edited, rewound, refiled, removed, calls>>

(* A value is a set: of nothing, or of what is there. *)
NoPlace == [read |-> FALSE, page |-> 0]
NoReading == [under |-> "none", item |-> {}, place |-> NoPlace]
Unknown == [at |-> 0, reset |-> 0]
Later(a, b) == IF a > b THEN a ELSE b

Shelf(d) == <<"collections", d>>
Item == <<"collectionItems", 0>>
Resume == <<"seriesResume", 0>>
Progress == <<"progress", 0>>
Row == <<"activity", 0>>
Record == <<Shelf(1), Shelf(2), Item, Resume, Progress, Row>>   \* in the order of their tables
Id == Range(Record)

(* A library before the first sync: nothing, or a series that was filed and noticed, and on *)
(* one device read: what both had read before is SyncEngine's PriorProgress.               *)
Library(d, full) ==
  [shelves |-> {d},
   item |-> IF full THEN {[in |-> {d}, edit |-> d, resume |-> d]} ELSE {},
   place |-> IF full /\ d = 1 THEN {[read |-> TRUE, page |-> 1]} ELSE {},
   row |-> IF full THEN {d} ELSE {}]

LibraryInit ==
  /\ \E full \in [Device -> BOOLEAN] : lib = [d \in Device |-> Library(d, full[d])]
  /\ stamps = [d \in Device |-> [k \in Id |-> Unknown]]
  /\ dirty = [d \in Device |-> {}] /\ held = [d \in Device |-> {}]
  /\ seen = [d \in Device |-> 0]
  /\ round = [d \in Device |-> "none"] /\ joined = [d \in Device |-> "no"]
  /\ reader = [d \in Device |-> NoReading]
  /\ log = <<>> /\ clock = 2
  /\ edited = 0 /\ rewound = FALSE /\ refiled = FALSE /\ removed = FALSE /\ calls = 0

(* What of a record travels: an item without its place, the place apart from it. *)
\* Mutant: an item travels with its place, so that a page turn is an edit.
PlaceAndAll(item) == item

projectItem(item) == {[in |-> i.in, edit |-> i.edit] : i \in item}
resumeOf(item) == {i.resume : i \in {j \in item : j.resume # 0}}

read(l, k) ==
  CASE k[1] = "collections" -> l.shelves \cap {k[2]}
    [] k = Item -> projectItem(l.item)
    [] k = Resume -> resumeOf(l.item)
    [] k = Progress -> l.place
    [] k = Row -> l.row

(* How a record that comes is written, with what the device keeps for itself. *)
writeItem(l, value) ==
  [l EXCEPT !.item = {[in |-> v.in, edit |-> v.edit, resume |-> IF l.item = {} THEN 0 ELSE (CHOOSE i \in l.item : TRUE).resume] : v \in value},
            !.row = IF value = {} /\ l.item # {} THEN {} ELSE @]

write(l, k, value) ==
  CASE k[1] = "collections" -> [l EXCEPT !.shelves = (@ \ {k[2]}) \cup value]
    [] k = Item -> writeItem(l, value)
    [] k = Resume -> [l EXCEPT !.item = {[i EXCEPT !.resume = IF value = {} THEN 0 ELSE CHOOSE v \in value : TRUE] : i \in @}]
    [] k = Progress -> [l EXCEPT !.place = value]
    [] k = Row -> IF value # {} /\ l.item = {} THEN l ELSE [l EXCEPT !.row = value]

(* As a record travels: a chapter never opened is unread, at its first page. *)
sent(l, k) == IF k = Progress /\ l.place = {} THEN {NoPlace} ELSE read(l, k)

(* The engine's merge of one record; `s` is a device's library and what sync knows of it. *)
Envelope(s, k) == [at |-> s.stamps[k].at, reset |-> s.stamps[k].reset, value |-> sent(s.lib, k)]

touch(s, k, at, rewind) ==
  [s EXCEPT !.stamps[k] = [at |-> at, reset |-> IF rewind THEN at ELSE @.reset], !.dirty = @ \cup {k}]

Taken(s, k, env) ==
  [s EXCEPT !.lib = write(@, k, env.value), !.stamps[k] = [at |-> env.at, reset |-> 0], !.dirty = @ \ {k}]

applyRegister(s, k, env, at) ==
  LET kept == IF s.stamps[k] = Unknown /\ read(s.lib, k) # {} THEN s.held \cup {k} ELSE s.held
      t == [s EXCEPT !.held = kept]
  IN IF s.stamps[k] # Unknown /\ s.stamps[k].at >= env.at THEN s
     ELSE IF k \in kept /\ env.value = {} THEN touch(t, k, at, FALSE)
     ELSE Taken(t, k, env)

Further(a, b) == {[read |-> p.read \/ q.read, page |-> Later(p.page, q.page)] : p \in a, q \in b}

applyProgress(s, k, env) ==
  LET local == IF s.stamps[k] = Unknown /\ s.lib.place = {} THEN env
               ELSE IF s.stamps[k] = Unknown THEN [Envelope(s, k) EXCEPT !.at = env.at] ELSE Envelope(s, k)
      value == IF local.reset = env.reset THEN Further(local.value, env.value)
               ELSE IF local.reset > env.reset THEN local.value ELSE env.value
  IN [s EXCEPT !.stamps[k] = [at |-> Later(local.at, env.at), reset |-> Later(local.reset, env.reset)],
               !.lib = write(@, k, value)]

applyEvent(s, k, env) ==
  IF env.value # {} /\ s.stamps[k] # Unknown /\ (s.lib.row = {} \/ s.stamps[k].at <= env.at) THEN s
  ELSE Taken(s, k, env)

applyRecord(s, rec) ==
  CASE rec.key = Progress -> applyProgress(s, rec.key, rec.env)
    [] rec.key = Row -> applyEvent(s, rec.key, rec.env)
    [] OTHER -> applyRegister(s, rec.key, rec.env, clock + 1)

(* A round: everything in the log past what this device has seen, but its own, in order. *)
Here(d) == [lib |-> lib[d], stamps |-> stamps[d], dirty |-> dirty[d], held |-> held[d]]

Becomes(d, s) ==
  /\ lib' = [lib EXCEPT ![d] = s.lib]
  /\ stamps' = [stamps EXCEPT ![d] = s.stamps]
  /\ dirty' = [dirty EXCEPT ![d] = s.dirty]
  /\ held' = [held EXCEPT ![d] = s.held]

histVars == <<edited, rewound, refiled, removed, calls>>

Pull(d) ==
  /\ round[d] = "none"
  /\ Overlap \/ reader[d] = NoReading
  /\ Apart \/ d = 1 \/ (joined[1] = "yes" /\ dirty[1] = {})
  /\ LET others == SelectSeq(SubSeq(log, seen[d] + 1, Len(log)), LAMBDA rec : rec.by # d)
     IN /\ others # <<>> \/ dirty[d] # {} \/ joined[d] = "no"
        /\ Becomes(d, FoldLeft(applyRecord, Here(d), others))
  /\ clock' = clock + 1
  /\ seen' = [seen EXCEPT ![d] = Len(log)]
  /\ round' = [round EXCEPT ![d] = "pulled"]
  /\ UNCHANGED <<joined, reader, log, histVars>>

(* What is unsent goes in the order of the tables; the held records are let go. *)
Push(d) ==
  /\ round[d] = "pulled"
  /\ LET keys == SelectSeq(Record, LAMBDA k : k \in dirty[d])
     IN log' = log \o [i \in DOMAIN keys |-> [by |-> d, key |-> keys[i], env |-> Envelope(Here(d), keys[i])]]
  /\ dirty' = [dirty EXCEPT ![d] = {}] /\ held' = [held EXCEPT ![d] = {}]
  /\ round' = [round EXCEPT ![d] = "none"]
  /\ joined' = [joined EXCEPT ![d] = IF @ = "no" THEN "pulled" ELSE @]
  /\ UNCHANGED <<lib, stamps, seen, reader, clock, histVars>>

(* Two shelves of one name are one at the join: what was on this device's moves to the pulled one. *)

joinCollections(d) ==
  LET pulled == {c \in lib[d].shelves : stamps[d][Shelf(c)] # Unknown}
      own == lib[d].shelves \ pulled
      target == CHOOSE c \in pulled : TRUE
  IN IF pulled = {} \/ own = {} THEN lib[d]
     ELSE [lib[d] EXCEPT !.shelves = pulled,
                         !.item = {[i EXCEPT !.in = IF @ \cap own = {} THEN @ ELSE (@ \ own) \cup {target}] : i \in @}]

adoptLibrary(d) ==
  /\ joined[d] = "pulled" /\ round[d] = "none"
  /\ Overlap \/ reader[d] = NoReading
  /\ clock' = clock + 1
  /\ LET l == joinCollections(d)
         new == {k \in Id : stamps[d][k] = Unknown /\ read(l, k) # {}}
     IN /\ lib' = [lib EXCEPT ![d] = l]
        /\ stamps' = [stamps EXCEPT ![d] = [k \in Id |-> IF k \in new THEN [at |-> clock', reset |-> 0] ELSE @[k]]]
        /\ dirty' = [dirty EXCEPT ![d] = @ \cup new]
  /\ joined' = [joined EXCEPT ![d] = "yes"]
  /\ UNCHANGED <<held, seen, round, reader, log, histVars>>

(* The user's calls. recorded: each target that a write changed, as it travels, is touched. *)
Rewinds(before, after) ==
  \/ \E p \in before : p.read /\ \A q \in after : ~q.read
  \/ before # {} /\ after = {}

recorded(d, targets, l) ==
  LET changed == {k \in targets : read(lib[d], k) # read(l, k)}
  IN /\ lib' = [lib EXCEPT ![d] = l]
     /\ clock' = clock + 1
     /\ dirty' = [dirty EXCEPT ![d] = @ \cup changed]
     /\ stamps' = [stamps EXCEPT ![d] = [k \in Id |->
          IF k \notin changed THEN @[k]
          ELSE [at |-> clock', reset |-> IF k = Progress /\ Rewinds(lib[d].place, l.place) THEN clock' ELSE @[k].reset]]]
     /\ UNCHANGED <<held, seen, round, joined, log>>

Call(d) ==
  /\ calls < MaxCalls /\ calls' = calls + 1
  /\ Early \/ joined[d] = "yes"
  /\ reader[d] = NoReading

Settling == \A d \in Device : joined[d] = "yes"

(* An edit that every device takes part in; before that, a copy of its own may come back. *)
Edits(number) == edited' = IF Settling THEN number ELSE 0

putCollectionItem(d, in) ==
  /\ Call(d)
  /\ in \subseteq lib[d].shelves
  /\ recorded(d, {Item, Resume},
       [lib[d] EXCEPT !.item = {[in |-> in, edit |-> clock + 1, resume |-> IF @ = {} THEN 0 ELSE (CHOOSE i \in @ : TRUE).resume]}])
  /\ Edits(clock + 1)
  /\ refiled' = (refiled \/ in = {})
  /\ UNCHANGED <<reader, rewound, removed>>

removeSeries(d) ==
  /\ Call(d) /\ lib[d].item # {}
  /\ Early \/ Settling
  /\ recorded(d, {Item, Row}, [lib[d] EXCEPT !.item = {}, !.row = {}])
  /\ edited' = 0 /\ removed' = TRUE
  /\ UNCHANGED <<reader, rewound, refiled>>

deleteCollection(d, c) ==
  /\ Call(d) /\ c \in lib[d].shelves
  /\ recorded(d, {Shelf(c), Item},
       [lib[d] EXCEPT !.shelves = @ \ {c},
                      !.item = {IF c \in i.in THEN [i EXCEPT !.in = @ \ {c}, !.edit = clock + 1] ELSE i : i \in @}])
  /\ IF \E i \in lib[d].item : c \in i.in THEN Edits(clock + 1) ELSE UNCHANGED edited
  /\ refiled' = TRUE
  /\ UNCHANGED <<reader, rewound, removed>>

markUnread(d) ==
  /\ Call(d) /\ lib[d].place # {}
  /\ \/ recorded(d, {Progress}, [lib[d] EXCEPT !.place = {[p EXCEPT !.read = FALSE] : p \in @}])
     \/ recorded(d, {Progress}, [lib[d] EXCEPT !.place = {}])
  /\ rewound' = TRUE
  /\ UNCHANGED <<reader, edited, refiled, removed>>

(* writeProgress: the series and the progress are read, the progress is put, then the place. *)
readPage(d) ==
  /\ Call(d)
  /\ reader' = [reader EXCEPT ![d] = [under |-> "read", item |-> lib[d].item,
                  place |-> IF lib[d].place = {} THEN NoPlace ELSE CHOOSE p \in lib[d].place : TRUE]]
  /\ UNCHANGED <<lib, stamps, dirty, held, seen, round, joined, log, clock, edited, rewound, refiled, removed>>

putProgress(d) ==
  /\ reader[d].under = "read"
  /\ \E place \in {[reader[d].place EXCEPT !.read = TRUE], [reader[d].place EXCEPT !.page = Later(@, 3)]} :
       recorded(d, {Progress}, [lib[d] EXCEPT !.place = {place}])
  /\ reader' = [reader EXCEPT ![d] = IF @.item = {} THEN NoReading ELSE [@ EXCEPT !.under = "put"]]
  /\ UNCHANGED <<histVars>>

putPlace(d) ==
  /\ reader[d].under = "put"
  /\ recorded(d, {Item, Resume}, [lib[d] EXCEPT !.item = {[i EXCEPT !.resume = clock] : i \in reader[d].item}])
  /\ reader' = [reader EXCEPT ![d] = NoReading]
  /\ UNCHANGED <<histVars>>

(* A check notices the chapter, unless sync has met the row; the user clears the feed. *)
putActivity(d) ==
  /\ Call(d) /\ lib[d].item # {} /\ lib[d].row = {}
  /\ stamps[d][Row] = Unknown
  /\ recorded(d, {Row}, [lib[d] EXCEPT !.row = {clock + 1}])
  /\ UNCHANGED <<reader, edited, rewound, refiled, removed>>

removingActivity(d) ==
  /\ Call(d) /\ lib[d].row # {}
  /\ recorded(d, {Row}, [lib[d] EXCEPT !.row = {}])
  /\ UNCHANGED <<reader, edited, rewound, refiled, removed>>

LibraryNext ==
  \E d \in Device :
    \/ Pull(d) \/ Push(d) \/ adoptLibrary(d)
    \/ (\E in \in SUBSET Device : putCollectionItem(d, in)) \/ removeSeries(d) \/ (\E c \in Device : deleteCollection(d, c))
    \/ markUnread(d) \/ readPage(d) \/ putProgress(d) \/ putPlace(d)
    \/ putActivity(d) \/ removingActivity(d)

(***************************************************************************)
(* Properties                                                              *)
(***************************************************************************)

Settled ==
  \A d \in Device :
    /\ joined[d] = "yes" /\ round[d] = "none" /\ dirty[d] = {} /\ reader[d] = NoReading
    /\ \A i \in seen[d] + 1..Len(log) : log[i].by = d

(* Once all that is unsent has been pushed and pulled, both devices hold the  *)
(* same shelves, series, progress and feed, and the series as it was last     *)
(* edited: the place that page turns move travels apart, so no page turn has  *)
(* undone an edit made elsewhere. The place itself may differ (library.ts:206)*)
(* and so may the feed once a series was removed: what comes for a series not *)
(* held is dropped, and not asked for again when the series returns.          *)
LibrariesAgree ==
  Settled =>
    /\ \A k \in Id \ {Resume, Row} : sent(lib[1], k) = sent(lib[2], k)
    /\ removed \/ lib[1].row = lib[2].row
    /\ edited # 0 => \A d \in Device : \E i \in lib[d].item : i.edit = edited

(* A chapter that is read on a device stays read there, and comes to be read *)
(* on both, as long as the user never marks it unread: no record that comes  *)
(* and no page turn passes for a step back (recorded's rewind).              *)
ReadStays ==
  [][ ~rewound' => \A d \in Device : \A p \in lib[d].place : p.read => \E q \in lib'[d].place : q.read ]_syncVars

(* Two libraries that grew up apart are joined on one shelf of each name, and *)
(* a series that was filed is filed on a shelf there is, unless the user has  *)
(* filed it otherwise: joinCollections.                                       *)
JoinedAndFiled ==
  Settled =>
    /\ \A d \in Device : Cardinality(lib[d].shelves) < 2
    /\ refiled \/ \A d \in Device : \A i \in lib[d].item : i.in # {} /\ i.in \subseteq lib[d].shelves

(* All three, of two devices that share a library: step by step from a start *)
(* where neither has joined.                                                 *)
OneLibrary == [][LibrariesAgree' /\ JoinedAndFiled']_syncVars /\ ReadStays

LibrarySpec == LibraryInit /\ [][LibraryNext]_syncVars
=============================================================================
