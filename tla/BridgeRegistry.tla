--------------------------- MODULE BridgeRegistry ---------------------------
(***************************************************************************)
(* The registries a host has saved, what it installed from them, and what  *)
(* it keeps of a bridge that was uninstalled.  The server keeps all of it  *)
(* in one manifest (registry/manager.ts, manifest.ts); a phone in stores   *)
(* of their own (host-rn/registry-provider.ts), so that a call there is    *)
(* several writes and may be cut between any two.                          *)
(*                                                                         *)
(* A step ends where a call awaits the network or a store.  An index is    *)
(* named by its URL and its number; the memo of indexes may give the last  *)
(* one read instead of the one that is published (it is fresh, or the host *)
(* is offline).  Names, signatures and the labels of registries are left   *)
(* out: of a key, only whether it is the one that was pinned.              *)
(***************************************************************************)
EXTENDS Integers, Sequences, FiniteSets, FiniteSetsExt

CONSTANTS
  None,
  Caller,        \* calls that may run at one time
  Url, Item,     \* registries, and the ids of bridges and trackers
  Trackers,      \* the ids that are trackers: of these nothing is kept
  Index,         \* URL -> the indexes published there, one after another
  Starts,        \* the registries saved, and what is installed from where, at first
  MAX_MOVE_HOPS,
  Budgets        \* bound: how often each kind of event happens, in each of some histories

\* What an index offers under each id, the registries it names, and the key it is signed with.
Offer == [v : Nat, sha : Nat, compatible : BOOLEAN]
RegistryIndex == [offers : [Item -> Offer \cup {None}], movedTo : Url \cup {None}, movedFrom : SUBSET Url,
                  key : STRING \cup {None}]
SavedRegistry == [pin : STRING \cup {None}, pendingMove : Url \cup {None}, pendingAdoption : SUBSET Url]
InstalledRecord == [from : Url, v : Nat, sha : Nat, available : Nat \cup {None}, discontinued : BOOLEAN]

ASSUME NoneAssumption == None \notin Url \cup Item \cup Offer \cup SavedRegistry \cup InstalledRecord
ASSUME TrackersAreItems == Trackers \subseteq Item
ASSUME IndexesPublished == \A u \in Url : Index[u] \in Seq(RegistryIndex) /\ Len(Index[u]) > 0
\* No registry is held to move to itself.
ASSUME StartsTyped ==
  \A s \in Starts :
    /\ s.registries \in [Url -> SavedRegistry \cup {None}] /\ s.installed \in [Item -> InstalledRecord \cup {None}]
    /\ \A u \in Url : s.registries[u] # None =>
         u # s.registries[u].pendingMove /\ u \notin s.registries[u].pendingAdoption

VARIABLES
  host,          \* "server" or "device"
  registries,    \* URL -> the saved row, or None
  installed,     \* item -> the install record, or None
  retired,       \* item -> the registry an uninstalled bridge came from, or None
  published,     \* URL -> how many of its indexes have been published
  memo,          \* URL -> the number of the index last read, or 0
  call,          \* caller -> what it is doing
  left           \* how often each kind of event may still happen

stores == <<registries, installed, retired>>
vars == <<host, stores, published, memo, call, left>>

Spend(e) == left[e] > 0 /\ left' = [left EXCEPT ![e] = @ - 1]
Idle == [pc |-> "idle"]
At(c, pc) == call[c].pc = pc
Goto(c, r) == call' = [call EXCEPT ![c] = r]
Return(c) == Goto(c, Idle)
device == host = "device"
Saved(u) == registries[u] # None
IndexAt(u, n) == Index[u][n]

------------------------------------------------------------------------------
(* What may overwrite what, and which move is followed *)

\* Mutant: any registry that is saved may replace what is installed.
InstallsOver(b, url) == installed[b] = None \/ Saved(url)

assertInstallableFrom(b, url) == installed[b] = None \/ installed[b].from = url

From(url) == {b \in Item : installed[b] # None /\ installed[b].from = url}
offeredIds(index) == {b \in Item : index.offers[b] # None}
\* With installs at stake, a successor offers one of them.
assertSameRegistry(old, index) == From(old) = {} \/ From(old) \cap offeredIds(index) # {}

\* Signed by the key that was pinned when the registry was added.
hasKeyContinuity(url, index) ==
  Saved(url) /\ registries[url].pin # None /\ registries[url].pin = index.key

------------------------------------------------------------------------------
(* One write each *)

Row(index) == [pin |-> index.key, pendingMove |-> None, pendingAdoption |-> {}]
Moved(row) == [row EXCEPT !.pendingMove = None, !.pendingAdoption = {}]

setPendingMove(url, target) ==
  registries' = IF Saved(url) THEN [registries EXCEPT ![url].pendingMove = target] ELSE registries
setPendingAdoption(url, claims) ==
  registries' = IF Saved(url) THEN [registries EXCEPT ![url].pendingAdoption = claims] ELSE registries

\* The server's: registry, installs and retired records at once.
rebindRegistry(old, new) ==
  IF ~Saved(old) THEN UNCHANGED stores
  ELSE /\ registries' = [u \in Url |-> IF u = new THEN Moved(registries[old])
                                       ELSE IF u = old THEN None ELSE registries[u]]
       /\ installed' = [b \in Item |-> IF b \in From(old) THEN [installed[b] EXCEPT !.from = new] ELSE installed[b]]
       /\ retired' = [b \in Item |-> IF retired[b] = old THEN new ELSE retired[b]]

retireInstalled(b) ==
  /\ installed' = [installed EXCEPT ![b] = None]
  /\ retired' = IF installed[b] = None \/ b \in Trackers THEN retired
                ELSE [retired EXCEPT ![b] = installed[b].from]

addInstalled(b, rec) ==
  installed' = [installed EXCEPT ![b] = rec] /\ retired' = [retired EXCEPT ![b] = None]

------------------------------------------------------------------------------
(* The device's rebind: the new row, then the installs as they were read, then the retired records, *)
(* then the old row goes *)

\* Mutant: the old row goes when the new one has come.
OldRowFirst(c) ==
  /\ At(c, "rebind") /\ device
  /\ LET r == call[c] IN
     IF ~Saved(r.url) THEN Goto(c, [r EXCEPT !.pc = "rebound"]) /\ UNCHANGED registries
     ELSE /\ registries' = [registries EXCEPT ![r.to] = Moved(registries[r.url]), ![r.url] = None]
          /\ Goto(c, [r EXCEPT !.pc = "repoint", !.recs = {<<b, installed[b]>> : b \in From(r.url)}])
  /\ UNCHANGED <<host, installed, retired, published, memo, left>>

rebindRow(c) ==
  /\ At(c, "rebind") /\ device
  /\ LET r == call[c] IN
     IF ~Saved(r.url) THEN Goto(c, [r EXCEPT !.pc = "rebound"]) /\ UNCHANGED registries
     ELSE /\ registries' = [registries EXCEPT ![r.to] = Moved(registries[r.url])]
          /\ Goto(c, [r EXCEPT !.pc = "repoint", !.recs = {<<b, installed[b]>> : b \in From(r.url)}])
  /\ UNCHANGED <<host, installed, retired, published, memo, left>>

rebindRecords(c) ==
  /\ At(c, "repoint")
  /\ LET r == call[c] IN
     \/ \E rec \in r.recs :
          /\ installed' = [installed EXCEPT ![rec[1]] = [rec[2] EXCEPT !.from = r.to]]
          /\ Goto(c, [r EXCEPT !.recs = @ \ {rec}])
          /\ UNCHANGED <<registries, retired, memo>>
     \/ /\ r.recs = {}
        /\ \E b \in Item : retired[b] = r.url /\ retired' = [retired EXCEPT ![b] = r.to]
        /\ UNCHANGED <<registries, installed, memo, call>>
     \/ /\ r.recs = {} /\ \A b \in Item : retired[b] # r.url
        /\ registries' = [registries EXCEPT ![r.url] = None]
        /\ memo' = [memo EXCEPT ![r.url] = 0]
        /\ Goto(c, [r EXCEPT !.pc = "rebound"])
        /\ UNCHANGED <<installed, retired>>
  /\ UNCHANGED <<host, published, left>>

rebindServer(c) ==
  /\ At(c, "rebind") /\ ~device
  /\ rebindRegistry(call[c].url, call[c].to)
  /\ Goto(c, [call[c] EXCEPT !.pc = "rebound"])
  /\ UNCHANGED <<host, published, memo, left>>

------------------------------------------------------------------------------
(* Reading an index.  `r.url`, `r.index` are where it was read last; `r.to` is where it moved to. *)

Read(u) == {n \in {memo[u], published[u]} : n > 0}
Call(op, url, b) ==
  [pc |-> "fetch", op |-> op, url |-> url, b |-> b, to |-> None, index |-> 0, seen |-> {url},
   rec |-> None, recs |-> {}, todo |-> {}, claims |-> {}]

\* The index is followed when it moved, and the move is the user's choice or bears the pinned key; a
\* move that is neither is held for the user.
resolveIndex(r) ==
  LET index == IndexAt(r.url, r.index)
      moves == index.movedTo # None /\ index.movedTo \notin r.seen /\ Cardinality(r.seen) <= MAX_MOVE_HOPS
  IN IF ~moves THEN [r EXCEPT !.pc = "act"]
     ELSE [r EXCEPT !.to = index.movedTo, !.seen = @ \cup {index.movedTo},
             !.pc = IF r.op = "add" \/ hasKeyContinuity(r.url, index) THEN "target" ELSE "hold"]

\* Reading failed: the call is over; a check for updates goes on with the next record.
Fail(c) == Goto(c, IF call[c].op = "checkUpdates" THEN [call[c] EXCEPT !.pc = "check"] ELSE Idle)

fetchAndCache(c) ==
  /\ At(c, "fetch")
  /\ \/ \E n \in Read(call[c].url) :
          /\ memo' = [memo EXCEPT ![call[c].url] = n]
          /\ Goto(c, resolveIndex([call[c] EXCEPT !.index = n])) /\ UNCHANGED left
     \/ memo[call[c].url] = 0 /\ Spend("offline") /\ Fail(c) /\ UNCHANGED memo
  /\ UNCHANGED <<host, stores, published>>

\* The target is read, and refused unless it is the same registry.
fetchTarget(c) ==
  /\ At(c, "target")
  /\ LET r == call[c] IN
     \/ \E n \in Read(r.to) :
          /\ memo' = [memo EXCEPT ![r.to] = n] /\ UNCHANGED left
          /\ IF assertSameRegistry(r.url, IndexAt(r.to, n)) THEN Goto(c, [r EXCEPT !.pc = "rebind", !.index = n])
             ELSE Fail(c)
     \/ memo[r.to] = 0 /\ Spend("offline") /\ Fail(c) /\ UNCHANGED memo
  /\ UNCHANGED <<host, stores, published>>

\* A check for updates passes over a record whose registry's move is held; an install goes on with
\* the index that is held.
hold(c) ==
  /\ At(c, "hold")
  /\ setPendingMove(call[c].url, call[c].to)
  /\ Goto(c, [call[c] EXCEPT !.pc = IF call[c].op = "checkUpdates" THEN "check" ELSE "act"])
  /\ UNCHANGED <<host, installed, retired, published, memo, left>>

\* What follows a rebind: an index that moved is read on from its new place; an adoption or a
\* confirmation goes on from there.
rebound(c) ==
  /\ At(c, "rebound")
  /\ LET r == call[c] IN
     Goto(c, CASE r.op = "confirmMove" -> Idle
               [] r.op = "adopt" -> [r EXCEPT !.pc = "adopt", !.url = r.to]
               [] r.op = "confirmAdoption" -> [r EXCEPT !.pc = "adopted", !.url = r.to]
               [] OTHER -> resolveIndex([r EXCEPT !.url = r.to]))
  /\ UNCHANGED <<host, stores, published, memo, left>>

------------------------------------------------------------------------------
(* Registries *)

\* A registry is added under the URL it is read from, and may then take over others it names.
add(c) ==
  /\ At(c, "act") /\ call[c].op = "add"
  /\ LET index == IndexAt(call[c].url, call[c].index) IN
     /\ registries' = [registries EXCEPT ![call[c].url] = Row(index)]
     /\ Goto(c, IF index.movedFrom \ {call[c].url} = {} THEN Idle
                ELSE [call[c] EXCEPT !.pc = "adopt", !.op = "adopt", !.to = call[c].url,
                       !.todo = index.movedFrom \ {call[c].url}])
  /\ UNCHANGED <<host, installed, retired, published, memo, left>>

\* Of the registries it names those saved here, with an install it offers: at once with the pinned
\* key, else for the user to confirm.
adoptPredecessors(c) ==
  /\ At(c, "adopt")
  /\ LET r == call[c]
         index == IndexAt(r.to, r.index)
         Ours(u) == Saved(u) /\ assertSameRegistry(u, index)
     IN \/ \E u \in r.todo :
             /\ Goto(c, IF ~Ours(u) THEN [r EXCEPT !.todo = @ \ {u}]
                        ELSE IF hasKeyContinuity(u, index)
                        THEN [r EXCEPT !.todo = @ \ {u}, !.pc = "rebind", !.url = u]
                        ELSE [r EXCEPT !.todo = @ \ {u}, !.claims = @ \cup {u}])
             /\ UNCHANGED registries
        \/ r.todo = {} /\ setPendingAdoption(r.to, r.claims) /\ Return(c)
  /\ UNCHANGED <<host, installed, retired, published, memo, left>>

remove(c, url) ==
  /\ call[c] = Idle /\ Spend("user")
  /\ registries' = [registries EXCEPT ![url] = None]
  /\ memo' = [memo EXCEPT ![url] = 0]
  /\ UNCHANGED <<host, installed, retired, published, call>>

\* The user says yes to a move that was held, or to a claim; or drops the move.
confirmMove(c, url) ==
  /\ call[c] = Idle /\ Saved(url) /\ registries[url].pendingMove # None /\ Spend("user")
  /\ Goto(c, [Call("confirmMove", url, None) EXCEPT !.pc = "target", !.to = registries[url].pendingMove])
  /\ UNCHANGED <<host, stores, published, memo>>

dismissMove(c, url) ==
  /\ call[c] = Idle /\ Saved(url) /\ registries[url].pendingMove # None /\ Spend("user")
  /\ setPendingMove(url, None)
  /\ UNCHANGED <<host, installed, retired, published, memo, call>>

confirmAdoption(c, url) ==
  /\ call[c] = Idle /\ Saved(url) /\ Spend("user")
  /\ \E old \in registries[url].pendingAdoption :
       Goto(c, [Call("confirmAdoption", old, None) EXCEPT !.pc = "target", !.to = url,
                 !.claims = registries[url].pendingAdoption \ {old}])
  /\ UNCHANGED <<host, stores, published, memo>>

\* The claims that remain are recorded again.
adopted(c) ==
  /\ At(c, "adopted")
  /\ setPendingAdoption(call[c].to, call[c].claims) /\ Return(c)
  /\ UNCHANGED <<host, installed, retired, published, memo, left>>

------------------------------------------------------------------------------
(* Installs *)

Record(c) ==
  LET offer == IndexAt(call[c].url, call[c].index).offers[call[c].b] IN
  [from |-> call[c].url, v |-> offer.v, sha |-> offer.sha, available |-> None, discontinued |-> FALSE]

begin(c) ==
  /\ call[c] = Idle /\ Spend("user")
  /\ UNCHANGED <<host, stores, published>>
  /\ \/ \E u \in Url : Goto(c, Call("add", u, None)) /\ UNCHANGED memo
     \/ \E u \in Url, b \in Item : Saved(u) /\ Goto(c, Call("install", u, b)) /\ UNCHANGED memo
     \* An update on the device reads the index anew.
     \/ \E b \in Item :
          /\ installed[b] # None
          /\ Goto(c, Call("install", installed[b].from, b))
          /\ memo' = IF device THEN [memo EXCEPT ![installed[b].from] = 0] ELSE memo

\* Refused when it is not offered, not for this build, or installed from elsewhere.
install(c) ==
  /\ At(c, "act") /\ call[c].op = "install"
  /\ LET offer == IndexAt(call[c].url, call[c].index).offers[call[c].b] IN
     Goto(c, IF /\ offer # None /\ offer.compatible
                /\ assertInstallableFrom(call[c].b, call[c].url)
             THEN [call[c] EXCEPT !.pc = "write"] ELSE Idle)
  /\ UNCHANGED <<host, stores, published, memo, left>>

\* The server downloads first, which may fail, and writes once; the device clears the retired record last.
writeInstall(c) ==
  /\ At(c, "write") /\ UNCHANGED <<host, registries, published, memo>>
  /\ \/ ~device /\ Spend("offline") /\ Return(c) /\ UNCHANGED <<installed, retired>>
     \/ ~device /\ addInstalled(call[c].b, Record(c)) /\ Return(c) /\ UNCHANGED left
     \/ /\ device /\ installed' = [installed EXCEPT ![call[c].b] = Record(c)]
        /\ Goto(c, [call[c] EXCEPT !.pc = "unretire"]) /\ UNCHANGED <<retired, left>>
unretire(c) ==
  /\ At(c, "unretire")
  /\ retired' = [retired EXCEPT ![call[c].b] = None] /\ Return(c)
  /\ UNCHANGED <<host, registries, installed, published, memo, left>>

\* The device keeps the retired record first, and then drops the install.
uninstall(c, b) ==
  /\ call[c] = Idle /\ installed[b] # None /\ Spend("user")
  /\ IF ~device THEN retireInstalled(b) /\ UNCHANGED call
     ELSE /\ retired' = IF b \in Trackers THEN retired ELSE [retired EXCEPT ![b] = installed[b].from]
          /\ Goto(c, [Call("uninstall", None, b) EXCEPT !.pc = "drop"])
          /\ UNCHANGED installed
  /\ UNCHANGED <<host, registries, published, memo>>
drop(c) ==
  /\ At(c, "drop")
  /\ installed' = [installed EXCEPT ![call[c].b] = None] /\ Return(c)
  /\ UNCHANGED <<host, registries, retired, published, memo, left>>

------------------------------------------------------------------------------
(* The check for updates of bridges, or of trackers, over the records as they were when it began *)

checkUpdates(c) ==
  /\ \/ /\ call[c] = Idle /\ Spend("check")
        /\ \E kind \in {Trackers, Item \ Trackers} :
             Goto(c, [Call("checkUpdates", None, None) EXCEPT !.pc = "check",
                       !.todo = {<<b, installed[b]>> : b \in {x \in kind : installed[x] # None}}])
     \/ /\ At(c, "check") /\ UNCHANGED left
        /\ IF call[c].todo = {} THEN Return(c)
           ELSE \E t \in call[c].todo :
                  Goto(c, [Call("checkUpdates", t[2].from, t[1]) EXCEPT !.rec = t[2],
                            !.todo = call[c].todo \ {t}])
  /\ UNCHANGED <<host, stores, published, memo>>

\* The record with what the index says of it: a newer version this build can load, or none any more.
\* The same version with other bytes is pinned anew.
Annotated(rec, offer) ==
  LET newer == offer # None /\ offer.v > rec.v IN
  IF offer # None /\ ~newer /\ offer.sha # rec.sha
  THEN [rec EXCEPT !.sha = offer.sha, !.available = None, !.discontinued = FALSE]
  ELSE [rec EXCEPT !.available = IF newer /\ offer.compatible THEN offer.v ELSE None,
                   !.discontinued = offer = None]

\* The server only tells; the device keeps it on the record.
annotate(c) ==
  /\ At(c, "act") /\ call[c].op = "checkUpdates"
  /\ LET rec == Annotated(call[c].rec, IndexAt(call[c].url, call[c].index).offers[call[c].b]) IN
     installed' = IF ~device \/ rec = call[c].rec THEN installed ELSE [installed EXCEPT ![call[c].b] = rec]
  /\ Goto(c, [call[c] EXCEPT !.pc = "check"])
  /\ UNCHANGED <<host, registries, retired, published, memo, left>>

------------------------------------------------------------------------------
(* The world *)

Publish(u) ==
  /\ published[u] < Len(Index[u])
  /\ published' = [published EXCEPT ![u] = @ + 1]
  /\ UNCHANGED <<host, stores, memo, call, left>>

\* The app stops, wherever it is.
Stop ==
  /\ Spend("crash")
  /\ call' = [c \in Caller |-> Idle] /\ memo' = [u \in Url |-> 0]
  /\ UNCHANGED <<host, stores, published>>

Init ==
  /\ host \in {"server", "device"}
  /\ \E start \in Starts : registries = start.registries /\ installed = start.installed
  /\ retired = [b \in Item |-> None]
  /\ published = [u \in Url |-> 1] /\ memo = [u \in Url |-> 0]
  /\ call = [c \in Caller |-> Idle]
  /\ left \in Budgets

Rebind(c) == rebindRow(c) \/ rebindRecords(c) \/ rebindServer(c)

Next ==
  \/ \E c \in Caller :
       \/ fetchAndCache(c) \/ fetchTarget(c) \/ hold(c) \/ Rebind(c) \/ rebound(c)
       \/ begin(c) \/ add(c) \/ adoptPredecessors(c) \/ adopted(c) \/ install(c) \/ writeInstall(c)
       \/ unretire(c) \/ drop(c) \/ checkUpdates(c) \/ annotate(c)
       \/ \E u \in Url : remove(c, u) \/ confirmMove(c, u) \/ dismissMove(c, u) \/ confirmAdoption(c, u)
       \/ \E b \in Item : uninstall(c, b)
  \/ \E u \in Url : Publish(u)
  \/ Stop

Spec == Init /\ [][Next]_vars

------------------------------------------------------------------------------
TypeOK ==
  /\ registries \in [Url -> SavedRegistry \cup {None}]
  /\ installed \in [Item -> InstalledRecord \cup {None}]
  /\ retired \in [Item -> Url \cup {None}]
  /\ published \in [Url -> Nat] /\ memo \in [Url -> Nat]

Known(b) == installed[b] # None \/ retired[b] # None
Orphaned == {b \in Item : installed[b] # None /\ ~Saved(installed[b].from)}
Successor(u) == {IndexAt(u, n).movedTo : n \in 1..Len(Index[u])}
                  \cup {w \in Url : \E n \in 1..Len(Index[w]) : u \in IndexAt(w, n).movedFrom}
Rebinding == \E c \in Caller : call[c].pc \in {"rebind", "repoint"} /\ call'[c] # call[c]

\* A registry's move, wherever it is cut, leaves no install with a registry that is not in the list
\* (rebind: "never an install pointing at a registry that isn't in the list").
MoveStrandsNothing == [][Rebinding => Orphaned' \subseteq Orphaned]_vars

\* Nothing but the user's removing a registry does.
NothingStranded ==
  [][ Orphaned' \subseteq Orphaned \/ \E u \in Url : Saved(u) /\ registries' = [registries EXCEPT ![u] = None] ]_vars

\* A bridge that was once installed can still be named: it is installed or kept as retired, whenever
\* the app stops (uninstall, install).
StillNamed == [][ \A b \in Item \ Trackers : Known(b) => Known(b)' ]_vars

\* The book of what is installed and where from stays whole, wherever a call is cut.
BookKept == MoveStrandsNothing /\ StillNamed

\* A registry and those that follow it, each declared to be the successor of one before it.
Line(u) ==
  {w \in Url : \A S \in SUBSET Url : u \in S /\ (\A x \in S : Successor(x) \ {None} \subseteq S) => w \in S}

\* What is installed under an id comes to be from another registry only when one of the two is in the
\* other's line, and either the user is asking for the move or an index that names the one it follows
\* bears the key that was pinned (resolveIndex, adoptPredecessors, assertInstallableFrom).
Related(u, w) == w \in Line(u) \/ u \in Line(w)
Declares(index) == index.movedTo # None \/ index.movedFrom # {}
Signed(u, w) ==
  \E x \in {u, w} : \E n \in 1..published[x] : Declares(IndexAt(x, n)) /\ hasKeyContinuity(u, IndexAt(x, n))
UserAgrees == \E c \in Caller : call[c].pc # "idle" /\ call[c].op \in {"add", "confirmMove", "confirmAdoption"}
NeverTakenOver ==
  [][ \A b \in Item :
        LET u == installed[b].from  w == installed'[b].from IN
        installed[b] # None /\ installed'[b] # None /\ u # w
          => Related(u, w) /\ (Signed(u, w) \/ UserAgrees) ]_vars

\* A bridge is marked as gone on the word of its registry or of one it moved to, never on that
\* of one that only says where it moved (checkUpdates).
MovedIsNotGone ==
  [][ \A b \in Item : LET r == installed'[b] IN
        installed[b] # None /\ r # None /\ r.discontinued /\ ~installed[b].discontinued
          => \E u \in Line(r.from) : \E n \in 1..published[u] :
               IndexAt(u, n).offers[b] = None /\ IndexAt(u, n).movedTo = None ]_vars

\* Both: registries change hands, and bridges end, on their own registry's word alone.
OwnWordOnly == NeverTakenOver /\ MovedIsNotGone
=============================================================================
