# Verification of comical

TLA+ models, TLC runs and TLAPS proofs of comical, a manga reader whose library, downloads and
bridges run on phones and on a self-hosted server. This project stands beside the code in `src/`:
every definition is translated from it, and `PROJECT.json` (`map`) names the lines.

## The system

| component | state | operations | hard behaviour | what makes it correct |
|---|---|---|---|---|
| **sync merge** (`sync/src/hlc.ts`, `crdt.ts`, `tables.ts`) | a clock's last stamp; a record's envelope | `send`, `recv`; `mergeEnvelope` by strategy (register, set, progress, event) | stalled, jumping and slow clocks; any delivery order | same changes, same record; stamps unique and after all seen; no rewind; a dismissal is final |
| **sync engine** (`sync/src/engine.ts`) | device id, clock, next seq, vector, stamps, dirty, pending, held, adopted; the host's snapshot of them | `touch`, `adopt`, `sync` (pull, apply, persist, build, push), `continueAsNewDevice` | crash anywhere; lost answers; user writes between awaits; restored backups | nothing skipped, lost or sent differently twice; everybody converges |
| **hub** (`sync/src/hub.ts`, `log.ts`, `host-server/src/sync-segment-store.ts`) | log per device in memory; one file per device | `push`, `pull`, `load`, `append` | concurrent pushes; torn last line; failing disk | acknowledged and served segments are never lost or replaced |
| **sync host** (`host-server/src/sync-host.ts`) | engine, timer, stopped flag | `schedule`, `run`, `ready`, `flush`, `stop` | timer against a running round; stop with unsent changes; adoption after a failed round | a change is eventually sent, and what is pushed here is taken and reported |
| **library recording** (`sync/src/library.ts`) | none of its own | `recorded`, `putActivity`, `removingActivity`, `adoptLibrary`, `joinCollections`, per-table `write` | local write against remote apply; two libraries that grew up apart | both devices come to one library; what is read stays read |
| **registry and settings sync** (`sync/src/registry.ts`, `settings.ts`) | waiting intents and held values, with attempts, in memory | `write`, `retry`, wrapped mutations, adoption | retry of an intent already replaced; intents lost on restart; a bridge that cannot move | a device ends as the last record says, sends as its own what was chosen there, and no held value replaces a setting changed later |
| **pairing** (`sync/src/pairing.ts`, `seal.ts`, `http.ts`) | the code shown, pairings with their keys; a device's pairing | open a code, enrol, handle, unlink; pair, call, unpair | lost, late and repeated messages; a restart; unlink during a request | two sides share one key until one of them ends it, and a device knows what its hub made of its call |
| **downloads** (`downloads/src/engine.ts`, `downloads.ts`, `id-remap.ts`) | manifest of series, chapters and pages; blobs; cancel flags; holds; drain and timers | enqueue, pause, resume, retry, delete, drain, stop, remap | read-modify-write across awaits; pause or delete against a page in flight; kick as the loop settles | what is marked complete is on disk; what is pending is drained |
| **library** (`library/src`) | series, collections, progress, history, tracker links, groups, activity, saved pages | some sixty methods, backup, id remap | long sequences of legal calls; read-modify-write across awaits; restart in the middle of a remap | references stay whole, nothing read is lost, a saved page points at what was saved |
| **runtime** (`runtime/src`) | tracker links' watermarks, update checks, migrations | reading and pushing to trackers, tracker import, background check, id migration | retried and half-done pushes; checks cut short; a revision beside an older list | trackers catch up; what a source published arrives; a migration marked done is done |
| **registry** (`registry/src`, `host-rn/src/registry-provider.ts`) | registries, installs, retired bridges, memo of indexes | add, remove, install, update, moves, adoption, checks | two registries with one id; a move that is several writes; a check across a move | an install is bound to a saved registry, changes hands only with the pinned key or the user, and can always be named |
| **core** (`core/src`) | bridge sandbox, cookies, limiters, a tracker's token | load, call, limit, renew | queueing of requests, windows, pauses, backoff; calls that share a renewal | no wake-up lost, no place in flight leaked, every request ends, a login is kept |
| **hosts** (`host-server`, `host-bun`, `host-rn`, `host-native`, `host-ios`, `host-android`) | loaded bridges and trackers, keyed queues, JSON files | routes, loads, settings, file writes | a load against a change of what it loads; overlapping reads and writes of a file; a crash while writing | callers get what is installed and set; what was acknowledged is on disk |
| **contract, sdk, testkit, cli** | – | types, base classes, tests | – | – |

How they meet: routes and phones call the library; the server's library writes to a store wrapped by
`wrapLibraryStore`, which records changes with the engine under `engine.exclusive`; the engine's
rounds talk to the hub (in process on the server, through pairing's sealed HTTP from a phone) and
apply what they pull through `librarySyncStore` under the same lock; a push from a phone makes the
server's own engine schedule a round. Registry and settings sync are further stores of the same
engine. Downloads, runtime and registry are driven by routes and share ids with the library.

## The modules

| module | models | correspondence |
|---|---|---|
| `HybridClock` | `hlc.ts` | a packed stamp is a triple compared as its string is; `Send`, `Recv` and `NewClock` are the class's methods on `last` |
| `SyncCrdt` | `crdt.ts` | envelopes as records, one merge operator for each strategy |
| `SyncReplicas` | the merge's promise | replicas of one record write (`Put`, `Notice`, `Dismiss`, `Read`, `MarkUnread`) and `Take` any change, in any order, again and again |
| `SegmentLog` | the hub's promise | logs that grow at their end, and nothing told that is not in them |
| `SyncHub` | `hub.ts`, `log.ts`, the file store | `queue` is the promise chain, its head the running push; `Write`, `Sync`, `Apply` are its awaits; `Crash` and `Open` |
| `SyncHubFaults` | the same with a disk that fails | `WriteFails`, `SyncFails`, `CrashInReopen` |
| `SyncPairing` | `pairing.ts`, `seal.ts`, `http.ts`: the gate in front of the hub, and the devices | below |
| `SyncEngine` | `engine.ts` against a `SegmentLog`-like hub, with the host's start, stop, snapshot and adoption | an install's `mem` is its engine's fields; `pc` says which await of `round()` it is in |
| `SyncHosting` | `sync-host.ts`: when the server's own device sends and takes | below |
| `SyncLibrary` | `sync/src/library.ts` for two devices, with `writeProgress` of `library.ts` | below |
| `RegistrySync` | `sync/src/registry.ts`, `settings.ts`, and `run` of `sync-host.ts` | below |
| `DownloadEngine` | `downloads/src/engine.ts` and `downloads.ts` for one series, on a store and a blob directory | below |
| `TrackerSync` | reading and trackers in `runtime.ts` | below |
| `BackgroundSync` | the background check in `runtime.ts`, with what `library.ts` records of an answer and the server's chapter route | below |
| `LibraryItems`, `Library` | `library.ts`: saved pages and chapters, then the series around them | below |
| `IdMigration` | `runtime/src/id-migration.ts`, `library/src/id-remap.ts`, `downloads/src/id-remap.ts`, and `backup.ts`'s restoring | below |
| `BridgeRegistry` | `registry/src/manager.ts`, `manifest.ts`, `conflicts.ts` (a server) and `host-rn/src/registry-provider.ts` (a device) | below |
| `BridgeHosting` | loading a bridge: `host-rn/src/provider.ts` (a device), `bridge-manager.ts` (a server), `withIdMigration` in front of both | below |
| `GatedNetwork` | `core/src/net`: `rate-limiter.ts`, `window-limiter.ts`, `gated-network.ts` | below |
| `TrackerTokens` | loading a tracker and renewing its token: `refreshable-network.ts`, `tracker-manager.ts`, `tracker-provider.ts` | below |
| `DocumentStore` | `json-file.ts` and the stores on it; the storage of `host-ios` and `host-android` | below |
| `MC…` | instances for TLC: constants, histories, symmetry | |
| `SyncReplicas_proofs`, `SyncHub_proofs`, `SyncEngine_proofs`, `BackgroundSync_proofs`, `DownloadEngine_proofs`, `Trackers_proofs`, `Bridge_proofs`, `NetworkAndStores_proofs` | theorems about the module of that name; `SyncHub_proofs` has those about `SyncPairing`, too, `Trackers_proofs` those about `TrackerSync` and `TrackerTokens`, `Bridge_proofs` those about `BridgeHosting` and `BridgeRegistry`, and `NetworkAndStores_proofs` those about `GatedNetwork` and `DocumentStore` | see Proofs |

What is abstracted in the sync core. A value is a model value: merging looks at whether there is one.
A `set` merges as a `register` does, so three kinds stand for four. Progress keeps `read` and
`lastPage` (`pageCount` is joined as `lastPage` is; number and language are the same on both sides, as
crdt.ts:83 says). Device ids are naturals, because only their order is used. In `SyncHub` a segment's
records are one body, since the hub only compares and copies them. In `SyncEngine` the hub is the
log itself: `SyncHub` shows that this is what it amounts to (`KeepsPromise`). A user's write takes the
engine's lock and so never falls inside a page being applied, but falls between any two other steps.
A snapshot is taken and written in one step; a stop between the two is a stop before both. A chapter's
progress is written only forward unless marked unread (`Backtrack`). The doc at the head of engine.ts
says that a round pushes first; `round()` pulls first, and so does the model.

### RegistrySync

`has` is what a device's own manager and bridge store hold: its registries, where its one bridge is
from, one setting. `Call` and `Return` are the wrapped mutation, under the engine's lock: what it
changed is found by comparing before and after (`recorded`). `engine` is where a round is; records are
applied one by one (`ApplyRecord`), in the order of their segment, which is the order of the tables
(`byTableOrder`). `write` performs an intent (`attempt`) or applies a value (`attemptSetting`), and
`waiting` keeps what failed. After a round `RetryIntent` goes through a copy of what was waiting,
outside the lock, one intent a step, while the user calls and the next round begins (only what follows
that round waits for it); `RetrySettings` and `Adopt` follow. `Restart` forgets `waiting`
and keeps the stamps. The engine's own crashes are `SyncEngine`'s subject, and the registry manager's
are `BridgeRegistry`'s: here it is `intent`, which adds, follows a forwarding note, installs, or is
refused because the bridge is from elsewhere (conflicts.ts:40). Nothing keeps an intent from being
retried after its record was changed, and the wrapper, which compares before and after, takes what a
retry does in the middle of a call for the user's own: `undone` and `mistaken` remember where that
happened. A held value has such a guard, the setting as it was when the value was first tried;
`arrived` is the setting when its record came, which that guard has to amount to.

### SyncLibrary

Two devices, each with a library of one series, a chapter, a row of the feed, and a shelf of a name
that the other has too. `sent` is what of a record travels (`projectItem` takes the shelves and the edit
of a series, `resumeOf` its place: two records, so that a page turn does not carry the shelf along);
`write` is how a record that comes is stored, with what it drops (the place or the feed of a series that
is not here). A round is `Pull` and `Push`; `adoptLibrary` follows the first pull, with
`joinCollections`, which files what is on the own shelf on the one that came. `recorded` is the wrapper
around the store's writes. `readPage`, `putProgress` and `putPlace` are `writeProgress`'s awaits.

### SyncHosting

`timer` is the debounce timer, `runs` how many calls of `run` are in the round, in the registry's
retries and in the settings'. `run` starts a round or shares the one under way (`sync()`, engine.ts:179);
`phase` is that round's await. `Touch` is the engine's `touch`, from a write of the library, and `push`
another device's segment. `ready` is the first run, the adoption and the second run. A run that
shares a round already past its pull, or past its last segment, is not made up for: `missed` says that the
last round was shared so late (`ComesTooLate`). What a snapshot holds is `saved`; `stop`, `Quit` and
`Start` are the shutdown and the next process.

### SyncPairing

A request is numbered; the number stands for its nonce and, in `pair`, for the device's half of the
exchange. `enrol` and `handle` are the hub's two answers, `changed` what it does with its pairings after
each (forget the ones whose time is over, save the rest), `forward` the routes behind it. `requests` and
`replies` only grow, so that anything may come late or again; `Unheard` is a reply lost or not the
hub's. `openResponse` opens a reply with the request's secret and looks for its nonce.

### DownloadEngine

| state | in the code |
|---|---|
| `series`, `chapter`, `page`, `file` | the store's rows (`chapter` keeps `state` and `pagesResolved`) and the blobs on disk |
| `pc`, `todo`, `cur`, `queue`, `attempt`, `landed`, `progressed` | where the one drain loop is: `drainLoop`'s `pending`, `downloadChapter`'s `queue` and the worker's attempt |
| `copy`, `kept` | what `resolveChapterPages` and `writePages` read before they write |
| `rekick`, `stopRequested`, `idleTimer`, `unblockTimer`, `cancelled`, `cancelledSeries`, `blocked` | the fields of those names (`blockedUntil`: there is one bridge) |
| `enq`, `del`, `bulk`, `kickDue` | calls between two of their writes, and one that has still to `kick()` |
| `gate`, `recheck` | what `mayDownload` answers, and whether the host gates and sets `idleRecheckMs` (a device) or neither (a server) |

A step ends at each await of something outside the process (a fetch, a file, the gate, a timer) and
at each write to the store; reads belong to the step that uses them, since the server's store keeps
its documents in memory. So a user's call falls between a page's file and its row, between that row
and its chapter's, between the pass's list and the chapter taken from it, and between `drainLoop`'s
return and the `finally` that clears the promise. `enqueue`, `pauseSeries`, `resumeSeries` and
`deleteChapter` are themselves several steps; the page rows and the chapter row that `requeueMissing`
writes are one. `Crash` forgets all but the store and the files, and boots.

### TrackerSync

One series, its chapters (numbers counted in halves, for chapter 1.5), the marks kept here (`read`), at
the source (`sourceRead`) and at a tracker (`remote`), and the link with its watermark, which says what
the tracker was told. A call is a record in `call`: what it read of the library before its await stays
in it, and calls of several callers run side by side. Reads and edits push with `PUSH_ATTEMPTS` attempts
(`pushToTracker`); a push may fail before the
tracker took it or after; a stop forgets the call. `relinkEntry` is the background pass's part in it,
which links a series by the id its source names. `collectSeries` and `autoLink` collect it and link it by
the same id; a tracker's list is previewed, then the series is collected (`collectForImport`) and seeded
with what the list said (`seedImported`), each after an await. Collecting a series that is linked already
points the link at the entry its ids name and keeps the watermark, though the user may have chosen another
entry (`linkTracker`, from runtime.ts:440; the background pass leaves such a link alone). `astray`
remembers that, or that the user set the tracker back. `outrun` are the entries whose last push was of
less than another call, or the link, went by: pushes take no lock. `WatermarkReached` is about the rest.

### BackgroundSync

A list is the version of the source's list it was, and `order` is the entries by the time of their
last check. A run orders the entries, asks for revisions in one batch (`batchCheckRevisions`), and
takes one entry after another (`Taken`, `Pull`, `PullFails`, `Unmoved`) until its time is up
(`TimeIsUp`). A list that was fetched is stored later (`StorePulled`, and `StorePage` for a page that
was opened), so that the lists of a run, of a page and of the source may pass one another, and a first list may be
empty. `overtaken` are the entries of which a list was stored that is older than one a run remembers, or
a first one that is empty and has a revision, until the list held is again the source's.

### Library

Each call of the library is one step (calls in progress at once are among what is not modelled).
`LibraryItems` has the saved pages: `locate` finds a saved page again, by hash, by URL, or by position
when nothing speaks against it; `mergeItemRecords` joins two that land on one place. `Library` adds the
shelf (`series`, `groups`, `collections`; a series comes onto it by being collected or by
`importBridgeFavorites`, alone or as another source of one that is there), reading (`progress`, `log`, `feed`) and what sources say
(`sync`: chapter lists; `gone`: removals confirmed by more than one surface). A page is named by what
it shows, so that `PointsAtSavedPage` can say that a record is lit where its own page is.

### IdMigration

A run reads the references under old ids, asks the bridge in batches (`Ask`), and writes an agenda of
moves. Each move is two halves, the record put under the new id and the old one removed, so a stop falls
between any two writes; a failed answer or a chapter that is being downloaded leaves some for the next
run. `mark` is the version recorded as done. `to` is the bridge's answer: series may become one, and
chapters may change within a series. `did` remembers what the user did, by new ids.

### BridgeRegistry

One module for both hosts: `host` says whether a write is part of a manifest saved whole (server) or a
write of its own that a stop may follow (device). `memo` is the index last read, which is used while
fresh or when offline. A call is a record in `call` with the writes still to come: `rebindRow`,
then `rebindRecords`, in the code's order. An index is what a URL publishes (`Index`), one after
another: it offers versions, says where it moved or what it took over, and bears a key.

### GatedNetwork

Times are kept as what is left of them, so the state is finite and `Elapse` is the clock. `limiter` is
the bridge's pace (places in flight, interval, pause, one timer, queue) and `route` a quota declared by
the bridge while it runs. A request waits for its route's window, then for the limiter (`acquire`), is
sent, and is answered, fails, or is told to slow down, which pauses the limiter and tries again as long
as the wait fits `MaxInlineWait` (`Attempt`).

### BridgeHosting

`transport` is the kind of host. A caller's load goes through `InstalledFor`, `ResolveBundle`,
`ReadSettings`, `InitBridge` and `FinishLoad` on a device, where callers share one (`loading`) and a load
told that it is `stale` (the epoch) begins again; on a server through `FinishServerLoad`. Meanwhile the
user edits settings (`EditReads`, `EditSets` in `KeyedQueue`'s turn; `Patch` on a server) and installs,
updates or removes (`ChangeInstalled`, `Announce`, `ChangeEnds`, each dropping what is loaded).
`GetLoaded` and `MigrationEnds` are `withIdMigration`: a caller waits until the revision it was handed
has been migrated. `asked` remembers what had been answered when a caller asked.

### TrackerTokens

Each loaded tracker is a context with its own network, the pair its settings were read with, and one
renewal under way at most, which refused requests share. The service takes one refresh token, the last it
gave, and may leave it out of an answer. A user gets a tracker or goes on with the one at hand; on a server
each `get` that finds none loaded makes one of its own. A context nobody uses any more is used again for
the next load (`MaxContexts`). On a server `onRefreshed` stores a new pair at once; on a device it stays
with the native context until `afterCall` fetches it (`drainAndPersist`), in the turns of `KeyedQueue`.
`Login`, `refresh` (an install, an update, a removal) and `Restart` come from outside, at any time, also in
the middle of a call. `excused` remembers that one of the events that cost a login has happened.

### DocumentStore

`style` is the kind of store: three uses of `JsonDoc`, which holds its value in memory and writes in its
path's queue (`onPath`); files read and written whole; and the native stores. `readJsonFile` and `Check`
are the two looks at a damaged file; `Begin` and `writeNow` a queued task, which decides what to write
when it begins. A value is the number of the call that wrote it; `versions` is what the document has
been, `acked` the last one whose writer was told.

## Runs

| run | bounds | shows |
|---|---|---|
| `sync_merge` | 2 replicas, 2 values, pages 1–2, wall readings 1–2 in any order on each replica, 3 writes, counters up to 2 | the merge's invariants and action properties for each strategy |
| `sync_hub` | the hub: 2 devices, 2 bodies, numbers 1–2, 2 pushes waiting, 1 crash. The gate: 2 devices, 2 codes, 4 calls, 1 restart | the hub implements `SegmentLog`: what was acknowledged or served survives, and no number is used for two contents; pairings are kept, and devices told the truth |
| `sync_engine` | 2 installs, 1 record of each strategy, 2 user writes, 1 stop and 1 failure (of a request, a write or a snapshot) at any point of install 1, records from before sync on either | nothing skipped, re-sent differently, or lost; convergence; prior copies survive |
| `sync_restore` | 1 restored backup, 2 writes, pages of one record | a fresh id, no gap, vectors never ahead of the hub, and eventually everything everywhere |
| `sync_library` | the records: 2 devices, each with a library or without, 2 calls. The host: 2 changes, 1 from before sync, 1 push, 1 each of flush, failure, shutdown | two libraries become and stay one; what is read stays read; what is made or pushed here is carried, but where a run shared a round that was past it |
| `registry_sync` | 2 devices, 2 registries, 1 bridge, 1 setting of 3 values, 2 attempts; six histories of 1–2 calls with a failure, a move or a restart, retries beside calls and rounds | a device ends as the last record it knows says, or knows that it gave up or retried an older intent; what it sends as its own was chosen there, but for what is `mistaken`; no held value replaces a setting changed since it came |
| `downloads` | chapters of 2 and 1 pages, 2 attempts, any 2 of: a user's call, a failing or throttled fetch or resolution, the gate flipping, a stop, a crash; device or server | no work forgotten, complete means complete with bytes behind it, completed pages kept; the queue drains and the loop ends |
| `trackers` | the entries: 2 callers at once, chapters 1, 1.5 and 2, 2 entries of the tracker (one with a total), 2 attempts; six histories of reads, un-reads, failures, edits at the tracker, collecting, importing, stops. The login: 2 users, 3 contexts in use at a time, any 2 of: 2 expiries, 1 login or drop, 1 lost answer or restart; device or server | the watermark passes what the tracker holds only where a later push said less than another beside it; the tracker catches up; the login is lost only by what `LoginKept` names; every call ends |
| `library` | 3 series, 3 chapter copies (2 of one number), 4 chapter lists, 3 pages in 4 page lists, 1 collection; eight histories of 2–4 calls | groups and series agree, finished means one thing, collecting keeps the place, saved pages are lit where they are |
| `bridges` | the book: 3 URLs (one moves to the second with its key, the third claims both with another), a bridge and a tracker, pinned or not; 3 calls and a stop, or 2 calls, a check and being offline. The hosting: 2 callers, 2 settings, 2 edits or changes, 1 failure; device or server. The ids: 3 series ids × 2 chapter ids, two answers (two series become one; a chapter changes within a series), batches of 1; six histories | a move strands nothing, nothing is taken over unasked, an uninstalled bridge can be named; callers get what is installed and set, and each is answered; nothing read or downloaded is lost in a migration, and one marked done is done |
| `network` | the network: 2 callers, pace from 2 together to 1 each tick, a quota of 1 in 2 ticks, waits up to 2 inline, backoff 1–2, a named wait of 3. The documents: 7 kinds of store, 2 keys, 2 clients, 3 calls after the one that made the file, 1 crash, error or damage | no wake-up lost, no place leaked; what was acknowledged is on disk, reads are current; every request and every call ends |
| `background` | 2 entries, 1 run at a time with 1 worker, lists up to version 2; in a behaviour either one is opened and may be taken down, or the other's bridge may go | no revision hides a list, but where an older or an empty one was stored as `overtaken` says; what else was published arrives |

Five runs check two or three parts that share no state in one: their `MC` module has a variable `part`
that says which one a behaviour is about, and the other parts' variables keep their first values, whose
choices are fixed then. A property of one part holds of the others' behaviours for want of events, so the
run says of each part what a run of its own would. (In `background` `part` is only a bound: it keeps pages
that are opened and bridges that go out of one behaviour.) The fairness of a part is stated again in the `MC`
module, of the part's actions taken in its own behaviours (`InHost(A)` and the like): weak fairness of an
action asks nothing of behaviours in which the action is not enabled. Some of the properties a run lists
are conjunctions, named for what their parts say together (`PagesKept`, `SeriesAgree`, `PlacesKept`,
`RecordsKept`, `ServedAsInstalled`, `BookKept`, `OwnWordOnly`, `LimiterMoves`, `OneLibrary`, `PairingKept`,
`ChoicesStand`, `EveryWaitEnds`); each part has its own definition and comment beside it.

Each run asks what a test hardly reaches: an order of steps of two actors, a stop between two writes,
or a sequence of legal calls. "Histories" (`Budgets`) are a small set of vectors saying how often each
kind of event may happen in one behaviour; every order and argument within a vector is tried. They keep
a product of unrelated events out, and each vector is a story in which the hazards of one part meet.

Why the bounds are enough. A disagreement between replicas needs two of them, and three writes give a
write, a concurrent one and one that has seen either. A hub's file is damaged at its last line only,
and two devices and two bodies distinguish duplicates, conflicts, gaps and other devices. In the engine
the interesting cases are a change in flight with one before or after it, which two writes give,
together with records both installs had before sync; one stop and one failure combine to a lost answer
followed by a restart; `Frail` limits them to install 1, the installs being otherwise alike. (A larger
instance, with two records in each segment and two tables, was checked for `NothingSkipped`, `Converged`
and `PriorCopySurvives`: `TwoKeys`, `TwoTables`, `SegmentSize = 2`, one write.) In `downloads`, two
chapters tell apart the one being downloaded and the rest of its series, and two pages of one a chapter
that is partly there; two events are one fault and one reaction, or two calls that cross, at any points
of a run that starts from any set of queued chapters. The safety properties were also checked with three
events of any kinds. In `registry_sync` a setting, its bridge and its registry are the three tables that
depend on one another, and "old" forwarding to "new" is the shortest move. In `library` groups of three
are needed for one to lose a member and stay; two copies of one number for progress to be shared. In the
ids' part of `bridges` two old series and a new one make the one collision there is, and within a series
the other; in its hosting two callers are one that loads and one that joins or asks after, and two
changes one before and one during a load. At the gate of `sync_hub` two phones are a phone and another's
messages, and two codes let a device pair again. In `sync_library` two calls, one on each device or both
on one, meet a join of what each had before. For a login two users are what shares a renewal or a load;
a document needs two clients, a writer and another or a reader, and three calls to have one queued behind
one that runs. In `network` two callers are one that holds a place and one that waits for it; times above two or
three ticks only add waiting. In `background` two entries are one that fails or does not load and one
that it must not starve.

Deadlock is not checked: once the bounds on events are used up the system has nothing left to do.
By hand, on the runs' instances: `TypeOK` of the modules that have one, `VectorBounded` (SyncEngine), and
`LoopEnds` (DownloadEngine).

### Where a property needs a condition

Some properties hold only because a constant keeps an instance to what the code gets right, and some
expectations of the code's comments do not hold at all. Each line below is one change to the named
`.cfg` (– is none: the property put in place of those there) and gives a short counterexample.

Where nothing in the code keeps an overlap or an odd answer away, it happens in the run, and the property
excepts what it leads to by name. A history variable, which no guard reads, marks exactly those cases, as
narrowly as can be said: `overtaken` (BackgroundSync), `missed` (SyncHosting), `outrun` (TrackerSync),
`excused` (TrackerTokens), `mistaken` and `undone` (RegistrySync). What remains is what the code
promises at every other step of the same behaviours; what would hold without the exception is among the
lines below.

| in | change | violated | what happens |
|---|---|---|---|
| `MCSyncReplicas.cfg` | `Backtrack = TRUE` | `Agreement` | paging back in an unread chapter is recorded without a new epoch: the writer keeps the smaller page, the others the larger (sync/src/library.ts:310) |
| `SyncHubFaults.cfg` | – | `AckedKept` | an append fails half-way, the next one runs into it, and a reopening cuts off what was acknowledged |
| `MCSyncEngine.cfg` | `MaxFailures = 0` | `OnlyOwnChanges` | a stop mid-page leaves records without stamps, which are then sent as the install's own (engine.ts:296) |
| `MCSyncEngine.cfg` | `LoseTouches = TRUE`, `CrashPoints <- AtRest` | `ChangesKept` | a change recorded since the last snapshot is forgotten by a stop |
| `MCSyncEngine.cfg` | `MaxFailures = 2` | `ResendIsIdentical` | a snapshot fails, the unsaved segment lands, its answer is lost and the install stops: the number comes again with a later change in it (engine.ts:232). The hub refuses, and the install goes on under a fresh id: `Converged` and `ChangesKept` still hold |
| `MCSyncEngine.cfg` | `BuildFaults = {"read"}` | `ChangesKept`, `Converged` | a record that fails to be read while a segment is built is no longer dirty (engine.ts:226) |
| `MCSyncEngine.cfg` | `PriorProgress = TRUE` | `Converged` | a position from before sync that is further than the history is never sent (engine.ts:308) |
| `MCRegistrySync.cfg` | `Histories <- Moves` | `MoveRebindsEverywhere` | the records of a confirmed move end in an install that the other device's manager refuses (conflicts.ts:40); sync/test/registry.test.ts:213 expects the rebind on every device, with a manager that does not refuse |
| `MCDownloadEngine.cfg` | `Overlap = TRUE` | `BytesBehindPages` (of `PagesKept`), `NothingForgotten` | a pause or a delete between `resolveChapterPages`' read and write is lost or resurrected |
| `MCDownloadEngine.cfg` | `ShortHolds = TRUE`, `Budget <- LimitOnly` | `NothingForgotten` | a hold that is over before the loop settles leaves the chapter to a kick nobody gives |
| `MCDownloadEngine.cfg` | `Budget <- CrashOnly`, `MaxEvents = 1` | `SettledComplete` | a chapter all of whose pages are on disk stays `downloading` after a crash |
| `MCDownloadEngine.cfg` | `Chapter <- OneChapter`, `PagesOf <- OnePages`, `Budget <- TwoStops`, `MaxEvents = 6` | `CompleteMeansAll` | a stop cuts a delete after it took a paused chapter's pages: the chapter still counts as resolved. An enqueue then asks for a new resolution (downloads.ts:150), and a `resumeSeries` that read the row before puts it back (:324), still resolved. A second stop cuts that resolution, and the chapter reads complete without a page it has |
| `MCTrackerSync.cfg` | – | `WatermarkIsKnown` | two pushes overlap and land in the other order (runtime.ts:1304): the watermark is the greater, the tracker holds the less |
| `MCLibrary.cfg` | `Budgets <- PageBudget` | `RelitOnlyWhenFound` | a page taken for lost is lit again because the count fits (library.ts:1439) |
| `MCLibrary.cfg` | `Budgets <- FeedBudget` | `MarkedRowsRead` | a row of the feed that was marked read comes back unread (library.ts:1160) |
| `MCBridgeRegistry.cfg` | `Histories <- MidMove` | `DownloadsKept` (of `RecordsKept`) | a stop within one chapter's move leaves rows and files of both ids (downloads/src/id-remap.ts:81) |
| `MCBridgeRegistry.cfg` | `Histories <- ReadsOverlap` | `ReadKept` (of `RecordsKept`) | the user reads on while a run moves the same series |
| `MCBridgeRegistry.cfg` | `Budgets <- CheckBudget` | `NothingStranded` | a check writes back a record it read before it followed a move that rebound it (registry-provider.ts:334, against :531) |
| `MCBridgeRegistry.cfg` | `Caller = {1, 2}` | `StillNamed`, `MoveStrandsNothing` (of `BookKept`) | on a device, an uninstall between an install's two writes: the record kept of it is then cleared; two calls that move the same registry likewise strand an install (registry-provider.ts) |
| `MCBridgeRegistry.cfg` | `Overlap = TRUE` | `HandsOutCurrent` (of `ServedAsInstalled`) | a server's `get` reads the settings, awaits the load, and puts the bridge in the cache after an edit dropped it (bridge-manager.ts:130-147): it stays there with the old ones. A device guards this with an epoch |
| `MCBridgeRegistry.cfg` | `MidRun = TRUE` | `MigratedBeforeUse` (of `ServedAsInstalled`) | whoever is handed one revision during the migration of another waits for that and uses it, though its own was not run; runtime/src/id-migration.ts:8 says that nothing sees a bridge before its migration |
| `MCSyncLibrary.cfg` | `Overlap = TRUE` | `LibrariesAgree`, `ReadStays` (of `OneLibrary`) | a round applied between `writeProgress`' read and its writes is overwritten (library.ts:1775) |
| `MCSyncLibrary.cfg` | `Apart = TRUE` or `Early = TRUE` | `LibrariesAgree`, `JoinedAndFiled` | `joinCollections` knows a shelf that came by its stamp: with two joins at once each side gives way to the other, and a series already stamped is filed again through the inner store, so nobody is told |
| `MCSyncLibrary.cfg` | – | `PushBringsUpToDate` | a run that joins a round past its pull, or past its last segment, leaves what it was for to an event that need not come (engine.ts:179); sync-host.ts:50 says that a push brings the server's own library up to date |
| `MCTrackerSync.cfg` | – | `RefreshedSilently` | a tracker that renewed and makes another request sends the token its settings were read with, and its network, which has the new one, finds no configuration for it (refreshable-network.ts:119): it fails where host-native/src/runtime.ts:99 says it is refreshed |
| `MCGatedNetwork.cfg` | `Parallel = TRUE` or `TornWrites = TRUE` | `AckedKept`, `ReadsCurrent` | a native store reads the whole file and writes it again, without a queue or a rename: overlapping calls undo one another, and a stop in a write leaves half a file |
| `MCGatedNetwork.cfg` | – | `SlowDownHolds` | the place is given back, and the next request started, before the 429 is looked at (rate-limiter.ts:48) |
| `MCBackgroundSync.cfg` | – | `ReturnIsNoticed` | an entry restored at its source and reported unchanged stays marked as gone (`markChaptersUnchanged`) |
| `MCBackgroundSync.cfg` | – | `NoUpdateMissed` | a revision is recorded beside an empty first list, or beside an older list that lands after the check's mark (library.ts:721); runtime.ts:1044 says that nothing there can cause an update to be missed |

### Fairness

`SyncEngine`. Each install takes steps of its rounds again and again, and adopts when it can. Phones
poll, and any push, write or start schedules a round on the server, so rounds keep starting as long as
there is something to carry; a round that has started only awaits the hub and the store. An install can
always take a step of its rounds: it may pull between rounds, and while sending, a number either extends
the log, repeats it, or clashes, and then a fresh id is to be had. That is why `[]<><<Round(d)>>_vars`
is weak fairness here, without the cost of `ENABLED`. Failures and stops are not fair, and are absent
from the liveness run.

`DownloadEngine`. The loop's steps, a call's remaining steps, a due kick, the timers and the end of a
hold are weakly fair: each is enabled by something the process itself awaits, and stays so until it is
answered. That a fetch answers, if with a failure, is an assumption: a bridge's calls are bounded by
`callTimeoutMs` (core/src/loader.ts:102), a bare HTTP fetch by the network. The user, faults, the gate,
stops and crashes are not fair. `QueueDrains` is about runs in which the gate is at last open and no
stop is asked for.

`TrackerSync`. A call that has started goes on, and the background pass comes again. `GatedNetwork`:
the clock, timers that have run out, and sources that answer, if with a refusal. `BackgroundSync`: runs
keep starting and a run goes on; of the runs that start, again and again one lasts long enough for all
entries (strong fairness: a host that always cuts the pass after the first would see no more); a source
that is asked again and again answers again and again. `RegistrySync` has no liveness: a retry comes
with the next round, and nothing but a change or a push brings one about (sync-host.ts:183).

`SyncHosting`. The timer fires, a round that has begun goes on, what follows it is done, a shutdown ends
and the server is started again. A round that failed is begun again only by the next change or push, so
`Carried` excuses what a last failed round left, or one that was shared too late (`missed`), and what no
snapshot held when the process ended.
`BridgeHosting`: loads and migrations go on; a load begins again each time it is told that it is stale,
and the user's changes, which tell it, are bounded. `TrackerTokens` and `DocumentStore`: whatever the event
loop or the service has to take next is taken. Users, logins, expiries and faults owe nothing anywhere.

## Proofs

TLC shows a property on the instances above; the theorems below hold for every value of the constants
but for the hypotheses they name. A hypothesis on a constant that selects behaviours (`Overlap`,
`LoseTouches`, ...) is one of "Where a property needs a condition": without it the property is false.

| theorem | of every instance with | says |
|---|---|---|
| `TypeCorrect`, `StampsUnique`, `WritesFollowSeen`, `DismissalFinal`, `TakingNeverRewinds` | clocks within the drift (`WallAssumption`) | the merge's types, stamps, dismissals and positions |
| `Convergence` | the same, and a reader who never backtracks | same changes, same record |
| `HubTypes`, `AckedSurvives` | any devices, bodies and bounds | what the hub told anybody is what a reopening finds |
| `Implementation` | the same | `SyncHub` implements `SegmentLog` |
| `PairingIsKept`, `DevicesAreToldTheTruth` | any devices, calls, restarts | one key, shared and kept; a device is told of its pairing what is so |
| `NumbersHaveNoGap`, `PriorCopiesSurvive` | any installs, records, stops, failures and restored backups | segments are numbered without a gap; the first pull deletes no copy from before sync |
| `ResentIsWhatWasSent` | no snapshot failing right after a segment was built (`"save" \notin BuildFaults`) | a number is not sent twice with two contents |
| `NothingIsSkipped` | no change between snapshots lost by a stop (`~LoseTouches`) | what a saved vector counts is in the store, or something later is |
| `ChangesAreKept` | no record unreadable (`"read" \notin BuildFaults`), no change between snapshots lost by a stop (`~LoseTouches`) | a change not sent yet is dirty or pending |
| `DownloadedPagesStay` | no call writing within a resolution of the same chapter or beside a delete (`~Overlap`) | a page once fetched keeps its row and its bytes until its chapter is deleted |
| `CompleteCanBeRead` | the same, at most one stop (`Budget["crash"] <= 1`) | what reads complete has all its pages |
| `NothingIsForgotten` | the same, no hold over before a server's loop settles (`~ShortHolds`) | what is pending when the engine rests has a timer |
| `NoUpdateIsHidden` | any entries, runs, workers, and answers in any order | a revision is newer than the list beside it only where `overtaken` says so |
| `TheWatermarkIsReached` | any callers, chapters, entries and histories | what the watermark says the tracker was told, it holds, but where a later push said less than another beside it (`outrun`) |
| `LoginsAreKept` | any users, contexts, expiries, logins, drops and mishaps, on a device and on a server | the refresh token the service takes is stored or on its way there, until one of the losses the property names has come |
| `GateTypes`, `LimitersMove` | any callers, paces, quotas, waits | no wake-up lost, no place leaked |
| `BridgesAreServedAsInstalled` | no change of a server's bridge while it loads (`~Overlap`), no load of one revision ending during the migration of another (`~MidRun`) | what a caller uses is installed, set and migrated as of when it asked, or later; a device serves what its engine holds; an answered edit stays |
| `TheBookIsKept` | one call at a time (one `Caller`; with two both parts are false) | a registry's move strands no install; what was installed can be named |
| `StoresKeepWhatTheyAcknowledge`, `AnswersStayCurrent` | any clients, calls, stops, errors; if native stores are among the styles, no overlapping calls and no torn writes | what was acknowledged is on disk; an answer is no older than its question |

The run `sync_engine` has `BuildFaults = {"save"}` and one failure. With one, `ResendIsIdentical` holds
there too, which TLC shows; the theorem is about any number of failures of the other kinds.

None of the properties is inductive. Each proof states an invariant as a conjunction of named parts,
shows it for the initial states and for one action after another, and ends with the property.

`SyncReplicas_proofs`. `ClockInv`: a replica's clock has reached every change it has seen, and a change
is seen by the replica whose id its stamp carries; all stamps come from wall readings, so none is beyond
the drift. A new stamp is then new, and after all that was seen. `RegisterInv`: a replica that knows the
record holds the latest change it has seen; two that have seen the same hold the same, because stamps are
unique. `EventInv`: it holds a dismissal if it has seen one, and the earliest sighting otherwise.
`ProgressInv`: it holds the newest epoch it has seen, a position at least as far as every change of that
epoch, and one reached by them. Lemmas about `HybridClock` and `SyncCrdt` come first: stamps are totally
ordered, `Send` and `Recv` only move up, merging keeps the type and joins.

`SyncHub_proofs`. `FilesInOrder`: a file is whole lines numbered from 1, but for a torn last one while the
hub is closed. `LogIsFiles`: the log in memory is the files', short of the line of the push that is
running. `ToldIsFiled`: what was acknowledged or served is such a line, and not that push's. What
`CleanLength` finds in a file is a lemma, and so is the log the refinement maps to (`Settled`): the log
in memory, or the clean files when there is none. Each step then appends to it, or leaves it alone.

Its second half is about `SyncPairing`. A reply may come at any time, so the replies that grant a pairing (`Enrolments`)
stand for all pairings there ever were: each has its own number and its own code (`EnrolmentsDiffer`),
both sides of a pairing are of one of them (`OfEnrolments`), none was forgotten unless its device asked
or its time was over (`EnrolmentsKnown`). `RepliesTrue`: a reply that says a pairing has ended is of one
that has, and it does not begin again.

`SyncEngine_proofs`. `Numbers` ties the next number of every state an install may start from (in memory,
in its snapshot, in its backups) to the hub's log, for a state that is put back carries an id that others
have gone past. `Owned` says whose log it is while nothing is put back: an id is one install's, the log
is what that install numbered, and its snapshot agrees with its memory on what is pending. `Unsent`
follows an unsent change into the snapshot, where a stop would look for it. `PriorKept` has a copy from
before sync either unknown to sync or held, in memory and in the snapshot. `InboxFiled` is what makes the
records that are applied the hub's.

Its second half is `NothingIsSkipped`, on an invariant of its own (`SkipInv`). A record that a vector
counts has been merged: the stamp kept for its key covers it (`Covered`), and the store shows it or what
came after it (`Shows`). Stops make it need three things more. A stop takes an engine's stamps back and
not the store, so covering is said of every state an install may start from, each against its own vector,
and showing of the store alone (`CountedMerged`). A rewound position is then behind what was counted with
nothing in memory to say why; the reset that did it is in the snapshot or at the hub (`ResetsKnown`),
unless the user did it since the snapshot, which is what `LoseTouches` would lose. And a vector moves at
the last record of a segment, while its page is applied record by record: what lies before the records
left has been merged (`PageOK`), which holds when a page is pulled because a page is closed downwards
(`PageClosed`). Clocks have reached all stamps (`StampsOK`), so a change made now covers all that was
merged.

`BackgroundSync_proofs`. The argument is about a revision that an answer confirms for the list already
stored (`Unmoved`, and a pull that fails): it matched the revision the run had read at its beginning, and
what a run remembers of an entry is of a list the source has had, and no newer than the list held, unless
the entry is overtaken (`Covered`, `RunsRemember`). All lists, stored or on their way, are ones the source
had (`ListsAreTheSources`), so one fetched after an answer is as new as it. A list that is stored over a
newer one is then either of an entry that no run remembers, and takes its revision along, or overtakes it.

`NetworkAndStores_proofs`, of `GatedNetwork`. `InQueues`, which the code relies on and never states: a caller is in the queue its
request stands at, there once, and in no other. So a start that is taken off a queue is one request more
in flight, and a queue that is not empty has the timer that its limiter set (`LimiterWakes`, `RouteWakes`).

The same module, of `DocumentStore`. A file becomes what a task writes, and what that is was decided when the task
began. `TasksWorth`: each task queued for a path is of a version later than what was acknowledged and
than those before it, and will write the document as it is by then. `HostsKeep` and `NativesKeep` are what
the file holds between writes; `LoadsOnce` that a document is read into memory once. Answers need one part
more (`Reads`): whoever has read holds a version no older than when it asked.

`Bridge_proofs`, of `BridgeHosting`. What a caller uses went through several hands since the user was last
answered, and each part of `HostInv` follows it through one. Edits under way have later and later values, those
that are set come first, and the settings have the last of them (`EditsOK`): so a load that reads between an
edit's write and its answer reads something newer than it has to. What a load has read is as new as the last
answers unless it was told that it is stale, and what is loaded is as new as they are (`LoadsOK`): dropping what
is loaded before answering is what keeps this, and without `~Overlap` a server's load puts back what was dropped.
A device has one load, and its engine holds what that load built (`ServingOK`). Who was handed an
entry has one that is new enough, and waits for the run of that revision and no other (`CallersOK`), which is
where `~MidRun` is needed.

The same module, of `BridgeRegistry`. Each write of a call goes by what the call read some writes ago, so the
invariant is about what it has at hand. A rebind saves the new row first, then moves the installs, then drops
the old row: while it moves them, the new row is saved and the installs that still name the old one are among
those it goes by; what an uninstall is about to drop is noted among the retired, and a note is cleared only for
what is installed (`WritesOK`). It also must not move a registry to itself, since dropping the old row would
then drop the new one: `AimOK` and `AgendaOK` follow that from the chain of forwarding notes, which turns to no
registry it has seen, and from the moves that wait for the user (`PendingOK`). All of it is one call's
knowledge, hence one `Caller`: nothing in registry-provider.ts keeps a second call out. A stop may cut the call
anywhere. `OwnWordOnly`, which is about all the indexes a registry has ever published, stays with TLC.

`DownloadEngine_proofs`. Three invariants, each on top of the one before it. `KeepInv` says where the
loop and the calls under way stand to the manifest. Its heart is that a page in the loop's hands has its
bytes from the moment the file is written (`BytesOK`), and that what is still to be fetched is not
complete, but for the page just recorded (`QueueOK`). A resolution writes rows computed from what it read
(`ResolutionOK`), and this is where `~Overlap` is needed. `WholeInv`: a chapter that counts as resolved
has all its pages, or none when a delete, under way or cut short, took them. A second stop breaks this (the
table above has how), so the theorem allows one. `ForgetInv` says of every chapter with something to
fetch (`Wanted`) who will see to it (`Hope`): a loop that makes another pass, a loop that still has it in
this pass, a call that will kick, or a timer. While a chapter is being fetched, this hangs on what
`recomputeChapter` will make of its row, so a failed one counts as wanted until the loop has left it.
TLC finds no violation of `NothingForgotten` with two stops; the theorem has at most one because the
proof uses what the pages of a resolved chapter are, which is `WholeInv`.

`Trackers_proofs`, of `TrackerSync`. The property is about the link and the tracker; what makes it
inductive is what every call under way goes by (`SyncInv`). The counts a call has at hand (`CountsOf`: of the
link, of the tracker's entry, and what it pushed) are held by the entry it read them of (`Backed`), as the
link's is (`LinkOK`): a push that lands with less than one of them makes its entry `outrun`, an edit that
sets an entry back is `astray`, and one that lands with as much as all of them ends that. A push is decided
from what its call goes by and goes beyond it (`Beyond`), so by itself it never lowers the tracker, whether
its answer comes or not, and what is recorded after it is what was pushed, what was seen or what the link
said (`Recorded`). That the chapters read have a greatest, which is what `Most` gives, is a fact about
finite sets, proved over the strict subsets of one (`GreatestIs`).

The same module, of `TrackerTokens`. Each pair the service gives is a version, and it takes the latest
(`Older`). The invariant follows that one from whoever got it to the settings, for as long as nothing has
been `excused` (`Steady`). On a server only one context at a time has been granted a pair that is not stored,
and everything else is older (`ServerOK`), so no older pair is stored over it. On a device a pair that is
granted, or waits to be fetched, is the loaded context's (`ContextsOK`), what each user carries and has read
is no newer than what is stored (`CarriesOK`), and the turns are in the order the pairs were given, the
latest last (`TurnsOK`).

Only model-checked. Liveness under fairness (`EventuallySettled`, `QueueDrains`, `TrackerCatchesUp`,
`EveryCallEnds`, `EveryWaitEnds`, `UpdatesArrive`, `Carried` and the others) is beyond TLAPS. Of the
safety properties, `Converged` needs besides that two installs which count the same hold the same, for
each kind of record, as `Convergence` has it for `SyncReplicas`;
those of `SyncLibrary`, `RegistrySync`, `Library` and `IdMigration`, and `OwnWordOnly` of `BridgeRegistry`, have not been proved. `Library`'s would be long: its actions each rewrite several of
its fields at once.

## Not modelled

- Ciphers (taken at their word in `SyncPairing`), HTTP and JSON encoding, schemas, signature
  verification, parsing, rendering, the command line and test kits: pure functions or I/O, better tested.
  Routes are the callers of what the modules model; what they check of a request is left out.
- Bridges, trackers and sources themselves, and the native shells but for their storage: outside, and
  modelled by what they may answer. The sandbox a bundle runs in, its timeouts and cookies.
- Calls of the library in progress at once, but for `writeProgress` against a round (`SyncLibrary`).
- sync/src/library.ts's groups, preferences, tracker links and reading log, which are written as shelves
  are; joining more than two devices.
- Deleting a shelf is two calls of the store (the shelf, what was on it), taken as one step in
  `SyncLibrary`. A row of the feed or a place that was dropped because its series was not here is not asked
  for again: `LibrariesAgree` leaves it out.
- Of downloads: partial chapters, bulk and eager enqueues, several workers, page budgets, deleting a
  series or everything. Of the runtime: detail refresh, the search for matches. Of backup: export.

## Plan

1. Proofs: `Converged` of `SyncEngine`, on top of `SkipInv`: what an install holds is what it counts,
   merged, or a change of its own that is still to be sent; `OwnWordOnly` of `BridgeRegistry`.
2. Modules: the library's calls across awaits against one another; the rest of downloads.
