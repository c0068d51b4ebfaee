---------------------------- MODULE BridgeHosting ----------------------------
(***************************************************************************)
(* How a host loads one bridge and hands it out: the device's              *)
(* EmbeddedBridgeProvider over a native engine, or the server's            *)
(* BridgeManager, both behind withIdMigration. Callers ask for the bridge  *)
(* while the user changes its settings and installs, updates or removes    *)
(* it; what a load reads is read at its own moments, and a load may fail.  *)
(*                                                                         *)
(* A revision of the bridge is the number of the change that installed it, *)
(* a setting's value the number of the edit that wrote it. Bundles, their  *)
(* cache and their checks, descriptors and what calls return are left out. *)
(***************************************************************************)
EXTENDS Naturals, Sequences, FiniteSets

CONSTANTS
  Asker,       \* who asks for the bridge: routes, the runtime, migrateInstalledBridges
  Key,          \* the keys of the bridge's settings
  Host,         \* the hosts considered, out of "device" and "server"
  MaxAsks,      \* bound on edits of the settings, installs, updates and removals together
  MaxFailures,  \* bound on loads and migrations that fail
  Overlap,      \* whether a server's bridge changes while it is being loaded
  MidRun        \* whether a load of one revision ends during the migration of another

NoCaller == "nobody"

ASSUME HostingAssumption ==
  /\ NoCaller \notin Asker
  /\ Host \subseteq {"device", "server"}
  /\ MaxAsks \in Nat /\ MaxFailures \in Nat
  /\ Overlap \in BOOLEAN /\ MidRun \in BOOLEAN

VARIABLES
  transport,      \* which of the hosts this is
  record,    \* the installed revision, 0 when there is none
  change,    \* the change under way: "none", "written" or "announced"
  changes,   \* how many changes there have been
  settings,  \* the stored settings
  edits,     \* edits not yet answered, in the order they were asked for
  edited,    \* how many edits there have been
  known,     \* whether installedCache has the bridge
  stale,     \* whether the load in flight has been told so: its epoch is another one now (device)
  loaded,    \* the entry callers are served from, NoEntry when there is none
  context,   \* the entry the native engine holds under this id (device)
  loading,   \* the caller whose load the others share, NoCaller (device)
  load,      \* what each caller's own load has read
  pc,        \* where each caller is
  held,      \* the entry each caller was handed
  ended,   \* the revision whose migration ended since the last drop, 0 for none
  running,   \* the revision whose migration is under way, 0 for none
  migrated,      \* the revision this device has migrated its records for
  tried,     \* (history) revisions a migration was run for to its end
  asked,     \* (history) what had been answered when each caller asked
  answered,  \* (history) the last change answered, and the last edit of each key
  failures

bridgeVars == <<transport, record, change, changes, settings, edits, edited, known, stale, loaded, context, loading,
                load, pc, held, ended, running, migrated, tried, asked, answered, failures>>

NoEntry == [rev |-> 0, settings |-> [k \in Key |-> 0]]
NotAsked == [change |-> 0, settings |-> [k \in Key |-> 0]]
Unread == [rev |-> 0, settings |-> <<>>, built |-> FALSE]

BridgeInit ==
  /\ transport \in Host
  /\ record = 1 /\ change = "none" /\ changes = 1
  /\ settings = [k \in Key |-> 0] /\ edits = <<>> /\ edited = 0
  /\ known = FALSE /\ stale = FALSE
  /\ loaded = NoEntry /\ context = NoEntry /\ loading = NoCaller
  /\ load = [c \in Asker |-> Unread]
  /\ pc = [c \in Asker |-> "idle"]
  /\ held = [c \in Asker |-> NoEntry]
  /\ ended = 0 /\ running = 0 /\ migrated = 0 /\ tried = {}
  /\ answered = [change |-> 1, settings |-> [k \in Key |-> 0]]
  /\ asked = [c \in Asker |-> NotAsked]
  /\ failures = 0

userVars == <<record, change, changes, settings, edits, edited, answered>>
gateVars == <<ended, running, migrated, tried>>

(* withIdMigration: whoever is handed an entry whose migration has not ended since *)
(* the last drop waits for the run under way, or begins one.                       *)
Ensure(callers, entry) ==
  /\ MidRun \/ running \in {0, entry.rev}
  /\ held' = [c \in Asker |-> IF c \in callers THEN entry ELSE held[c]]
  /\ pc' = [c \in Asker |-> IF c \notin callers THEN pc[c] ELSE IF ended = entry.rev THEN "using" ELSE "migrating"]
  /\ running' = IF ended # entry.rev /\ running = 0 THEN entry.rev ELSE running
  /\ UNCHANGED <<ended, migrated, tried>>

(* Asking. A device shares the load in flight; a server starts another. *)
GetLoaded(c) ==
  /\ loaded # NoEntry
  /\ Ensure({c}, loaded)
  /\ UNCHANGED <<loading, load, stale>>

AskDevice(c) ==
  /\ transport = "device" /\ loaded = NoEntry
  /\ pc' = [pc EXCEPT ![c] = IF loading = NoCaller THEN "listing" ELSE "waiting"]
  /\ loading' = IF loading = NoCaller THEN c ELSE loading
  /\ stale' = IF loading = NoCaller THEN FALSE ELSE stale
  /\ UNCHANGED <<held, load, gateVars>>

AskServer(c) ==
  /\ transport = "server" /\ loaded = NoEntry
  /\ pc' = [pc EXCEPT ![c] = "loading"]
  /\ UNCHANGED <<held, loading, load, stale, gateVars>>

AskFor(c) ==
  /\ pc[c] = "idle"
  /\ GetLoaded(c) \/ AskDevice(c) \/ AskServer(c)
  /\ asked' = [asked EXCEPT ![c] = answered]
  /\ UNCHANGED <<transport, userVars, known, loaded, context, failures>>

(* A load's end for the caller who began it and for those who share it. *)
Sharing(c) == IF transport = "device" THEN {c} \cup {d \in Asker : pc[d] = "waiting"} ELSE {c}

LoadOver(c) ==
  /\ loading' = IF loading = c THEN NoCaller ELSE loading
  /\ load' = [load EXCEPT ![c] = Unread]
  /\ stale' = FALSE

Hand(c, entry) ==
  /\ LoadOver(c)
  /\ Ensure(Sharing(c), entry)
  /\ UNCHANGED asked

AskFails(c) ==
  /\ LoadOver(c)
  /\ pc' = [d \in Asker |-> IF d \in Sharing(c) THEN "idle" ELSE pc[d]]
  /\ asked' = [d \in Asker |-> IF d \in Sharing(c) THEN NotAsked ELSE asked[d]]
  /\ UNCHANGED <<held, gateVars>>

(* A miss in installedCache is checked against the manifest before it counts. *)
InstalledFor(c) ==
  /\ pc[c] = "listing"
  /\ \/ /\ known \/ record # 0
        /\ known' = TRUE
        /\ pc' = [pc EXCEPT ![c] = "loading"]
        /\ UNCHANGED <<held, loading, load, stale, gateVars, asked>>
     \/ /\ ~known /\ record = 0
        /\ AskFails(c)
        /\ UNCHANGED known
  /\ UNCHANGED <<transport, userVars, loaded, context, failures>>

(* The code and the settings are read apart; an uninstalled bridge has no code. *)
ResolveBundle(c) ==
  /\ pc[c] = "loading" /\ load[c].rev = 0
  /\ \/ /\ record # 0
        /\ load' = [load EXCEPT ![c].rev = record]
        /\ UNCHANGED <<pc, held, loading, stale, gateVars, asked>>
     \/ record = 0 /\ AskFails(c)
  /\ UNCHANGED <<transport, userVars, known, loaded, context, failures>>

ReadSettings(c) ==
  /\ pc[c] = "loading" /\ load[c].settings = <<>>
  /\ transport = "server" => load[c].rev # 0
  /\ load' = [load EXCEPT ![c].settings = settings]
  /\ UNCHANGED <<transport, userVars, known, stale, loaded, context, loading, pc, held, gateVars, asked, failures>>

HasRead(c) == pc[c] = "loading" /\ load[c].rev # 0 /\ load[c].settings # <<>>
Entry(c) == [rev |-> load[c].rev, settings |-> load[c].settings]

(* The engine evaluates the bundle under the bridge's id. *)
InitBridge(c) ==
  /\ transport = "device" /\ HasRead(c) /\ ~load[c].built
  /\ context' = Entry(c)
  /\ load' = [load EXCEPT ![c].built = TRUE]
  /\ UNCHANGED <<transport, userVars, known, stale, loaded, loading, pc, held, gateVars, asked, failures>>

\* Mutant: the last look is left out.
KeepsStale(c) ==
  /\ transport = "device" /\ HasRead(c) /\ load[c].built
  /\ loaded' = Entry(c)
  /\ Hand(c, Entry(c))
  /\ UNCHANGED <<transport, userVars, known, context, failures>>

\* Mutant: the load that begins again is still told that it is stale.
NeverCatchesUp(c) ==
  /\ transport = "device" /\ HasRead(c) /\ load[c].built
  /\ \/ ~stale /\ loaded' = Entry(c) /\ Hand(c, Entry(c)) /\ UNCHANGED context
     \/ /\ stale /\ context' = NoEntry
        /\ pc' = [pc EXCEPT ![c] = "listing"]
        /\ load' = [load EXCEPT ![c] = Unread]
        /\ UNCHANGED <<stale, loaded, loading, held, gateVars, asked>>
  /\ UNCHANGED <<transport, userVars, known, failures>>

(* doLoad's last look: told in the meantime that it is stale, it disposes and builds again. *)
FinishLoad(c) ==
  /\ transport = "device" /\ HasRead(c) /\ load[c].built
  /\ \/ /\ ~stale
        /\ loaded' = Entry(c)
        /\ Hand(c, Entry(c))
        /\ UNCHANGED context
     \/ /\ stale /\ stale' = FALSE
        /\ context' = NoEntry
        /\ pc' = [pc EXCEPT ![c] = "listing"]
        /\ load' = [load EXCEPT ![c] = Unread]
        /\ UNCHANGED <<loaded, loading, held, gateVars, asked>>
  /\ UNCHANGED <<transport, userVars, known, failures>>

(* BridgeManager keeps whatever it has built. *)
FinishServerLoad(c) ==
  /\ transport = "server" /\ HasRead(c)
  /\ loaded' = Entry(c)
  /\ Hand(c, Entry(c))
  /\ UNCHANGED <<transport, userVars, known, context, failures>>

(* The download fails, the bundle does not evaluate or its contract does not fit. *)
LoadFails(c) ==
  /\ HasRead(c) /\ ~load[c].built
  /\ failures < MaxFailures /\ failures' = failures + 1
  /\ AskFails(c)
  /\ UNCHANGED <<transport, userVars, known, loaded, context>>

(* What a change or an edit drops. withIdMigration forgets that a run ended, the provider the entry. *)
DropEntry ==
  /\ loaded' = NoEntry
  /\ context' = IF loaded # NoEntry THEN NoEntry ELSE context
  /\ stale' = (loading # NoCaller)
  /\ ended' = 0

Invalidate ==
  /\ DropEntry
  /\ UNCHANGED known

Refresh ==
  /\ DropEntry
  /\ known' = FALSE

(* The user edits a setting. *)
Undisturbed ==
  /\ Overlap \/ transport = "device" \/ \A c \in Asker : pc[c] # "loading"

UpdateSettings(k) ==
  /\ edited + changes <= MaxAsks
  /\ edited' = edited + 1
  /\ edits' = Append(edits, [key |-> k, value |-> edited + 1, stage |-> "asked", read |-> <<>>])
  /\ UNCHANGED <<transport, record, change, changes, settings, known, stale, loaded, context, loading, load, pc, held,
                 gateVars, asked, answered, failures>>

editVars == <<transport, record, change, changes, edited, loading, load, pc, held, running, migrated, tried, asked>>

(* A device's edits take turns; each reads, merges and sets. The server's patch *)
(* changes the document in memory, in the order they came, and is written then. *)
EditReads ==
  /\ transport = "device" /\ edits # <<>> /\ edits[1].stage = "asked"
  /\ edits' = [edits EXCEPT ![1].stage = "read", ![1].read = settings]
  /\ UNCHANGED <<editVars, failures, settings, known, stale, loaded, context, ended, answered>>

EditSets ==
  /\ edits # <<>> /\ edits[1].stage = "read"
  /\ settings' = [edits[1].read EXCEPT ![edits[1].key] = edits[1].value]
  /\ edits' = [edits EXCEPT ![1].stage = "set"]
  /\ UNCHANGED <<editVars, failures, known, stale, loaded, context, ended, answered>>

Patch(i) ==
  /\ transport = "server" /\ Undisturbed
  /\ edits[i].stage = "asked" /\ \A j \in 1..i - 1 : edits[j].stage = "set"
  /\ settings' = [settings EXCEPT ![edits[i].key] = edits[i].value]
  /\ edits' = [edits EXCEPT ![i].stage = "set"]
  /\ UNCHANGED <<editVars, failures, known, stale, loaded, context, ended, answered>>

(* What was loaded with the settings before goes, and the edit is answered. *)
EditEnds ==
  /\ edits # <<>> /\ edits[1].stage = "set"
  /\ transport = "server" => Undisturbed
  /\ Invalidate
  /\ answered' = [answered EXCEPT !.settings[edits[1].key] = edits[1].value]
  /\ edits' = Tail(edits)
  /\ UNCHANGED <<editVars, failures, settings>>

(* The write fails: a device's settings stay, a server's have already changed in memory. *)
EditFails ==
  /\ edits # <<>> /\ edits[1].stage = (IF transport = "device" THEN "read" ELSE "set")
  /\ failures < MaxFailures /\ failures' = failures + 1
  /\ edits' = Tail(edits)
  /\ UNCHANGED <<editVars, settings, known, stale, loaded, context, ended, answered>>

(* An install or update (a new revision) or a removal: the record is written, *)
(* a device's registry announces it, and the route drops what was loaded.     *)
ChangeInstalled ==
  /\ change = "none" /\ edited + changes <= MaxAsks
  /\ Undisturbed
  /\ changes' = changes + 1
  /\ record' \in {0, changes + 1}
  /\ record' # record
  /\ change' = "written"
  /\ UNCHANGED <<transport, settings, edits, edited, known, stale, loaded, context, loading, load, pc, held, gateVars,
                 asked, answered, failures>>

Announce ==
  /\ transport = "device" /\ change = "written"
  /\ change' = "announced"
  /\ Refresh
  /\ UNCHANGED <<transport, record, changes, settings, edits, edited, loading, load, pc, held, running, migrated, tried, asked,
                 answered, failures>>

ChangeEnds ==
  /\ change = (IF transport = "device" THEN "announced" ELSE "written")
  /\ Undisturbed
  /\ change' = "none"
  /\ answered' = [answered EXCEPT !.change = changes]
  /\ Invalidate
  /\ UNCHANGED <<transport, record, changes, settings, edits, edited, loading, load, pc, held, running, migrated, tried, asked,
                 failures>>

(* The run ends, its mark set unless it was cut short; whoever waited goes on either way. *)
MigrationEnds ==
  /\ running # 0
  /\ \/ migrated' = running /\ UNCHANGED failures
     \/ /\ migrated # running
        /\ failures < MaxFailures /\ failures' = failures + 1
        /\ UNCHANGED migrated
  /\ ended' = running /\ running' = 0
  /\ tried' = tried \cup {running}
  /\ pc' = [c \in Asker |-> IF pc[c] = "migrating" THEN "using" ELSE pc[c]]
  /\ UNCHANGED <<transport, userVars, known, stale, loaded, context, loading, load, held, asked>>

(* The caller is done with the bridge. *)
Finished(c) ==
  /\ pc[c] = "using"
  /\ pc' = [pc EXCEPT ![c] = "idle"]
  /\ held' = [held EXCEPT ![c] = NoEntry]
  /\ asked' = [asked EXCEPT ![c] = NotAsked]
  /\ UNCHANGED <<transport, userVars, known, stale, loaded, context, loading, load, gateVars, failures>>

LoadStep(c) == InstalledFor(c) \/ ResolveBundle(c) \/ ReadSettings(c) \/ InitBridge(c) \/ FinishLoad(c) \/ FinishServerLoad(c)

BridgeNext ==
  \/ \E c \in Asker : AskFor(c) \/ LoadStep(c) \/ LoadFails(c) \/ Finished(c)
  \/ \E k \in Key : UpdateSettings(k)
  \/ EditReads \/ EditSets \/ (\E i \in 1..Len(edits) : Patch(i)) \/ EditEnds \/ EditFails
  \/ ChangeInstalled \/ Announce \/ ChangeEnds
  \/ MigrationEnds

BridgeSpec == BridgeInit /\ [][BridgeNext]_bridgeVars

(***************************************************************************)
(* Properties                                                              *)
(***************************************************************************)

(* What a caller is handed is no older than any change or edit that had been *)
(* answered before the caller asked, though loads overlap both and are       *)
(* shared: BridgeManager.get and EmbeddedBridgeProvider.doLoad.              *)
HandsOutCurrent ==
  \A c \in Asker : pc[c] \in {"migrating", "using"} =>
    /\ held[c].rev >= asked[c].change
    /\ \A k \in Key : held[c].settings[k] >= asked[c].settings[k]

(* An entry a device serves from is the one its engine holds: no interleaving  *)
(* of loads, drops and refreshes leaves a proxy over a context that is gone or *)
(* is another's, which would fail every call until the next change.            *)
ServesWhatRuns == transport = "device" /\ loaded # NoEntry => context = loaded

(* An edit that was answered is still there, whatever edits overlapped it: *)
(* KeyedQueue's turns on a device, the document's transform on a server.   *)
EditsKept == \A k \in Key : settings[k] >= answered.settings[k]

(* No caller uses a bridge before the migration of that very revision was run *)
(* to its end, be it to a failure: withIdMigration's get.                     *)
MigratedBeforeUse ==
  \A c \in Asker : pc[c] = "using" => held[c].rev \in tried

(* All of these: what is used is what is installed and set, and ready. *)
ServedAsInstalled == HandsOutCurrent /\ ServesWhatRuns /\ EditsKept /\ MigratedBeforeUse

(***************************************************************************)
(* Whoever asks is answered: the loads, which begin again when they are    *)
(* told that they are stale, come to an end, and so do the migrations.     *)
(* Every step of the host is taken in the end; the user owes none.         *)
(***************************************************************************)
BridgeFairness ==
  /\ \A c \in Asker : WF_bridgeVars(LoadStep(c))
  /\ WF_bridgeVars(MigrationEnds)

FairBridgeSpec == BridgeSpec /\ BridgeFairness

EveryAskAnswered == \A c \in Asker : pc[c] \notin {"idle", "using"} ~> pc[c] \in {"idle", "using"}
=============================================================================
