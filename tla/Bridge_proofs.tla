------------------------- MODULE Bridge_proofs -------------------------
(***************************************************************************)
(* Proofs about the bridges: the registries they are installed from, and   *)
(* the host that loads what is installed.                                  *)
(*                                                                         *)
(* The host, for any callers, keys and number of edits, changes and        *)
(* failures: what a caller uses is installed, set and migrated as of when  *)
(* it asked or later (ServedAsInstalled).  The invariant is about what is  *)
(* still on its way there: edits that are set and not answered, loads that *)
(* have read some of what they need, and callers that wait for a           *)
(* migration.                                                              *)
(*                                                                         *)
(* The registries, for any indexes, items and calls that run one at a      *)
(* time: a registry's move strands no install, and what was installed can  *)
(* be named (BookKept), wherever a call is cut.  What a step does depends  *)
(* on what the call read some writes before.  So the invariant is about    *)
(* the call under way: the row a rebind moves to is saved before the old   *)
(* one's installs are, the installs it has not moved yet are the ones it   *)
(* goes by, and what a removal is about to forget is noted elsewhere       *)
(* (WritesOK).  A registry never moves to itself (PendingOK, AimOK): it    *)
(* would forget its own row at the end.                                    *)
(***************************************************************************)
EXTENDS BridgeHosting, BridgeRegistry, SequenceTheorems, TLAPS

-----------------------------------------------------------------------------
(* The bridge a host serves: the invariant. *)

Answer == [change : Nat, settings : [Key -> Nat]]
Bridge == [rev : Nat \ {0}, settings : [Key -> Nat]]
LoadRead == [rev : Nat, settings : {<<>>} \cup [Key -> Nat], built : BOOLEAN]
Edit == [key : Key, value : Nat, stage : {"asked", "read", "set"}, read : {<<>>} \cup [Key -> Nat]]
Place == {"idle", "listing", "waiting", "loading", "migrating", "using"}

\* An entry is no older than an answer, and an answer no later than the last one.
Covers(entry, answer) ==
  entry.rev >= answer.change /\ \A k \in Key : entry.settings[k] >= answer.settings[k]
Within(answer) ==
  answer.change <= answered.change /\ \A k \in Key : answer.settings[k] <= answered.settings[k]

HostTypes ==
  /\ transport \in {"device", "server"} /\ change \in {"none", "written", "announced"}
  /\ changes \in Nat \ {0} /\ record \in {0, changes}
  /\ settings \in [Key -> Nat] /\ edited \in Nat /\ edits \in Seq(Edit)
  /\ stale \in BOOLEAN
  /\ loaded \in Bridge \cup {NoEntry} /\ loading \in Asker \cup {NoCaller}
  /\ load \in [Asker -> LoadRead] /\ pc \in [Asker -> Place]
  /\ held \in [Asker -> Bridge \cup {NoEntry}]
  /\ ended \in Nat /\ running \in Nat
  /\ answered \in Answer /\ answered.change <= changes
  /\ asked \in [Asker -> Answer]

\* The edits have later and later values; those that are set are a prefix, of which the settings have the last.
EditsOK ==
  /\ \A i \in DOMAIN edits :
       /\ edits[i].value <= edited
       /\ \A j \in DOMAIN edits : i < j => edits[i].value < edits[j].value
       /\ \A k \in Key : answered.settings[k] < edits[i].value
       /\ edits[i].stage = "set" => settings[edits[i].key] >= edits[i].value
       /\ edits[i].stage # "set" => \A k \in Key : settings[k] < edits[i].value
       /\ edits[i].stage = "read" => edits[i].read = settings /\ transport = "device"
       /\ transport = "device" /\ edits[i].stage # "asked" => i = 1
  /\ \A k \in Key : settings[k] <= edited /\ answered.settings[k] <= settings[k]

\* What is loaded, and what a load that nobody told to be stale has read, is as new as the last answers.
LoadsOK ==
  /\ loaded # NoEntry => Covers(loaded, answered)
  /\ \A c \in Asker :
       /\ pc[c] # "loading" => load[c] = Unread
       /\ load[c].built => load[c].rev # 0 /\ load[c].settings # <<>>
       /\ ~stale /\ load[c].rev # 0 => load[c].rev >= answered.change
       /\ ~stale /\ load[c].settings # <<>> => \A k \in Key : load[c].settings[k] >= answered.settings[k]

\* A device has one load at a time, and its engine holds what that load built, or what is loaded.
ServingOK ==
  /\ transport = "server" => loading = NoCaller /\ ~stale /\ \A c \in Asker : pc[c] \notin {"listing", "waiting"}
  /\ transport = "device" =>
       /\ loaded # NoEntry => context = loaded /\ loading = NoCaller
       /\ \A c \in Asker : /\ pc[c] \in {"listing", "loading"} => loading = c
                           /\ ~stale /\ load[c].built => context = Entry(c)

\* Who was handed an entry has one that is new enough for it; it waits for its migration, or that has ended.
CallersOK ==
  \A c \in Asker :
    /\ Within(asked[c])
    /\ pc[c] \in {"migrating", "using"} => held[c] # NoEntry /\ Covers(held[c], asked[c])
    /\ pc[c] = "migrating" => held[c].rev = running
    /\ pc[c] = "using" => held[c].rev \in tried

MigrationsOK == ended # 0 => ended \in tried

HostInv == HostTypes /\ EditsOK /\ LoadsOK /\ ServingOK /\ CallersOK /\ MigrationsOK

-----------------------------------------------------------------------------
(* Values that stand for nothing *)

LEMMA NothingRead ==
  /\ Unread \in LoadRead /\ Unread.rev = 0 /\ Unread.settings = <<>> /\ ~Unread.built
  /\ NotAsked \in Answer /\ NotAsked.change = 0 /\ \A k \in Key : NotAsked.settings[k] = 0
  /\ NoEntry \notin Bridge /\ NoEntry.rev = 0
BY DEF Unread, LoadRead, NotAsked, Answer, NoEntry, Bridge

\* What is no older than the last answer is no older than an earlier one.
LEMMA CoversMore ==
  ASSUME NEW e \in Bridge, Covers(e, answered), answered \in Answer, NEW a \in Answer, Within(a)
  PROVE  Covers(e, a)
<1>1. e.rev >= a.change
  BY DEF Covers, Within, Answer, Bridge
<1>2. ASSUME NEW k \in Key PROVE e.settings[k] >= a.settings[k]
  BY DEF Covers, Within, Answer, Bridge
<1> QED
  BY <1>1, <1>2 DEF Covers

LEMMA HostingStartsRight == BridgeInit => HostInv
<1> SUFFICES ASSUME BridgeInit PROVE HostInv
  OBVIOUS
<1> USE NothingRead
<1>1. answered = [change |-> 1, settings |-> [k \in Key |-> 0]]
  BY DEF BridgeInit
<1>2. answered \in Answer /\ answered.change = 1 /\ \A k \in Key : answered.settings[k] = 0
  BY <1>1 DEF Answer
<1>3. HostTypes
  <2>1. loaded \in Bridge \cup {NoEntry} /\ held \in [Asker -> Bridge \cup {NoEntry}]
    BY DEF BridgeInit
  <2>2. load \in [Asker -> LoadRead] /\ pc \in [Asker -> Place] /\ asked \in [Asker -> Answer]
    BY DEF BridgeInit, Place
  <2>3. settings \in [Key -> Nat] /\ edits \in Seq(Edit) /\ transport \in {"device", "server"}
    BY HostingAssumption DEF BridgeInit
  <2>4. /\ changes = 1 /\ record = 1 /\ edited = 0 /\ ended = 0 /\ running = 0
        /\ change = "none" /\ loading = NoCaller
    BY DEF BridgeInit
  <2>5. stale \in BOOLEAN
    BY DEF BridgeInit
  <2> QED
    BY <1>2, <2>1, <2>2, <2>3, <2>4, <2>5 DEF HostTypes
<1>4. EditsOK
  BY <1>2 DEF BridgeInit, EditsOK
<1>5. LoadsOK
  BY DEF BridgeInit, LoadsOK
<1>6. ServingOK
  BY DEF BridgeInit, ServingOK
<1>7. CallersOK
  BY <1>2 DEF BridgeInit, CallersOK, Within
<1> QED
  BY <1>3, <1>4, <1>5, <1>6, <1>7 DEF HostInv, MigrationsOK, BridgeInit

-----------------------------------------------------------------------------
(* Handing out *)

\* Whoever is handed an entry waits for its migration, which is under way then, or is served.
LEMMA Handed ==
  ASSUME HostInv, ~MidRun, NEW cs \in SUBSET Asker, NEW e \in Bridge, Ensure(cs, e), UNCHANGED answered,
         asked' \in [Asker -> Answer], \A d \in Asker : Within(asked[d])',
         \A d \in Asker : d \notin cs => asked'[d] = asked[d],
         \A d \in cs : Covers(e, asked'[d])
  PROVE  /\ held' \in [Asker -> Bridge \cup {NoEntry}] /\ pc' \in [Asker -> Place]
         /\ running' \in Nat /\ ended' \in Nat /\ CallersOK' /\ MigrationsOK'
         /\ \A d \in Asker : d \notin cs => pc'[d] = pc[d]
         /\ \A d \in cs : pc'[d] \in {"migrating", "using"}
<1>1. /\ held' = [d \in Asker |-> IF d \in cs THEN e ELSE held[d]]
      /\ pc' = [d \in Asker |-> IF d \notin cs THEN pc[d] ELSE IF ended = e.rev THEN "using" ELSE "migrating"]
      /\ running' = IF ended # e.rev /\ running = 0 THEN e.rev ELSE running
      /\ ended' = ended /\ tried' = tried /\ running \in {0, e.rev}
  BY DEF Ensure
<1>2. HostTypes /\ CallersOK /\ MigrationsOK /\ e.rev \in Nat \ {0}
  BY DEF HostInv, Bridge
<1>3. held' \in [Asker -> Bridge \cup {NoEntry}] /\ pc' \in [Asker -> Place] /\ running' \in Nat /\ ended' \in Nat
  BY <1>1, <1>2 DEF HostTypes, Place
<1>4. \A d \in cs : pc'[d] = "migrating" => running' = e.rev
  BY <1>1
<1>5. \A d \in cs : pc'[d] = "using" => e.rev \in tried
  BY <1>1, <1>2 DEF MigrationsOK
<1>6. ASSUME NEW d \in Asker, pc[d] = "migrating" PROVE running' = running /\ running # 0
  <2>1. held[d] \in Bridge /\ held[d].rev = running
    BY <1>2, <1>6 DEF CallersOK, HostTypes
  <2>2. running # 0
    BY <2>1 DEF Bridge
  <2> QED
    BY <1>1, <2>2
<1>7. CallersOK'
  <2> SUFFICES ASSUME NEW d \in Asker
               PROVE  /\ Within(asked[d])'
                      /\ pc'[d] \in {"migrating", "using"} => held'[d] # NoEntry /\ Covers(held'[d], asked'[d])
                      /\ pc'[d] = "migrating" => held'[d].rev = running'
                      /\ pc'[d] = "using" => held'[d].rev \in tried'
    BY DEF CallersOK
  <2>1. Within(asked[d])'
    OBVIOUS
  <2>2. CASE d \in cs
    <3>1. held'[d] = e /\ e # NoEntry
      BY <1>1, <2>2, NothingRead
    <3> QED
      BY <1>1, <1>4, <1>5, <2>1, <2>2, <3>1
  <2>3. CASE d \notin cs
    <3>1. held'[d] = held[d] /\ pc'[d] = pc[d] /\ asked'[d] = asked[d]
      BY <1>1, <2>3
    <3> QED
      BY <1>1, <1>2, <1>6, <2>1, <3>1 DEF CallersOK
  <2> QED
    BY <2>2, <2>3
<1> QED
  BY <1>1, <1>2, <1>3, <1>7 DEF MigrationsOK

-----------------------------------------------------------------------------
(* Asking and loading *)

\* A device has one load.
LEMMA OneLoad ==
  ASSUME HostInv, transport = "device"
  PROVE  /\ loading = NoCaller => \A d \in Asker : pc[d] \notin {"listing", "loading"} /\ load[d] = Unread
         /\ \A c \in Asker : pc[c] \in {"listing", "loading"} =>
              /\ loading = c /\ loading # NoCaller /\ loaded = NoEntry
              /\ \A d \in Asker : d # c => pc[d] \notin {"listing", "loading"} /\ load[d] = Unread
BY HostingAssumption DEF HostInv, ServingOK, LoadsOK

LEMMA NothingAskedIsWithin == answered \in Answer => Within(NotAsked) /\ Within(answered)
<1> SUFFICES ASSUME answered \in Answer PROVE Within(NotAsked) /\ Within(answered)
  OBVIOUS
<1>1. answered.change \in Nat /\ \A k \in Key : answered.settings[k] \in Nat
  BY DEF Answer
<1> QED
  BY <1>1, NothingRead DEF Within

LEMMA AskKeeps ==
  ASSUME HostInv, ~MidRun, NEW c \in Asker, AskFor(c)
  PROVE  HostInv'
<1>1. /\ HostTypes /\ EditsOK /\ LoadsOK /\ ServingOK /\ CallersOK /\ MigrationsOK
      /\ pc[c] = "idle" /\ load[c] = Unread
  BY DEF HostInv, AskFor, LoadsOK
<1>2. /\ asked' = [asked EXCEPT ![c] = answered]
      /\ UNCHANGED <<transport, record, change, changes, settings, edits, edited, answered, known, loaded, context>>
  BY DEF AskFor, userVars
<1>3. /\ asked' \in [Asker -> Answer] /\ asked'[c] = answered
      /\ \A d \in Asker : Within(asked[d])' /\ (d # c => asked'[d] = asked[d])
  <2>1. Within(answered)
    BY <1>1, NothingAskedIsWithin DEF HostTypes
  <2> QED
    BY <1>1, <1>2, <2>1 DEF HostTypes, CallersOK, Within
<1>4. EditsOK'
  BY <1>1, <1>2 DEF EditsOK
<1>5. CASE GetLoaded(c)
  <2>1. Ensure({c}, loaded) /\ loaded \in Bridge /\ UNCHANGED <<loading, load, stale>> /\ Covers(loaded, answered)
    BY <1>1, <1>5 DEF GetLoaded, LoadsOK, HostTypes
  <2>2. \A d \in {c} : Covers(loaded, asked'[d])
    BY <1>3, <2>1
  <2>3. /\ held' \in [Asker -> Bridge \cup {NoEntry}] /\ pc' \in [Asker -> Place]
        /\ running' \in Nat /\ ended' \in Nat /\ CallersOK' /\ MigrationsOK'
        /\ \A d \in Asker : d # c => pc'[d] = pc[d]
        /\ pc'[c] \in {"migrating", "using"}
    BY <1>2, <1>3, <2>1, <2>2, Handed
  <2>4. HostTypes'
    BY <1>1, <1>2, <1>3, <2>1, <2>3 DEF HostTypes
  <2>5. LoadsOK'
    BY <1>1, <1>2, <2>1, <2>3 DEF LoadsOK
  <2>6. ServingOK'
    BY <1>1, <1>2, <2>1, <2>3 DEF ServingOK, Entry
  <2> QED
    BY <1>4, <2>3, <2>4, <2>5, <2>6 DEF HostInv
<1>6. CASE AskDevice(c)
  <2>1. /\ transport = "device" /\ loaded = NoEntry
        /\ pc' = [pc EXCEPT ![c] = IF loading = NoCaller THEN "listing" ELSE "waiting"]
        /\ loading' = IF loading = NoCaller THEN c ELSE loading
        /\ stale' = IF loading = NoCaller THEN FALSE ELSE stale
        /\ UNCHANGED <<held, load, ended, running, tried>>
    BY <1>6 DEF AskDevice, gateVars
  <2>2. /\ \A d \in Asker : d # c => pc'[d] = pc[d]
        /\ pc'[c] = (IF loading = NoCaller THEN "listing" ELSE "waiting")
        /\ pc' \in [Asker -> Place]
    BY <1>1, <2>1 DEF HostTypes, Place
  <2>3. HostTypes'
    BY <1>1, <1>2, <1>3, <2>1, <2>2 DEF HostTypes
  <2>4. LoadsOK'
    <3>1. loading = NoCaller => \A d \in Asker : load[d] = Unread
      BY <2>1, OneLoad
    <3> QED
      BY <1>1, <1>2, <2>1, <2>2, <3>1, NothingRead DEF LoadsOK
  <2>5. ServingOK'
    <3>1. loading = NoCaller => \A d \in Asker : pc[d] \notin {"listing", "loading"} /\ ~load[d].built
      BY <2>1, OneLoad, NothingRead
    <3> QED
      BY <1>1, <1>2, <2>1, <2>2, <3>1 DEF ServingOK, Entry
  <2>6. CallersOK'
    BY <1>1, <1>3, <2>1, <2>2 DEF CallersOK
  <2> QED
    BY <1>1, <1>4, <2>1, <2>3, <2>4, <2>5, <2>6 DEF HostInv, MigrationsOK
<1>7. CASE AskServer(c)
  <2>1. /\ transport = "server" /\ loaded = NoEntry /\ pc' = [pc EXCEPT ![c] = "loading"]
        /\ UNCHANGED <<held, loading, load, stale, ended, running, tried>>
    BY <1>7 DEF AskServer, gateVars
  <2>2. /\ \A d \in Asker : d # c => pc'[d] = pc[d]
        /\ pc'[c] = "loading" /\ pc' \in [Asker -> Place]
    BY <1>1, <2>1 DEF HostTypes, Place
  <2>3. HostTypes'
    BY <1>1, <1>2, <1>3, <2>1, <2>2 DEF HostTypes
  <2>4. LoadsOK'
    BY <1>1, <1>2, <2>1, <2>2 DEF LoadsOK
  <2>5. ServingOK'
    BY <1>1, <1>2, <2>1, <2>2 DEF ServingOK
  <2>6. CallersOK'
    BY <1>1, <1>3, <2>1, <2>2 DEF CallersOK
  <2> QED
    BY <1>1, <1>4, <2>1, <2>3, <2>4, <2>5, <2>6 DEF HostInv, MigrationsOK
<1> QED
  BY <1>5, <1>6, <1>7 DEF AskFor

\* A load that fails: whoever shared it is told, and forgets what it asked with.
LEMMA FailureKeeps ==
  ASSUME HostInv, NEW c \in Asker, pc[c] \in {"listing", "loading"}, AskFails(c),
         UNCHANGED <<transport, userVars, loaded, context>>
  PROVE  HostInv'
<1>1. HostTypes /\ EditsOK /\ LoadsOK /\ ServingOK /\ CallersOK /\ MigrationsOK
  BY DEF HostInv
<1>2. /\ loading' = (IF loading = c THEN NoCaller ELSE loading) /\ load' = [load EXCEPT ![c] = Unread] /\ stale' = FALSE
      /\ pc' = [d \in Asker |-> IF d \in Sharing(c) THEN "idle" ELSE pc[d]]
      /\ asked' = [d \in Asker |-> IF d \in Sharing(c) THEN NotAsked ELSE asked[d]]
      /\ UNCHANGED <<transport, record, change, changes, settings, edits, edited, answered, loaded, context, held,
                     ended, running, tried>>
  BY DEF AskFails, LoadOver, userVars, gateVars
<1>3. c \in Sharing(c) /\ \A d \in Sharing(c) : d = c \/ pc[d] = "waiting"
  BY DEF Sharing
<1>4. /\ pc' \in [Asker -> Place] /\ asked' \in [Asker -> Answer] /\ load' \in [Asker -> LoadRead]
      /\ load'[c] = Unread /\ \A d \in Asker : d # c => load'[d] = load[d]
      /\ \A d \in Asker : pc'[d] \in {"idle", pc[d]}
      /\ \A d \in Asker : pc'[d] # "idle" => asked'[d] = asked[d]
      /\ pc'[c] = "idle"
  BY <1>1, <1>2, <1>3, NothingRead DEF HostTypes, Place
<1>5. HostTypes'
  BY <1>1, <1>2, <1>4 DEF HostTypes
<1>6. EditsOK'
  BY <1>1, <1>2 DEF EditsOK
<1>7. ASSUME transport = "device" PROVE LoadsOK' /\ ServingOK'
  <2>1. \A d \in Asker : load'[d] = Unread /\ pc'[d] \notin {"listing", "loading"}
    BY <1>4, <1>7, OneLoad
  <2>2. LoadsOK'
    BY <1>1, <1>2, <2>1, NothingRead DEF LoadsOK
  <2>3. ServingOK'
    BY <1>1, <1>2, <1>7, <2>1, NothingRead, OneLoad DEF ServingOK
  <2> QED
    BY <2>2, <2>3
<1>8. ASSUME transport = "server" PROVE LoadsOK' /\ ServingOK'
  <2>1. ~stale /\ \A d \in Asker : pc[d] \notin {"listing", "waiting"} /\ (d # c => pc'[d] = pc[d])
    BY <1>1, <1>2, <1>3, <1>8 DEF ServingOK
  <2>2. LoadsOK'
    BY <1>1, <1>2, <1>4, <2>1, NothingRead DEF LoadsOK
  <2>3. ServingOK'
    BY <1>1, <1>2, <1>4, <1>8 DEF ServingOK
  <2> QED
    BY <2>2, <2>3
<1>9. CallersOK'
  <2>1. \A d \in Asker : Within(asked[d])'
    <3>1. Within(NotAsked)
      BY <1>1, NothingAskedIsWithin DEF HostTypes
    <3>2. \A d \in Asker : Within(asked[d]) /\ asked'[d] \in {NotAsked, asked[d]}
      BY <1>1, <1>2 DEF CallersOK
    <3> QED
      BY <1>2, <3>1, <3>2 DEF Within
  <2> QED
    BY <1>1, <1>2, <1>4, <2>1 DEF CallersOK
<1> QED
  BY <1>1, <1>2, <1>5, <1>6, <1>7, <1>8, <1>9 DEF HostInv, MigrationsOK, HostTypes

LEMMA ListKeeps ==
  ASSUME HostInv, NEW c \in Asker, InstalledFor(c)
  PROVE  HostInv'
<1>1. /\ HostTypes /\ EditsOK /\ LoadsOK /\ ServingOK /\ CallersOK /\ MigrationsOK /\ pc[c] = "listing"
      /\ UNCHANGED <<transport, userVars, loaded, context>>
  BY DEF HostInv, InstalledFor
<1>2. CASE AskFails(c)
  BY <1>1, <1>2, FailureKeeps
<1>3. CASE /\ pc' = [pc EXCEPT ![c] = "loading"]
           /\ UNCHANGED <<held, loading, load, stale, gateVars, asked>>
  <2>1. /\ \A d \in Asker : d # c => pc'[d] = pc[d]
        /\ pc'[c] = "loading" /\ pc' \in [Asker -> Place] /\ load[c] = Unread
    BY <1>1, <1>3 DEF HostTypes, Place, LoadsOK
  <2>2. HostTypes'
    BY <1>1, <1>3, <2>1 DEF HostTypes, userVars, gateVars
  <2>3. EditsOK'
    BY <1>1, <1>3 DEF EditsOK, userVars
  <2>4. LoadsOK'
    BY <1>1, <1>3, <2>1, NothingRead DEF LoadsOK, userVars
  <2>5. ServingOK'
    BY <1>1, <1>3, <2>1 DEF ServingOK, Entry
  <2>6. CallersOK'
    BY <1>1, <1>3, <2>1 DEF CallersOK, Within, userVars, gateVars
  <2> QED
    BY <1>1, <1>3, <2>2, <2>3, <2>4, <2>5, <2>6 DEF HostInv, MigrationsOK, gateVars
<1> QED
  BY <1>2, <1>3 DEF InstalledFor

\* A load reads the code, the settings, or the engine builds: what it reads is what is there now.
LEMMA ReadingKeeps ==
  ASSUME HostInv, NEW c \in Asker, pc[c] = "loading",
         NEW r \in LoadRead, load' = [load EXCEPT ![c] = r],
         r.rev \in {load[c].rev, record}, r.settings \in {load[c].settings, settings},
         r.built => r.rev # 0 /\ r.settings # <<>>,
         r.built /\ transport = "device" => context' = [rev |-> r.rev, settings |-> r.settings],
         context' = context \/ r.built,
         UNCHANGED <<transport, userVars, stale, loaded, loading, pc, held, gateVars, asked>>
  PROVE  HostInv'
<1>1. HostTypes /\ EditsOK /\ LoadsOK /\ ServingOK /\ CallersOK /\ MigrationsOK
  BY DEF HostInv
<1>2. load' \in [Asker -> LoadRead] /\ load'[c] = r /\ \A d \in Asker : d # c => load'[d] = load[d]
  BY <1>1 DEF HostTypes
<1>3. HostTypes'
  BY <1>1, <1>2 DEF HostTypes, userVars, gateVars
<1>4. EditsOK'
  BY <1>1 DEF EditsOK, userVars
<1>5. LoadsOK'
  <2>1. ~stale /\ r.rev # 0 => r.rev >= answered.change
    BY <1>1 DEF LoadsOK, HostTypes, Answer
  <2>2. ~stale /\ r.settings # <<>> => \A k \in Key : r.settings[k] >= answered.settings[k]
    <3>1. \A k \in Key : settings[k] >= answered.settings[k]
      BY <1>1 DEF EditsOK, HostTypes, Answer
    <3> QED
      BY <1>1, <3>1 DEF LoadsOK
  <2> QED
    BY <1>1, <1>2, <2>1, <2>2 DEF LoadsOK, userVars
<1>6. ServingOK'
  <2>1. CASE transport = "server"
    BY <1>1, <2>1 DEF ServingOK
  <2>2. CASE transport = "device"
    <3>1. loading = c /\ loaded = NoEntry /\ \A d \in Asker : d # c => load[d] = Unread
      BY <2>2, OneLoad
    <3>2. \A d \in Asker : load'[d].built => d = c
      BY <1>2, <3>1, NothingRead
    <3> QED
      BY <1>1, <1>2, <2>2, <3>1, <3>2 DEF ServingOK, Entry
  <2> QED
    BY <1>1, <2>1, <2>2 DEF HostTypes
<1>7. CallersOK'
  BY <1>1 DEF CallersOK, Within, userVars, gateVars
<1> QED
  BY <1>1, <1>3, <1>4, <1>5, <1>6, <1>7 DEF HostInv, MigrationsOK, gateVars

LEMMA ReadBuilt ==
  ASSUME NEW x \in LoadRead, NEW b
  PROVE  [x EXCEPT !.built = b] = [rev |-> x.rev, settings |-> x.settings, built |-> b]
BY DEF LoadRead

LEMMA LoadKeeps ==
  ASSUME HostInv, NEW c \in Asker, ResolveBundle(c) \/ ReadSettings(c) \/ InitBridge(c) \/ LoadFails(c)
  PROVE  HostInv'
<1>1. HostTypes /\ LoadsOK /\ ServingOK /\ pc[c] = "loading" /\ load[c] \in LoadRead
  BY DEF HostInv, HostTypes, ResolveBundle, ReadSettings, InitBridge, LoadFails, HasRead
<1>2. /\ load[c].rev \in Nat /\ load[c].settings \in {<<>>} \cup [Key -> Nat] /\ load[c].built \in BOOLEAN
      /\ record \in Nat /\ settings \in [Key -> Nat]
  BY <1>1 DEF HostTypes, LoadRead
<1>3. CASE AskFails(c) /\ UNCHANGED <<transport, userVars, loaded, context>>
  BY <1>1, <1>3, FailureKeeps
<1>4. ASSUME ResolveBundle(c), ~AskFails(c) PROVE HostInv'
  <2>1. /\ load' = [load EXCEPT ![c].rev = record] /\ load[c].rev = 0 /\ record # 0
        /\ UNCHANGED <<transport, userVars, stale, loaded, loading, pc, held, gateVars, asked, context>>
    BY <1>4 DEF ResolveBundle
  <2> DEFINE r == [rev |-> record, settings |-> load[c].settings, built |-> load[c].built]
  <2>2. r \in LoadRead
    BY <1>2 DEF LoadRead
  <2>3. load' = [load EXCEPT ![c] = r]
    <3>1. [load[c] EXCEPT !.rev = record] = r
      BY <1>1 DEF LoadRead
    <3> HIDE DEF r
    <3> QED
      BY <2>1, <3>1
  <2>4. ~r.built
    BY <1>1, <2>1 DEF LoadsOK
  <2>5. r.rev = record /\ r.settings = load[c].settings
    OBVIOUS
  <2> HIDE DEF r
  <2> QED
    BY <1>1, <2>1, <2>2, <2>3, <2>4, <2>5, ReadingKeeps
<1>5. ASSUME ReadSettings(c) PROVE HostInv'
  <2>1. /\ load' = [load EXCEPT ![c].settings = settings] /\ load[c].settings = <<>>
        /\ UNCHANGED <<transport, userVars, stale, loaded, loading, pc, held, gateVars, asked, context>>
    BY <1>5 DEF ReadSettings
  <2> DEFINE r == [rev |-> load[c].rev, settings |-> settings, built |-> load[c].built]
  <2>2. r \in LoadRead
    BY <1>2 DEF LoadRead
  <2>3. load' = [load EXCEPT ![c] = r]
    <3>1. [load[c] EXCEPT !.settings = settings] = r
      BY <1>1 DEF LoadRead
    <3> HIDE DEF r
    <3> QED
      BY <2>1, <3>1
  <2>4. ~r.built
    BY <1>1, <2>1 DEF LoadsOK
  <2>5. r.rev = load[c].rev /\ r.settings = settings
    OBVIOUS
  <2> HIDE DEF r
  <2> QED
    BY <1>1, <2>1, <2>2, <2>3, <2>4, <2>5, ReadingKeeps
<1>6. ASSUME InitBridge(c) PROVE HostInv'
  <2>1. /\ load' = [load EXCEPT ![c].built = TRUE] /\ load[c].rev # 0 /\ load[c].settings # <<>>
        /\ context' = [rev |-> load[c].rev, settings |-> load[c].settings]
        /\ UNCHANGED <<transport, userVars, stale, loaded, loading, pc, held, gateVars, asked>>
    BY <1>6 DEF InitBridge, HasRead, Entry
  <2> DEFINE r == [rev |-> load[c].rev, settings |-> load[c].settings, built |-> TRUE]
  <2>2. r \in LoadRead
    BY <1>2 DEF LoadRead
  <2>3. load' = [load EXCEPT ![c] = r]
    <3>1. [load[c] EXCEPT !.built = TRUE] = r
      BY <1>1, ReadBuilt
    <3> HIDE DEF r
    <3> QED
      BY <2>1, <3>1
  <2>4. r.rev = load[c].rev /\ r.settings = load[c].settings /\ r.built
    OBVIOUS
  <2> HIDE DEF r
  <2> QED
    BY <1>1, <2>1, <2>2, <2>3, <2>4, ReadingKeeps
<1>7. CASE LoadFails(c)
  BY <1>1, <1>7, FailureKeeps DEF LoadFails
<1> QED
  BY <1>3, <1>4, <1>5, <1>6, <1>7 DEF ResolveBundle

\* A load that ends: whoever shared it is handed what it read.
LEMMA HandKeeps ==
  ASSUME HostInv, ~MidRun, NEW c \in Asker, HasRead(c), ~stale, loaded' = Entry(c), Hand(c, Entry(c)),
         transport = "device" => load[c].built,
         UNCHANGED <<transport, userVars, context>>
  PROVE  HostInv'
<1> DEFINE e == Entry(c)
<1>1. /\ HostTypes /\ EditsOK /\ LoadsOK /\ ServingOK /\ CallersOK /\ MigrationsOK
      /\ pc[c] = "loading" /\ load[c] \in LoadRead /\ load[c].rev # 0 /\ load[c].settings # <<>>
  BY DEF HostInv, HostTypes, HasRead
<1>2. /\ loading' = (IF loading = c THEN NoCaller ELSE loading) /\ load' = [load EXCEPT ![c] = Unread] /\ stale' = FALSE
      /\ Ensure(Sharing(c), e)
      /\ UNCHANGED <<transport, record, change, changes, settings, edits, edited, answered, asked, context>>
  BY DEF Hand, LoadOver, userVars
<1>3. e \in Bridge /\ Covers(e, answered) /\ e # NoEntry
  <2>1. e.rev = load[c].rev /\ e.settings = load[c].settings /\ e \in Bridge
    BY <1>1 DEF Entry, LoadRead, Bridge
  <2> QED
    BY <1>1, <2>1, NothingRead DEF Covers, LoadsOK
<1>4. c \in Sharing(c) /\ Sharing(c) \in SUBSET Asker /\ \A d \in Sharing(c) : d = c \/ pc[d] = "waiting"
  BY DEF Sharing
<1>5. load' \in [Asker -> LoadRead] /\ load'[c] = Unread /\ \A d \in Asker : d # c => load'[d] = load[d]
  BY <1>1, <1>2, NothingRead DEF HostTypes
<1>6. /\ held' \in [Asker -> Bridge \cup {NoEntry}] /\ pc' \in [Asker -> Place]
      /\ running' \in Nat /\ ended' \in Nat /\ CallersOK' /\ MigrationsOK'
      /\ \A d \in Asker : d \notin Sharing(c) => pc'[d] = pc[d]
      /\ \A d \in Sharing(c) : pc'[d] \in {"migrating", "using"}
  <2>1. asked' \in [Asker -> Answer] /\ (\A d \in Asker : Within(asked[d])') /\ UNCHANGED answered
    BY <1>1, <1>2 DEF HostTypes, CallersOK, Within
  <2>2. \A d \in Sharing(c) : Covers(e, asked'[d])
    BY <1>1, <1>2, <1>3, <1>4, CoversMore DEF HostTypes, CallersOK
  <2>3. \A d \in Asker : d \notin Sharing(c) => asked'[d] = asked[d]
    BY <1>2
  <2> HIDE DEF e
  <2> QED
    <3>1. Sharing(c) \in SUBSET Asker /\ e \in Bridge /\ Ensure(Sharing(c), e) /\ UNCHANGED answered
      BY <1>2, <1>3, <1>4
    <3>2. PICK cs \in SUBSET Asker : cs = Sharing(c)
      BY <3>1
    <3>3. PICK f \in Bridge : f = e
      BY <3>1
    <3>4. Ensure(cs, f) /\ (\A d \in Asker : d \notin cs => asked'[d] = asked[d]) /\ \A d \in cs : Covers(f, asked'[d])
      BY <2>2, <2>3, <3>1, <3>2, <3>3
    <3>5. /\ held' \in [Asker -> Bridge \cup {NoEntry}] /\ pc' \in [Asker -> Place]
          /\ running' \in Nat /\ ended' \in Nat /\ CallersOK' /\ MigrationsOK'
          /\ \A d \in Asker : d \notin cs => pc'[d] = pc[d]
          /\ \A d \in cs : pc'[d] \in {"migrating", "using"}
      BY <2>1, <3>1, <3>4, Handed
    <3> QED
      BY <3>2, <3>5
<1>7. loaded' = e /\ (transport = "device" => context = e)
  BY <1>1 DEF ServingOK
<1> HIDE DEF e
<1>8. HostTypes'
  BY <1>1, <1>2, <1>3, <1>5, <1>6, <1>7 DEF HostTypes
<1>9. EditsOK'
  BY <1>1, <1>2 DEF EditsOK
<1>10. LoadsOK'
  BY <1>1, <1>2, <1>3, <1>4, <1>5, <1>6, <1>7, NothingRead DEF LoadsOK
<1>11. ServingOK'
  <2>1. CASE transport = "server"
    BY <1>1, <1>2, <1>6, <2>1 DEF ServingOK
  <2>2. CASE transport = "device"
    <3>1. loading = c /\ \A d \in Asker : load'[d] = Unread /\ pc'[d] \notin {"listing", "loading"}
      BY <1>1, <1>4, <1>5, <1>6, <2>2, OneLoad
    <3> QED
      BY <1>2, <1>7, <2>2, <3>1, NothingRead DEF ServingOK
  <2> QED
    BY <1>1, <2>1, <2>2 DEF HostTypes
<1> QED
  BY <1>6, <1>8, <1>9, <1>10, <1>11 DEF HostInv

\* The last look of a device's load: told in the meantime that it is stale, it builds again.
LEMMA FinishKeeps ==
  ASSUME HostInv, ~MidRun, NEW c \in Asker, FinishLoad(c) \/ FinishServerLoad(c)
  PROVE  HostInv'
<1>1. HostTypes /\ EditsOK /\ LoadsOK /\ ServingOK /\ CallersOK /\ MigrationsOK /\ pc[c] = "loading"
  BY DEF HostInv, FinishLoad, FinishServerLoad, HasRead
<1>2. CASE FinishServerLoad(c)
  <2>1. ~stale
    BY <1>1, <1>2 DEF FinishServerLoad, ServingOK
  <2> QED
    BY <1>2, <2>1, HandKeeps DEF FinishServerLoad
<1>3. CASE FinishLoad(c) /\ ~stale
  BY <1>3, HandKeeps DEF FinishLoad
<1>4. CASE FinishLoad(c) /\ stale
  <2>1. /\ transport = "device" /\ stale' = FALSE
        /\ pc' = [pc EXCEPT ![c] = "listing"] /\ load' = [load EXCEPT ![c] = Unread]
        /\ UNCHANGED <<transport, record, change, changes, settings, edits, edited, answered, loaded, loading,
                       held, ended, running, tried, asked>>
    BY <1>4 DEF FinishLoad, userVars, gateVars
  <2>2. /\ load' \in [Asker -> LoadRead] /\ pc' \in [Asker -> Place]
        /\ pc'[c] = "listing" /\ \A d \in Asker : d # c => pc'[d] = pc[d]
        /\ \A d \in Asker : load'[d] = Unread
        /\ loading = c /\ loaded = NoEntry
    BY <1>1, <2>1, NothingRead, OneLoad DEF HostTypes, Place
  <2>3. HostTypes'
    BY <1>1, <2>1, <2>2 DEF HostTypes
  <2>4. EditsOK'
    BY <1>1, <2>1 DEF EditsOK
  <2>5. LoadsOK'
    BY <2>1, <2>2, NothingRead DEF LoadsOK
  <2>6. ServingOK'
    BY <1>1, <2>1, <2>2, NothingRead DEF ServingOK
  <2>7. CallersOK'
    BY <1>1, <2>1, <2>2 DEF CallersOK, Within
  <2> QED
    BY <1>1, <2>1, <2>3, <2>4, <2>5, <2>6, <2>7 DEF HostInv, MigrationsOK
<1> QED
  BY <1>2, <1>3, <1>4

-----------------------------------------------------------------------------
(* The gate *)

LEMMA MigrationKeeps ==
  ASSUME HostInv, MigrationEnds
  PROVE  HostInv'
<1>1. HostTypes /\ EditsOK /\ LoadsOK /\ ServingOK /\ CallersOK /\ MigrationsOK
  BY DEF HostInv
<1>2. /\ ended' = running /\ running' = 0 /\ tried' = tried \cup {running}
      /\ pc' = [c \in Asker |-> IF pc[c] = "migrating" THEN "using" ELSE pc[c]]
      /\ UNCHANGED <<transport, record, change, changes, settings, edits, edited, answered, stale, loaded, context,
                     loading, load, held, asked>>
  BY DEF MigrationEnds, userVars
<1>3. /\ pc' \in [Asker -> Place]
      /\ \A c \in Asker : pc'[c] # "using" => pc'[c] = pc[c]
      /\ \A c \in Asker : pc'[c] = "using" => pc[c] \in {"migrating", "using"}
      /\ \A c \in Asker : pc'[c] # "migrating" /\ (pc[c] = "loading" => pc'[c] = "loading")
  BY <1>1, <1>2 DEF HostTypes, Place
<1>4. HostTypes'
  BY <1>1, <1>2, <1>3 DEF HostTypes
<1>5. EditsOK'
  BY <1>1, <1>2 DEF EditsOK
<1>6. LoadsOK'
  BY <1>1, <1>2, <1>3 DEF LoadsOK
<1>7. ServingOK'
  BY <1>1, <1>2, <1>3 DEF ServingOK, Entry
<1>8. CallersOK'
  BY <1>1, <1>2, <1>3 DEF CallersOK, Within
<1> QED
  BY <1>2, <1>4, <1>5, <1>6, <1>7, <1>8 DEF HostInv, MigrationsOK

LEMMA CallerDoneKeeps ==
  ASSUME HostInv, NEW c \in Asker, Finished(c)
  PROVE  HostInv'
<1>1. HostTypes /\ EditsOK /\ LoadsOK /\ ServingOK /\ CallersOK /\ MigrationsOK /\ pc[c] = "using"
  BY DEF HostInv, Finished
<1>2. /\ pc' = [pc EXCEPT ![c] = "idle"] /\ held' = [held EXCEPT ![c] = NoEntry]
      /\ asked' = [asked EXCEPT ![c] = NotAsked]
      /\ UNCHANGED <<transport, record, change, changes, settings, edits, edited, answered, stale, loaded, context,
                     loading, load, ended, running, tried>>
  BY DEF Finished, userVars, gateVars
<1>3. /\ pc' \in [Asker -> Place] /\ held' \in [Asker -> Bridge \cup {NoEntry}] /\ asked' \in [Asker -> Answer]
      /\ pc'[c] = "idle" /\ asked'[c] = NotAsked
      /\ \A d \in Asker : d # c => pc'[d] = pc[d] /\ held'[d] = held[d] /\ asked'[d] = asked[d]
  BY <1>1, <1>2, NothingRead DEF HostTypes, Place
<1>4. HostTypes'
  BY <1>1, <1>2, <1>3 DEF HostTypes
<1>5. EditsOK'
  BY <1>1, <1>2 DEF EditsOK
<1>6. LoadsOK'
  BY <1>1, <1>2, <1>3 DEF LoadsOK
<1>7. ServingOK'
  BY <1>1, <1>2, <1>3 DEF ServingOK, Entry
<1>8. CallersOK'
  <2>1. Within(asked[c])'
    BY <1>1, <1>2, <1>3, NothingAskedIsWithin DEF Within, HostTypes
  <2> QED
    BY <1>1, <1>2, <1>3, <2>1 DEF CallersOK, Within
<1> QED
  BY <1>1, <1>2, <1>4, <1>5, <1>6, <1>7, <1>8 DEF HostInv, MigrationsOK

-----------------------------------------------------------------------------
(* Changes and edits *)

\* What a change or an edit that ends drops: nobody is served from it, and the load under way is told.
LEMMA Dropped ==
  ASSUME HostInv, DropEntry, answered' \in Answer, answered.change <= answered'.change,
         \A k \in Key : answered.settings[k] <= answered'.settings[k],
         transport = "server" => \A c \in Asker : pc[c] # "loading",
         UNCHANGED <<transport, loading, load, pc, held, running, tried, asked>>
  PROVE  /\ loaded' = NoEntry /\ stale' \in BOOLEAN /\ ended' \in Nat
         /\ LoadsOK' /\ ServingOK' /\ CallersOK' /\ MigrationsOK'
<1>1. HostTypes /\ LoadsOK /\ ServingOK /\ CallersOK
  BY DEF HostInv
<1>2. loaded' = NoEntry /\ stale' = (loading # NoCaller) /\ ended' = 0
  BY DEF DropEntry
<1>3. ~stale' => \A c \in Asker : load[c] = Unread
  BY <1>1, <1>2, OneLoad DEF HostTypes, LoadsOK
<1>4. LoadsOK'
  BY <1>1, <1>2, <1>3, NothingRead DEF LoadsOK
<1>5. ServingOK'
  BY <1>1, <1>2, <1>3, NothingRead DEF ServingOK
<1>6. CallersOK'
  <2>1. \A c \in Asker : Within(asked[c])'
    <3> SUFFICES ASSUME NEW c \in Asker
                 PROVE  asked[c].change <= answered'.change
                        /\ \A k \in Key : asked[c].settings[k] <= answered'.settings[k]
      BY DEF Within
    <3>1. /\ asked[c].change \in Nat /\ answered.change \in Nat /\ answered'.change \in Nat
          /\ \A k \in Key : asked[c].settings[k] \in Nat /\ answered.settings[k] \in Nat /\ answered'.settings[k] \in Nat
      BY <1>1 DEF HostTypes, Answer
    <3>2. Within(asked[c])
      BY <1>1 DEF CallersOK
    <3> QED
      BY <3>1, <3>2 DEF Within
  <2> QED
    BY <1>1, <2>1 DEF CallersOK
<1> QED
  BY <1>2, <1>4, <1>5, <1>6 DEF MigrationsOK

LEMMA InstallKeeps ==
  ASSUME HostInv, ChangeInstalled
  PROVE  HostInv'
<1>1. HostTypes /\ EditsOK /\ LoadsOK /\ ServingOK /\ CallersOK /\ MigrationsOK
  BY DEF HostInv
<1>2. /\ changes' = changes + 1 /\ record' \in {0, changes + 1} /\ change' = "written"
      /\ UNCHANGED <<transport, settings, edits, edited, answered, stale, loaded, context, loading, load, pc, held,
                     ended, running, tried, asked>>
  BY DEF ChangeInstalled, gateVars
<1>3. HostTypes'
  <2>1. changes' \in Nat \ {0} /\ record' \in {0, changes'} /\ answered'.change <= changes'
    BY <1>1, <1>2 DEF HostTypes, Answer
  <2> QED
    BY <1>1, <1>2, <2>1 DEF HostTypes
<1>4. EditsOK' /\ LoadsOK'
  BY <1>1, <1>2 DEF EditsOK, LoadsOK
<1>5. ServingOK' /\ CallersOK' /\ MigrationsOK'
  BY <1>1, <1>2 DEF ServingOK, CallersOK, MigrationsOK, Within, Entry
<1> QED
  BY <1>3, <1>4, <1>5 DEF HostInv

LEMMA AnnounceKeeps ==
  ASSUME HostInv, Announce
  PROVE  HostInv'
<1>1. HostTypes /\ EditsOK
  BY DEF HostInv
<1>2. /\ transport = "device" /\ change' = "announced" /\ DropEntry
      /\ UNCHANGED <<transport, record, changes, settings, edits, edited, answered, loading, load, pc, held,
                     running, tried, asked>>
  BY DEF Announce, Refresh
<1>3. /\ answered' \in Answer /\ answered.change <= answered'.change
      /\ \A k \in Key : answered.settings[k] <= answered'.settings[k]
  BY <1>1, <1>2 DEF HostTypes, Answer
<1>4. /\ loaded' = NoEntry /\ stale' \in BOOLEAN /\ ended' \in Nat
      /\ LoadsOK' /\ ServingOK' /\ CallersOK' /\ MigrationsOK'
  BY <1>2, <1>3, Dropped
<1>5. HostTypes'
  BY <1>1, <1>2, <1>4 DEF HostTypes
<1>6. EditsOK'
  BY <1>1, <1>2 DEF EditsOK
<1> QED
  BY <1>4, <1>5, <1>6 DEF HostInv

LEMMA ChangeEndsKeeps ==
  ASSUME HostInv, ~Overlap, ChangeEnds
  PROVE  HostInv'
<1>1. HostTypes /\ EditsOK
  BY DEF HostInv
<1>2. /\ change' = "none" /\ DropEntry /\ answered' = [answered EXCEPT !.change = changes]
      /\ transport = "server" => \A c \in Asker : pc[c] # "loading"
      /\ UNCHANGED <<transport, record, changes, settings, edits, edited, loading, load, pc, held,
                     running, tried, asked>>
  BY DEF ChangeEnds, Invalidate, Undisturbed
<1>3. /\ answered' \in Answer /\ answered.change <= answered'.change /\ answered'.change = changes
      /\ answered'.settings = answered.settings
      /\ \A k \in Key : answered.settings[k] <= answered'.settings[k]
  <2>1. answered' = [change |-> changes, settings |-> answered.settings]
    BY <1>1, <1>2 DEF HostTypes, Answer
  <2> QED
    BY <1>1, <2>1 DEF HostTypes, Answer
<1>4. /\ loaded' = NoEntry /\ stale' \in BOOLEAN /\ ended' \in Nat
      /\ LoadsOK' /\ ServingOK' /\ CallersOK' /\ MigrationsOK'
  BY <1>2, <1>3, Dropped
<1>5. HostTypes'
  BY <1>1, <1>2, <1>3, <1>4 DEF HostTypes
<1>6. EditsOK'
  BY <1>1, <1>2, <1>3 DEF EditsOK
<1> QED
  BY <1>4, <1>5, <1>6 DEF HostInv

LEMMA EditAdded ==
  ASSUME HostInv, NEW k \in Key, UpdateSettings(k)
  PROVE  HostInv'
<1>1. HostTypes /\ EditsOK /\ LoadsOK /\ ServingOK /\ CallersOK /\ MigrationsOK
  BY DEF HostInv
<1> DEFINE new == [key |-> k, value |-> edited + 1, stage |-> "asked", read |-> <<>>]
<1>2. /\ edited' = edited + 1 /\ edits' = Append(edits, new)
      /\ UNCHANGED <<transport, record, change, changes, settings, answered, stale, loaded, context, loading, load, pc,
                     held, ended, running, tried, asked>>
  BY DEF UpdateSettings, gateVars
<1>3. new \in Edit /\ new.value = edited + 1 /\ new.stage = "asked"
  BY <1>1 DEF HostTypes, Edit
<1> HIDE DEF new
<1>4. /\ edits' \in Seq(Edit) /\ Len(edits) \in Nat /\ DOMAIN edits = 1..Len(edits)
      /\ DOMAIN edits' = 1..Len(edits) + 1 /\ edits'[Len(edits) + 1] = new
      /\ \A i \in 1..Len(edits) : edits'[i] = edits[i] /\ edits[i] \in Edit
  BY <1>1, <1>2, <1>3 DEF HostTypes
<1>5. EditsOK'
  <2>1. /\ edited \in Nat /\ edited' = edited + 1 /\ \A i \in 1..Len(edits) : edits[i].value \in Nat
        /\ \A x \in Key : settings[x] \in Nat
    BY <1>1, <1>2, <1>4 DEF HostTypes, Edit
  <2>2. /\ \A i \in 1..Len(edits) : edits[i].value <= edited
        /\ \A x \in Key : settings[x] <= edited
    BY <1>1, <1>4 DEF EditsOK
  <2>3. ASSUME NEW i \in DOMAIN edits'
        PROVE  /\ edits'[i].value <= edited'
               /\ \A j \in DOMAIN edits' : i < j => edits'[i].value < edits'[j].value
               /\ \A x \in Key : answered'.settings[x] < edits'[i].value
               /\ edits'[i].stage = "set" => settings'[edits'[i].key] >= edits'[i].value
               /\ edits'[i].stage # "set" => \A x \in Key : settings'[x] < edits'[i].value
               /\ edits'[i].stage = "read" => edits'[i].read = settings' /\ transport' = "device"
               /\ transport' = "device" /\ edits'[i].stage # "asked" => i = 1
    <3>1. CASE i = Len(edits) + 1
      <4>1. \A x \in Key : answered.settings[x] < edited + 1
        BY <1>1, <2>1, <2>2 DEF EditsOK, HostTypes, Answer
      <4> QED
        BY <1>2, <1>3, <1>4, <2>1, <2>2, <3>1, <4>1
    <3>2. CASE i \in 1..Len(edits)
      <4>1. \A j \in DOMAIN edits' : i < j => edits'[i].value < edits'[j].value
        BY <1>1, <1>3, <1>4, <2>1, <2>2, <3>2 DEF EditsOK
      <4> QED
        BY <1>1, <1>2, <1>4, <2>1, <2>2, <3>2, <4>1 DEF EditsOK
    <3> QED
      BY <1>4, <2>3, <3>1, <3>2
  <2>4. \A x \in Key : settings'[x] <= edited' /\ answered'.settings[x] <= settings'[x]
    BY <1>1, <1>2, <2>1, <2>2 DEF EditsOK
  <2> QED
    BY <2>3, <2>4 DEF EditsOK
<1>6. HostTypes'
  BY <1>1, <1>2, <1>4 DEF HostTypes
<1>7. LoadsOK' /\ ServingOK' /\ CallersOK' /\ MigrationsOK'
  BY <1>1, <1>2 DEF LoadsOK, ServingOK, CallersOK, MigrationsOK, Within, Entry
<1> QED
  BY <1>5, <1>6, <1>7 DEF HostInv

\* An edit that is read, or set: its value is later than every one that is stored.
LEMMA EditMoves ==
  ASSUME HostInv, NEW i \in DOMAIN edits, NEW e \in Edit, edits' = [edits EXCEPT ![i] = e],
         e.key = edits[i].key, e.value = edits[i].value, edits[i].stage # "set",
         \/ /\ e.stage = "read" /\ transport = "device" /\ i = 1 /\ e.read = settings /\ UNCHANGED settings
         \/ /\ e.stage = "set" /\ settings' = [settings EXCEPT ![e.key] = e.value]
            /\ \A j \in DOMAIN edits : j # i => edits[j].stage # "read"
            /\ \A j \in DOMAIN edits : j < i => edits[j].stage = "set"
            /\ transport = "device" => i = 1,
         UNCHANGED <<editVars, stale, loaded, context, ended, answered>>
  PROVE  HostInv'
<1>1. HostTypes /\ EditsOK /\ LoadsOK /\ ServingOK /\ CallersOK /\ MigrationsOK
  BY DEF HostInv
<1>2. UNCHANGED <<transport, record, change, changes, edited, answered, stale, loaded, context, loading, load, pc, held,
                  ended, running, tried, asked>>
  BY DEF editVars
<1>3. /\ edits' \in Seq(Edit) /\ DOMAIN edits' = DOMAIN edits /\ edits'[i] = e
      /\ \A j \in DOMAIN edits : j # i => edits'[j] = edits[j]
      /\ DOMAIN edits = 1..Len(edits) /\ \A j \in DOMAIN edits : edits[j] \in Edit
  BY <1>1 DEF HostTypes
<1>4. /\ \A j \in DOMAIN edits : edits[j].value \in Nat /\ edits[j].key \in Key
      /\ \A k \in Key : settings[k] \in Nat /\ answered.settings[k] \in Nat
      /\ edited \in Nat /\ e.key \in Key /\ e.value \in Nat
  BY <1>1, <1>3 DEF HostTypes, Edit, Answer
<1>5. /\ settings' \in [Key -> Nat] /\ \A k \in Key : settings[k] <= settings'[k] /\ settings'[k] <= edited
      /\ \A k \in Key : settings'[k] \in {settings[k], e.value} /\ (settings'[k] # settings[k] => e.stage = "set")
      /\ e.stage = "set" => settings'[e.key] = e.value
  <2>1. e.value <= edited /\ \A k \in Key : settings[k] < e.value /\ settings[k] <= edited
    BY <1>1 DEF EditsOK
  <2>2. settings \in [Key -> Nat]
    BY <1>1 DEF HostTypes
  <2>3. CASE UNCHANGED settings /\ e.stage = "read"
    BY <1>4, <2>1, <2>2, <2>3
  <2>4. CASE e.stage = "set" /\ settings' = [settings EXCEPT ![e.key] = e.value]
    <3>1. /\ settings' \in [Key -> Nat] /\ settings'[e.key] = e.value
          /\ \A k \in Key : k # e.key => settings'[k] = settings[k]
      BY <1>4, <2>2, <2>4
    <3> QED
      BY <1>4, <2>1, <2>4, <3>1
  <2> QED
    BY <2>3, <2>4
<1>6. EditsOK'
  <2>1. ASSUME NEW j \in DOMAIN edits'
        PROVE  /\ edits'[j].value <= edited'
               /\ \A l \in DOMAIN edits' : j < l => edits'[j].value < edits'[l].value
               /\ \A x \in Key : answered'.settings[x] < edits'[j].value
               /\ edits'[j].stage = "set" => settings'[edits'[j].key] >= edits'[j].value
               /\ edits'[j].stage # "set" => \A x \in Key : settings'[x] < edits'[j].value
               /\ edits'[j].stage = "read" => edits'[j].read = settings' /\ transport' = "device"
               /\ transport' = "device" /\ edits'[j].stage # "asked" => j = 1
    <3>1. edits'[j].value = edits[j].value /\ edits'[j].key = edits[j].key
          /\ \A l \in DOMAIN edits' : edits'[l].value = edits[l].value
      BY <1>3
    <3>2. edits'[j].value <= edited' /\ \A l \in DOMAIN edits' : j < l => edits'[j].value < edits'[l].value
      BY <1>1, <1>2, <1>3, <3>1 DEF EditsOK
    <3>5. \A x \in Key : answered'.settings[x] < edits'[j].value
      BY <1>1, <1>2, <1>3, <3>1 DEF EditsOK
    <3>3. CASE j = i
      <4>1. \A x \in Key : settings[x] < e.value
        BY <1>1 DEF EditsOK
      <4> QED
        BY <1>2, <1>3, <1>4, <1>5, <3>2, <3>5, <3>3, <4>1
    <3>4. CASE j # i
      <4>1. edits'[j] = edits[j]
        BY <1>3, <3>4
      <4>2. edits[j].stage = "set" => settings'[edits[j].key] >= edits[j].value
        <5>1. edits[j].stage = "set" => settings[edits[j].key] >= edits[j].value
          BY <1>1, <1>3 DEF EditsOK
        <5>2. settings'[edits[j].key] \in Nat /\ settings[edits[j].key] <= settings'[edits[j].key]
          BY <1>3, <1>4, <1>5
        <5> QED
          BY <1>3, <1>4, <5>1, <5>2
      <4>3. edits[j].stage # "set" => \A x \in Key : settings'[x] < edits[j].value
        <5>1. edits[j].stage # "set" => \A x \in Key : settings[x] < edits[j].value
          BY <1>1, <1>3 DEF EditsOK
        <5>2. edits[j].stage # "set" /\ e.stage = "set" => i < j
          BY <1>3, <3>4
        <5>3. i < j => e.value < edits[j].value
          BY <1>1, <1>3 DEF EditsOK
        <5> QED
          BY <1>5, <5>1, <5>2, <5>3
      <4>4. edits[j].stage = "read" => edits[j].read = settings' /\ transport' = "device"
        <5>1. edits[j].stage = "read" => UNCHANGED settings
          BY <1>3, <3>4
        <5> QED
          BY <1>1, <1>2, <1>3, <5>1 DEF EditsOK
      <4>5. transport' = "device" /\ edits[j].stage # "asked" => j = 1
        BY <1>1, <1>2, <1>3 DEF EditsOK
      <4> QED
        BY <3>2, <3>5, <4>1, <4>2, <4>3, <4>4, <4>5
    <3> QED
      BY <3>3, <3>4, <3>5
  <2>2. \A k \in Key : settings'[k] <= edited' /\ answered'.settings[k] <= settings'[k]
    BY <1>1, <1>2, <1>4, <1>5 DEF EditsOK
  <2> QED
    BY <2>1, <2>2 DEF EditsOK
<1>7. HostTypes'
  BY <1>1, <1>2, <1>3, <1>5 DEF HostTypes
<1>8. LoadsOK' /\ ServingOK' /\ CallersOK' /\ MigrationsOK'
  BY <1>1, <1>2 DEF LoadsOK, ServingOK, CallersOK, MigrationsOK, Within, Entry
<1> QED
  BY <1>6, <1>7, <1>8 DEF HostInv

LEMMA EditGone ==
  ASSUME HostInv, edits # <<>>, edits' = Tail(edits), answered' \in Answer,
         \A k \in Key : answered'.settings[k] <= settings[k],
         \A i \in DOMAIN edits, k \in Key : i # 1 => answered'.settings[k] < edits[i].value,
         UNCHANGED <<transport, settings, edited>>
  PROVE  EditsOK' /\ edits' \in Seq(Edit)
<1>1. HostTypes /\ EditsOK
  BY DEF HostInv
<1>2. /\ Len(edits) \in Nat /\ Len(edits) # 0 /\ DOMAIN edits = 1..Len(edits)
      /\ edits' \in Seq(Edit) /\ Len(edits') = Len(edits) - 1 /\ DOMAIN edits' = 1..Len(edits) - 1
      /\ \A i \in 1..Len(edits) - 1 : edits'[i] = edits[i + 1]
  BY <1>1 DEF HostTypes
<1>3. ASSUME NEW i \in DOMAIN edits'
      PROVE  /\ edits'[i].value <= edited'
             /\ \A j \in DOMAIN edits' : i < j => edits'[i].value < edits'[j].value
             /\ \A x \in Key : answered'.settings[x] < edits'[i].value
             /\ edits'[i].stage = "set" => settings'[edits'[i].key] >= edits'[i].value
             /\ edits'[i].stage # "set" => \A x \in Key : settings'[x] < edits'[i].value
             /\ edits'[i].stage = "read" => edits'[i].read = settings' /\ transport' = "device"
             /\ transport' = "device" /\ edits'[i].stage # "asked" => i = 1
  <2>1. i + 1 \in DOMAIN edits /\ i + 1 # 1 /\ edits'[i] = edits[i + 1] /\ i \in Nat
    BY <1>2
  <2>2. \A j \in DOMAIN edits' : i < j => edits'[i].value < edits'[j].value
    <3>1. ASSUME NEW j \in DOMAIN edits', i < j PROVE edits'[i].value < edits'[j].value
      <4>1. j + 1 \in DOMAIN edits /\ i + 1 < j + 1 /\ edits'[j] = edits[j + 1]
        BY <1>2, <2>1, <3>1
      <4> QED
        BY <1>1, <2>1, <4>1 DEF EditsOK
    <3> QED
      BY <3>1
  <2> QED
    BY <1>1, <2>1, <2>2 DEF EditsOK
<1>4. \A k \in Key : settings'[k] <= edited' /\ answered'.settings[k] <= settings'[k]
  BY <1>1 DEF EditsOK
<1> QED
  BY <1>2, <1>3, <1>4 DEF EditsOK

LEMMA EditStepKeeps ==
  ASSUME HostInv, \/ EditReads \/ EditSets \/ \E i \in 1..Len(edits) : Patch(i)
  PROVE  HostInv'
<1>1. HostTypes /\ EditsOK
  BY DEF HostInv
<1>2. DOMAIN edits = 1..Len(edits) /\ Len(edits) \in Nat /\ \A i \in DOMAIN edits : edits[i] \in Edit
  BY <1>1 DEF HostTypes
<1>3. CASE EditReads
  <2>1. /\ transport = "device" /\ edits # <<>> /\ edits[1].stage = "asked"
        /\ edits' = [edits EXCEPT ![1].stage = "read", ![1].read = settings]
        /\ UNCHANGED <<editVars, settings, stale, loaded, context, ended, answered>>
    BY <1>3 DEF EditReads
  <2>2. 1 \in DOMAIN edits
    BY <1>2, <2>1
  <2> DEFINE e == [edits[1] EXCEPT !.stage = "read", !.read = settings]
  <2>3. e \in Edit /\ e.key = edits[1].key /\ e.value = edits[1].value /\ e.stage = "read" /\ e.read = settings
    <3>1. edits[1] \in Edit /\ settings \in [Key -> Nat]
      BY <1>1, <1>2, <2>2 DEF HostTypes
    <3> QED
      BY <3>1 DEF Edit
  <2>4. edits' = [edits EXCEPT ![1] = e]
    BY <2>1, <2>2
  <2> HIDE DEF e
  <2> QED
    BY <2>1, <2>2, <2>3, <2>4, EditMoves
<1>4. CASE EditSets
  <2>1. /\ edits # <<>> /\ edits[1].stage = "read"
        /\ settings' = [edits[1].read EXCEPT ![edits[1].key] = edits[1].value]
        /\ edits' = [edits EXCEPT ![1].stage = "set"]
        /\ UNCHANGED <<editVars, stale, loaded, context, ended, answered>>
    BY <1>4 DEF EditSets
  <2>2. 1 \in DOMAIN edits
    BY <1>2, <2>1
  <2>3. edits[1].read = settings /\ transport = "device"
    BY <1>1, <2>1, <2>2 DEF EditsOK
  <2>4. /\ \A j \in DOMAIN edits : j # 1 => edits[j].stage # "read"
        /\ \A j \in DOMAIN edits : j < 1 => edits[j].stage = "set"
    BY <1>1, <1>2, <2>3 DEF EditsOK
  <2> DEFINE e == [edits[1] EXCEPT !.stage = "set"]
  <2>5. e \in Edit /\ e.key = edits[1].key /\ e.value = edits[1].value /\ e.stage = "set"
    <3>1. edits[1] \in Edit
      BY <1>2, <2>2
    <3> QED
      BY <3>1 DEF Edit
  <2>6. edits' = [edits EXCEPT ![1] = e]
    BY <2>1, <2>2
  <2> HIDE DEF e
  <2> QED
    BY <2>1, <2>2, <2>3, <2>4, <2>5, <2>6, EditMoves
<1>5. ASSUME NEW i \in 1..Len(edits), Patch(i) PROVE HostInv'
  <2>1. /\ transport = "server" /\ edits[i].stage = "asked" /\ \A j \in 1..i - 1 : edits[j].stage = "set"
        /\ settings' = [settings EXCEPT ![edits[i].key] = edits[i].value]
        /\ edits' = [edits EXCEPT ![i].stage = "set"]
        /\ UNCHANGED <<editVars, stale, loaded, context, ended, answered>>
    BY <1>5 DEF Patch
  <2>2. i \in DOMAIN edits
    BY <1>2
  <2>3. /\ \A j \in DOMAIN edits : j # i => edits[j].stage # "read"
        /\ \A j \in DOMAIN edits : j < i => edits[j].stage = "set"
    BY <1>1, <1>2, <2>1 DEF EditsOK
  <2> DEFINE e == [edits[i] EXCEPT !.stage = "set"]
  <2>4. e \in Edit /\ e.key = edits[i].key /\ e.value = edits[i].value /\ e.stage = "set"
    <3>1. edits[i] \in Edit
      BY <1>2, <2>2
    <3> QED
      BY <3>1 DEF Edit
  <2>5. edits' = [edits EXCEPT ![i] = e]
    BY <2>1, <2>2
  <2> HIDE DEF e
  <2> QED
    BY <2>1, <2>2, <2>3, <2>4, <2>5, EditMoves
<1> QED
  BY <1>3, <1>4, <1>5

LEMMA EditFailsKeeps ==
  ASSUME HostInv, EditFails
  PROVE  HostInv'
<1>1. HostTypes /\ EditsOK /\ LoadsOK /\ ServingOK /\ CallersOK /\ MigrationsOK
  BY DEF HostInv
<1>2. /\ edits # <<>> /\ edits' = Tail(edits)
      /\ UNCHANGED <<transport, record, change, changes, settings, edited, answered, stale, loaded, context, loading, load,
                     pc, held, ended, running, tried, asked>>
  BY DEF EditFails, editVars
<1>3. EditsOK' /\ edits' \in Seq(Edit)
  BY <1>1, <1>2, EditGone DEF HostTypes, EditsOK
<1>4. HostTypes'
  BY <1>1, <1>2, <1>3 DEF HostTypes
<1>5. LoadsOK' /\ ServingOK' /\ CallersOK' /\ MigrationsOK'
  BY <1>1, <1>2 DEF LoadsOK, ServingOK, CallersOK, MigrationsOK, Within, Entry
<1> QED
  BY <1>3, <1>4, <1>5 DEF HostInv

LEMMA EditEndsKeeps ==
  ASSUME HostInv, ~Overlap, EditEnds
  PROVE  HostInv'
<1>1. HostTypes /\ EditsOK
  BY DEF HostInv
<1>2. /\ edits # <<>> /\ edits[1].stage = "set" /\ edits' = Tail(edits) /\ DropEntry
      /\ answered' = [answered EXCEPT !.settings[edits[1].key] = edits[1].value]
      /\ transport = "server" => \A c \in Asker : pc[c] # "loading"
      /\ UNCHANGED <<transport, record, change, changes, settings, edited, loading, load, pc, held,
                     running, tried, asked>>
  BY DEF EditEnds, Invalidate, Undisturbed, editVars
<1>3. /\ 1 \in DOMAIN edits /\ edits[1].key \in Key /\ edits[1].value \in Nat
      /\ settings[edits[1].key] >= edits[1].value /\ settings \in [Key -> Nat]
  <2>1. 1 \in DOMAIN edits /\ edits[1] \in Edit
    BY <1>1, <1>2 DEF HostTypes
  <2> QED
    BY <1>1, <1>2, <2>1 DEF HostTypes, EditsOK, Edit
<1>4. /\ answered' \in Answer /\ answered'.change = answered.change
      /\ \A k \in Key : answered'.settings[k] = IF k = edits[1].key THEN edits[1].value ELSE answered.settings[k]
  <2>1. answered.settings \in [Key -> Nat] /\ answered.change \in Nat
    BY <1>1 DEF HostTypes, Answer
  <2>2. answered' = [change |-> answered.change,
                     settings |-> [answered.settings EXCEPT ![edits[1].key] = edits[1].value]]
    BY <1>1, <1>2 DEF HostTypes, Answer
  <2> QED
    BY <1>3, <2>1, <2>2 DEF Answer
<1>5. /\ answered.change <= answered'.change
      /\ \A k \in Key : answered'.settings[k] <= settings[k] /\ answered.settings[k] <= answered'.settings[k]
  <2>1. answered.change \in Nat /\ \A k \in Key : answered.settings[k] \in Nat
    BY <1>1 DEF HostTypes, Answer
  <2>2. \A k \in Key : answered.settings[k] <= settings[k] /\ answered.settings[k] < edits[1].value
    BY <1>1, <1>3 DEF EditsOK
  <2> QED
    BY <1>3, <1>4, <2>1, <2>2
<1>6. \A i \in DOMAIN edits, k \in Key : i # 1 => answered'.settings[k] < edits[i].value
  <2>1. \A i \in DOMAIN edits : i # 1 => 1 < i /\ edits[1].value < edits[i].value
    <3>1. \A i \in DOMAIN edits : i # 1 => 1 < i
      BY <1>1 DEF HostTypes
    <3> QED
      BY <1>1, <1>3, <3>1 DEF EditsOK
  <2> QED
    BY <1>1, <1>4, <2>1 DEF EditsOK
<1>7. EditsOK' /\ edits' \in Seq(Edit)
  BY <1>2, <1>4, <1>5, <1>6, EditGone
<1>8. /\ loaded' = NoEntry /\ stale' \in BOOLEAN /\ ended' \in Nat
      /\ LoadsOK' /\ ServingOK' /\ CallersOK' /\ MigrationsOK'
  BY <1>2, <1>4, <1>5, Dropped
<1>9. HostTypes'
  BY <1>1, <1>2, <1>4, <1>7, <1>8 DEF HostTypes
<1> QED
  BY <1>7, <1>8, <1>9 DEF HostInv

LEMMA HostingStaysRight ==
  ASSUME ~Overlap, ~MidRun, HostInv, [BridgeNext]_bridgeVars
  PROVE  HostInv'
<1>1. CASE BridgeNext
  <2>1. ASSUME NEW c \in Asker, AskFor(c) \/ LoadStep(c) \/ LoadFails(c) \/ Finished(c) PROVE HostInv'
    BY <2>1, AskKeeps, ListKeeps, LoadKeeps, FinishKeeps, CallerDoneKeeps DEF LoadStep
  <2>2. CASE \E k \in Key : UpdateSettings(k)
    BY <2>2, EditAdded
  <2>3. CASE EditReads \/ EditSets \/ \E i \in 1..Len(edits) : Patch(i)
    BY <2>3, EditStepKeeps
  <2> QED
    BY <1>1, <2>1, <2>2, <2>3, EditEndsKeeps, EditFailsKeeps, InstallKeeps, AnnounceKeeps, ChangeEndsKeeps,
       MigrationKeeps DEF BridgeNext
<1>2. CASE UNCHANGED bridgeVars
  <2>1. HostTypes' /\ EditsOK'
    BY <1>2 DEF HostInv, HostTypes, EditsOK, bridgeVars
  <2>2. LoadsOK' /\ ServingOK' /\ CallersOK' /\ MigrationsOK'
    BY <1>2 DEF HostInv, LoadsOK, ServingOK, CallersOK, MigrationsOK, Within, Entry, bridgeVars
  <2> QED
    BY <2>1, <2>2 DEF HostInv
<1> QED
  BY <1>1, <1>2

\* However loads, edits, changes, migrations and failures overlap, what a caller uses is the bridge as it was
\* installed and set when it asked, or later, and migrated; a device serves what its engine holds; an answered
\* edit stays (BridgeManager.get, EmbeddedBridgeProvider.doLoad, withIdMigration), as long as a server's bridge
\* does not change while it loads, and no load of one revision ends during the migration of another.
THEOREM BridgesAreServedAsInstalled ==
  ASSUME ~Overlap, ~MidRun
  PROVE  BridgeSpec => []ServedAsInstalled
<1>1. BridgeInit => HostInv
  BY HostingStartsRight
<1>2. HostInv /\ [BridgeNext]_bridgeVars => HostInv'
  BY HostingStaysRight
<1>3. HostInv => ServedAsInstalled
  <2> SUFFICES ASSUME HostInv PROVE ServedAsInstalled
    OBVIOUS
  <2>1. HandsOutCurrent
    BY DEF HostInv, CallersOK, Covers, HandsOutCurrent
  <2>2. ServesWhatRuns
    BY DEF HostInv, ServingOK, ServesWhatRuns
  <2>3. EditsKept
    BY DEF HostInv, EditsOK, HostTypes, Answer, EditsKept
  <2>4. MigratedBeforeUse
    BY DEF HostInv, CallersOK, MigratedBeforeUse
  <2> QED
    BY <2>1, <2>2, <2>3, <2>4 DEF ServedAsInstalled
<1> QED
  BY <1>1, <1>2, <1>3, PTL DEF BridgeSpec

-----------------------------------------------------------------------------
(* The book of what is installed: the invariant. *)

OneCaller == \A c, d \in Caller : c = d

Places == {"fetch", "target", "hold", "rebind", "repoint", "rebound", "act", "adopt", "adopted",
           "write", "unretire", "drop", "check"}
Reads == {"add", "install", "checkUpdates"}
Ops == Reads \cup {"adopt", "confirmMove", "confirmAdoption", "uninstall"}
Records == Item \X InstalledRecord

CallRecord ==
  [pc : Places, op : Ops, url : Url \cup {None}, b : Item \cup {None}, to : Url \cup {None}, index : Nat,
   seen : SUBSET (Url \cup {None}), rec : InstalledRecord \cup {None}, recs : SUBSET Records,
   todo : SUBSET (Url \cup Records), claims : SUBSET Url]

BookTypes ==
  /\ host \in {"server", "device"}
  /\ registries \in [Url -> SavedRegistry \cup {None}]
  /\ installed \in [Item -> InstalledRecord \cup {None}]
  /\ retired \in [Item -> Url \cup {None}]
  /\ published \in [Url -> Nat] /\ memo \in [Url -> Nat]
  /\ \A u \in Url : published[u] \in DOMAIN Index[u] /\ memo[u] <= Len(Index[u])
  /\ call \in [Caller -> {Idle} \cup CallRecord]

\* No registry is held to move to itself.
PendingOK ==
  \A u \in Url : Saved(u) => u # registries[u].pendingMove /\ u \notin registries[u].pendingAdoption

\* Where a call reads, and where it moves what: never a registry to itself.
AimOK(r) ==
  /\ r.pc = "fetch" => r.op \in Reads /\ r.url \in Url /\ r.url \in r.seen
  /\ r.pc \in {"target", "hold", "rebind", "repoint", "rebound"} =>
       r.url \in Url /\ r.to \in Url /\ r.url # r.to /\ r.op # "uninstall"
  /\ r.pc \in {"target", "rebind", "repoint", "rebound"} /\ r.op \in Reads => r.to \in r.seen
  /\ r.pc \in {"rebind", "repoint", "rebound"} => r.index \in DOMAIN Index[r.to]
  /\ r.pc \in {"hold", "act", "write"} => r.op \in Reads /\ r.url \in Url /\ r.index \in DOMAIN Index[r.url]
  /\ r.pc = "adopt" => r.op = "adopt" /\ r.to \in Url /\ r.index \in DOMAIN Index[r.to]
  /\ r.pc = "adopted" => r.op = "confirmAdoption"

\* What a call goes through: records, or registries other than the one that takes them over.
AgendaOK(r) ==
  /\ r.op = "adopt" => r.todo \subseteq Url \ {r.to} /\ r.claims \subseteq Url \ {r.to}
  /\ r.op = "confirmAdoption" => r.to \in Url /\ r.claims \subseteq Url \ {r.to}
  /\ r.pc = "check" => r.op = "checkUpdates"
  /\ r.op = "checkUpdates" => r.todo \subseteq Records /\ (r.pc # "check" => r.b \in Item /\ r.rec \in InstalledRecord)
  /\ r.op = "add" => r.claims = {}
  /\ r.op = "install" => r.b \in Item
  /\ r.pc = "write" => r.op = "install" /\ IndexAt(r.url, r.index).offers[r.b] # None

\* What was written so far: a rebind's new row is there and the installs it has not moved yet are the
\* ones it goes by; what a call is about to forget is noted elsewhere.
WritesOK(r) ==
  /\ r.pc = "repoint" => Saved(r.to) /\ From(r.url) \subseteq {t[1] : t \in r.recs}
  /\ r.pc = "unretire" => r.b \in Item /\ installed[r.b] # None
  /\ r.pc = "drop" => r.b \in Item /\ (r.b \in Trackers \/ retired[r.b] # None)

CallsOK == \A c \in Caller : call[c] # Idle => AimOK(call[c]) /\ AgendaOK(call[c]) /\ WritesOK(call[c])

BookInv == BookTypes /\ PendingOK /\ CallsOK

\* What a step may not do.
KeepsNames == \A b \in Item \ Trackers : Known(b) => Known(b)'
KeepsHomes == Rebinding => Orphaned' \subseteq Orphaned

-----------------------------------------------------------------------------
(* Indexes and calls *)

LEMMA IndexRead ==
  ASSUME NEW u \in Url, NEW n \in DOMAIN Index[u]
  PROVE  /\ IndexAt(u, n).movedTo \in Url \cup {None} /\ IndexAt(u, n).movedFrom \in SUBSET Url
         /\ IndexAt(u, n).key \in STRING \cup {None} /\ IndexAt(u, n).offers \in [Item -> Offer \cup {None}]
<1>1. IndexAt(u, n) \in RegistryIndex
  BY IndexesPublished DEF IndexAt
<1> QED
  BY <1>1 DEF RegistryIndex

LEMMA ReadIsPublished ==
  ASSUME BookTypes, NEW u \in Url
  PROVE  Read(u) \subseteq DOMAIN Index[u]
<1>1. DOMAIN Index[u] = 1..Len(Index[u]) /\ Len(Index[u]) \in Nat
  BY IndexesPublished
<1> QED
  BY <1>1 DEF BookTypes, Read

LEMMA CallsAreNotIdle == ASSUME NEW r \in CallRecord PROVE r # Idle /\ r.pc \in Places /\ r.pc # "idle"
<1>1. r.pc \in Places
  BY DEF CallRecord
<1> QED
  BY <1>1 DEF Idle, Places

\* Where a call goes on after one of its steps.
LEMMA GoesOn ==
  ASSUME OneCaller, BookTypes, NEW c \in Caller, NEW r \in CallRecord \cup {Idle}, Goto(c, r),
         r # Idle => AimOK(r) /\ AgendaOK(r) /\ (r.pc \in {"repoint", "unretire", "drop"} => WritesOK(r)')
  PROVE  call' \in [Caller -> {Idle} \cup CallRecord] /\ call'[c] = r /\ CallsOK'
<1>1. call' \in [Caller -> {Idle} \cup CallRecord] /\ call'[c] = r
  BY DEF Goto, BookTypes
<1>2. r # Idle => WritesOK(r)'
  <2>1. CASE r.pc \in {"repoint", "unretire", "drop"}
    BY <2>1
  <2>2. CASE r.pc \notin {"repoint", "unretire", "drop"}
    BY <2>2 DEF WritesOK
  <2> QED
    BY <2>1, <2>2
<1>3. \A d \in Caller : call'[d] = r
  BY <1>1 DEF OneCaller
<1>4. CallsOK'
  <2> SUFFICES ASSUME NEW d \in Caller, call'[d] # Idle
               PROVE  AimOK(call'[d]) /\ AgendaOK(call'[d]) /\ WritesOK(call[d])'
    BY DEF CallsOK
  <2>1. call'[d] = r
    BY <1>3
  <2> QED
    BY <1>2, <2>1
<1> QED
  BY <1>1, <1>4

LEMMA CallOf ==
  ASSUME BookInv, NEW c \in Caller, call[c] # Idle
  PROVE  call[c] \in CallRecord /\ AimOK(call[c]) /\ AgendaOK(call[c]) /\ WritesOK(call[c])
BY DEF BookInv, BookTypes, CallsOK

LEMMA CallAt ==
  ASSUME BookInv, NEW c \in Caller, NEW p \in Places, At(c, p)
  PROVE  call[c] # Idle /\ call[c] \in CallRecord /\ call[c].pc = p /\ AimOK(call[c]) /\ AgendaOK(call[c]) /\ WritesOK(call[c])
<1>1. call[c] # Idle
  BY DEF At, Idle, Places
<1> QED
  BY <1>1, CallOf DEF At

LEMMA StoresStay ==
  ASSUME BookTypes, PendingOK, UNCHANGED <<host, stores, published>>, memo' \in [Url -> Nat],
         \A u \in Url : memo'[u] <= Len(Index[u]), call' \in [Caller -> {Idle} \cup CallRecord], CallsOK'
  PROVE  BookInv' /\ KeepsNames /\ KeepsHomes
<1>1. BookTypes' /\ PendingOK'
  BY DEF BookTypes, PendingOK, stores, Saved
<1>2. KeepsNames /\ KeepsHomes
  BY DEF KeepsNames, KeepsHomes, Known, Orphaned, Saved, stores
<1> QED
  BY <1>1, <1>2 DEF BookInv

LEMMA NotRebinding ==
  ASSUME OneCaller, NEW c \in Caller, call[c].pc \notin {"rebind", "repoint"}
  PROVE  KeepsHomes
BY DEF OneCaller, KeepsHomes, Rebinding

LEMMA BookStartsRight == Init => BookInv
<1> SUFFICES ASSUME Init PROVE BookInv
  OBVIOUS
<1>1. PICK s \in Starts : registries = s.registries /\ installed = s.installed
  BY DEF Init
<1>2. BookTypes
  <2>1. \A u \in Url : Len(Index[u]) \in Nat /\ 1 \in DOMAIN Index[u]
    BY IndexesPublished
  <2> QED
    BY <1>1, <2>1, StartsTyped DEF Init, BookTypes
<1>3. PendingOK
  BY <1>1, StartsTyped DEF PendingOK, Saved
<1> QED
  BY <1>2, <1>3 DEF BookInv, CallsOK, Init

LEMMA ResolveAims ==
  ASSUME NEW r \in CallRecord, r.op \in Reads, r.url \in Url, r.url \in r.seen, r.index \in DOMAIN Index[r.url],
         AgendaOK(r), r.pc \notin {"check", "write"}
  PROVE  /\ resolveIndex(r) \in CallRecord /\ AimOK(resolveIndex(r)) /\ AgendaOK(resolveIndex(r))
         /\ resolveIndex(r).pc \in {"act", "target", "hold"}
<1>1. IndexAt(r.url, r.index).movedTo \in Url \cup {None}
  BY IndexRead
<1> DEFINE to == IndexAt(r.url, r.index).movedTo
<1>2. \/ resolveIndex(r) = [r EXCEPT !.pc = "act"]
      \/ /\ to \in Url /\ to # r.url
         /\ \E p \in {"target", "hold"} : resolveIndex(r) = [r EXCEPT !.to = to, !.seen = @ \cup {to}, !.pc = p]
  BY <1>1 DEF resolveIndex
<1> HIDE DEF to
<1>3. PICK e : e = resolveIndex(r)
  OBVIOUS
<1>4. CASE e = [r EXCEPT !.pc = "act"]
  BY <1>3, <1>4 DEF CallRecord, Places, AimOK, AgendaOK, Reads
<1>5. ASSUME to \in Url, to # r.url, NEW p \in {"target", "hold"}, e = [r EXCEPT !.to = to, !.seen = @ \cup {to}, !.pc = p]
      PROVE  e \in CallRecord /\ AimOK(e) /\ AgendaOK(e) /\ e.pc \in {"act", "target", "hold"}
  BY <1>5 DEF CallRecord, Places, AimOK, AgendaOK, Reads
<1> QED
  BY <1>2, <1>3, <1>4, <1>5

-----------------------------------------------------------------------------
(* Reading indexes *)

LEMMA FailGoesOn ==
  ASSUME OneCaller, BookInv, NEW c \in Caller, NEW p \in {"fetch", "target"}, At(c, p), Fail(c)
  PROVE  call' \in [Caller -> {Idle} \cup CallRecord] /\ CallsOK'
<1>1. call[c] \in CallRecord /\ AimOK(call[c]) /\ AgendaOK(call[c]) /\ call[c].pc = p
  BY CallAt DEF Places
<1>2. PICK r : r = IF call[c].op = "checkUpdates" THEN [call[c] EXCEPT !.pc = "check"] ELSE Idle
  OBVIOUS
<1>3. Goto(c, r)
  BY <1>2 DEF Fail
<1>4. r # Idle => r \in CallRecord /\ r.pc = "check" /\ AimOK(r) /\ AgendaOK(r)
  BY <1>1, <1>2 DEF CallRecord, Places, AimOK, AgendaOK
<1> QED
  BY <1>3, <1>4, GoesOn DEF BookInv

LEMMA FetchKeeps ==
  ASSUME OneCaller, BookInv, NEW c \in Caller, fetchAndCache(c)
  PROVE  BookInv' /\ KeepsNames /\ KeepsHomes
<1>1. call[c] \in CallRecord /\ AimOK(call[c]) /\ AgendaOK(call[c]) /\ call[c].pc = "fetch" /\ At(c, "fetch")
  BY CallAt DEF fetchAndCache, Places
<1>2. call[c].op \in Reads /\ call[c].url \in Url /\ call[c].url \in call[c].seen
  BY <1>1 DEF AimOK
<1>3. ASSUME NEW n \in Read(call[c].url), memo' = [memo EXCEPT ![call[c].url] = n],
             Goto(c, resolveIndex([call[c] EXCEPT !.index = n]))
      PROVE  BookInv' /\ KeepsNames /\ KeepsHomes
  <2>1. n \in DOMAIN Index[call[c].url] /\ n \in Nat /\ n <= Len(Index[call[c].url])
    BY <1>2, ReadIsPublished, IndexesPublished DEF BookInv
  <2>2. PICK q : q = [call[c] EXCEPT !.index = n]
    OBVIOUS
  <2>3. q \in CallRecord /\ q.op \in Reads /\ q.url \in Url /\ q.url \in q.seen /\ q.index \in DOMAIN Index[q.url]
        /\ AgendaOK(q) /\ q.pc = "fetch"
    BY <1>1, <1>2, <2>1, <2>2 DEF CallRecord, AgendaOK
  <2>4. PICK r : r = resolveIndex(q)
    OBVIOUS
  <2>5. r \in CallRecord /\ AimOK(r) /\ AgendaOK(r) /\ r.pc \in {"act", "target", "hold"}
    BY <2>3, <2>4, ResolveAims
  <2>6. call' \in [Caller -> {Idle} \cup CallRecord] /\ CallsOK'
    BY <1>3, <2>2, <2>4, <2>5, GoesOn DEF BookInv
  <2>7. memo' \in [Url -> Nat] /\ \A u \in Url : memo'[u] <= Len(Index[u])
    BY <1>2, <1>3, <2>1 DEF BookInv, BookTypes
  <2> QED
    BY <2>6, <2>7, StoresStay DEF BookInv, fetchAndCache
<1>4. ASSUME Fail(c), UNCHANGED memo
      PROVE  BookInv' /\ KeepsNames /\ KeepsHomes
  <2>1. call' \in [Caller -> {Idle} \cup CallRecord] /\ CallsOK'
    BY <1>1, <1>4, FailGoesOn
  <2> QED
    BY <1>4, <2>1, StoresStay DEF BookInv, BookTypes, fetchAndCache
<1> QED
  BY <1>3, <1>4 DEF fetchAndCache

LEMMA FetchTargetKeeps ==
  ASSUME OneCaller, BookInv, NEW c \in Caller, fetchTarget(c)
  PROVE  BookInv' /\ KeepsNames /\ KeepsHomes
<1>1. call[c] \in CallRecord /\ AimOK(call[c]) /\ AgendaOK(call[c]) /\ call[c].pc = "target" /\ At(c, "target")
  BY CallAt DEF fetchTarget, Places
<1>2. call[c].to \in Url
  BY <1>1 DEF AimOK
<1>3. ASSUME Fail(c), memo' \in [Url -> Nat], \A u \in Url : memo'[u] <= Len(Index[u])
      PROVE  BookInv' /\ KeepsNames /\ KeepsHomes
  <2>1. call' \in [Caller -> {Idle} \cup CallRecord] /\ CallsOK'
    BY <1>1, <1>3, FailGoesOn
  <2> QED
    BY <1>3, <2>1, StoresStay DEF BookInv, fetchTarget
<1>4. ASSUME NEW n \in Read(call[c].to), memo' = [memo EXCEPT ![call[c].to] = n],
             IF assertSameRegistry(call[c].url, IndexAt(call[c].to, n))
             THEN Goto(c, [call[c] EXCEPT !.pc = "rebind", !.index = n]) ELSE Fail(c)
      PROVE  BookInv' /\ KeepsNames /\ KeepsHomes
  <2>1. n \in DOMAIN Index[call[c].to] /\ n \in Nat /\ n <= Len(Index[call[c].to])
    BY <1>2, ReadIsPublished, IndexesPublished DEF BookInv
  <2>2. memo' \in [Url -> Nat] /\ \A u \in Url : memo'[u] <= Len(Index[u])
    BY <1>2, <1>4, <2>1 DEF BookInv, BookTypes
  <2>3. CASE Fail(c)
    BY <1>3, <2>2, <2>3
  <2>4. CASE Goto(c, [call[c] EXCEPT !.pc = "rebind", !.index = n])
    <3>1. PICK r : r = [call[c] EXCEPT !.pc = "rebind", !.index = n]
      OBVIOUS
    <3>2. r \in CallRecord /\ AimOK(r) /\ AgendaOK(r) /\ r.pc = "rebind"
      BY <1>1, <2>1, <3>1 DEF CallRecord, Places, AimOK, AgendaOK
    <3>3. call' \in [Caller -> {Idle} \cup CallRecord] /\ CallsOK'
      BY <2>4, <3>1, <3>2, GoesOn DEF BookInv
    <3> QED
      BY <2>2, <3>3, StoresStay DEF BookInv, fetchTarget
  <2> QED
    BY <1>4, <2>3, <2>4
<1>5. ASSUME Fail(c), UNCHANGED memo
      PROVE  BookInv' /\ KeepsNames /\ KeepsHomes
  BY <1>3, <1>5 DEF BookInv, BookTypes
<1> QED
  BY <1>4, <1>5 DEF fetchTarget

\* A row changes what it holds for the user.
LEMMA RowsChange ==
  ASSUME BookInv, NEW url \in Url, NEW row, registries' = [registries EXCEPT ![url] = row],
         row \in SavedRegistry \cup {None},
         row # None => url # row.pendingMove /\ url \notin row.pendingAdoption
  PROVE  registries' \in [Url -> SavedRegistry \cup {None}] /\ PendingOK'
BY DEF BookInv, BookTypes, PendingOK, Saved

LEMMA RegistriesChange ==
  ASSUME OneCaller, BookInv, NEW c \in Caller, call[c].pc \notin {"rebind", "repoint"},
         UNCHANGED <<host, installed, retired, published>>,
         registries' \in [Url -> SavedRegistry \cup {None}], PendingOK',
         memo' \in [Url -> Nat], \A u \in Url : memo'[u] <= Len(Index[u]),
         call' \in [Caller -> {Idle} \cup CallRecord], CallsOK'
  PROVE  BookInv' /\ KeepsNames /\ KeepsHomes
<1>1. BookTypes'
  BY DEF BookInv, BookTypes
<1>2. KeepsNames
  BY DEF KeepsNames, Known
<1> QED
  BY <1>1, <1>2, NotRebinding DEF BookInv

LEMMA MovePending ==
  ASSUME BookInv, NEW url \in Url, NEW target \in Url \cup {None}, url # target, setPendingMove(url, target)
  PROVE  registries' \in [Url -> SavedRegistry \cup {None}] /\ PendingOK'
<1>1. CASE ~Saved(url)
  BY <1>1 DEF setPendingMove, BookInv, BookTypes, PendingOK, Saved
<1>2. CASE Saved(url)
  <2>1. PICK row : row = [registries[url] EXCEPT !.pendingMove = target]
    OBVIOUS
  <2>2. registries[url] \in SavedRegistry /\ url \notin registries[url].pendingAdoption
    BY <1>2 DEF BookInv, BookTypes, PendingOK, Saved
  <2>3. row \in SavedRegistry /\ row.pendingMove = target /\ row.pendingAdoption = registries[url].pendingAdoption
    BY <2>1, <2>2 DEF SavedRegistry
  <2>4. registries' = [registries EXCEPT ![url] = row]
    BY <1>2, <2>1 DEF setPendingMove
  <2> QED
    BY <2>2, <2>3, <2>4, RowsChange
<1> QED
  BY <1>1, <1>2

LEMMA AdoptionPending ==
  ASSUME BookInv, NEW url \in Url, NEW claims \in SUBSET Url, url \notin claims, setPendingAdoption(url, claims)
  PROVE  registries' \in [Url -> SavedRegistry \cup {None}] /\ PendingOK'
<1>1. CASE ~Saved(url)
  BY <1>1 DEF setPendingAdoption, BookInv, BookTypes, PendingOK, Saved
<1>2. CASE Saved(url)
  <2>1. PICK row : row = [registries[url] EXCEPT !.pendingAdoption = claims]
    OBVIOUS
  <2>2. registries[url] \in SavedRegistry /\ url # registries[url].pendingMove
    BY <1>2 DEF BookInv, BookTypes, PendingOK, Saved
  <2>3. row \in SavedRegistry /\ row.pendingMove = registries[url].pendingMove /\ row.pendingAdoption = claims
    BY <2>1, <2>2 DEF SavedRegistry
  <2>4. registries' = [registries EXCEPT ![url] = row]
    BY <1>2, <2>1 DEF setPendingAdoption
  <2> QED
    BY <2>2, <2>3, <2>4, RowsChange
<1> QED
  BY <1>1, <1>2

LEMMA HoldKeeps ==
  ASSUME OneCaller, BookInv, NEW c \in Caller, hold(c)
  PROVE  BookInv' /\ KeepsNames /\ KeepsHomes
<1>1. call[c] \in CallRecord /\ AimOK(call[c]) /\ AgendaOK(call[c]) /\ call[c].pc = "hold"
  BY CallAt DEF hold, Places
<1>2. registries' \in [Url -> SavedRegistry \cup {None}] /\ PendingOK'
  BY <1>1, MovePending DEF hold, AimOK
<1>3. PICK r : r = [call[c] EXCEPT !.pc = IF call[c].op = "checkUpdates" THEN "check" ELSE "act"]
  OBVIOUS
<1>4. r \in CallRecord /\ AimOK(r) /\ AgendaOK(r) /\ r.pc \in {"check", "act"}
  BY <1>1, <1>3 DEF CallRecord, Places, AimOK, AgendaOK
<1>5. call' \in [Caller -> {Idle} \cup CallRecord] /\ CallsOK'
  BY <1>3, <1>4, GoesOn DEF hold, BookInv
<1> QED
  BY <1>1, <1>2, <1>5, RegistriesChange DEF hold, BookInv, BookTypes

LEMMA ReboundKeeps ==
  ASSUME OneCaller, BookInv, NEW c \in Caller, rebound(c)
  PROVE  BookInv' /\ KeepsNames /\ KeepsHomes
<1>1. call[c] \in CallRecord /\ AimOK(call[c]) /\ AgendaOK(call[c]) /\ call[c].pc = "rebound"
  BY CallAt DEF rebound, Places
<1>2. call[c].op \in Ops \ {"uninstall"}
  BY <1>1 DEF AimOK, CallRecord
<1>3. PICK r : /\ r = (CASE call[c].op = "confirmMove" -> Idle
                         [] call[c].op = "adopt" -> [call[c] EXCEPT !.pc = "adopt", !.url = call[c].to]
                         [] call[c].op = "confirmAdoption" -> [call[c] EXCEPT !.pc = "adopted", !.url = call[c].to]
                         [] OTHER -> resolveIndex([call[c] EXCEPT !.url = call[c].to]))
               /\ Goto(c, r)
  BY DEF rebound
<1>4. r # Idle => r \in CallRecord /\ AimOK(r) /\ AgendaOK(r) /\ r.pc \in {"adopt", "adopted", "act", "target", "hold"}
  <2>1. CASE call[c].op = "confirmMove"
    BY <1>3, <2>1
  <2>2. CASE call[c].op = "adopt"
    <3>1. r = [call[c] EXCEPT !.pc = "adopt", !.url = call[c].to]
      BY <1>3, <2>2
    <3> QED
      BY <1>1, <2>2, <3>1 DEF CallRecord, Places, AimOK, AgendaOK
  <2>3. CASE call[c].op = "confirmAdoption"
    <3>1. r = [call[c] EXCEPT !.pc = "adopted", !.url = call[c].to]
      BY <1>3, <2>3
    <3> QED
      BY <1>1, <2>3, <3>1 DEF CallRecord, Places, AimOK, AgendaOK
  <2>4. CASE call[c].op \in Reads
    <3>1. PICK q : q = [call[c] EXCEPT !.url = call[c].to]
      OBVIOUS
    <3>2. q \in CallRecord /\ q.op \in Reads /\ q.url \in Url /\ q.url \in q.seen /\ q.index \in DOMAIN Index[q.url]
          /\ AgendaOK(q) /\ q.pc = "rebound"
      BY <1>1, <2>4, <3>1 DEF CallRecord, AimOK, AgendaOK
    <3>3. r = resolveIndex(q)
      BY <1>3, <2>4, <3>1 DEF Reads
    <3> QED
      BY <3>2, <3>3, ResolveAims
  <2> QED
    BY <1>2, <2>1, <2>2, <2>3, <2>4 DEF Ops
<1>5. call' \in [Caller -> {Idle} \cup CallRecord] /\ CallsOK'
  BY <1>3, <1>4, GoesOn DEF BookInv
<1> QED
  BY <1>5, StoresStay DEF rebound, BookInv, BookTypes

-----------------------------------------------------------------------------
(* Registries *)

LEMMA AddKeeps ==
  ASSUME OneCaller, BookInv, NEW c \in Caller, add(c)
  PROVE  BookInv' /\ KeepsNames /\ KeepsHomes
<1>1. call[c] \in CallRecord /\ AimOK(call[c]) /\ AgendaOK(call[c]) /\ call[c].pc = "act"
  BY CallAt DEF add, Places
<1>2. call[c].url \in Url /\ call[c].index \in DOMAIN Index[call[c].url]
  BY <1>1 DEF AimOK
<1>3. PICK index : index = IndexAt(call[c].url, call[c].index)
  OBVIOUS
<1>4. index.movedFrom \in SUBSET Url /\ index.key \in STRING \cup {None}
  BY <1>2, <1>3, IndexRead
<1>5. registries' \in [Url -> SavedRegistry \cup {None}] /\ PendingOK'
  <2>1. PICK row : row = Row(index)
    OBVIOUS
  <2>2. row \in SavedRegistry /\ row.pendingMove = None /\ row.pendingAdoption = {}
    BY <1>4, <2>1 DEF Row, SavedRegistry
  <2>3. call[c].url # None
    BY <1>2, NoneAssumption
  <2> QED
    BY <1>2, <1>3, <2>1, <2>2, <2>3, RowsChange DEF add
<1>6. PICK r : r = IF index.movedFrom \ {call[c].url} = {} THEN Idle
                   ELSE [call[c] EXCEPT !.pc = "adopt", !.op = "adopt", !.to = call[c].url,
                          !.todo = index.movedFrom \ {call[c].url}]
  OBVIOUS
<1>7. r # Idle => r \in CallRecord /\ r.pc = "adopt" /\ AimOK(r) /\ AgendaOK(r)
  <2> SUFFICES ASSUME r # Idle PROVE r \in CallRecord /\ r.pc = "adopt" /\ AimOK(r) /\ AgendaOK(r)
    OBVIOUS
  <2>1. PICK todo \in SUBSET (Url \ {call[c].url}) : todo = index.movedFrom \ {call[c].url}
    BY <1>4
  <2>2. r = [call[c] EXCEPT !.pc = "adopt", !.op = "adopt", !.to = call[c].url, !.todo = todo]
    BY <1>6, <2>1
  <2>3. r \in CallRecord /\ r.pc = "adopt" /\ r.op = "adopt" /\ r.to = call[c].url /\ r.todo = todo /\ r.index = call[c].index
        /\ r.claims = call[c].claims
    BY <1>1, <1>2, <2>2 DEF CallRecord, Places, Ops
  <2>4. call[c].claims = {}
    BY <1>1 DEF AgendaOK, add
  <2> QED
    BY <1>2, <2>3, <2>4 DEF AimOK, AgendaOK, Reads
<1>8. call' \in [Caller -> {Idle} \cup CallRecord] /\ CallsOK'
  BY <1>3, <1>6, <1>7, GoesOn DEF add, BookInv
<1> QED
  BY <1>1, <1>5, <1>8, RegistriesChange DEF add, BookInv, BookTypes

LEMMA AdoptKeeps ==
  ASSUME OneCaller, BookInv, NEW c \in Caller, adoptPredecessors(c)
  PROVE  BookInv' /\ KeepsNames /\ KeepsHomes
<1>1. call[c] \in CallRecord /\ AimOK(call[c]) /\ AgendaOK(call[c]) /\ call[c].pc = "adopt" /\ call[c].op = "adopt"
  BY CallAt DEF adoptPredecessors, Places, AimOK
<1>2. /\ call[c].to \in Url /\ call[c].index \in DOMAIN Index[call[c].to]
      /\ call[c].todo \subseteq Url \ {call[c].to} /\ call[c].claims \subseteq Url \ {call[c].to}
  BY <1>1 DEF AimOK, AgendaOK
<1>3. ASSUME NEW u \in call[c].todo, UNCHANGED registries,
             NEW r \in {[call[c] EXCEPT !.todo = @ \ {u}],
                        [call[c] EXCEPT !.todo = @ \ {u}, !.pc = "rebind", !.url = u],
                        [call[c] EXCEPT !.todo = @ \ {u}, !.claims = @ \cup {u}]},
             Goto(c, r)
      PROVE  BookInv' /\ KeepsNames /\ KeepsHomes
  <2>1. u \in Url /\ u # call[c].to
    BY <1>2
  <2>2. r \in CallRecord /\ r.pc \in {"adopt", "rebind"} /\ r.op = "adopt" /\ r.to = call[c].to /\ r.index = call[c].index
        /\ r.todo \subseteq Url \ {r.to} /\ r.claims \subseteq Url \ {r.to} /\ (r.pc = "rebind" => r.url = u)
    <3>1. PICK todo \in SUBSET (Url \ {call[c].to}) : todo = call[c].todo \ {u}
      BY <1>2
    <3>2. CASE r = [call[c] EXCEPT !.todo = todo]
      BY <1>1, <1>2, <3>2 DEF CallRecord
    <3>3. CASE r = [call[c] EXCEPT !.todo = todo, !.pc = "rebind", !.url = u]
      BY <1>1, <1>2, <2>1, <3>3 DEF CallRecord, Places
    <3>4. CASE r = [call[c] EXCEPT !.todo = todo, !.claims = @ \cup {u}]
      <4>1. PICK claims \in SUBSET (Url \ {call[c].to}) : claims = call[c].claims \cup {u}
        BY <1>2, <2>1
      <4>2. r = [call[c] EXCEPT !.todo = todo, !.claims = claims]
        BY <3>4, <4>1
      <4> QED
        BY <1>1, <4>2 DEF CallRecord
    <3> QED
      BY <1>3, <3>1, <3>2, <3>3, <3>4
  <2>3. AimOK(r) /\ AgendaOK(r)
    BY <1>2, <2>1, <2>2 DEF AimOK, AgendaOK, Reads
  <2>4. call' \in [Caller -> {Idle} \cup CallRecord] /\ CallsOK'
    BY <1>3, <2>2, <2>3, GoesOn DEF BookInv
  <2> QED
    BY <1>3, <2>4, StoresStay DEF adoptPredecessors, stores, BookInv, BookTypes
<1>4. ASSUME setPendingAdoption(call[c].to, call[c].claims), Return(c)
      PROVE  BookInv' /\ KeepsNames /\ KeepsHomes
  <2>1. registries' \in [Url -> SavedRegistry \cup {None}] /\ PendingOK'
    BY <1>2, <1>4, AdoptionPending
  <2>2. call' \in [Caller -> {Idle} \cup CallRecord] /\ CallsOK'
    BY <1>4, GoesOn DEF BookInv, Return
  <2> QED
    BY <1>1, <2>1, <2>2, RegistriesChange DEF adoptPredecessors, BookInv, BookTypes
<1>5. \/ call[c].todo = {} /\ setPendingAdoption(call[c].to, call[c].claims) /\ Return(c)
      \/ \E u \in call[c].todo :
           /\ UNCHANGED registries
           /\ \E r \in {[call[c] EXCEPT !.todo = @ \ {u}],
                        [call[c] EXCEPT !.todo = @ \ {u}, !.pc = "rebind", !.url = u],
                        [call[c] EXCEPT !.todo = @ \ {u}, !.claims = @ \cup {u}]} : Goto(c, r)
  BY DEF adoptPredecessors
<1> QED
  BY <1>3, <1>4, <1>5

LEMMA AdoptedKeeps ==
  ASSUME OneCaller, BookInv, NEW c \in Caller, adopted(c)
  PROVE  BookInv' /\ KeepsNames /\ KeepsHomes
<1>1. call[c] \in CallRecord /\ AimOK(call[c]) /\ AgendaOK(call[c]) /\ call[c].pc = "adopted"
  BY CallAt DEF adopted, Places
<1>2. registries' \in [Url -> SavedRegistry \cup {None}] /\ PendingOK'
  BY <1>1, AdoptionPending DEF adopted, AimOK, AgendaOK
<1>3. call' \in [Caller -> {Idle} \cup CallRecord] /\ CallsOK'
  BY GoesOn DEF BookInv, adopted, Return
<1> QED
  BY <1>1, <1>2, <1>3, RegistriesChange DEF adopted, BookInv, BookTypes

LEMMA IdleCall == ASSUME NEW c \in Caller, call[c] = Idle PROVE call[c].pc = "idle"
BY DEF Idle

LEMMA RemoveKeeps ==
  ASSUME OneCaller, BookInv, NEW c \in Caller, NEW url \in Url, remove(c, url)
  PROVE  BookInv' /\ KeepsNames /\ KeepsHomes
<1>1. call[c] = Idle /\ call[c].pc = "idle" /\ UNCHANGED call
  BY IdleCall DEF remove
<1>2. registries' \in [Url -> SavedRegistry \cup {None}] /\ PendingOK'
  BY RowsChange DEF remove
<1>3. memo' \in [Url -> Nat] /\ \A u \in Url : memo'[u] <= Len(Index[u])
  BY IndexesPublished DEF remove, BookInv, BookTypes
<1>4. call' \in [Caller -> {Idle} \cup CallRecord] /\ CallsOK'
  BY <1>1 DEF BookInv, BookTypes, CallsOK, OneCaller
<1> QED
  BY <1>1, <1>2, <1>3, <1>4, RegistriesChange DEF remove

LEMMA DismissKeeps ==
  ASSUME OneCaller, BookInv, NEW c \in Caller, NEW url \in Url, dismissMove(c, url)
  PROVE  BookInv' /\ KeepsNames /\ KeepsHomes
<1>1. call[c] = Idle /\ call[c].pc = "idle" /\ UNCHANGED call
  BY IdleCall DEF dismissMove
<1>2. registries' \in [Url -> SavedRegistry \cup {None}] /\ PendingOK'
  BY MovePending, NoneAssumption DEF dismissMove
<1>3. call' \in [Caller -> {Idle} \cup CallRecord] /\ CallsOK'
  BY <1>1 DEF BookInv, BookTypes, CallsOK, OneCaller
<1> QED
  BY <1>1, <1>2, <1>3, RegistriesChange DEF dismissMove, BookInv, BookTypes

LEMMA NewCall ==
  ASSUME NEW op \in Ops, NEW url \in Url \cup {None}, NEW b \in Item \cup {None}
  PROVE  /\ Call(op, url, b) \in CallRecord /\ Call(op, url, b).pc = "fetch" /\ Call(op, url, b).op = op
         /\ Call(op, url, b).url = url /\ Call(op, url, b).b = b /\ Call(op, url, b).seen = {url}
         /\ Call(op, url, b).todo = {} /\ Call(op, url, b).claims = {}
BY DEF Call, CallRecord, Places

LEMMA ConfirmMoveKeeps ==
  ASSUME OneCaller, BookInv, NEW c \in Caller, NEW url \in Url, confirmMove(c, url)
  PROVE  BookInv' /\ KeepsNames /\ KeepsHomes
<1>1. PICK t \in Url : t = registries[url].pendingMove /\ t # url
  BY DEF confirmMove, BookInv, BookTypes, PendingOK, Saved, SavedRegistry
<1>2. PICK q \in CallRecord : q = Call("confirmMove", url, None) /\ q.op = "confirmMove" /\ q.url = url
  BY NewCall, SMTT(30) DEF Ops
<1>3. PICK r : r = [q EXCEPT !.pc = "target", !.to = t]
  OBVIOUS
<1>4. r \in CallRecord /\ r.pc = "target" /\ r.op = "confirmMove" /\ r.url = url /\ r.to = t
  BY <1>2, <1>3 DEF CallRecord, Places
<1>5. AimOK(r) /\ AgendaOK(r)
  BY <1>1, <1>4 DEF AimOK, AgendaOK, Reads
<1>6. Goto(c, r)
  BY <1>1, <1>2, <1>3 DEF confirmMove
<1>7. call' \in [Caller -> {Idle} \cup CallRecord] /\ CallsOK'
  BY <1>4, <1>5, <1>6, GoesOn DEF BookInv
<1> QED
  BY <1>7, StoresStay DEF confirmMove, BookInv, BookTypes

LEMMA ConfirmAdoptionKeeps ==
  ASSUME OneCaller, BookInv, NEW c \in Caller, NEW url \in Url, confirmAdoption(c, url)
  PROVE  BookInv' /\ KeepsNames /\ KeepsHomes
<1>1. PICK old \in registries[url].pendingAdoption :
        Goto(c, [Call("confirmAdoption", old, None) EXCEPT !.pc = "target", !.to = url,
                  !.claims = registries[url].pendingAdoption \ {old}])
  BY DEF confirmAdoption
<1>2. registries[url].pendingAdoption \in SUBSET Url /\ old \in Url /\ old # url /\ url \notin registries[url].pendingAdoption
  BY <1>1 DEF confirmAdoption, BookInv, BookTypes, PendingOK, Saved, SavedRegistry
<1>3. PICK claims \in SUBSET (Url \ {url}) : claims = registries[url].pendingAdoption \ {old}
  BY <1>2
<1>4. PICK q \in CallRecord : q = Call("confirmAdoption", old, None) /\ q.op = "confirmAdoption" /\ q.url = old
  BY <1>2, NewCall, SMTT(30) DEF Ops
<1>5. PICK r : r = [q EXCEPT !.pc = "target", !.to = url, !.claims = claims]
  OBVIOUS
<1>6. r \in CallRecord /\ r.pc = "target" /\ r.op = "confirmAdoption" /\ r.url = old /\ r.to = url /\ r.claims = claims
  BY <1>4, <1>5 DEF CallRecord, Places
<1>7. AimOK(r) /\ AgendaOK(r)
  BY <1>2, <1>6 DEF AimOK, AgendaOK, Reads
<1>8. call' \in [Caller -> {Idle} \cup CallRecord] /\ CallsOK'
  BY <1>1, <1>3, <1>4, <1>5, <1>6, <1>7, GoesOn DEF BookInv
<1> QED
  BY <1>8, StoresStay DEF confirmAdoption, BookInv, BookTypes

-----------------------------------------------------------------------------
(* Installs *)

LEMMA InstallsChange ==
  ASSUME OneCaller, BookInv, NEW c \in Caller, call[c].pc \notin {"rebind", "repoint"},
         UNCHANGED <<host, registries, published, memo>>,
         installed' \in [Item -> InstalledRecord \cup {None}], retired' \in [Item -> Url \cup {None}],
         call' \in [Caller -> {Idle} \cup CallRecord], CallsOK', KeepsNames
  PROVE  BookInv' /\ KeepsNames /\ KeepsHomes
<1>1. BookTypes' /\ PendingOK'
  BY DEF BookInv, BookTypes, PendingOK, Saved
<1> QED
  BY <1>1, NotRebinding DEF BookInv

LEMMA BeginKeeps ==
  ASSUME OneCaller, BookInv, NEW c \in Caller, begin(c)
  PROVE  BookInv' /\ KeepsNames /\ KeepsHomes
<1>1. ASSUME NEW op \in {"add", "install"}, NEW u \in Url, NEW b \in Item \cup {None}, op = "install" => b \in Item,
             Goto(c, Call(op, u, b))
      PROVE  call' \in [Caller -> {Idle} \cup CallRecord] /\ CallsOK'
  <2>1. PICK r \in CallRecord : r = Call(op, u, b) /\ r.pc = "fetch" /\ r.op = op /\ r.url = u /\ r.b = b /\ r.seen = {u}
                                /\ r.todo = {} /\ r.claims = {}
    BY NewCall, SMTT(30) DEF Ops, Reads
  <2>2. AimOK(r) /\ AgendaOK(r)
    BY <1>1, <2>1 DEF AimOK, AgendaOK, Reads
  <2> QED
    BY <1>1, <2>1, <2>2, GoesOn DEF BookInv
<1>2. CASE \E u \in Url : Goto(c, Call("add", u, None)) /\ UNCHANGED memo
  <2>1. call' \in [Caller -> {Idle} \cup CallRecord] /\ CallsOK'
    BY <1>1, <1>2
  <2> QED
    BY <1>2, <2>1, StoresStay DEF begin, BookInv, BookTypes
<1>3. CASE \E u \in Url, b \in Item : Saved(u) /\ Goto(c, Call("install", u, b)) /\ UNCHANGED memo
  <2>1. call' \in [Caller -> {Idle} \cup CallRecord] /\ CallsOK'
    BY <1>1, <1>3
  <2> QED
    BY <1>3, <2>1, StoresStay DEF begin, BookInv, BookTypes
<1>4. ASSUME NEW b \in Item, installed[b] # None, Goto(c, Call("install", installed[b].from, b)),
             memo' = IF device THEN [memo EXCEPT ![installed[b].from] = 0] ELSE memo
      PROVE  BookInv' /\ KeepsNames /\ KeepsHomes
  <2>1. installed[b].from \in Url
    BY <1>4 DEF BookInv, BookTypes, InstalledRecord
  <2>2. call' \in [Caller -> {Idle} \cup CallRecord] /\ CallsOK'
    BY <1>1, <1>4, <2>1
  <2>3. memo' \in [Url -> Nat] /\ \A u \in Url : memo'[u] <= Len(Index[u])
    BY <1>4, <2>1, IndexesPublished DEF BookInv, BookTypes
  <2> QED
    BY <2>2, <2>3, StoresStay DEF begin, BookInv
<1> QED
  BY <1>2, <1>3, <1>4 DEF begin

LEMMA InstallChosenKeeps ==
  ASSUME OneCaller, BookInv, NEW c \in Caller, install(c)
  PROVE  BookInv' /\ KeepsNames /\ KeepsHomes
<1>1. call[c] \in CallRecord /\ AimOK(call[c]) /\ AgendaOK(call[c]) /\ call[c].pc = "act" /\ call[c].op = "install"
  BY CallAt DEF install, Places
<1>2. PICK r : /\ Goto(c, r)
               /\ \/ r = Idle
                  \/ r = [call[c] EXCEPT !.pc = "write"] /\ IndexAt(call[c].url, call[c].index).offers[call[c].b] # None
  BY DEF install
<1>3. r # Idle => r \in CallRecord /\ r.pc = "write" /\ AimOK(r) /\ AgendaOK(r)
  BY <1>1, <1>2 DEF CallRecord, Places, AimOK, AgendaOK
<1>4. call' \in [Caller -> {Idle} \cup CallRecord] /\ CallsOK'
  BY <1>2, <1>3, GoesOn DEF BookInv
<1> QED
  BY <1>4, StoresStay DEF install, BookInv, BookTypes

LEMMA WriteKeeps ==
  ASSUME OneCaller, BookInv, NEW c \in Caller, writeInstall(c)
  PROVE  BookInv' /\ KeepsNames /\ KeepsHomes
<1>1. call[c] \in CallRecord /\ AimOK(call[c]) /\ AgendaOK(call[c]) /\ call[c].pc = "write" /\ call[c].op = "install"
  BY CallAt DEF writeInstall, Places, AgendaOK
<1>2. call[c].b \in Item /\ call[c].url \in Url /\ call[c].index \in DOMAIN Index[call[c].url]
      /\ IndexAt(call[c].url, call[c].index).offers[call[c].b] # None
  BY <1>1 DEF AimOK, AgendaOK
<1>3. Record(c) \in InstalledRecord /\ Record(c) # None
  <2>1. PICK offer \in Offer : offer = IndexAt(call[c].url, call[c].index).offers[call[c].b]
    BY <1>2, IndexRead
  <2>2. Record(c) = [from |-> call[c].url, v |-> offer.v, sha |-> offer.sha, available |-> None, discontinued |-> FALSE]
    BY <2>1 DEF Record
  <2>3. Record(c) \in InstalledRecord
    BY <1>2, <2>2 DEF InstalledRecord, Offer
  <2> QED
    BY <2>3, NoneAssumption
<1>4. ASSUME Return(c), UNCHANGED <<installed, retired>>
      PROVE  BookInv' /\ KeepsNames /\ KeepsHomes
  <2>1. call' \in [Caller -> {Idle} \cup CallRecord] /\ CallsOK'
    BY <1>4, GoesOn DEF BookInv, Return
  <2> QED
    BY <1>4, <2>1, StoresStay DEF writeInstall, BookInv, BookTypes, stores
<1>5. ASSUME addInstalled(call[c].b, Record(c)), Return(c)
      PROVE  BookInv' /\ KeepsNames /\ KeepsHomes
  <2>1. call' \in [Caller -> {Idle} \cup CallRecord] /\ CallsOK'
    BY <1>5, GoesOn DEF BookInv, Return
  <2>2. installed' \in [Item -> InstalledRecord \cup {None}] /\ retired' \in [Item -> Url \cup {None}]
    BY <1>2, <1>3, <1>5 DEF BookInv, BookTypes, addInstalled
  <2>3. KeepsNames
    BY <1>2, <1>3, <1>5 DEF BookInv, BookTypes, addInstalled, KeepsNames, Known
  <2> QED
    BY <1>1, <2>1, <2>2, <2>3, InstallsChange DEF writeInstall
<1>6. ASSUME installed' = [installed EXCEPT ![call[c].b] = Record(c)], UNCHANGED retired,
             Goto(c, [call[c] EXCEPT !.pc = "unretire"])
      PROVE  BookInv' /\ KeepsNames /\ KeepsHomes
  <2>1. PICK r : r = [call[c] EXCEPT !.pc = "unretire"]
    OBVIOUS
  <2>2. installed' \in [Item -> InstalledRecord \cup {None}] /\ retired' \in [Item -> Url \cup {None}] /\ installed'[call[c].b] # None
    BY <1>2, <1>3, <1>6 DEF BookInv, BookTypes
  <2>3. r \in CallRecord /\ r.pc = "unretire" /\ AimOK(r) /\ AgendaOK(r) /\ r.b = call[c].b
    BY <1>1, <2>1 DEF CallRecord, Places, AimOK, AgendaOK
  <2>4. WritesOK(r)'
    BY <1>2, <2>2, <2>3 DEF WritesOK
  <2>5. call' \in [Caller -> {Idle} \cup CallRecord] /\ CallsOK'
    BY <1>6, <2>1, <2>3, <2>4, GoesOn DEF BookInv
  <2>6. KeepsNames
    BY <1>2, <1>3, <1>6 DEF BookInv, BookTypes, KeepsNames, Known
  <2> QED
    BY <1>1, <2>2, <2>5, <2>6, InstallsChange DEF writeInstall
<1> QED
  BY <1>4, <1>5, <1>6 DEF writeInstall

LEMMA UnretireKeeps ==
  ASSUME OneCaller, BookInv, NEW c \in Caller, unretire(c)
  PROVE  BookInv' /\ KeepsNames /\ KeepsHomes
<1>1. call[c] \in CallRecord /\ WritesOK(call[c]) /\ call[c].pc = "unretire"
  BY CallAt DEF unretire, Places
<1>2. call' \in [Caller -> {Idle} \cup CallRecord] /\ CallsOK'
  BY GoesOn DEF unretire, BookInv, Return
<1>3. installed' \in [Item -> InstalledRecord \cup {None}] /\ retired' \in [Item -> Url \cup {None}]
  BY DEF unretire, BookInv, BookTypes
<1>4. KeepsNames
  BY <1>1 DEF unretire, WritesOK, KeepsNames, Known, BookInv, BookTypes
<1> QED
  BY <1>1, <1>2, <1>3, <1>4, InstallsChange DEF unretire

LEMMA UninstallKeeps ==
  ASSUME OneCaller, BookInv, NEW c \in Caller, NEW b \in Item, uninstall(c, b)
  PROVE  BookInv' /\ KeepsNames /\ KeepsHomes
<1>1. call[c] = Idle /\ call[c].pc = "idle" /\ installed[b] # None
  BY IdleCall DEF uninstall
<1>2. installed[b].from \in Url /\ installed[b].from # None
  BY <1>1, NoneAssumption DEF BookInv, BookTypes, InstalledRecord
<1>3. CASE ~device
  <2>1. call' \in [Caller -> {Idle} \cup CallRecord] /\ CallsOK'
    BY <1>1, <1>3 DEF uninstall, BookInv, BookTypes, CallsOK, OneCaller
  <2>2. installed' \in [Item -> InstalledRecord \cup {None}] /\ retired' \in [Item -> Url \cup {None}]
    BY <1>2, <1>3 DEF uninstall, retireInstalled, BookInv, BookTypes
  <2>3. KeepsNames
    BY <1>1, <1>2, <1>3 DEF uninstall, retireInstalled, KeepsNames, Known, BookInv, BookTypes
  <2> QED
    BY <1>1, <2>1, <2>2, <2>3, InstallsChange DEF uninstall
<1>4. CASE device
  <2>1. retired' = (IF b \in Trackers THEN retired ELSE [retired EXCEPT ![b] = installed[b].from]) /\ UNCHANGED installed
        /\ Goto(c, [Call("uninstall", None, b) EXCEPT !.pc = "drop"])
    BY <1>4 DEF uninstall
  <2>2. installed' \in [Item -> InstalledRecord \cup {None}] /\ retired' \in [Item -> Url \cup {None}]
    BY <1>2, <2>1 DEF BookInv, BookTypes
  <2>3. b \in Trackers \/ retired'[b] # None
    BY <1>2, <2>1 DEF BookInv, BookTypes
  <2>4. KeepsNames
    <3>1. \A x \in Item : retired'[x] # None \/ retired'[x] = retired[x]
      BY <1>2, <2>1 DEF BookInv, BookTypes
    <3> QED
      BY <2>1, <3>1 DEF KeepsNames, Known
  <2>5. PICK q \in CallRecord : q = Call("uninstall", None, b) /\ q.op = "uninstall" /\ q.b = b
    BY NewCall, SMTT(30) DEF Ops
  <2>6. PICK r : r = [q EXCEPT !.pc = "drop"]
    OBVIOUS
  <2>7. r \in CallRecord /\ r.pc = "drop" /\ r.op = "uninstall" /\ r.b = b
    BY <2>5, <2>6 DEF CallRecord, Places
  <2>8. AimOK(r) /\ AgendaOK(r) /\ WritesOK(r)'
    BY <2>3, <2>7 DEF AimOK, AgendaOK, WritesOK, Reads
  <2>9. call' \in [Caller -> {Idle} \cup CallRecord] /\ CallsOK'
    BY <2>1, <2>5, <2>6, <2>7, <2>8, GoesOn DEF BookInv
  <2> QED
    BY <1>1, <2>2, <2>4, <2>9, InstallsChange DEF uninstall
<1> QED
  BY <1>3, <1>4

LEMMA DropKeeps ==
  ASSUME OneCaller, BookInv, NEW c \in Caller, drop(c)
  PROVE  BookInv' /\ KeepsNames /\ KeepsHomes
<1>1. call[c] \in CallRecord /\ WritesOK(call[c]) /\ call[c].pc = "drop"
  BY CallAt DEF drop, Places
<1>2. call' \in [Caller -> {Idle} \cup CallRecord] /\ CallsOK'
  BY GoesOn DEF drop, BookInv, Return
<1>3. installed' \in [Item -> InstalledRecord \cup {None}] /\ retired' \in [Item -> Url \cup {None}]
  BY DEF drop, BookInv, BookTypes
<1>4. KeepsNames
  BY <1>1 DEF drop, WritesOK, KeepsNames, Known, BookInv, BookTypes
<1> QED
  BY <1>1, <1>2, <1>3, <1>4, InstallsChange DEF drop

LEMMA CheckKeeps ==
  ASSUME OneCaller, BookInv, NEW c \in Caller, checkUpdates(c)
  PROVE  BookInv' /\ KeepsNames /\ KeepsHomes
<1>1. ASSUME NEW r \in CallRecord \cup {Idle}, Goto(c, r), r # Idle => AimOK(r) /\ AgendaOK(r) /\ r.pc \in {"check", "fetch"}
      PROVE  BookInv' /\ KeepsNames /\ KeepsHomes
  <2>1. call' \in [Caller -> {Idle} \cup CallRecord] /\ CallsOK'
    BY <1>1, GoesOn DEF BookInv
  <2> QED
    BY <2>1, StoresStay DEF checkUpdates, BookInv, BookTypes
<1>2. CASE call[c] = Idle
  <2>1. PICK kind \in {Trackers, Item \ Trackers} :
          Goto(c, [Call("checkUpdates", None, None) EXCEPT !.pc = "check",
                    !.todo = {<<b, installed[b]>> : b \in {x \in kind : installed[x] # None}}])
    BY <1>2 DEF checkUpdates, At, Idle
  <2>2. {<<b, installed[b]>> : b \in {x \in kind : installed[x] # None}} \in SUBSET Records
    BY TrackersAreItems DEF Records, BookInv, BookTypes
  <2>3. PICK todo \in SUBSET Records : todo = {<<b, installed[b]>> : b \in {x \in kind : installed[x] # None}}
    BY <2>2
  <2>4. PICK q \in CallRecord : q = Call("checkUpdates", None, None) /\ q.op = "checkUpdates"
    BY NewCall, SMTT(30) DEF Ops, Reads
  <2>5. PICK r : r = [q EXCEPT !.pc = "check", !.todo = todo]
    OBVIOUS
  <2>6. r \in CallRecord /\ r.pc = "check" /\ r.op = "checkUpdates" /\ r.todo = todo
    BY <2>4, <2>5 DEF CallRecord, Places
  <2>7. AimOK(r) /\ AgendaOK(r)
    BY <2>6 DEF AimOK, AgendaOK
  <2> QED
    BY <1>1, <2>1, <2>3, <2>4, <2>5, <2>6, <2>7
<1>3. CASE call[c] # Idle
  <2>1. At(c, "check") /\ call[c] \in CallRecord /\ call[c].op = "checkUpdates" /\ call[c].todo \in SUBSET Records
    <3>1. At(c, "check")
      BY <1>3 DEF checkUpdates
    <3> QED
      BY <3>1, CallAt DEF Places, AgendaOK
  <2>2. CASE call[c].todo = {}
    <3>1. Goto(c, Idle)
      BY <1>3, <2>2 DEF checkUpdates, Return
    <3> QED
      BY <1>1, <3>1
  <2>3. CASE call[c].todo # {}
    <3>1. PICK t \in call[c].todo :
            Goto(c, [Call("checkUpdates", t[2].from, t[1]) EXCEPT !.rec = t[2], !.todo = call[c].todo \ {t}])
      BY <1>3, <2>3 DEF checkUpdates
    <3>2. t[1] \in Item /\ t[2] \in InstalledRecord /\ t[2].from \in Url
      BY <2>1 DEF Records, InstalledRecord
    <3>3. PICK todo \in SUBSET Records : todo = call[c].todo \ {t}
      BY <2>1
    <3>4. PICK q \in CallRecord : q = Call("checkUpdates", t[2].from, t[1]) /\ q.pc = "fetch" /\ q.op = "checkUpdates"
                                  /\ q.url = t[2].from /\ q.b = t[1] /\ q.seen = {t[2].from}
      BY <3>2, NewCall, SMTT(30) DEF Ops, Reads
    <3>5. PICK r : r = [q EXCEPT !.rec = t[2], !.todo = todo]
      OBVIOUS
    <3>6. r \in CallRecord /\ r.pc = "fetch" /\ r.op = "checkUpdates" /\ r.url = t[2].from /\ r.b = t[1] /\ r.seen = {t[2].from}
          /\ r.rec = t[2] /\ r.todo = todo
      BY <3>2, <3>4, <3>5 DEF CallRecord
    <3>7. AimOK(r) /\ AgendaOK(r)
      BY <3>2, <3>6 DEF AimOK, AgendaOK, Reads
    <3> QED
      BY <1>1, <3>1, <3>3, <3>4, <3>5, <3>6, <3>7
  <2> QED
    BY <2>2, <2>3
<1> QED
  BY <1>2, <1>3

LEMMA AnnotateKeeps ==
  ASSUME OneCaller, BookInv, NEW c \in Caller, annotate(c)
  PROVE  BookInv' /\ KeepsNames /\ KeepsHomes
<1>1. call[c] \in CallRecord /\ AimOK(call[c]) /\ AgendaOK(call[c]) /\ call[c].pc = "act" /\ call[c].op = "checkUpdates"
  BY CallAt DEF annotate, Places
<1>2. /\ call[c].b \in Item /\ call[c].rec \in InstalledRecord /\ call[c].url \in Url
      /\ call[c].index \in DOMAIN Index[call[c].url]
  BY <1>1 DEF AimOK, AgendaOK
<1>3. PICK rec : rec = Annotated(call[c].rec, IndexAt(call[c].url, call[c].index).offers[call[c].b])
  OBVIOUS
<1>4. rec \in InstalledRecord
  <2>1. PICK offer \in Offer \cup {None} : offer = IndexAt(call[c].url, call[c].index).offers[call[c].b]
    BY <1>2, IndexRead
  <2>2. offer # None => offer.v \in Nat /\ offer.sha \in Nat
    BY <2>1 DEF Offer
  <2>3. \/ offer # None /\ rec = [call[c].rec EXCEPT !.sha = offer.sha, !.available = None, !.discontinued = FALSE]
        \/ \E a \in Nat \cup {None}, d \in BOOLEAN : rec = [call[c].rec EXCEPT !.available = a, !.discontinued = d]
    BY <1>3, <2>1, <2>2 DEF Annotated
  <2> QED
    BY <1>2, <2>2, <2>3 DEF InstalledRecord
<1>5. installed' = installed \/ installed' = [installed EXCEPT ![call[c].b] = rec]
  BY <1>3 DEF annotate
<1>6. installed' \in [Item -> InstalledRecord \cup {None}] /\ retired' \in [Item -> Url \cup {None}]
  BY <1>2, <1>4, <1>5 DEF annotate, BookInv, BookTypes
<1>7. KeepsNames
  BY <1>2, <1>4, <1>5, NoneAssumption DEF annotate, KeepsNames, Known, BookInv, BookTypes
<1>8. PICK r : r = [call[c] EXCEPT !.pc = "check"]
  OBVIOUS
<1>9. r \in CallRecord /\ r.pc = "check" /\ AimOK(r) /\ AgendaOK(r)
  BY <1>1, <1>8 DEF CallRecord, Places, AimOK, AgendaOK
<1>10. call' \in [Caller -> {Idle} \cup CallRecord] /\ CallsOK'
  BY <1>8, <1>9, GoesOn DEF annotate, BookInv
<1> QED
  BY <1>1, <1>6, <1>7, <1>10, InstallsChange DEF annotate

-----------------------------------------------------------------------------
(* A registry moves *)

\* What is installed from where, after a rebind of the whole.
LEMMA ServerRebindKeeps ==
  ASSUME OneCaller, BookInv, NEW c \in Caller, rebindServer(c)
  PROVE  BookInv' /\ KeepsNames /\ KeepsHomes
<1>1. call[c] \in CallRecord /\ AimOK(call[c]) /\ AgendaOK(call[c]) /\ call[c].pc = "rebind"
  BY CallAt DEF rebindServer, Places
<1>2. PICK old \in Url, new \in Url : old = call[c].url /\ new = call[c].to /\ old # new
  BY <1>1 DEF AimOK
<1>3. PICK r : r = [call[c] EXCEPT !.pc = "rebound"]
  OBVIOUS
<1>4. r \in CallRecord /\ r.pc = "rebound" /\ AimOK(r) /\ AgendaOK(r)
  BY <1>1, <1>3 DEF CallRecord, Places, AimOK, AgendaOK
<1>5. call' \in [Caller -> {Idle} \cup CallRecord] /\ CallsOK'
  BY <1>3, <1>4, GoesOn DEF rebindServer, BookInv
<1>6. CASE ~Saved(old)
  <2>1. UNCHANGED stores
    BY <1>2, <1>6 DEF rebindServer, rebindRegistry
  <2> QED
    BY <1>5, <2>1, StoresStay DEF rebindServer, BookInv, BookTypes
<1>7. CASE Saved(old)
  <2>1. PICK row : row = Moved(registries[old])
    OBVIOUS
  <2>2. row \in SavedRegistry /\ row.pendingMove = None /\ row.pendingAdoption = {}
    BY <1>7, <2>1 DEF Moved, SavedRegistry, Saved, BookInv, BookTypes
  <2>3. /\ registries' = [u \in Url |-> IF u = new THEN row ELSE IF u = old THEN None ELSE registries[u]]
        /\ installed' = [b \in Item |-> IF b \in From(old) THEN [installed[b] EXCEPT !.from = new] ELSE installed[b]]
        /\ retired' = [b \in Item |-> IF retired[b] = old THEN new ELSE retired[b]]
        /\ UNCHANGED <<host, published, memo>>
    BY <1>2, <1>7, <2>1 DEF rebindServer, rebindRegistry
  <2>4. registries' \in [Url -> SavedRegistry \cup {None}] /\ PendingOK'
    BY <1>2, <2>2, <2>3, NoneAssumption DEF BookInv, BookTypes, PendingOK, Saved
  <2>5. \A b \in Item : /\ b \in From(old) => installed'[b] \in InstalledRecord /\ installed'[b] # None /\ installed'[b].from = new
                        /\ b \notin From(old) => installed'[b] = installed[b]
    <3> SUFFICES ASSUME NEW b \in Item, b \in From(old)
                 PROVE  installed'[b] \in InstalledRecord /\ installed'[b] # None /\ installed'[b].from = new
      BY <2>3
    <3>1. installed[b] \in InstalledRecord
      BY DEF From, BookInv, BookTypes
    <3>2. PICK rec : rec = [installed[b] EXCEPT !.from = new]
      OBVIOUS
    <3>3. rec \in InstalledRecord /\ rec.from = new
      BY <3>1, <3>2 DEF InstalledRecord
    <3> QED
      BY <2>3, <3>2, <3>3, NoneAssumption
  <2>6. installed' \in [Item -> InstalledRecord \cup {None}] /\ retired' \in [Item -> Url \cup {None}]
    BY <2>3, <2>5 DEF BookInv, BookTypes
  <2>7. KeepsNames
    BY <1>2, <2>3, <2>5, NoneAssumption DEF KeepsNames, Known
  <2>8. KeepsHomes
    <3> SUFFICES ASSUME NEW b \in Item, b \in Orphaned' PROVE b \in Orphaned
      BY DEF KeepsHomes, Orphaned
    <3>1. b \notin From(old)
      <4> SUFFICES ASSUME b \in From(old) PROVE FALSE
        OBVIOUS
      <4>1. installed'[b].from = new /\ registries'[new] = row
        BY <2>3, <2>5
      <4> QED
        BY <2>2, <4>1, NoneAssumption DEF Orphaned, Saved
    <3>2. installed'[b] = installed[b] /\ installed[b] # None /\ installed[b].from # old /\ installed[b].from \in Url
      BY <2>5, <3>1 DEF From, Orphaned, BookInv, BookTypes, InstalledRecord
    <3>3. registries'[installed[b].from] = None
      BY <3>2 DEF Orphaned, Saved
    <3>4. registries[installed[b].from] = None
      BY <2>2, <2>3, <3>2, <3>3, NoneAssumption
    <3> QED
      BY <3>2, <3>4 DEF Orphaned, Saved
  <2>9. BookTypes'
    BY <1>5, <2>3, <2>4, <2>6 DEF BookInv, BookTypes
  <2> QED
    BY <1>5, <2>4, <2>7, <2>8, <2>9 DEF BookInv
<1> QED
  BY <1>6, <1>7

LEMMA RowKeeps ==
  ASSUME OneCaller, BookInv, NEW c \in Caller, rebindRow(c)
  PROVE  BookInv' /\ KeepsNames /\ KeepsHomes
<1>1. call[c] \in CallRecord /\ AimOK(call[c]) /\ AgendaOK(call[c]) /\ call[c].pc = "rebind"
  BY CallAt DEF rebindRow, Places
<1>2. PICK old \in Url, new \in Url : old = call[c].url /\ new = call[c].to /\ old # new
  BY <1>1 DEF AimOK
<1>3. CASE ~Saved(old)
  <2>1. PICK r : r = [call[c] EXCEPT !.pc = "rebound"]
    OBVIOUS
  <2>2. r \in CallRecord /\ r.pc = "rebound" /\ AimOK(r) /\ AgendaOK(r)
    BY <1>1, <2>1 DEF CallRecord, Places, AimOK, AgendaOK
  <2>3. call' \in [Caller -> {Idle} \cup CallRecord] /\ CallsOK'
    BY <1>2, <1>3, <2>1, <2>2, GoesOn DEF rebindRow, BookInv
  <2> QED
    BY <1>2, <1>3, <2>3, StoresStay DEF rebindRow, BookInv, BookTypes, stores
<1>4. CASE Saved(old)
  <2>1. PICK row : row = Moved(registries[old])
    OBVIOUS
  <2>2. row \in SavedRegistry /\ row.pendingMove = None /\ row.pendingAdoption = {}
    BY <1>4, <2>1 DEF Moved, SavedRegistry, Saved, BookInv, BookTypes
  <2>3. PICK recs : recs = {<<b, installed[b]>> : b \in From(old)}
    OBVIOUS
  <2>4. recs \in SUBSET Records /\ From(old) \subseteq {t[1] : t \in recs}
    <3>1. \A b \in From(old) : <<b, installed[b]>> \in Records
      BY DEF From, Records, BookInv, BookTypes
    <3>2. \A b \in From(old) : <<b, installed[b]>> \in recs /\ <<b, installed[b]>>[1] = b
      BY <2>3
    <3>3. From(old) \subseteq {t[1] : t \in recs}
      BY <3>2
    <3> QED
      BY <2>3, <3>1, <3>3
  <2>5. PICK r : r = [call[c] EXCEPT !.pc = "repoint", !.recs = recs]
    OBVIOUS
  <2>6. /\ registries' = [registries EXCEPT ![new] = row] /\ Goto(c, r)
        /\ UNCHANGED <<host, installed, retired, published, memo>>
    BY <1>2, <1>4, <2>1, <2>3, <2>5 DEF rebindRow
  <2>7. registries' \in [Url -> SavedRegistry \cup {None}] /\ PendingOK'
    BY <2>2, <2>6, NoneAssumption, RowsChange
  <2>8. r \in CallRecord /\ r.pc = "repoint" /\ AimOK(r) /\ AgendaOK(r) /\ r.url = old /\ r.to = new /\ r.recs = recs
    BY <1>1, <1>2, <2>4, <2>5 DEF CallRecord, Places, AimOK, AgendaOK
  <2>9. WritesOK(r)'
    <3>1. registries'[new] # None
      BY <2>2, <2>6, NoneAssumption DEF BookInv, BookTypes
    <3>2. (From(old))' = From(old)
      BY <2>6 DEF From
    <3> QED
      BY <2>4, <2>8, <3>1, <3>2 DEF WritesOK, Saved, From
  <2>10. call' \in [Caller -> {Idle} \cup CallRecord] /\ CallsOK'
    BY <2>6, <2>8, <2>9, GoesOn DEF BookInv
  <2>11. KeepsNames
    BY <2>6 DEF KeepsNames, Known
  <2>12. KeepsHomes
    BY <2>2, <2>6, NoneAssumption DEF KeepsHomes, Orphaned, Saved, BookInv, BookTypes
  <2> QED
    BY <2>6, <2>7, <2>10, <2>11, <2>12 DEF BookInv, BookTypes
<1> QED
  BY <1>3, <1>4

LEMMA RecordsKeep ==
  ASSUME OneCaller, BookInv, NEW c \in Caller, rebindRecords(c)
  PROVE  BookInv' /\ KeepsNames /\ KeepsHomes
<1>1. call[c] \in CallRecord /\ AimOK(call[c]) /\ AgendaOK(call[c]) /\ WritesOK(call[c]) /\ call[c].pc = "repoint"
  BY CallAt DEF rebindRecords, Places
<1>2. PICK old \in Url, new \in Url : old = call[c].url /\ new = call[c].to /\ old # new /\ new # None
  BY <1>1, NoneAssumption DEF AimOK
<1>3. Saved(new) /\ From(old) \subseteq {t[1] : t \in call[c].recs} /\ call[c].recs \in SUBSET Records
  BY <1>1, <1>2 DEF WritesOK, CallRecord
<1>4. ASSUME NEW rec \in call[c].recs,
             installed' = [installed EXCEPT ![rec[1]] = [rec[2] EXCEPT !.from = new]],
             Goto(c, [call[c] EXCEPT !.recs = @ \ {rec}]), UNCHANGED <<registries, retired, memo>>
      PROVE  BookInv' /\ KeepsNames /\ KeepsHomes
  <2>1. PICK b \in Item, was \in InstalledRecord : rec = <<b, was>>
    BY <1>3 DEF Records
  <2>2. PICK is : is = [was EXCEPT !.from = new]
    OBVIOUS
  <2>3. is \in InstalledRecord /\ is.from = new /\ is # None
    BY <2>2, NoneAssumption DEF InstalledRecord
  <2>4. installed' = [installed EXCEPT ![b] = is]
    BY <1>4, <2>1, <2>2
  <2>5. installed' \in [Item -> InstalledRecord \cup {None}]
    BY <2>3, <2>4 DEF BookInv, BookTypes
  <2>6. PICK recs \in SUBSET Records : recs = call[c].recs \ {rec}
    BY <1>3
  <2>7. PICK r : r = [call[c] EXCEPT !.recs = recs]
    OBVIOUS
  <2>8. r \in CallRecord /\ r.pc = "repoint" /\ AimOK(r) /\ AgendaOK(r) /\ r.url = old /\ r.to = new /\ r.recs = recs
    BY <1>1, <1>2, <2>7 DEF CallRecord, AimOK, AgendaOK
  <2>9. (From(old))' \subseteq {t[1] : t \in recs}
    <3> SUFFICES ASSUME NEW x \in Item, installed'[x] # None, installed'[x].from = old
                 PROVE  \E t \in recs : t[1] = x
      BY DEF From
    <3>1. x # b
      BY <1>2, <2>3, <2>4 DEF BookInv, BookTypes
    <3>2. x \in From(old)
      BY <2>4, <3>1 DEF From, BookInv, BookTypes
    <3>3. PICK t \in call[c].recs : t[1] = x
      BY <1>3, <3>2
    <3>4. t # rec
      BY <2>1, <3>1, <3>3
    <3> QED
      BY <2>6, <3>3, <3>4
  <2>10. WritesOK(r)'
    BY <1>3, <1>4, <2>8, <2>9 DEF WritesOK, Saved, From
  <2>11. call' \in [Caller -> {Idle} \cup CallRecord] /\ CallsOK'
    BY <1>4, <2>6, <2>7, <2>8, <2>10, GoesOn DEF BookInv
  <2>12. KeepsNames
    BY <1>4, <2>3, <2>4 DEF KeepsNames, Known, BookInv, BookTypes
  <2>13. KeepsHomes
    BY <1>3, <1>4, <2>3, <2>4 DEF KeepsHomes, Orphaned, Saved, BookInv, BookTypes
  <2>14. UNCHANGED <<host, published, memo, registries, retired>>
    BY <1>4 DEF rebindRecords
  <2>15. BookTypes' /\ PendingOK'
    BY <2>5, <2>11, <2>14 DEF BookInv, BookTypes, PendingOK, Saved
  <2> QED
    BY <2>11, <2>12, <2>13, <2>15 DEF BookInv
<1>5. ASSUME call[c].recs = {}, NEW b \in Item, retired[b] = old, retired' = [retired EXCEPT ![b] = new],
             UNCHANGED <<registries, installed, memo, call>>
      PROVE  BookInv' /\ KeepsNames /\ KeepsHomes
  <2>1. UNCHANGED <<host, published>>
    BY DEF rebindRecords
  <2>2. BookTypes' /\ PendingOK'
    BY <1>5, <2>1 DEF BookInv, BookTypes, PendingOK, Saved
  <2>3. CallsOK'
    <3> SUFFICES ASSUME NEW d \in Caller, call'[d] # Idle
                 PROVE  AimOK(call'[d]) /\ AgendaOK(call'[d]) /\ WritesOK(call[d])'
      BY DEF CallsOK
    <3>1. d = c /\ call'[d] = call[c]
      BY <1>5 DEF OneCaller
    <3>2. WritesOK(call[d])'
      BY <1>1, <1>5, <3>1 DEF WritesOK, Saved, From
    <3> QED
      BY <1>1, <3>1, <3>2
  <2>4. KeepsNames
    BY <1>2, <1>5 DEF KeepsNames, Known, BookInv, BookTypes
  <2>5. KeepsHomes
    BY <1>5 DEF KeepsHomes, Rebinding
  <2> QED
    BY <2>2, <2>3, <2>4, <2>5 DEF BookInv
<1>6. ASSUME call[c].recs = {}, registries' = [registries EXCEPT ![old] = None], memo' = [memo EXCEPT ![old] = 0],
             Goto(c, [call[c] EXCEPT !.pc = "rebound"]), UNCHANGED <<installed, retired>>
      PROVE  BookInv' /\ KeepsNames /\ KeepsHomes
  <2>1. UNCHANGED <<host, published>>
    BY DEF rebindRecords
  <2>2. PICK r : r = [call[c] EXCEPT !.pc = "rebound"]
    OBVIOUS
  <2>3. r \in CallRecord /\ r.pc = "rebound" /\ AimOK(r) /\ AgendaOK(r)
    BY <1>1, <2>2 DEF CallRecord, Places, AimOK, AgendaOK
  <2>4. call' \in [Caller -> {Idle} \cup CallRecord] /\ CallsOK'
    BY <1>6, <2>2, <2>3, GoesOn DEF BookInv
  <2>5. registries' \in [Url -> SavedRegistry \cup {None}] /\ PendingOK'
    BY <1>6, RowsChange
  <2>6. memo' \in [Url -> Nat] /\ \A u \in Url : memo'[u] <= Len(Index[u])
    BY <1>6, IndexesPublished DEF BookInv, BookTypes
  <2>7. BookTypes'
    BY <1>6, <2>1, <2>4, <2>5, <2>6 DEF BookInv, BookTypes
  <2>8. KeepsNames
    BY <1>6 DEF KeepsNames, Known
  <2>9. KeepsHomes
    <3>1. From(old) = {}
      BY <1>3, <1>6
    <3> QED
      BY <1>6, <3>1 DEF KeepsHomes, Orphaned, Saved, From, BookInv, BookTypes, InstalledRecord
  <2> QED
    BY <2>4, <2>5, <2>7, <2>8, <2>9 DEF BookInv
<1> QED
  BY <1>2, <1>4, <1>5, <1>6 DEF rebindRecords

-----------------------------------------------------------------------------
(* Any step *)

LEMMA PublishKeeps ==
  ASSUME OneCaller, BookInv, NEW u \in Url, Publish(u)
  PROVE  BookInv' /\ KeepsNames /\ KeepsHomes
<1>1. published' \in [Url -> Nat] /\ \A v \in Url : published'[v] \in DOMAIN Index[v]
  BY IndexesPublished DEF BookInv, BookTypes, Publish
<1>2. UNCHANGED <<host, registries, installed, retired, memo, call>>
  BY DEF Publish, stores
<1>3. BookTypes' /\ PendingOK'
  BY <1>1, <1>2 DEF BookInv, BookTypes, PendingOK, Saved
<1>4. CallsOK'
  BY <1>2 DEF BookInv, CallsOK, WritesOK, Saved, From
<1>5. KeepsNames /\ KeepsHomes
  BY <1>2 DEF KeepsNames, KeepsHomes, Known, Orphaned, Saved
<1> QED
  BY <1>3, <1>4, <1>5 DEF BookInv

LEMMA StopKeeps ==
  ASSUME BookInv, Stop
  PROVE  BookInv' /\ KeepsNames /\ KeepsHomes
<1>1. call' \in [Caller -> {Idle} \cup CallRecord] /\ CallsOK'
  BY DEF Stop, CallsOK
<1>2. memo' \in [Url -> Nat] /\ \A u \in Url : memo'[u] <= Len(Index[u])
  BY IndexesPublished DEF Stop
<1> QED
  BY <1>1, <1>2, StoresStay DEF Stop, BookInv

LEMMA BookStaysRight ==
  ASSUME OneCaller, BookInv, [Next]_vars
  PROVE  BookInv' /\ [KeepsNames /\ KeepsHomes]_vars
<1>1. CASE UNCHANGED vars
  <2>1. BookTypes' /\ PendingOK' /\ CallsOK'
    BY <1>1 DEF vars, stores, BookInv, BookTypes, PendingOK, CallsOK, WritesOK, Saved, From
  <2> QED
    BY <1>1, <2>1 DEF BookInv
<1>2. ASSUME NEW c \in Caller,
             \/ fetchAndCache(c) \/ fetchTarget(c) \/ hold(c) \/ Rebind(c) \/ rebound(c)
             \/ begin(c) \/ add(c) \/ adoptPredecessors(c) \/ adopted(c) \/ install(c) \/ writeInstall(c)
             \/ unretire(c) \/ drop(c) \/ checkUpdates(c) \/ annotate(c)
             \/ \E u \in Url : remove(c, u) \/ confirmMove(c, u) \/ dismissMove(c, u) \/ confirmAdoption(c, u)
             \/ \E b \in Item : uninstall(c, b)
      PROVE  BookInv' /\ KeepsNames /\ KeepsHomes
  <2>1. CASE Rebind(c)
    BY <2>1, RowKeeps, RecordsKeep, ServerRebindKeeps DEF Rebind
  <2>2. CASE fetchAndCache(c) \/ fetchTarget(c) \/ hold(c) \/ rebound(c)
    BY <2>2, FetchKeeps, FetchTargetKeeps, HoldKeeps, ReboundKeeps
  <2>3. CASE begin(c) \/ install(c) \/ writeInstall(c) \/ unretire(c) \/ drop(c) \/ checkUpdates(c) \/ annotate(c)
    BY <2>3, BeginKeeps, InstallChosenKeeps, WriteKeeps, UnretireKeeps, DropKeeps, CheckKeeps, AnnotateKeeps
  <2>4. CASE add(c) \/ adoptPredecessors(c) \/ adopted(c)
    BY <2>4, AddKeeps, AdoptKeeps, AdoptedKeeps
  <2>5. CASE \E u \in Url : remove(c, u) \/ confirmMove(c, u) \/ dismissMove(c, u) \/ confirmAdoption(c, u)
    BY <2>5, RemoveKeeps, ConfirmMoveKeeps, DismissKeeps, ConfirmAdoptionKeeps
  <2>6. CASE \E b \in Item : uninstall(c, b)
    BY <2>6, UninstallKeeps
  <2> QED
    BY <1>2, <2>1, <2>2, <2>3, <2>4, <2>5, <2>6
<1>3. CASE Next
  BY <1>2, <1>3, PublishKeeps, StopKeeps DEF Next
<1> QED
  BY <1>1, <1>3

\* Wherever a call is cut, a registry's move leaves no install with a registry that is not in the list, and
\* a bridge that was installed can still be named (rebind, uninstall, install), as long as one call runs
\* at a time.
THEOREM TheBookIsKept ==
  ASSUME OneCaller
  PROVE  Spec => BookKept
<1>1. Init => BookInv
  BY BookStartsRight
<1>2. BookInv /\ [Next]_vars => BookInv' /\ [KeepsNames /\ KeepsHomes]_vars
  BY BookStaysRight
<1>3. [KeepsNames /\ KeepsHomes]_vars => [Rebinding => Orphaned' \subseteq Orphaned]_vars
  BY DEF KeepsHomes
<1>4. [KeepsNames /\ KeepsHomes]_vars => [\A b \in Item \ Trackers : Known(b) => Known(b)']_vars
  BY DEF KeepsNames
<1> QED
  BY <1>1, <1>2, <1>3, <1>4, PTL DEF Spec, BookKept, MoveStrandsNothing, StillNamed
====
