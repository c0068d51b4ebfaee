----------------------------- MODULE SyncEngine -----------------------------
(***************************************************************************)
(* Installs syncing through one rendezvous (engine.ts, log.ts).  A round   *)
(* pulls what the hub holds past the install's version vector, page by     *)
(* page, and merges it into the store; then it sends its unsent changes as *)
(* numbered segments.  The hub is the log SegmentLog promises.             *)
(*                                                                         *)
(* `mem` is an engine's state in memory and `saved` the snapshot its host  *)
(* last wrote, which is what an install starts from after it stops.  The   *)
(* user's writes reach the store and the engine together, under the lock   *)
(* that a page being applied holds (library.ts, `recorded`).  A device id  *)
(* is a number: install d starts as d, and an id never used before stands  *)
(* for a random one.  A key stands for a table and a record id, and its    *)
(* place among the numbers for its table's place in a segment.             *)
(***************************************************************************)
EXTENDS SyncCrdt, Sequences, FiniteSets

CONSTANTS
  Install,      \* 1..n
  Key,          \* the records that sync, in table order
  Tables,       \* the merge strategies the keys' tables may have
  Page,         \* the pages a reader can be on
  SegmentSize,  \* records in a segment, at most
  PullLimit,    \* records in a page, but for a first segment that is larger
  CrashPoints,  \* where in a round the process may stop
  LoseTouches,  \* may it stop before a change it has recorded is in a snapshot?
  BuildFaults,  \* what may fail while a segment is built: "save" its snapshot, "read" a record
  PriorProgress,\* may an install have read chapters before it first syncs?
  Frail,        \* bound: the installs that stop, fail or are restored
  MaxId,        \* bound: device ids
  MaxWrites,    \* bound: the user's writes
  MaxCrashes,   \* bound: stops
  MaxFailures,  \* bound: requests and store writes that fail
  MaxRestores   \* bound: installs put back to a backup

Kind == {"register", "event", "progress"}
Id == 1..MaxId

ASSUME EngineAssumption ==
  /\ Tables \subseteq [Key -> Kind] /\ BuildFaults \subseteq {"save", "read"}
  /\ IsFiniteSet(Install) /\ Install = 1..Cardinality(Install) /\ Install \subseteq Id
  /\ Key \subseteq Nat /\ IsFiniteSet(Key) /\ Page \subseteq Nat
  /\ SegmentSize \in Nat \ {0} /\ PullLimit \in Nat /\ MaxId \in Nat

VARIABLES
  kind,      \* key -> the merge strategy of its table; never changes
  store,     \* install -> key -> what its library holds
  mem,       \* install -> the engine's state
  saved,     \* install -> the snapshot last written; device 0 for none
  backup,    \* install -> the copies of its data kept elsewhere; one at most
  pc,        \* install -> where its round has got
  inbox,     \* install -> the records of the page still to apply
  more,      \* install -> did the hub hold more than the page?
  booted,    \* install -> has the first round since it started ended?
  log,       \* device id -> its segments at the hub
  order,     \* device ids, in the order of their first segments
  nextId,    \* the next fresh device id
  unsaved,   \* keys the user has changed since the last snapshot
  unsent,    \* keys the user has changed and the hub has yet to hear of
  own,       \* keys the user has changed here, or that were here before sync
  guarded,   \* register keys here before sync, until the first round ends
  writes, crashes, failures, restores

host == <<pc, inbox, more, booted>>
ghosts == <<unsaved, unsent, own, guarded>>
counters == <<writes, crashes, failures, restores>>
vars == <<kind, store, mem, saved, backup, host, log, order, nextId, ghosts, counters>>

\* Time passes between a backup and its restoration, and not otherwise.
wall == restores

Unstamped == [hlc |-> NoStamp, reset |-> NoStamp]

Fresh(id) ==
  [device |-> id, clock |-> NewClock(id, NoStamp), nextSeq |-> 1,
   vector |-> [i \in Id |-> 0], stamps |-> [k \in Key |-> Unstamped],
   dirty |-> {}, pending |-> <<>>, held |-> {}, adopted |-> FALSE]

ReadPosition == [read : BOOLEAN, lastPage : Page]

Holds(k) == IF kind[k] = "progress" THEN ReadPosition ELSE Value

Prior(k) == IF kind[k] = "progress" /\ ~PriorProgress THEN {Absent} ELSE Holds(k) \cup {Absent}

Present(s) == {k \in Key : s[k] # Absent}

Init ==
  /\ kind \in Tables
  /\ store \in [Install -> {s \in [Key -> UNION {Prior(k) : k \in Key}] :
                              \A k \in Key : s[k] \in Prior(k)}]
  /\ mem = [d \in Install |-> Fresh(d)]
  /\ saved = [d \in Install |-> Fresh(0)]
  /\ backup = [d \in Install |-> {}]
  /\ pc = [d \in Install |-> "idle"]
  /\ inbox = [d \in Install |-> {}]
  /\ more = [d \in Install |-> FALSE]
  /\ booted = [d \in Install |-> FALSE]
  /\ log = [i \in Id |-> <<>>]
  /\ order = <<>>
  /\ nextId = Cardinality(Install) + 1
  /\ unsaved = [d \in Install |-> {}]
  /\ unsent = [d \in Install |-> {}]
  /\ own = [d \in Install |-> Present(store[d])]
  /\ guarded = [d \in Install |-> {k \in Present(store[d]) : kind[k] = "register"}]
  /\ writes = 0 /\ crashes = 0 /\ failures = 0 /\ restores = 0

-----------------------------------------------------------------------------
\* Recording a change: a stamp now, the value read when a segment is built.
Touched(m, k, rewind) ==
  LET stamp == Send(m.clock, wall)
  IN  [m EXCEPT !.clock = stamp,
                !.stamps[k] = [hlc |-> stamp, reset |-> IF rewind THEN stamp ELSE @.reset],
                !.dirty = @ \cup {k}]

Known(m, k) == m.stamps[k] # Unstamped

Write(d, k, value, rewind) ==
  /\ pc[d] # "apply"
  /\ writes < MaxWrites
  /\ store' = [store EXCEPT ![d][k] = value]
  /\ mem' = [mem EXCEPT ![d] = Touched(@, k, rewind)]
  /\ unsaved' = [unsaved EXCEPT ![d] = @ \cup {k}]
  /\ unsent' = [unsent EXCEPT ![d] = @ \cup {k}]
  /\ own' = [own EXCEPT ![d] = @ \cup {k}]
  /\ guarded' = [guarded EXCEPT ![d] = @ \ {k}]
  /\ writes' = writes + 1
  /\ UNCHANGED <<kind, saved, backup, host, log, order, nextId, crashes, failures, restores>>

Put(d, k, v) ==
  /\ kind[k] = "register" /\ v # store[d][k]
  /\ Write(d, k, v, FALSE)

\* An event is noticed once: never again once sync has met it.
Notice(d, k, v) ==
  /\ kind[k] = "event" /\ store[d][k] = Absent /\ ~Known(mem[d], k)
  /\ Write(d, k, v, FALSE)

Dismiss(d, k) ==
  /\ kind[k] = "event" /\ store[d][k] # Absent
  /\ Write(d, k, Absent, FALSE)

Read(d, k, position) ==
  /\ kind[k] = "progress" /\ position # store[d][k]
  /\ store[d][k] # Absent => Further(store[d][k], position) = position
  /\ Write(d, k, position, FALSE)

\* Marked unread, or the progress removed.
MarkUnread(d, k, position) ==
  /\ kind[k] = "progress" /\ store[d][k] # Absent
  /\ position # Absent => store[d][k].read /\ ~position.read
  /\ Write(d, k, position, TRUE)

-----------------------------------------------------------------------------
(* A record's place at the hub: its device, its segment's number, its own in the segment. *)
Places(i, numbers) ==
  UNION {{[device |-> i, seq |-> n, nth |-> r] : r \in DOMAIN log[i][n]} : n \in numbers}

\* Mutant: a device's last segment is left out.
MissingButLast(have) == UNION {Places(i, have[i] + 1 .. Len(log[i]) - 1) : i \in Id}

Missing(have) == UNION {Places(i, have[i] + 1 .. Len(log[i])) : i \in Id}

\* The hub gives devices in the order it met them, a device's segments oldest first.
Met(i) == CHOOSE p \in DOMAIN order : order[p] = i
SegmentBefore(a, b) == IF a.device = b.device THEN a.seq < b.seq ELSE Met(a.device) < Met(b.device)
Before(a, b) == SegmentBefore(a, b) \/ (a.device = b.device /\ a.seq = b.seq /\ a.nth < b.nth)

\* Whole segments, as long as they are PullLimit records together; the first whatever its size.
Fits(missing, ref) ==
  LET upTo == {r \in missing : ~SegmentBefore(ref, r)}
  IN  Cardinality(upTo) <= PullLimit \/ \A r \in upTo : ~SegmentBefore(r, ref)

PullPage(missing) == {ref \in missing : Fits(missing, ref)}

\* A round begins, or asks for its next page.
Pull(d) ==
  /\ pc[d] \in {"idle", "pull"}
  /\ LET missing == Missing(mem[d].vector)
     IN  /\ inbox' = [inbox EXCEPT ![d] = PullPage(missing)]
         /\ more' = [more EXCEPT ![d] = inbox'[d] # missing]
  /\ pc' = [pc EXCEPT ![d] = IF inbox'[d] = {} THEN "send" ELSE "apply"]
  /\ UNCHANGED <<kind, store, mem, saved, backup, booted, log, order, nextId, ghosts, counters>>

\* Merging one record into an engine and its store.
Outcome(m, s) == [mem |-> m, store |-> s]

(***************************************************************************)
(* A copy sync has never seen is held: a delete in the history pulled was  *)
(* made without knowing of it, so it is refused and the copy sent instead. *)
(***************************************************************************)
ApplyRegister(m, s, k, env) ==
  LET held == IF ~Known(m, k) /\ s[k] # Absent THEN m.held \cup {k} ELSE m.held
  IN  IF Known(m, k) /\ ~Earlier(m.stamps[k].hlc, env.hlc)
      THEN Outcome(m, s)
      ELSE IF k \in held /\ ~IsLive(env)
      THEN Outcome(Touched([m EXCEPT !.held = held], k, FALSE), s)
      ELSE Outcome([m EXCEPT !.held = held,
                             !.stamps[k] = [hlc |-> env.hlc, reset |-> NoStamp],
                             !.dirty = @ \ {k}],
                   [s EXCEPT ![k] = env.value])

\* Mutant: an event is taken as it comes.
ApplyEventAsItComes(m, s, k, env) ==
  Outcome([m EXCEPT !.stamps[k] = [hlc |-> env.hlc, reset |-> NoStamp],
                    !.dirty = @ \ {k}],
          [s EXCEPT ![k] = env.value])

\* A key that is known and has no record was removed here, which is final.
ApplyEvent(m, s, k, env) ==
  IF IsLive(env) /\ Known(m, k) /\ (s[k] = Absent \/ ~Earlier(env.hlc, m.stamps[k].hlc))
  THEN Outcome(m, s)
  ELSE Outcome([m EXCEPT !.stamps[k] = [hlc |-> env.hlc, reset |-> NoStamp],
                         !.dirty = @ \ {k}],
               [s EXCEPT ![k] = env.value])

ToEnvelope(k, value, stamp) ==
  IF kind[k] = "progress"
  THEN [kind |-> "progress", hlc |-> stamp.hlc, reset |-> stamp.reset,
        value |-> IF value = Absent THEN Unread ELSE value]
  ELSE [kind |-> kind[k], hlc |-> stamp.hlc, value |-> value]

ApplyProgress(m, s, k, env) ==
  LET met == Known(m, k) \/ s[k] # Absent
      local == ToEnvelope(k, s[k], IF Known(m, k) THEN m.stamps[k]
                                   ELSE [hlc |-> env.hlc, reset |-> NoStamp])
      merged == IF met THEN MergeProgress(local, env) ELSE env
  IN  Outcome([m EXCEPT !.stamps[k] = [hlc |-> merged.hlc, reset |-> merged.reset]],
              IF met /\ ~ProgressChanges(local, env) THEN s
              ELSE [s EXCEPT ![k] = merged.value])

Apply(m, s, k, env) ==
  LET heard == [m EXCEPT !.clock = Recv(@, env.hlc, wall)]
  IN  IF kind[k] = "register" THEN ApplyRegister(heard, s, k, env)
      ELSE IF kind[k] = "event" THEN ApplyEvent(heard, s, k, env)
      ELSE ApplyProgress(heard, s, k, env)

\* The vector takes a segment in once its last record is in the store.
Advanced(m, ref) ==
  IF ref.nth < Len(log[ref.device][ref.seq]) THEN m
  ELSE [m EXCEPT !.vector[ref.device] = Larger(@, ref.seq)]

ApplyRecord(d) ==
  /\ pc[d] = "apply"
  /\ \E ref \in inbox[d] :
       LET record == log[ref.device][ref.seq][ref.nth]
           applied == Apply(mem[d], store[d], record.key, record.env)
       IN  /\ \A r \in inbox[d] \ {ref} : Before(ref, r)
           /\ mem' = [mem EXCEPT ![d] = Advanced(applied.mem, ref)]
           /\ store' = [store EXCEPT ![d] = applied.store]
           /\ unsent' = [unsent EXCEPT ![d] =
                IF record.key \in applied.mem.dirty THEN @ ELSE @ \ {record.key}]
           /\ inbox' = [inbox EXCEPT ![d] = @ \ {ref}]
  /\ UNCHANGED <<kind, saved, backup, pc, more, booted, log, order, nextId,
                 unsaved, own, guarded, counters>>

\* Mutant: the copies held are forgotten with the process.
PersistUnheld(d, m) ==
  /\ mem' = [mem EXCEPT ![d] = m]
  /\ saved' = [saved EXCEPT ![d] = [m EXCEPT !.held = {}]]
  /\ unsaved' = [unsaved EXCEPT ![d] = {}]

Persist(d, m) ==
  /\ mem' = [mem EXCEPT ![d] = m]
  /\ saved' = [saved EXCEPT ![d] = m]
  /\ unsaved' = [unsaved EXCEPT ![d] = {}]

\* Mutant: the vector becomes the hub's heads, not what the page held.
PersistHeads(d) ==
  /\ pc[d] = "apply" /\ inbox[d] = {}
  /\ Persist(d, [mem[d] EXCEPT !.vector = [i \in Id |-> Len(log[i])]])
  /\ pc' = [pc EXCEPT ![d] = IF more[d] THEN "pull" ELSE "send"]
  /\ UNCHANGED <<kind, store, backup, inbox, more, booted, log, order, nextId,
                 unsent, own, guarded, counters>>

PersistPage(d) ==
  /\ pc[d] = "apply" /\ inbox[d] = {}
  /\ Persist(d, mem[d])
  /\ pc' = [pc EXCEPT ![d] = IF more[d] THEN "pull" ELSE "send"]
  /\ UNCHANGED <<kind, store, backup, inbox, more, booted, log, order, nextId,
                 unsent, own, guarded, counters>>

-----------------------------------------------------------------------------
Building(d) == pc[d] = "send" /\ mem[d].pending = <<>> /\ mem[d].dirty # {}

\* The first of the unsent keys, in table order, as many as a segment holds.
NextKeys(dirty) ==
  LET taken == 1..(IF Cardinality(dirty) < SegmentSize THEN Cardinality(dirty) ELSE SegmentSize)
  IN  {keys \in [taken -> dirty] :
         /\ \A i, j \in taken : i < j => keys[i] < keys[j]
         /\ \A k \in dirty : (\E i \in taken : keys[i] = k) \/ \A i \in taken : keys[i] < k}

Built(d, keys) ==
  LET envelope(k) == ToEnvelope(k, store[d][k], mem[d].stamps[k])
  IN  [mem[d] EXCEPT !.pending = [i \in DOMAIN keys |-> [key |-> keys[i], env |-> envelope(keys[i])]],
                     !.nextSeq = @ + 1,
                     !.dirty = @ \ {keys[i] : i \in DOMAIN keys}]

\* Mutant: a segment is first saved once the hub has it.
BuildUnsaved(d) ==
  /\ Building(d)
  /\ \E keys \in NextKeys(mem[d].dirty) : mem' = [mem EXCEPT ![d] = Built(d, keys)]
  /\ UNCHANGED <<kind, store, saved, backup, host, log, order, nextId, ghosts, counters>>

\* Unsent changes become the next segment, saved before it is ever sent.
Build(d) ==
  /\ Building(d)
  /\ \E keys \in NextKeys(mem[d].dirty) : Persist(d, Built(d, keys))
  /\ UNCHANGED <<kind, store, backup, host, log, order, nextId, unsent, own, guarded, counters>>

Seq0(d) == mem[d].nextSeq - 1
Head0(d) == Len(log[mem[d].device])
Sending(d) == pc[d] = "send" /\ mem[d].pending # <<>>

\* The number was used before, for this segment or for another.
Resent(d) == Seq0(d) <= Head0(d) /\ log[mem[d].device][Seq0(d)] = mem[d].pending
Conflict(d) == Seq0(d) <= Head0(d) /\ ~Resent(d)

PendingKeys(m) == {m.pending[i].key : i \in DOMAIN m.pending}

Lands(d) ==
  /\ Sending(d)
  /\ IF Resent(d) THEN UNCHANGED <<log, order>>
     ELSE /\ Seq0(d) = Head0(d) + 1
          /\ log' = [log EXCEPT ![mem[d].device] = Append(@, mem[d].pending)]
          /\ order' = IF Head0(d) = 0 THEN Append(order, mem[d].device) ELSE order
  /\ unsent' = [unsent EXCEPT ![d] = @ \ (PendingKeys(mem[d]) \ mem[d].dirty)]

\* Mutant: an answered push also clears what was changed meanwhile.
PushClears(d) ==
  /\ Lands(d)
  /\ Persist(d, [mem[d] EXCEPT !.pending = <<>>, !.dirty = {},
                               !.vector[mem[d].device] = Seq0(d)])
  /\ UNCHANGED <<kind, store, backup, host, nextId, own, guarded, counters>>

Push(d) ==
  /\ Lands(d)
  /\ Persist(d, [mem[d] EXCEPT !.pending = <<>>, !.vector[mem[d].device] = Seq0(d)])
  /\ UNCHANGED <<kind, store, backup, host, nextId, own, guarded, counters>>

Ended(d) ==
  /\ pc' = [pc EXCEPT ![d] = "idle"]
  /\ inbox' = [inbox EXCEPT ![d] = {}]
  /\ more' = [more EXCEPT ![d] = FALSE]
  /\ booted' = [booted EXCEPT ![d] = TRUE]

Fails ==
  /\ failures < MaxFailures
  /\ failures' = failures + 1
  /\ UNCHANGED <<writes, crashes, restores>>

\* The segment arrived and the answer did not.
PushUnheard(d) ==
  /\ Lands(d)
  /\ Ended(d)
  /\ Fails
  /\ UNCHANGED <<kind, store, mem, saved, backup, nextId, unsaved, own, guarded>>

\* A request that never arrived, or a record the store failed to write. A segment whose snapshot
\* fails stays in memory; a record that is not read is no longer dirty.
RoundFails(d) ==
  /\ \/ (pc[d] \in {"pull", "apply"} \/ Sending(d)) /\ UNCHANGED mem
     \/ /\ Building(d)
        /\ \E keys \in NextKeys(mem[d].dirty) :
             \/ "save" \in BuildFaults /\ mem' = [mem EXCEPT ![d] = Built(d, keys)]
             \/ /\ "read" \in BuildFaults
                /\ \E n \in DOMAIN keys : mem' = [mem EXCEPT ![d].dirty = @ \ {keys[i] : i \in 1..n}]
  /\ Ended(d)
  /\ Fails
  /\ UNCHANGED <<kind, store, saved, backup, log, order, nextId, ghosts>>

\* Mutant: the numbers go on under the fresh id.
ContinueNumbered(d) ==
  /\ Sending(d) /\ Conflict(d) /\ nextId <= MaxId
  /\ Persist(d, [mem[d] EXCEPT !.vector[mem[d].device] = Seq0(d) - 1,
                               !.device = nextId,
                               !.clock = NewClock(nextId, @)])
  /\ nextId' = nextId + 1
  /\ UNCHANGED <<kind, store, backup, host, log, order, unsent, own, guarded, counters>>

\* This state is older than its log: its changes go on under a fresh id.
ContinueAsNew(d) ==
  /\ Sending(d) /\ Conflict(d) /\ nextId <= MaxId
  /\ Persist(d, [mem[d] EXCEPT !.vector[mem[d].device] = Seq0(d) - 1,
                               !.device = nextId,
                               !.clock = NewClock(nextId, @),
                               !.nextSeq = 2])
  /\ nextId' = nextId + 1
  /\ UNCHANGED <<kind, store, backup, host, log, order, unsent, own, guarded, counters>>

\* Nothing left to send.
Finish(d) ==
  /\ pc[d] = "send" /\ mem[d].pending = <<>> /\ mem[d].dirty = {}
  /\ IF mem[d].held = {} THEN UNCHANGED <<mem, saved, unsaved>>
     ELSE Persist(d, [mem[d] EXCEPT !.held = {}])
  /\ guarded' = [guarded EXCEPT ![d] = {}]
  /\ Ended(d)
  /\ UNCHANGED <<kind, store, backup, log, order, nextId, unsent, own, counters>>

\* After the first round the host records what sync has never seen, one after the other.
Adopted(m, strangers) ==
  LET first == Send(m.clock, wall)
      nth(n) == [first EXCEPT !.counter = @ + n]
      stamp(k) == nth(Cardinality({j \in strangers : j < k}))
  IN  [m EXCEPT !.clock = IF strangers = {} THEN @ ELSE nth(Cardinality(strangers) - 1),
                !.stamps = [k \in Key |-> IF k \in strangers THEN [hlc |-> stamp(k), reset |-> NoStamp] ELSE @[k]],
                !.dirty = @ \cup strangers,
                !.adopted = TRUE]

Adopt(d) ==
  /\ booted[d] /\ ~mem[d].adopted /\ pc[d] # "apply"
  /\ mem' = [mem EXCEPT ![d] = Adopted(@, {k \in Present(store[d]) : ~Known(@, k)})]
  /\ guarded' = [guarded EXCEPT ![d] = {}]
  /\ UNCHANGED <<kind, store, saved, backup, host, log, order, nextId,
                 unsaved, unsent, own, counters>>

-----------------------------------------------------------------------------
\* An install starts from `snapshot`, under a fresh id if it never had one.
Boots(d, snapshot) ==
  /\ IF snapshot.device # 0
     THEN /\ mem' = [mem EXCEPT ![d] = snapshot]
          /\ UNCHANGED nextId
     ELSE /\ nextId <= MaxId
          /\ mem' = [mem EXCEPT ![d] = Fresh(nextId)]
          /\ nextId' = nextId + 1
  /\ pc' = [pc EXCEPT ![d] = "idle"]
  /\ inbox' = [inbox EXCEPT ![d] = {}]
  /\ more' = [more EXCEPT ![d] = FALSE]
  /\ booted' = [booted EXCEPT ![d] = FALSE]
  /\ unsaved' = [unsaved EXCEPT ![d] = {}]

Crash(d) ==
  /\ pc[d] \in CrashPoints /\ crashes < MaxCrashes
  /\ LoseTouches \/ unsaved[d] = {}
  /\ Boots(d, saved[d])
  /\ crashes' = crashes + 1
  /\ UNCHANGED <<kind, store, saved, backup, log, order, unsent, own, guarded,
                 writes, failures, restores>>

\* A copy of the install's data, taken while it is at rest.
Backup(d) ==
  /\ restores < MaxRestores
  /\ pc[d] = "idle" /\ unsaved[d] = {} /\ saved[d].device # 0 /\ backup[d] = {}
  /\ backup' = [backup EXCEPT ![d] = {[state |-> saved[d], store |-> store[d]]}]
  /\ UNCHANGED <<kind, store, mem, saved, host, log, order, nextId, ghosts, counters>>

Restore(d) ==
  /\ restores < MaxRestores
  /\ \E b \in backup[d] :
       /\ Boots(d, b.state)
       /\ saved' = [saved EXCEPT ![d] = b.state]
       /\ store' = [store EXCEPT ![d] = b.store]
       /\ unsent' = [unsent EXCEPT ![d] = b.state.dirty \cup PendingKeys(b.state)]
  /\ guarded' = [guarded EXCEPT ![d] = {}]
  /\ restores' = restores + 1
  /\ UNCHANGED <<kind, backup, log, order, own, writes, crashes, failures>>

UserWrites(d) ==
  \E k \in Key :
    \/ \E v \in Value \cup {Absent} : Put(d, k, v)
    \/ \E v \in Value : Notice(d, k, v)
    \/ Dismiss(d, k)
    \/ \E p \in ReadPosition : Read(d, k, p)
    \/ \E p \in ReadPosition \cup {Absent} : MarkUnread(d, k, p)

Round(d) ==
  \/ Pull(d) \/ ApplyRecord(d) \/ PersistPage(d)
  \/ Build(d) \/ Push(d) \/ ContinueAsNew(d) \/ Finish(d)

Next ==
  \E d \in Install :
    \/ UserWrites(d)
    \/ Round(d) \/ Adopt(d)
    \/ /\ d \in Frail
       /\ PushUnheard(d) \/ RoundFails(d) \/ Crash(d) \/ Backup(d) \/ Restore(d)

Spec == Init /\ [][Next]_vars

(***************************************************************************)
(* Every host goes on starting rounds, a round once started goes on, and   *)
(* adoption follows the first.  An install between rounds can always pull, *)
(* so some step of its rounds is always possible, and weak fairness of     *)
(* them is that they are taken again and again.                            *)
(***************************************************************************)
Fairness ==
  \A d \in Install : []<><<Round(d)>>_vars /\ WF_vars(Adopt(d))

FairSpec == Spec /\ Fairness

-----------------------------------------------------------------------------
\* A position that is not there reads as the start of the chapter.
Shown(d, k) == IF kind[k] = "progress" /\ store[d][k] = Absent THEN Unread ELSE store[d][k]

SyncedStamps == [hlc : Stamp, reset : Stamp]

\* States are well formed, a stopped or finished round leaves no page behind,
\* and an engine's clock stamps under the id its segments are sent under.
TypeOK ==
  /\ \A d \in Install :
       /\ \A k \in Key : store[d][k] \in Holds(k) \cup {Absent, Unread}
       /\ \A m \in {mem[d], saved[d]} :
            /\ m.device \in Id \cup {0} /\ m.clock \in Stamp /\ m.clock.node = m.device
            /\ m.nextSeq \in Nat \ {0} /\ m.vector \in [Id -> Nat]
            /\ m.stamps \in [Key -> SyncedStamps]
            /\ m.dirty \subseteq Key /\ m.held \subseteq Key /\ PendingKeys(m) \subseteq Key
       /\ pc[d] \in {"idle", "pull", "apply", "send"}
       /\ pc[d] # "apply" => inbox[d] = {}
  /\ nextId \in Nat

(***************************************************************************)
(* A vector, in memory or saved, never counts a segment the hub does not   *)
(* hold: it would be skipped when the hub came to hold it.                 *)
(***************************************************************************)
VectorBounded ==
  \A d \in Install, i \in Id :
    mem[d].vector[i] <= Len(log[i]) /\ saved[d].vector[i] <= Len(log[i])

\* A position counts as taken in once a newer rewind has replaced it.
Rewound(d, k, env) ==
  \/ Earlier(env.reset, mem[d].stamps[k].reset)
  \/ \E i \in Id : \E n \in DOMAIN log[i] : \E r \in DOMAIN log[i][n] :
       log[i][n][r].key = k /\ Earlier(env.reset, log[i][n][r].env.reset)

TakenIn(d, k, env) ==
  LET stamp == saved[d].stamps[k]
  IN  IF kind[k] = "register" THEN AtMost(env.hlc, stamp.hlc)
      ELSE IF kind[k] = "event" THEN stamp # Unstamped /\ (IsLive(env) \/ store[d][k] = Absent)
      ELSE Rewound(d, k, env) \/ Further(Shown(d, k), env.value) = Shown(d, k)

(***************************************************************************)
(* A saved vector counts only what the store has taken in, so that no stop *)
(* skips a change: for every record of every segment counted, the install  *)
(* holds that version or one that beats it (engine.ts:7-8).                *)
(***************************************************************************)
NothingSkipped ==
  \A d \in Install, i \in Id :
    \A n \in 1..saved[d].vector[i] :
      \A r \in DOMAIN log[i][n] : TakenIn(d, log[i][n][r].key, log[i][n][r].env)

(***************************************************************************)
(* Without a restored backup a number is never reused for other content:   *)
(* what is sent again is what was sent, whatever was lost or stopped in    *)
(* between (engine.ts:5-7).                                                *)
(***************************************************************************)
ResendIsIdentical ==
  restores = 0 => \A d \in Install : Sending(d) => ~Conflict(d)

(***************************************************************************)
(* A device's numbers have no gap, not even those of an install put back   *)
(* to a backup: the hub never answers SeqGapError, which nothing recovers  *)
(* from (log.ts:25-35).                                                    *)
(***************************************************************************)
NumbersFollow ==
  \A d \in Install : Sending(d) => Seq0(d) <= Head0(d) + 1

(***************************************************************************)
(* A change the user made is on its way until the hub has it, or until a   *)
(* later change from elsewhere has taken its place (sync-host.ts:58-61).   *)
(***************************************************************************)
ChangesKept ==
  \A d \in Install : unsent[d] \subseteq mem[d].dirty \cup PendingKeys(mem[d])

Settled(d) ==
  /\ mem[d].adopted
  /\ mem[d].dirty = {} /\ mem[d].pending = <<>>
  /\ \A i \in Id : mem[d].vector[i] = Len(log[i])

(***************************************************************************)
(* Installs that have taken in all the hub holds and have nothing unsent   *)
(* hold the same library (crdt.ts:2-3, through every loss and retry).      *)
(***************************************************************************)
Converged ==
  \A d, e \in Install :
    Settled(d) /\ Settled(e) => \A k \in Key : Shown(d, k) = Shown(e, k)

(***************************************************************************)
(* A record here before sync outlives the history of the first pull, even  *)
(* one cut short and taken up again (engine.ts:290-295).                   *)
(***************************************************************************)
PriorCopySurvives ==
  \A d \in Install : \A k \in guarded[d] : store[d][k] # Absent

(***************************************************************************)
(* An install sends only what its user changed, or what it held before it  *)
(* first synced.                                                           *)
(***************************************************************************)
OnlyOwnChanges ==
  \A d \in Install : mem[d].dirty \cup PendingKeys(mem[d]) \subseteq own[d]

(***************************************************************************)
(* Once users stop writing, every install comes to hold all the hub holds, *)
(* with nothing unsent.                                                    *)
(***************************************************************************)
EventuallySettled == <>[](\A d \in Install : Settled(d))
=============================================================================
