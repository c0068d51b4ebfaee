---------------------------- MODULE DocumentStore ----------------------------
(***************************************************************************)
(* A document of keyed records, as the stores of each host keep it:        *)
(*                                                                         *)
(*  "doc"       a JsonDoc: loaded once, changed in memory, flushed through *)
(*              its path's queue (settings, progress, groups, the feed);   *)
(*  "shard"     a JsonDoc whose file goes when nothing is left in it       *)
(*              (collection items);                                        *)
(*  "nullable"  a JsonDoc that is null once deleted (chapter and page rows)*)
(*  "plain"     a file read and written as a whole, without a copy in      *)
(*              memory (cached details and chapter lists);                 *)
(*  "file"      a native host's storage: each call reads the file and      *)
(*              writes it again (iOS, Android);                            *)
(*  "keystore"  Android's secure storage, which deletes the file first;    *)
(*  "keychain"  iOS's secure storage, an item per key.                     *)
(*                                                                         *)
(* A record's value is the number of the call that wrote it, 0 when there  *)
(* is none. What records hold, directories, and encryption are left out.   *)
(***************************************************************************)
EXTENDS Naturals, Sequences, FiniteSets

CONSTANTS
  Key,         \* the records' keys
  Client,      \* who calls; each has one call at a time
  Style,       \* the kinds of store considered
  MaxCalls,    \* bound on calls
  MaxFaults,   \* bound on crashes, errors and damages together
  Parallel,    \* whether calls of a native store overlap
  TornWrites   \* whether the process may stop inside a native store's write

JsonDocs == {"doc", "shard", "nullable"}
Native == {"file", "keystore", "keychain"}

ASSUME StoreAssumption ==
  /\ Style \subseteq JsonDocs \cup {"plain"} \cup Native
  /\ MaxCalls \in Nat /\ MaxFaults \in Nat
  /\ Parallel \in BOOLEAN /\ TornWrites \in BOOLEAN
  /\ "load" \notin Client

VARIABLES
  style,     \* which kind of store this is
  file,      \* what is on disk: its state ("missing", "good" or "bad") and its records
  memory,    \* a JsonDoc's value: whether it is loaded, its records, whether it is null
  load,      \* a JsonDoc's load: "none", "reading" or "queued" behind the path's writes
  queue,     \* the path's tasks that have not settled, the first of them running
  writing,   \* what the running task writes, Nothing before it has begun
  pc,        \* where each client's call is
  call,      \* the call each client makes
  seen,      \* the records a native call has read
  since,     \* (history) the acknowledged version when each call was made
  versions,  \* (history) what the document has been, one version per change
  acked,     \* (history) the last version whose change was acknowledged
  excused,   \* (history) whether a damage has cost what was there
  calls, faults

storeVars == <<style, file, memory, load, queue, writing, pc, call, seen, since, versions, acked, excused, calls, faults>>

Empty == [k \in Key |-> 0]
Missing == [state |-> "missing", view |-> Empty]
Good(view) == [state |-> "good", view |-> view]
Bad == [state |-> "bad", view |-> Empty]
Nothing == [state |-> "nothing", view |-> Empty]
Unloaded == [loaded |-> FALSE, view |-> Empty, null |-> FALSE]
NoCall == [kind |-> "none", key |-> {}, number |-> 0]

StoreInit ==
  /\ style \in Style
  /\ file = Good([k \in Key |-> IF k = CHOOSE key \in Key : TRUE THEN 1 ELSE 0])
  /\ memory = Unloaded /\ load = "none" /\ queue = <<>> /\ writing = Nothing
  /\ pc = [c \in Client |-> "idle"]
  /\ call = [c \in Client |-> NoCall]
  /\ seen = [c \in Client |-> Empty]
  /\ since = [c \in Client |-> 0]
  /\ versions = <<file.view>> /\ acked = 1 /\ excused = FALSE
  /\ calls = 1 /\ faults = 0

diskVars == <<file, versions, acked, excused>>
docVars == <<memory, load, queue, writing>>

(* What a call makes of the records. A key is a singleton; a document as a whole has them all. *)
Put(view, keys, number) == [k \in Key |-> IF k \in keys THEN number ELSE view[k]]
Delete(view, keys) == Put(view, keys, 0)

Changed(view, a) == IF a.kind = "put" THEN Put(view, a.key, a.number) ELSE Delete(view, a.key)

(* A delete of what is not there writes nothing, except where a document is replaced whole. *)
Skips(view, a) == a.kind = "delete" /\ Cardinality(a.key) = 1 /\ \A k \in a.key : view[k] = 0

Kinds == IF style = "plain" THEN {"get", "put", "delete"} ELSE {"get", "put", "delete", "clear"}

Ask(c) ==
  /\ pc[c] = "idle" /\ calls < MaxCalls
  /\ calls' = calls + 1
  /\ \E kind \in Kinds, k \in Key :
       call' = [call EXCEPT ![c] =
         [kind |-> IF kind = "clear" THEN "delete" ELSE kind,
          key |-> IF style = "plain" \/ kind = "clear" THEN Key ELSE {k},
          number |-> calls']]
  /\ pc' = [pc EXCEPT ![c] = "asked"]
  /\ since' = [since EXCEPT ![c] = acked]
  /\ load' = IF style \in JsonDocs /\ ~memory.loaded /\ load = "none" THEN "reading" ELSE load
  /\ UNCHANGED <<style, memory, queue, writing, seen, diskVars, faults>>

(* A call's end: with what it read, with its change acknowledged, or with neither. *)
AnswerWith(c, view) ==
  /\ pc' = [pc EXCEPT ![c] = "answered"]
  /\ seen' = [seen EXCEPT ![c] = view]
  /\ UNCHANGED <<call, since>>

Over(callers) ==
  /\ pc' = [c \in Client |-> IF c \in callers THEN "idle" ELSE pc[c]]
  /\ call' = [c \in Client |-> IF c \in callers THEN NoCall ELSE call[c]]
  /\ seen' = [c \in Client |-> IF c \in callers THEN Empty ELSE seen[c]]
  /\ since' = [c \in Client |-> IF c \in callers THEN 0 ELSE since[c]]

Return(c) ==
  /\ pc[c] = "answered"
  /\ Over({c})
  /\ UNCHANGED <<style, diskVars, docVars, calls, faults>>

(* onPath: whatever touches a path's file waits for what was queued before it. *)
onPath(task) == queue' = Append(queue, task)
Task(kind, by, view, version) == [kind |-> kind, by |-> by, view |-> view, version |-> version]

(* JsonDoc.get: the first look at the file. One that will not parse is looked *)
(* at again behind the writes already queued, before it is moved aside.       *)
Loaded(view) ==
  /\ memory' = [loaded |-> TRUE, view |-> view, null |-> FALSE]
  /\ load' = "none"

readJsonFile ==
  /\ load = "reading"
  /\ \/ /\ file.state # "bad"
        /\ Loaded(file.view)
        /\ UNCHANGED queue
     \/ /\ file.state = "bad"
        /\ load' = "queued"
        /\ onPath(Task("check", "load", Empty, 0))
        /\ UNCHANGED memory
  /\ UNCHANGED <<style, writing, pc, call, seen, since, diskVars, calls, faults>>

(* update and transform: the value as it is after the wait is what is changed. *)
update(c) ==
  /\ memory.loaded /\ pc[c] = "asked"
  /\ LET a == call[c]
     IN \/ /\ a.kind = "get"
           /\ AnswerWith(c, memory.view)
           /\ UNCHANGED <<memory, queue, versions>>
        \/ /\ a.kind # "get" /\ Skips(memory.view, a)
           /\ Over({c})
           /\ UNCHANGED <<memory, queue, versions>>
        \/ /\ a.kind # "get" /\ ~Skips(memory.view, a)
           /\ memory' = [memory EXCEPT !.view = Changed(memory.view, a),
                                       !.null = style = "nullable" /\ a.kind = "delete" /\ a.key = Key]
           /\ versions' = Append(versions, Changed(memory.view, a))
           /\ onPath(Task("flush", c, Empty, Len(versions')))
           /\ pc' = [pc EXCEPT ![c] = "waiting"]
           /\ UNCHANGED <<call, seen, since>>
  /\ UNCHANGED <<style, file, load, writing, acked, excused, calls, faults>>

(* What a flush writes, decided when it runs. *)
encode ==
  IF memory.null \/ (style = "shard" /\ memory.view = Empty) THEN Missing ELSE Good(memory.view)

(* The path's first task: a write begins, or the second look at a bad file ends in moving it aside. *)
Begin ==
  /\ queue # <<>> /\ Head(queue).kind # "check" /\ writing = Nothing
  /\ writing' = CASE Head(queue).kind = "flush" -> encode
                  [] Head(queue).kind = "write" -> Good(Head(queue).view)
                  [] Head(queue).kind = "remove" -> Missing
  /\ UNCHANGED <<style, memory, load, queue, pc, call, seen, since, diskVars, calls, faults>>

\* Mutant: the file that could not be parsed is moved aside, whatever is there by now.
NoSecondLook ==
  /\ queue # <<>> /\ Head(queue).kind = "check"
  /\ queue' = Tail(queue)
  /\ file' = Missing
  /\ excused' = (excused \/ file.state = "bad")
  /\ \/ Head(queue).by = "load" /\ Loaded(Empty) /\ UNCHANGED <<pc, call, seen, since>>
     \/ Head(queue).by # "load" /\ AnswerWith(Head(queue).by, Empty) /\ UNCHANGED <<memory, load>>
  /\ UNCHANGED <<style, writing, versions, acked, calls, faults>>

Check ==
  /\ queue # <<>> /\ Head(queue).kind = "check"
  /\ queue' = Tail(queue)
  /\ file' = IF file.state = "bad" THEN Missing ELSE file
  /\ excused' = (excused \/ file.state = "bad")
  /\ \/ /\ Head(queue).by = "load"
        /\ Loaded(file.view)
        /\ UNCHANGED <<pc, call, seen, since>>
     \/ /\ Head(queue).by # "load"
        /\ AnswerWith(Head(queue).by, file.view)
        /\ UNCHANGED <<memory, load>>
  /\ UNCHANGED <<style, writing, versions, acked, calls, faults>>

Later(a, b) == IF a > b THEN a ELSE b

(* The rename, or the removal, and with it the caller's answer. *)
writeNow ==
  /\ writing # Nothing
  /\ file' = writing
  /\ writing' = Nothing
  /\ queue' = Tail(queue)
  /\ acked' = Later(acked, Head(queue).version)
  /\ excused' = FALSE
  /\ Over({Head(queue).by})
  /\ UNCHANGED <<style, memory, load, versions, calls, faults>>

(* An error that is not retried, or too often: the call fails, the queue goes on. *)
Settle ==
  /\ queue' = Tail(queue)
  /\ writing' = Nothing

writeFails ==
  /\ writing # Nothing
  /\ faults < MaxFaults /\ faults' = faults + 1
  /\ Settle
  /\ Over({Head(queue).by})
  /\ UNCHANGED <<style, memory, load, diskVars, calls>>

(* A file that cannot be read fails whoever waits for the load; the next call tries again. *)
readFails ==
  /\ load = "reading"
  /\ faults < MaxFaults /\ faults' = faults + 1
  /\ load' = "none"
  /\ Over({c \in Client : pc[c] = "asked"})
  /\ UNCHANGED <<style, memory, queue, writing, diskVars, calls>>

(* The cached details and chapter lists: written whole, read from the file each time. *)
putPlain(c) ==
  /\ style = "plain" /\ pc[c] = "asked" /\ call[c].kind # "get"
  /\ versions' = Append(versions, Changed(Empty, call[c]))
  /\ onPath(Task(IF call[c].kind = "put" THEN "write" ELSE "remove", c, Changed(Empty, call[c]), Len(versions')))
  /\ pc' = [pc EXCEPT ![c] = "waiting"]
  /\ UNCHANGED <<style, file, memory, load, writing, call, seen, since, acked, excused, calls, faults>>

\* Mutant: a file that cannot be parsed is a document that is not there.
ReadsBadAsEmpty(c) ==
  /\ style = "plain" /\ pc[c] = "asked" /\ call[c].kind = "get"
  /\ AnswerWith(c, file.view)
  /\ UNCHANGED <<style, memory, load, queue, writing, diskVars, calls, faults>>

getPlain(c) ==
  /\ style = "plain" /\ pc[c] = "asked" /\ call[c].kind = "get"
  /\ \/ /\ file.state # "bad"
        /\ AnswerWith(c, file.view)
        /\ UNCHANGED queue
     \/ /\ file.state = "bad"
        /\ onPath(Task("check", c, Empty, 0))
        /\ pc' = [pc EXCEPT ![c] = "waiting"]
        /\ UNCHANGED <<call, seen, since>>
  /\ UNCHANGED <<style, memory, load, writing, diskVars, calls, faults>>

(* A native store: what cannot be read is taken for empty. *)
Alone(c) == Parallel \/ \A d \in Client \ {c} : pc[d] \in {"idle", "asked", "answered"}

storageRead(c) ==
  /\ style \in {"file", "keystore"} /\ pc[c] = "asked" /\ Alone(c)
  /\ \/ /\ call[c].kind = "get"
        /\ AnswerWith(c, file.view)
     \/ /\ call[c].kind # "get"
        /\ seen' = [seen EXCEPT ![c] = file.view]
        /\ pc' = [pc EXCEPT ![c] = "read"]
        /\ UNCHANGED <<call, since>>
  /\ UNCHANGED <<style, diskVars, docVars, calls, faults>>

(* The file is emptied and filled again, or deleted and made again. *)
storageWrite(c) ==
  /\ pc[c] = "read"
  /\ file' = IF style = "file" THEN Bad ELSE Missing
  /\ pc' = [pc EXCEPT ![c] = "writing"]
  /\ UNCHANGED <<style, versions, acked, excused, docVars, call, seen, since, calls, faults>>

Acknowledge(view) ==
  /\ versions' = Append(versions, view)
  /\ acked' = Len(versions')

storageWritten(c) ==
  /\ pc[c] = "writing"
  /\ file' = Good(Changed(seen[c], call[c]))
  /\ Acknowledge(Changed(versions[Len(versions)], call[c]))
  /\ Over({c})
  /\ UNCHANGED <<style, excused, docVars, calls, faults>>

(* The keychain: an item is updated, or added when there was none to update. *)
keychainGet(c) ==
  /\ style = "keychain" /\ pc[c] = "asked" /\ call[c].kind = "get"
  /\ AnswerWith(c, file.view)
  /\ UNCHANGED <<style, diskVars, docVars, calls, faults>>

keychainSet(c) ==
  /\ style = "keychain" /\ call[c].kind = "put"
  /\ LET there == \E k \in call[c].key : file.view[k] # 0
         stored == Changed(file.view, call[c])
     IN \/ /\ pc[c] = "asked" /\ there
           /\ file' = Good(stored) /\ Acknowledge(stored)
           /\ Over({c})
        \/ /\ pc[c] = "asked" /\ ~there
           /\ pc' = [pc EXCEPT ![c] = "adding"]
           /\ UNCHANGED <<file, versions, acked, call, seen, since>>
        \/ /\ pc[c] = "adding" /\ ~there
           /\ file' = Good(stored) /\ Acknowledge(stored)
           /\ Over({c})
        \/ /\ pc[c] = "adding" /\ there
           /\ Over({c})
           /\ UNCHANGED <<file, versions, acked>>
  /\ UNCHANGED <<style, excused, docVars, calls, faults>>

keychainDelete(c) ==
  /\ style = "keychain" /\ pc[c] = "asked" /\ call[c].kind = "delete"
  /\ file' = Good(Changed(file.view, call[c]))
  /\ Acknowledge(file'.view)
  /\ Over({c})
  /\ UNCHANGED <<style, excused, docVars, calls, faults>>

(* The process stops. What is on disk is there for the next. *)
Crash ==
  /\ faults < MaxFaults /\ faults' = faults + 1
  /\ TornWrites \/ \A c \in Client : pc[c] # "writing"
  /\ memory' = Unloaded /\ load' = "none" /\ queue' = <<>> /\ writing' = Nothing
  /\ Over(Client)
  /\ UNCHANGED <<style, diskVars, calls>>

(* Something else than these stores damages the file. *)
Damage ==
  /\ faults < MaxFaults /\ faults' = faults + 1
  /\ style \notin Native /\ file.state = "good"
  /\ file' = Bad
  /\ UNCHANGED <<style, versions, acked, excused, docVars, pc, call, seen, since, calls>>

DocStep == readJsonFile \/ Begin \/ Check \/ writeNow
ClientStep(c) ==
  \/ update(c) \/ putPlain(c) \/ getPlain(c) \/ Return(c)
  \/ storageRead(c) \/ storageWrite(c) \/ storageWritten(c)
  \/ keychainGet(c) \/ keychainSet(c) \/ keychainDelete(c)

StoreNext ==
  \/ DocStep
  \/ \E c \in Client : Ask(c) \/ ClientStep(c)
  \/ writeFails \/ readFails \/ Crash \/ Damage

StoreSpec == StoreInit /\ [][StoreNext]_storeVars

(***************************************************************************)
(* Properties                                                              *)
(***************************************************************************)

Since(version) == {versions[i] : i \in version..Len(versions)}

(* What is on disk is what the document was at the last acknowledged change *)
(* or after it, through overlapping calls, failed writes and stops. Only a  *)
(* damage from outside can cost it, and while a native write is under way   *)
(* the file is its own. json-file.ts's JsonDoc and onPath; the contexts'    *)
(* storageWrite.                                                            *)
AckedKept ==
  \/ \E c \in Client : pc[c] = "writing"
  \/ file.state = "bad" /\ style \notin Native
  \/ file.state # "bad" /\ file.view \in Since(acked) \cup (IF excused THEN {Empty} ELSE {})

(* A call answers with what the document was when it was made, or later: a  *)
(* read never goes behind an acknowledged change, loads and moves aside     *)
(* included.                                                                *)
ReadsCurrent ==
  [][ \A c \in Client : pc[c] # "answered" /\ pc'[c] = "answered" =>
        seen'[c] \in Since(since[c]) \cup (IF excused' THEN {Empty} ELSE {}) ]_storeVars

(***************************************************************************)
(* Every call is answered or fails: a failed write, load or check lets the *)
(* queue go on. Fairness: the event loop runs what is due.                 *)
(***************************************************************************)
FairStoreSpec == StoreSpec /\ WF_storeVars(DocStep) /\ \A c \in Client : WF_storeVars(ClientStep(c))

EveryCallSettles == \A c \in Client : pc[c] # "idle" ~> pc[c] = "idle"
=============================================================================
