---------------------------- MODULE SyncReplicas ----------------------------
(***************************************************************************)
(* What the merge promises, without the machinery that delivers changes:   *)
(* replicas of one record, each with its own hybrid clock, writing         *)
(* locally and taking each other's changes in any order, any number of     *)
(* times.  Records merge independently of each other, so one is enough;    *)
(* `kind` says which strategy its table has.                               *)
(*                                                                         *)
(* A local write follows the wrapper that records it (library.ts): an      *)
(* event is only noticed by a replica that never met it, and a position    *)
(* is stamped as a rewind when a chapter goes from read to unread or its   *)
(* progress is removed.                                                    *)
(***************************************************************************)
EXTENDS SyncCrdt, FiniteSets

CONSTANTS
  Replica,    \* device ids
  Wall,       \* the readings a wall clock can give, in any order on any device
  Page,       \* the pages a reader can be on
  MaxWrites,  \* bound: local writes in a behaviour
  MaxCounter, \* bound: changes are taken only while the clock's counter is below it
  Backtrack   \* may a reader leave a chapter on an earlier page than it has been on?

ASSUME ReplicaAssumption == Replica \subseteq Nat
ASSUME WallAssumption ==
  /\ Wall \subseteq Nat
  /\ \A w, x \in Wall : w <= x + MaxDrift
ASSUME PageAssumption == Page \subseteq Nat
ASSUME BoundAssumption ==
  MaxWrites \in Nat /\ MaxCounter \in Nat /\ Backtrack \in BOOLEAN

Kind == {"register", "event", "progress"}

VARIABLES
  kind,     \* the record's strategy; never changes
  clock,    \* each replica's clock
  current,  \* each replica's version of the record; meaningless until it has seen one
  seen,     \* the changes each replica has made or taken
  written   \* every change made

vars == <<kind, clock, current, seen, written>>

Knows(r) == seen[r] # {}

\* An envelope of the record's kind; only a position carries a reset.
Version(hlc, reset, value) ==
  IF kind = "progress"
  THEN [kind |-> kind, hlc |-> hlc, reset |-> reset, value |-> value]
  ELSE [kind |-> kind, hlc |-> hlc, value |-> value]

\* The versions of this record there could be.
Versions == {e \in Envelope : e.kind = kind}

Blank == Version(NoStamp, NoStamp, IF kind = "progress" THEN Unread ELSE Absent)

Init ==
  /\ kind \in Kind
  /\ clock = [r \in Replica |-> NewClock(r, NoStamp)]
  /\ current = [r \in Replica |-> Blank]
  /\ seen = [r \in Replica |-> {}]
  /\ written = {}

-----------------------------------------------------------------------------
\* The stamp of a write made at wall time w, and the change it makes.
Record(r, stamp, change) ==
  /\ Cardinality(written) < MaxWrites
  /\ clock' = [clock EXCEPT ![r] = stamp]
  /\ current' = [current EXCEPT ![r] = change]
  /\ seen' = [seen EXCEPT ![r] = @ \cup {change}]
  /\ written' = written \cup {change}
  /\ UNCHANGED kind

Put(r, w, v) ==
  LET stamp == Send(clock[r], w)
  IN  /\ kind = "register"
      /\ v # current[r].value
      /\ Record(r, stamp, Version(stamp, NoStamp, v))

Notice(r, w, v) ==
  LET stamp == Send(clock[r], w)
  IN  /\ kind = "event"
      /\ ~Knows(r)
      /\ Record(r, stamp, Version(stamp, NoStamp, v))

Dismiss(r, w) ==
  LET stamp == Send(clock[r], w)
  IN  /\ kind = "event"
      /\ Knows(r) /\ IsLive(current[r])
      /\ Record(r, stamp, Version(stamp, NoStamp, Absent))

Read(r, w, position) ==
  LET stamp == Send(clock[r], w)
  IN  /\ kind = "progress"
      /\ position # current[r].value
      /\ current[r].value.read => position.read
      /\ Backtrack \/ Further(current[r].value, position) = position
      /\ Record(r, stamp, Version(stamp, current[r].reset, position))

\* Marked unread, or its progress removed: a new reset epoch.
MarkUnread(r, w, position) ==
  LET stamp == Send(clock[r], w)
  IN  /\ kind = "progress"
      /\ Knows(r)
      /\ \/ current[r].value.read /\ ~position.read
         \/ position = Unread
      /\ Record(r, stamp, Version(stamp, stamp, position))

Take(r, w, change) ==
  /\ clock[r].counter < MaxCounter
  /\ clock' = [clock EXCEPT ![r] = Recv(@, change.hlc, w)]
  /\ current' = [current EXCEPT ![r] =
                   IF Knows(r) THEN MergeEnvelope(@, change) ELSE change]
  /\ seen' = [seen EXCEPT ![r] = @ \cup {change}]
  /\ UNCHANGED <<kind, written>>

ReadPosition == [read : BOOLEAN, lastPage : Page]

Next ==
  \E r \in Replica, w \in Wall :
    \/ \E v \in Value \cup {Absent} : Put(r, w, v)
    \/ \E v \in Value : Notice(r, w, v)
    \/ Dismiss(r, w)
    \/ \E p \in ReadPosition : Read(r, w, p)
    \/ \E p \in ReadPosition \cup {Unread} : MarkUnread(r, w, p)
    \/ \E change \in written : Take(r, w, change)

Spec == Init /\ [][Next]_vars

-----------------------------------------------------------------------------
\* Every replica holds a version of the record's kind, made by some write.
TypeOK ==
  /\ kind \in Kind
  /\ clock \in [Replica -> Stamp]
  /\ current \in [Replica -> Versions]
  /\ seen \in [Replica -> SUBSET written]
  /\ written \subseteq Versions

(***************************************************************************)
(* Replicas that have seen the same changes hold the same record, whatever *)
(* order the changes came in (crdt.ts:2-3).                                *)
(***************************************************************************)
Agreement ==
  \A r, q \in Replica :
    Knows(r) /\ seen[r] = seen[q] => current[r].value = current[q].value

(***************************************************************************)
(* A stamp names one change, and a write is stamped after everything its   *)
(* replica had seen, which is what makes "the later stamp wins" mean "the  *)
(* write that knew more wins" (hlc.ts:55).                                 *)
(***************************************************************************)
StampNamesChange ==
  \A a, b \in written : a.hlc = b.hlc => a = b

WrittenAfterSeen ==
  [][\A r \in Replica : \A change \in written' \ written :
       change \in seen'[r] => \A old \in seen[r] : Earlier(old.hlc, change.hlc)]_vars

(***************************************************************************)
(* An event some replica has seen dismissed is never shown by it again,    *)
(* not even by one that noticed it later (crdt.ts:13-14).                  *)
(***************************************************************************)
DismissedStaysDismissed ==
  kind = "event" =>
    \A r \in Replica :
      (\E change \in seen[r] : ~IsLive(change)) => ~IsLive(current[r])

(***************************************************************************)
(* Taking a change never moves a reader back, unless it carries a newer    *)
(* deliberate rewind (crdt.ts:7-9).                                        *)
(***************************************************************************)
NeverRewound ==
  [][kind = "progress" =>
       \A r \in Replica :
         written' = written /\ Knows(r) =>
           \/ Earlier(current[r].reset, current'[r].reset)
           \/ /\ current[r].reset = current'[r].reset
              /\ current[r].value.read => current'[r].value.read
              /\ current[r].value.lastPage <= current'[r].value.lastPage]_vars
=============================================================================
