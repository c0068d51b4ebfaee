------------------------------ MODULE SyncCrdt ------------------------------
(***************************************************************************)
(* The merge every device runs (crdt.ts).  An envelope is one version of   *)
(* one record.  The code has four kinds; "set" is merged exactly as        *)
(* "register" is (the later stamp wins, membership in place of a value),   *)
(* so the model has three.  Of a read position it keeps `read` and         *)
(* `lastPage`: `pageCount` is joined as `lastPage` is, and the chapter     *)
(* number and language are what crdt.ts:83 takes them to be, the same on   *)
(* both sides.                                                             *)
(***************************************************************************)
EXTENDS HybridClock

CONSTANTS Value,   \* what a register or an event may hold
          Absent   \* no record; neither a member of Value nor a position

Position == [read : BOOLEAN, lastPage : Nat]

ASSUME AbsentAssumption == Absent \notin Value \cup Position

Unread == [read |-> FALSE, lastPage |-> 0]

Register == [kind : {"register"}, hlc : Stamp, value : Value \cup {Absent}]
Event    == [kind : {"event"},    hlc : Stamp, value : Value \cup {Absent}]
Progress == [kind : {"progress"}, hlc : Stamp, reset : Stamp, value : Position]

Envelope == Register \cup Event \cup Progress

IsLive(env) == env.kind = "progress" \/ env.value # Absent

\* Mutant: the change that arrives last wins.
MergeArrival(a, b) == b

MergeRegister(a, b) == IF Earlier(a.hlc, b.hlc) THEN b ELSE a

\* Mutant: a removal is a version like another.
MergeLatest(a, b) == IF Earlier(a.hlc, b.hlc) THEN b ELSE a

(***************************************************************************)
(* A removal is final whatever its stamp; of two removals the later is     *)
(* kept, of two sightings the earlier.                                     *)
(***************************************************************************)
MergeEvent(a, b) ==
  IF IsLive(a) # IsLive(b)
  THEN IF IsLive(a) THEN b ELSE a
  ELSE IF IsLive(a)
  THEN IF Earlier(b.hlc, a.hlc) THEN b ELSE a
  ELSE IF Earlier(a.hlc, b.hlc) THEN b ELSE a

\* Mutant: the page is the one that arrives.
MovedTo(p, q) == [read |-> p.read \/ q.read, lastPage |-> q.lastPage]

Further(p, q) == [read     |-> p.read \/ q.read,
                  lastPage |-> Larger(p.lastPage, q.lastPage)]

(***************************************************************************)
(* Positions join within a reset epoch; a newer epoch replaces the older.  *)
(***************************************************************************)
MergeProgress(a, b) ==
  [kind  |-> "progress",
   hlc   |-> Later(a.hlc, b.hlc),
   reset |-> Later(a.reset, b.reset),
   value |-> IF a.reset = b.reset THEN Further(a.value, b.value)
             ELSE IF Earlier(b.reset, a.reset) THEN a.value ELSE b.value]

MergeEnvelope(a, b) ==
  IF a.kind = "register" THEN MergeRegister(a, b)
  ELSE IF a.kind = "event" THEN MergeEvent(a, b)
  ELSE MergeProgress(a, b)

(***************************************************************************)
(* Whether merging `incoming` into a local position changes what a store   *)
(* holds: its epoch or its position, not its stamp alone.                  *)
(***************************************************************************)
ProgressChanges(local, incoming) ==
  LET merged == MergeProgress(local, incoming)
  IN  merged.reset # local.reset \/ merged.value # local.value
=============================================================================
