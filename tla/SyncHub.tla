------------------------------- MODULE SyncHub -------------------------------
(***************************************************************************)
(* The desktop's rendezvous: the change log in memory (log.ts), made       *)
(* durable by one append-only file per device (sync-segment-store.ts) and  *)
(* served to devices (hub.ts).                                             *)
(*                                                                         *)
(* Pushes run one at a time, in the order they arrived: `queue` is the     *)
(* promise chain hub.ts calls its lock, and its head is the push running.  *)
(* A push checks the log, appends a line and syncs it, and only then puts  *)
(* the segment in the log.  The process may stop at any step, and then the *)
(* line being appended may be in the file whole, in part or not at all.    *)
(*                                                                         *)
(* A segment's records are one `body`.  Requests are any a device could    *)
(* send: late ones, early ones, and other content under a number already   *)
(* used, as an install restored from a backup sends.                       *)
(***************************************************************************)
EXTENDS Integers, Sequences, FiniteSets

CONSTANTS
  Device,
  Body,          \* what a segment's records may be
  Torn,          \* a line that does not parse; no member of Body
  MaxSeq,        \* bound: the numbers devices give their segments
  MaxQueue,      \* bound: pushes waiting at the hub
  MaxCrashes     \* bound: times the process stops

ASSUME TornAssumption == Torn \notin Body
ASSUME HubBoundAssumption ==
  MaxSeq \in Nat /\ MaxQueue \in Nat /\ MaxCrashes \in Nat

VARIABLES
  file,     \* device -> the lines of its file
  half,     \* device -> does the file end in the middle of a line?
  log,      \* device -> the bodies of the segments in memory
  queue,    \* the pushes arrived and unanswered
  phase,    \* "closed", "open", or how far the push at the head has got
  acked,    \* segments acknowledged to their device
  served,   \* segments given to a reader
  crashes

vars == <<file, half, log, queue, phase, acked, served, crashes>>

Line == [seq : 1..MaxSeq, body : Body] \cup {[seq |-> 0, body |-> Torn]}
TornLine == [seq |-> 0, body |-> Torn]
Segment == [device : Device, seq : 1..MaxSeq, body : Body]

(***************************************************************************)
(* The longest prefix of a file whose lines each parse as the device's     *)
(* next segment.                                                           *)
(***************************************************************************)
CleanLength(lines) ==
  CHOOSE n \in 0..Len(lines) :
    /\ \A i \in 1..n : lines[i].seq = i
    /\ n < Len(lines) => lines[n + 1].seq # n + 1

Clean(lines) == SubSeq(lines, 1, CleanLength(lines))

Bodies(lines) == [i \in 1..Len(lines) |-> lines[i].body]

Init ==
  /\ file = [d \in Device |-> <<>>]
  /\ half = [d \in Device |-> FALSE]
  /\ log = [d \in Device |-> <<>>]
  /\ queue = <<>>
  /\ phase = "closed"
  /\ acked = {} /\ served = {}
  /\ crashes = 0

-----------------------------------------------------------------------------
\* Loading keeps each file's clean prefix and rewrites a file that has more.
Open ==
  /\ phase = "closed"
  /\ file' = [d \in Device |-> Clean(file[d])]
  /\ half' = [d \in Device |-> FALSE]
  /\ log' = [d \in Device |-> Bodies(Clean(file[d]))]
  /\ phase' = "open"
  /\ UNCHANGED <<queue, acked, served, crashes>>

Unclean(d) == half[d] \/ CleanLength(file[d]) < Len(file[d])

Push(segment) ==
  /\ phase # "closed"
  /\ Len(queue) < MaxQueue
  /\ queue' = Append(queue, segment)
  /\ UNCHANGED <<file, half, log, phase, acked, served, crashes>>

Current == Head(queue)
Logged == Len(log[Current.device])

\* Mutant: a number already used is a duplicate whatever it carries.
DuplicateByNumber == Current.seq <= Logged

Duplicate == Current.seq <= Logged /\ log[Current.device][Current.seq] = Current.body
Extends == Current.seq = Logged + 1

\* The device never heard back the first time.
AckAgain ==
  /\ phase = "open" /\ queue # <<>>
  /\ Duplicate
  /\ acked' = acked \cup {Current}
  /\ queue' = Tail(queue)
  /\ UNCHANGED <<file, half, log, phase, served, crashes>>

\* A number used for other content, or one past a gap.
Refuse ==
  /\ phase = "open" /\ queue # <<>>
  /\ ~Duplicate /\ ~Extends
  /\ queue' = Tail(queue)
  /\ UNCHANGED <<file, half, log, phase, acked, served, crashes>>

\* A line appended to a half-written one becomes part of it.
Appended(d, line) ==
  IF half[d] THEN [file[d] EXCEPT ![Len(file[d])] = TornLine]
             ELSE Append(file[d], line)

CurrentLine == [seq |-> Current.seq, body |-> Current.body]

Write ==
  /\ phase = "open" /\ queue # <<>>
  /\ Extends
  /\ file' = [file EXCEPT ![Current.device] = Appended(Current.device, CurrentLine)]
  /\ half' = [half EXCEPT ![Current.device] = FALSE]
  /\ phase' = "written"
  /\ UNCHANGED <<log, queue, acked, served, crashes>>

\* datasync returned: a crash can no longer take the line.
Sync ==
  /\ phase = "written"
  /\ phase' = "synced"
  /\ UNCHANGED <<file, half, log, queue, acked, served, crashes>>

Apply ==
  /\ phase = "synced"
  /\ log' = [log EXCEPT ![Current.device] = Append(@, Current.body)]
  /\ acked' = acked \cup {Current}
  /\ queue' = Tail(queue)
  /\ phase' = "open"
  /\ UNCHANGED <<file, half, served, crashes>>

\* A reader's whole pull, page after page, from the vector it has.
Pull(have) ==
  /\ phase # "closed"
  /\ served' = served \cup
       UNION {{[device |-> d, seq |-> i, body |-> log[d][i]] :
                 i \in (have[d] + 1)..Len(log[d])} : d \in Device}
  /\ UNCHANGED <<file, half, log, queue, phase, acked, crashes>>

\* Of a line not yet synced, a crash may leave all, part or nothing.
Crash ==
  /\ phase # "closed" /\ crashes < MaxCrashes
  /\ \/ UNCHANGED <<file, half>>
     \/ /\ phase = "written"
        /\ LET d == Current.device
               n == Len(file[d])
           IN  \/ /\ file' = [file EXCEPT ![d] = SubSeq(@, 1, n - 1)]
                  /\ UNCHANGED half
               \/ /\ file' = [file EXCEPT ![d][n] = TornLine]
                  /\ half' = [half EXCEPT ![d] = TRUE]
  /\ log' = [d \in Device |-> <<>>]
  /\ queue' = <<>>
  /\ phase' = "closed"
  /\ crashes' = crashes + 1
  /\ UNCHANGED <<acked, served>>

Vector == [Device -> 0..MaxSeq]

Next ==
  \/ Open
  \/ \E segment \in Segment : Push(segment)
  \/ AckAgain \/ Refuse
  \/ Write \/ Sync \/ Apply
  \/ \E have \in Vector : Pull(have)
  \/ Crash

Spec == Init /\ [][Next]_vars

-----------------------------------------------------------------------------
\* The log holds whole segments only, and a push is written for a request.
TypeOK ==
  /\ \A d \in Device : /\ file[d] \in Seq(Line)
                       /\ log[d] \in Seq(Body) /\ Len(log[d]) <= MaxSeq
  /\ half \in [Device -> BOOLEAN]
  /\ queue \in Seq(Segment)
  /\ phase \in {"closed", "open", "written", "synced"}
  /\ phase \in {"written", "synced"} => queue # <<>>
  /\ acked \subseteq Segment /\ served \subseteq Segment
  /\ crashes \in 0..MaxCrashes

\* What a reopening would find.
Durable == [d \in Device |-> Bodies(Clean(file[d]))]

(***************************************************************************)
(* What the hub acknowledged survives any later stop and reopening, and so *)
(* does what a reader was served: neither is ever cut off as the tail of a *)
(* damaged file (sync-segment-store.ts:5-9, hub.ts:43-44).                 *)
(***************************************************************************)
AckedKept ==
  \A s \in acked : s.seq <= Len(Durable[s.device]) /\ Durable[s.device][s.seq] = s.body

(***************************************************************************)
(* The hub implements the log it promises.  A segment is in that log from  *)
(* when a crash can no longer take its line; only what is in it is ever    *)
(* acknowledged or served, and nothing in it is ever lost or replaced.     *)
(***************************************************************************)
Settled ==
  [d \in Device |->
     IF phase = "written" /\ d = Current.device
     THEN SubSeq(Durable[d], 1, Logged)
     ELSE Durable[d]]

Promise == INSTANCE SegmentLog WITH log <- Settled, told <- acked \cup served
KeepsPromise == Promise!Spec
=============================================================================
