------------------------- MODULE SyncReplicas_proofs -------------------------
(***************************************************************************)
(* Proofs about the clock, the merge and SyncReplicas, for any number of   *)
(* replicas, any values and pages, and any wall clocks within MaxDrift of  *)
(* each other.                                                             *)
(***************************************************************************)
EXTENDS SyncReplicas, TLAPS

-----------------------------------------------------------------------------
(* Stamps are totally ordered. *)

LEMMA NoStampType == NoStamp \in Stamp
BY DEF NoStamp, Stamp

LEMMA EarlierIrreflexive ==
  ASSUME NEW a \in Stamp
  PROVE  ~Earlier(a, a)
BY DEF Earlier, Stamp

LEMMA EarlierTransitive ==
  ASSUME NEW a \in Stamp, NEW b \in Stamp, NEW c \in Stamp,
         Earlier(a, b), Earlier(b, c)
  PROVE  Earlier(a, c)
BY DEF Earlier, Stamp

LEMMA EarlierTotal ==
  ASSUME NEW a \in Stamp, NEW b \in Stamp
  PROVE  Earlier(a, b) \/ Earlier(b, a) \/ a = b
<1>1. a.physical \in Nat /\ a.counter \in Nat /\ a.node \in Nat
  BY DEF Stamp
<1>2. b.physical \in Nat /\ b.counter \in Nat /\ b.node \in Nat
  BY DEF Stamp
<1>3. (a.physical = b.physical /\ a.counter = b.counter /\ a.node = b.node) => a = b
  BY DEF Stamp
<1> QED
  BY <1>1, <1>2, <1>3 DEF Earlier

LEMMA EarlierAsymmetric ==
  ASSUME NEW a \in Stamp, NEW b \in Stamp, Earlier(a, b)
  PROVE  ~Earlier(b, a)
BY EarlierIrreflexive, EarlierTransitive

-----------------------------------------------------------------------------
(* What a clock has reached: `last` is at or past the stamp, whoever's it is. *)

Reached(stamp, last) ==
  \/ stamp.physical < last.physical
  \/ stamp.physical = last.physical /\ stamp.counter <= last.counter

LEMMA ReachedTransitive ==
  ASSUME NEW a \in Stamp, NEW b \in Stamp, NEW c \in Stamp,
         Reached(a, b), Reached(b, c)
  PROVE  Reached(a, c)
BY DEF Reached, Stamp

LEMMA SendType ==
  ASSUME NEW last \in Stamp, NEW wall \in Nat
  PROVE  /\ Send(last, wall) \in Stamp
         /\ Send(last, wall).node = last.node
         /\ Send(last, wall).physical \in {wall, last.physical}
BY DEF Send, At, Stamp

LEMMA RecvType ==
  ASSUME NEW last \in Stamp, NEW remote \in Stamp, NEW wall \in Nat
  PROVE  /\ Recv(last, remote, wall) \in Stamp
         /\ Recv(last, remote, wall).node = last.node
         /\ Recv(last, remote, wall).physical \in {wall, last.physical, remote.physical}
BY MaxDriftAssumption DEF Recv, At, Larger, Followed, Stamp

(* A stamp issued is after everything its clock had reached (hlc.ts:55). *)
LEMMA SendAdvances ==
  ASSUME NEW last \in Stamp, NEW wall \in Nat, NEW stamp \in Stamp,
         Reached(stamp, last)
  PROVE  Earlier(stamp, Send(last, wall)) /\ Reached(stamp, Send(last, wall))
BY DEF Send, At, Reached, Earlier, Stamp

LEMMA ReachedSelf ==
  ASSUME NEW stamp \in Stamp
  PROVE  Reached(stamp, stamp) /\ Reached(NoStamp, stamp)
BY DEF Reached, Stamp, NoStamp

LEMMA RecvReaches ==
  ASSUME NEW last \in Stamp, NEW remote \in Stamp, NEW wall \in Nat
  PROVE  /\ Reached(last, Recv(last, remote, wall))
         /\ Followed(remote, wall) => Reached(remote, Recv(last, remote, wall))
BY MaxDriftAssumption DEF Recv, At, Larger, Followed, Reached, Stamp
-----------------------------------------------------------------------------
(* Envelopes. *)

LEMMA VersionsType ==
  ASSUME NEW e \in Versions
  PROVE  /\ e.hlc \in Stamp /\ e.kind = kind
         /\ kind = "register" => e \in Register
         /\ kind = "event" => e \in Event
         /\ kind = "progress" => e \in Progress
BY DEF Versions, Envelope, Register, Event, Progress

LEMMA VersionType ==
  ASSUME kind \in Kind, NEW hlc \in Stamp, NEW reset \in Stamp, NEW value,
         IF kind = "progress" THEN value \in Position ELSE value \in Value \cup {Absent}
  PROVE  /\ Version(hlc, reset, value) \in Versions
         /\ Version(hlc, reset, value).hlc = hlc
         /\ Version(hlc, reset, value).value = value
         /\ kind = "progress" => Version(hlc, reset, value).reset = reset
BY DEF Version, Versions, Envelope, Register, Event, Progress, Kind

LEMMA FurtherType ==
  ASSUME NEW p \in Position, NEW q \in Position
  PROVE  /\ Further(p, q) \in Position
         /\ Further(p, q).read <=> (p.read \/ q.read)
         /\ Further(p, q).lastPage \in {p.lastPage, q.lastPage}
         /\ p.lastPage <= Further(p, q).lastPage
         /\ q.lastPage <= Further(p, q).lastPage
BY DEF Further, Position, Larger

LEMMA LaterIsEither ==
  ASSUME NEW a \in Stamp, NEW b \in Stamp
  PROVE  /\ Later(a, b) \in {a, b}
         /\ AtMost(a, Later(a, b)) /\ AtMost(b, Later(a, b))
BY EarlierTotal DEF Later, AtMost

LEMMA AtMostOrder ==
  ASSUME NEW a \in Stamp, NEW b \in Stamp
  PROVE  /\ AtMost(a, a)
         /\ AtMost(a, b) /\ AtMost(b, a) => a = b
         /\ \A c \in Stamp : AtMost(a, b) /\ AtMost(b, c) => AtMost(a, c)
         /\ ~Earlier(a, b) => AtMost(b, a)
BY EarlierTotal, EarlierAsymmetric, EarlierTransitive DEF AtMost

LEMMA MergeType ==
  ASSUME kind \in Kind, NEW a \in Versions, NEW b \in Versions
  PROVE  MergeEnvelope(a, b) \in Versions
<1>1. CASE kind = "register"
  BY <1>1, VersionsType DEF MergeEnvelope, MergeRegister
<1>2. CASE kind = "event"
  BY <1>2, VersionsType DEF MergeEnvelope, MergeEvent
<1>3. CASE kind = "progress"
  <2>1. a \in Progress /\ b \in Progress
    BY <1>3, VersionsType
  <2>2. /\ a.hlc \in Stamp /\ a.reset \in Stamp /\ a.value \in Position
        /\ b.hlc \in Stamp /\ b.reset \in Stamp /\ b.value \in Position
    BY <2>1 DEF Progress
  <2>3. Later(a.hlc, b.hlc) \in Stamp /\ Later(a.reset, b.reset) \in Stamp
    BY <2>2 DEF Later
  <2>4. (IF a.reset = b.reset THEN Further(a.value, b.value)
         ELSE IF Earlier(b.reset, a.reset) THEN a.value ELSE b.value) \in Position
    BY <2>2, FurtherType
  <2>5. MergeProgress(a, b) \in Progress
    BY <2>3, <2>4 DEF MergeProgress, Progress
  <2> QED
    BY <1>3, <2>5, VersionsType DEF MergeEnvelope, Versions, Envelope, Progress
<1> QED
  BY <1>1, <1>2, <1>3 DEF Kind
-----------------------------------------------------------------------------
(* Clocks and stamps: a clock has reached every stamp its replica has      *)
(* seen, so what it issues next is later than all of them.                 *)

FromWall(physical) == physical = 0 \/ physical \in Wall

ClockInv ==
  /\ \A r \in Replica : clock[r].node = r /\ FromWall(clock[r].physical)
  /\ \A c \in written : /\ FromWall(c.hlc.physical)
                        /\ c.hlc.node \in Replica
                        /\ c \in seen[c.hlc.node]
  /\ \A r \in Replica : \A c \in seen[r] : Reached(c.hlc, clock[r])

LEMMA EveryStampFollowed ==
  ASSUME NEW stamp \in Stamp, FromWall(stamp.physical), NEW w \in Wall
  PROVE  Followed(stamp, w)
BY WallAssumption, MaxDriftAssumption DEF FromWall, Followed, Stamp

(* A local write of any kind. *)
LEMMA RecordStep ==
  ASSUME TypeOK, ClockInv, StampNamesChange,
         NEW r \in Replica, NEW w \in Wall, NEW change \in Versions,
         change.hlc = Send(clock[r], w),
         Record(r, Send(clock[r], w), change)
  PROVE  /\ TypeOK' /\ ClockInv' /\ StampNamesChange'
         /\ \A old \in seen[r] : Earlier(old.hlc, change.hlc)
         /\ change \notin written
<1> DEFINE stamp == Send(clock[r], w)
<1>1. /\ clock[r] \in Stamp /\ w \in Nat /\ r \in Nat
      /\ kind \in Kind
  BY WallAssumption, ReplicaAssumption DEF TypeOK
<1>2. /\ stamp \in Stamp /\ stamp.node = r /\ FromWall(stamp.physical)
  <2>1. clock[r].node = r /\ FromWall(clock[r].physical)
    BY DEF ClockInv
  <2>2. /\ stamp \in Stamp /\ stamp.node = clock[r].node
        /\ stamp.physical \in {w, clock[r].physical}
    BY <1>1, SendType
  <2> QED
    BY <2>1, <2>2 DEF FromWall
<1>3. \A c \in written : c.hlc \in Stamp
  BY VersionsType DEF TypeOK
<1>4. \A old \in seen[r] : Earlier(old.hlc, stamp) /\ Reached(old.hlc, stamp)
  BY <1>1, <1>3, SendAdvances DEF ClockInv, TypeOK
<1>5. \A c \in written : c.hlc # stamp
  <2> SUFFICES ASSUME NEW c \in written, c.hlc = stamp PROVE FALSE
    OBVIOUS
  <2>1. c \in seen[r]
    BY <1>2 DEF ClockInv
  <2> QED
    BY <2>1, <1>2, <1>4, EarlierIrreflexive
<1>6. change \notin written
  BY <1>5
<1>7. TypeOK'
  <2>1. kind' = kind /\ Versions' = Versions
    BY DEF Record, Versions
  <2>2. clock' \in [Replica -> Stamp]
    BY <1>2 DEF Record, TypeOK
  <2>3. current' \in [Replica -> Versions]
    BY DEF Record, TypeOK
  <2>4. seen' \in [Replica -> SUBSET written'] /\ written' \subseteq Versions
    BY DEF Record, TypeOK
  <2> QED
    BY <1>1, <2>1, <2>2, <2>3, <2>4 DEF TypeOK
<1>8. /\ clock' = [clock EXCEPT ![r] = stamp]
      /\ seen' = [seen EXCEPT ![r] = @ \cup {change}]
      /\ written' = written \cup {change}
  BY DEF Record
<1>9. /\ seen'[r] = seen[r] \cup {change}
      /\ \A q \in Replica : q # r => seen'[q] = seen[q]
      /\ clock'[r] = stamp
      /\ \A q \in Replica : q # r => clock'[q] = clock[q]
  BY <1>8 DEF TypeOK
<1>10. ClockInv'
  <2>1. \A q \in Replica : clock'[q].node = q /\ FromWall(clock'[q].physical)
    BY <1>2, <1>9 DEF ClockInv
  <2>2. \A c \in written' : /\ FromWall(c.hlc.physical)
                           /\ c.hlc.node \in Replica
                           /\ c \in seen'[c.hlc.node]
    BY <1>2, <1>8, <1>9 DEF ClockInv
  <2>3. \A q \in Replica : \A c \in seen'[q] : Reached(c.hlc, clock'[q])
    BY <1>2, <1>4, <1>9, ReachedSelf DEF ClockInv
  <2> QED
    BY <2>1, <2>2, <2>3 DEF ClockInv, FromWall
<1>11. StampNamesChange'
  BY <1>5, <1>8 DEF StampNamesChange
<1> QED
  BY <1>4, <1>6, <1>7, <1>10, <1>11

(* A change taken. *)
LEMMA TakeStep ==
  ASSUME TypeOK, ClockInv, StampNamesChange,
         NEW r \in Replica, NEW w \in Wall, NEW change \in written,
         Take(r, w, change)
  PROVE  TypeOK' /\ ClockInv' /\ StampNamesChange'
<1> DEFINE next == Recv(clock[r], change.hlc, w)
<1>1. /\ clock[r] \in Stamp /\ w \in Nat /\ r \in Nat
      /\ kind \in Kind /\ change \in Versions
  BY WallAssumption, ReplicaAssumption DEF TypeOK
<1>2. \A c \in written : c.hlc \in Stamp
  BY VersionsType DEF TypeOK
<1>3. /\ next \in Stamp /\ next.node = r /\ FromWall(next.physical)
  <2>1. clock[r].node = r /\ FromWall(clock[r].physical) /\ FromWall(change.hlc.physical)
    BY DEF ClockInv
  <2>2. /\ next \in Stamp /\ next.node = clock[r].node
        /\ next.physical \in {w, clock[r].physical, change.hlc.physical}
    BY <1>1, <1>2, RecvType
  <2> QED
    BY <2>1, <2>2 DEF FromWall
<1>4. Followed(change.hlc, w)
  BY <1>2, EveryStampFollowed DEF ClockInv
<1>5. Reached(clock[r], next) /\ Reached(change.hlc, next)
  BY <1>1, <1>2, <1>4, RecvReaches
<1>6. \A old \in seen[r] \cup {change} : Reached(old.hlc, next)
  BY <1>1, <1>2, <1>3, <1>5, ReachedTransitive DEF ClockInv, TypeOK
<1>7. /\ clock' = [clock EXCEPT ![r] = next]
      /\ seen' = [seen EXCEPT ![r] = @ \cup {change}]
      /\ written' = written /\ kind' = kind /\ Versions' = Versions
  BY DEF Take, Versions
<1>8. /\ seen'[r] = seen[r] \cup {change}
      /\ \A q \in Replica : q # r => seen'[q] = seen[q]
      /\ clock'[r] = next
      /\ \A q \in Replica : q # r => clock'[q] = clock[q]
  BY <1>7 DEF TypeOK
<1>9. TypeOK'
  <2>1. MergeEnvelope(current[r], change) \in Versions
    BY <1>1, MergeType DEF TypeOK
  <2>2. current' \in [Replica -> Versions]
    BY <1>1, <2>1 DEF Take, TypeOK
  <2>3. clock' \in [Replica -> Stamp]
    BY <1>3, <1>7 DEF TypeOK
  <2>4. seen' \in [Replica -> SUBSET written]
    BY <1>7 DEF TypeOK
  <2> QED
    BY <1>7, <2>2, <2>3, <2>4 DEF TypeOK
<1>10. ClockInv'
  <2>1. \A q \in Replica : clock'[q].node = q /\ FromWall(clock'[q].physical)
    BY <1>3, <1>8 DEF ClockInv
  <2>2. \A c \in written' : /\ FromWall(c.hlc.physical)
                           /\ c.hlc.node \in Replica
                           /\ c \in seen'[c.hlc.node]
    BY <1>7, <1>8 DEF ClockInv
  <2>3. \A q \in Replica : \A c \in seen'[q] : Reached(c.hlc, clock'[q])
    BY <1>6, <1>8 DEF ClockInv
  <2> QED
    BY <2>1, <2>2, <2>3 DEF ClockInv, FromWall
<1> QED
  BY <1>7, <1>9, <1>10 DEF StampNamesChange
-----------------------------------------------------------------------------
(* What a replica holds, by what it has seen: this is the join of the      *)
(* changes it has seen, said without folding over them.                    *)

LatestHeld(r) ==
  /\ current[r] \in seen[r]
  /\ \A c \in seen[r] : AtMost(c.hlc, current[r].hlc)

RegisterInv ==
  kind = "register" => \A r \in Replica : Knows(r) => LatestHeld(r)

RemovalOrFirstHeld(r) ==
  /\ current[r] \in seen[r]
  /\ \A c \in seen[r] :
       /\ IsLive(current[r]) => IsLive(c) /\ AtMost(current[r].hlc, c.hlc)
       /\ ~IsLive(current[r]) /\ ~IsLive(c) => AtMost(c.hlc, current[r].hlc)

EventInv ==
  kind = "event" => \A r \in Replica : Knows(r) => RemovalOrFirstHeld(r)

FurthestHeld(r) ==
  /\ \E c \in seen[r] : /\ c.reset = current[r].reset
                       /\ c.value.lastPage = current[r].value.lastPage
  /\ current[r].value.read =>
       \E c \in seen[r] : c.reset = current[r].reset /\ c.value.read
  /\ \A c \in seen[r] :
       /\ AtMost(c.reset, current[r].reset)
       /\ c.reset = current[r].reset =>
            /\ c.value.read => current[r].value.read
            /\ c.value.lastPage <= current[r].value.lastPage

ProgressInv ==
  kind = "progress" =>
    /\ \A c \in written : Reached(c.reset, c.hlc)
    /\ \A r \in Replica :
         IF Knows(r) THEN FurthestHeld(r) ELSE current[r].reset = NoStamp

IInv ==
  /\ TypeOK /\ ClockInv /\ StampNamesChange
  /\ RegisterInv /\ EventInv /\ ProgressInv

(* Only replica r changes in a write of a change or in taking one. *)
LEMMA OthersKept ==
  ASSUME TypeOK, NEW r \in Replica, NEW change,
         \/ \E stamp : Record(r, stamp, change)
         \/ \E w \in Wall : Take(r, w, change)
  PROVE  /\ seen'[r] = seen[r] \cup {change}
         /\ \A q \in Replica : q # r => seen'[q] = seen[q] /\ current'[q] = current[q]
         /\ kind' = kind
BY DEF Record, Take, TypeOK

LEMMA RegisterTake ==
  ASSUME IInv, kind = "register", NEW r \in Replica, NEW w \in Wall,
         NEW change \in written, Take(r, w, change)
  PROVE  RegisterInv'
<1>1. /\ seen'[r] = seen[r] \cup {change}
      /\ \A q \in Replica : q # r => seen'[q] = seen[q] /\ current'[q] = current[q]
      /\ kind' = kind
  BY OthersKept DEF IInv
<1>2. current'[r] = IF Knows(r) THEN MergeRegister(current[r], change) ELSE change
  BY DEF Take, IInv, TypeOK, MergeEnvelope, Versions
<1>3. \A c \in written \cup {current[r]} : c.hlc \in Stamp
  BY VersionsType DEF IInv, TypeOK
<1>4. LatestHeld(r)'
  <2>1. CASE ~Knows(r)
    BY <1>1, <1>2, <2>1 DEF LatestHeld, Knows, AtMost
  <2>2. CASE Knows(r) /\ Earlier(current[r].hlc, change.hlc)
    <3>1. current'[r] = change
      BY <1>2, <2>2 DEF MergeRegister
    <3>2. \A c \in seen[r] : c \in written /\ AtMost(c.hlc, current[r].hlc)
      BY <2>2 DEF IInv, RegisterInv, LatestHeld, TypeOK
    <3>3. \A c \in seen[r] : AtMost(c.hlc, change.hlc)
      <4>1. AtMost(current[r].hlc, change.hlc)
        BY <2>2 DEF AtMost
      <4> QED
        BY <1>3, <3>2, <4>1, AtMostOrder
    <3> QED
      BY <1>1, <3>1, <3>3 DEF LatestHeld, AtMost
  <2>3. CASE Knows(r) /\ ~Earlier(current[r].hlc, change.hlc)
    <3>1. current'[r] = current[r]
      BY <1>2, <2>3 DEF MergeRegister
    <3>2. AtMost(change.hlc, current[r].hlc)
      BY <1>3, <2>3, AtMostOrder
    <3> QED
      BY <1>1, <2>3, <3>1, <3>2 DEF LatestHeld, IInv, RegisterInv
  <2> QED
    BY <2>1, <2>2, <2>3
<1> QED
  BY <1>1, <1>4 DEF RegisterInv, IInv, Knows, LatestHeld

LEMMA RegisterPut ==
  ASSUME IInv, kind = "register", NEW r \in Replica, NEW change \in Versions,
         NEW stamp, Record(r, stamp, change),
         \A old \in seen[r] : Earlier(old.hlc, change.hlc)
  PROVE  RegisterInv'
<1>1. /\ seen'[r] = seen[r] \cup {change}
      /\ \A q \in Replica : q # r => seen'[q] = seen[q] /\ current'[q] = current[q]
      /\ kind' = kind
  BY OthersKept DEF IInv
<1>2. current'[r] = change
  BY DEF Record, IInv, TypeOK
<1>3. LatestHeld(r)'
  BY <1>1, <1>2 DEF LatestHeld, AtMost
<1> QED
  BY <1>1, <1>3 DEF RegisterInv, IInv, Knows, LatestHeld

LEMMA EventTake ==
  ASSUME IInv, kind = "event", NEW r \in Replica, NEW w \in Wall,
         NEW change \in written, Take(r, w, change)
  PROVE  EventInv'
<1>1. /\ seen'[r] = seen[r] \cup {change}
      /\ \A q \in Replica : q # r => seen'[q] = seen[q] /\ current'[q] = current[q]
      /\ kind' = kind
  BY OthersKept DEF IInv
<1>2. current'[r] = IF Knows(r) THEN MergeEvent(current[r], change) ELSE change
  BY DEF Take, IInv, TypeOK, MergeEnvelope, Versions
<1>3. \A c \in written \cup {current[r]} : c.hlc \in Stamp
  BY VersionsType DEF IInv, TypeOK
<1>4. \A c \in seen[r] : c \in written
  BY DEF IInv, TypeOK
<1>5. RemovalOrFirstHeld(r)'
  <2>1. CASE ~Knows(r)
    BY <1>1, <1>2, <2>1 DEF RemovalOrFirstHeld, Knows, AtMost
  <2>2. CASE Knows(r) /\ IsLive(current[r]) /\ ~IsLive(change)
    <3>1. current'[r] = change
      BY <1>2, <2>2 DEF MergeEvent
    <3>2. \A c \in seen[r] : IsLive(c)
      BY <2>2 DEF IInv, EventInv, RemovalOrFirstHeld
    <3> QED
      BY <1>1, <2>2, <3>1, <3>2 DEF RemovalOrFirstHeld, AtMost
  <2>3. CASE Knows(r) /\ ~IsLive(current[r]) /\ IsLive(change)
    <3>1. current'[r] = current[r]
      BY <1>2, <2>3 DEF MergeEvent
    <3> QED
      BY <1>1, <2>3, <3>1 DEF RemovalOrFirstHeld, IInv, EventInv
  <2>4. CASE Knows(r) /\ IsLive(current[r]) /\ IsLive(change)
    <3>1. \A c \in seen[r] : IsLive(c) /\ AtMost(current[r].hlc, c.hlc)
      BY <2>4 DEF IInv, EventInv, RemovalOrFirstHeld
    <3>2. current[r] \in seen[r]
      BY <2>4 DEF IInv, EventInv, RemovalOrFirstHeld
    <3>3. CASE Earlier(change.hlc, current[r].hlc)
      <4>1. current'[r] = change
        BY <1>2, <2>4, <3>3 DEF MergeEvent
      <4>2. AtMost(change.hlc, current[r].hlc)
        BY <3>3 DEF AtMost
      <4>3. \A c \in seen[r] : AtMost(change.hlc, c.hlc)
        BY <1>3, <1>4, <3>1, <4>2, AtMostOrder
      <4> QED
        BY <1>1, <2>4, <3>1, <4>1, <4>3 DEF RemovalOrFirstHeld, AtMost
    <3>4. CASE ~Earlier(change.hlc, current[r].hlc)
      <4>1. current'[r] = current[r]
        BY <1>2, <2>4, <3>4 DEF MergeEvent
      <4>2. AtMost(current[r].hlc, change.hlc)
        BY <1>3, <3>4, AtMostOrder
      <4> QED
        BY <1>1, <2>4, <3>1, <3>2, <4>1, <4>2 DEF RemovalOrFirstHeld
    <3> QED
      BY <3>3, <3>4
  <2>5. CASE Knows(r) /\ ~IsLive(current[r]) /\ ~IsLive(change)
    <3>1. \A c \in seen[r] : ~IsLive(c) => AtMost(c.hlc, current[r].hlc)
      BY <2>5 DEF IInv, EventInv, RemovalOrFirstHeld
    <3>2. current[r] \in seen[r]
      BY <2>5 DEF IInv, EventInv, RemovalOrFirstHeld
    <3>3. CASE Earlier(current[r].hlc, change.hlc)
      <4>1. current'[r] = change
        BY <1>2, <2>5, <3>3 DEF MergeEvent, IsLive
      <4>2. AtMost(current[r].hlc, change.hlc)
        BY <3>3 DEF AtMost
      <4>3. \A c \in seen[r] : ~IsLive(c) => AtMost(c.hlc, change.hlc)
        BY <1>3, <1>4, <3>1, <4>2, AtMostOrder
      <4> QED
        BY <1>1, <2>5, <4>1, <4>3 DEF RemovalOrFirstHeld, AtMost
    <3>4. CASE ~Earlier(current[r].hlc, change.hlc)
      <4>1. current'[r] = current[r]
        BY <1>2, <2>5, <3>4 DEF MergeEvent, IsLive
      <4>2. AtMost(change.hlc, current[r].hlc)
        BY <1>3, <3>4, AtMostOrder
      <4> QED
        BY <1>1, <2>5, <3>1, <3>2, <4>1, <4>2 DEF RemovalOrFirstHeld
    <3> QED
      BY <3>3, <3>4
  <2> QED
    BY <2>1, <2>2, <2>3, <2>4, <2>5
<1> QED
  BY <1>1, <1>5 DEF EventInv, IInv, Knows, RemovalOrFirstHeld

(* An event is noticed once and dismissed later. *)
LEMMA EventWrite ==
  ASSUME IInv, kind = "event", NEW r \in Replica, NEW change \in Versions,
         NEW stamp, Record(r, stamp, change),
         \A old \in seen[r] : Earlier(old.hlc, change.hlc),
         \/ ~Knows(r)
         \/ Knows(r) /\ IsLive(current[r]) /\ ~IsLive(change)
  PROVE  EventInv'
<1>1. /\ seen'[r] = seen[r] \cup {change}
      /\ \A q \in Replica : q # r => seen'[q] = seen[q] /\ current'[q] = current[q]
      /\ kind' = kind
  BY OthersKept DEF IInv
<1>2. current'[r] = change
  BY DEF Record, IInv, TypeOK
<1>3. RemovalOrFirstHeld(r)'
  <2>1. CASE ~Knows(r)
    BY <1>1, <1>2, <2>1 DEF RemovalOrFirstHeld, Knows, AtMost
  <2>2. CASE Knows(r) /\ IsLive(current[r]) /\ ~IsLive(change)
    BY <1>1, <1>2, <2>2 DEF RemovalOrFirstHeld, AtMost, IInv, EventInv
  <2> QED
    BY <2>1, <2>2
<1> QED
  BY <1>1, <1>3 DEF EventInv, IInv, Knows, RemovalOrFirstHeld

LEMMA ProgressTypes ==
  ASSUME TypeOK, kind = "progress", NEW c \in Versions
  PROVE  /\ c.hlc \in Stamp /\ c.reset \in Stamp /\ c.value \in Position
         /\ c.value.lastPage \in Nat /\ c.value.read \in BOOLEAN
BY VersionsType DEF Progress, Position

LEMMA ProgressTake ==
  ASSUME IInv, kind = "progress", NEW r \in Replica, NEW w \in Wall,
         NEW change \in written, Take(r, w, change)
  PROVE  ProgressInv'
<1>1. /\ seen'[r] = seen[r] \cup {change}
      /\ \A q \in Replica : q # r => seen'[q] = seen[q] /\ current'[q] = current[q]
      /\ kind' = kind /\ written' = written
  BY OthersKept DEF IInv, Take
<1> DEFINE held == current[r]
<1>2. current'[r] = IF Knows(r) THEN MergeProgress(held, change) ELSE change
  <2>1. held.kind = "progress"
    BY DEF IInv, TypeOK, Versions
  <2> QED
    BY <2>1 DEF Take, IInv, TypeOK, MergeEnvelope
<1>3. /\ \A c \in seen[r] : c \in written
      /\ \A c \in written : c \in Versions
      /\ held \in Versions
  BY DEF IInv, TypeOK
<1>4. \A c \in written \cup {held} :
         /\ c.hlc \in Stamp /\ c.reset \in Stamp /\ c.value \in Position
         /\ c.value.lastPage \in Nat /\ c.value.read \in BOOLEAN
  BY <1>3, ProgressTypes DEF IInv
<1>5. FurthestHeld(r)'
  <2>1. CASE ~Knows(r)
    BY <1>1, <1>2, <1>4, <2>1 DEF FurthestHeld, Knows, AtMost
  <2>2. CASE Knows(r)
    <3>1. FurthestHeld(r)
      BY <2>2 DEF IInv, ProgressInv
    <3>2. /\ current'[r].reset = Later(held.reset, change.reset)
          /\ current'[r].value =
               IF held.reset = change.reset THEN Further(held.value, change.value)
               ELSE IF Earlier(change.reset, held.reset) THEN held.value ELSE change.value
      BY <1>2, <2>2 DEF MergeProgress
    <3>3. CASE held.reset = change.reset
      <4>1. /\ current'[r].reset = held.reset
            /\ current'[r].value = Further(held.value, change.value)
        BY <3>2, <3>3 DEF Later
      <4>2. /\ Further(held.value, change.value).read <=> (held.value.read \/ change.value.read)
            /\ Further(held.value, change.value).lastPage \in {held.value.lastPage, change.value.lastPage}
            /\ held.value.lastPage <= Further(held.value, change.value).lastPage
            /\ change.value.lastPage <= Further(held.value, change.value).lastPage
            /\ Further(held.value, change.value) \in Position
        BY <1>4, FurtherType
      <4>3. \A c \in seen[r] \cup {change} : AtMost(c.reset, held.reset)
        BY <3>1, <3>3 DEF FurthestHeld, AtMost
      <4>4. \A c \in seen[r] \cup {change} : c.reset = held.reset =>
               /\ c.value.read => Further(held.value, change.value).read
               /\ c.value.lastPage <= Further(held.value, change.value).lastPage
        BY <1>3, <1>4, <3>1, <4>2 DEF FurthestHeld, Position
      <4>5. \E c \in seen[r] \cup {change} :
               c.reset = held.reset /\ c.value.lastPage = Further(held.value, change.value).lastPage
        BY <3>1, <3>3, <4>2 DEF FurthestHeld
      <4>6. Further(held.value, change.value).read =>
               \E c \in seen[r] \cup {change} : c.reset = held.reset /\ c.value.read
        BY <3>1, <3>3, <4>2 DEF FurthestHeld
      <4> QED
        BY <1>1, <4>1, <4>3, <4>4, <4>5, <4>6 DEF FurthestHeld
    <3>4. CASE Earlier(change.reset, held.reset)
      <4>1. held.reset # change.reset /\ ~Earlier(held.reset, change.reset)
        BY <1>4, <3>4, EarlierAsymmetric, EarlierIrreflexive
      <4>2. current'[r].reset = held.reset /\ current'[r].value = held.value
        BY <3>2, <3>4, <4>1 DEF Later
      <4> QED
        BY <1>1, <3>1, <3>4, <4>1, <4>2 DEF FurthestHeld, AtMost
    <3>5. CASE Earlier(held.reset, change.reset)
      <4>1. held.reset # change.reset /\ ~Earlier(change.reset, held.reset)
        BY <1>4, <3>5, EarlierAsymmetric, EarlierIrreflexive
      <4>2. current'[r].reset = change.reset /\ current'[r].value = change.value
        BY <3>2, <3>5, <4>1 DEF Later
      <4>3. \A c \in seen[r] : AtMost(c.reset, change.reset) /\ c.reset # change.reset
        <5> TAKE c \in seen[r]
        <5>1. AtMost(c.reset, held.reset)
          BY <3>1 DEF FurthestHeld
        <5>2. Earlier(c.reset, change.reset)
          BY <1>3, <1>4, <3>5, <5>1, EarlierTransitive DEF AtMost
        <5> QED
          BY <1>3, <1>4, <5>2, EarlierIrreflexive DEF AtMost
      <4> QED
        BY <1>1, <1>4, <4>2, <4>3 DEF FurthestHeld, AtMost
    <3> QED
      BY <1>4, <3>3, <3>4, <3>5, EarlierTotal
  <2> QED
    BY <2>1, <2>2
<1>6. Knows(r)'
  BY <1>1 DEF Knows
<1>7. \A q \in Replica : IF Knows(q)' THEN FurthestHeld(q)' ELSE current'[q].reset = NoStamp
  BY <1>1, <1>5, <1>6 DEF IInv, ProgressInv, Knows, FurthestHeld
<1> QED
  BY <1>1, <1>7 DEF IInv, ProgressInv

(* A position written on from the one held, in its epoch. *)
LEMMA ProgressRead ==
  ASSUME IInv, kind = "progress", NEW r \in Replica, NEW change \in Versions,
         NEW stamp, Record(r, stamp, change),
         \A old \in seen[r] : Reached(old.hlc, change.hlc),
         change.reset = current[r].reset,
         current[r].value.read => change.value.read,
         current[r].value.lastPage <= change.value.lastPage
  PROVE  ProgressInv'
<1>1. /\ seen'[r] = seen[r] \cup {change}
      /\ \A q \in Replica : q # r => seen'[q] = seen[q] /\ current'[q] = current[q]
      /\ kind' = kind /\ written' = written \cup {change}
  BY OthersKept DEF IInv, Record
<1>2. current'[r] = change
  BY DEF Record, IInv, TypeOK
<1>3. /\ \A c \in seen[r] : c \in written
      /\ \A c \in written : c \in Versions
      /\ current[r] \in Versions
  BY DEF IInv, TypeOK
<1>4. \A c \in written \cup {current[r], change} :
         /\ c.hlc \in Stamp /\ c.reset \in Stamp /\ c.value \in Position
         /\ c.value.lastPage \in Nat /\ c.value.read \in BOOLEAN
  BY <1>3, ProgressTypes DEF IInv
<1>5. FurthestHeld(r)'
  <2>1. CASE ~Knows(r)
    BY <1>1, <1>2, <1>4, <2>1 DEF FurthestHeld, Knows, AtMost
  <2>2. CASE Knows(r)
    <3>1. FurthestHeld(r)
      BY <2>2 DEF IInv, ProgressInv
    <3>2. \A c \in seen[r] : AtMost(c.reset, change.reset)
      BY <3>1 DEF FurthestHeld
    <3>3. \A c \in seen[r] : c.reset = change.reset =>
             (c.value.read => change.value.read) /\ c.value.lastPage <= change.value.lastPage
      BY <1>3, <1>4, <3>1 DEF FurthestHeld
    <3> QED
      BY <1>1, <1>2, <1>4, <3>2, <3>3 DEF FurthestHeld, AtMost
  <2> QED
    BY <2>1, <2>2
<1>6. Reached(change.reset, change.hlc)
  <2>1. CASE ~Knows(r)
    BY <1>4, <2>1, ReachedSelf DEF IInv, ProgressInv
  <2>2. CASE Knows(r)
    <3>1. PICK c \in seen[r] : c.reset = change.reset
      BY <2>2 DEF IInv, ProgressInv, FurthestHeld
    <3>2. Reached(c.reset, c.hlc) /\ Reached(c.hlc, change.hlc)
      BY <1>3 DEF IInv, ProgressInv
    <3> QED
      BY <1>3, <1>4, <3>1, <3>2, ReachedTransitive
  <2> QED
    BY <2>1, <2>2
<1>7. Knows(r)'
  BY <1>1 DEF Knows
<1>8. \A q \in Replica : IF Knows(q)' THEN FurthestHeld(q)' ELSE current'[q].reset = NoStamp
  BY <1>1, <1>5, <1>7 DEF IInv, ProgressInv, Knows, FurthestHeld
<1>9. \A c \in written' : Reached(c.reset, c.hlc)
  BY <1>1, <1>6 DEF IInv, ProgressInv
<1> QED
  BY <1>1, <1>8, <1>9 DEF ProgressInv

(* A rewind opens an epoch later than every one seen. *)
LEMMA ProgressRewind ==
  ASSUME IInv, kind = "progress", NEW r \in Replica, NEW change \in Versions,
         NEW stamp, Record(r, stamp, change),
         change.reset = change.hlc,
         \A old \in seen[r] : Earlier(old.reset, change.reset)
  PROVE  ProgressInv'
<1>1. /\ seen'[r] = seen[r] \cup {change}
      /\ \A q \in Replica : q # r => seen'[q] = seen[q] /\ current'[q] = current[q]
      /\ kind' = kind /\ written' = written \cup {change}
  BY OthersKept DEF IInv, Record
<1>2. current'[r] = change
  BY DEF Record, IInv, TypeOK
<1>3. /\ change.hlc \in Stamp /\ change.value.lastPage \in Nat
      /\ \A c \in seen[r] : c.reset \in Stamp
  BY ProgressTypes DEF IInv, TypeOK
<1>4. \A c \in seen[r] : AtMost(c.reset, change.reset) /\ c.reset # change.reset
  BY <1>3, EarlierIrreflexive DEF AtMost
<1>5. FurthestHeld(r)'
  BY <1>1, <1>2, <1>3, <1>4 DEF FurthestHeld, AtMost
<1>6. Reached(change.reset, change.hlc)
  BY <1>3, ReachedSelf
<1>7. Knows(r)'
  BY <1>1 DEF Knows
<1>8. \A q \in Replica : IF Knows(q)' THEN FurthestHeld(q)' ELSE current'[q].reset = NoStamp
  BY <1>1, <1>5, <1>7 DEF IInv, ProgressInv, Knows, FurthestHeld
<1>9. \A c \in written' : Reached(c.reset, c.hlc)
  BY <1>1, <1>6 DEF IInv, ProgressInv
<1> QED
  BY <1>1, <1>8, <1>9 DEF ProgressInv

-----------------------------------------------------------------------------
(* The clock part is inductive on its own, whatever a reader may do. *)

BaseInv == TypeOK /\ ClockInv /\ StampNamesChange

LEMMA InitIInv == Init => IInv
<1> SUFFICES ASSUME Init PROVE IInv
  OBVIOUS
<1>1. /\ kind \in Kind /\ written = {}
      /\ clock = [r \in Replica |-> NewClock(r, NoStamp)]
      /\ current = [r \in Replica |-> Blank]
      /\ seen = [r \in Replica |-> {}]
  BY DEF Init
<1>2. \A r \in Replica : /\ NewClock(r, NoStamp) \in Stamp
                         /\ NewClock(r, NoStamp).node = r
                         /\ NewClock(r, NoStamp).physical = 0
  BY ReplicaAssumption DEF NewClock, At, NoStamp, Stamp
<1>3. Blank \in Versions /\ (kind = "progress" => Blank.reset = NoStamp)
  <2>1. Unread \in Position
    BY DEF Unread, Position
  <2> QED
    BY <1>1, <2>1, NoStampType, VersionType DEF Blank
<1>4. TypeOK
  BY <1>1, <1>2, <1>3 DEF TypeOK
<1>5. ClockInv /\ StampNamesChange
  BY <1>1, <1>2 DEF ClockInv, FromWall, StampNamesChange
<1>6. RegisterInv /\ EventInv /\ ProgressInv
  BY <1>1, <1>3 DEF RegisterInv, EventInv, ProgressInv, Knows
<1> QED
  BY <1>4, <1>5, <1>6 DEF IInv

LEMMA PositionTypes ==
  /\ Unread \in Position
  /\ ReadPosition \subseteq Position
<1>1. Unread \in Position
  BY DEF Unread, Position
<1>2. \A p \in ReadPosition : p \in Position
  <2> TAKE p \in ReadPosition
  <2>1. p = [read |-> p.read, lastPage |-> p.lastPage] /\ p.read \in BOOLEAN /\ p.lastPage \in Page
    BY DEF ReadPosition
  <2> QED
    BY <2>1, PageAssumption DEF Position
<1> QED
  BY <1>1, <1>2

(* Each write records one version, stamped by its replica's clock. *)
LEMMA WriteRecords ==
  ASSUME TypeOK, NEW r \in Replica, NEW w \in Wall,
         \/ \E v \in Value \cup {Absent} : Put(r, w, v)
         \/ \E v \in Value : Notice(r, w, v)
         \/ Dismiss(r, w)
         \/ \E p \in ReadPosition : Read(r, w, p)
         \/ \E p \in ReadPosition \cup {Unread} : MarkUnread(r, w, p)
  PROVE  \E change \in Versions :
           change.hlc = Send(clock[r], w) /\ Record(r, Send(clock[r], w), change)
<1> DEFINE stamp == Send(clock[r], w)
<1>1. kind \in Kind /\ stamp \in Stamp
  BY SendType, WallAssumption DEF TypeOK
<1>2. ReadPosition \cup {Unread} \subseteq Position
  BY PositionTypes
<1>3. ASSUME NEW v \in Value \cup {Absent}, kind # "progress"
      PROVE  Version(stamp, NoStamp, v) \in Versions /\ Version(stamp, NoStamp, v).hlc = stamp
  BY <1>1, <1>3, NoStampType, VersionType
<1>4. ASSUME NEW p \in Position, NEW reset \in Stamp, kind = "progress"
      PROVE  Version(stamp, reset, p) \in Versions /\ Version(stamp, reset, p).hlc = stamp
  BY <1>1, <1>4, VersionType
<1>5. kind = "progress" => current[r].reset \in Stamp
  BY ProgressTypes DEF TypeOK
<1>6. CASE \E v \in Value \cup {Absent} : Put(r, w, v)
  BY <1>3, <1>6 DEF Put
<1>7. CASE \E v \in Value : Notice(r, w, v)
  BY <1>3, <1>7 DEF Notice
<1>8. CASE Dismiss(r, w)
  BY <1>3, <1>8 DEF Dismiss
<1>9. CASE \E p \in ReadPosition : Read(r, w, p)
  BY <1>2, <1>4, <1>5, <1>9 DEF Read
<1>10. CASE \E p \in ReadPosition \cup {Unread} : MarkUnread(r, w, p)
  BY <1>1, <1>2, <1>4, <1>10 DEF MarkUnread
<1> QED
  BY <1>6, <1>7, <1>8, <1>9, <1>10

LEMMA BaseStep == BaseInv /\ [Next]_vars => BaseInv'
<1> SUFFICES ASSUME BaseInv, [Next]_vars PROVE BaseInv'
  OBVIOUS
<1>1. CASE Next
  <2>1. PICK r \in Replica, w \in Wall :
           \/ \E v \in Value \cup {Absent} : Put(r, w, v)
           \/ \E v \in Value : Notice(r, w, v)
           \/ Dismiss(r, w)
           \/ \E p \in ReadPosition : Read(r, w, p)
           \/ \E p \in ReadPosition \cup {Unread} : MarkUnread(r, w, p)
           \/ \E change \in written : Take(r, w, change)
    BY <1>1 DEF Next
  <2>2. CASE \E change \in written : Take(r, w, change)
    BY <2>2, TakeStep DEF BaseInv
  <2>3. CASE ~(\E change \in written : Take(r, w, change))
    <3>1. PICK change \in Versions :
             change.hlc = Send(clock[r], w) /\ Record(r, Send(clock[r], w), change)
      BY <2>1, <2>3, WriteRecords DEF BaseInv
    <3> QED
      BY <3>1, RecordStep DEF BaseInv
  <2> QED
    BY <2>2, <2>3
<1>2. CASE UNCHANGED vars
  BY <1>2 DEF BaseInv, TypeOK, ClockInv, StampNamesChange, vars, Versions, FromWall
<1> QED
  BY <1>1, <1>2

-----------------------------------------------------------------------------
(* The strategies. *)

LEMMA RegisterStep ==
  ASSUME IInv, Next, kind = "register"
  PROVE  RegisterInv'
<1>1. PICK r \in Replica, w \in Wall :
         \/ \E v \in Value \cup {Absent} : Put(r, w, v)
         \/ \E change \in written : Take(r, w, change)
  BY DEF Next, Notice, Dismiss, Read, MarkUnread
<1>2. CASE \E change \in written : Take(r, w, change)
  BY <1>2, RegisterTake
<1>3. ASSUME NEW v \in Value \cup {Absent}, Put(r, w, v)
      PROVE  RegisterInv'
  <2> DEFINE stamp == Send(clock[r], w)
             change == Version(stamp, NoStamp, v)
  <2>1. stamp \in Stamp
    BY SendType, WallAssumption DEF IInv, TypeOK
  <2>2. change \in Versions /\ change.hlc = stamp
    BY <2>1, VersionType, NoStampType DEF IInv, TypeOK
  <2>3. Record(r, stamp, change)
    BY <1>3 DEF Put
  <2>4. \A old \in seen[r] : Earlier(old.hlc, change.hlc)
    BY <2>2, <2>3, RecordStep DEF IInv
  <2> HIDE DEF stamp, change
  <2> QED
    BY <2>2, <2>3, <2>4, RegisterPut
<1> QED
  BY <1>1, <1>2, <1>3

LEMMA EventStep ==
  ASSUME IInv, Next, kind = "event"
  PROVE  EventInv'
<1>1. PICK r \in Replica, w \in Wall :
         \/ \E v \in Value : Notice(r, w, v)
         \/ Dismiss(r, w)
         \/ \E change \in written : Take(r, w, change)
  BY DEF Next, Put, Read, MarkUnread
<1> DEFINE stamp == Send(clock[r], w)
           Change(v) == Version(stamp, NoStamp, v)
<1>2. stamp \in Stamp
  BY SendType, WallAssumption DEF IInv, TypeOK
<1>3. ASSUME NEW v \in Value \cup {Absent}
      PROVE  Change(v) \in Versions /\ Change(v).hlc = stamp /\ Change(v).value = v
  BY <1>2, VersionType, NoStampType DEF IInv, TypeOK
<1>4. CASE \E change \in written : Take(r, w, change)
  BY <1>4, EventTake
<1>5. ASSUME NEW v \in Value, Notice(r, w, v)
      PROVE  EventInv'
  <2>1. Change(v) \in Versions /\ Change(v).hlc = stamp
    BY <1>3
  <2>2. Record(r, stamp, Change(v)) /\ ~Knows(r)
    BY <1>5 DEF Notice
  <2>3. \A old \in seen[r] : Earlier(old.hlc, Change(v).hlc)
    BY <2>1, <2>2, RecordStep DEF IInv
  <2> HIDE DEF stamp, Change
  <2> QED
    BY <2>1, <2>2, <2>3, EventWrite
<1>6. ASSUME Dismiss(r, w)
      PROVE  EventInv'
  <2>1. /\ Change(Absent) \in Versions /\ Change(Absent).hlc = stamp
        /\ ~IsLive(Change(Absent))
    <3>1. Change(Absent) \in Versions /\ Change(Absent).hlc = stamp
          /\ Change(Absent).value = Absent
      BY <1>3
    <3>2. Change(Absent).kind = "event"
      BY <3>1 DEF Versions
    <3> QED
      BY <3>1, <3>2 DEF IsLive
  <2>2. Record(r, stamp, Change(Absent)) /\ Knows(r) /\ IsLive(current[r])
    BY <1>6 DEF Dismiss
  <2>3. \A old \in seen[r] : Earlier(old.hlc, Change(Absent).hlc)
    BY <2>1, <2>2, RecordStep DEF IInv
  <2> HIDE DEF stamp, Change
  <2> QED
    BY <2>1, <2>2, <2>3, EventWrite
<1> QED
  BY <1>1, <1>4, <1>5, <1>6

(* The one place that needs readers who never go back a page unrecorded. *)
LEMMA ProgressStep ==
  ASSUME IInv, Next, kind = "progress", Backtrack = FALSE
  PROVE  ProgressInv'
<1>1. PICK r \in Replica, w \in Wall :
         \/ \E p \in ReadPosition : Read(r, w, p)
         \/ \E p \in ReadPosition \cup {Unread} : MarkUnread(r, w, p)
         \/ \E change \in written : Take(r, w, change)
  BY DEF Next, Put, Notice, Dismiss
<1> DEFINE stamp == Send(clock[r], w)
           Change(reset, p) == Version(stamp, reset, p)
<1>2. stamp \in Stamp
  BY SendType, WallAssumption DEF IInv, TypeOK
<1>3. current[r].reset \in Stamp /\ current[r].value \in Position
  BY ProgressTypes DEF IInv, TypeOK
<1>4. ASSUME NEW reset \in Stamp, NEW p \in Position
      PROVE  /\ Change(reset, p) \in Versions /\ Change(reset, p).hlc = stamp
             /\ Change(reset, p).value = p /\ Change(reset, p).reset = reset
  BY <1>2, VersionType DEF IInv, TypeOK
<1>5. CASE \E change \in written : Take(r, w, change)
  BY <1>5, ProgressTake
<1>6. \A old \in seen[r] : Reached(old.hlc, stamp)
  BY SendAdvances, WallAssumption, VersionsType DEF IInv, ClockInv, TypeOK
<1>7. ASSUME NEW p \in ReadPosition, Read(r, w, p)
      PROVE  ProgressInv'
  <2> DEFINE change == Change(current[r].reset, p)
  <2>1. p \in Position
    BY PositionTypes
  <2>2. /\ change \in Versions /\ change.hlc = stamp
        /\ change.value = p /\ change.reset = current[r].reset
    BY <1>3, <1>4, <2>1
  <2>3. /\ Record(r, stamp, change)
        /\ current[r].value.read => p.read
        /\ Further(current[r].value, p) = p
    BY <1>7 DEF Read
  <2>4. current[r].value.lastPage <= p.lastPage
    BY <1>3, <2>1, <2>3, FurtherType
  <2>5. \A old \in seen[r] : Reached(old.hlc, change.hlc)
    BY <1>6, <2>2
  <2> HIDE DEF stamp, Change, change
  <2> QED
    BY <2>2, <2>3, <2>4, <2>5, ProgressRead
<1>8. ASSUME NEW p \in ReadPosition \cup {Unread}, MarkUnread(r, w, p)
      PROVE  ProgressInv'
  <2> DEFINE change == Change(stamp, p)
  <2>1. p \in Position
    BY PositionTypes
  <2>2. /\ change \in Versions /\ change.hlc = stamp /\ change.reset = stamp
    BY <1>2, <1>4, <2>1
  <2>3. Record(r, stamp, change)
    BY <1>8 DEF MarkUnread
  <2>4. \A old \in seen[r] : Earlier(old.reset, stamp)
    <3> TAKE old \in seen[r]
    <3>1. old \in written /\ old \in Versions
      BY DEF IInv, TypeOK
    <3>2. old.hlc \in Stamp /\ old.reset \in Stamp
      BY <3>1, ProgressTypes DEF IInv
    <3>3. Reached(old.reset, old.hlc) /\ Reached(old.hlc, clock[r])
      BY <3>1 DEF IInv, ProgressInv, ClockInv
    <3>4. clock[r] \in Stamp /\ w \in Nat
      BY WallAssumption DEF IInv, TypeOK
    <3>5. Reached(old.reset, clock[r])
      BY <3>2, <3>3, <3>4, ReachedTransitive
    <3> QED
      BY <3>2, <3>4, <3>5, SendAdvances
  <2> HIDE DEF stamp, Change, change
  <2> QED
    BY <2>2, <2>3, <2>4, ProgressRewind
<1> QED
  BY <1>1, <1>5, <1>7, <1>8

LEMMA KindKept == Next => kind' = kind
BY DEF Next, Put, Notice, Dismiss, Read, MarkUnread, Record, Take

(* What holds for registers and events however far back a reader goes. *)
SeenInv == BaseInv /\ RegisterInv /\ EventInv

LEMMA IInvStep ==
  ASSUME Backtrack = FALSE
  PROVE  IInv /\ [Next]_vars => IInv'
<1> SUFFICES ASSUME IInv, [Next]_vars PROVE IInv'
  OBVIOUS
<1>1. CASE Next
  <2>1. TypeOK' /\ ClockInv' /\ StampNamesChange'
    BY <1>1, BaseStep DEF IInv, BaseInv
  <2>2. RegisterInv'
    BY <1>1, RegisterStep, KindKept DEF RegisterInv
  <2>3. EventInv'
    BY <1>1, EventStep, KindKept DEF EventInv
  <2>4. ProgressInv'
    BY <1>1, ProgressStep, KindKept DEF ProgressInv
  <2> QED
    BY <2>1, <2>2, <2>3, <2>4 DEF IInv
<1>2. CASE UNCHANGED vars
  <2>1. TypeOK' /\ ClockInv' /\ StampNamesChange'
    BY <1>2, BaseStep DEF IInv, BaseInv
  <2>2. RegisterInv' /\ EventInv' /\ ProgressInv'
    BY <1>2 DEF IInv, vars, RegisterInv, EventInv, ProgressInv, Knows,
                LatestHeld, RemovalOrFirstHeld, FurthestHeld
  <2> QED
    BY <2>1, <2>2 DEF IInv
<1> QED
  BY <1>1, <1>2

LEMMA HeldAgrees ==
  ASSUME IInv
  PROVE  Agreement
<1> SUFFICES ASSUME NEW r \in Replica, NEW q \in Replica, Knows(r), seen[r] = seen[q]
             PROVE  current[r].value = current[q].value
  BY DEF Agreement
<1>1. Knows(q)
  BY DEF Knows
<1>2. /\ \A c \in seen[r] : c \in written
      /\ \A c \in written : c \in Versions
      /\ current[r] \in Versions /\ current[q] \in Versions
      /\ kind \in Kind
  BY DEF IInv, TypeOK
<1>3. \A c \in written \cup {current[r], current[q]} : c.hlc \in Stamp
  BY <1>2, VersionsType
<1>4. CASE kind = "register"
  <2>1. LatestHeld(r) /\ LatestHeld(q)
    BY <1>1, <1>4 DEF IInv, RegisterInv
  <2>2. current[r].hlc = current[q].hlc
    BY <1>3, <2>1, AtMostOrder DEF LatestHeld
  <2> QED
    BY <1>2, <2>1, <2>2 DEF IInv, StampNamesChange, LatestHeld
<1>5. CASE kind = "event"
  <2>1. RemovalOrFirstHeld(r) /\ RemovalOrFirstHeld(q)
    BY <1>1, <1>5 DEF IInv, EventInv
  <2>2. CASE IsLive(current[r])
    <3>1. IsLive(current[q])
      BY <2>1, <2>2 DEF RemovalOrFirstHeld
    <3>2. current[r].hlc = current[q].hlc
      BY <1>3, <2>1, <2>2, <3>1, AtMostOrder DEF RemovalOrFirstHeld
    <3> QED
      BY <1>2, <2>1, <3>2 DEF IInv, StampNamesChange, RemovalOrFirstHeld
  <2>3. CASE ~IsLive(current[r])
    <3>1. ~IsLive(current[q])
      BY <2>1, <2>3 DEF RemovalOrFirstHeld
    <3>2. current[r].hlc = current[q].hlc
      BY <1>3, <2>1, <2>3, <3>1, AtMostOrder DEF RemovalOrFirstHeld
    <3> QED
      BY <1>2, <2>1, <3>2 DEF IInv, StampNamesChange, RemovalOrFirstHeld
  <2> QED
    BY <2>2, <2>3
<1>6. CASE kind = "progress"
  <2>1. FurthestHeld(r) /\ FurthestHeld(q)
    BY <1>1, <1>6 DEF IInv, ProgressInv
  <2>2. \A c \in written \cup {current[r], current[q]} :
           /\ c.reset \in Stamp /\ c.value \in Position
           /\ c.value.lastPage \in Nat /\ c.value.read \in BOOLEAN
    BY <1>2, <1>6, ProgressTypes DEF IInv
  <2>3. current[r].reset = current[q].reset
    BY <2>1, <2>2, AtMostOrder DEF FurthestHeld
  <2>4. current[r].value.read = current[q].value.read
    BY <2>1, <2>2, <2>3 DEF FurthestHeld
  <2>5. current[r].value.lastPage = current[q].value.lastPage
    <3>1. /\ current[r].value.lastPage <= current[q].value.lastPage
          /\ current[q].value.lastPage <= current[r].value.lastPage
      BY <2>1, <2>3 DEF FurthestHeld
    <3> QED
      BY <2>2, <3>1
  <2> QED
    BY <2>2, <2>4, <2>5 DEF Position
<1> QED
  BY <1>2, <1>4, <1>5, <1>6 DEF Kind

-----------------------------------------------------------------------------
(***************************************************************************)
(* Every replica's record, clock and history keep their types, whatever    *)
(* it writes and in whatever order it takes changes.                       *)
(***************************************************************************)
THEOREM TypeCorrect == Spec => []TypeOK
<1>1. Init => BaseInv
  BY InitIInv DEF IInv, BaseInv
<1>2. BaseInv => TypeOK
  BY DEF BaseInv
<1> QED
  BY <1>1, <1>2, BaseStep, PTL DEF Spec

(***************************************************************************)
(* No two changes share a stamp: ties between devices are broken by their  *)
(* ids, and one device never issues the same stamp twice, even with a wall *)
(* clock that stalls or goes back (hlc.ts:55-75).                          *)
(***************************************************************************)
THEOREM StampsUnique == Spec => []StampNamesChange
<1>1. Init => BaseInv
  BY InitIInv DEF IInv, BaseInv
<1>2. BaseInv => StampNamesChange
  BY DEF BaseInv
<1> QED
  BY <1>1, <1>2, BaseStep, PTL DEF Spec

(***************************************************************************)
(* A write is stamped later than everything its writer had seen, its own   *)
(* and other devices' changes alike, so "the later stamp wins" never lets  *)
(* an older state of knowledge beat a newer one (hlc.ts:55).               *)
(***************************************************************************)
THEOREM WritesFollowSeen == Spec => WrittenAfterSeen
<1> DEFINE Follows ==
      \A r \in Replica : \A change \in written' \ written :
        change \in seen'[r] => \A old \in seen[r] : Earlier(old.hlc, change.hlc)
<1>1. Init => BaseInv
  BY InitIInv DEF IInv, BaseInv
<1>2. BaseInv /\ [Next]_vars => [Follows]_vars
  <2> SUFFICES ASSUME BaseInv, Next PROVE Follows
    BY DEF vars
  <2>1. PICK r \in Replica, w \in Wall :
           \/ \E v \in Value \cup {Absent} : Put(r, w, v)
           \/ \E v \in Value : Notice(r, w, v)
           \/ Dismiss(r, w)
           \/ \E p \in ReadPosition : Read(r, w, p)
           \/ \E p \in ReadPosition \cup {Unread} : MarkUnread(r, w, p)
           \/ \E change \in written : Take(r, w, change)
    BY DEF Next
  <2>2. CASE \E change \in written : Take(r, w, change)
    BY <2>2 DEF Take
  <2>3. CASE ~(\E change \in written : Take(r, w, change))
    <3>1. PICK change \in Versions :
             change.hlc = Send(clock[r], w) /\ Record(r, Send(clock[r], w), change)
      BY <2>1, <2>3, WriteRecords DEF BaseInv
    <3>2. /\ \A old \in seen[r] : Earlier(old.hlc, change.hlc)
          /\ change \notin written
      BY <3>1, RecordStep DEF BaseInv
    <3>3. /\ written' \ written = {change}
          /\ \A q \in Replica : q # r => seen'[q] = seen[q]
      BY <3>1, <3>2 DEF Record, BaseInv, TypeOK
    <3>4. \A q \in Replica : q # r => change \notin seen'[q]
      BY <3>2, <3>3 DEF BaseInv, TypeOK
    <3> QED
      BY <3>2, <3>3, <3>4
  <2> QED
    BY <2>2, <2>3
<1> QED
  BY <1>1, <1>2, BaseStep, PTL DEF Spec, WrittenAfterSeen

(***************************************************************************)
(* Replicas that have seen the same changes agree, in whatever orders and  *)
(* however often they took them (crdt.ts:2-3), provided readers never      *)
(* leave a chapter on an earlier page unrecorded as a rewind.              *)
(***************************************************************************)
THEOREM Convergence ==
  ASSUME Backtrack = FALSE
  PROVE  Spec => []Agreement
<1>1. IInv /\ [Next]_vars => IInv'
  BY IInvStep
<1>2. IInv => Agreement
  BY HeldAgrees
<1> QED
  BY <1>1, <1>2, InitIInv, PTL DEF Spec

(***************************************************************************)
(* A dismissed event stays dismissed wherever its dismissal is known, even *)
(* at a replica that noticed it later (crdt.ts:13-14).                     *)
(***************************************************************************)
THEOREM DismissalFinal == Spec => []DismissedStaysDismissed
<1>1. Init => SeenInv
  BY InitIInv DEF IInv, BaseInv, SeenInv
<1>2. SeenInv => DismissedStaysDismissed
  BY DEF SeenInv, EventInv, DismissedStaysDismissed, RemovalOrFirstHeld, Knows
<1>3. SeenInv /\ [Next]_vars => SeenInv'
  <2> SUFFICES ASSUME SeenInv, [Next]_vars PROVE SeenInv'
    OBVIOUS
  <2>1. BaseInv'
    BY BaseStep DEF SeenInv
  <2>2. CASE Next
    <3>1. kind' = kind
      BY <2>2, KindKept
    <3>2. kind = "register" \/ kind = "event" => IInv
      BY DEF SeenInv, BaseInv, IInv, ProgressInv
    <3>3. RegisterInv' /\ EventInv'
      BY <2>2, <3>1, <3>2, RegisterStep, EventStep DEF RegisterInv, EventInv
    <3> QED
      BY <2>1, <3>3 DEF SeenInv
  <2>3. CASE UNCHANGED vars
    BY <2>1, <2>3 DEF SeenInv, vars, RegisterInv, EventInv, Knows,
                      LatestHeld, RemovalOrFirstHeld
  <2> QED
    BY <2>2, <2>3
<1> QED
  BY <1>1, <1>2, <1>3, PTL DEF Spec

(***************************************************************************)
(* Taking a change, in any order and any number of times, never moves a    *)
(* replica's reader back within a reset epoch (crdt.ts:7-9).               *)
(***************************************************************************)
THEOREM TakingNeverRewinds == Spec => NeverRewound
<1> DEFINE Onward(r) ==
             \/ Earlier(current[r].reset, current'[r].reset)
             \/ /\ current[r].reset = current'[r].reset
                /\ current[r].value.read => current'[r].value.read
                /\ current[r].value.lastPage <= current'[r].value.lastPage
           Kept == kind = "progress" =>
                     \A r \in Replica : written' = written /\ Knows(r) => Onward(r)
<1>1. Init => BaseInv
  BY InitIInv DEF IInv, BaseInv
<1>2. BaseInv /\ [Next]_vars => [Kept]_vars
  <2> SUFFICES ASSUME BaseInv, Next, kind = "progress", written' = written,
                      NEW q \in Replica, Knows(q)
               PROVE  Onward(q)
    BY DEF vars
  <2>1. PICK r \in Replica, w \in Wall : \E change \in written : Take(r, w, change)
    <3>1. PICK r \in Replica, w \in Wall :
             \/ \E v \in Value \cup {Absent} : Put(r, w, v)
             \/ \E v \in Value : Notice(r, w, v)
             \/ Dismiss(r, w)
             \/ \E p \in ReadPosition : Read(r, w, p)
             \/ \E p \in ReadPosition \cup {Unread} : MarkUnread(r, w, p)
             \/ \E change \in written : Take(r, w, change)
      BY DEF Next
    <3>2. ASSUME ~(\E change \in written : Take(r, w, change))
          PROVE  FALSE
      <4>1. PICK change \in Versions :
               change.hlc = Send(clock[r], w) /\ Record(r, Send(clock[r], w), change)
        BY <3>1, <3>2, WriteRecords DEF BaseInv
      <4>2. change \notin written
        BY <4>1, RecordStep DEF BaseInv
      <4> QED
        BY <4>1, <4>2 DEF Record
    <3> QED
      BY <3>2
  <2>2. PICK change \in written : Take(r, w, change)
    BY <2>1
  <2> DEFINE held == current[q]
  <2>3. held \in Versions /\ change \in Versions /\ held.kind = "progress"
    BY DEF BaseInv, TypeOK, Versions
  <2>4. /\ held.reset \in Stamp /\ held.value \in Position
        /\ change.reset \in Stamp /\ change.value \in Position
        /\ held.value.lastPage \in Nat
    BY <2>3, ProgressTypes DEF BaseInv
  <2>5. CASE q # r
    <3>1. current'[q] = held
      BY <2>2, <2>5 DEF Take, BaseInv, TypeOK
    <3> QED
      BY <2>4, <3>1
  <2>6. CASE q = r
    <3>1. current'[q] = MergeProgress(held, change)
      BY <2>2, <2>3, <2>6 DEF Take, BaseInv, TypeOK, MergeEnvelope
    <3>2. /\ current'[q].reset = Later(held.reset, change.reset)
          /\ current'[q].value =
               IF held.reset = change.reset THEN Further(held.value, change.value)
               ELSE IF Earlier(change.reset, held.reset) THEN held.value ELSE change.value
      BY <3>1 DEF MergeProgress
    <3>3. CASE held.reset = change.reset
      BY <2>4, <3>2, <3>3, FurtherType DEF Later
    <3>4. CASE Earlier(change.reset, held.reset)
      <4>1. held.reset # change.reset /\ ~Earlier(held.reset, change.reset)
        BY <2>4, <3>4, EarlierAsymmetric, EarlierIrreflexive
      <4> QED
        BY <2>4, <3>2, <3>4, <4>1 DEF Later
    <3>5. CASE Earlier(held.reset, change.reset)
      BY <3>2, <3>5 DEF Later
    <3> QED
      BY <2>4, <3>3, <3>4, <3>5, EarlierTotal
  <2> QED
    BY <2>5, <2>6
<1> QED
  BY <1>1, <1>2, BaseStep, PTL DEF Spec, NeverRewound
=============================================================================
