-------------------------- MODULE SyncEngine_proofs --------------------------
(***************************************************************************)
(* What a round of sync keeps through every loss, stop and restoration     *)
(* (engine.ts, log.ts): the numbers of a device's segments, the content    *)
(* under each number, the user's unsent changes, the copies that were here *)
(* before sync, and, in the second half, what a vector counts.             *)
(*                                                                         *)
(* The first invariant has one part for each of the first four.  `Numbers` *)
(* ties the next number of every state an install may start from (in       *)
(* memory, saved, or backed up) to the hub's log.  `Owned` says whose log  *)
(* it is as long as nothing is put back: an id is one install's, the log   *)
(* holds what that install has numbered, and a snapshot agrees with memory *)
(* on what is pending.  `Unsent` follows an unsent change into the         *)
(* snapshot, where it must be found after a stop.  `PriorKept` has a copy  *)
(* from before sync either unknown to sync or held, in memory and in the   *)
(* snapshot.                                                               *)
(***************************************************************************)
EXTENDS SyncEngine, FiniteSetTheorems, TLAPS

Stamped == [hlc : Stamp, reset : Stamp]

\* The versions of a record, and what a library holds of it.
Version(k) == IF kind[k] = "progress" THEN Progress ELSE [kind : {kind[k]}, hlc : Stamp, value : Value \cup {Absent}]
Copy(k) == IF kind[k] = "progress" THEN Position \cup {Absent} ELSE Value \cup {Absent}

Record == {r \in [key : Key, env : Envelope] : r.env \in Version(r.key)}
Library == {s \in [Key -> Position \cup Value \cup {Absent}] : \A k \in Key : s[k] \in Copy(k)}
Engine == [device : Id \cup {0}, clock : Stamp, nextSeq : Nat \ {0}, vector : [Id -> Nat],
           stamps : [Key -> Stamped], dirty : SUBSET Key, pending : Seq(Record),
           held : SUBSET Key, adopted : BOOLEAN]

Types ==
  /\ kind \in [Key -> Kind]
  /\ store \in [Install -> Library]
  /\ mem \in [Install -> Engine] /\ saved \in [Install -> Engine]
  /\ backup \in [Install -> SUBSET [state : Engine, store : Library]]
  /\ pc \in [Install -> {"idle", "pull", "apply", "send"}]
  /\ inbox \in [Install -> SUBSET [device : Id, seq : Nat, nth : Nat]]
  /\ log \in [Id -> Seq(Seq(Record))]
  /\ nextId \in Nat \ {0} /\ restores \in Nat
  /\ unsaved \in [Install -> SUBSET Key] /\ unsent \in [Install -> SUBSET Key] /\ guarded \in [Install -> SUBSET Key]

-----------------------------------------------------------------------------
(* The clock, the stamps and the merge                                      *)

LEMMA ClockTicks ==
  ASSUME NEW s \in Stamp, NEW remote \in Stamp, NEW now \in Nat, NEW id \in Nat
  PROVE  Send(s, now) \in Stamp /\ Recv(s, remote, now) \in Stamp /\ NewClock(id, s) \in Stamp /\ NoStamp \in Stamp
  BY DEF Send, Recv, NewClock, NoStamp, Stamp, At, Larger, Followed

LEMMA PositionsJoin ==
  ASSUME NEW p \in Position, NEW q \in Position
  PROVE  Further(p, q) \in Position
  BY DEF Further, Position, Larger

LEMMA UnreadIs == Unread \in Position
  BY DEF Position, Unread

LEMMA ProgressMerges ==
  ASSUME NEW a \in Progress, NEW b \in Progress
  PROVE  MergeProgress(a, b) \in Progress /\ MergeProgress(a, b).value \in Position
<1>1. a.value \in Position /\ b.value \in Position /\ a.hlc \in Stamp /\ b.hlc \in Stamp /\ a.reset \in Stamp /\ b.reset \in Stamp
  BY DEF Progress
<1>2. Further(a.value, b.value) \in Position
  BY <1>1, PositionsJoin
<1>3. Later(a.hlc, b.hlc) \in Stamp /\ Later(a.reset, b.reset) \in Stamp
  BY <1>1 DEF Later
<1> QED
  BY <1>1, <1>2, <1>3 DEF MergeProgress, Progress

LEMMA EnvelopeOf ==
  ASSUME kind \in [Key -> Kind], NEW k \in Key, NEW value \in Copy(k), NEW stamp \in Stamped
  PROVE  /\ ToEnvelope(k, value, stamp) \in Version(k) /\ ToEnvelope(k, value, stamp) \in Envelope
         /\ [key |-> k, env |-> ToEnvelope(k, value, stamp)] \in Record
<1>1. stamp.hlc \in Stamp /\ stamp.reset \in Stamp
  BY DEF Stamped
<1>2. ToEnvelope(k, value, stamp) \in Version(k)
  <2>1. CASE kind[k] = "progress"
    <3> DEFINE shown == IF value = Absent THEN Unread ELSE value
    <3>1. shown \in Position
      BY <2>1, UnreadIs DEF Copy
    <3>2. ToEnvelope(k, value, stamp) = [kind |-> "progress", hlc |-> stamp.hlc, reset |-> stamp.reset, value |-> shown]
      BY <2>1 DEF ToEnvelope
    <3> HIDE DEF shown
    <3> QED
      BY <1>1, <2>1, <3>1, <3>2 DEF Version, Progress
  <2>2. CASE kind[k] # "progress"
    BY <1>1, <2>2 DEF ToEnvelope, Version, Copy
  <2> QED
    BY <2>1, <2>2
<1>3. Version(k) \subseteq Envelope
  <2>1. kind[k] \in {"register", "event", "progress"}
    BY DEF Kind
  <2> QED
    BY <2>1, Zenon DEF Version, Envelope, Register, Event
<1> QED
  BY <1>2, <1>3 DEF Record

LEMMA TouchedIs ==
  ASSUME NEW m \in Engine, NEW k \in Key, NEW rewind \in BOOLEAN, restores \in Nat
  PROVE  LET n == Touched(m, k, rewind)
         IN  /\ n \in Engine
             /\ n.device = m.device /\ n.nextSeq = m.nextSeq /\ n.pending = m.pending /\ n.vector = m.vector
             /\ n.held = m.held /\ n.adopted = m.adopted
             /\ n.dirty = m.dirty \cup {k}
             /\ \A j \in Key \ {k} : n.stamps[j] = m.stamps[j]
<1> DEFINE stamp == Send(m.clock, wall)
           new == [hlc |-> stamp, reset |-> IF rewind THEN stamp ELSE m.stamps[k].reset]
<1>1. m.clock \in Stamp /\ m.stamps \in [Key -> Stamped] /\ m.stamps[k] \in Stamped /\ m.stamps[k].reset \in Stamp
  BY DEF Engine, Stamped
<1>2. stamp \in Stamp
  BY <1>1, ClockTicks DEF wall
<1>3. new \in Stamped
  BY <1>1, <1>2 DEF Stamped
<1>4. Touched(m, k, rewind) = [m EXCEPT !.clock = stamp, !.stamps = [m.stamps EXCEPT ![k] = new], !.dirty = m.dirty \cup {k}]
  BY <1>1 DEF Touched
<1> HIDE DEF stamp
<1> HIDE DEF new
<1>5. [m.stamps EXCEPT ![k] = new] \in [Key -> Stamped]
  BY <1>1, <1>3
<1>6. m \in [device : {m.device}, clock : Stamp, nextSeq : {m.nextSeq}, vector : {m.vector}, stamps : [Key -> Stamped],
             dirty : SUBSET Key, pending : {m.pending}, held : {m.held}, adopted : {m.adopted}]
  BY DEF Engine
<1>7. Touched(m, k, rewind) \in [device : {m.device}, clock : Stamp, nextSeq : {m.nextSeq}, vector : {m.vector},
                                 stamps : {[m.stamps EXCEPT ![k] = new]}, dirty : {m.dirty \cup {k}},
                                 pending : {m.pending}, held : {m.held}, adopted : {m.adopted}]
  BY <1>2, <1>4, <1>6
<1>8. Touched(m, k, rewind) \in Engine
  BY <1>5, <1>7 DEF Engine
<1> QED
  BY <1>1, <1>7, <1>8

\* What applying a change to a record may do to an engine and its library.
Applied(m, s, k, a) ==
  /\ a.mem \in Engine /\ a.store \in Library
  /\ a.mem.device = m.device /\ a.mem.nextSeq = m.nextSeq /\ a.mem.pending = m.pending
  /\ a.mem.vector = m.vector /\ a.mem.adopted = m.adopted /\ m.held \subseteq a.mem.held
  /\ \A j \in Key \ {k} : /\ a.mem.stamps[j] = m.stamps[j] /\ a.store[j] = s[j]
                          /\ j \in a.mem.dirty <=> j \in m.dirty

\* A copy nobody may delete: one sync has not met, or has met in the pull that goes on.
Sheltered(m, s, k) == s[k] # Absent /\ (~Known(m, k) \/ k \in m.held)

LEMMA TakenIs ==
  ASSUME NEW m \in Engine, NEW s \in Library, NEW k \in Key, kind \in [Key -> Kind],
         NEW stamp \in Stamped, NEW value \in Copy(k), NEW held \in SUBSET Key, m.held \subseteq held,
         NEW dirty \in SUBSET Key, dirty \in {m.dirty, m.dirty \ {k}}
  PROVE  LET n == [m EXCEPT !.held = held, !.stamps = [m.stamps EXCEPT ![k] = stamp], !.dirty = dirty]
             t == [s EXCEPT ![k] = value]
         IN  /\ Applied(m, s, k, Outcome(n, t)) /\ Applied(m, s, k, Outcome(n, s))
             /\ n.held = held /\ t[k] = value
<1> DEFINE stamps == [m.stamps EXCEPT ![k] = stamp]
           n == [m EXCEPT !.held = held, !.stamps = stamps, !.dirty = dirty]
           t == [s EXCEPT ![k] = value]
<1>1. m.stamps \in [Key -> Stamped] /\ m.dirty \in SUBSET Key
  BY DEF Engine
<1>2. stamps \in [Key -> Stamped] /\ \A j \in Key \ {k} : stamps[j] = m.stamps[j]
  BY <1>1
<1>3. m \in [device : {m.device}, clock : {m.clock}, nextSeq : {m.nextSeq}, vector : {m.vector}, stamps : [Key -> Stamped],
             dirty : SUBSET Key, pending : {m.pending}, held : SUBSET Key, adopted : {m.adopted}]
  BY DEF Engine
<1>4. n \in [device : {m.device}, clock : {m.clock}, nextSeq : {m.nextSeq}, vector : {m.vector}, stamps : {stamps},
             dirty : {dirty}, pending : {m.pending}, held : {held}, adopted : {m.adopted}]
  <2> HIDE DEF stamps
  <2> QED
    BY <1>3
<1> HIDE DEF n
<1>5. m.device \in Id \cup {0} /\ m.clock \in Stamp /\ m.nextSeq \in Nat \ {0} /\ m.vector \in [Id -> Nat] /\ m.pending \in Seq(Record)
      /\ m.adopted \in BOOLEAN
  BY DEF Engine
<1>6. n \in Engine
  <2> HIDE DEF stamps
  <2> QED
    BY <1>2, <1>4, <1>5 DEF Engine
<1>7. s \in [Key -> Position \cup Value \cup {Absent}] /\ \A j \in Key : s[j] \in Copy(j)
  BY DEF Library
<1>8. Copy(k) \subseteq Position \cup Value \cup {Absent}
  BY DEF Copy
<1>9. t \in Library /\ t[k] = value /\ \A j \in Key \ {k} : t[j] = s[j]
  BY <1>7, <1>8 DEF Library
<1>10. n.device = m.device /\ n.nextSeq = m.nextSeq /\ n.pending = m.pending /\ n.vector = m.vector /\ n.adopted = m.adopted
       /\ n.held = held /\ n.stamps = stamps /\ n.dirty = dirty
  BY <1>4
<1> HIDE DEF t
<1>11. \A u \in Library : Outcome(n, u).mem = n /\ Outcome(n, u).store = u
  BY DEF Outcome
<1>12. \A j \in Key \ {k} : j \in dirty <=> j \in m.dirty
  OBVIOUS
<1>13. \A u \in Library : (\A j \in Key \ {k} : u[j] = s[j]) => Applied(m, s, k, Outcome(n, u))
  <2> HIDE DEF stamps
  <2> QED
    BY <1>2, <1>6, <1>10, <1>11, <1>12 DEF Applied
<1>14. Applied(m, s, k, Outcome(n, t)) /\ Applied(m, s, k, Outcome(n, s))
  BY <1>9, <1>13
<1> QED
  BY <1>9, <1>10, <1>14 DEF n, t

LEMMA HeardIs ==
  ASSUME NEW m \in Engine, NEW remote \in Stamp, restores \in Nat
  PROVE  LET n == [m EXCEPT !.clock = Recv(@, remote, wall)]
         IN  /\ n \in Engine
             /\ n.device = m.device /\ n.nextSeq = m.nextSeq /\ n.pending = m.pending /\ n.vector = m.vector
             /\ n.held = m.held /\ n.adopted = m.adopted /\ n.dirty = m.dirty /\ n.stamps = m.stamps
<1>1. m.clock \in Stamp
  BY DEF Engine
<1>2. Recv(m.clock, remote, wall) \in Stamp
  BY <1>1, ClockTicks DEF wall
<1> QED
  BY <1>2 DEF Engine

\* A deletion of a copy that is sheltered is refused, and it stays sheltered.
LEMMA RegisterIs ==
  ASSUME NEW m \in Engine, NEW s \in Library, NEW k \in Key, kind \in [Key -> Kind], restores \in Nat,
         kind[k] = "register", NEW env \in Version(k)
  PROVE  LET a == ApplyRegister(m, s, k, env)
         IN  Applied(m, s, k, a) /\ (Sheltered(m, s, k) => Sheltered(a.mem, a.store, k))
<1> DEFINE held == IF ~Known(m, k) /\ s[k] # Absent THEN m.held \cup {k} ELSE m.held
           a == ApplyRegister(m, s, k, env)
           stamp == [hlc |-> env.hlc, reset |-> NoStamp]
<1>1. env.hlc \in Stamp /\ env.value \in Copy(k) /\ env.kind = "register"
  BY DEF Version, Copy
<1>2. stamp \in Stamped
  BY <1>1, ClockTicks DEF Stamped
<1>3. m.held \in SUBSET Key /\ m.dirty \in SUBSET Key /\ m.stamps \in [Key -> Stamped]
  BY DEF Engine
<1>4. held \in SUBSET Key /\ m.held \subseteq held /\ (~Known(m, k) /\ s[k] # Absent => k \in held)
  BY <1>3
<1> HIDE DEF held
<1>5. CASE a = Outcome(m, s)
  <2>1. a.mem = m /\ a.store = s
    BY <1>5 DEF Outcome
  <2> HIDE DEF a
  <2>2. Applied(m, s, k, a)
    BY <2>1 DEF Applied
  <2> QED
    BY <2>1, <2>2 DEF a
<1>6. CASE a = Outcome(Touched([m EXCEPT !.held = held], k, FALSE), s) /\ k \in held
  <2> DEFINE h == [m EXCEPT !.held = held]
             n == Touched(h, k, FALSE)
  <2>1. h \in Engine /\ h.device = m.device /\ h.nextSeq = m.nextSeq /\ h.pending = m.pending /\ h.vector = m.vector
        /\ h.adopted = m.adopted /\ h.held = held /\ h.dirty = m.dirty /\ h.stamps = m.stamps
    BY <1>4 DEF Engine
  <2> HIDE DEF h
  <2>2. /\ n \in Engine
        /\ n.device = h.device /\ n.nextSeq = h.nextSeq /\ n.pending = h.pending /\ n.vector = h.vector
        /\ n.held = h.held /\ n.adopted = h.adopted
        /\ n.dirty = h.dirty \cup {k}
        /\ \A j \in Key \ {k} : n.stamps[j] = h.stamps[j]
    BY <2>1, TouchedIs
  <2> HIDE DEF n
  <2>3. a.mem = n /\ a.store = s
    BY <1>6 DEF Outcome, n, h
  <2> HIDE DEF a
  <2>4. Applied(m, s, k, a)
    BY <1>4, <2>1, <2>2, <2>3 DEF Applied
  <2>5. Sheltered(m, s, k) => Sheltered(a.mem, a.store, k)
    BY <1>6, <2>1, <2>2, <2>3 DEF Sheltered
  <2> QED
    BY <2>4, <2>5 DEF a
<1>7. CASE /\ a = Outcome([m EXCEPT !.held = held, !.stamps[k] = stamp, !.dirty = @ \ {k}], [s EXCEPT ![k] = env.value])
           /\ ~(k \in held /\ ~IsLive(env))
  <2> DEFINE n == [m EXCEPT !.held = held, !.stamps = [m.stamps EXCEPT ![k] = stamp], !.dirty = m.dirty \ {k}]
             t == [s EXCEPT ![k] = env.value]
  <2>1. a = Outcome(n, t)
    BY <1>7
  <2>2. Applied(m, s, k, Outcome(n, t)) /\ n.held = held /\ t[k] = env.value
    <3> DEFINE dirty == m.dirty \ {k}
    <3>1. dirty \in SUBSET Key /\ dirty \in {m.dirty, m.dirty \ {k}}
      BY <1>3
    <3> HIDE DEF stamp
    <3> HIDE DEF dirty
    <3>2. Applied(m, s, k, Outcome([m EXCEPT !.held = held, !.stamps = [m.stamps EXCEPT ![k] = stamp], !.dirty = dirty],
                                   [s EXCEPT ![k] = env.value]))
      BY <1>1, <1>2, <1>4, <3>1, TakenIs, ZenonT(60)
    <3>3. n.held = held
      BY DEF Engine
    <3>4. t[k] = env.value
      BY DEF Library
    <3> QED
      BY <3>2, <3>3, <3>4 DEF dirty
  <2>3. a.mem = n /\ a.store = t
    BY <2>1 DEF Outcome
  <2> HIDE DEF a
  <2> HIDE DEF n
  <2> HIDE DEF t
  <2>4. Sheltered(m, s, k) => Sheltered(a.mem, a.store, k)
    BY <1>1, <1>4, <1>7, <2>2, <2>3 DEF Sheltered, IsLive
  <2> QED
    BY <2>1, <2>2, <2>4 DEF a
<1> QED
  BY <1>5, <1>6, <1>7 DEF ApplyRegister, held

LEMMA EventIs ==
  ASSUME NEW m \in Engine, NEW s \in Library, NEW k \in Key, kind \in [Key -> Kind],
         kind[k] = "event", NEW env \in Version(k)
  PROVE  Applied(m, s, k, ApplyEvent(m, s, k, env))
<1> DEFINE stamp == [hlc |-> env.hlc, reset |-> NoStamp]
<1>1. env.hlc \in Stamp /\ env.value \in Copy(k)
  BY DEF Version, Copy
<1>2. stamp \in Stamped
  BY <1>1, ClockTicks DEF Stamped
<1>3. m.held \in SUBSET Key /\ m.dirty \in SUBSET Key /\ m.stamps \in [Key -> Stamped]
  BY DEF Engine
<1>4. CASE ApplyEvent(m, s, k, env) = Outcome(m, s)
  BY <1>4 DEF Outcome, Applied
<1>5. CASE ApplyEvent(m, s, k, env) = Outcome([m EXCEPT !.stamps[k] = stamp, !.dirty = @ \ {k}], [s EXCEPT ![k] = env.value])
  <2>1. [m EXCEPT !.stamps[k] = stamp, !.dirty = @ \ {k}]
          = [m EXCEPT !.held = m.held, !.stamps = [m.stamps EXCEPT ![k] = stamp], !.dirty = m.dirty \ {k}]
    BY DEF Engine
  <2> DEFINE dirty == m.dirty \ {k}
             held == m.held
  <2>2. dirty \in SUBSET Key /\ dirty \in {m.dirty, m.dirty \ {k}} /\ held \in SUBSET Key /\ m.held \subseteq held
    BY <1>3
  <2> HIDE DEF stamp
  <2> HIDE DEF dirty
  <2> HIDE DEF held
  <2>3. Applied(m, s, k, Outcome([m EXCEPT !.held = held, !.stamps = [m.stamps EXCEPT ![k] = stamp], !.dirty = dirty],
                                 [s EXCEPT ![k] = env.value]))
    BY <1>1, <1>2, <2>2, TakenIs
  <2> QED
    BY <1>5, <2>1, <2>3 DEF dirty, held
<1> QED
  BY <1>4, <1>5 DEF ApplyEvent

LEMMA ProgressIs ==
  ASSUME NEW m \in Engine, NEW s \in Library, NEW k \in Key, kind \in [Key -> Kind],
         kind[k] = "progress", NEW env \in Version(k)
  PROVE  Applied(m, s, k, ApplyProgress(m, s, k, env))
<1> DEFINE met == Known(m, k) \/ s[k] # Absent
           known == IF Known(m, k) THEN m.stamps[k] ELSE [hlc |-> env.hlc, reset |-> NoStamp]
           local == ToEnvelope(k, s[k], known)
           merged == IF met THEN MergeProgress(local, env) ELSE env
           stamp == [hlc |-> merged.hlc, reset |-> merged.reset]
<1>1. env \in Progress /\ env.hlc \in Stamp
  BY DEF Version, Progress
<1>2. m.held \in SUBSET Key /\ m.dirty \in SUBSET Key /\ m.stamps \in [Key -> Stamped] /\ m.stamps[k] \in Stamped
  BY DEF Engine
<1>3. known \in Stamped
  BY <1>1, <1>2, ClockTicks DEF Stamped
<1>4. s[k] \in Copy(k)
  BY DEF Library
<1> HIDE DEF known
<1>5. local \in Progress
  BY <1>3, <1>4, EnvelopeOf DEF Version
<1> HIDE DEF local
<1>6. merged \in Progress
  BY <1>1, <1>5, ProgressMerges
<1> HIDE DEF merged
<1>7. merged.hlc \in Stamp /\ merged.reset \in Stamp /\ merged.value \in Copy(k)
  BY <1>6 DEF Progress, Copy
<1>8. stamp \in Stamped
  BY <1>7 DEF Stamped
<1> DEFINE n == [m EXCEPT !.held = m.held, !.stamps = [m.stamps EXCEPT ![k] = stamp], !.dirty = m.dirty]
<1>9. [m EXCEPT !.stamps[k] = stamp] = n
  BY DEF Engine
<1>10. \/ ApplyProgress(m, s, k, env) = Outcome([m EXCEPT !.stamps[k] = stamp], s)
       \/ ApplyProgress(m, s, k, env) = Outcome([m EXCEPT !.stamps[k] = stamp], [s EXCEPT ![k] = merged.value])
  BY DEF ApplyProgress, merged, local, known
<1> HIDE DEF stamp
<1>11. Applied(m, s, k, Outcome(n, s)) /\ Applied(m, s, k, Outcome(n, [s EXCEPT ![k] = merged.value]))
  BY <1>2, <1>7, <1>8, TakenIs
<1> QED
  BY <1>9, <1>10, <1>11

LEMMA ApplyIs ==
  ASSUME NEW m \in Engine, NEW s \in Library, NEW k \in Key, kind \in [Key -> Kind], restores \in Nat, NEW env \in Version(k)
  PROVE  LET a == Apply(m, s, k, env)
         IN  Applied(m, s, k, a) /\ (kind[k] = "register" /\ Sheltered(m, s, k) => Sheltered(a.mem, a.store, k))
<1> DEFINE h == [m EXCEPT !.clock = Recv(@, env.hlc, wall)]
<1>1. env.hlc \in Stamp
  BY DEF Version, Progress
<1>2. /\ h \in Engine
      /\ h.device = m.device /\ h.nextSeq = m.nextSeq /\ h.pending = m.pending /\ h.vector = m.vector
      /\ h.held = m.held /\ h.adopted = m.adopted /\ h.dirty = m.dirty /\ h.stamps = m.stamps
  BY <1>1, HeardIs
<1> HIDE DEF h
<1>3. \A a : Applied(h, s, k, a) => Applied(m, s, k, a)
  BY <1>2 DEF Applied
<1>4. Sheltered(m, s, k) <=> Sheltered(h, s, k)
  BY <1>2 DEF Sheltered, Known
<1>5. kind[k] \in {"register", "event", "progress"}
  BY DEF Kind
<1>6. CASE kind[k] = "register"
  <2>1. Apply(m, s, k, env) = ApplyRegister(h, s, k, env)
    BY <1>6 DEF Apply, h
  <2> QED
    BY <1>2, <1>3, <1>4, <1>6, <2>1, RegisterIs
<1>7. CASE kind[k] = "event"
  <2>1. Apply(m, s, k, env) = ApplyEvent(h, s, k, env)
    BY <1>7 DEF Apply, h
  <2> QED
    BY <1>2, <1>3, <1>7, <2>1, EventIs
<1>8. CASE kind[k] = "progress"
  <2>1. Apply(m, s, k, env) = ApplyProgress(h, s, k, env)
    BY <1>8 DEF Apply, h
  <2> QED
    BY <1>2, <1>3, <1>8, <2>1, ProgressIs
<1> QED
  BY <1>5, <1>6, <1>7, <1>8

\* The vector alone moves when a segment has been applied.
LEMMA AdvancedIs ==
  ASSUME NEW m \in Engine, NEW ref \in [device : Id, seq : Nat, nth : Nat]
  PROVE  LET n == Advanced(m, ref)
         IN  /\ n \in Engine
             /\ n.device = m.device /\ n.nextSeq = m.nextSeq /\ n.pending = m.pending /\ n.stamps = m.stamps
             /\ n.held = m.held /\ n.adopted = m.adopted /\ n.dirty = m.dirty
<1> DEFINE vector == [m.vector EXCEPT ![ref.device] = Larger(@, ref.seq)]
<1>1. m.vector \in [Id -> Nat] /\ ref.device \in Id /\ ref.seq \in Nat
  BY DEF Engine
<1>2. vector \in [Id -> Nat]
  BY <1>1 DEF Larger
<1>3. Advanced(m, ref) \in {m, [m EXCEPT !.vector = vector]}
  BY DEF Advanced
<1> HIDE DEF vector
<1> QED
  BY <1>2, <1>3 DEF Engine

LEMMA AdoptedIs ==
  ASSUME NEW m \in Engine, NEW strangers \in SUBSET Key, restores \in Nat
  PROVE  LET n == Adopted(m, strangers)
         IN  /\ n \in Engine
             /\ n.device = m.device /\ n.nextSeq = m.nextSeq /\ n.pending = m.pending /\ n.vector = m.vector
             /\ n.held = m.held /\ n.dirty = m.dirty \cup strangers
<1> DEFINE first == Send(m.clock, wall)
           nth(n) == [first EXCEPT !.counter = @ + n]
           stamp(k) == nth(Cardinality({j \in strangers : j < k}))
           clock == IF strangers = {} THEN m.clock ELSE nth(Cardinality(strangers) - 1)
           stamps == [k \in Key |-> IF k \in strangers THEN [hlc |-> stamp(k), reset |-> NoStamp] ELSE m.stamps[k]]
           dirty == m.dirty \cup strangers
<1>1. /\ m.clock \in Stamp /\ m.stamps \in [Key -> Stamped] /\ m.dirty \in SUBSET Key
      /\ m.device \in Id \cup {0} /\ m.nextSeq \in Nat \ {0} /\ m.vector \in [Id -> Nat] /\ m.pending \in Seq(Record)
      /\ m.held \in SUBSET Key
  BY DEF Engine
<1>2. first \in Stamp /\ NoStamp \in Stamp
  BY <1>1, ClockTicks DEF wall
<1>3. \A n \in Nat : nth(n) \in Stamp
  <2> HIDE DEF first
  <2> QED
    BY <1>2 DEF Stamp
<1>4. IsFiniteSet(strangers)
  BY EngineAssumption, FS_Subset
<1>5. \A k \in Key : Cardinality({j \in strangers : j < k}) \in Nat
  <2>1. \A k \in Key : {j \in strangers : j < k} \subseteq strangers
    OBVIOUS
  <2>2. \A k \in Key : IsFiniteSet({j \in strangers : j < k})
    BY <1>4, <2>1, FS_Subset
  <2> QED
    BY <2>2, FS_CardinalityType
<1>6. strangers # {} => Cardinality(strangers) - 1 \in Nat
  <2>1. Cardinality(strangers) \in Nat /\ (Cardinality(strangers) = 0 <=> strangers = {})
    BY <1>4, FS_CardinalityType, FS_EmptySet
  <2> QED
    BY <2>1
<1>7. \A k \in Key : stamp(k) \in Stamp
  <2> HIDE DEF nth
  <2> QED
    BY <1>3, <1>5
<1>8. clock \in Stamp
  <2> HIDE DEF nth
  <2> QED
    BY <1>1, <1>3, <1>6
<1>9. stamps \in [Key -> Stamped]
  <2> HIDE DEF stamp
  <2> QED
    BY <1>1, <1>2, <1>7 DEF Stamped
<1>10. Adopted(m, strangers) = [m EXCEPT !.clock = clock, !.stamps = stamps, !.dirty = dirty, !.adopted = TRUE]
  BY <1>1 DEF Adopted
<1>11. dirty \in SUBSET Key
  BY <1>1
<1>12. m \in [device : {m.device}, clock : Stamp, nextSeq : {m.nextSeq}, vector : {m.vector}, stamps : [Key -> Stamped],
              dirty : SUBSET Key, pending : {m.pending}, held : {m.held}, adopted : BOOLEAN]
  BY DEF Engine
<1> HIDE DEF clock
<1> HIDE DEF stamps
<1> HIDE DEF dirty
<1>13. Adopted(m, strangers) \in [device : {m.device}, clock : {clock}, nextSeq : {m.nextSeq}, vector : {m.vector},
                                  stamps : {stamps}, dirty : {dirty}, pending : {m.pending}, held : {m.held}, adopted : {TRUE}]
  BY <1>10, <1>12
<1>14. Adopted(m, strangers) \in Engine
  BY <1>1, <1>8, <1>9, <1>11, <1>13 DEF Engine
<1> QED
  BY <1>13, <1>14 DEF dirty

\* A segment takes at least one of the unsent keys, and none that is not unsent.
LEMMA NextKeysAre ==
  ASSUME NEW dirty \in SUBSET Key, dirty # {}, NEW keys \in NextKeys(dirty)
  PROVE  \E n \in Nat \ {0} : keys \in [1..n -> dirty]
<1> DEFINE size == IF Cardinality(dirty) < SegmentSize THEN Cardinality(dirty) ELSE SegmentSize
<1>1. IsFiniteSet(dirty)
  BY EngineAssumption, FS_Subset
<1>2. Cardinality(dirty) \in Nat /\ Cardinality(dirty) # 0
  BY <1>1, FS_CardinalityType, FS_EmptySet
<1>3. size \in Nat \ {0}
  BY <1>2, EngineAssumption
<1>4. keys \in [1..size -> dirty]
  BY DEF NextKeys
<1> QED
  BY <1>3, <1>4

LEMMA BuiltIs ==
  ASSUME Types, NEW d \in Install, Building(d), NEW keys \in NextKeys(mem[d].dirty)
  PROVE  LET n == Built(d, keys) IN
         /\ n \in Engine
         /\ n.device = mem[d].device /\ n.nextSeq = mem[d].nextSeq + 1 /\ n.vector = mem[d].vector
         /\ n.stamps = mem[d].stamps /\ n.held = mem[d].held
         /\ n.pending # <<>>
         /\ n.dirty \cup PendingKeys(n) = mem[d].dirty
<1> DEFINE m == mem[d]
           envelope(k) == ToEnvelope(k, store[d][k], m.stamps[k])
           pending == [i \in DOMAIN keys |-> [key |-> keys[i], env |-> envelope(keys[i])]]
           taken == {keys[i] : i \in DOMAIN keys}
           dirty == m.dirty \ taken
           nextSeq == m.nextSeq + 1
<1>1. m \in Engine /\ store[d] \in Library /\ kind \in [Key -> Kind] /\ m.dirty # {}
  BY DEF Types, Building
<1>2. /\ m.clock \in Stamp /\ m.stamps \in [Key -> Stamped] /\ m.dirty \in SUBSET Key
      /\ m.device \in Id \cup {0} /\ m.nextSeq \in Nat \ {0} /\ m.vector \in [Id -> Nat]
      /\ m.held \in SUBSET Key /\ m.adopted \in BOOLEAN
  BY <1>1 DEF Engine
<1>3. PICK n \in Nat \ {0} : keys \in [1..n -> m.dirty]
  BY <1>1, <1>2, NextKeysAre
<1>4. \A k \in Key : [key |-> k, env |-> envelope(k)] \in Record
  BY <1>1, <1>2, EnvelopeOf DEF Library
<1>5. DOMAIN keys = 1..n /\ \A i \in 1..n : keys[i] \in m.dirty /\ keys[i] \in Key
  BY <1>2, <1>3
<1>6. pending \in [1..n -> Record]
  <2> HIDE DEF envelope
  <2> QED
    BY <1>4, <1>5
<1>7. pending \in Seq(Record) /\ pending # <<>> /\ DOMAIN pending = 1..n
  <2>1. Len(pending) = n /\ DOMAIN pending = 1..n
    BY <1>5
  <2> HIDE DEF pending
  <2> QED
    BY <1>3, <1>6, <2>1
<1>8. {pending[i].key : i \in DOMAIN pending} = taken
  <2> HIDE DEF envelope
  <2> QED
    BY <1>5
<1>9. dirty \in SUBSET Key /\ dirty \cup taken = m.dirty /\ nextSeq \in Nat \ {0}
  BY <1>2, <1>5
<1>10. Built(d, keys) = [m EXCEPT !.pending = pending, !.nextSeq = nextSeq, !.dirty = dirty]
  BY DEF Built
<1>11. m \in [device : {m.device}, clock : {m.clock}, nextSeq : Nat \ {0}, vector : {m.vector}, stamps : {m.stamps},
              dirty : SUBSET Key, pending : Seq(Record), held : {m.held}, adopted : {m.adopted}]
  BY <1>1 DEF Engine
<1> HIDE DEF pending
<1> HIDE DEF dirty
<1> HIDE DEF nextSeq
<1> HIDE DEF taken
<1>12. Built(d, keys) \in [device : {m.device}, clock : {m.clock}, nextSeq : {nextSeq}, vector : {m.vector}, stamps : {m.stamps},
                           dirty : {dirty}, pending : {pending}, held : {m.held}, adopted : {m.adopted}]
  BY <1>10, <1>11
<1>13. Built(d, keys) \in Engine
  BY <1>2, <1>7, <1>9, <1>12 DEF Engine
<1>14. PendingKeys(Built(d, keys)) = taken
  BY <1>8, <1>12 DEF PendingKeys
<1> QED
  BY <1>7, <1>9, <1>12, <1>13, <1>14 DEF nextSeq

-----------------------------------------------------------------------------
(* The invariant                                                            *)

\* What is waiting to be applied is at the hub.
InboxFiled ==
  \A d \in Install : \A ref \in inbox[d] :
    ref.seq \in 1..Len(log[ref.device]) /\ ref.nth \in DOMAIN log[ref.device][ref.seq]

\* A state's next number is the one after its log's, its pending segment counted.
Numbered(m) ==
  /\ m.pending # <<>> => m.nextSeq > 1
  /\ m.device # 0 => m.nextSeq - 1 <= Len(log[m.device]) + (IF m.pending = <<>> THEN 0 ELSE 1)

Numbers ==
  /\ \A d \in Install : mem[d].device # 0 /\ Numbered(mem[d]) /\ Numbered(saved[d])
  /\ \A d \in Install : \A b \in backup[d] : b.state.device # 0 /\ Numbered(b.state)

Same(m, n) == m.device = n.device /\ m.nextSeq = n.nextSeq /\ m.pending = n.pending

\* As long as no install is put back, an id's log is the work of one install: all of what
\* it has numbered, but perhaps for the segment pending, which is the same in its snapshot.
Landed(m) ==
  IF m.pending = <<>> THEN Len(log[m.device]) = m.nextSeq - 1
  ELSE \/ Len(log[m.device]) = m.nextSeq - 2
       \/ Len(log[m.device]) = m.nextSeq - 1 /\ log[m.device][m.nextSeq - 1] = m.pending

Owned ==
  "save" \notin BuildFaults /\ restores = 0 =>
    /\ \A d, e \in Install : mem[d].device = mem[e].device => d = e
    /\ \A d \in Install : mem[d].device < nextId /\ Landed(mem[d])
    /\ \A i \in Id : i >= nextId => log[i] = <<>>
    /\ \A d \in Install : Same(saved[d], mem[d])
                          \/ (saved[d].device = 0 /\ log[mem[d].device] = <<>> /\ mem[d].pending = <<>>)

\* What is unsent is in memory, and in the snapshot unless it was changed since.
Covers(m) == m.dirty \cup PendingKeys(m)

Unsent ==
  ~LoseTouches /\ "read" \notin BuildFaults =>
    \A d \in Install : /\ unsent[d] \subseteq Covers(mem[d])
                       /\ unsent[d] \subseteq Covers(saved[d]) \cup unsaved[d]
                       /\ saved[d].device = 0 => Covers(saved[d]) = {}

\* What was here before sync is sheltered, in memory and in what a stop would leave of it.
PriorKept ==
  \A d \in Install : \A k \in guarded[d] :
    kind[k] = "register" /\ Sheltered(mem[d], store[d], k) /\ Sheltered(saved[d], store[d], k)

EngineInv == Types /\ InboxFiled /\ Numbers /\ Owned /\ Unsent /\ PriorKept

-----------------------------------------------------------------------------
(* What steps that neither number a segment nor land one leave standing     *)

LEMMA NumbersStand ==
  ASSUME EngineInv, UNCHANGED <<log, nextId, restores>>,
         \A d \in Install : Same(mem'[d], mem[d]),
         \A d \in Install : saved'[d] = saved[d] \/ saved'[d] = mem'[d],
         \A d \in Install : \A b \in backup'[d] : b \in backup[d] \/ (b.state = saved[d] /\ saved[d].device # 0)
  PROVE  Numbers' /\ Owned'
<1>1. ASSUME NEW d \in Install PROVE (mem[d].device # 0 /\ Numbered(mem[d]) /\ Numbered(saved[d]))'
  <2>1. mem[d].device # 0 /\ Numbered(mem[d]) /\ Numbered(saved[d])
    BY DEF EngineInv, Numbers
  <2>2. (mem[d].device # 0 /\ Numbered(mem[d]))'
    BY <2>1 DEF Numbered, Same
  <2>3. CASE saved'[d] = saved[d]
    BY <2>1, <2>2, <2>3 DEF Numbered
  <2>4. CASE saved'[d] = mem'[d]
    BY <2>2, <2>4 DEF Numbered
  <2> QED
    BY <2>2, <2>3, <2>4
<1>2. ASSUME NEW d \in Install, NEW b \in backup'[d] PROVE b.state.device # 0 /\ Numbered(b.state)'
  <2>1. b.state.device # 0 /\ Numbered(b.state)
    BY <1>2 DEF EngineInv, Numbers
  <2> QED
    BY <2>1 DEF Numbered
<1>3. Owned'
  BY DEF EngineInv, Owned, Landed, Same
<1> QED
  BY <1>1, <1>2, <1>3 DEF Numbers, Numbered

\* A log that grows leaves a state numbered.
LEMMA NumberedGrows ==
  ASSUME log \in [Id -> Seq(Seq(Record))], log' \in [Id -> Seq(Seq(Record))], \A i \in Id : Len(log[i]) <= Len(log'[i])
  PROVE  \A m \in Engine : Numbered(m) =>
           /\ m.pending # <<>> => m.nextSeq > 1
           /\ m.device # 0 => m.nextSeq - 1 <= Len(log'[m.device]) + (IF m.pending = <<>> THEN 0 ELSE 1)
<1> SUFFICES ASSUME NEW m \in Engine, Numbered(m), m.device # 0
             PROVE  m.nextSeq - 1 <= Len(log'[m.device]) + (IF m.pending = <<>> THEN 0 ELSE 1)
  BY DEF Numbered
<1>1. m.device \in Id /\ m.nextSeq \in Nat
  BY DEF Engine
<1>2. Len(log[m.device]) \in Nat /\ Len(log'[m.device]) \in Nat /\ Len(log[m.device]) <= Len(log'[m.device])
  BY <1>1
<1>3. m.nextSeq - 1 <= Len(log[m.device]) + (IF m.pending = <<>> THEN 0 ELSE 1)
  BY DEF Numbered
<1>4. \A x, y, p, c \in Nat : x <= y /\ p - 1 <= x + c => p - 1 <= y + c
  OBVIOUS
<1> DEFINE waiting == IF m.pending = <<>> THEN 0 ELSE 1
<1>5. waiting \in Nat
  OBVIOUS
<1> HIDE DEF waiting
<1>6. m.nextSeq - 1 <= Len(log'[m.device]) + waiting
  BY <1>1, <1>2, <1>3, <1>4, <1>5 DEF waiting
<1> QED
  BY <1>6 DEF waiting

\* A step of one install, which may number a segment or land one, and start the install anew.
LEMMA OneNumbered ==
  ASSUME EngineInv, NEW d \in Install,
         \A e \in Install \ {d} : mem'[e] = mem[e] /\ saved'[e] = saved[e],
         backup' = backup,
         log' \in [Id -> Seq(Seq(Record))],
         \A i \in Id : Len(log[i]) <= Len(log'[i]),
         \A i \in Id \ {mem[d].device} : log'[i] = log[i],
         (mem[d].device # 0 /\ Numbered(mem[d]) /\ Numbered(saved[d]))',
         "save" \notin BuildFaults /\ restores' = 0 =>
           /\ restores = 0
           /\ \/ nextId' = nextId /\ mem'[d].device = mem[d].device
              \/ nextId' = nextId + 1 /\ mem'[d].device = nextId
           /\ Landed(mem[d])'
           /\ (Same(saved[d], mem[d]) \/ (saved[d].device = 0 /\ log[mem[d].device] = <<>> /\ mem[d].pending = <<>>))'
  PROVE  Numbers' /\ Owned'
<1>1. /\ mem \in [Install -> Engine] /\ saved \in [Install -> Engine] /\ log \in [Id -> Seq(Seq(Record))]
      /\ backup \in [Install -> SUBSET [state : Engine, store : Library]] /\ nextId \in Nat
  BY DEF EngineInv, Types
<1>2. \A m \in Engine : Numbered(m) =>
        /\ m.pending # <<>> => m.nextSeq > 1
        /\ m.device # 0 => m.nextSeq - 1 <= Len(log'[m.device]) + (IF m.pending = <<>> THEN 0 ELSE 1)
  BY <1>1, NumberedGrows
<1>3. Numbers'
  <2>1. ASSUME NEW e \in Install PROVE (mem[e].device # 0 /\ Numbered(mem[e]) /\ Numbered(saved[e]))'
    <3>1. CASE e = d
      BY <3>1
    <3>2. CASE e # d
      <4>1. mem[e].device # 0 /\ Numbered(mem[e]) /\ Numbered(saved[e]) /\ mem[e] \in Engine /\ saved[e] \in Engine
        BY <1>1 DEF EngineInv, Numbers
      <4>2. mem'[e] = mem[e] /\ saved'[e] = saved[e]
        BY <3>2
      <4> QED
        BY <1>2, <4>1, <4>2 DEF Numbered
    <3> QED
      BY <3>1, <3>2
  <2>2. ASSUME NEW e \in Install, NEW b \in backup[e] PROVE b.state.device # 0 /\ Numbered(b.state)'
    <3>1. b.state.device # 0 /\ Numbered(b.state) /\ b.state \in Engine
      BY <1>1 DEF EngineInv, Numbers
    <3> QED
      BY <1>2, <3>1 DEF Numbered
  <2> QED
    BY <2>1, <2>2 DEF Numbers, Numbered
<1>4. Owned'
  <2> SUFFICES ASSUME "save" \notin BuildFaults, restores' = 0
               PROVE  (/\ \A e, f \in Install : mem[e].device = mem[f].device => e = f
                       /\ \A e \in Install : mem[e].device < nextId /\ Landed(mem[e])
                       /\ \A i \in Id : i >= nextId => log[i] = <<>>
                       /\ \A e \in Install : \/ Same(saved[e], mem[e])
                                             \/ saved[e].device = 0 /\ log[mem[e].device] = <<>> /\ mem[e].pending = <<>>)'
    BY DEF Owned
  <2>0. /\ restores = 0
        /\ \/ nextId' = nextId /\ mem'[d].device = mem[d].device
           \/ nextId' = nextId + 1 /\ mem'[d].device = nextId
        /\ Landed(mem[d])'
        /\ (Same(saved[d], mem[d]) \/ (saved[d].device = 0 /\ log[mem[d].device] = <<>> /\ mem[d].pending = <<>>))'
    OBVIOUS
  <2>1. /\ \A e, f \in Install : mem[e].device = mem[f].device => e = f
        /\ \A e \in Install : mem[e].device < nextId /\ Landed(mem[e])
        /\ \A i \in Id : i >= nextId => log[i] = <<>>
        /\ \A e \in Install : \/ Same(saved[e], mem[e])
                              \/ saved[e].device = 0 /\ log[mem[e].device] = <<>> /\ mem[e].pending = <<>>
    <3>1. Owned
      BY DEF EngineInv
    <3>2. "save" \notin BuildFaults /\ restores = 0
      BY <2>0
    <3> QED
      BY <3>1, <3>2, Zenon DEF Owned
  <2>2. \A e \in Install : mem[e].device \in Id
    BY <1>1 DEF EngineInv, Numbers, Engine
  <2>3. Id \subseteq Nat
    BY DEF Id
  <2>4. \A e \in Install \ {d} : mem'[e].device # mem'[d].device
    <3> SUFFICES ASSUME NEW e \in Install \ {d} PROVE mem'[e].device # mem'[d].device
      OBVIOUS
    <3>1. mem[e].device \in Nat /\ mem[e].device < nextId /\ nextId \in Nat /\ mem[e].device # mem[d].device
      BY <1>1, <2>1, <2>2, <2>3
    <3>2. mem'[e].device = mem[e].device
      OBVIOUS
    <3> QED
      BY <2>0, <3>1, <3>2
  <2>5. \A e, f \in Install : mem'[e].device = mem'[f].device => e = f
    BY <2>1, <2>4
  <2>6. ASSUME NEW e \in Install PROVE mem'[e].device < nextId'
    <3>1. mem[e].device \in Nat /\ mem[e].device < nextId /\ nextId \in Nat
      BY <1>1, <2>1, <2>2, <2>3
    <3>2. mem'[e].device = mem[e].device \/ (mem'[e].device = nextId /\ nextId' = nextId + 1)
      BY <2>0
    <3>3. nextId' = nextId \/ nextId' = nextId + 1
      BY <2>0
    <3> QED
      BY <3>1, <3>2, <3>3
  <2>7. \A e \in Install \ {d} : log'[mem[e].device] = log[mem[e].device]
    BY <2>1, <2>2
  <2>8. ASSUME NEW e \in Install PROVE Landed(mem[e])'
    <3>1. CASE e = d
      BY <2>0, <3>1
    <3>2. CASE e # d
      <4>1. mem'[e] = mem[e] /\ log'[mem[e].device] = log[mem[e].device] /\ Landed(mem[e])
        BY <2>1, <2>7, <3>2
      <4> QED
        BY <4>1 DEF Landed
    <3> QED
      BY <3>1, <3>2
  <2>9. \A i \in Id : i >= nextId' => log'[i] = <<>>
    BY <1>1, <2>0, <2>1, <2>2, <2>3
  <2>10. ASSUME NEW e \in Install
         PROVE  (\/ Same(saved[e], mem[e])
                 \/ saved[e].device = 0 /\ log[mem[e].device] = <<>> /\ mem[e].pending = <<>>)'
    <3>1. CASE e = d
      BY <2>0, <3>1
    <3>2. CASE e # d
      <4>1. mem'[e] = mem[e] /\ saved'[e] = saved[e] /\ log'[mem[e].device] = log[mem[e].device]
        BY <2>1, <2>7, <3>2
      <4> QED
        BY <2>1, <4>1 DEF Same
    <3> QED
      BY <3>1, <3>2
  <2>11. (\A e, f \in Install : mem[e].device = mem[f].device => e = f)'
    BY <2>5
  <2>12. (\A e \in Install : mem[e].device < nextId /\ Landed(mem[e]))'
    BY <2>6, <2>8
  <2>13. (\A i \in Id : i >= nextId => log[i] = <<>>)'
    BY <2>9
  <2>14. (\A e \in Install : \/ Same(saved[e], mem[e])
                             \/ saved[e].device = 0 /\ log[mem[e].device] = <<>> /\ mem[e].pending = <<>>)'
    BY <2>10
  <2> QED
    BY <2>11, <2>12, <2>13, <2>14
<1> QED
  BY <1>3, <1>4

LEMMA InboxStands ==
  ASSUME EngineInv, UNCHANGED log, \A d \in Install : inbox'[d] \subseteq inbox[d]
  PROVE  InboxFiled'
  BY DEF EngineInv, InboxFiled

LEMMA GrownInboxStands ==
  ASSUME EngineInv, \A d \in Install : inbox'[d] \subseteq inbox[d],
         log' \in [Id -> Seq(Seq(Record))],
         \A i \in Id : Len(log[i]) <= Len(log'[i]) /\ \A n \in 1..Len(log[i]) : log'[i][n] = log[i][n]
  PROVE  InboxFiled'
<1> SUFFICES ASSUME NEW d \in Install, NEW ref \in inbox'[d]
             PROVE  ref.seq \in 1..Len(log'[ref.device]) /\ ref.nth \in DOMAIN log'[ref.device][ref.seq]
  BY DEF InboxFiled
<1>1. ref.seq \in 1..Len(log[ref.device]) /\ ref.nth \in DOMAIN log[ref.device][ref.seq] /\ ref.device \in Id /\ ref.seq \in Nat
  BY DEF EngineInv, InboxFiled, Types
<1>2. Len(log[ref.device]) \in Nat /\ Len(log'[ref.device]) \in Nat
  BY <1>1 DEF EngineInv, Types
<1>3. log'[ref.device][ref.seq] = log[ref.device][ref.seq] /\ Len(log[ref.device]) <= Len(log'[ref.device])
  BY <1>1
<1> QED
  BY <1>1, <1>2, <1>3

\* A step that leaves an engine's stamps and its library, and forgets no copy held.
LEMMA PriorStands ==
  ASSUME EngineInv, UNCHANGED <<kind, store>>,
         \A d \in Install : guarded'[d] \subseteq guarded[d],
         \A d \in Install : guarded'[d] # {} => mem'[d].stamps = mem[d].stamps /\ mem[d].held \subseteq mem'[d].held,
         \A d \in Install : saved'[d] = saved[d] \/ saved'[d] = mem'[d]
  PROVE  PriorKept'
<1> SUFFICES ASSUME NEW d \in Install, NEW k \in guarded'[d]
             PROVE  kind[k] = "register" /\ Sheltered(mem[d], store[d], k)' /\ Sheltered(saved[d], store[d], k)'
  BY DEF PriorKept, Sheltered, Known
<1>1. kind[k] = "register" /\ Sheltered(mem[d], store[d], k) /\ Sheltered(saved[d], store[d], k)
  BY DEF EngineInv, PriorKept
<1>2. mem'[d].stamps = mem[d].stamps /\ mem[d].held \subseteq mem'[d].held
  OBVIOUS
<1>3. Sheltered(mem[d], store[d], k)'
  BY <1>1, <1>2 DEF Sheltered, Known
<1>4. CASE saved'[d] = saved[d]
  BY <1>1, <1>3, <1>4 DEF Sheltered, Known
<1>5. CASE saved'[d] = mem'[d]
  BY <1>1, <1>3, <1>5 DEF Sheltered, Known
<1> QED
  BY <1>1, <1>3, <1>4, <1>5

\* A step after which what is unsent is covered in memory, and by what is written of it.
LEMMA UnsentStands ==
  ASSUME EngineInv,
         \A d \in Install : unsent'[d] \subseteq unsent[d],
         \A d \in Install : mem'[d] # mem[d] => unsent'[d] \subseteq Covers(mem'[d]) \/ "read" \in BuildFaults \/ LoseTouches,
         \A d \in Install : \/ saved'[d] = saved[d] /\ unsaved[d] \subseteq unsaved'[d]
                            \/ saved'[d] = mem'[d] /\ mem'[d].device # 0
  PROVE  Unsent'
<1> SUFFICES ASSUME ~LoseTouches, "read" \notin BuildFaults, NEW d \in Install
             PROVE  (/\ unsent[d] \subseteq Covers(mem[d])
                     /\ unsent[d] \subseteq Covers(saved[d]) \cup unsaved[d]
                     /\ saved[d].device = 0 => Covers(saved[d]) = {})'
  BY DEF Unsent
<1>1. /\ unsent[d] \subseteq Covers(mem[d])
      /\ unsent[d] \subseteq Covers(saved[d]) \cup unsaved[d]
      /\ saved[d].device = 0 => Covers(saved[d]) = {}
  BY DEF EngineInv, Unsent
<1>2. unsent'[d] \subseteq Covers(mem'[d])
  BY <1>1
<1>3. unsent'[d] \subseteq unsent[d]
  OBVIOUS
<1>4. CASE saved'[d] = saved[d] /\ unsaved[d] \subseteq unsaved'[d]
  BY <1>1, <1>2, <1>3, <1>4, ZenonT(60) DEF Covers, PendingKeys
<1>5. CASE saved'[d] = mem'[d] /\ mem'[d].device # 0
  BY <1>2, <1>5 DEF Covers, PendingKeys
<1> QED
  BY <1>4, <1>5

-----------------------------------------------------------------------------
(* The user, and a page pulled and applied                                  *)

LEMMA WriteKeeps ==
  ASSUME EngineInv, NEW d \in Install, NEW k \in Key, NEW value \in Copy(k), NEW rewind \in BOOLEAN, Write(d, k, value, rewind)
  PROVE  EngineInv'
<1>1. /\ store' = [store EXCEPT ![d][k] = value] /\ mem' = [mem EXCEPT ![d] = Touched(@, k, rewind)]
      /\ unsaved' = [unsaved EXCEPT ![d] = @ \cup {k}] /\ unsent' = [unsent EXCEPT ![d] = @ \cup {k}]
      /\ guarded' = [guarded EXCEPT ![d] = @ \ {k}]
      /\ UNCHANGED <<kind, saved, backup, pc, inbox, log, nextId, restores>>
  BY DEF Write, host
<1>2. /\ Types /\ mem[d] \in Engine /\ store[d] \in Library /\ restores \in Nat
      /\ mem \in [Install -> Engine] /\ store \in [Install -> Library]
      /\ unsaved \in [Install -> SUBSET Key] /\ unsent \in [Install -> SUBSET Key] /\ guarded \in [Install -> SUBSET Key]
  BY DEF EngineInv, Types
<1> DEFINE n == Touched(mem[d], k, rewind)
<1>3. /\ n \in Engine /\ Same(n, mem[d]) /\ n.held = mem[d].held /\ n.dirty = mem[d].dirty \cup {k}
      /\ \A j \in Key \ {k} : n.stamps[j] = mem[d].stamps[j]
  BY <1>2, TouchedIs DEF Same
<1> HIDE DEF n
<1>4. mem' \in [Install -> Engine] /\ mem'[d] = n /\ \A e \in Install \ {d} : mem'[e] = mem[e]
  BY <1>1, <1>2, <1>3 DEF n
<1>5. store' \in [Install -> Library] /\ (\A e \in Install \ {d} : store'[e] = store[e]) /\ \A j \in Key \ {k} : store'[d][j] = store[d][j]
  <2>1. [store[d] EXCEPT ![k] = value] \in Library /\ \A j \in Key \ {k} : [store[d] EXCEPT ![k] = value][j] = store[d][j]
    BY <1>2 DEF Library, Copy
  <2>2. store' = [store EXCEPT ![d] = [store[d] EXCEPT ![k] = value]]
    BY <1>1
  <2> QED
    BY <1>2, <2>1, <2>2
<1>6. Types'
  <2>1. Engine' = Engine /\ Library' = Library /\ Record' = Record
    BY <1>1 DEF Engine, Library, Record, Version, Copy
  <2> QED
    BY <1>1, <1>2, <1>4, <1>5, <2>1 DEF Types
<1>7. InboxFiled'
  BY <1>1, InboxStands
<1>8. Numbers' /\ Owned'
  BY <1>1, <1>3, <1>4, NumbersStand DEF Same
<1>9. Unsent'
  <2> SUFFICES ASSUME ~LoseTouches, "read" \notin BuildFaults, NEW e \in Install
               PROVE  (/\ unsent[e] \subseteq Covers(mem[e])
                       /\ unsent[e] \subseteq Covers(saved[e]) \cup unsaved[e]
                       /\ saved[e].device = 0 => Covers(saved[e]) = {})'
    BY DEF Unsent
  <2>1. /\ unsent[e] \subseteq Covers(mem[e])
        /\ unsent[e] \subseteq Covers(saved[e]) \cup unsaved[e]
        /\ saved[e].device = 0 => Covers(saved[e]) = {}
    BY DEF EngineInv, Unsent
  <2>2. Covers(mem[d])' = Covers(mem[d]) \cup {k}
    BY <1>3, <1>4 DEF Covers, PendingKeys, Same
  <2>3. e # d => Covers(mem[e])' = Covers(mem[e])
    BY <1>4 DEF Covers, PendingKeys
  <2>4. Covers(saved[e])' = Covers(saved[e])
    BY <1>1 DEF Covers, PendingKeys
  <2> QED
    BY <1>1, <1>2, <2>1, <2>2, <2>3, <2>4
<1>10. PriorKept'
  <2> SUFFICES ASSUME NEW e \in Install, NEW j \in guarded'[e]
               PROVE  kind[j] = "register" /\ Sheltered(mem[e], store[e], j)' /\ Sheltered(saved[e], store[e], j)'
    BY <1>1 DEF PriorKept, Sheltered, Known
  <2>1. j \in guarded[e] /\ j \in Key /\ (e = d => j # k)
    BY <1>1, <1>2
  <2>2. kind[j] = "register" /\ Sheltered(mem[e], store[e], j) /\ Sheltered(saved[e], store[e], j)
    BY <2>1 DEF EngineInv, PriorKept
  <2>3. store'[e][j] = store[e][j] /\ mem'[e].stamps[j] = mem[e].stamps[j] /\ mem'[e].held = mem[e].held
    BY <1>3, <1>4, <1>5, <2>1
  <2> QED
    BY <1>1, <2>2, <2>3 DEF Sheltered, Known
<1> QED
  BY <1>6, <1>7, <1>8, <1>9, <1>10 DEF EngineInv

LEMMA UserWritesKeep ==
  ASSUME EngineInv, NEW d \in Install, UserWrites(d)
  PROVE  EngineInv'
<1>1. PICK k \in Key : \/ \E v \in Value \cup {Absent} : Put(d, k, v)
                       \/ \E v \in Value : Notice(d, k, v)
                       \/ Dismiss(d, k)
                       \/ \E p \in ReadPosition : Read(d, k, p)
                       \/ \E p \in ReadPosition \cup {Absent} : MarkUnread(d, k, p)
  BY DEF UserWrites
<1>2. ReadPosition \subseteq Position
  BY EngineAssumption DEF ReadPosition, Position
<1>3. \E value \in Copy(k), rewind \in BOOLEAN : Write(d, k, value, rewind)
  BY <1>1, <1>2 DEF Put, Notice, Dismiss, Read, MarkUnread, Copy
<1> QED
  BY <1>3, WriteKeeps

LEMMA PullKeeps ==
  ASSUME EngineInv, NEW d \in Install, Pull(d)
  PROVE  EngineInv'
<1> DEFINE page == PullPage(Missing(mem[d].vector))
<1>1. /\ inbox' = [inbox EXCEPT ![d] = page] /\ pc' = [pc EXCEPT ![d] = IF inbox'[d] = {} THEN "send" ELSE "apply"]
      /\ UNCHANGED <<kind, store, mem, saved, backup, log, nextId, unsaved, unsent, guarded, restores>>
  BY DEF Pull, ghosts, counters
<1>2. /\ Types /\ mem[d].vector \in [Id -> Nat] /\ log \in [Id -> Seq(Seq(Record))]
  BY DEF EngineInv, Types, Engine
<1>3. ASSUME NEW ref \in page
      PROVE  /\ ref \in [device : Id, seq : Nat, nth : Nat]
             /\ ref.seq \in 1..Len(log[ref.device]) /\ ref.nth \in DOMAIN log[ref.device][ref.seq]
  <2>1. PICK i \in Id : ref \in Places(i, mem[d].vector[i] + 1 .. Len(log[i]))
    BY DEF PullPage, Missing
  <2>2. PICK n \in mem[d].vector[i] + 1 .. Len(log[i]) : ref \in {[device |-> i, seq |-> n, nth |-> r] : r \in DOMAIN log[i][n]}
    BY <2>1 DEF Places
  <2>3. PICK r \in DOMAIN log[i][n] : ref = [device |-> i, seq |-> n, nth |-> r]
    BY <2>2
  <2>4. log[i] \in Seq(Seq(Record)) /\ Len(log[i]) \in Nat /\ mem[d].vector[i] \in Nat
    BY <1>2
  <2>5. n \in 1..Len(log[i]) /\ n \in Nat
    BY <2>4
  <2>6. log[i][n] \in Seq(Record)
    BY <2>4, <2>5
  <2>7. r \in Nat
    BY <2>6
  <2> QED
    BY <2>3, <2>5, <2>7
<1> HIDE DEF page
<1>4. page \subseteq [device : Id, seq : Nat, nth : Nat]
  BY <1>3
<1>5. Types'
  <2>1. Engine' = Engine /\ Library' = Library /\ Record' = Record
    BY <1>1 DEF Engine, Library, Record, Version, Copy
  <2> QED
    BY <1>1, <1>2, <1>4, <2>1 DEF Types
<1>6. InboxFiled'
  <2> SUFFICES ASSUME NEW e \in Install, NEW ref \in inbox'[e]
               PROVE  ref.seq \in 1..Len(log[ref.device]) /\ ref.nth \in DOMAIN log[ref.device][ref.seq]
    BY <1>1 DEF InboxFiled
  <2>1. CASE e = d
    BY <1>1, <1>2, <1>3, <2>1 DEF Types
  <2>2. CASE e # d
    BY <1>1, <1>2, <2>2 DEF EngineInv, InboxFiled, Types
  <2> QED
    BY <2>1, <2>2
<1>7. Numbers' /\ Owned' /\ PriorKept' /\ Unsent'
  BY <1>1, NumbersStand, PriorStands, UnsentStands DEF Same
<1> QED
  BY <1>5, <1>6, <1>7 DEF EngineInv

LEMMA ApplyRecordKeeps ==
  ASSUME EngineInv, NEW d \in Install, ApplyRecord(d)
  PROVE  EngineInv'
<1>1. PICK ref \in inbox[d] :
        LET record == log[ref.device][ref.seq][ref.nth]
            applied == Apply(mem[d], store[d], record.key, record.env)
        IN  /\ mem' = [mem EXCEPT ![d] = Advanced(applied.mem, ref)]
            /\ store' = [store EXCEPT ![d] = applied.store]
            /\ unsent' = [unsent EXCEPT ![d] =
                 IF record.key \in applied.mem.dirty THEN @ ELSE @ \ {record.key}]
            /\ inbox' = [inbox EXCEPT ![d] = @ \ {ref}]
  BY ZenonT(60) DEF ApplyRecord
<1>2. UNCHANGED <<kind, saved, backup, pc, log, nextId, unsaved, guarded, restores>>
  BY DEF ApplyRecord, counters
<1>3. /\ Types /\ mem[d] \in Engine /\ store[d] \in Library /\ restores \in Nat /\ kind \in [Key -> Kind]
      /\ mem \in [Install -> Engine] /\ store \in [Install -> Library] /\ log \in [Id -> Seq(Seq(Record))]
      /\ unsent \in [Install -> SUBSET Key] /\ guarded \in [Install -> SUBSET Key]
      /\ inbox \in [Install -> SUBSET [device : Id, seq : Nat, nth : Nat]]
  BY DEF EngineInv, Types
<1> DEFINE record == log[ref.device][ref.seq][ref.nth]
           k == record.key
           a == Apply(mem[d], store[d], record.key, record.env)
           n == Advanced(a.mem, ref)
<1>4. /\ mem' = [mem EXCEPT ![d] = n] /\ store' = [store EXCEPT ![d] = a.store]
      /\ unsent' = [unsent EXCEPT ![d] = IF k \in a.mem.dirty THEN @ ELSE @ \ {k}]
      /\ inbox' = [inbox EXCEPT ![d] = @ \ {ref}]
  BY <1>1
<1>5. ref \in [device : Id, seq : Nat, nth : Nat]
  BY <1>3
<1>6. record \in Record
  <2>1. ref.seq \in 1..Len(log[ref.device]) /\ ref.nth \in DOMAIN log[ref.device][ref.seq]
    BY DEF EngineInv, InboxFiled
  <2>2. log[ref.device] \in Seq(Seq(Record))
    BY <1>3, <1>5
  <2>3. log[ref.device][ref.seq] \in Seq(Record)
    BY <2>1, <2>2
  <2> QED
    BY <2>1, <2>3
<1> HIDE DEF record
<1>7. k \in Key /\ record.env \in Version(k)
  BY <1>6 DEF Record
<1>8. Applied(mem[d], store[d], k, a) /\ (kind[k] = "register" /\ Sheltered(mem[d], store[d], k) => Sheltered(a.mem, a.store, k))
  BY <1>3, <1>7, ApplyIs
<1> HIDE DEF a
<1>9. a.mem \in Engine /\ a.store \in Library
  BY <1>8 DEF Applied
<1>10. /\ n \in Engine
       /\ n.device = a.mem.device /\ n.nextSeq = a.mem.nextSeq /\ n.pending = a.mem.pending /\ n.stamps = a.mem.stamps
       /\ n.held = a.mem.held /\ n.dirty = a.mem.dirty
  BY <1>5, <1>9, AdvancedIs
<1> HIDE DEF n
<1> HIDE DEF k
<1>11. Same(n, mem[d])
  BY <1>8, <1>10 DEF Applied, Same
<1>12. Types'
  <2>1. Engine' = Engine /\ Library' = Library /\ Record' = Record
    BY <1>2 DEF Engine, Library, Record, Version, Copy
  <2>2. mem' \in [Install -> Engine] /\ store' \in [Install -> Library] /\ unsent' \in [Install -> SUBSET Key]
        /\ inbox' \in [Install -> SUBSET [device : Id, seq : Nat, nth : Nat]]
    BY <1>3, <1>4, <1>9, <1>10
  <2> QED
    BY <1>2, <1>3, <2>1, <2>2 DEF Types
<1>13. mem'[d] = n /\ store'[d] = a.store /\ \A e \in Install \ {d} : mem'[e] = mem[e] /\ store'[e] = store[e]
  BY <1>3, <1>4
<1>14. InboxFiled'
  BY <1>2, <1>3, <1>4, InboxStands
<1>15. Numbers' /\ Owned'
  BY <1>2, <1>11, <1>13, NumbersStand DEF Same
<1>16. Unsent'
  <2>1. unsent'[d] \subseteq unsent[d] /\ (k \notin a.mem.dirty => k \notin unsent'[d]) /\ \A e \in Install \ {d} : unsent'[e] = unsent[e]
    BY <1>3, <1>4
  <2>2. ASSUME ~LoseTouches, "read" \notin BuildFaults PROVE unsent'[d] \subseteq Covers(mem'[d])
    <3>1. unsent[d] \subseteq Covers(mem[d])
      BY <2>2 DEF EngineInv, Unsent
    <3>2. PendingKeys(n) = PendingKeys(mem[d])
      BY <1>11 DEF PendingKeys, Same
    <3>3. \A j \in Key \ {k} : j \in n.dirty <=> j \in mem[d].dirty
      BY <1>8, <1>10 DEF Applied
    <3>4. unsent[d] \subseteq Key
      BY <1>3
    <3>5. \A j \in unsent'[d] : j \in Covers(n)
      BY <1>10, <2>1, <3>1, <3>2, <3>3, <3>4 DEF Covers
    <3>6. Covers(mem'[d]) = Covers(n)
      BY <1>13
    <3> QED
      BY <3>5, <3>6
  <2>3. \A e \in Install : mem'[e] # mem[e] => e = d
    BY <1>13
  <2>4. \A e \in Install : unsent'[e] \subseteq unsent[e]
    BY <2>1
  <2> QED
    BY <1>2, <2>2, <2>3, <2>4, UnsentStands
<1>17. PriorKept'
  <2> SUFFICES ASSUME NEW e \in Install, NEW j \in guarded[e]
               PROVE  kind[j] = "register" /\ Sheltered(mem'[e], store'[e], j) /\ Sheltered(saved[e], store'[e], j)
    BY <1>2 DEF PriorKept, Sheltered, Known
  <2>1. kind[j] = "register" /\ Sheltered(mem[e], store[e], j) /\ Sheltered(saved[e], store[e], j) /\ j \in Key
    BY <1>3 DEF EngineInv, PriorKept
  <2>2. CASE e # d
    BY <1>13, <2>1, <2>2
  <2>3. CASE e = d /\ j = k
    <3>1. Sheltered(a.mem, a.store, k)
      BY <1>8, <2>1, <2>3
    <3>2. Sheltered(n, a.store, k)
      BY <1>10, <3>1 DEF Sheltered, Known
    <3> QED
      BY <1>13, <2>1, <2>3, <3>2 DEF Sheltered
  <2>4. CASE e = d /\ j # k
    <3>1. n.stamps[j] = mem[d].stamps[j] /\ a.store[j] = store[d][j] /\ mem[d].held \subseteq n.held
      BY <1>8, <1>10, <2>1, <2>4 DEF Applied
    <3> QED
      BY <1>13, <2>1, <2>4, <3>1 DEF Sheltered, Known
  <2> QED
    BY <2>2, <2>3, <2>4
<1> QED
  BY <1>12, <1>14, <1>15, <1>16, <1>17 DEF EngineInv

LEMMA PersistPageKeeps ==
  ASSUME EngineInv, NEW d \in Install, PersistPage(d)
  PROVE  EngineInv'
<1>1. /\ mem' = [mem EXCEPT ![d] = mem[d]] /\ saved' = [saved EXCEPT ![d] = mem[d]] /\ unsaved' = [unsaved EXCEPT ![d] = {}]
      /\ pc' = [pc EXCEPT ![d] = IF more[d] THEN "pull" ELSE "send"]
      /\ UNCHANGED <<kind, store, backup, inbox, log, nextId, unsent, guarded, restores>>
  BY DEF PersistPage, Persist, counters
<1>2. Types
  BY DEF EngineInv
<1>3. Types'
  <2>1. Engine' = Engine /\ Library' = Library /\ Record' = Record
    BY <1>1 DEF Engine, Library, Record, Version, Copy
  <2> QED
    BY <1>1, <1>2, <2>1 DEF Types
<1>4. mem' = mem /\ (\A e \in Install : saved'[e] = IF e = d THEN mem[d] ELSE saved[e])
      /\ \A e \in Install : unsaved'[e] = IF e = d THEN {} ELSE unsaved[e]
  BY <1>1, <1>2 DEF Types
<1>5. mem[d].device # 0
  BY DEF EngineInv, Numbers
<1>6. InboxFiled'
  BY <1>1, InboxStands
<1>7. Numbers' /\ Owned'
  BY <1>1, <1>4, NumbersStand DEF Same
<1>8. PriorKept'
  BY <1>1, <1>4, PriorStands
<1>9. Unsent'
  BY <1>1, <1>4, <1>5, UnsentStands
<1> QED
  BY <1>3, <1>6, <1>7, <1>8, <1>9 DEF EngineInv

-----------------------------------------------------------------------------
(* A segment built and sent                                                 *)

\* What a segment built leaves of an engine, whether or not its snapshot was written.
LEMMA BuiltKeeps ==
  ASSUME EngineInv, NEW d \in Install, Building(d), NEW keys \in NextKeys(mem[d].dirty),
         mem' = [mem EXCEPT ![d] = Built(d, keys)],
         \A e \in Install \ {d} : saved'[e] = saved[e] /\ unsaved'[e] = unsaved[e],
         \/ saved'[d] = mem'[d]
         \/ saved'[d] = saved[d] /\ unsaved'[d] = unsaved[d] /\ "save" \in BuildFaults,
         UNCHANGED <<kind, store, backup, log, nextId, unsent, guarded, restores>>
  PROVE  Numbers' /\ Owned' /\ Unsent' /\ PriorKept' /\ mem' \in [Install -> Engine]
<1> DEFINE n == Built(d, keys)
<1>1. Types /\ mem[d] \in Engine /\ mem \in [Install -> Engine] /\ log \in [Id -> Seq(Seq(Record))]
  BY DEF EngineInv, Types
<1>2. /\ n \in Engine
      /\ n.device = mem[d].device /\ n.nextSeq = mem[d].nextSeq + 1 /\ n.vector = mem[d].vector
      /\ n.stamps = mem[d].stamps /\ n.held = mem[d].held
      /\ n.pending # <<>>
      /\ n.dirty \cup PendingKeys(n) = mem[d].dirty
  BY <1>1, BuiltIs
<1> HIDE DEF n
<1>3. mem' \in [Install -> Engine] /\ mem'[d] = n /\ \A e \in Install \ {d} : mem'[e] = mem[e]
  BY <1>1, <1>2 DEF n
<1>4. /\ mem[d].pending = <<>> /\ mem[d].device \in Id /\ mem[d].nextSeq \in Nat \ {0}
      /\ Numbered(mem[d]) /\ Numbered(saved[d]) /\ mem[d].device # 0
  BY <1>1 DEF EngineInv, Numbers, Building, Engine
<1>5. Len(log[mem[d].device]) \in Nat
  BY <1>1, <1>4
<1>6. n.nextSeq > 1 /\ n.nextSeq - 1 <= Len(log[n.device]) + 1
  <2>1. mem[d].nextSeq - 1 <= Len(log[mem[d].device])
    BY <1>4, <1>5 DEF Numbered
  <2> QED
    BY <1>2, <1>4, <1>5, <2>1
<1>7. (mem[d].device # 0 /\ Numbered(mem[d]))'
  BY <1>2, <1>3, <1>4, <1>6 DEF Numbered
<1>8. Numbered(saved[d])'
  BY <1>4, <1>7 DEF Numbered
<1>9. "save" \notin BuildFaults /\ restores' = 0 =>
           /\ restores = 0
           /\ \/ nextId' = nextId /\ mem'[d].device = mem[d].device
              \/ nextId' = nextId + 1 /\ mem'[d].device = nextId
           /\ Landed(mem[d])'
           /\ (Same(saved[d], mem[d]) \/ (saved[d].device = 0 /\ log[mem[d].device] = <<>> /\ mem[d].pending = <<>>))'
  <2> SUFFICES ASSUME "save" \notin BuildFaults, restores = 0
               PROVE  Landed(mem[d])' /\ Same(saved[d], mem[d])'
    BY <1>2, <1>3
  <2>1. Len(log[mem[d].device]) = mem[d].nextSeq - 1
    BY <1>4 DEF EngineInv, Owned, Landed
  <2>2. Len(log[n.device]) = n.nextSeq - 2
    BY <1>2, <1>4, <1>5, <2>1
  <2> QED
    BY <1>2, <1>3, <2>2 DEF Landed, Same
<1>10. \A e \in Install \ {d} : mem'[e] = mem[e] /\ saved'[e] = saved[e]
  BY <1>3
<1>11. log' \in [Id -> Seq(Seq(Record))] /\ (\A i \in Id : Len(log[i]) <= Len(log'[i])) /\ \A i \in Id \ {mem[d].device} : log'[i] = log[i]
  <2>1. \A i \in Id : Len(log[i]) \in Nat
    BY <1>1
  <2> QED
    BY <1>1, <2>1
<1>12. Numbers' /\ Owned'
  BY <1>7, <1>8, <1>9, <1>10, <1>11, OneNumbered
<1>13. Covers(mem[d]) = Covers(n)
  BY <1>2, <1>4 DEF Covers, PendingKeys
<1>14. \A e \in Install : mem'[e] # mem[e] => unsent'[e] \subseteq Covers(mem'[e]) \/ "read" \in BuildFaults \/ LoseTouches
  <2>1. Covers(mem'[d]) = Covers(mem[d])
    BY <1>3, <1>13
  <2> QED
    BY <1>3, <2>1 DEF EngineInv, Unsent
<1>15. \A e \in Install : \/ saved'[e] = saved[e] /\ unsaved[e] \subseteq unsaved'[e]
                          \/ saved'[e] = mem'[e] /\ mem'[e].device # 0
  BY <1>7
<1>16. Unsent'
  BY <1>14, <1>15, UnsentStands
<1>17. PriorKept'
  <2>1. \A e \in Install : mem'[e].stamps = mem[e].stamps /\ mem[e].held \subseteq mem'[e].held
    BY <1>2, <1>3
  <2> QED
    BY <1>15, <2>1, PriorStands
<1> QED
  BY <1>3, <1>12, <1>16, <1>17

LEMMA BuildKeeps ==
  ASSUME EngineInv, NEW d \in Install, Build(d)
  PROVE  EngineInv'
<1>1. PICK keys \in NextKeys(mem[d].dirty) : Persist(d, Built(d, keys))
  BY DEF Build
<1>2. /\ Building(d) /\ mem' = [mem EXCEPT ![d] = Built(d, keys)] /\ saved' = [saved EXCEPT ![d] = Built(d, keys)]
      /\ unsaved' = [unsaved EXCEPT ![d] = {}]
      /\ UNCHANGED <<kind, store, backup, pc, inbox, log, nextId, unsent, guarded, restores>>
  BY <1>1 DEF Build, Persist, host, counters
<1>3. Types /\ mem \in [Install -> Engine] /\ saved \in [Install -> Engine] /\ unsaved \in [Install -> SUBSET Key]
  BY DEF EngineInv, Types
<1>4. saved'[d] = mem'[d] /\ \A e \in Install \ {d} : saved'[e] = saved[e] /\ unsaved'[e] = unsaved[e]
  BY <1>2, <1>3
<1>5. Numbers' /\ Owned' /\ Unsent' /\ PriorKept' /\ mem' \in [Install -> Engine]
  BY <1>2, <1>4, BuiltKeeps
<1>6. saved' \in [Install -> Engine] /\ unsaved' \in [Install -> SUBSET Key]
  <2>1. mem'[d] \in Engine
    BY <1>5
  <2>2. saved' = [saved EXCEPT ![d] = mem'[d]]
    BY <1>2, <1>3
  <2> QED
    BY <1>2, <1>3, <2>1, <2>2
<1>7. Types'
  <2>1. Engine' = Engine /\ Library' = Library /\ Record' = Record
    BY <1>2 DEF Engine, Library, Record, Version, Copy
  <2> QED
    BY <1>2, <1>3, <1>5, <1>6, <2>1 DEF Types
<1>8. InboxFiled'
  BY <1>2, InboxStands
<1> QED
  BY <1>5, <1>7, <1>8 DEF EngineInv

\* The hub takes the pending segment, or has it: the log is then what was numbered.
LEMMA LandsIs ==
  ASSUME EngineInv, NEW d \in Install, Lands(d)
  PROVE  /\ log' \in [Id -> Seq(Seq(Record))]
         /\ \A i \in Id : Len(log[i]) <= Len(log'[i]) /\ \A n \in 1..Len(log[i]) : log'[i][n] = log[i][n]
         /\ \A i \in Id \ {mem[d].device} : log'[i] = log[i]
         /\ mem[d].nextSeq - 1 <= Len(log'[mem[d].device])
         /\ "save" \notin BuildFaults /\ restores = 0 =>
              /\ Len(log'[mem[d].device]) = mem[d].nextSeq - 1
              /\ log'[mem[d].device][mem[d].nextSeq - 1] = mem[d].pending
<1> DEFINE i == mem[d].device
           head == Len(log[i])
           pending == mem[d].pending
           seq == mem[d].nextSeq - 1
<1>1. log \in [Id -> Seq(Seq(Record))] /\ mem[d] \in Engine
  BY DEF EngineInv, Types
<1>2. i \in Id /\ mem[d].nextSeq \in Nat \ {0} /\ pending \in Seq(Record) /\ pending # <<>>
  BY <1>1 DEF EngineInv, Numbers, Engine, Lands, Sending
<1>3. \A j \in Id : log[j] \in Seq(Seq(Record)) /\ Len(log[j]) \in Nat
  BY <1>1
<1>4. seq \in Nat /\ head \in Nat
  BY <1>2, <1>3
<1>5. "save" \notin BuildFaults /\ restores = 0 => head = seq - 1 \/ (head = seq /\ log[i][seq] = pending)
  <2> SUFFICES ASSUME "save" \notin BuildFaults, restores = 0 PROVE head = seq - 1 \/ (head = seq /\ log[i][seq] = pending)
    OBVIOUS
  <2>1. Landed(mem[d])
    BY DEF EngineInv, Owned
  <2>2. mem[d].nextSeq - 2 = seq - 1
    BY <1>2
  <2> QED
    BY <1>2, <2>1, <2>2 DEF Landed
<1>6. CASE Resent(d)
  <2>1. log' = log /\ seq <= head /\ log[i][seq] = pending
    BY <1>6 DEF Lands, Resent, Seq0, Head0
  <2>2. "save" \notin BuildFaults /\ restores = 0 => head = seq
    BY <1>4, <1>5, <2>1
  <2> QED
    BY <1>1, <1>3, <1>4, <2>1, <2>2
<1>7. CASE ~Resent(d)
  <2>1. seq = head + 1 /\ log' = [log EXCEPT ![i] = Append(@, pending)]
    BY <1>7 DEF Lands, Seq0, Head0
  <2>2. Append(log[i], pending) \in Seq(Seq(Record))
    BY <1>2, <1>3
  <2>3. log' \in [Id -> Seq(Seq(Record))] /\ log'[i] = Append(log[i], pending) /\ \A j \in Id \ {i} : log'[j] = log[j]
    BY <1>1, <1>2, <2>1, <2>2
  <2>4. Len(log'[i]) = head + 1 /\ log'[i][head + 1] = pending /\ \A n \in 1..head : log'[i][n] = log[i][n]
    BY <1>2, <1>3, <2>3
  <2>5. ASSUME NEW j \in Id
        PROVE  Len(log[j]) <= Len(log'[j]) /\ \A n \in 1..Len(log[j]) : log'[j][n] = log[j][n]
    <3>1. CASE j = i
      <4>1. Len(log[j]) = head /\ Len(log'[j]) = head + 1 /\ log'[j] = log'[i] /\ log[j] = log[i]
        BY <2>4, <3>1
      <4> HIDE DEF head
      <4> QED
        BY <1>4, <2>4, <4>1
    <3>2. CASE j # i
      BY <1>3, <2>3, <3>2
    <3> QED
      BY <3>1, <3>2
  <2>6. seq <= Len(log'[i]) /\ Len(log'[i]) = seq /\ log'[i][seq] = pending
    BY <1>4, <2>1, <2>4
  <2> QED
    BY <2>3, <2>5, <2>6
<1> QED
  BY <1>6, <1>7

LEMMA PushKeeps ==
  ASSUME EngineInv, NEW d \in Install, Push(d)
  PROVE  EngineInv'
<1> DEFINE m == mem[d]
           vector == [m.vector EXCEPT ![m.device] = Seq0(d)]
           n == [m EXCEPT !.pending = <<>>, !.vector = vector]
<1>1. /\ mem \in [Install -> Engine] /\ saved \in [Install -> Engine] /\ unsaved \in [Install -> SUBSET Key]
      /\ unsent \in [Install -> SUBSET Key] /\ Types /\ m \in Engine
  BY DEF EngineInv, Types
<1>2. m.device \in Id /\ m.device # 0 /\ m.nextSeq \in Nat \ {0} /\ m.vector \in [Id -> Nat]
  BY <1>1 DEF EngineInv, Numbers, Engine
<1>3. /\ Lands(d) /\ mem' = [mem EXCEPT ![d] = n] /\ saved' = [saved EXCEPT ![d] = n] /\ unsaved' = [unsaved EXCEPT ![d] = {}]
      /\ unsent' = [unsent EXCEPT ![d] = @ \ (PendingKeys(m) \ m.dirty)]
      /\ UNCHANGED <<kind, store, backup, pc, inbox, nextId, guarded, restores>>
  BY <1>2 DEF Push, Persist, Lands, host, counters
<1>4. vector \in [Id -> Nat]
  BY <1>2 DEF Seq0
<1> HIDE DEF vector
<1>5. /\ n \in Engine /\ n.device = m.device /\ n.nextSeq = m.nextSeq /\ n.pending = <<>> /\ n.stamps = m.stamps
      /\ n.held = m.held /\ n.dirty = m.dirty
  <2>1. m \in [device : {m.device}, clock : {m.clock}, nextSeq : {m.nextSeq}, vector : [Id -> Nat], stamps : {m.stamps},
               dirty : {m.dirty}, pending : Seq(Record), held : {m.held}, adopted : {m.adopted}]
    BY <1>1 DEF Engine
  <2>2. n \in [device : {m.device}, clock : {m.clock}, nextSeq : {m.nextSeq}, vector : {vector}, stamps : {m.stamps},
               dirty : {m.dirty}, pending : {<<>>}, held : {m.held}, adopted : {m.adopted}]
    BY <2>1
  <2>3. <<>> \in Seq(Record)
    OBVIOUS
  <2> HIDE DEF n
  <2>4. n \in Engine
    BY <1>1, <1>4, <2>2, <2>3 DEF Engine
  <2> QED
    BY <2>2, <2>4
<1> HIDE DEF n
<1>6. /\ mem' \in [Install -> Engine] /\ mem'[d] = n /\ saved' \in [Install -> Engine] /\ saved'[d] = n
      /\ unsaved' \in [Install -> SUBSET Key] /\ unsent' \in [Install -> SUBSET Key]
      /\ unsent'[d] = unsent[d] \ (PendingKeys(m) \ m.dirty)
      /\ \A e \in Install \ {d} : mem'[e] = mem[e] /\ saved'[e] = saved[e] /\ unsaved'[e] = unsaved[e] /\ unsent'[e] = unsent[e]
  BY <1>1, <1>3, <1>5
<1>7. /\ log' \in [Id -> Seq(Seq(Record))]
      /\ \A i \in Id : Len(log[i]) <= Len(log'[i]) /\ \A r \in 1..Len(log[i]) : log'[i][r] = log[i][r]
      /\ \A i \in Id \ {m.device} : log'[i] = log[i]
      /\ m.nextSeq - 1 <= Len(log'[m.device])
      /\ "save" \notin BuildFaults /\ restores = 0 => Len(log'[m.device]) = m.nextSeq - 1
  BY <1>3, LandsIs
<1>8. Types'
  <2>1. Engine' = Engine /\ Library' = Library /\ Record' = Record
    BY <1>3 DEF Engine, Library, Record, Version, Copy
  <2> QED
    BY <1>1, <1>3, <1>6, <1>7, <2>1 DEF Types
<1>9. InboxFiled'
  BY <1>3, <1>7, GrownInboxStands
<1>10. Numbers' /\ Owned'
  <2>1. n.nextSeq - 1 <= Len(log'[n.device]) + 0
    <3>1. Len(log'[m.device]) \in Nat
      BY <1>2, <1>7
    <3> QED
      BY <1>2, <1>5, <1>7, <3>1
  <2>2. (mem[d].device # 0 /\ Numbered(mem[d]) /\ Numbered(saved[d]))'
    BY <1>2, <1>5, <1>6, <2>1 DEF Numbered
  <2>3. "save" \notin BuildFaults /\ restores' = 0 =>
           /\ restores = 0
           /\ \/ nextId' = nextId /\ mem'[d].device = mem[d].device
              \/ nextId' = nextId + 1 /\ mem'[d].device = nextId
           /\ Landed(mem[d])'
           /\ (Same(saved[d], mem[d]) \/ (saved[d].device = 0 /\ log[mem[d].device] = <<>> /\ mem[d].pending = <<>>))'
    BY <1>3, <1>5, <1>6, <1>7 DEF Landed, Same
  <2>4. (\A e \in Install \ {d} : mem'[e] = mem[e] /\ saved'[e] = saved[e]) /\ backup' = backup
    BY <1>3, <1>6
  <2>5. \A i \in Id : Len(log[i]) <= Len(log'[i])
    BY <1>7
  <2> QED
    BY <1>7, <2>2, <2>3, <2>4, <2>5, OneNumbered
<1>11. Unsent'
  <2>1. \A e \in Install : unsent'[e] \subseteq unsent[e]
    BY <1>6
  <2>2. ASSUME ~LoseTouches, "read" \notin BuildFaults PROVE unsent'[d] \subseteq Covers(mem'[d])
    <3>1. unsent[d] \subseteq m.dirty \cup PendingKeys(m)
      BY <2>2 DEF EngineInv, Unsent, Covers
    <3>2. m.dirty \subseteq Covers(mem'[d])
      BY <1>5, <1>6 DEF Covers
    <3> QED
      BY <1>6, <3>1, <3>2
  <2>3. \A e \in Install : mem'[e] # mem[e] => unsent'[e] \subseteq Covers(mem'[e]) \/ "read" \in BuildFaults \/ LoseTouches
    BY <1>6, <2>2
  <2>4. \A e \in Install : \/ saved'[e] = saved[e] /\ unsaved[e] \subseteq unsaved'[e]
                           \/ saved'[e] = mem'[e] /\ mem'[e].device # 0
    BY <1>2, <1>5, <1>6
  <2> QED
    BY <2>1, <2>3, <2>4, UnsentStands
<1>12. PriorKept'
  <2>1. \A e \in Install : mem'[e].stamps = mem[e].stamps /\ mem[e].held \subseteq mem'[e].held
    BY <1>5, <1>6
  <2>2. \A e \in Install : saved'[e] = saved[e] \/ saved'[e] = mem'[e]
    BY <1>6
  <2> QED
    BY <1>3, <2>1, <2>2, PriorStands
<1> QED
  BY <1>8, <1>9, <1>10, <1>11, <1>12 DEF EngineInv

LEMMA PushUnheardKeeps ==
  ASSUME EngineInv, NEW d \in Install, PushUnheard(d)
  PROVE  EngineInv'
<1>1. /\ Lands(d) /\ unsent' = [unsent EXCEPT ![d] = @ \ (PendingKeys(mem[d]) \ mem[d].dirty)]
      /\ pc' = [pc EXCEPT ![d] = "idle"] /\ inbox' = [inbox EXCEPT ![d] = {}]
      /\ UNCHANGED <<kind, store, mem, saved, backup, nextId, unsaved, guarded, restores>>
  BY DEF PushUnheard, Lands, Ended, Fails
<1>2. /\ Types /\ mem \in [Install -> Engine] /\ unsent \in [Install -> SUBSET Key] /\ mem[d] \in Engine
      /\ inbox \in [Install -> SUBSET [device : Id, seq : Nat, nth : Nat]]
  BY DEF EngineInv, Types
<1>3. mem[d].device \in Id /\ mem[d].device # 0 /\ mem[d].nextSeq \in Nat \ {0} /\ Numbered(mem[d]) /\ Numbered(saved[d])
      /\ mem[d].pending # <<>>
  BY <1>1, <1>2 DEF EngineInv, Numbers, Engine, Lands, Sending
<1>4. /\ log' \in [Id -> Seq(Seq(Record))]
      /\ \A i \in Id : Len(log[i]) <= Len(log'[i]) /\ \A r \in 1..Len(log[i]) : log'[i][r] = log[i][r]
      /\ \A i \in Id \ {mem[d].device} : log'[i] = log[i]
      /\ mem[d].nextSeq - 1 <= Len(log'[mem[d].device])
      /\ "save" \notin BuildFaults /\ restores = 0 =>
           /\ Len(log'[mem[d].device]) = mem[d].nextSeq - 1
           /\ log'[mem[d].device][mem[d].nextSeq - 1] = mem[d].pending
  BY <1>1, LandsIs
<1>5. (\A e \in Install : inbox'[e] \subseteq inbox[e] /\ unsent'[e] \subseteq unsent[e]) /\ unsent' \in [Install -> SUBSET Key]
  BY <1>1, <1>2
<1>6. Types'
  <2>1. Engine' = Engine /\ Library' = Library /\ Record' = Record
    BY <1>1 DEF Engine, Library, Record, Version, Copy
  <2>2. inbox' \in [Install -> SUBSET [device : Id, seq : Nat, nth : Nat]]
    BY <1>1, <1>2
  <2> QED
    BY <1>1, <1>2, <1>4, <1>5, <2>1, <2>2 DEF Types
<1>7. InboxFiled'
  BY <1>4, <1>5, GrownInboxStands
<1>8. Numbers' /\ Owned'
  <2>1. \A m \in Engine : Numbered(m) =>
          /\ m.pending # <<>> => m.nextSeq > 1
          /\ m.device # 0 => m.nextSeq - 1 <= Len(log'[m.device]) + (IF m.pending = <<>> THEN 0 ELSE 1)
    BY <1>2, <1>4, NumberedGrows DEF Types
  <2>2. saved[d] \in Engine
    BY <1>2 DEF Types
  <2>3. (mem[d].device # 0 /\ Numbered(mem[d]) /\ Numbered(saved[d]))'
    BY <1>1, <1>2, <1>3, <2>1, <2>2 DEF Numbered
  <2>4. "save" \notin BuildFaults /\ restores' = 0 =>
           /\ restores = 0
           /\ \/ nextId' = nextId /\ mem'[d].device = mem[d].device
              \/ nextId' = nextId + 1 /\ mem'[d].device = nextId
           /\ Landed(mem[d])'
           /\ (Same(saved[d], mem[d]) \/ (saved[d].device = 0 /\ log[mem[d].device] = <<>> /\ mem[d].pending = <<>>))'
    <3> SUFFICES ASSUME "save" \notin BuildFaults, restores = 0 PROVE Landed(mem[d])' /\ Same(saved[d], mem[d])'
      BY <1>1
    <3>1. Same(saved[d], mem[d])
      BY <1>3 DEF EngineInv, Owned
    <3> QED
      BY <1>1, <1>3, <1>4, <3>1 DEF Landed, Same
  <2>5. (\A e \in Install \ {d} : mem'[e] = mem[e] /\ saved'[e] = saved[e]) /\ backup' = backup
    BY <1>1
  <2>6. \A i \in Id : Len(log[i]) <= Len(log'[i])
    BY <1>4
  <2> QED
    BY <1>4, <2>3, <2>4, <2>5, <2>6, OneNumbered
<1>9. Unsent'
  BY <1>1, <1>5, UnsentStands
<1>10. PriorKept'
  BY <1>1, PriorStands
<1> QED
  BY <1>6, <1>7, <1>8, <1>9, <1>10 DEF EngineInv

LEMMA RoundFailsKeeps ==
  ASSUME EngineInv, NEW d \in Install, RoundFails(d)
  PROVE  EngineInv'
<1>1. /\ pc' = [pc EXCEPT ![d] = "idle"] /\ inbox' = [inbox EXCEPT ![d] = {}]
      /\ UNCHANGED <<kind, store, saved, backup, log, nextId, unsaved, unsent, guarded, restores>>
  BY DEF RoundFails, Ended, Fails, ghosts
<1>2. /\ Types /\ mem \in [Install -> Engine] /\ mem[d] \in Engine
      /\ inbox \in [Install -> SUBSET [device : Id, seq : Nat, nth : Nat]]
  BY DEF EngineInv, Types
<1>3. \A e \in Install : inbox'[e] \subseteq inbox[e]
  BY <1>1, <1>2
<1>4. Numbers' /\ Owned' /\ Unsent' /\ PriorKept' /\ mem' \in [Install -> Engine]
  <2>1. CASE mem' = mem
    <3>1. Numbers' /\ Owned'
      BY <1>1, <2>1, NumbersStand DEF Same
    <3>2. Unsent'
      BY <1>1, <2>1, UnsentStands
    <3>3. PriorKept'
      BY <1>1, <2>1, PriorStands
    <3> QED
      BY <1>2, <2>1, <3>1, <3>2, <3>3
  <2>2. ASSUME Building(d), NEW keys \in NextKeys(mem[d].dirty), "save" \in BuildFaults, mem' = [mem EXCEPT ![d] = Built(d, keys)]
        PROVE  Numbers' /\ Owned' /\ Unsent' /\ PriorKept' /\ mem' \in [Install -> Engine]
    BY <1>1, <2>2, BuiltKeeps
  <2>3. ASSUME "read" \in BuildFaults, NEW lost \in SUBSET mem[d].dirty, mem' = [mem EXCEPT ![d].dirty = lost]
        PROVE  Numbers' /\ Owned' /\ Unsent' /\ PriorKept' /\ mem' \in [Install -> Engine]
    <3> DEFINE n == [mem[d] EXCEPT !.dirty = lost]
    <3>1. n \in Engine /\ Same(n, mem[d]) /\ n.stamps = mem[d].stamps /\ n.held = mem[d].held
      BY <1>2 DEF Engine, Same
    <3> HIDE DEF n
    <3>2. mem' \in [Install -> Engine] /\ mem'[d] = n /\ \A e \in Install \ {d} : mem'[e] = mem[e]
      BY <1>2, <2>3, <3>1 DEF n
    <3>3. \A e \in Install : Same(mem'[e], mem[e]) /\ mem'[e].stamps = mem[e].stamps /\ mem'[e].held = mem[e].held
      BY <3>1, <3>2 DEF Same
    <3>4. Numbers' /\ Owned'
      BY <1>1, <3>3, NumbersStand
    <3>5. Unsent'
      BY <1>1, <2>3 DEF Unsent
    <3>6. PriorKept'
      BY <1>1, <3>3, PriorStands
    <3> QED
      BY <3>2, <3>4, <3>5, <3>6
  <2>4. mem[d].dirty \in SUBSET Key
    BY <1>2 DEF Engine
  <2>5. \/ mem' = mem
        \/ Building(d) /\ \E keys \in NextKeys(mem[d].dirty) : "save" \in BuildFaults /\ mem' = [mem EXCEPT ![d] = Built(d, keys)]
        \/ "read" \in BuildFaults /\ \E lost \in SUBSET mem[d].dirty : mem' = [mem EXCEPT ![d].dirty = lost]
    <3>1. ASSUME NEW keys \in NextKeys(mem[d].dirty), NEW n \in DOMAIN keys,
                 mem' = [mem EXCEPT ![d].dirty = @ \ {keys[i] : i \in 1..n}]
          PROVE  \E lost \in SUBSET mem[d].dirty : mem' = [mem EXCEPT ![d].dirty = lost]
      <4> DEFINE lost == mem[d].dirty \ {keys[i] : i \in 1..n}
      <4>1. lost \in SUBSET mem[d].dirty /\ mem' = [mem EXCEPT ![d].dirty = lost]
        BY <1>2, <3>1
      <4> QED
        BY <4>1
    <3> QED
      BY <3>1 DEF RoundFails
  <2> QED
    BY <2>1, <2>2, <2>3, <2>5
<1>5. Types'
  <2>1. Engine' = Engine /\ Library' = Library /\ Record' = Record
    BY <1>1 DEF Engine, Library, Record, Version, Copy
  <2>2. inbox' \in [Install -> SUBSET [device : Id, seq : Nat, nth : Nat]]
    BY <1>1, <1>2
  <2> QED
    BY <1>1, <1>2, <1>4, <2>1, <2>2 DEF Types
<1>6. InboxFiled'
  BY <1>1, <1>3, InboxStands
<1> QED
  BY <1>4, <1>5, <1>6 DEF EngineInv

LEMMA ContinueAsNewKeeps ==
  ASSUME EngineInv, NEW d \in Install, ContinueAsNew(d)
  PROVE  EngineInv'
<1> DEFINE m == mem[d]
           vector == [m.vector EXCEPT ![m.device] = Seq0(d) - 1]
           clock == NewClock(nextId, m.clock)
           n == [m EXCEPT !.vector = vector, !.device = nextId, !.clock = clock, !.nextSeq = 2]
<1>1. /\ mem \in [Install -> Engine] /\ saved \in [Install -> Engine] /\ unsaved \in [Install -> SUBSET Key]
      /\ log \in [Id -> Seq(Seq(Record))] /\ Types /\ m \in Engine /\ nextId \in Nat \ {0}
  BY DEF EngineInv, Types
<1>2. /\ m.device \in Id /\ m.device # 0 /\ m.nextSeq \in Nat /\ m.nextSeq > 1 /\ m.pending # <<>> /\ m.pending \in Seq(Record)
      /\ m.vector \in [Id -> Nat] /\ m.clock \in Stamp
      /\ nextId \in Id
  <2>1. nextId <= MaxId /\ Sending(d)
    BY DEF ContinueAsNew
  <2>2. nextId \in Id
    BY <1>1, <2>1, EngineAssumption DEF Id
  <2> QED
    BY <1>1, <2>1, <2>2 DEF EngineInv, Numbers, Numbered, Engine, Sending
<1>3. /\ mem' = [mem EXCEPT ![d] = n] /\ saved' = [saved EXCEPT ![d] = n] /\ unsaved' = [unsaved EXCEPT ![d] = {}]
      /\ nextId' = nextId + 1
      /\ UNCHANGED <<kind, store, backup, pc, inbox, log, unsent, guarded, restores>>
  BY DEF ContinueAsNew, Persist, host, counters
<1>4. vector \in [Id -> Nat] /\ clock \in Stamp
  <2>1. Seq0(d) - 1 \in Nat
    BY <1>2 DEF Seq0
  <2>2. clock \in Stamp
    BY <1>1, <1>2, ClockTicks
  <2> QED
    BY <1>2, <2>1, <2>2
<1> HIDE DEF vector
<1> HIDE DEF clock
<1>5. /\ n \in Engine /\ n.device = nextId /\ n.nextSeq = 2 /\ n.pending = m.pending /\ n.stamps = m.stamps
      /\ n.held = m.held /\ n.dirty = m.dirty
  <2>1. m \in [device : Id \cup {0}, clock : Stamp, nextSeq : Nat \ {0}, vector : [Id -> Nat], stamps : {m.stamps},
               dirty : {m.dirty}, pending : {m.pending}, held : {m.held}, adopted : {m.adopted}]
    BY <1>1 DEF Engine
  <2>2. n \in [device : {nextId}, clock : {clock}, nextSeq : {2}, vector : {vector}, stamps : {m.stamps},
               dirty : {m.dirty}, pending : {m.pending}, held : {m.held}, adopted : {m.adopted}]
    BY <2>1
  <2> HIDE DEF n
  <2>3. n \in Engine
    BY <1>1, <1>2, <1>4, <2>2 DEF Engine
  <2> QED
    BY <2>2, <2>3
<1> HIDE DEF n
<1>6. /\ mem' \in [Install -> Engine] /\ mem'[d] = n /\ saved' \in [Install -> Engine] /\ saved'[d] = n
      /\ unsaved' \in [Install -> SUBSET Key]
      /\ \A e \in Install \ {d} : mem'[e] = mem[e] /\ saved'[e] = saved[e] /\ unsaved'[e] = unsaved[e]
  BY <1>1, <1>3, <1>5
<1>7. Types'
  <2>1. Engine' = Engine /\ Library' = Library /\ Record' = Record
    BY <1>3 DEF Engine, Library, Record, Version, Copy
  <2>2. nextId' \in Nat \ {0}
    BY <1>1, <1>3
  <2> QED
    BY <1>1, <1>3, <1>6, <2>1, <2>2 DEF Types
<1>8. InboxFiled'
  BY <1>3, InboxStands
<1>9. ~("save" \notin BuildFaults /\ restores = 0)
  <2> SUFFICES ASSUME "save" \notin BuildFaults, restores = 0 PROVE FALSE
    OBVIOUS
  <2>1. Landed(m)
    BY DEF EngineInv, Owned
  <2>2. Seq0(d) <= Head0(d) /\ log[m.device][Seq0(d)] # m.pending
    BY DEF ContinueAsNew, Conflict, Resent
  <2>3. Len(log[m.device]) \in Nat
    BY <1>1, <1>2
  <2>4. m.nextSeq - 1 <= Len(log[m.device]) /\ log[m.device][m.nextSeq - 1] # m.pending
    BY <2>2 DEF Seq0, Head0
  <2> QED
    BY <1>2, <2>1, <2>3, <2>4 DEF Landed
<1>10. Numbers' /\ Owned'
  <2>1. \A i \in Id : Len(log[i]) \in Nat
    BY <1>1
  <2>2. (mem[d].device # 0 /\ Numbered(mem[d]) /\ Numbered(saved[d]))'
    <3>1. n.device # 0 /\ n.nextSeq > 1 /\ n.nextSeq - 1 <= Len(log[n.device]) + 1
      BY <1>1, <1>2, <1>5, <2>1
    <3> QED
      BY <1>2, <1>3, <1>5, <1>6, <3>1 DEF Numbered
  <2>3. (\A e \in Install \ {d} : mem'[e] = mem[e] /\ saved'[e] = saved[e]) /\ backup' = backup
    BY <1>3, <1>6
  <2>4. (\A i \in Id : Len(log[i]) <= Len(log'[i])) /\ log' \in [Id -> Seq(Seq(Record))]
        /\ \A i \in Id \ {mem[d].device} : log'[i] = log[i]
    BY <1>1, <1>3, <2>1
  <2> QED
    BY <1>3, <1>9, <2>2, <2>3, <2>4, OneNumbered
<1>11. Unsent'
  <2>1. Covers(n) = Covers(m)
    BY <1>5 DEF Covers, PendingKeys
  <2>2. \A e \in Install : mem'[e] # mem[e] => unsent'[e] \subseteq Covers(mem'[e]) \/ "read" \in BuildFaults \/ LoseTouches
    BY <1>3, <1>6, <2>1 DEF EngineInv, Unsent
  <2>3. \A e \in Install : \/ saved'[e] = saved[e] /\ unsaved[e] \subseteq unsaved'[e]
                           \/ saved'[e] = mem'[e] /\ mem'[e].device # 0
    BY <1>1, <1>5, <1>6
  <2>4. \A e \in Install : unsent'[e] \subseteq unsent[e]
    BY <1>3
  <2> QED
    BY <2>2, <2>3, <2>4, UnsentStands
<1>12. PriorKept'
  <2>1. \A e \in Install : mem'[e].stamps = mem[e].stamps /\ mem[e].held \subseteq mem'[e].held
    BY <1>5, <1>6
  <2>2. \A e \in Install : saved'[e] = saved[e] \/ saved'[e] = mem'[e]
    BY <1>6
  <2> QED
    BY <1>3, <2>1, <2>2, PriorStands
<1> QED
  BY <1>7, <1>8, <1>10, <1>11, <1>12 DEF EngineInv

LEMMA FinishKeeps ==
  ASSUME EngineInv, NEW d \in Install, Finish(d)
  PROVE  EngineInv'
<1> DEFINE n == [mem[d] EXCEPT !.held = {}]
<1>1. /\ mem \in [Install -> Engine] /\ saved \in [Install -> Engine] /\ unsaved \in [Install -> SUBSET Key]
      /\ inbox \in [Install -> SUBSET [device : Id, seq : Nat, nth : Nat]] /\ guarded \in [Install -> SUBSET Key]
      /\ Types /\ mem[d] \in Engine /\ mem[d].device # 0
  BY DEF EngineInv, Types, Numbers
<1>2. /\ guarded' = [guarded EXCEPT ![d] = {}] /\ pc' = [pc EXCEPT ![d] = "idle"] /\ inbox' = [inbox EXCEPT ![d] = {}]
      /\ UNCHANGED <<kind, store, backup, log, nextId, unsent, restores>>
  BY DEF Finish, Ended, counters
<1>3. \/ UNCHANGED <<mem, saved, unsaved>>
      \/ mem' = [mem EXCEPT ![d] = n] /\ saved' = [saved EXCEPT ![d] = n] /\ unsaved' = [unsaved EXCEPT ![d] = {}]
  BY DEF Finish, Persist
<1>4. /\ n \in Engine /\ Same(n, mem[d]) /\ n.dirty = mem[d].dirty
  BY <1>1 DEF Engine, Same
<1> HIDE DEF n
<1>5. /\ mem' \in [Install -> Engine] /\ saved' \in [Install -> Engine] /\ unsaved' \in [Install -> SUBSET Key]
      /\ Same(mem'[d], mem[d]) /\ mem'[d].dirty = mem[d].dirty
      /\ saved'[d] = mem'[d] \/ (saved'[d] = saved[d] /\ unsaved'[d] = unsaved[d])
      /\ \A e \in Install \ {d} : mem'[e] = mem[e] /\ saved'[e] = saved[e] /\ unsaved'[e] = unsaved[e]
  <2>1. CASE UNCHANGED <<mem, saved, unsaved>>
    BY <1>1, <2>1 DEF Same
  <2>2. CASE mem' = [mem EXCEPT ![d] = n] /\ saved' = [saved EXCEPT ![d] = n] /\ unsaved' = [unsaved EXCEPT ![d] = {}]
    BY <1>1, <1>4, <2>2
  <2> QED
    BY <1>3, <2>1, <2>2
<1>6. Types'
  <2>1. Engine' = Engine /\ Library' = Library /\ Record' = Record
    BY <1>2 DEF Engine, Library, Record, Version, Copy
  <2> QED
    BY <1>1, <1>2, <1>5, <2>1 DEF Types
<1>7. InboxFiled'
  <2>1. \A e \in Install : inbox'[e] \subseteq inbox[e]
    BY <1>1, <1>2
  <2> QED
    BY <1>2, <2>1, InboxStands
<1>8. Numbers' /\ Owned'
  <2>1. \A e \in Install : Same(mem'[e], mem[e])
    BY <1>5 DEF Same
  <2>2. \A e \in Install : saved'[e] = saved[e] \/ saved'[e] = mem'[e]
    BY <1>5
  <2> QED
    BY <1>2, <2>1, <2>2, NumbersStand
<1>9. Unsent'
  <2>1. Covers(mem'[d]) = Covers(mem[d]) /\ mem'[d].device # 0
    BY <1>1, <1>5 DEF Covers, PendingKeys, Same
  <2>2. \A e \in Install : mem'[e] # mem[e] => unsent'[e] \subseteq Covers(mem'[e]) \/ "read" \in BuildFaults \/ LoseTouches
    BY <1>2, <1>5, <2>1 DEF EngineInv, Unsent
  <2>3. \A e \in Install : \/ saved'[e] = saved[e] /\ unsaved[e] \subseteq unsaved'[e]
                           \/ saved'[e] = mem'[e] /\ mem'[e].device # 0
    BY <1>1, <1>5, <2>1
  <2>4. \A e \in Install : unsent'[e] \subseteq unsent[e]
    BY <1>2
  <2> QED
    BY <2>2, <2>3, <2>4, UnsentStands
<1>10. PriorKept'
  <2>1. \A e \in Install : guarded'[e] \subseteq guarded[e] /\ (guarded'[e] # {} => e # d)
    BY <1>1, <1>2
  <2>2. \A e \in Install : guarded'[e] # {} => mem'[e].stamps = mem[e].stamps /\ mem[e].held \subseteq mem'[e].held
    BY <1>5, <2>1
  <2>3. \A e \in Install : saved'[e] = saved[e] \/ saved'[e] = mem'[e]
    BY <1>5
  <2> QED
    BY <1>2, <2>1, <2>2, <2>3, PriorStands
<1> QED
  BY <1>6, <1>7, <1>8, <1>9, <1>10 DEF EngineInv

LEMMA AdoptKeeps ==
  ASSUME EngineInv, NEW d \in Install, Adopt(d)
  PROVE  EngineInv'
<1> DEFINE strangers == {k \in Present(store[d]) : ~Known(mem[d], k)}
           n == Adopted(mem[d], strangers)
<1>1. /\ mem \in [Install -> Engine] /\ guarded \in [Install -> SUBSET Key] /\ Types /\ mem[d] \in Engine /\ restores \in Nat
  BY DEF EngineInv, Types
<1>2. /\ mem' = [mem EXCEPT ![d] = n] /\ guarded' = [guarded EXCEPT ![d] = {}]
      /\ UNCHANGED <<kind, store, saved, backup, pc, inbox, log, nextId, unsaved, unsent, restores>>
  <2>1. mem' = [mem EXCEPT ![d] = n]
    BY <1>1 DEF Adopt
  <2> QED
    BY <2>1 DEF Adopt, host, counters
<1>3. strangers \in SUBSET Key
  BY DEF Present
<1> HIDE DEF strangers
<1>4. n \in Engine /\ Same(n, mem[d]) /\ mem[d].dirty \subseteq n.dirty
  BY <1>1, <1>3, AdoptedIs DEF Same
<1> HIDE DEF n
<1>5. mem' \in [Install -> Engine] /\ mem'[d] = n /\ \A e \in Install \ {d} : mem'[e] = mem[e]
  BY <1>1, <1>2, <1>4
<1>6. Types'
  <2>1. Engine' = Engine /\ Library' = Library /\ Record' = Record
    BY <1>2 DEF Engine, Library, Record, Version, Copy
  <2> QED
    BY <1>1, <1>2, <1>5, <2>1 DEF Types
<1>7. InboxFiled'
  BY <1>2, InboxStands
<1>8. Numbers' /\ Owned'
  BY <1>2, <1>4, <1>5, NumbersStand DEF Same
<1>9. Unsent'
  <2>1. Covers(mem[d]) \subseteq Covers(mem'[d])
    BY <1>4, <1>5 DEF Covers, PendingKeys, Same
  <2>2. \A e \in Install : mem'[e] # mem[e] => unsent'[e] \subseteq Covers(mem'[e]) \/ "read" \in BuildFaults \/ LoseTouches
    BY <1>2, <1>5, <2>1 DEF EngineInv, Unsent
  <2> QED
    BY <1>2, <2>2, UnsentStands
<1>10. PriorKept'
  <2>1. \A e \in Install : guarded'[e] \subseteq guarded[e] /\ (guarded'[e] # {} => e # d)
    BY <1>1, <1>2
  <2>2. \A e \in Install : guarded'[e] # {} => mem'[e].stamps = mem[e].stamps /\ mem[e].held \subseteq mem'[e].held
    BY <1>5, <2>1
  <2> QED
    BY <1>2, <2>1, <2>2, PriorStands
<1> QED
  BY <1>6, <1>7, <1>8, <1>9, <1>10 DEF EngineInv

-----------------------------------------------------------------------------
(* Stopping, starting again, and being put back                             *)

LEMMA FreshIs ==
  ASSUME NEW id \in Id \cup {0}
  PROVE  /\ Fresh(id) \in Engine
         /\ Fresh(id).device = id /\ Fresh(id).nextSeq = 1 /\ Fresh(id).pending = <<>>
         /\ Covers(Fresh(id)) = {}
         /\ \A k \in Key : ~Known(Fresh(id), k)
<1> DEFINE clock == NewClock(id, NoStamp)
           vector == [i \in Id |-> 0]
           stamps == [k \in Key |-> Unstamped]
<1>1. id \in Nat
  BY DEF Id
<1>2. NoStamp \in Stamp
  BY DEF NoStamp, Stamp
<1>3. clock \in Stamp
  BY <1>1, <1>2, ClockTicks
<1>4. vector \in [Id -> Nat] /\ stamps \in [Key -> Stamped] /\ <<>> \in Seq(Record)
  BY <1>2 DEF Stamped, Unstamped
<1>5. Fresh(id) = [device |-> id, clock |-> clock, nextSeq |-> 1, vector |-> vector, stamps |-> stamps,
                   dirty |-> {}, pending |-> <<>>, held |-> {}, adopted |-> FALSE]
  BY DEF Fresh
<1> HIDE DEF clock
<1> HIDE DEF vector
<1>6. \A k \in Key : ~Known(Fresh(id), k)
  BY <1>5 DEF Known
<1> HIDE DEF stamps
<1>7. Fresh(id) \in Engine
  BY <1>1, <1>3, <1>4, <1>5 DEF Engine
<1>8. Covers(Fresh(id)) = {}
  BY <1>5 DEF Covers, PendingKeys
<1>9. Fresh(id).device = id /\ Fresh(id).nextSeq = 1 /\ Fresh(id).pending = <<>>
  BY <1>5
<1> QED
  BY <1>6, <1>7, <1>8, <1>9, Zenon

\* An engine starts as its snapshot, or as a new one under an id nobody had.
LEMMA BootsIs ==
  ASSUME EngineInv, NEW d \in Install, NEW snapshot \in Engine, Boots(d, snapshot)
  PROVE  /\ mem' \in [Install -> Engine] /\ unsaved' \in [Install -> SUBSET Key] /\ nextId' \in Nat \ {0}
         /\ pc' \in [Install -> {"idle", "pull", "apply", "send"}]
         /\ inbox' \in [Install -> SUBSET [device : Id, seq : Nat, nth : Nat]]
         /\ \A e \in Install : inbox'[e] \subseteq inbox[e]
         /\ unsaved'[d] = {}
         /\ \A e \in Install \ {d} : mem'[e] = mem[e] /\ unsaved'[e] = unsaved[e]
         /\ \/ snapshot.device # 0 /\ mem'[d] = snapshot /\ nextId' = nextId
            \/ snapshot.device = 0 /\ nextId \in Id /\ mem'[d] = Fresh(nextId) /\ nextId' = nextId + 1
<1>1. /\ mem \in [Install -> Engine] /\ unsaved \in [Install -> SUBSET Key] /\ nextId \in Nat \ {0}
      /\ pc \in [Install -> {"idle", "pull", "apply", "send"}]
      /\ inbox \in [Install -> SUBSET [device : Id, seq : Nat, nth : Nat]]
  BY DEF EngineInv, Types
<1>2. \/ snapshot.device # 0 /\ mem' = [mem EXCEPT ![d] = snapshot] /\ nextId' = nextId
      \/ snapshot.device = 0 /\ nextId <= MaxId /\ mem' = [mem EXCEPT ![d] = Fresh(nextId)] /\ nextId' = nextId + 1
  BY DEF Boots
<1>3. /\ pc' = [pc EXCEPT ![d] = "idle"] /\ inbox' = [inbox EXCEPT ![d] = {}] /\ unsaved' = [unsaved EXCEPT ![d] = {}]
  BY DEF Boots
<1>4. /\ pc' \in [Install -> {"idle", "pull", "apply", "send"}]
      /\ inbox' \in [Install -> SUBSET [device : Id, seq : Nat, nth : Nat]]
      /\ \A e \in Install : inbox'[e] \subseteq inbox[e]
      /\ unsaved' \in [Install -> SUBSET Key] /\ unsaved'[d] = {} /\ \A e \in Install \ {d} : unsaved'[e] = unsaved[e]
  BY <1>1, <1>3
<1>5. CASE snapshot.device # 0
  BY <1>1, <1>2, <1>4, <1>5
<1>6. CASE snapshot.device = 0
  <2>1. nextId \in Id
    BY <1>1, <1>2, <1>6, EngineAssumption DEF Id
  <2>2. Fresh(nextId) \in Engine
    BY <2>1, FreshIs
  <2>3. mem' = [mem EXCEPT ![d] = Fresh(nextId)] /\ nextId' = nextId + 1
    BY <1>2, <1>6
  <2>4. mem' \in [Install -> Engine] /\ mem'[d] = Fresh(nextId) /\ (\A e \in Install \ {d} : mem'[e] = mem[e]) /\ nextId' \in Nat \ {0}
    BY <1>1, <2>2, <2>3
  <2> QED
    BY <1>4, <1>6, <2>1, <2>3, <2>4
<1> QED
  BY <1>5, <1>6

LEMMA CrashKeeps ==
  ASSUME EngineInv, NEW d \in Install, Crash(d)
  PROVE  EngineInv'
<1>1. /\ saved \in [Install -> Engine] /\ saved[d] \in Engine /\ mem[d] \in Engine /\ Types
      /\ log \in [Id -> Seq(Seq(Record))] /\ nextId \in Nat \ {0} /\ guarded \in [Install -> SUBSET Key]
  BY DEF EngineInv, Types
<1>2. /\ Boots(d, saved[d]) /\ (LoseTouches \/ unsaved[d] = {})
      /\ UNCHANGED <<kind, store, saved, backup, log, unsent, guarded, restores>>
  BY DEF Crash
<1>3. /\ mem' \in [Install -> Engine] /\ unsaved' \in [Install -> SUBSET Key] /\ nextId' \in Nat \ {0}
      /\ pc' \in [Install -> {"idle", "pull", "apply", "send"}]
      /\ inbox' \in [Install -> SUBSET [device : Id, seq : Nat, nth : Nat]]
      /\ \A e \in Install : inbox'[e] \subseteq inbox[e]
      /\ unsaved'[d] = {}
      /\ \A e \in Install \ {d} : mem'[e] = mem[e] /\ unsaved'[e] = unsaved[e]
  BY <1>1, <1>2, BootsIs
<1>4. \/ saved[d].device # 0 /\ mem'[d] = saved[d] /\ nextId' = nextId
      \/ saved[d].device = 0 /\ nextId \in Id /\ mem'[d] = Fresh(nextId) /\ nextId' = nextId + 1
  BY <1>1, <1>2, BootsIs
<1>5. Types'
  <2>1. Engine' = Engine /\ Library' = Library /\ Record' = Record
    BY <1>2 DEF Engine, Library, Record, Version, Copy
  <2> QED
    BY <1>1, <1>2, <1>3, <2>1 DEF Types
<1>6. InboxFiled'
  BY <1>2, <1>3, InboxStands
<1>7. nextId \in Id => /\ Fresh(nextId).device = nextId /\ Fresh(nextId).nextSeq = 1 /\ Fresh(nextId).pending = <<>>
                       /\ Covers(Fresh(nextId)) = {} /\ \A k \in Key : ~Known(Fresh(nextId), k)
  BY FreshIs
<1>8. \A i \in Id : Len(log[i]) \in Nat
  BY <1>1
<1>9. Numbers' /\ Owned'
  <2>1. Numbered(saved[d])
    BY DEF EngineInv, Numbers
  <2>2. (mem[d].device # 0 /\ Numbered(mem[d]) /\ Numbered(saved[d]))'
    <3>1. CASE saved[d].device # 0
      BY <1>2, <1>4, <2>1, <3>1 DEF Numbered
    <3>2. CASE saved[d].device = 0
      <4>1. nextId \in Id /\ mem'[d] = Fresh(nextId)
        BY <1>4, <3>2
      <4>2. 1 - 1 <= Len(log[nextId])
        BY <1>8, <4>1
      <4> QED
        <5>1. mem'[d].device = nextId /\ mem'[d].pending = <<>> /\ mem'[d].nextSeq = 1 /\ nextId # 0
          BY <1>1, <1>7, <4>1
        <5>2. (mem[d].device # 0 /\ Numbered(mem[d]))'
          BY <1>2, <4>2, <5>1 DEF Numbered
        <5>3. Numbered(saved[d])'
          BY <1>2, <2>1 DEF Numbered
        <5> QED
          BY <5>2, <5>3
    <3> QED
      BY <3>1, <3>2
  <2>3. "save" \notin BuildFaults /\ restores' = 0 =>
           /\ restores = 0
           /\ \/ nextId' = nextId /\ mem'[d].device = mem[d].device
              \/ nextId' = nextId + 1 /\ mem'[d].device = nextId
           /\ Landed(mem[d])'
           /\ (Same(saved[d], mem[d]) \/ (saved[d].device = 0 /\ log[mem[d].device] = <<>> /\ mem[d].pending = <<>>))'
    <3> SUFFICES ASSUME "save" \notin BuildFaults, restores = 0
                 PROVE  /\ \/ nextId' = nextId /\ mem'[d].device = mem[d].device
                           \/ nextId' = nextId + 1 /\ mem'[d].device = nextId
                        /\ Landed(mem[d])'
                        /\ (Same(saved[d], mem[d]) \/ (saved[d].device = 0 /\ log[mem[d].device] = <<>> /\ mem[d].pending = <<>>))'
      BY <1>2
    <3>1. Landed(mem[d]) /\ (Same(saved[d], mem[d]) \/ saved[d].device = 0) /\ mem[d].device # 0 /\ \A i \in Id : i >= nextId => log[i] = <<>>
      BY DEF EngineInv, Owned, Numbers
    <3>2. CASE saved[d].device # 0
      <4>1. mem'[d] = saved[d] /\ nextId' = nextId /\ Same(saved[d], mem[d])
        BY <1>4, <3>1, <3>2
      <4>2. Landed(mem[d])'
        BY <1>2, <3>1, <4>1 DEF Landed, Same
      <4> QED
        BY <1>2, <4>1, <4>2 DEF Same
    <3>3. CASE saved[d].device = 0
      <4>1. nextId \in Id /\ mem'[d] = Fresh(nextId) /\ nextId' = nextId + 1
        BY <1>4, <3>3
      <4>2. log[nextId] = <<>>
        BY <1>1, <3>1, <4>1
      <4>3. mem'[d].device = nextId /\ mem'[d].pending = <<>> /\ mem'[d].nextSeq = 1
        BY <1>7, <4>1
      <4>4. Landed(mem[d])'
        BY <1>2, <4>2, <4>3 DEF Landed
      <4> QED
        BY <1>2, <3>3, <4>1, <4>2, <4>3, <4>4
    <3> QED
      BY <3>2, <3>3
  <2>4. (\A e \in Install \ {d} : mem'[e] = mem[e] /\ saved'[e] = saved[e]) /\ backup' = backup
    BY <1>2, <1>3
  <2>5. (\A i \in Id : Len(log[i]) <= Len(log'[i])) /\ log' \in [Id -> Seq(Seq(Record))]
        /\ \A i \in Id \ {mem[d].device} : log'[i] = log[i]
    BY <1>1, <1>2, <1>8
  <2> QED
    BY <2>2, <2>3, <2>4, <2>5, OneNumbered
<1>10. Unsent'
  <2> SUFFICES ASSUME ~LoseTouches, "read" \notin BuildFaults, NEW e \in Install
               PROVE  /\ unsent'[e] \subseteq Covers(mem'[e])
                      /\ unsent'[e] \subseteq Covers(saved'[e]) \cup unsaved'[e]
                      /\ saved'[e].device = 0 => Covers(saved'[e]) = {}
    BY DEF Unsent, Covers, PendingKeys
  <2>1. /\ unsent[e] \subseteq Covers(mem[e])
        /\ unsent[e] \subseteq Covers(saved[e]) \cup unsaved[e]
        /\ saved[e].device = 0 => Covers(saved[e]) = {}
    BY DEF EngineInv, Unsent
  <2>2. CASE e # d
    BY <1>2, <1>3, <2>1, <2>2
  <2>3. CASE e = d
    <3>1. unsent[d] \subseteq Covers(saved[d])
      BY <1>2, <2>1, <2>3
    <3>2. unsent[d] \subseteq Covers(mem'[d])
      BY <1>4, <2>1, <2>3, <3>1
    <3> QED
      BY <1>2, <2>1, <2>3, <3>1, <3>2
  <2> QED
    BY <2>2, <2>3
<1>11. PriorKept'
  <2> SUFFICES ASSUME NEW e \in Install, NEW k \in guarded[e]
               PROVE  kind[k] = "register" /\ Sheltered(mem'[e], store[e], k) /\ Sheltered(saved[e], store[e], k)
    BY <1>2 DEF PriorKept, Sheltered, Known
  <2>1. kind[k] = "register" /\ Sheltered(mem[e], store[e], k) /\ Sheltered(saved[e], store[e], k) /\ k \in Key
    BY <1>1 DEF EngineInv, PriorKept
  <2>2. CASE e # d
    BY <1>3, <2>1, <2>2
  <2>3. CASE e = d
    <3>1. mem'[d] = saved[d] \/ ~Known(mem'[d], k)
      BY <1>4, <1>7, <2>1
    <3> QED
      BY <2>1, <2>3, <3>1 DEF Sheltered
  <2> QED
    BY <2>2, <2>3
<1> QED
  BY <1>5, <1>6, <1>9, <1>10, <1>11 DEF EngineInv

LEMMA BackupKeeps ==
  ASSUME EngineInv, NEW d \in Install, Backup(d)
  PROVE  EngineInv'
<1> DEFINE copy == [state |-> saved[d], store |-> store[d]]
<1>1. /\ backup' = [backup EXCEPT ![d] = {copy}] /\ saved[d].device # 0
      /\ UNCHANGED <<kind, store, mem, saved, pc, inbox, log, nextId, unsaved, unsent, guarded, restores>>
  BY DEF Backup, host, ghosts, counters
<1>2. /\ Types /\ backup \in [Install -> SUBSET [state : Engine, store : Library]]
      /\ copy \in [state : Engine, store : Library]
  BY DEF EngineInv, Types
<1>3. copy.state = saved[d]
  OBVIOUS
<1> HIDE DEF copy
<1>4. backup' \in [Install -> SUBSET [state : Engine, store : Library]]
  BY <1>1, <1>2
<1>5. Types'
  <2>1. Engine' = Engine /\ Library' = Library /\ Record' = Record
    BY <1>1 DEF Engine, Library, Record, Version, Copy
  <2> QED
    BY <1>1, <1>2, <1>4, <2>1 DEF Types
<1>6. \A e \in Install : \A b \in backup'[e] : b \in backup[e] \/ (b.state = saved[e] /\ saved[e].device # 0)
  BY <1>1, <1>2, <1>3
<1>7. Numbers' /\ Owned'
  BY <1>1, <1>6, NumbersStand DEF Same
<1>8. InboxFiled' /\ PriorKept' /\ Unsent'
  BY <1>1, InboxStands, PriorStands, UnsentStands
<1> QED
  BY <1>5, <1>7, <1>8 DEF EngineInv

LEMMA RestoreKeeps ==
  ASSUME EngineInv, NEW d \in Install, Restore(d)
  PROVE  EngineInv'
<1>1. PICK b \in backup[d] :
        /\ Boots(d, b.state)
        /\ saved' = [saved EXCEPT ![d] = b.state]
        /\ store' = [store EXCEPT ![d] = b.store]
        /\ unsent' = [unsent EXCEPT ![d] = b.state.dirty \cup PendingKeys(b.state)]
  BY DEF Restore
<1>2. /\ guarded' = [guarded EXCEPT ![d] = {}] /\ restores' = restores + 1
      /\ UNCHANGED <<kind, backup, log>>
  BY DEF Restore
<1>3. /\ Types /\ b.state \in Engine /\ b.store \in Library /\ b.state.device # 0 /\ Numbered(b.state)
      /\ saved \in [Install -> Engine] /\ store \in [Install -> Library] /\ unsent \in [Install -> SUBSET Key]
      /\ guarded \in [Install -> SUBSET Key] /\ restores \in Nat /\ log \in [Id -> Seq(Seq(Record))]
  BY DEF EngineInv, Types, Numbers
<1>4. /\ mem' \in [Install -> Engine] /\ unsaved' \in [Install -> SUBSET Key] /\ nextId' \in Nat \ {0}
      /\ pc' \in [Install -> {"idle", "pull", "apply", "send"}]
      /\ inbox' \in [Install -> SUBSET [device : Id, seq : Nat, nth : Nat]]
      /\ \A e \in Install : inbox'[e] \subseteq inbox[e]
      /\ \A e \in Install \ {d} : mem'[e] = mem[e] /\ unsaved'[e] = unsaved[e]
      /\ mem'[d] = b.state
  BY <1>1, <1>3, BootsIs
<1>5. Covers(b.state) \in SUBSET Key
  <2>1. b.state.dirty \in SUBSET Key /\ b.state.pending \in Seq(Record)
    BY <1>3 DEF Engine
  <2>2. \A i \in DOMAIN b.state.pending : b.state.pending[i] \in Record
    BY <2>1
  <2>3. \A r \in Record : r.key \in Key
    BY DEF Record
  <2> QED
    BY <2>1, <2>2, <2>3 DEF Covers, PendingKeys
<1>6. /\ saved' \in [Install -> Engine] /\ store' \in [Install -> Library] /\ unsent' \in [Install -> SUBSET Key]
      /\ guarded' \in [Install -> SUBSET Key] /\ restores' \in Nat /\ restores' # 0
      /\ saved'[d] = b.state /\ unsent'[d] = Covers(b.state) /\ guarded'[d] = {}
      /\ \A e \in Install \ {d} : /\ saved'[e] = saved[e] /\ store'[e] = store[e]
                                  /\ unsent'[e] = unsent[e] /\ guarded'[e] = guarded[e]
  <2>1. unsent' = [unsent EXCEPT ![d] = Covers(b.state)]
    BY <1>1 DEF Covers
  <2> QED
    BY <1>1, <1>2, <1>3, <1>5, <2>1
<1>7. Types'
  <2>1. Engine' = Engine /\ Library' = Library /\ Record' = Record
    BY <1>2 DEF Engine, Library, Record, Version, Copy
  <2> QED
    BY <1>2, <1>3, <1>4, <1>6, <2>1 DEF Types
<1>8. InboxFiled'
  BY <1>2, <1>4, InboxStands
<1>9. Numbers' /\ Owned'
  <2>1. (mem[d].device # 0 /\ Numbered(mem[d]) /\ Numbered(saved[d]))'
    BY <1>2, <1>3, <1>4, <1>6 DEF Numbered
  <2>2. (\A e \in Install \ {d} : mem'[e] = mem[e] /\ saved'[e] = saved[e]) /\ backup' = backup
    BY <1>2, <1>4, <1>6
  <2>3. \A i \in Id : Len(log[i]) \in Nat
    BY <1>3
  <2>4. (\A i \in Id : Len(log[i]) <= Len(log'[i])) /\ log' \in [Id -> Seq(Seq(Record))]
        /\ \A i \in Id \ {mem[d].device} : log'[i] = log[i]
    BY <1>2, <1>3, <2>3
  <2> QED
    BY <1>6, <2>1, <2>2, <2>4, OneNumbered
<1>10. Unsent'
  <2> SUFFICES ASSUME ~LoseTouches, "read" \notin BuildFaults, NEW e \in Install
               PROVE  /\ unsent'[e] \subseteq Covers(mem'[e])
                      /\ unsent'[e] \subseteq Covers(saved'[e]) \cup unsaved'[e]
                      /\ saved'[e].device = 0 => Covers(saved'[e]) = {}
    BY DEF Unsent, Covers, PendingKeys
  <2>1. /\ unsent[e] \subseteq Covers(mem[e])
        /\ unsent[e] \subseteq Covers(saved[e]) \cup unsaved[e]
        /\ saved[e].device = 0 => Covers(saved[e]) = {}
    BY DEF EngineInv, Unsent
  <2>2. CASE e # d
    BY <1>4, <1>6, <2>1, <2>2
  <2>3. CASE e = d
    BY <1>3, <1>4, <1>6, <2>3
  <2> QED
    BY <2>2, <2>3
<1>11. PriorKept'
  <2> SUFFICES ASSUME NEW e \in Install, NEW k \in guarded'[e]
               PROVE  kind[k] = "register" /\ Sheltered(mem'[e], store'[e], k) /\ Sheltered(saved'[e], store'[e], k)
    BY <1>2 DEF PriorKept, Sheltered, Known
  <2>1. e # d /\ k \in guarded[e]
    BY <1>6
  <2>2. kind[k] = "register" /\ Sheltered(mem[e], store[e], k) /\ Sheltered(saved[e], store[e], k)
    BY <2>1 DEF EngineInv, PriorKept
  <2> QED
    BY <1>4, <1>6, <2>1, <2>2
<1> QED
  BY <1>7, <1>8, <1>9, <1>10, <1>11 DEF EngineInv

-----------------------------------------------------------------------------
(* The invariant holds                                                      *)

LEMMA Starts == Init => EngineInv
<1> SUFFICES ASSUME Init PROVE EngineInv
  OBVIOUS
<1>1. /\ mem = [d \in Install |-> Fresh(d)] /\ saved = [d \in Install |-> Fresh(0)] /\ backup = [d \in Install |-> {}]
      /\ pc = [d \in Install |-> "idle"] /\ inbox = [d \in Install |-> {}] /\ log = [i \in Id |-> <<>>]
      /\ nextId = Cardinality(Install) + 1
      /\ unsaved = [d \in Install |-> {}] /\ unsent = [d \in Install |-> {}]
      /\ guarded = [d \in Install |-> {k \in Present(store[d]) : kind[k] = "register"}]
      /\ restores = 0 /\ kind \in Tables
  BY DEF Init
<1>2. Install \subseteq Id /\ IsFiniteSet(Install) /\ Install = 1..Cardinality(Install) /\ kind \in [Key -> Kind]
  BY <1>1, EngineAssumption
<1>3. \A d \in Install : /\ Fresh(d) \in Engine
                         /\ Fresh(d).device = d /\ Fresh(d).nextSeq = 1 /\ Fresh(d).pending = <<>>
                         /\ \A k \in Key : ~Known(Fresh(d), k)
  BY <1>2, FreshIs
<1>4. /\ Fresh(0) \in Engine /\ Fresh(0).device = 0 /\ Fresh(0).pending = <<>> /\ Covers(Fresh(0)) = {}
      /\ \A k \in Key : ~Known(Fresh(0), k)
  BY FreshIs
<1>5. store \in [Install -> Library]
  <2>1. ReadPosition \subseteq Position
    BY EngineAssumption DEF ReadPosition, Position
  <2>2. \A k \in Key : Prior(k) \subseteq Copy(k) /\ Prior(k) \subseteq Position \cup Value \cup {Absent}
    BY <2>1 DEF Prior, Holds, Copy
  <2>3. UNION {Prior(k) : k \in Key} \subseteq Position \cup Value \cup {Absent}
    BY <2>2
  <2>4. {s \in [Key -> UNION {Prior(k) : k \in Key}] : \A k \in Key : s[k] \in Prior(k)} \subseteq Library
    BY <2>2, <2>3 DEF Library
  <2>5. store \in [Install -> {s \in [Key -> UNION {Prior(k) : k \in Key}] : \A k \in Key : s[k] \in Prior(k)}]
    BY DEF Init
  <2> QED
    BY <2>4, <2>5
<1>6. Cardinality(Install) \in Nat
  BY <1>2, FS_CardinalityType
<1>7. Types
  <2>1. <<>> \in Seq(Seq(Record))
    OBVIOUS
  <2>2. mem \in [Install -> Engine] /\ saved \in [Install -> Engine]
    BY <1>1, <1>3, <1>4
  <2>3. guarded \in [Install -> SUBSET Key]
    BY <1>1 DEF Present
  <2>4. nextId \in Nat \ {0} /\ restores \in Nat
    BY <1>1, <1>6
  <2> QED
    BY <1>1, <1>2, <1>5, <2>1, <2>2, <2>3, <2>4 DEF Types
<1>8. InboxFiled
  BY <1>1 DEF InboxFiled
<1>9. \A i \in Id : log[i] = <<>> /\ Len(log[i]) = 0
  BY <1>1
<1>10. Numbers
  <2>1. \A d \in Install : mem[d].device = d /\ mem[d].nextSeq = 1 /\ mem[d].pending = <<>> /\ d # 0
    BY <1>1, <1>2, <1>3 DEF Id
  <2>2. \A d \in Install : mem[d].device # 0 /\ Numbered(mem[d])
    <3> SUFFICES ASSUME NEW d \in Install PROVE mem[d].device # 0 /\ Numbered(mem[d])
      OBVIOUS
    <3>1. mem[d].device = d /\ mem[d].nextSeq = 1 /\ mem[d].pending = <<>> /\ d # 0
      BY <2>1
    <3>2. Len(log[d]) = 0
      BY <1>2, <1>9
    <3>3. mem[d].nextSeq - 1 <= Len(log[mem[d].device])
      BY <3>1, <3>2
    <3> QED
      BY <1>2, <1>9, <3>1, <3>2, <3>3 DEF Numbered
  <2>3. \A d \in Install : Numbered(saved[d])
    BY <1>1, <1>4 DEF Numbered
  <2> QED
    BY <1>1, <2>2, <2>3 DEF Numbers
<1>11. Owned
  <2>1. \A d \in Install : mem[d].device = d /\ mem[d].nextSeq = 1 /\ mem[d].pending = <<>> /\ saved[d].device = 0
    BY <1>1, <1>3, <1>4
  <2>2. \A d \in Install : Landed(mem[d])
    BY <1>2, <1>9, <2>1 DEF Landed
  <2>3. \A d \in Install : d < nextId
    BY <1>1, <1>2, <1>6
  <2>4. \A d \in Install : log[mem[d].device] = <<>>
    BY <1>2, <1>9, <2>1
  <2> QED
    BY <1>9, <2>1, <2>2, <2>3, <2>4 DEF Owned
<1>12. Unsent
  BY <1>1, <1>4 DEF Unsent
<1>13. PriorKept
  <2> SUFFICES ASSUME NEW d \in Install, NEW k \in guarded[d]
               PROVE  kind[k] = "register" /\ Sheltered(mem[d], store[d], k) /\ Sheltered(saved[d], store[d], k)
    BY DEF PriorKept
  <2>1. k \in Key /\ store[d][k] # Absent /\ kind[k] = "register"
    BY <1>1 DEF Present
  <2>2. ~Known(mem[d], k) /\ ~Known(saved[d], k)
    BY <1>1, <1>3, <1>4, <2>1
  <2> QED
    BY <2>1, <2>2 DEF Sheltered
<1> QED
  BY <1>7, <1>8, <1>10, <1>11, <1>12, <1>13 DEF EngineInv

LEMMA StepsKeep == EngineInv /\ [Next]_vars => EngineInv'
<1> SUFFICES ASSUME EngineInv, [Next]_vars PROVE EngineInv'
  OBVIOUS
<1>1. CASE UNCHANGED vars
  <2>1. UNCHANGED <<kind, store, mem, saved, backup, pc, inbox, log, nextId, unsaved, unsent, guarded, restores>>
    BY <1>1 DEF vars, host, ghosts, counters
  <2>2. Types'
    <3>1. Engine' = Engine /\ Library' = Library /\ Record' = Record
      BY <2>1 DEF Engine, Library, Record, Version, Copy
    <3> QED
      BY <2>1, <3>1 DEF EngineInv, Types
  <2>3. Numbers' /\ Owned' /\ InboxFiled' /\ PriorKept' /\ Unsent'
    BY <2>1, NumbersStand, InboxStands, PriorStands, UnsentStands DEF Same
  <2> QED
    BY <2>2, <2>3 DEF EngineInv
<1>2. ASSUME NEW d \in Install,
             \/ UserWrites(d)
             \/ Pull(d) \/ ApplyRecord(d) \/ PersistPage(d)
             \/ Build(d) \/ Push(d) \/ ContinueAsNew(d) \/ Finish(d)
             \/ Adopt(d)
             \/ PushUnheard(d) \/ RoundFails(d) \/ Crash(d) \/ Backup(d) \/ Restore(d)
      PROVE  EngineInv'
  BY <1>2, UserWritesKeep, PullKeeps, ApplyRecordKeeps, PersistPageKeeps, BuildKeeps, PushKeeps, ContinueAsNewKeeps, FinishKeeps,
     AdoptKeeps, PushUnheardKeeps, RoundFailsKeeps, CrashKeeps, BackupKeeps, RestoreKeeps
<1> QED
  BY <1>1, <1>2 DEF Next, Round

LEMMA EngineInvHolds == Spec => []EngineInv
  BY Starts, StepsKeep, PTL DEF Spec

-----------------------------------------------------------------------------
(***************************************************************************)
(* A device's numbers have no gap, whatever is lost, stopped or put back:  *)
(* the hub is never sent a segment it must refuse as SeqGapError           *)
(* (log.ts:25-35, `append`), which nothing in engine.ts recovers from.     *)
(***************************************************************************)
THEOREM NumbersHaveNoGap == Spec => []NumbersFollow
<1>1. EngineInv => NumbersFollow
  <2> SUFFICES ASSUME EngineInv, NEW d \in Install, Sending(d) PROVE Seq0(d) <= Head0(d) + 1
    BY DEF NumbersFollow
  <2>1. mem[d].device # 0 /\ Numbered(mem[d]) /\ mem[d].pending # <<>>
    BY DEF EngineInv, Numbers, Sending
  <2> QED
    BY <2>1 DEF Numbered, Seq0, Head0
<1> QED
  BY <1>1, EngineInvHolds, PTL

(***************************************************************************)
(* A number that was used is used for the same content: `push` resends a   *)
(* segment byte for byte after any loss or stop (engine.ts:5-7).  It rests *)
(* on the snapshot of a segment built being written before the segment is  *)
(* sent, so on no save of one failing; a backup put back is the case that  *)
(* `continueAsNewDevice` is for.                                           *)
(***************************************************************************)
THEOREM ResentIsWhatWasSent ==
  ASSUME "save" \notin BuildFaults
  PROVE  Spec => []ResendIsIdentical
<1>1. EngineInv => ResendIsIdentical
  <2> SUFFICES ASSUME EngineInv, restores = 0, NEW d \in Install, Sending(d), Conflict(d) PROVE FALSE
    BY DEF ResendIsIdentical
  <2>1. Landed(mem[d]) /\ mem[d].pending # <<>>
    BY DEF EngineInv, Owned, Sending
  <2>2. mem[d] \in Engine /\ mem[d].device # 0 /\ log \in [Id -> Seq(Seq(Record))]
    BY DEF EngineInv, Types, Numbers
  <2>3. Len(log[mem[d].device]) \in Nat /\ mem[d].nextSeq \in Nat
    BY <2>2 DEF Engine
  <2>4. mem[d].nextSeq - 1 <= Len(log[mem[d].device]) /\ log[mem[d].device][mem[d].nextSeq - 1] # mem[d].pending
    BY DEF Conflict, Resent, Seq0, Head0
  <2> QED
    BY <2>1, <2>3, <2>4 DEF Landed
<1> QED
  BY <1>1, EngineInvHolds, PTL

(***************************************************************************)
(* What the user changed stays on its way, in the dirty set or in the      *)
(* pending segment, until the hub has it or another device's later change  *)
(* has replaced it (sync-host.ts:58-61, engine.ts `touch`, `buildSegment`).*)
(* It rests on no change being lost between its record and its snapshot,   *)
(* and on no record being unreadable while a segment is built.             *)
(***************************************************************************)
THEOREM ChangesAreKept ==
  ASSUME ~LoseTouches, "read" \notin BuildFaults
  PROVE  Spec => []ChangesKept
<1>1. EngineInv => ChangesKept
  BY DEF EngineInv, Unsent, ChangesKept, Covers
<1> QED
  BY <1>1, EngineInvHolds, PTL

(***************************************************************************)
(* What the library held before it first synced is not deleted by the      *)
(* history of the first pull, however often that pull is cut short: the    *)
(* copies met in it stay held until a round ends (engine.ts:290-295).      *)
(***************************************************************************)
THEOREM PriorCopiesSurvive == Spec => []PriorCopySurvives
<1>1. EngineInv => PriorCopySurvives
  BY DEF EngineInv, PriorKept, PriorCopySurvives, Sheltered
<1> QED
  BY <1>1, EngineInvHolds, PTL

-----------------------------------------------------------------------------
(***************************************************************************)
(* That nothing is skipped takes an invariant of its own, about what a     *)
(* vector counts.  A record counted has been merged: the stamp kept for    *)
(* its key covers it, for good (`Covered`), and the store shows it or what *)
(* came after it (`Shows`).  Covering is said of every state an install    *)
(* may start from, each with its own vector; showing of the store, which   *)
(* runs ahead of the snapshot, as a stop takes the stamps back and not the *)
(* store.  What a position was rewound by is then no longer in memory, but *)
(* in the snapshot or at the hub (`ResetsKnown`), unless the user did it   *)
(* since the snapshot, which is the change that LoseTouches loses.  Of a   *)
(* page being applied, what is before the records left has been merged     *)
(* (`PageOK`), so the vector may count a segment with its last record.     *)
(***************************************************************************)
Issued(s) == s.physical > 0 \/ s.counter > 0
Reached(clock, s) == s.physical < clock.physical \/ (s.physical = clock.physical /\ s.counter <= clock.counter)

EnvelopeOK(env, now) ==
  /\ env.hlc.physical <= now /\ Issued(env.hlc)
  /\ env.kind = "progress" => Reached(env.hlc, env.reset)

LogOK(l, now) == \A i \in Id : \A n \in 1..Len(l[i]) : \A j \in 1..Len(l[i][n]) : EnvelopeOK(l[i][n][j].env, now)

\* A clock has reached every stamp, and a stamp the reset beside it; none is ahead of the wall clock.
StampsOK(m, now) ==
  /\ m.clock.physical <= now
  /\ \A k \in Key : /\ Reached(m.clock, m.stamps[k].hlc) /\ Reached(m.stamps[k].hlc, m.stamps[k].reset)
                    /\ m.stamps[k].hlc.physical <= now
                    /\ k \in m.dirty => Issued(m.stamps[k].hlc)
  /\ \A j \in 1..Len(m.pending) : EnvelopeOK(m.pending[j].env, now)

\* A vector counts no segment the hub does not have, and of the install's own all but the one pending.
VectorOK(m, l) ==
  /\ \A i \in Id : m.vector[i] <= Len(l[i])
  /\ m.device # 0 => m.nextSeq - 1 <= m.vector[m.device] + (IF m.pending = <<>> THEN 0 ELSE 1)

StateOK(m, l, now) == StampsOK(m, now) /\ VectorOK(m, l)

\* What a state counts as merged: what its vector does, and its own segment that is pending.
Counts(m, r, l) ==
  \/ \E i \in Id : \E n \in 1..m.vector[i] : \E j \in 1..Len(l[i][n]) : r = l[i][n][j]
  \/ \E j \in 1..Len(m.pending) : r = m.pending[j]

\* The hub holds the reset of a position, or a later one.
ResetFiled(k, reset, l) ==
  \E i \in Id : \E n \in 1..Len(l[i]) : \E j \in 1..Len(l[i][n]) : l[i][n][j].key = k /\ l[i][n][j].env.reset = reset
Rewinds(k, reset, l) ==
  \E i \in Id : \E n \in 1..Len(l[i]) : \E j \in 1..Len(l[i][n]) :
    l[i][n][j].key = k /\ Earlier(reset, l[i][n][j].env.reset)

Covered(stamp, r) ==
  /\ stamp # Unstamped
  /\ r.env.kind = "register" => AtMost(r.env.hlc, stamp.hlc)
  /\ r.env.kind = "progress" => AtMost(r.env.reset, stamp.reset)

PositionOf(value) == IF value = Absent THEN Unread ELSE value

Shows(stamp, value, r, l) ==
  /\ r.env.kind = "event" => IsLive(r.env) \/ value = Absent
  /\ r.env.kind = "progress" => \/ Earlier(r.env.reset, stamp.reset) \/ Rewinds(r.key, r.env.reset, l)
                                \/ Further(PositionOf(value), r.env.value) = PositionOf(value)

Merged(m, s, r, l) == Covered(m.stamps[r.key], r) /\ Shows(m.stamps[r.key], s[r.key], r, l)

\* Of a page being applied, what is before the records left has been merged.
PageOK(d) ==
  pc[d] = "apply" =>
    \A ref \in inbox[d] : \A n \in 1..ref.seq : \A j \in 1..Len(log[ref.device][n]) :
      n < ref.seq \/ j < ref.nth =>
        \/ \E other \in inbox[d] : other.device = ref.device /\ other.seq = n /\ other.nth = j
        \/ Merged(mem[d], store[d], log[ref.device][n][j], log)

ResetsKnown(d) ==
  \A k \in Key : kind[k] = "progress" =>
    \/ k \in unsaved[d]
    \/ mem[d].stamps[k].reset = saved[d].stamps[k].reset
    \/ ResetFiled(k, mem[d].stamps[k].reset, log)

StatesOK(d) ==
  /\ StateOK(mem[d], log, restores) /\ StateOK(saved[d], log, restores)
  /\ \A b \in backup[d] : StateOK(b.state, log, restores)
  /\ saved[d].device = 0 => saved[d] = Fresh(0)

CountedMerged(d) ==
  \A r \in Record :
    /\ Counts(mem[d], r, log) => Merged(mem[d], store[d], r, log)
    /\ Counts(saved[d], r, log) => Merged(mem[d], store[d], r, log) /\ Covered(saved[d].stamps[r.key], r)
    /\ \A b \in backup[d] : Counts(b.state, r, log) => Merged(b.state, b.store, r, log)

InstallOK(d) == StatesOK(d) /\ ResetsKnown(d) /\ CountedMerged(d) /\ PageOK(d)

SkipInv == EngineInv /\ LogOK(log, restores) /\ \A d \in Install : InstallOK(d)

-----------------------------------------------------------------------------
(* Stamps in their order                                                    *)

LEMMA StampOrder ==
  ASSUME NEW a \in Stamp, NEW b \in Stamp, NEW c \in Stamp
  PROVE  /\ Earlier(a, b) \/ AtMost(b, a)
         /\ AtMost(a, b) /\ AtMost(b, c) => AtMost(a, c)
         /\ AtMost(a, b) /\ Earlier(b, c) => Earlier(a, c)
         /\ Earlier(a, b) /\ AtMost(b, c) => Earlier(a, c)
         /\ AtMost(NoStamp, a)
         /\ ~Earlier(a, NoStamp)
  BY DEF Stamp, Earlier, AtMost, NoStamp

LEMMA Reaching ==
  ASSUME NEW a \in Stamp, NEW b \in Stamp, NEW c \in Stamp
  PROVE  /\ Reached(a, b) /\ Reached(b, c) => Reached(a, c)
         /\ Reached(a, a) /\ Reached(a, NoStamp)
         /\ AtMost(a, b) => Reached(b, a)
         /\ Reached(a, b) /\ Issued(b) => Issued(a)
  BY DEF Stamp, Earlier, AtMost, Reached, NoStamp, Issued

\* A stamp sent is after all the clock has reached.
LEMMA SentIs ==
  ASSUME NEW s \in Stamp, NEW now \in Nat, s.physical <= now
  PROVE  LET t == Send(s, now)
         IN  /\ t \in Stamp /\ t.physical <= now /\ Issued(t) /\ Reached(t, t)
             /\ \A x \in Stamp : Reached(s, x) => Earlier(x, t) /\ Reached(t, x)
  BY DEF Send, At, Stamp, Earlier, Reached, Issued

LEMMA ReceivedIs ==
  ASSUME NEW s \in Stamp, NEW x \in Stamp, NEW now \in Nat, s.physical <= now, x.physical <= now
  PROVE  LET t == Recv(s, x, now)
         IN  /\ t \in Stamp /\ t.physical <= now /\ Reached(t, x)
             /\ \A y \in Stamp : Reached(s, y) => Reached(t, y)
<1>1. Followed(x, now)
  BY MaxDriftAssumption DEF Followed, Stamp
<1> QED
  BY <1>1 DEF Recv, At, Stamp, Reached, Larger

LEMMA LaterReaches ==
  ASSUME NEW a \in Stamp, NEW b \in Stamp, NEW x \in Stamp, NEW y \in Stamp
  PROVE  /\ Reached(a, x) /\ Reached(b, y) => Reached(Later(a, b), Later(x, y))
         /\ Issued(b) => Issued(Later(a, b))
         /\ Later(a, b) \in {a, b} /\ AtMost(a, Later(a, b)) /\ AtMost(b, Later(a, b))
  BY DEF Stamp, Earlier, AtMost, Reached, Later, Issued

LEMMA FurtherIs ==
  ASSUME NEW p \in Position, NEW q \in Position
  PROVE  Further(p, q) = p <=> (q.read => p.read) /\ q.lastPage <= p.lastPage
<1>1. p = [read |-> p.read, lastPage |-> p.lastPage] /\ p.read \in BOOLEAN /\ p.lastPage \in Nat
  BY DEF Position
<1>2. q.read \in BOOLEAN /\ q.lastPage \in Nat
  BY DEF Position
<1>3. Further(p, q).read = (p.read \/ q.read) /\ Further(p, q).lastPage = Larger(p.lastPage, q.lastPage)
  BY DEF Further
<1>4. ASSUME Further(p, q) = p PROVE (q.read => p.read) /\ q.lastPage <= p.lastPage
  <2>1. p.read = (p.read \/ q.read) /\ p.lastPage = Larger(p.lastPage, q.lastPage)
    BY <1>3, <1>4
  <2>2. q.read => p.read
    BY <1>1, <1>2, <2>1, Zenon
  <2>3. q.lastPage <= p.lastPage
    BY <1>1, <1>2, <2>1 DEF Larger
  <2> QED
    BY <2>2, <2>3
<1>5. ASSUME q.read => p.read, q.lastPage <= p.lastPage PROVE Further(p, q) = p
  <2>1. (p.read \/ q.read) = p.read
    BY <1>1, <1>2, <1>5, Zenon
  <2>2. Larger(p.lastPage, q.lastPage) = p.lastPage
    BY <1>1, <1>2, <1>5 DEF Larger
  <2> QED
    BY <1>1, <2>1, <2>2 DEF Further
<1> QED
  BY <1>4, <1>5

LEMMA FurtherKeeps ==
  ASSUME NEW p \in Position, NEW q \in Position, NEW v \in Position
  PROVE  /\ Further(p, v) = p /\ Further(p, q) = q => Further(q, v) = q
         /\ Further(p, v) = p => Further(Further(p, q), v) = Further(p, q)
         /\ Further(Further(p, q), q) = Further(p, q) /\ Further(p, p) = p
         /\ Further(Unread, v) = Unread => Further(p, v) = p
<1> DEFINE j == Further(p, q)
<1>1. j \in Position /\ j.read = (p.read \/ q.read) /\ j.lastPage = Larger(p.lastPage, q.lastPage)
  BY PositionsJoin DEF Further
<1>2. Unread \in Position /\ Unread.read = FALSE /\ Unread.lastPage = 0
  BY DEF Unread, Position
<1> HIDE DEF j
<1>3. /\ p.read \in BOOLEAN /\ p.lastPage \in Nat /\ q.read \in BOOLEAN /\ q.lastPage \in Nat
      /\ v.read \in BOOLEAN /\ v.lastPage \in Nat
  BY DEF Position
<1>4. (j.read <=> p.read \/ q.read) /\ p.lastPage <= j.lastPage /\ q.lastPage <= j.lastPage
      /\ (j.lastPage = p.lastPage \/ j.lastPage = q.lastPage) /\ j.lastPage \in Nat
  <2>1. j.read <=> p.read \/ q.read
    BY <1>1, Zenon
  <2>2. p.lastPage <= j.lastPage /\ q.lastPage <= j.lastPage
        /\ (j.lastPage = p.lastPage \/ j.lastPage = q.lastPage) /\ j.lastPage \in Nat
    BY <1>1, <1>3 DEF Larger
  <2> QED
    BY <2>1, <2>2, Zenon
<1>5. Further(p, v) = p <=> (v.read => p.read) /\ v.lastPage <= p.lastPage
  BY FurtherIs
<1>6. Further(q, v) = q <=> (v.read => q.read) /\ v.lastPage <= q.lastPage
  BY FurtherIs
<1>7. Further(j, v) = j <=> (v.read => j.read) /\ v.lastPage <= j.lastPage
  BY <1>1, FurtherIs
<1>8. Further(j, q) = j /\ Further(p, p) = p
  <2>1. Further(j, q) = j <=> (q.read => j.read) /\ q.lastPage <= j.lastPage
    BY <1>1, FurtherIs
  <2>2. Further(p, p) = p <=> (p.read => p.read) /\ p.lastPage <= p.lastPage
    BY FurtherIs
  <2> QED
    BY <1>3, <1>4, <2>1, <2>2
<1>9. Further(Unread, v) = Unread <=> (v.read => FALSE) /\ v.lastPage <= 0
  <2>1. Further(Unread, v) = Unread <=> (v.read => Unread.read) /\ v.lastPage <= Unread.lastPage
    BY <1>2, FurtherIs
  <2> QED
    BY <1>2, <2>1
<1>10. ASSUME Further(p, v) = p, Further(p, q) = q PROVE Further(q, v) = q
  <2>1. j = q
    BY <1>10 DEF j
  <2>2. (v.read => q.read) /\ v.lastPage <= q.lastPage
    BY <1>3, <1>4, <1>5, <1>10, <2>1
  <2> QED
    BY <1>6, <2>2, Zenon
<1>11. ASSUME Further(p, v) = p PROVE Further(j, v) = j
  <2>1. (v.read => j.read) /\ v.lastPage <= j.lastPage
    BY <1>3, <1>4, <1>5, <1>11
  <2> QED
    BY <1>7, <2>1, Zenon
<1>12. ASSUME Further(Unread, v) = Unread PROVE Further(p, v) = p
  <2>1. (v.read => p.read) /\ v.lastPage <= p.lastPage
    BY <1>3, <1>9, <1>12
  <2> QED
    BY <1>5, <2>1, Zenon
<1> QED
  BY <1>8, <1>10, <1>11, <1>12 DEF j

-----------------------------------------------------------------------------
(* A stamp covers what it covered                                           *)

LEMMA CoverGrows ==
  ASSUME NEW a \in Stamped, NEW b \in Stamped, NEW r \in Record, Covered(a, r), b # Unstamped,
         r.env.kind = "register" => AtMost(a.hlc, b.hlc),
         r.env.kind = "progress" => AtMost(a.reset, b.reset)
  PROVE  Covered(b, r)
<1>1. /\ a.hlc \in Stamp /\ a.reset \in Stamp /\ b.hlc \in Stamp /\ b.reset \in Stamp
  BY DEF Stamped
<1>2. r.env \in Version(r.key) /\ r.env.hlc \in Stamp /\ (r.env.kind = "progress" => r.env.reset \in Stamp)
  BY DEF Record, Version, Progress
<1> QED
  BY <1>1, <1>2, StampOrder DEF Covered

LEMMA IssuedIsStamped == ASSUME NEW stamp, Issued(stamp.hlc) PROVE stamp # Unstamped
  BY DEF Issued, Unstamped, NoStamp

\* An engine as taking in a version leaves it.
Stamping(m, k, stamp, held, dirty) == [m EXCEPT !.held = held, !.stamps = [m.stamps EXCEPT ![k] = stamp], !.dirty = dirty]

LEMMA StampSet ==
  ASSUME restores \in Nat, NEW m \in Engine, StampsOK(m, restores), NEW k \in Key, NEW stamp \in Stamped,
         Reached(m.clock, stamp.hlc), Reached(stamp.hlc, stamp.reset), stamp.hlc.physical <= restores, Issued(stamp.hlc),
         NEW held \in SUBSET Key, NEW dirty \in SUBSET m.dirty
  PROVE  LET n == Stamping(m, k, stamp, held, dirty)
         IN  StampsOK(n, restores) /\ n.stamps[k] = stamp /\ n.clock = m.clock
<1> DEFINE stamps == [m.stamps EXCEPT ![k] = stamp]
           n == Stamping(m, k, stamp, held, dirty)
<1>1. m.stamps \in [Key -> Stamped]
  BY DEF Engine
<1>2. stamps[k] = stamp /\ \A j \in Key \ {k} : stamps[j] = m.stamps[j]
  BY <1>1
<1>3. n = [m EXCEPT !.held = held, !.stamps = stamps, !.dirty = dirty]
  BY DEF Stamping
<1> HIDE DEF stamps
<1> HIDE DEF n
<1>4. n.stamps = stamps /\ n.dirty = dirty /\ n.clock = m.clock /\ n.pending = m.pending
  BY <1>3 DEF Engine
<1>5. StampsOK(n, restores)
  BY <1>2, <1>4 DEF StampsOK
<1> QED
  BY <1>2, <1>4, <1>5 DEF n, stamps

LEMMA TouchMoves ==
  ASSUME restores \in Nat, NEW m \in Engine, StampsOK(m, restores), NEW k \in Key, NEW rewind \in BOOLEAN
  PROVE  LET n == Touched(m, k, rewind)
         IN  /\ StampsOK(n, restores)
             /\ n.stamps[k] \in Stamped /\ n.stamps[k] # Unstamped
             /\ \A x \in Stamp : Reached(m.clock, x) => Earlier(x, n.stamps[k].hlc)
             /\ n.stamps[k].reset = IF rewind THEN n.stamps[k].hlc ELSE m.stamps[k].reset
<1> DEFINE n == Touched(m, k, rewind)
           t == Send(m.clock, restores)
           new == [hlc |-> t, reset |-> IF rewind THEN t ELSE m.stamps[k].reset]
<1>1. m.clock \in Stamp /\ m.stamps \in [Key -> Stamped] /\ m.stamps[k] \in Stamped /\ m.clock.physical <= restores
  BY DEF Engine, StampsOK
<1>2. m.stamps[k].hlc \in Stamp /\ m.stamps[k].reset \in Stamp
  BY <1>1 DEF Stamped
<1>3. /\ t \in Stamp /\ t.physical <= restores /\ Issued(t) /\ Reached(t, t)
      /\ \A x \in Stamp : Reached(m.clock, x) => Earlier(x, t) /\ Reached(t, x)
  BY <1>1, SentIs
<1>4. /\ n.pending = m.pending /\ n.dirty = m.dirty \cup {k}
      /\ \A j \in Key \ {k} : n.stamps[j] = m.stamps[j]
  BY TouchedIs
<1>5. n.clock = t /\ n.stamps[k] = new
  BY <1>1 DEF Touched, wall, Engine
<1> HIDE DEF n
<1> HIDE DEF t
<1>6. new \in Stamped /\ new.hlc = t /\ new.reset = IF rewind THEN t ELSE m.stamps[k].reset
  BY <1>2, <1>3 DEF Stamped
<1> HIDE DEF new
<1>7. Reached(t, m.stamps[k].reset)
  <2>1. Reached(m.clock, m.stamps[k].reset)
    BY <1>1, <1>2, Reaching DEF StampsOK
  <2> QED
    BY <1>2, <1>3, <2>1
<1>8. \A j \in Key : Reached(t, m.stamps[j].hlc)
  <2>1. \A j \in Key : m.stamps[j].hlc \in Stamp
    BY <1>1 DEF Stamped
  <2> QED
    BY <1>3, <2>1 DEF StampsOK
<1>9. StampsOK(n, restores)
  BY <1>3, <1>4, <1>5, <1>6, <1>7, <1>8 DEF StampsOK
<1>10. new # Unstamped
  BY <1>3, <1>6, IssuedIsStamped
<1> QED
  BY <1>3, <1>5, <1>6, <1>9, <1>10 DEF n

-----------------------------------------------------------------------------
(* Merging one record keeps what was merged, and merges it                  *)

LEMMA RegisterMerges ==
  ASSUME restores \in Nat, kind \in [Key -> Kind],
         NEW m \in Engine, StampsOK(m, restores), NEW s \in Library, NEW k \in Key, kind[k] = "register",
         NEW env \in Version(k), EnvelopeOK(env, restores), Reached(m.clock, env.hlc)
  PROVE  LET a == ApplyRegister(m, s, k, env)
         IN  /\ StampsOK(a.mem, restores)
             /\ a.mem.stamps[k] \in Stamped /\ a.mem.stamps[k] # Unstamped
             /\ AtMost(env.hlc, a.mem.stamps[k].hlc)
             /\ Known(m, k) => AtMost(m.stamps[k].hlc, a.mem.stamps[k].hlc)
<1> DEFINE held == IF ~Known(m, k) /\ s[k] # Absent THEN m.held \cup {k} ELSE m.held
           a == ApplyRegister(m, s, k, env)
           stamp == [hlc |-> env.hlc, reset |-> NoStamp]
<1>1. /\ env.hlc \in Stamp /\ m.clock \in Stamp /\ m.stamps[k] \in Stamped /\ m.stamps[k].hlc \in Stamp
      /\ Issued(env.hlc) /\ env.hlc.physical <= restores
  BY DEF Version, Engine, Stamped, EnvelopeOK
<1>2. stamp \in Stamped /\ stamp.hlc = env.hlc /\ stamp.reset = NoStamp
  BY <1>1, ClockTicks DEF Stamped
<1>3. held \in SUBSET Key /\ m.dirty \in SUBSET Key
  BY DEF Engine
<1> HIDE DEF held
<1>4. CASE Known(m, k) /\ ~Earlier(m.stamps[k].hlc, env.hlc) /\ a = Outcome(m, s)
  <2>1. a.mem = m
    BY <1>4 DEF Outcome
  <2>2. AtMost(env.hlc, m.stamps[k].hlc) /\ AtMost(m.stamps[k].hlc, m.stamps[k].hlc)
    BY <1>1, <1>4, StampOrder DEF AtMost
  <2> HIDE DEF a
  <2> QED
    BY <1>1, <1>4, <2>1, <2>2 DEF Known, a
<1>5. CASE a = Outcome(Touched([m EXCEPT !.held = held], k, FALSE), s)
  <2> DEFINE h == [m EXCEPT !.held = held]
             n == Touched(h, k, FALSE)
  <2>1. h \in Engine /\ h.clock = m.clock /\ h.stamps = m.stamps /\ h.dirty = m.dirty /\ h.pending = m.pending
    BY <1>3 DEF Engine
  <2> HIDE DEF h
  <2>2. StampsOK(h, restores)
    BY <2>1 DEF StampsOK
  <2>3. /\ StampsOK(n, restores)
        /\ n.stamps[k] \in Stamped /\ n.stamps[k] # Unstamped
        /\ \A x \in Stamp : Reached(h.clock, x) => Earlier(x, n.stamps[k].hlc)
    BY <2>1, <2>2, TouchMoves
  <2> HIDE DEF n
  <2>4. Reached(m.clock, m.stamps[k].hlc)
    BY DEF StampsOK
  <2>5. a.mem = n
    BY <1>5 DEF Outcome, n, h
  <2> HIDE DEF a
  <2> QED
    BY <1>1, <2>1, <2>3, <2>4, <2>5 DEF AtMost, a
<1>6. CASE /\ ~Known(m, k) \/ Earlier(m.stamps[k].hlc, env.hlc)
           /\ a = Outcome([m EXCEPT !.held = held, !.stamps[k] = stamp, !.dirty = @ \ {k}], [s EXCEPT ![k] = env.value])
  <2> DEFINE dirty == m.dirty \ {k}
             n == Stamping(m, k, stamp, held, dirty)
  <2>1. a.mem = n
    BY <1>6 DEF Outcome, Stamping
  <2> HIDE DEF a
  <2>2. dirty \in SUBSET m.dirty /\ Reached(stamp.hlc, stamp.reset)
    BY <1>1, <1>2, Reaching
  <2> HIDE DEF dirty
  <2> HIDE DEF stamp
  <2>3. StampsOK(n, restores) /\ n.stamps[k] = stamp
    BY <1>1, <1>2, <1>3, <2>2, StampSet
  <2> HIDE DEF n
  <2>4. stamp # Unstamped
    BY <1>1, <1>2, IssuedIsStamped
  <2> QED
    BY <1>2, <1>6, <2>1, <2>3, <2>4 DEF AtMost, a
<1> QED
  BY <1>4, <1>5, <1>6 DEF ApplyRegister, held

LEMMA EventMerges ==
  ASSUME restores \in Nat, kind \in [Key -> Kind],
         NEW m \in Engine, StampsOK(m, restores), NEW s \in Library, NEW k \in Key, kind[k] = "event",
         NEW env \in Version(k), EnvelopeOK(env, restores), Reached(m.clock, env.hlc)
  PROVE  LET a == ApplyEvent(m, s, k, env)
         IN  /\ StampsOK(a.mem, restores)
             /\ a.mem.stamps[k] \in Stamped /\ a.mem.stamps[k] # Unstamped
             /\ IsLive(env) \/ a.store[k] = Absent
             /\ Known(m, k) /\ s[k] = Absent => a.store[k] = Absent
<1> DEFINE a == ApplyEvent(m, s, k, env)
           stamp == [hlc |-> env.hlc, reset |-> NoStamp]
<1>1. /\ env.hlc \in Stamp /\ m.clock \in Stamp /\ m.stamps[k] \in Stamped
      /\ Issued(env.hlc) /\ env.hlc.physical <= restores
  BY DEF Version, Engine, EnvelopeOK
<1>2. stamp \in Stamped /\ stamp.hlc = env.hlc /\ stamp.reset = NoStamp
  BY <1>1, ClockTicks DEF Stamped
<1>3. m.held \in SUBSET Key /\ m.dirty \in SUBSET Key /\ (IsLive(env) <=> env.value # Absent)
  BY DEF Engine, IsLive, Version
<1>4. CASE IsLive(env) /\ Known(m, k) /\ a = Outcome(m, s)
  <2>1. a.mem = m /\ a.store = s
    BY <1>4 DEF Outcome
  <2> HIDE DEF a
  <2> QED
    BY <1>1, <1>4, <2>1 DEF Known, a
<1>5. CASE /\ ~(IsLive(env) /\ Known(m, k) /\ s[k] = Absent)
           /\ a = Outcome([m EXCEPT !.stamps[k] = stamp, !.dirty = @ \ {k}], [s EXCEPT ![k] = env.value])
  <2> DEFINE dirty == m.dirty \ {k}
             held == m.held
             n == Stamping(m, k, stamp, held, dirty)
             t == [s EXCEPT ![k] = env.value]
  <2>1. [m EXCEPT !.stamps[k] = stamp, !.dirty = @ \ {k}] = n
    BY DEF Engine, Stamping
  <2>2. t[k] = env.value
    BY DEF Library
  <2> HIDE DEF t
  <2>3. a.mem = n /\ a.store = t
    BY <1>5, <2>1 DEF Outcome, t
  <2> HIDE DEF a
  <2>4. dirty \in SUBSET m.dirty /\ held \in SUBSET Key /\ Reached(stamp.hlc, stamp.reset)
    BY <1>1, <1>2, <1>3, Reaching
  <2> HIDE DEF dirty
  <2> HIDE DEF held
  <2> HIDE DEF stamp
  <2>5. StampsOK(n, restores) /\ n.stamps[k] = stamp
    BY <1>1, <1>2, <2>4, StampSet
  <2> HIDE DEF n
  <2>6. stamp # Unstamped
    BY <1>1, <1>2, IssuedIsStamped
  <2> QED
    BY <1>2, <1>3, <1>5, <2>2, <2>3, <2>5, <2>6 DEF a
<1> QED
  BY <1>4, <1>5 DEF ApplyEvent

LEMMA ProgressMerged ==
  ASSUME restores \in Nat, kind \in [Key -> Kind],
         NEW m \in Engine, StampsOK(m, restores), NEW s \in Library, NEW k \in Key, kind[k] = "progress",
         NEW env \in Version(k), EnvelopeOK(env, restores), Reached(m.clock, env.hlc)
  PROVE  LET a == ApplyProgress(m, s, k, env)
             old == PositionOf(s[k])
             new == PositionOf(a.store[k])
         IN  /\ StampsOK(a.mem, restores)
             /\ a.mem.stamps[k] \in Stamped /\ a.mem.stamps[k] # Unstamped
             /\ AtMost(m.stamps[k].reset, a.mem.stamps[k].reset) /\ AtMost(env.reset, a.mem.stamps[k].reset)
             /\ a.mem.stamps[k].reset \in {m.stamps[k].reset, env.reset}
             /\ Earlier(env.reset, a.mem.stamps[k].reset) \/ Further(new, env.value) = new
             /\ \A v \in Position : Known(m, k) /\ Further(old, v) = old =>
                  Earlier(m.stamps[k].reset, a.mem.stamps[k].reset) \/ Further(new, v) = new
<1> DEFINE met == Known(m, k) \/ s[k] # Absent
           known == IF Known(m, k) THEN m.stamps[k] ELSE [hlc |-> env.hlc, reset |-> NoStamp]
           local == ToEnvelope(k, s[k], known)
           merged == IF met THEN MergeProgress(local, env) ELSE env
           stamp == [hlc |-> merged.hlc, reset |-> merged.reset]
           held == m.held
           dirty == m.dirty
           n == Stamping(m, k, stamp, held, dirty)
           a == ApplyProgress(m, s, k, env)
           old == PositionOf(s[k])
           new == PositionOf(a.store[k])
<1>1. /\ env \in Progress /\ env.hlc \in Stamp /\ env.reset \in Stamp /\ env.value \in Position
      /\ Issued(env.hlc) /\ env.hlc.physical <= restores /\ Reached(env.hlc, env.reset)
  BY DEF Version, Progress, EnvelopeOK
<1>2. /\ m.held \in SUBSET Key /\ m.dirty \in SUBSET Key /\ m.stamps[k] \in Stamped /\ m.clock \in Stamp
      /\ m.stamps[k].hlc \in Stamp /\ m.stamps[k].reset \in Stamp
  BY DEF Engine, Stamped
<1>3. /\ s[k] \in Position \cup {Absent} /\ old \in Position /\ Absent \notin Position
      /\ s \in [Key -> Position \cup Value \cup {Absent}]
  BY UnreadIs, AbsentAssumption DEF Library, Copy, PositionOf
<1>4. /\ Reached(m.clock, m.stamps[k].hlc) /\ Reached(m.stamps[k].hlc, m.stamps[k].reset)
      /\ m.stamps[k].hlc.physical <= restores
  BY DEF StampsOK
<1>5. /\ known \in Stamped /\ known.hlc \in Stamp /\ known.reset \in Stamp
      /\ Reached(m.clock, known.hlc) /\ Reached(known.hlc, known.reset) /\ known.hlc.physical <= restores
      /\ known.reset = m.stamps[k].reset
  <2>1. CASE Known(m, k)
    BY <1>2, <1>4, <2>1
  <2>2. CASE ~Known(m, k)
    <3>1. known = [hlc |-> env.hlc, reset |-> NoStamp] /\ NoStamp \in Stamp /\ m.stamps[k].reset = NoStamp
      <4>1. NoStamp \in Stamp
        BY DEF NoStamp, Stamp
      <4>2. m.stamps[k] = Unstamped
        BY <2>2 DEF Known
      <4>3. m.stamps[k].reset = NoStamp
        BY <4>2 DEF Unstamped
      <4> QED
        BY <2>2, <4>1, <4>3
    <3>2. known \in Stamped /\ known.hlc = env.hlc /\ known.reset = NoStamp
      BY <1>1, <3>1 DEF Stamped
    <3>3. Reached(env.hlc, NoStamp)
      BY <1>1, <3>1, Reaching
    <3> QED
      BY <1>1, <3>1, <3>2, <3>3
  <2> QED
    BY <2>1, <2>2
<1> HIDE DEF known
<1>6. /\ local.hlc = known.hlc /\ local.reset = known.reset /\ local.value = old
  BY DEF ToEnvelope, PositionOf
<1> HIDE DEF local
<1>7. /\ met => merged.hlc = Later(known.hlc, env.hlc) /\ merged.reset = Later(known.reset, env.reset)
                /\ merged.value = IF known.reset = env.reset THEN Further(old, env.value)
                                  ELSE IF Earlier(env.reset, known.reset) THEN old ELSE env.value
      /\ ~met => merged = env
  BY <1>6 DEF MergeProgress
<1>8. /\ merged.hlc \in Stamp /\ merged.reset \in Stamp /\ merged.value \in Position /\ Issued(merged.hlc)
      /\ merged.hlc.physical <= restores /\ Reached(m.clock, merged.hlc) /\ Reached(merged.hlc, merged.reset)
      /\ AtMost(known.reset, merged.reset) /\ AtMost(env.reset, merged.reset)
      /\ merged.reset \in {known.reset, env.reset}
  <2>1. CASE met
    <3>1. /\ Reached(Later(known.hlc, env.hlc), Later(known.reset, env.reset)) /\ Issued(Later(known.hlc, env.hlc))
          /\ Later(known.hlc, env.hlc) \in {known.hlc, env.hlc} /\ Later(known.reset, env.reset) \in {known.reset, env.reset}
          /\ AtMost(known.reset, Later(known.reset, env.reset)) /\ AtMost(env.reset, Later(known.reset, env.reset))
      BY <1>1, <1>5, LaterReaches
    <3>2. Further(old, env.value) \in Position
      BY <1>1, <1>3, PositionsJoin
    <3> HIDE DEF merged
    <3> HIDE DEF old
    <3> QED
      BY <1>1, <1>3, <1>5, <1>7, <2>1, <3>1, <3>2
  <2>2. CASE ~met
    <3>1. known.reset = NoStamp
      BY <1>5, <2>2 DEF Known, Unstamped
    <3> QED
      BY <1>1, <1>5, <1>7, <2>2, <3>1, StampOrder DEF AtMost
  <2> QED
    BY <2>1, <2>2
<1>9. a.mem = n /\ (\/ a.store = s /\ met /\ merged.value = old
                   \/ a.store = [s EXCEPT ![k] = merged.value])
  <2>1. [m EXCEPT !.stamps[k] = stamp] = n
    BY DEF Engine, Stamping
  <2>2. met /\ ~ProgressChanges(local, env) => merged.value = old
    BY <1>6 DEF ProgressChanges
  <2>3. a = Outcome(n, IF met /\ ~ProgressChanges(local, env) THEN s ELSE [s EXCEPT ![k] = merged.value])
    BY <2>1 DEF ApplyProgress, local, known
  <2> HIDE DEF a
  <2> HIDE DEF n
  <2> HIDE DEF merged
  <2> HIDE DEF met
  <2> HIDE DEF old
  <2>4. a.mem = n /\ a.store = IF met /\ ~ProgressChanges(local, env) THEN s ELSE [s EXCEPT ![k] = merged.value]
    BY <2>3 DEF Outcome
  <2> QED
    BY <2>2, <2>4
<1> HIDE DEF a
<1> HIDE DEF merged
<1>10. new = merged.value
  <2>1. CASE a.store = s /\ merged.value = old
    BY <2>1
  <2>2. CASE a.store = [s EXCEPT ![k] = merged.value]
    BY <1>3, <1>8, <2>2 DEF PositionOf
  <2> QED
    BY <1>9, <2>1, <2>2
<1> HIDE DEF new
<1> HIDE DEF old
<1>11. stamp \in Stamped /\ stamp.hlc = merged.hlc /\ stamp.reset = merged.reset
  BY <1>8 DEF Stamped
<1> HIDE DEF stamp
<1>12. held \in SUBSET Key /\ dirty \in SUBSET m.dirty
  BY <1>2
<1> HIDE DEF held
<1> HIDE DEF dirty
<1>13. StampsOK(n, restores) /\ n.stamps[k] = stamp
  <2>1. Reached(m.clock, stamp.hlc) /\ Reached(stamp.hlc, stamp.reset) /\ stamp.hlc.physical <= restores /\ Issued(stamp.hlc)
    BY <1>8, <1>11
  <2> QED
    BY <1>11, <1>12, <2>1, StampSet
<1> HIDE DEF n
<1>14. stamp # Unstamped
  BY <1>8, <1>11, IssuedIsStamped
<1>15. Earlier(env.reset, merged.reset) \/ Further(new, env.value) = new
  <2>1. CASE ~met
    BY <1>1, <1>7, <1>10, <2>1, FurtherKeeps
  <2>2. CASE met /\ known.reset = env.reset
    <3>1. new = Further(old, env.value)
      BY <1>7, <1>10, <2>2
    <3> QED
      BY <1>1, <1>3, <3>1, FurtherKeeps
  <2>3. CASE met /\ known.reset # env.reset /\ Earlier(env.reset, known.reset)
    BY <1>1, <1>5, <1>8, <2>3, StampOrder
  <2>4. CASE met /\ known.reset # env.reset /\ ~Earlier(env.reset, known.reset)
    BY <1>1, <1>7, <1>10, <2>4, FurtherKeeps
  <2> QED
    BY <2>1, <2>2, <2>3, <2>4
<1>16. ASSUME NEW v \in Position, Known(m, k), Further(old, v) = old
       PROVE  Earlier(known.reset, merged.reset) \/ Further(new, v) = new
  <2>1. CASE known.reset = env.reset
    <3>1. new = Further(old, env.value)
      BY <1>7, <1>10, <1>16, <2>1
    <3> QED
      BY <1>1, <1>3, <1>16, <3>1, FurtherKeeps
  <2>2. CASE known.reset # env.reset /\ Earlier(env.reset, known.reset)
    BY <1>7, <1>10, <1>16, <2>2
  <2>3. CASE known.reset # env.reset /\ ~Earlier(env.reset, known.reset)
    <3>1. Earlier(known.reset, env.reset)
      BY <1>1, <1>5, <2>3, StampOrder DEF AtMost
    <3> QED
      BY <1>1, <1>5, <1>8, <3>1, StampOrder
  <2> QED
    BY <2>1, <2>2, <2>3
<1> QED
  BY <1>5, <1>8, <1>9, <1>11, <1>13, <1>14, <1>15, <1>16 DEF old, new, a

LEMMA HeardReaches ==
  ASSUME restores \in Nat, NEW m \in Engine, StampsOK(m, restores), NEW x \in Stamp, x.physical <= restores
  PROVE  LET h == [m EXCEPT !.clock = Recv(@, x, wall)]
         IN  StampsOK(h, restores) /\ Reached(h.clock, x) /\ h.stamps = m.stamps
<1> DEFINE t == Recv(m.clock, x, restores)
           h == [m EXCEPT !.clock = Recv(@, x, wall)]
<1>1. m.clock \in Stamp /\ m.clock.physical <= restores /\ m.stamps \in [Key -> Stamped]
  BY DEF Engine, StampsOK
<1>2. /\ t \in Stamp /\ t.physical <= restores /\ Reached(t, x)
      /\ \A y \in Stamp : Reached(m.clock, y) => Reached(t, y)
  BY <1>1, ReceivedIs
<1>3. h.clock = t /\ h.stamps = m.stamps /\ h.dirty = m.dirty /\ h.pending = m.pending
  BY DEF Engine, wall
<1> HIDE DEF h
<1> HIDE DEF t
<1>4. \A k \in Key : m.stamps[k].hlc \in Stamp
  BY <1>1 DEF Stamped
<1>5. StampsOK(h, restores)
  BY <1>2, <1>3, <1>4 DEF StampsOK
<1> QED
  BY <1>2, <1>3, <1>5 DEF h

LEMMA RecordIs ==
  ASSUME NEW r \in Record
  PROVE  /\ r.key \in Key /\ r.env \in Version(r.key) /\ r.env.hlc \in Stamp /\ r.env.kind = kind[r.key]
         /\ kind[r.key] = "progress" => r.env.reset \in Stamp /\ r.env.value \in Position
         /\ kind[r.key] # "progress" => r.env.value \in Value \cup {Absent}
  BY DEF Record, Version, Progress

LEMMA ApplyMerges ==
  ASSUME restores \in Nat, kind \in [Key -> Kind],
         NEW m \in Engine, StampsOK(m, restores), NEW s \in Library, NEW k \in Key,
         NEW env \in Version(k), EnvelopeOK(env, restores), NEW l
  PROVE  LET a == Apply(m, s, k, env)
         IN  /\ StampsOK(a.mem, restores)
             /\ \A r \in Record : Merged(m, s, r, l) => Merged(a.mem, a.store, r, l)
             /\ \A r \in Record : r.key = k /\ r.env = env => Merged(a.mem, a.store, r, l)
             /\ kind[k] = "progress" => a.mem.stamps[k].reset \in {m.stamps[k].reset, env.reset}
<1> DEFINE h == [m EXCEPT !.clock = Recv(@, env.hlc, wall)]
           a == Apply(m, s, k, env)
<1>1. env.hlc \in Stamp /\ env.hlc.physical <= restores
  BY DEF Version, Progress, EnvelopeOK
<1>2. h \in Engine /\ StampsOK(h, restores) /\ Reached(h.clock, env.hlc) /\ h.stamps = m.stamps
  BY <1>1, HeardIs, HeardReaches
<1>3. a = IF kind[k] = "register" THEN ApplyRegister(h, s, k, env)
          ELSE IF kind[k] = "event" THEN ApplyEvent(h, s, k, env) ELSE ApplyProgress(h, s, k, env)
  BY DEF Apply
<1> HIDE DEF h
<1>4. Applied(m, s, k, a)
  BY ApplyIs
<1> HIDE DEF a
<1>5. /\ a.mem \in Engine /\ a.store \in Library /\ m.stamps \in [Key -> Stamped] /\ a.mem.stamps \in [Key -> Stamped]
      /\ \A j \in Key \ {k} : a.mem.stamps[j] = m.stamps[j] /\ a.store[j] = s[j]
  BY <1>4 DEF Applied, Engine
<1>6. Known(m, k) <=> Known(h, k)
  BY <1>2 DEF Known
<1>7. kind[k] \in {"register", "event", "progress"}
  BY DEF Kind
<1>8. ASSUME NEW r \in Record, Merged(m, s, r, l), r.key # k PROVE Merged(a.mem, a.store, r, l)
  BY <1>5, <1>8, RecordIs DEF Merged
<1>9. CASE kind[k] = "register"
  <2>1. /\ StampsOK(a.mem, restores)
        /\ a.mem.stamps[k] \in Stamped /\ a.mem.stamps[k] # Unstamped
        /\ AtMost(env.hlc, a.mem.stamps[k].hlc)
        /\ Known(m, k) => AtMost(m.stamps[k].hlc, a.mem.stamps[k].hlc)
    BY <1>2, <1>3, <1>6, <1>9, RegisterMerges
  <2>2. ASSUME NEW r \in Record, r.key = k, Merged(m, s, r, l) \/ r.env = env PROVE Merged(a.mem, a.store, r, l)
    <3>1. r.env.kind = "register"
      BY <1>9, <2>2, RecordIs
    <3>2. Covered(a.mem.stamps[k], r)
      <4>1. CASE r.env = env
        BY <2>1, <3>1, <4>1 DEF Covered
      <4>2. CASE Merged(m, s, r, l)
        <5>1. Covered(m.stamps[k], r) /\ Known(m, k)
          BY <2>2, <4>2 DEF Merged, Covered, Known
        <5> QED
          BY <1>5, <2>1, <3>1, <5>1, CoverGrows
      <4> QED
        BY <2>2, <4>1, <4>2
    <3> QED
      BY <2>2, <3>1, <3>2 DEF Merged, Shows
  <2> QED
    BY <1>8, <1>9, <2>1, <2>2 DEF a
<1>10. CASE kind[k] = "event"
  <2>1. /\ StampsOK(a.mem, restores)
        /\ a.mem.stamps[k] \in Stamped /\ a.mem.stamps[k] # Unstamped
        /\ IsLive(env) \/ a.store[k] = Absent
        /\ Known(m, k) /\ s[k] = Absent => a.store[k] = Absent
    BY <1>2, <1>3, <1>6, <1>10, EventMerges
  <2>2. ASSUME NEW r \in Record, r.key = k, Merged(m, s, r, l) \/ r.env = env PROVE Merged(a.mem, a.store, r, l)
    <3>1. r.env.kind = "event"
      BY <1>10, <2>2, RecordIs
    <3>2. Covered(a.mem.stamps[k], r)
      BY <2>1, <3>1 DEF Covered
    <3>3. IsLive(r.env) \/ a.store[k] = Absent
      <4>1. CASE r.env = env
        BY <2>1, <4>1
      <4>2. CASE Merged(m, s, r, l)
        BY <2>1, <2>2, <3>1, <4>2 DEF Merged, Covered, Shows, Known
      <4> QED
        BY <2>2, <4>1, <4>2
    <3> QED
      BY <2>2, <3>1, <3>2, <3>3 DEF Merged, Shows
  <2> QED
    BY <1>8, <1>10, <2>1, <2>2 DEF a
<1>11. CASE kind[k] = "progress"
  <2> DEFINE old == PositionOf(s[k])
             new == PositionOf(a.store[k])
             before == m.stamps[k].reset
             reset == a.mem.stamps[k].reset
  <2>1. /\ StampsOK(a.mem, restores)
        /\ a.mem.stamps[k] \in Stamped /\ a.mem.stamps[k] # Unstamped
        /\ AtMost(before, reset) /\ AtMost(env.reset, reset) /\ reset \in {before, env.reset}
        /\ Earlier(env.reset, reset) \/ Further(new, env.value) = new
        /\ \A v \in Position : Known(m, k) /\ Further(old, v) = old => Earlier(before, reset) \/ Further(new, v) = new
    BY <1>2, <1>3, <1>6, <1>11, ProgressMerged
  <2>2. before \in Stamp /\ reset \in Stamp
    BY <1>5, <2>1 DEF Stamped
  <2>3. ASSUME NEW r \in Record, r.key = k, Merged(m, s, r, l) \/ r.env = env PROVE Merged(a.mem, a.store, r, l)
    <3>1. r.env.kind = "progress" /\ r.env.reset \in Stamp /\ r.env.value \in Position
      BY <1>11, <2>3, RecordIs
    <3>2. CASE r.env = env
      BY <2>1, <2>3, <3>1, <3>2 DEF Merged, Covered, Shows
    <3>3. CASE Merged(m, s, r, l)
      <4>1. Covered(m.stamps[k], r) /\ Known(m, k) /\ AtMost(r.env.reset, before)
        BY <2>3, <3>1, <3>3 DEF Merged, Covered, Known
      <4>2. Earlier(r.env.reset, before) \/ Rewinds(k, r.env.reset, l) \/ Further(old, r.env.value) = old
        BY <2>3, <3>1, <3>3 DEF Merged, Shows
      <4>3. Covered(a.mem.stamps[k], r)
        BY <1>5, <2>1, <3>1, <4>1, CoverGrows
      <4>4. Earlier(r.env.reset, reset) \/ Rewinds(k, r.env.reset, l) \/ Further(new, r.env.value) = new
        BY <2>1, <2>2, <3>1, <4>1, <4>2, StampOrder
      <4> QED
        BY <2>3, <3>1, <4>3, <4>4 DEF Merged, Shows
    <3> QED
      BY <2>3, <3>2, <3>3
  <2> QED
    BY <1>8, <1>11, <2>1, <2>3 DEF a
<1> QED
  BY <1>7, <1>9, <1>10, <1>11 DEF a

-----------------------------------------------------------------------------
(* What a growing log leaves standing                                       *)

Grown(l, n) ==
  /\ l \in [Id -> Seq(Seq(Record))] /\ n \in [Id -> Seq(Seq(Record))]
  /\ \A i \in Id : Len(l[i]) <= Len(n[i]) /\ \A j \in 1..Len(l[i]) : n[i][j] = l[i][j]

LEMMA GrownKeeps ==
  ASSUME NEW l, NEW n, Grown(l, n), NEW now \in Nat, NEW later \in Nat, now <= later
  PROVE  /\ \A m \in Engine : StateOK(m, l, now) => StateOK(m, n, later)
         /\ \A m \in Engine : \A r : VectorOK(m, l) /\ Counts(m, r, n) => Counts(m, r, l)
         /\ \A k, reset : Rewinds(k, reset, l) => Rewinds(k, reset, n)
         /\ \A k, reset : ResetFiled(k, reset, l) => ResetFiled(k, reset, n)
         /\ \A m, s, r : Merged(m, s, r, l) => Merged(m, s, r, n)
<1>1. \A i \in Id : /\ Len(l[i]) \in Nat /\ Len(n[i]) \in Nat /\ Len(l[i]) <= Len(n[i])
                    /\ \A j \in 1..Len(l[i]) : n[i][j] = l[i][j] /\ j \in 1..Len(n[i])
  BY DEF Grown
<1>2. \A env \in Envelope : EnvelopeOK(env, now) => EnvelopeOK(env, later)
  <2>1. \A env \in Envelope : env.hlc \in Stamp
    BY DEF Envelope, Register, Event, Progress
  <2>2. \A env \in Envelope : env.hlc.physical \in Nat
    BY <2>1 DEF Stamp
  <2> QED
    BY <2>2 DEF EnvelopeOK
<1>3. ASSUME NEW m \in Engine, StateOK(m, l, now) PROVE StateOK(m, n, later)
  <2>1. /\ m.clock.physical \in Nat /\ m.vector \in [Id -> Nat] /\ m.pending \in Seq(Record)
        /\ \A k \in Key : m.stamps[k].hlc.physical \in Nat
    BY DEF Engine, Stamp, Stamped
  <2>2. \A j \in 1..Len(m.pending) : m.pending[j].env \in Envelope
    BY <2>1 DEF Record
  <2>3. StampsOK(m, later)
    BY <1>2, <1>3, <2>1, <2>2 DEF StateOK, StampsOK
  <2>4. VectorOK(m, n)
    BY <1>1, <1>3, <2>1 DEF StateOK, VectorOK
  <2> QED
    BY <2>3, <2>4 DEF StateOK
<1>4. ASSUME NEW m \in Engine, NEW r, VectorOK(m, l), Counts(m, r, n) PROVE Counts(m, r, l)
  <2>1. \A i \in Id : m.vector[i] \in Nat /\ m.vector[i] <= Len(l[i])
    BY <1>4 DEF VectorOK, Engine
  <2>2. \A i \in Id : \A j \in 1..m.vector[i] : n[i][j] = l[i][j]
    BY <1>1, <2>1
  <2> QED
    BY <1>4, <2>2 DEF Counts
<1>5. ASSUME NEW k, NEW reset, Rewinds(k, reset, l) PROVE Rewinds(k, reset, n)
  BY <1>1, <1>5 DEF Rewinds
<1>6. ASSUME NEW k, NEW reset, ResetFiled(k, reset, l) PROVE ResetFiled(k, reset, n)
  <2>1. PICK i \in Id : \E x \in 1..Len(l[i]) : \E j \in 1..Len(l[i][x]) : l[i][x][j].key = k /\ l[i][x][j].env.reset = reset
    BY <1>6 DEF ResetFiled
  <2>2. PICK x \in 1..Len(l[i]) : \E j \in 1..Len(l[i][x]) : l[i][x][j].key = k /\ l[i][x][j].env.reset = reset
    BY <2>1
  <2>3. n[i][x] = l[i][x] /\ x \in 1..Len(n[i])
    BY <1>1
  <2> QED
    BY <2>2, <2>3 DEF ResetFiled
<1>7. ASSUME NEW m, NEW s, NEW r, Merged(m, s, r, l) PROVE Merged(m, s, r, n)
  BY <1>5, <1>7 DEF Merged, Shows
<1> QED
  BY <1>3, <1>4, <1>5, <1>6, <1>7

-----------------------------------------------------------------------------
(* What one install's step leaves of the invariant                          *)

\* An install whose state is well formed and merged, whatever became of the log meanwhile.
LEMMA InstallIs ==
  ASSUME NEW d \in Install,
         StateOK(mem'[d], log', restores'), StateOK(saved'[d], log', restores'),
         \A b \in backup'[d] : StateOK(b.state, log', restores'),
         saved'[d].device = 0 => saved'[d] = Fresh(0),
         Record' = Record,
         \A r \in Record : Counts(mem'[d], r, log') => Merged(mem'[d], store'[d], r, log'),
         \A r \in Record : Counts(saved'[d], r, log') =>
           Merged(mem'[d], store'[d], r, log') /\ Covered(saved'[d].stamps[r.key], r),
         \A r \in Record : \A b \in backup'[d] : Counts(b.state, r, log') => Merged(b.state, b.store, r, log'),
         ResetsKnown(d)', PageOK(d)'
  PROVE  InstallOK(d)'
<1>1. StatesOK(d)'
  BY DEF StatesOK
<1>2. CountedMerged(d)'
  BY DEF CountedMerged
<1> QED
  BY <1>1, <1>2 DEF InstallOK

LEMMA TypesOfAll ==
  ASSUME SkipInv
  PROVE  /\ restores \in Nat /\ kind \in [Key -> Kind] /\ log \in [Id -> Seq(Seq(Record))]
         /\ \A d \in Install : mem[d] \in Engine /\ saved[d] \in Engine /\ store[d] \in Library
         /\ \A d \in Install : mem[d].stamps \in [Key -> Stamped] /\ saved[d].stamps \in [Key -> Stamped]
         /\ \A d \in Install : \A b \in backup[d] : b.state \in Engine /\ b.store \in Library
         /\ LogOK(log, restores)
         /\ \A d \in Install : InstallOK(d) /\ mem[d].device # 0
  BY DEF SkipInv, EngineInv, Types, Engine, Numbers

\* The log is never shortened nor rewritten, and the wall clock never goes back.
Onward == Grown(log, log') /\ restores' \in Nat /\ restores <= restores' /\ kind' = kind /\ Record' = Record

LEMMA InstallStands ==
  ASSUME SkipInv, Onward, NEW d \in Install,
         mem'[d] = mem[d], saved'[d] = saved[d], backup'[d] = backup[d], store'[d] = store[d],
         unsaved'[d] = unsaved[d], pc'[d] = pc[d], inbox'[d] = inbox[d]
  PROVE  InstallOK(d)'
<1>1. InstallOK(d) /\ mem[d] \in Engine /\ saved[d] \in Engine /\ \A b \in backup[d] : b.state \in Engine
  BY TypesOfAll
<1>2. /\ \A m \in Engine : StateOK(m, log, restores) => StateOK(m, log', restores')
      /\ \A m \in Engine : \A r : VectorOK(m, log) /\ Counts(m, r, log') => Counts(m, r, log)
      /\ \A k, reset : ResetFiled(k, reset, log) => ResetFiled(k, reset, log')
      /\ \A m, s, r : Merged(m, s, r, log) => Merged(m, s, r, log')
  BY TypesOfAll, GrownKeeps DEF Onward
<1>3. \A m \in Engine : StateOK(m, log, restores) => VectorOK(m, log)
  BY DEF StateOK
<1>4. StatesOK(d) /\ CountedMerged(d) /\ ResetsKnown(d) /\ PageOK(d)
  BY <1>1 DEF InstallOK
<1>5. /\ StateOK(mem'[d], log', restores') /\ StateOK(saved'[d], log', restores')
      /\ \A b \in backup'[d] : StateOK(b.state, log', restores')
      /\ saved'[d].device = 0 => saved'[d] = Fresh(0)
  BY <1>1, <1>2, <1>4 DEF StatesOK
<1>6. ASSUME NEW r \in Record
      PROVE  /\ Counts(mem'[d], r, log') => Merged(mem'[d], store'[d], r, log')
             /\ Counts(saved'[d], r, log') => Merged(mem'[d], store'[d], r, log') /\ Covered(saved'[d].stamps[r.key], r)
             /\ \A b \in backup'[d] : Counts(b.state, r, log') => Merged(b.state, b.store, r, log')
  BY <1>1, <1>2, <1>3, <1>4 DEF StatesOK, CountedMerged
<1>7. ResetsKnown(d)'
  BY <1>2, <1>4 DEF ResetsKnown, Onward
<1>8. PageOK(d)'
  <2> SUFFICES ASSUME pc'[d] = "apply", NEW ref \in inbox'[d], NEW n \in 1..ref.seq, NEW j \in 1..Len(log'[ref.device][n]),
                      n < ref.seq \/ j < ref.nth
               PROVE  \/ \E other \in inbox'[d] : other.device = ref.device /\ other.seq = n /\ other.nth = j
                      \/ Merged(mem'[d], store'[d], log'[ref.device][n][j], log')
    BY DEF PageOK
  <2>1. ref.device \in Id /\ ref.seq \in Nat /\ ref.seq \in 1..Len(log[ref.device])
    BY DEF SkipInv, EngineInv, InboxFiled, Types
  <2>2. Len(log[ref.device]) \in Nat
    BY <2>1 DEF SkipInv, EngineInv, Types
  <2>3. log'[ref.device][n] = log[ref.device][n]
    <3>1. n \in 1..Len(log[ref.device])
      BY <2>1, <2>2
    <3> QED
      BY <2>1, <3>1 DEF Onward, Grown
  <2> QED
    BY <1>2, <1>4, <2>3 DEF PageOK
<1> QED
  BY <1>5, <1>6, <1>7, <1>8, InstallIs DEF Onward

\* A step of a round that leaves the stamps and the library, and counts no more than is merged.
LEMMA RoundStands ==
  ASSUME SkipInv, EngineInv', Onward, NEW d \in Install,
         mem'[d] \in Engine, mem'[d].stamps = mem[d].stamps, store'[d] = store[d], backup'[d] = backup[d],
         \/ saved'[d] = mem'[d]
         \/ saved'[d] = saved[d] /\ unsaved'[d] = unsaved[d],
         StateOK(mem'[d], log', restores'),
         \A r \in Record : Counts(mem'[d], r, log') => Counts(mem[d], r, log) \/ Merged(mem[d], store[d], r, log),
         PageOK(d)'
  PROVE  InstallOK(d)'
<1>1. InstallOK(d) /\ mem[d] \in Engine /\ saved[d] \in Engine /\ \A b \in backup[d] : b.state \in Engine
  BY TypesOfAll
<1>2. /\ \A m \in Engine : StateOK(m, log, restores) => StateOK(m, log', restores')
      /\ \A m \in Engine : \A r : VectorOK(m, log) /\ Counts(m, r, log') => Counts(m, r, log)
      /\ \A k, reset : ResetFiled(k, reset, log) => ResetFiled(k, reset, log')
      /\ \A m, s, r : Merged(m, s, r, log) => Merged(m, s, r, log')
  BY TypesOfAll, GrownKeeps DEF Onward
<1>3. \A m \in Engine : StateOK(m, log, restores) => VectorOK(m, log)
  BY DEF StateOK
<1>4. StatesOK(d) /\ CountedMerged(d) /\ ResetsKnown(d)
  BY <1>1 DEF InstallOK
<1>5. mem'[d].device # 0
  BY DEF EngineInv, Numbers
<1>6. /\ StateOK(saved'[d], log', restores')
      /\ \A b \in backup'[d] : StateOK(b.state, log', restores')
      /\ saved'[d].device = 0 => saved'[d] = Fresh(0)
  BY <1>1, <1>2, <1>4, <1>5 DEF StatesOK
<1>7. \A r : Merged(mem[d], store[d], r, log) => Merged(mem'[d], store'[d], r, log')
  BY <1>2 DEF Merged
<1>8. \A r : Merged(mem'[d], store'[d], r, log') => Covered(mem'[d].stamps[r.key], r)
  BY DEF Merged
<1>9. ASSUME NEW r \in Record
      PROVE  /\ Counts(mem'[d], r, log') => Merged(mem'[d], store'[d], r, log')
             /\ Counts(saved'[d], r, log') => Merged(mem'[d], store'[d], r, log') /\ Covered(saved'[d].stamps[r.key], r)
             /\ \A b \in backup'[d] : Counts(b.state, r, log') => Merged(b.state, b.store, r, log')
  <2>1. Counts(mem[d], r, log) => Merged(mem[d], store[d], r, log)
    BY <1>4 DEF CountedMerged
  <2>2. Counts(mem'[d], r, log') => Merged(mem'[d], store'[d], r, log')
    BY <1>7, <2>1
  <2>3. Counts(saved'[d], r, log') => Merged(mem'[d], store'[d], r, log') /\ Covered(saved'[d].stamps[r.key], r)
    BY <1>1, <1>2, <1>3, <1>4, <1>7, <1>8, <2>2 DEF StatesOK, CountedMerged
  <2>4. \A b \in backup'[d] : Counts(b.state, r, log') => Merged(b.state, b.store, r, log')
    BY <1>1, <1>2, <1>3, <1>4 DEF StatesOK, CountedMerged
  <2> QED
    BY <2>2, <2>3, <2>4
<1>10. ResetsKnown(d)'
  BY <1>2, <1>4 DEF ResetsKnown, Onward
<1> QED
  BY <1>6, <1>9, <1>10, InstallIs DEF Onward

LEMMA SameLog ==
  ASSUME SkipInv, UNCHANGED <<kind, log, restores>>
  PROVE  Onward
<1>1. log \in [Id -> Seq(Seq(Record))] /\ restores \in Nat
  BY TypesOfAll
<1>2. \A i \in Id : Len(log[i]) <= Len(log[i])
  BY <1>1
<1>3. Record' = Record
  BY DEF Record, Version
<1> QED
  BY <1>1, <1>2, <1>3 DEF Onward, Grown

\* What follows for the whole from one install's step.
LEMMA OneMoves ==
  ASSUME SkipInv, EngineInv', Onward, LogOK(log', restores'), NEW d \in Install, InstallOK(d)',
         \A e \in Install \ {d} :
           /\ mem'[e] = mem[e] /\ saved'[e] = saved[e] /\ backup'[e] = backup[e] /\ store'[e] = store[e]
           /\ unsaved'[e] = unsaved[e] /\ pc'[e] = pc[e] /\ inbox'[e] = inbox[e]
  PROVE  SkipInv'
<1>1. \A e \in Install \ {d} : InstallOK(e)'
  BY InstallStands
<1>2. \A e \in Install : InstallOK(e)'
  BY <1>1
<1> QED
  BY <1>2 DEF SkipInv

-----------------------------------------------------------------------------
(* The steps of a round                                                     *)

LEMMA PersistPageSkips ==
  ASSUME SkipInv, EngineInv', NEW d \in Install, PersistPage(d)
  PROVE  SkipInv'
<1>1. /\ mem' = [mem EXCEPT ![d] = mem[d]] /\ saved' = [saved EXCEPT ![d] = mem[d]] /\ unsaved' = [unsaved EXCEPT ![d] = {}]
      /\ pc' = [pc EXCEPT ![d] = IF more[d] THEN "pull" ELSE "send"]
      /\ UNCHANGED <<kind, store, backup, inbox, log, restores>>
  BY DEF PersistPage, Persist, counters
<1>2. Types
  BY DEF SkipInv, EngineInv
<1>3. Onward
  BY <1>1, SameLog
<1>4. /\ mem'[d] = mem[d] /\ saved'[d] = mem'[d] /\ pc'[d] # "apply"
      /\ \A e \in Install \ {d} : mem'[e] = mem[e] /\ saved'[e] = saved[e] /\ unsaved'[e] = unsaved[e] /\ pc'[e] = pc[e]
  BY <1>1, <1>2 DEF Types
<1>5. PageOK(d)'
  BY <1>4 DEF PageOK
<1>6. mem[d] \in Engine /\ StateOK(mem[d], log, restores)
  BY TypesOfAll DEF InstallOK, StatesOK
<1>7. InstallOK(d)'
  BY <1>1, <1>3, <1>4, <1>5, <1>6, RoundStands
<1>8. LogOK(log', restores')
  BY <1>1, TypesOfAll
<1> QED
  BY <1>1, <1>3, <1>4, <1>7, <1>8, OneMoves

LEMMA FinishSkips ==
  ASSUME SkipInv, EngineInv', NEW d \in Install, Finish(d)
  PROVE  SkipInv'
<1> DEFINE n == [mem[d] EXCEPT !.held = {}]
<1>1. /\ pc' = [pc EXCEPT ![d] = "idle"] /\ inbox' = [inbox EXCEPT ![d] = {}]
      /\ \/ UNCHANGED <<mem, saved, unsaved>>
         \/ mem' = [mem EXCEPT ![d] = n] /\ saved' = [saved EXCEPT ![d] = n] /\ unsaved' = [unsaved EXCEPT ![d] = {}]
      /\ UNCHANGED <<kind, store, backup, log, restores>>
  BY DEF Finish, Persist, Ended, counters
<1>2. Types
  BY DEF SkipInv, EngineInv
<1>3. Onward
  BY <1>1, SameLog
<1>4. mem[d] \in Engine /\ StateOK(mem[d], log, restores)
  BY TypesOfAll DEF InstallOK, StatesOK
<1>5. /\ n.stamps = mem[d].stamps /\ n.pending = mem[d].pending /\ n.vector = mem[d].vector /\ n.device = mem[d].device
      /\ n.nextSeq = mem[d].nextSeq /\ n.clock = mem[d].clock /\ n.dirty = mem[d].dirty /\ n \in Engine
  BY <1>4 DEF Engine
<1> HIDE DEF n
<1>6. StateOK(n, log, restores) /\ \A r : Counts(n, r, log) <=> Counts(mem[d], r, log)
  BY <1>4, <1>5 DEF StateOK, StampsOK, VectorOK, Counts
<1>7. /\ mem'[d] \in {mem[d], n} /\ pc'[d] # "apply"
      /\ (saved'[d] = mem'[d] \/ (saved'[d] = saved[d] /\ unsaved'[d] = unsaved[d]))
      /\ \A e \in Install \ {d} : mem'[e] = mem[e] /\ saved'[e] = saved[e] /\ unsaved'[e] = unsaved[e]
                                  /\ pc'[e] = pc[e] /\ inbox'[e] = inbox[e]
  BY <1>1, <1>2 DEF Types
<1>8. PageOK(d)'
  BY <1>7 DEF PageOK
<1>9. /\ mem'[d] \in Engine /\ mem'[d].stamps = mem[d].stamps
      /\ StateOK(mem'[d], log', restores') /\ \A r : Counts(mem'[d], r, log') => Counts(mem[d], r, log)
  BY <1>1, <1>4, <1>5, <1>6, <1>7
<1>10. InstallOK(d)'
  BY <1>1, <1>3, <1>7, <1>8, <1>9, RoundStands
<1>11. LogOK(log', restores')
  BY <1>1, TypesOfAll
<1> QED
  BY <1>1, <1>3, <1>7, <1>10, <1>11, OneMoves

\* A segment built tells of what the library holds, which is merged already.
LEMMA BuiltMerged ==
  ASSUME SkipInv, NEW d \in Install, Building(d), NEW keys \in NextKeys(mem[d].dirty)
  PROVE  LET n == Built(d, keys)
         IN  /\ n \in Engine /\ n.stamps = mem[d].stamps
             /\ StateOK(n, log, restores)
             /\ \A r \in Record : Counts(n, r, log) => Counts(mem[d], r, log) \/ Merged(mem[d], store[d], r, log)
<1> DEFINE n == Built(d, keys)
           m == mem[d]
           s == store[d]
           envelope(k) == ToEnvelope(k, s[k], m.stamps[k])
<1>1. Types /\ m \in Engine /\ s \in Library /\ StateOK(m, log, restores) /\ m.device # 0
  BY TypesOfAll DEF InstallOK, StatesOK, SkipInv, EngineInv
<1>2. /\ n \in Engine
      /\ n.device = m.device /\ n.nextSeq = m.nextSeq + 1 /\ n.vector = m.vector
      /\ n.stamps = m.stamps /\ n.held = m.held
      /\ n.pending # <<>>
      /\ n.dirty \cup PendingKeys(n) = m.dirty
  BY <1>1, BuiltIs
<1>3. n.clock = m.clock /\ n.pending = [i \in DOMAIN keys |-> [key |-> keys[i], env |-> envelope(keys[i])]]
  BY <1>1 DEF Built, Engine
<1>4. m.dirty \in SUBSET Key /\ m.dirty # {} /\ m.pending = <<>> /\ m.nextSeq \in Nat /\ m.vector \in [Id -> Nat] /\ m.device \in Id
      /\ m.stamps \in [Key -> Stamped]
  BY <1>1 DEF Building, Engine
<1>5. PICK size \in Nat \ {0} : keys \in [1..size -> m.dirty]
  BY <1>4, NextKeysAre
<1> HIDE DEF n
<1>6. \A j \in 1..Len(n.pending) : \E k \in m.dirty : n.pending[j] = [key |-> k, env |-> envelope(k)]
  <2>1. Len(n.pending) = size
    BY <1>3, <1>5
  <2> QED
    BY <1>3, <1>5, <2>1
<1>7. ASSUME NEW k \in m.dirty
      PROVE  /\ EnvelopeOK(envelope(k), restores)
             /\ \A r : r = [key |-> k, env |-> envelope(k)] => Merged(m, s, r, log)
  <2>1. /\ k \in Key /\ m.stamps[k].hlc \in Stamp /\ m.stamps[k].reset \in Stamp
        /\ m.stamps[k].hlc.physical <= restores /\ Reached(m.stamps[k].hlc, m.stamps[k].reset) /\ Issued(m.stamps[k].hlc)
    BY <1>1, <1>4 DEF StateOK, StampsOK, Stamped
  <2>2. m.stamps[k] # Unstamped
    BY <2>1, IssuedIsStamped
  <2>3. kind[k] \in {"register", "event", "progress"} /\ s[k] \in Copy(k)
    BY <1>1, <2>1 DEF Types, Kind, Library
  <2>4. CASE kind[k] = "progress"
    <3> DEFINE value == PositionOf(s[k])
               env == envelope(k)
    <3>1. env.kind = "progress" /\ env.hlc = m.stamps[k].hlc /\ env.reset = m.stamps[k].reset /\ env.value = value
      BY <2>4 DEF ToEnvelope, PositionOf
    <3>2. value \in Position
      BY <2>3, <2>4, UnreadIs DEF Copy, PositionOf
    <3> HIDE DEF env
    <3> HIDE DEF value
    <3>3. Further(value, value) = value
      BY <3>2, FurtherKeeps
    <3>4. EnvelopeOK(env, restores)
      BY <2>1, <3>1 DEF EnvelopeOK
    <3>5. \A r : r = [key |-> k, env |-> env] => Merged(m, s, r, log)
      BY <2>2, <3>1, <3>3 DEF Merged, Covered, Shows, AtMost, value
    <3> QED
      BY <3>4, <3>5 DEF env
  <2>5. CASE kind[k] # "progress"
    <3> DEFINE env == envelope(k)
    <3>1. env = [kind |-> kind[k], hlc |-> m.stamps[k].hlc, value |-> s[k]]
      BY <2>5 DEF ToEnvelope
    <3> HIDE DEF env
    <3>2. env.kind # "progress" /\ env.kind = kind[k] /\ env.hlc = m.stamps[k].hlc /\ env.value = s[k]
      BY <2>5, <3>1
    <3>3. EnvelopeOK(env, restores)
      BY <2>1, <3>2 DEF EnvelopeOK
    <3>4. \A r : r = [key |-> k, env |-> env] => Merged(m, s, r, log)
      BY <2>2, <3>2 DEF Merged, Covered, Shows, AtMost, IsLive
    <3> QED
      BY <3>3, <3>4 DEF env
  <2> QED
    BY <2>4, <2>5
<1> HIDE DEF envelope
<1>8. \A j \in 1..Len(n.pending) : EnvelopeOK(n.pending[j].env, restores) /\ Merged(m, s, n.pending[j], log)
  <2> SUFFICES ASSUME NEW j \in 1..Len(n.pending) PROVE EnvelopeOK(n.pending[j].env, restores) /\ Merged(m, s, n.pending[j], log)
    OBVIOUS
  <2>1. PICK k \in m.dirty : n.pending[j] = [key |-> k, env |-> envelope(k)]
    BY <1>6
  <2>2. n.pending[j].env = envelope(k)
    BY <2>1
  <2> QED
    BY <1>7, <2>1, <2>2
<1>9. StampsOK(n, restores)
  BY <1>1, <1>2, <1>3, <1>8 DEF StateOK, StampsOK
<1>10. VectorOK(n, log)
  <2>1. m.nextSeq - 1 <= m.vector[m.device] + 0
    BY <1>1, <1>4 DEF StateOK, VectorOK
  <2>2. m.vector[m.device] \in Nat
    BY <1>4
  <2>3. n.nextSeq - 1 <= n.vector[n.device] + 1
    BY <1>2, <1>4, <2>1, <2>2
  <2> QED
    BY <1>1, <1>2, <2>3 DEF StateOK, VectorOK
<1>11. ASSUME NEW r \in Record, Counts(n, r, log) PROVE Counts(m, r, log) \/ Merged(m, s, r, log)
  BY <1>2, <1>8, <1>11 DEF Counts
<1> QED
  BY <1>2, <1>9, <1>10, <1>11 DEF StateOK, n

LEMMA BuildSkips ==
  ASSUME SkipInv, EngineInv', NEW d \in Install, Build(d)
  PROVE  SkipInv'
<1>1. PICK keys \in NextKeys(mem[d].dirty) : Persist(d, Built(d, keys))
  BY DEF Build
<1>2. /\ Building(d) /\ mem' = [mem EXCEPT ![d] = Built(d, keys)] /\ saved' = [saved EXCEPT ![d] = Built(d, keys)]
      /\ unsaved' = [unsaved EXCEPT ![d] = {}]
      /\ UNCHANGED <<kind, store, backup, pc, inbox, log, restores>>
  BY <1>1 DEF Build, Persist, host, counters
<1>3. Types /\ Onward
  BY <1>2, SameLog DEF SkipInv, EngineInv
<1>4. /\ mem'[d] = Built(d, keys) /\ saved'[d] = mem'[d] /\ pc'[d] # "apply"
      /\ \A e \in Install \ {d} : mem'[e] = mem[e] /\ saved'[e] = saved[e] /\ unsaved'[e] = unsaved[e]
  BY <1>2, <1>3 DEF Types, Building
<1>5. /\ mem'[d] \in Engine /\ mem'[d].stamps = mem[d].stamps
      /\ StateOK(mem'[d], log', restores')
      /\ \A r \in Record : Counts(mem'[d], r, log') => Counts(mem[d], r, log) \/ Merged(mem[d], store[d], r, log)
  BY <1>2, <1>4, BuiltMerged
<1>6. PageOK(d)'
  BY <1>4 DEF PageOK
<1>7. InstallOK(d)'
  BY <1>2, <1>3, <1>4, <1>5, <1>6, RoundStands
<1>8. LogOK(log', restores')
  BY <1>2, TypesOfAll
<1> QED
  BY <1>2, <1>3, <1>4, <1>7, <1>8, OneMoves

LEMMA LandsFiles ==
  ASSUME SkipInv, NEW d \in Install, Lands(d), UNCHANGED <<kind, restores>>
  PROVE  /\ Onward /\ LogOK(log', restores')
         /\ \A i \in Id \ {mem[d].device} : log'[i] = log[i]
         /\ mem[d].device \in Id /\ mem[d].nextSeq - 1 \in 1..Len(log'[mem[d].device])
         /\ log'[mem[d].device][mem[d].nextSeq - 1] = mem[d].pending
<1> DEFINE i == mem[d].device
           pending == mem[d].pending
           seq == mem[d].nextSeq - 1
<1>1. /\ log \in [Id -> Seq(Seq(Record))] /\ mem[d] \in Engine /\ restores \in Nat /\ LogOK(log, restores)
      /\ i # 0 /\ StateOK(mem[d], log, restores) /\ EngineInv
  BY TypesOfAll DEF InstallOK, StatesOK, SkipInv
<1>2. i \in Id /\ mem[d].nextSeq \in Nat /\ pending \in Seq(Record) /\ pending # <<>> /\ mem[d].nextSeq > 1
  BY <1>1 DEF EngineInv, Numbers, Numbered, Engine, Lands, Sending
<1>3. /\ log' \in [Id -> Seq(Seq(Record))]
      /\ \A j \in Id : Len(log[j]) <= Len(log'[j]) /\ \A n \in 1..Len(log[j]) : log'[j][n] = log[j][n]
      /\ \A j \in Id \ {i} : log'[j] = log[j]
      /\ seq <= Len(log'[i])
  BY <1>1, LandsIs
<1>4. Record' = Record
  BY DEF Record, Version
<1>5. Onward
  BY <1>1, <1>3, <1>4 DEF Onward, Grown
<1>6. \A j \in Id : Len(log[j]) \in Nat /\ Len(log'[j]) \in Nat
  BY <1>1, <1>3
<1>7. seq \in Nat /\ seq \in 1..Len(log'[i])
  BY <1>2, <1>3, <1>6
<1>8. log'[i][seq] = pending /\ (Len(log'[i]) = Len(log[i]) \/ (Len(log'[i]) = seq /\ seq = Len(log[i]) + 1))
  <2>1. CASE Resent(d)
    <3>1. log' = log /\ log[i][seq] = pending
      BY <2>1 DEF Lands, Resent, Seq0, Head0
    <3> QED
      BY <3>1
  <2>2. CASE ~Resent(d)
    <3>1. seq = Len(log[i]) + 1 /\ log' = [log EXCEPT ![i] = Append(@, pending)]
      BY <2>2 DEF Lands, Seq0, Head0
    <3>2. log'[i] = Append(log[i], pending) /\ log[i] \in Seq(Seq(Record))
      BY <1>1, <1>2, <3>1
    <3>3. Len(log'[i]) = Len(log[i]) + 1 /\ log'[i][Len(log[i]) + 1] = pending
      BY <1>2, <3>2
    <3> QED
      BY <3>1, <3>3
  <2> QED
    BY <2>1, <2>2
<1>9. LogOK(log', restores')
  <2> SUFFICES ASSUME NEW h \in Id, NEW n \in 1..Len(log'[h]), NEW j \in 1..Len(log'[h][n])
               PROVE  EnvelopeOK(log'[h][n][j].env, restores)
    BY DEF LogOK
  <2>1. CASE n \in 1..Len(log[h])
    <3>1. log'[h][n] = log[h][n]
      BY <1>3, <2>1
    <3> QED
      BY <1>1, <2>1, <3>1 DEF LogOK
  <2>2. CASE n \notin 1..Len(log[h])
    <3>1. h = i
      BY <1>3, <2>2
    <3>2. n = seq
      BY <1>6, <1>7, <1>8, <2>2, <3>1
    <3> QED
      BY <1>1, <1>8, <3>1, <3>2 DEF StateOK, StampsOK
  <2> QED
    BY <2>1, <2>2
<1> QED
  BY <1>2, <1>3, <1>5, <1>7, <1>8, <1>9

LEMMA PushSkips ==
  ASSUME SkipInv, EngineInv', NEW d \in Install, Push(d)
  PROVE  SkipInv'
<1> DEFINE m == mem[d]
           seq == m.nextSeq - 1
           vector == [m.vector EXCEPT ![m.device] = Seq0(d)]
           n == [m EXCEPT !.pending = <<>>, !.vector = vector]
<1>1. /\ Types /\ mem \in [Install -> Engine] /\ saved \in [Install -> Engine] /\ m \in Engine
      /\ StateOK(m, log, restores) /\ m.device # 0 /\ log \in [Id -> Seq(Seq(Record))] /\ restores \in Nat
  BY TypesOfAll DEF InstallOK, StatesOK, SkipInv, EngineInv, Types
<1>2. /\ Lands(d) /\ mem' = [mem EXCEPT ![d] = n] /\ saved' = [saved EXCEPT ![d] = n] /\ unsaved' = [unsaved EXCEPT ![d] = {}]
      /\ UNCHANGED <<kind, store, backup, pc, inbox, restores>>
  BY <1>1 DEF Push, Persist, host, counters, Engine
<1>3. /\ Onward /\ LogOK(log', restores')
      /\ \A i \in Id \ {m.device} : log'[i] = log[i]
      /\ m.device \in Id /\ seq \in 1..Len(log'[m.device])
      /\ log'[m.device][seq] = m.pending
  BY <1>2, LandsFiles
<1>4. m.vector \in [Id -> Nat] /\ m.pending # <<>> /\ pc[d] # "apply" /\ m.nextSeq \in Nat
  BY <1>1, <1>2 DEF Lands, Sending, Engine
<1>5. \A i \in Id : vector[i] = IF i = m.device THEN seq ELSE m.vector[i]
  BY <1>4 DEF Seq0
<1> HIDE DEF vector
<1>6. /\ n.stamps = m.stamps /\ n.pending = <<>> /\ n.vector = vector /\ n.device = m.device
      /\ n.nextSeq = m.nextSeq /\ n.clock = m.clock /\ n.dirty = m.dirty
  BY <1>1 DEF Engine
<1> HIDE DEF n
<1>7. /\ mem'[d] = n /\ saved'[d] = mem'[d] /\ pc'[d] # "apply"
      /\ \A e \in Install \ {d} : mem'[e] = mem[e] /\ saved'[e] = saved[e] /\ unsaved'[e] = unsaved[e]
  BY <1>1, <1>2, <1>4 DEF Types
<1>8. mem'[d] \in Engine
  <2>1. Engine' = Engine
    BY <1>3 DEF Onward, Engine
  <2> QED
    BY <2>1 DEF EngineInv, Types
<1>9. \A i \in Id : Len(log[i]) \in Nat /\ Len(log'[i]) \in Nat /\ Len(log[i]) <= Len(log'[i])
  BY <1>1, <1>3 DEF Onward, Grown
<1>10. StateOK(n, log', restores)
  <2>1. StampsOK(n, restores)
    <3>1. Len(n.pending) = 0
      BY <1>6
    <3> QED
      BY <1>1, <1>6, <3>1 DEF StateOK, StampsOK
  <2>2. \A i \in Id : n.vector[i] <= Len(log'[i])
    <3>1. \A i \in Id : m.vector[i] <= Len(log[i]) /\ m.vector[i] \in Nat
      BY <1>1, <1>4 DEF StateOK, VectorOK
    <3> QED
      BY <1>3, <1>5, <1>6, <1>9, <3>1
  <2>3. n.nextSeq - 1 <= n.vector[n.device] + 0
    BY <1>3, <1>4, <1>5, <1>6
  <2> QED
    BY <1>6, <2>1, <2>2, <2>3 DEF StateOK, VectorOK
<1>11. ASSUME NEW r \in Record, Counts(n, r, log') PROVE Counts(m, r, log)
  <2>1. PICK i \in Id : \E x \in 1..vector[i] : \E j \in 1..Len(log'[i][x]) : r = log'[i][x][j]
    BY <1>6, <1>11 DEF Counts
  <2>2. PICK x \in 1..vector[i] : \E j \in 1..Len(log'[i][x]) : r = log'[i][x][j]
    BY <2>1
  <2>3. m.vector[i] \in Nat /\ m.vector[i] <= Len(log[i])
    BY <1>1, <1>4 DEF StateOK, VectorOK
  <2>4. CASE i = m.device /\ x = seq
    BY <1>3, <2>2, <2>4 DEF Counts
  <2>5. CASE x \in 1..m.vector[i]
    <3>1. log'[i][x] = log[i][x]
      <4>1. x \in 1..Len(log[i])
        BY <1>9, <2>3, <2>5
      <4> QED
        BY <1>3, <4>1 DEF Onward, Grown
    <3> QED
      BY <2>2, <2>5, <3>1 DEF Counts
  <2>6. i # m.device => x \in 1..m.vector[i]
    BY <1>5
  <2>7. i = m.device /\ x # seq => x \in 1..m.vector[i]
    <3>1. seq <= m.vector[m.device] + 1
      BY <1>1, <1>4 DEF StateOK, VectorOK
    <3> QED
      BY <1>3, <1>4, <1>5, <2>3, <3>1
  <2> QED
    BY <2>4, <2>5, <2>6, <2>7
<1>12. PageOK(d)'
  BY <1>7 DEF PageOK
<1>13. InstallOK(d)'
  BY <1>2, <1>3, <1>6, <1>7, <1>8, <1>10, <1>11, <1>12, RoundStands
<1> QED
  BY <1>2, <1>3, <1>7, <1>13, OneMoves

LEMMA PushUnheardSkips ==
  ASSUME SkipInv, EngineInv', NEW d \in Install, PushUnheard(d)
  PROVE  SkipInv'
<1>1. /\ Lands(d) /\ pc' = [pc EXCEPT ![d] = "idle"] /\ inbox' = [inbox EXCEPT ![d] = {}]
      /\ UNCHANGED <<kind, store, mem, saved, backup, unsaved, restores>>
  BY DEF PushUnheard, Ended, Fails
<1>2. Onward /\ LogOK(log', restores') /\ Types
  BY <1>1, LandsFiles DEF SkipInv, EngineInv
<1>3. pc'[d] # "apply" /\ \A e \in Install \ {d} : pc'[e] = pc[e] /\ inbox'[e] = inbox[e]
  BY <1>1, <1>2 DEF Types
<1>4. mem[d] \in Engine /\ StateOK(mem[d], log, restores) /\ VectorOK(mem[d], log)
  BY TypesOfAll DEF InstallOK, StatesOK, StateOK
<1>5. StateOK(mem[d], log', restores') /\ \A r : Counts(mem[d], r, log') => Counts(mem[d], r, log)
  BY <1>2, <1>4, TypesOfAll, GrownKeeps DEF Onward
<1>6. PageOK(d)'
  BY <1>3 DEF PageOK
<1>7. InstallOK(d)'
  BY <1>1, <1>2, <1>4, <1>5, <1>6, RoundStands
<1> QED
  BY <1>1, <1>2, <1>3, <1>7, OneMoves

LEMMA RoundFailsSkips ==
  ASSUME SkipInv, EngineInv', NEW d \in Install, RoundFails(d)
  PROVE  SkipInv'
<1>1. /\ pc' = [pc EXCEPT ![d] = "idle"] /\ inbox' = [inbox EXCEPT ![d] = {}]
      /\ UNCHANGED <<kind, store, saved, backup, log, unsaved, restores>>
  BY DEF RoundFails, Ended, Fails, ghosts
<1>2. Types /\ Onward
  BY <1>1, SameLog DEF SkipInv, EngineInv
<1>3. pc'[d] # "apply" /\ \A e \in Install \ {d} : pc'[e] = pc[e] /\ inbox'[e] = inbox[e]
  BY <1>1, <1>2 DEF Types
<1>4. mem \in [Install -> Engine] /\ mem[d] \in Engine /\ StateOK(mem[d], log, restores) /\ mem[d].dirty \in SUBSET Key
  BY <1>2, TypesOfAll DEF InstallOK, StatesOK, Types, Engine
<1> DEFINE Fine(n) == /\ n \in Engine /\ n.stamps = mem[d].stamps /\ StateOK(n, log, restores)
                      /\ \A r \in Record : Counts(n, r, log) => Counts(mem[d], r, log) \/ Merged(mem[d], store[d], r, log)
<1>5. \E n \in Engine : mem' = [mem EXCEPT ![d] = n] /\ Fine(n)
  <2>1. CASE mem' = mem
    <3>1. mem' = [mem EXCEPT ![d] = mem[d]]
      BY <1>4, <2>1
    <3> QED
      BY <1>4, <3>1
  <2>2. ASSUME Building(d), NEW keys \in NextKeys(mem[d].dirty), mem' = [mem EXCEPT ![d] = Built(d, keys)]
        PROVE  \E n \in Engine : mem' = [mem EXCEPT ![d] = n] /\ Fine(n)
    <3>1. Fine(Built(d, keys)) /\ Built(d, keys) \in Engine
      BY <2>2, BuiltMerged
    <3> HIDE DEF Fine
    <3> QED
      BY <2>2, <3>1
  <2>3. ASSUME NEW lost \in SUBSET mem[d].dirty, mem' = [mem EXCEPT ![d].dirty = lost]
        PROVE  \E n \in Engine : mem' = [mem EXCEPT ![d] = n] /\ Fine(n)
    <3> DEFINE n == [mem[d] EXCEPT !.dirty = lost]
    <3>1. mem' = [mem EXCEPT ![d] = n]
      BY <1>4, <2>3
    <3>2. /\ n \in Engine /\ n.stamps = mem[d].stamps /\ n.pending = mem[d].pending /\ n.vector = mem[d].vector
          /\ n.device = mem[d].device /\ n.nextSeq = mem[d].nextSeq /\ n.clock = mem[d].clock /\ n.dirty = lost
      BY <1>4 DEF Engine
    <3> HIDE DEF n
    <3>3. StateOK(n, log, restores) /\ \A r : Counts(n, r, log) => Counts(mem[d], r, log)
      BY <1>4, <3>2 DEF StateOK, StampsOK, VectorOK, Counts
    <3> QED
      BY <3>1, <3>2, <3>3
  <2>4. \/ mem' = mem
        \/ Building(d) /\ \E keys \in NextKeys(mem[d].dirty) : mem' = [mem EXCEPT ![d] = Built(d, keys)]
        \/ \E lost \in SUBSET mem[d].dirty : mem' = [mem EXCEPT ![d].dirty = lost]
    <3>1. ASSUME NEW keys \in NextKeys(mem[d].dirty), NEW n \in DOMAIN keys,
                 mem' = [mem EXCEPT ![d].dirty = @ \ {keys[i] : i \in 1..n}]
          PROVE  \E lost \in SUBSET mem[d].dirty : mem' = [mem EXCEPT ![d].dirty = lost]
      <4> DEFINE lost == mem[d].dirty \ {keys[i] : i \in 1..n}
      <4>1. lost \in SUBSET mem[d].dirty /\ mem' = [mem EXCEPT ![d].dirty = lost]
        BY <1>4, <3>1
      <4> QED
        BY <4>1
    <3> QED
      BY <3>1 DEF RoundFails
  <2> QED
    BY <2>1, <2>2, <2>3, <2>4
<1>6. PICK n \in Engine : mem' = [mem EXCEPT ![d] = n] /\ Fine(n)
  BY <1>5
<1>7. mem'[d] = n /\ \A e \in Install \ {d} : mem'[e] = mem[e]
  BY <1>4, <1>6
<1>8. PageOK(d)'
  BY <1>3 DEF PageOK
<1>9. InstallOK(d)'
  BY <1>1, <1>2, <1>6, <1>7, <1>8, RoundStands
<1>10. LogOK(log', restores')
  BY <1>1, TypesOfAll
<1> QED
  BY <1>1, <1>2, <1>3, <1>7, <1>9, <1>10, OneMoves

LEMMA ContinueAsNewSkips ==
  ASSUME SkipInv, EngineInv', NEW d \in Install, ContinueAsNew(d)
  PROVE  SkipInv'
<1> DEFINE m == mem[d]
           vector == [m.vector EXCEPT ![m.device] = Seq0(d) - 1]
           clock == NewClock(nextId, m.clock)
           n == [m EXCEPT !.vector = vector, !.device = nextId, !.clock = clock, !.nextSeq = 2]
<1>1. /\ Types /\ mem \in [Install -> Engine] /\ saved \in [Install -> Engine] /\ m \in Engine
      /\ StateOK(m, log, restores) /\ m.device # 0 /\ log \in [Id -> Seq(Seq(Record))] /\ restores \in Nat /\ EngineInv
  BY TypesOfAll DEF InstallOK, StatesOK, SkipInv, EngineInv, Types
<1>2. /\ mem' = [mem EXCEPT ![d] = n] /\ saved' = [saved EXCEPT ![d] = n] /\ unsaved' = [unsaved EXCEPT ![d] = {}]
      /\ UNCHANGED <<kind, store, backup, pc, inbox, log, restores>>
  BY DEF ContinueAsNew, Persist, host, counters
<1>3. /\ m.vector \in [Id -> Nat] /\ m.pending # <<>> /\ pc[d] # "apply" /\ m.nextSeq \in Nat /\ m.nextSeq > 1
      /\ m.device \in Id /\ m.clock \in Stamp /\ m.nextSeq - 1 <= Len(log[m.device]) /\ m.stamps \in [Key -> Stamped]
  BY <1>1 DEF ContinueAsNew, Sending, Conflict, Seq0, Head0, Engine, EngineInv, Numbers, Numbered
<1>4. \A i \in Id : vector[i] = IF i = m.device THEN m.nextSeq - 2 ELSE m.vector[i]
  BY <1>3 DEF Seq0
<1>5. clock.physical = m.clock.physical /\ clock.counter = m.clock.counter
  BY DEF NewClock, At
<1> HIDE DEF vector
<1> HIDE DEF clock
<1>6. /\ n.stamps = m.stamps /\ n.pending = m.pending /\ n.vector = vector /\ n.device = nextId
      /\ n.nextSeq = 2 /\ n.clock = clock /\ n.dirty = m.dirty
  BY <1>1 DEF Engine
<1> HIDE DEF n
<1>7. /\ mem'[d] = n /\ saved'[d] = mem'[d] /\ pc'[d] # "apply"
      /\ \A e \in Install \ {d} : mem'[e] = mem[e] /\ saved'[e] = saved[e] /\ unsaved'[e] = unsaved[e]
  BY <1>1, <1>2, <1>3 DEF Types
<1>8. Onward
  BY <1>2, SameLog
<1>9. mem'[d] \in Engine
  <2>1. Engine' = Engine
    BY <1>8 DEF Onward, Engine
  <2> QED
    BY <2>1 DEF EngineInv, Types
<1>10. n.device \in Id
  BY <1>6, <1>7, <1>9 DEF EngineInv, Numbers, Engine
<1>11. \A i \in Id : Len(log[i]) \in Nat /\ m.vector[i] \in Nat /\ m.vector[i] <= Len(log[i])
  BY <1>1, <1>3 DEF StateOK, VectorOK
<1>12. \A i \in Id : vector[i] \in Nat /\ vector[i] <= m.vector[i]
  <2>1. m.nextSeq - 1 <= m.vector[m.device] + 1
    BY <1>1, <1>3 DEF StateOK, VectorOK
  <2> QED
    BY <1>3, <1>4, <1>11, <2>1
<1>13. StateOK(n, log, restores)
  <2>1. StampsOK(n, restores)
    BY <1>1, <1>5, <1>6 DEF StateOK, StampsOK, Reached
  <2>2. n.nextSeq - 1 <= n.vector[n.device] + 1
    BY <1>6, <1>10, <1>12
  <2> QED
    BY <1>3, <1>6, <1>11, <1>12, <2>1, <2>2 DEF StateOK, VectorOK
<1>14. ASSUME NEW r \in Record, Counts(n, r, log) PROVE Counts(m, r, log)
  <2>1. \A i \in Id : \A x \in 1..vector[i] : x \in 1..m.vector[i]
    BY <1>11, <1>12
  <2> QED
    BY <1>6, <1>14, <2>1 DEF Counts
<1>15. PageOK(d)'
  BY <1>7 DEF PageOK
<1>16. InstallOK(d)'
  BY <1>2, <1>6, <1>7, <1>8, <1>9, <1>13, <1>14, <1>15, RoundStands
<1>17. LogOK(log', restores')
  BY <1>2, TypesOfAll
<1> QED
  BY <1>2, <1>7, <1>8, <1>16, <1>17, OneMoves

-----------------------------------------------------------------------------
(* Steps that change what an install holds                                  *)

\* A step of one install that moves its stamps, with all that was counted still merged.
LEMMA MergeStands ==
  ASSUME SkipInv, EngineInv', UNCHANGED <<kind, log, restores>>, NEW d \in Install,
         mem'[d] \in Engine, saved'[d] = saved[d], backup'[d] = backup[d],
         StateOK(mem'[d], log, restores),
         \A r \in Record : Merged(mem[d], store[d], r, log) => Merged(mem'[d], store'[d], r, log),
         \A r \in Record : Counts(mem'[d], r, log) => Counts(mem[d], r, log) \/ Merged(mem'[d], store'[d], r, log),
         ResetsKnown(d)', PageOK(d)',
         \A e \in Install \ {d} :
           /\ mem'[e] = mem[e] /\ saved'[e] = saved[e] /\ backup'[e] = backup[e] /\ store'[e] = store[e]
           /\ unsaved'[e] = unsaved[e] /\ pc'[e] = pc[e] /\ inbox'[e] = inbox[e]
  PROVE  SkipInv'
<1>1. Onward
  BY SameLog
<1>2. StatesOK(d) /\ CountedMerged(d)
  BY TypesOfAll DEF InstallOK
<1>3. /\ StateOK(mem'[d], log', restores') /\ StateOK(saved'[d], log', restores')
      /\ \A b \in backup'[d] : StateOK(b.state, log', restores')
      /\ saved'[d].device = 0 => saved'[d] = Fresh(0)
  BY <1>2 DEF StatesOK
<1>4. ASSUME NEW r \in Record
      PROVE  /\ Counts(mem'[d], r, log') => Merged(mem'[d], store'[d], r, log')
             /\ Counts(saved'[d], r, log') => Merged(mem'[d], store'[d], r, log') /\ Covered(saved'[d].stamps[r.key], r)
             /\ \A b \in backup'[d] : Counts(b.state, r, log') => Merged(b.state, b.store, r, log')
  BY <1>2 DEF CountedMerged
<1>5. InstallOK(d)'
  BY <1>1, <1>3, <1>4, InstallIs DEF Onward
<1>6. LogOK(log', restores')
  BY TypesOfAll
<1> QED
  BY <1>1, <1>5, <1>6, OneMoves

\* The user's own change goes after what the library has merged, or joins it.
LEMMA WriteMerges ==
  ASSUME restores \in Nat, kind \in [Key -> Kind],
         NEW m \in Engine, StampsOK(m, restores), NEW s \in Library, NEW k \in Key, NEW value \in Copy(k), NEW rewind \in BOOLEAN,
         kind[k] = "event" => value = Absent \/ ~Known(m, k),
         kind[k] = "progress" => rewind \/ (value \in Position /\ (s[k] # Absent => Further(s[k], value) = value)),
         NEW l, NEW r \in Record, Merged(m, s, r, l)
  PROVE  Merged(Touched(m, k, rewind), [s EXCEPT ![k] = value], r, l)
<1> DEFINE n == Touched(m, k, rewind)
           t == [s EXCEPT ![k] = value]
           old == m.stamps[k]
           new == n.stamps[k]
<1>1. n \in Engine /\ \A j \in Key \ {k} : n.stamps[j] = m.stamps[j]
  BY TouchedIs
<1>2. /\ new \in Stamped /\ new # Unstamped
      /\ \A x \in Stamp : Reached(m.clock, x) => Earlier(x, new.hlc)
      /\ new.reset = IF rewind THEN new.hlc ELSE old.reset
  BY TouchMoves
<1>3. t[k] = value /\ \A j \in Key \ {k} : t[j] = s[j]
  BY DEF Library
<1> HIDE DEF n
<1> HIDE DEF t
<1>4. r.key \in Key /\ r.env.kind = kind[r.key] /\ (kind[r.key] = "progress" => r.env.reset \in Stamp /\ r.env.value \in Position)
  BY RecordIs
<1>5. CASE r.key # k
  BY <1>1, <1>3, <1>4, <1>5 DEF Merged, n, t
<1>6. CASE r.key = k
  <2>1. m.clock \in Stamp /\ old \in Stamped /\ old.hlc \in Stamp /\ old.reset \in Stamp /\ new.hlc \in Stamp
    BY <1>2 DEF Engine, Stamped
  <2>2. Reached(m.clock, old.hlc) /\ Reached(old.hlc, old.reset)
    BY DEF StampsOK
  <2>3. Earlier(old.hlc, new.hlc) /\ Earlier(old.reset, new.hlc)
    <3>1. Reached(m.clock, old.reset)
      BY <2>1, <2>2, Reaching
    <3> QED
      BY <1>2, <2>1, <2>2, <3>1
  <2>4. Covered(old, r) /\ Known(m, k)
    BY <1>6 DEF Merged, Covered, Known
  <2>5. AtMost(old.hlc, new.hlc) /\ AtMost(old.reset, new.reset)
    BY <1>2, <2>3 DEF AtMost
  <2>6. Covered(new, r)
    BY <1>2, <2>1, <2>4, <2>5, CoverGrows
  <2>7. CASE kind[k] = "register"
    BY <1>4, <1>6, <2>6, <2>7 DEF Merged, Shows, n, t
  <2>8. CASE kind[k] = "event"
    <3>1. value = Absent
      BY <2>4, <2>8
    <3> QED
      BY <1>3, <1>4, <1>6, <2>6, <2>8, <3>1 DEF Merged, Shows, n, t
  <2>9. CASE kind[k] = "progress"
    <3> DEFINE was == PositionOf(s[k])
               now == PositionOf(t[k])
               v == r.env.value
    <3>1. v \in Position /\ r.env.reset \in Stamp /\ r.env.kind = "progress" /\ AtMost(r.env.reset, old.reset)
      BY <1>4, <1>6, <2>4, <2>9 DEF Covered
    <3>2. Earlier(r.env.reset, old.reset) \/ Rewinds(k, r.env.reset, l) \/ Further(was, v) = was
      BY <1>6, <3>1 DEF Merged, Shows
    <3>3. Earlier(r.env.reset, new.reset) \/ Rewinds(k, r.env.reset, l) \/ Further(now, v) = now
      <4>1. CASE rewind
        <5>1. new.reset = new.hlc
          BY <1>2, <4>1
        <5> QED
          BY <2>1, <2>3, <3>1, <5>1, StampOrder
      <4>2. CASE ~rewind
        <5>1. /\ value \in Position /\ new.reset = old.reset /\ now = value
              /\ was \in Position
              /\ IF s[k] = Absent THEN was = Unread ELSE was = s[k] /\ Further(was, value) = value
          <6>1. value \in Position /\ new.reset = old.reset
            BY <1>2, <2>9, <4>2
          <6>2. value # Absent
            BY <6>1, AbsentAssumption
          <6>3. s[k] \in Position \cup {Absent}
            BY <2>9 DEF Library, Copy
          <6> QED
            BY <1>3, <2>9, <4>2, <6>1, <6>2, <6>3, UnreadIs DEF PositionOf
        <5> HIDE DEF was
        <5> HIDE DEF now
        <5>2. Further(was, v) = was => Further(value, v) = value
          <6>1. CASE s[k] = Absent
            BY <3>1, <5>1, <6>1, FurtherKeeps
          <6>2. CASE s[k] # Absent
            <7>1. Further(was, value) = value
              BY <5>1, <6>2
            <7>2. Further(was, v) = was /\ Further(was, value) = value => Further(value, v) = value
              BY <3>1, <5>1, FurtherKeeps
            <7> QED
              BY <7>1, <7>2
          <6> QED
            BY <6>1, <6>2
        <5> QED
          BY <3>2, <5>1, <5>2
      <4> QED
        BY <4>1, <4>2
    <3> QED
      BY <1>6, <2>6, <3>1, <3>3 DEF Merged, Shows, n, t
  <2>10. kind[k] \in {"register", "event", "progress"}
    BY DEF Kind
  <2> QED
    BY <2>7, <2>8, <2>9, <2>10
<1> QED
  BY <1>5, <1>6

LEMMA WriteSkips ==
  ASSUME SkipInv, EngineInv', NEW d \in Install, NEW k \in Key, NEW value \in Copy(k), NEW rewind \in BOOLEAN,
         Write(d, k, value, rewind),
         kind[k] = "event" => value = Absent \/ ~Known(mem[d], k),
         kind[k] = "progress" => rewind \/ (value \in Position /\ (store[d][k] # Absent => Further(store[d][k], value) = value))
  PROVE  SkipInv'
<1> DEFINE n == Touched(mem[d], k, rewind)
           t == [store[d] EXCEPT ![k] = value]
<1>1. /\ store' = [store EXCEPT ![d][k] = value] /\ mem' = [mem EXCEPT ![d] = Touched(@, k, rewind)]
      /\ unsaved' = [unsaved EXCEPT ![d] = @ \cup {k}] /\ pc[d] # "apply"
      /\ UNCHANGED <<kind, saved, backup, pc, inbox, log, restores>>
  BY DEF Write, host
<1>2. /\ Types /\ mem[d] \in Engine /\ store[d] \in Library /\ restores \in Nat /\ kind \in [Key -> Kind]
      /\ StateOK(mem[d], log, restores) /\ ResetsKnown(d)
  BY TypesOfAll DEF InstallOK, StatesOK, SkipInv, EngineInv
<1>3. /\ n \in Engine
      /\ n.device = mem[d].device /\ n.nextSeq = mem[d].nextSeq /\ n.pending = mem[d].pending /\ n.vector = mem[d].vector
      /\ \A j \in Key \ {k} : n.stamps[j] = mem[d].stamps[j]
  BY <1>2, TouchedIs
<1>4. StampsOK(n, restores)
  BY <1>2, TouchMoves DEF StateOK
<1>5. \A r \in Record : Merged(mem[d], store[d], r, log) => Merged(n, t, r, log)
  BY <1>2, WriteMerges DEF StateOK
<1>6. /\ mem'[d] = n /\ store'[d] = t /\ unsaved'[d] = unsaved[d] \cup {k}
      /\ \A e \in Install \ {d} : mem'[e] = mem[e] /\ store'[e] = store[e] /\ unsaved'[e] = unsaved[e]
  BY <1>1, <1>2 DEF Types
<1> HIDE DEF n
<1> HIDE DEF t
<1>7. StateOK(n, log, restores)
  BY <1>2, <1>3, <1>4 DEF StateOK, VectorOK
<1>8. ResetsKnown(d)'
  <2> SUFFICES ASSUME NEW j \in Key, kind[j] = "progress"
               PROVE  \/ j \in unsaved'[d]
                      \/ mem'[d].stamps[j].reset = saved'[d].stamps[j].reset
                      \/ ResetFiled(j, mem'[d].stamps[j].reset, log')
    BY <1>1 DEF ResetsKnown
  <2>1. j # k => mem'[d].stamps[j] = mem[d].stamps[j]
    BY <1>3, <1>6
  <2> QED
    BY <1>1, <1>2, <1>6, <2>1 DEF ResetsKnown
<1>9. PageOK(d)'
  BY <1>1 DEF PageOK
<1>10. \A r : Counts(n, r, log) => Counts(mem[d], r, log)
  BY <1>3 DEF Counts
<1> QED
  BY <1>1, <1>3, <1>5, <1>6, <1>7, <1>8, <1>9, <1>10, MergeStands

LEMMA UserWritesSkip ==
  ASSUME SkipInv, EngineInv', NEW d \in Install, UserWrites(d)
  PROVE  SkipInv'
<1>1. PICK k \in Key : \/ \E v \in Value \cup {Absent} : Put(d, k, v)
                       \/ \E v \in Value : Notice(d, k, v)
                       \/ Dismiss(d, k)
                       \/ \E p \in ReadPosition : Read(d, k, p)
                       \/ \E p \in ReadPosition \cup {Absent} : MarkUnread(d, k, p)
  BY DEF UserWrites
<1>2. ReadPosition \subseteq Position
  BY EngineAssumption DEF ReadPosition, Position
<1>3. \E value \in Copy(k), rewind \in BOOLEAN :
        /\ Write(d, k, value, rewind)
        /\ kind[k] = "event" => value = Absent \/ ~Known(mem[d], k)
        /\ kind[k] = "progress" => rewind \/ (value \in Position /\ (store[d][k] # Absent => Further(store[d][k], value) = value))
  <2>1. CASE \E v \in Value \cup {Absent} : Put(d, k, v)
    BY <2>1 DEF Put, Copy
  <2>2. CASE \E v \in Value : Notice(d, k, v)
    BY <2>2 DEF Notice, Copy
  <2>3. CASE Dismiss(d, k)
    BY <2>3 DEF Dismiss, Copy
  <2>4. CASE \E p \in ReadPosition : Read(d, k, p)
    BY <1>2, <2>4 DEF Read, Copy
  <2>5. CASE \E p \in ReadPosition \cup {Absent} : MarkUnread(d, k, p)
    BY <1>2, <2>5 DEF MarkUnread, Copy
  <2> QED
    BY <1>1, <2>1, <2>2, <2>3, <2>4, <2>5
<1> QED
  BY <1>3, WriteSkips

-----------------------------------------------------------------------------
(* The page that is pulled                                                  *)

LEMMA ImageFinite ==
  ASSUME NEW S, IsFiniteSet(S), NEW f
  PROVE  IsFiniteSet({f[x] : x \in S})
<1> DEFINE T == {f[x] : x \in S}
           g == [x \in S |-> f[x]]
<1>1. g \in Surjection(S, T)
  BY DEF Surjection
<1> HIDE DEF g
<1> HIDE DEF T
<1>2. IsFiniteSet(T)
  BY <1>1, FS_Surjection
<1> QED
  BY <1>2 DEF T

LEMMA MissingFinite ==
  ASSUME log \in [Id -> Seq(Seq(Record))], NEW have \in [Id -> Nat]
  PROVE  IsFiniteSet(Missing(have))
<1> DEFINE ref(i, n) == [r \in Nat |-> [device |-> i, seq |-> n, nth |-> r]]
           segment(i) == [n \in Nat |-> {[device |-> i, seq |-> n, nth |-> r] : r \in DOMAIN log[i][n]}]
           numbers(i) == have[i] + 1 .. Len(log[i])
           places == [i \in Id |-> Places(i, numbers(i))]
<1>1. ASSUME NEW i \in Id PROVE IsFiniteSet(Places(i, numbers(i)))
  <2>1. log[i] \in Seq(Seq(Record)) /\ Len(log[i]) \in Nat /\ have[i] \in Nat
    OBVIOUS
  <2>2. IsFiniteSet(numbers(i)) /\ numbers(i) \subseteq Nat /\ \A n \in numbers(i) : n \in 1..Len(log[i])
    <3>1. have[i] + 1 \in Int /\ Len(log[i]) \in Int
      BY <2>1
    <3>2. IsFiniteSet(numbers(i))
      <4> DEFINE low == have[i] + 1
                 high == Len(log[i])
      <4> HIDE DEF low
      <4> HIDE DEF high
      <4>1. IsFiniteSet(low..high)
        BY <3>1, FS_Interval DEF low, high
      <4> QED
        BY <4>1 DEF low, high
    <3>3. numbers(i) \subseteq Nat /\ \A n \in numbers(i) : n \in 1..Len(log[i])
      BY <2>1
    <3> QED
      BY <3>2, <3>3
  <2> HIDE DEF numbers
  <2>3. ASSUME NEW n \in numbers(i) PROVE IsFiniteSet(segment(i)[n])
    <3>1. log[i][n] \in Seq(Record)
      BY <2>1, <2>2
    <3>2. DOMAIN log[i][n] = 1..Len(log[i][n]) /\ Len(log[i][n]) \in Nat
      BY <3>1
    <3>3. IsFiniteSet(DOMAIN log[i][n]) /\ DOMAIN log[i][n] \subseteq Nat
      <4> DEFINE top == Len(log[i][n])
      <4> HIDE DEF top
      <4>1. top \in Int /\ 1 \in Int /\ DOMAIN log[i][n] = 1..top
        BY <3>2 DEF top
      <4>2. IsFiniteSet(1..top)
        BY <4>1, FS_Interval
      <4>3. 1..top \subseteq Nat
        BY <4>1
      <4> QED
        BY <4>1, <4>2, <4>3
    <3>4. IsFiniteSet({ref(i, n)[r] : r \in DOMAIN log[i][n]})
      <4> HIDE DEF ref
      <4> QED
        BY <3>3, ImageFinite
    <3>5. {ref(i, n)[r] : r \in DOMAIN log[i][n]} = {[device |-> i, seq |-> n, nth |-> r] : r \in DOMAIN log[i][n]}
      BY <3>3
    <3>6. n \in Nat
      BY <2>2
    <3> QED
      BY <3>4, <3>5, <3>6
  <2>4. IsFiniteSet({segment(i)[n] : n \in numbers(i)})
    <3> HIDE DEF segment
    <3> QED
      BY <2>2, ImageFinite
  <2>5. Places(i, numbers(i)) = UNION {segment(i)[n] : n \in numbers(i)}
    <3>1. \A n \in numbers(i) : segment(i)[n] = {[device |-> i, seq |-> n, nth |-> r] : r \in DOMAIN log[i][n]}
      BY <2>2
    <3> HIDE DEF segment
    <3>2. {{[device |-> i, seq |-> n, nth |-> r] : r \in DOMAIN log[i][n]} : n \in numbers(i)} = {segment(i)[n] : n \in numbers(i)}
      BY <3>1, Zenon
    <3> QED
      BY <3>2 DEF Places
  <2>6. \A T \in {segment(i)[n] : n \in numbers(i)} : IsFiniteSet(T)
    <3> HIDE DEF segment
    <3> QED
      BY <2>3
  <2> HIDE DEF segment
  <2> QED
    BY <2>4, <2>5, <2>6, FS_UNION
<1>2. IsFiniteSet(Id)
  BY EngineAssumption, FS_Interval DEF Id
<1>3. IsFiniteSet({places[i] : i \in Id})
  <2> HIDE DEF places
  <2> QED
    BY <1>2, ImageFinite
<1>4. \A T \in {places[i] : i \in Id} : IsFiniteSet(T)
  BY <1>1
<1>5. Missing(have) = UNION {places[i] : i \in Id}
  BY DEF Missing
<1> HIDE DEF places
<1> QED
  BY <1>3, <1>4, <1>5, FS_UNION

\* A page holds all that is missing before what it holds of a device.
LEMMA PageClosed ==
  ASSUME NEW missing, IsFiniteSet(missing), NEW ref \in PullPage(missing), NEW other \in missing,
         missing \subseteq [device : Id, seq : Nat, nth : Nat],
         other.device = ref.device, other.seq <= ref.seq
  PROVE  other \in PullPage(missing)
<1> DEFINE upTo(x) == {r \in missing : ~SegmentBefore(x, r)}
<1>1. ref \in missing /\ Fits(missing, ref)
  BY DEF PullPage
<1>2. /\ ref.device \in Id /\ ref.seq \in Nat /\ other.seq \in Nat
      /\ \A r \in missing : r.seq \in Nat
  BY <1>1
<1>3. upTo(other) \subseteq upTo(ref)
  <2>1. \A r \in missing : SegmentBefore(ref, r) => SegmentBefore(other, r)
    BY <1>2 DEF SegmentBefore
  <2> QED
    BY <2>1
<1>4. IsFiniteSet(upTo(ref)) /\ IsFiniteSet(upTo(other)) /\ Cardinality(upTo(other)) <= Cardinality(upTo(ref))
  <2>1. upTo(ref) \subseteq missing
    OBVIOUS
  <2> HIDE DEF upTo
  <2>2. IsFiniteSet(upTo(ref))
    BY <2>1, FS_Subset
  <2> QED
    BY <1>3, <2>2, FS_Subset
<1>5. Cardinality(upTo(ref)) \in Nat /\ Cardinality(upTo(other)) \in Nat
  BY <1>4, FS_CardinalityType
<1>6. Cardinality(upTo(ref)) <= PullLimit \/ \A r \in upTo(ref) : ~SegmentBefore(r, ref)
  BY <1>1 DEF Fits
<1>7. CASE Cardinality(upTo(ref)) <= PullLimit
  <2>1. Cardinality(upTo(other)) <= PullLimit
    <3> HIDE DEF upTo
    <3> QED
      BY <1>4, <1>5, <1>7, EngineAssumption
  <2> QED
    BY <2>1 DEF PullPage, Fits
<1>8. CASE \A r \in upTo(ref) : ~SegmentBefore(r, ref)
  <2>1. other \in upTo(ref)
    BY <1>2 DEF SegmentBefore
  <2>2. ~SegmentBefore(other, ref)
    BY <1>8, <2>1
  <2>3. other.seq = ref.seq
    BY <1>2, <2>2 DEF SegmentBefore
  <2>4. \A r \in missing : SegmentBefore(r, other) <=> SegmentBefore(r, ref)
    BY <2>3 DEF SegmentBefore
  <2>5. \A r \in upTo(other) : ~SegmentBefore(r, other)
    BY <1>3, <1>8, <2>4
  <2> QED
    BY <2>5 DEF PullPage, Fits
<1> QED
  BY <1>6, <1>7, <1>8

LEMMA PullSkips ==
  ASSUME SkipInv, EngineInv', NEW d \in Install, Pull(d)
  PROVE  SkipInv'
<1> DEFINE vector == mem[d].vector
           missing == Missing(vector)
<1>1. /\ inbox' = [inbox EXCEPT ![d] = PullPage(missing)] /\ pc' = [pc EXCEPT ![d] = IF inbox'[d] = {} THEN "send" ELSE "apply"]
      /\ UNCHANGED <<kind, store, mem, saved, backup, log, unsaved, restores>>
  BY DEF Pull, ghosts, counters
<1>2. /\ Types /\ vector \in [Id -> Nat] /\ log \in [Id -> Seq(Seq(Record))] /\ mem[d] \in Engine
      /\ StateOK(mem[d], log, restores) /\ CountedMerged(d)
  BY TypesOfAll DEF SkipInv, EngineInv, Types, Engine, InstallOK, StatesOK
<1>3. Onward
  BY <1>1, SameLog
<1>4. inbox'[d] = PullPage(missing) /\ \A e \in Install \ {d} : inbox'[e] = inbox[e] /\ pc'[e] = pc[e]
  BY <1>1, <1>2 DEF Types
<1> HIDE DEF vector
<1>5. \A r \in missing : /\ r \in [device : Id, seq : Nat, nth : Nat]
                         /\ r.seq \in vector[r.device] + 1 .. Len(log[r.device]) /\ r.nth \in DOMAIN log[r.device][r.seq]
  <2> SUFFICES ASSUME NEW r \in missing
               PROVE  /\ r \in [device : Id, seq : Nat, nth : Nat]
                      /\ r.seq \in vector[r.device] + 1 .. Len(log[r.device]) /\ r.nth \in DOMAIN log[r.device][r.seq]
    OBVIOUS
  <2>1. PICK i \in Id : r \in Places(i, vector[i] + 1 .. Len(log[i]))
    BY DEF Missing
  <2>2. PICK n \in vector[i] + 1 .. Len(log[i]) : r \in {[device |-> i, seq |-> n, nth |-> j] : j \in DOMAIN log[i][n]}
    BY <2>1 DEF Places
  <2>3. PICK j \in DOMAIN log[i][n] : r = [device |-> i, seq |-> n, nth |-> j]
    BY <2>2
  <2>4. log[i] \in Seq(Seq(Record)) /\ Len(log[i]) \in Nat /\ vector[i] \in Nat
    BY <1>2
  <2>5. n \in 1..Len(log[i]) /\ n \in Nat
    BY <2>4
  <2>6. log[i][n] \in Seq(Record)
    BY <2>4, <2>5
  <2>7. j \in Nat
    BY <2>6
  <2> QED
    BY <2>3, <2>5, <2>7
<1>6. \A i \in Id : \A n \in vector[i] + 1 .. Len(log[i]) : \A j \in 1..Len(log[i][n]) : [device |-> i, seq |-> n, nth |-> j] \in missing
  <2> SUFFICES ASSUME NEW i \in Id, NEW n \in vector[i] + 1 .. Len(log[i]), NEW j \in 1..Len(log[i][n])
               PROVE  [device |-> i, seq |-> n, nth |-> j] \in missing
    OBVIOUS
  <2>1. n \in 1..Len(log[i]) /\ log[i] \in Seq(Seq(Record))
    BY <1>2
  <2>2. log[i][n] \in Seq(Record)
    BY <2>1
  <2>3. j \in DOMAIN log[i][n]
    BY <2>2
  <2>4. [device |-> i, seq |-> n, nth |-> j] \in Places(i, vector[i] + 1 .. Len(log[i]))
    BY <2>3 DEF Places
  <2> QED
    BY <2>4 DEF Missing
<1>7. IsFiniteSet(missing)
  BY <1>2, MissingFinite
<1> HIDE DEF missing
<1>8. PageOK(d)'
  <2> SUFFICES ASSUME NEW ref \in inbox'[d], NEW n \in 1..ref.seq, NEW j \in 1..Len(log[ref.device][n]),
                      n < ref.seq \/ j < ref.nth
               PROVE  \/ \E other \in inbox'[d] : other.device = ref.device /\ other.seq = n /\ other.nth = j
                      \/ Merged(mem[d], store[d], log[ref.device][n][j], log)
    BY <1>1 DEF PageOK
  <2>1. ref \in PullPage(missing) /\ ref \in missing
    BY <1>4 DEF PullPage
  <2>2. ref.device \in Id /\ ref.seq \in Nat /\ ref.seq \in vector[ref.device] + 1 .. Len(log[ref.device]) /\ n \in Nat
    BY <1>5, <2>1
  <2>3. vector[ref.device] \in Nat /\ Len(log[ref.device]) \in Nat /\ log[ref.device] \in Seq(Seq(Record))
    BY <1>2, <2>2
  <2>4. CASE n \in vector[ref.device] + 1 .. Len(log[ref.device])
    <3> DEFINE other == [device |-> ref.device, seq |-> n, nth |-> j]
    <3>1. other \in missing
      BY <1>6, <2>2, <2>4
    <3>2. other.device = ref.device /\ other.seq = n /\ other.nth = j
      OBVIOUS
    <3> HIDE DEF other
    <3>3. other \in PullPage(missing)
      BY <1>5, <1>7, <2>1, <3>1, <3>2, PageClosed
    <3> QED
      BY <1>4, <3>2, <3>3
  <2>5. CASE n \in 1..vector[ref.device]
    <3> DEFINE r == log[ref.device][n][j]
    <3>1. n \in 1..Len(log[ref.device])
      BY <2>2, <2>3
    <3>2. log[ref.device][n] \in Seq(Record)
      BY <2>3, <3>1
    <3>3. r \in Record
      BY <3>2
    <3>4. Counts(mem[d], r, log)
      BY <2>2, <2>5 DEF Counts, vector
    <3> HIDE DEF r
    <3>5. Merged(mem[d], store[d], r, log)
      BY <1>2, <3>3, <3>4 DEF CountedMerged
    <3> QED
      BY <3>5 DEF r
  <2> QED
    BY <2>2, <2>3, <2>4, <2>5
<1>9. \A r : Counts(mem'[d], r, log') => Counts(mem[d], r, log)
  BY <1>1
<1>10. InstallOK(d)'
  BY <1>1, <1>2, <1>3, <1>8, <1>9, RoundStands
<1>11. LogOK(log', restores')
  BY <1>1, TypesOfAll
<1> QED
  BY <1>1, <1>3, <1>4, <1>10, <1>11, OneMoves

-----------------------------------------------------------------------------
(* Adoption                                                                 *)

\* What is adopted is stamped after all the clock has reached, one after the other.
LEMMA AdoptMoves ==
  ASSUME restores \in Nat, NEW m \in Engine, StampsOK(m, restores), NEW strangers \in SUBSET Key,
         \A k \in strangers : ~Known(m, k)
  PROVE  LET n == Adopted(m, strangers)
         IN  /\ StampsOK(n, restores)
             /\ \A k \in Key \ strangers : n.stamps[k] = m.stamps[k]
             /\ \A k \in Key : n.stamps[k].reset = m.stamps[k].reset
<1> DEFINE n == Adopted(m, strangers)
           first == Send(m.clock, wall)
           nth(i) == [first EXCEPT !.counter = @ + i]
           place(k) == Cardinality({j \in strangers : j < k})
           last == Cardinality(strangers) - 1
<1>1. /\ m.clock \in Stamp /\ m.stamps \in [Key -> Stamped] /\ m.dirty \in SUBSET Key
      /\ m.clock.physical <= restores
  BY DEF Engine, StampsOK
<1>2. /\ first \in Stamp /\ first.physical <= restores /\ Issued(first) /\ Reached(first, first)
      /\ \A x \in Stamp : Reached(m.clock, x) => Reached(first, x)
  BY <1>1, SentIs DEF wall
<1>3. /\ n.clock = IF strangers = {} THEN m.clock ELSE nth(last)
      /\ n.stamps = [k \in Key |-> IF k \in strangers THEN [hlc |-> nth(place(k)), reset |-> NoStamp] ELSE m.stamps[k]]
      /\ n.dirty = m.dirty \cup strangers
      /\ n.pending = m.pending
  BY <1>1 DEF Adopted, Engine
<1> HIDE DEF n
<1> HIDE DEF first
<1>4. \A i \in Nat : nth(i).physical = first.physical /\ nth(i).counter = first.counter + i
  BY <1>2 DEF Stamp
<1>5. first.physical \in Nat /\ first.counter \in Nat
  BY <1>2 DEF Stamp
<1>6. IsFiniteSet(strangers) /\ Cardinality(strangers) \in Nat
  BY EngineAssumption, FS_Subset, FS_CardinalityType
<1>7. \A k \in strangers : place(k) \in Nat /\ place(k) <= last /\ last \in Nat
  <2> SUFFICES ASSUME NEW k \in strangers PROVE place(k) \in Nat /\ place(k) <= last /\ last \in Nat
    OBVIOUS
  <2> DEFINE before == {j \in strangers : j < k}
             others == strangers \ {k}
  <2>1. before \subseteq others
    <3>1. k \in Nat
      BY EngineAssumption
    <3> QED
      BY <3>1
  <2>2. IsFiniteSet(others) /\ Cardinality(others) = Cardinality(strangers) - 1
    BY <1>6, FS_RemoveElement
  <2> HIDE DEF before
  <2> HIDE DEF others
  <2>3. IsFiniteSet(before) /\ Cardinality(before) <= Cardinality(others)
    BY <2>1, <2>2, FS_Subset
  <2>4. Cardinality(before) \in Nat /\ Cardinality(others) \in Nat
    BY <2>2, <2>3, FS_CardinalityType
  <2>5. place(k) = Cardinality(before)
    BY DEF before
  <2> QED
    BY <2>2, <2>3, <2>4, <2>5
<1> HIDE DEF place
<1> HIDE DEF last
<1> HIDE DEF nth
<1>8. \A k \in strangers : m.stamps[k].reset = NoStamp
  BY DEF Known, Unstamped
<1>9. /\ \A k \in Key \ strangers : n.stamps[k] = m.stamps[k]
      /\ \A k \in Key : n.stamps[k].reset = m.stamps[k].reset
      /\ \A k \in strangers : n.stamps[k].hlc = nth(place(k)) /\ n.stamps[k].reset = NoStamp
  BY <1>3, <1>8
<1>10. \A x \in Stamp : Reached(m.clock, x) => Reached(n.clock, x)
  <2>1. CASE strangers = {}
    BY <1>3, <2>1
  <2>2. CASE strangers # {}
    <3>1. n.clock = nth(last) /\ last \in Nat
      BY <1>3, <1>7, <2>2
    <3>2. n.clock.physical = first.physical /\ n.clock.counter = first.counter + last
      BY <1>4, <3>1
    <3>3. \A x \in Stamp : x.physical \in Nat /\ x.counter \in Nat
      BY DEF Stamp
    <3> QED
      BY <1>2, <1>5, <3>1, <3>2, <3>3 DEF Reached
  <2> QED
    BY <2>1, <2>2
<1>11. n.clock.physical <= restores
  BY <1>1, <1>2, <1>3, <1>4, <1>7
<1>12. ASSUME NEW k \in strangers
       PROVE  /\ Reached(n.clock, nth(place(k))) /\ Reached(nth(place(k)), NoStamp)
              /\ nth(place(k)).physical <= restores /\ Issued(nth(place(k)))
  <2>1. n.clock = nth(last) /\ last \in Nat /\ place(k) \in Nat /\ place(k) <= last
    BY <1>3, <1>7
  <2>2. /\ n.clock.physical = first.physical /\ n.clock.counter = first.counter + last
        /\ nth(place(k)).physical = first.physical /\ nth(place(k)).counter = first.counter + place(k)
    BY <1>4, <2>1
  <2> QED
    BY <1>2, <1>5, <2>1, <2>2 DEF Reached, Issued, NoStamp
<1>13. \A k \in Key : m.stamps[k].hlc \in Stamp
  BY <1>1 DEF Stamped
<1>14. ASSUME NEW k \in Key
       PROVE  /\ Reached(n.clock, n.stamps[k].hlc) /\ Reached(n.stamps[k].hlc, n.stamps[k].reset)
              /\ n.stamps[k].hlc.physical <= restores
              /\ k \in n.dirty => Issued(n.stamps[k].hlc)
  <2>1. CASE k \in strangers
    BY <1>9, <1>12, <2>1
  <2>2. CASE k \notin strangers
    BY <1>3, <1>9, <1>10, <1>13, <2>2 DEF StampsOK
  <2> QED
    BY <2>1, <2>2
<1>15. StampsOK(n, restores)
  BY <1>3, <1>11, <1>14 DEF StampsOK
<1> QED
  BY <1>9, <1>15 DEF n

LEMMA AdoptSkips ==
  ASSUME SkipInv, EngineInv', NEW d \in Install, Adopt(d)
  PROVE  SkipInv'
<1> DEFINE strangers == {k \in Present(store[d]) : ~Known(mem[d], k)}
           n == Adopted(mem[d], strangers)
<1>1. /\ Types /\ mem \in [Install -> Engine] /\ mem[d] \in Engine /\ restores \in Nat /\ StateOK(mem[d], log, restores)
      /\ ResetsKnown(d)
  BY TypesOfAll DEF InstallOK, StatesOK, SkipInv, EngineInv, Types
<1>2. /\ mem' = [mem EXCEPT ![d] = n] /\ pc[d] # "apply"
      /\ UNCHANGED <<kind, store, saved, backup, pc, inbox, log, unsaved, restores>>
  <2>1. mem' = [mem EXCEPT ![d] = n]
    BY <1>1 DEF Adopt
  <2> QED
    BY <2>1 DEF Adopt, host, counters
<1>3. strangers \in SUBSET Key /\ \A k \in strangers : ~Known(mem[d], k)
  BY DEF Present
<1> HIDE DEF strangers
<1>4. /\ n \in Engine
      /\ n.device = mem[d].device /\ n.nextSeq = mem[d].nextSeq /\ n.pending = mem[d].pending /\ n.vector = mem[d].vector
  BY <1>1, <1>3, AdoptedIs
<1>5. /\ StampsOK(n, restores)
      /\ \A k \in Key \ strangers : n.stamps[k] = mem[d].stamps[k]
      /\ \A k \in Key : n.stamps[k].reset = mem[d].stamps[k].reset
  BY <1>1, <1>3, AdoptMoves DEF StateOK
<1> HIDE DEF n
<1>6. mem'[d] = n /\ \A e \in Install \ {d} : mem'[e] = mem[e]
  BY <1>1, <1>2
<1>7. StateOK(n, log, restores)
  BY <1>1, <1>4, <1>5 DEF StateOK, VectorOK
<1>8. ASSUME NEW r \in Record, Merged(mem[d], store[d], r, log) PROVE Merged(n, store[d], r, log)
  <2>1. r.key \in Key /\ Known(mem[d], r.key)
    BY <1>8, RecordIs DEF Merged, Covered, Known
  <2>2. n.stamps[r.key] = mem[d].stamps[r.key]
    BY <1>3, <1>5, <2>1
  <2> QED
    BY <1>8, <2>2 DEF Merged
<1>9. \A r : Counts(n, r, log) => Counts(mem[d], r, log)
  BY <1>4 DEF Counts
<1>10. ResetsKnown(d)'
  BY <1>1, <1>2, <1>5, <1>6 DEF ResetsKnown
<1>11. PageOK(d)'
  BY <1>2 DEF PageOK
<1> QED
  BY <1>2, <1>4, <1>6, <1>7, <1>8, <1>9, <1>10, <1>11, MergeStands

-----------------------------------------------------------------------------
(* A record of the page                                                     *)

LEMMA AdvancedVector ==
  ASSUME NEW m \in Engine, NEW ref \in [device : Id, seq : Nat, nth : Nat]
  PROVE  LET n == Advanced(m, ref)
         IN  /\ n.clock = m.clock
             /\ \A i \in Id : n.vector[i] = IF i # ref.device \/ ref.nth < Len(log[ref.device][ref.seq])
                                            THEN m.vector[i] ELSE Larger(m.vector[i], ref.seq)
<1> DEFINE vector == [m.vector EXCEPT ![ref.device] = Larger(@, ref.seq)]
           moved == [m EXCEPT !.vector = vector]
           n == Advanced(m, ref)
<1>1. m.vector \in [Id -> Nat] /\ ref.device \in Id
  BY DEF Engine
<1>2. \A i \in Id : vector[i] = IF i = ref.device THEN Larger(m.vector[i], ref.seq) ELSE m.vector[i]
  BY <1>1
<1> HIDE DEF vector
<1>3. moved.clock = m.clock /\ moved.vector = vector
  BY DEF Engine
<1>4. n = IF ref.nth < Len(log[ref.device][ref.seq]) THEN m ELSE moved
  BY DEF Advanced, vector
<1> HIDE DEF moved
<1> HIDE DEF n
<1>5. CASE ref.nth < Len(log[ref.device][ref.seq])
  BY <1>4, <1>5 DEF n
<1>6. CASE ~(ref.nth < Len(log[ref.device][ref.seq]))
  BY <1>2, <1>3, <1>4, <1>6 DEF n
<1> QED
  BY <1>5, <1>6

LEMMA ApplyRecordSkips ==
  ASSUME SkipInv, EngineInv', NEW d \in Install, ApplyRecord(d)
  PROVE  SkipInv'
<1>1. PICK ref \in inbox[d] :
        LET record == log[ref.device][ref.seq][ref.nth]
            applied == Apply(mem[d], store[d], record.key, record.env)
        IN  /\ \A r \in inbox[d] \ {ref} : Before(ref, r)
            /\ mem' = [mem EXCEPT ![d] = Advanced(applied.mem, ref)]
            /\ store' = [store EXCEPT ![d] = applied.store]
            /\ inbox' = [inbox EXCEPT ![d] = @ \ {ref}]
  BY ZenonT(60) DEF ApplyRecord
<1>2. pc[d] = "apply" /\ UNCHANGED <<kind, saved, backup, pc, log, unsaved, restores>>
  BY DEF ApplyRecord, counters
<1>3. /\ Types /\ InboxFiled /\ mem[d] \in Engine /\ store[d] \in Library /\ restores \in Nat /\ kind \in [Key -> Kind]
      /\ mem \in [Install -> Engine] /\ store \in [Install -> Library] /\ log \in [Id -> Seq(Seq(Record))]
      /\ inbox \in [Install -> SUBSET [device : Id, seq : Nat, nth : Nat]]
      /\ StateOK(mem[d], log, restores) /\ LogOK(log, restores)
  BY TypesOfAll DEF InstallOK, StatesOK, SkipInv, EngineInv, Types
<1>4. ResetsKnown(d) /\ PageOK(d)
  BY TypesOfAll DEF InstallOK
<1> DEFINE m == mem[d]
           record == log[ref.device][ref.seq][ref.nth]
           k == record.key
           env == record.env
           a == Apply(mem[d], store[d], record.key, record.env)
           n == Advanced(a.mem, ref)
<1>5. /\ mem' = [mem EXCEPT ![d] = n] /\ store' = [store EXCEPT ![d] = a.store]
      /\ inbox' = [inbox EXCEPT ![d] = @ \ {ref}] /\ \A r \in inbox[d] \ {ref} : Before(ref, r)
  BY <1>1
<1>6. \A x \in inbox[d] : /\ x \in [device : Id, seq : Nat, nth : Nat]
                          /\ x.seq \in 1..Len(log[x.device]) /\ x.nth \in DOMAIN log[x.device][x.seq]
  BY <1>3 DEF InboxFiled
<1>7. ASSUME NEW x \in inbox[d], NEW i \in 1..x.seq, NEW j \in 1..Len(log[x.device][i])
      PROVE  log[x.device][i][j] \in Record
  <2>1. log[x.device] \in Seq(Seq(Record)) /\ x.seq \in 1..Len(log[x.device])
    BY <1>3, <1>6
  <2>2. i \in 1..Len(log[x.device])
    BY <2>1
  <2>3. log[x.device][i] \in Seq(Record)
    BY <2>1, <2>2
  <2> QED
    BY <2>3
<1>8. /\ ref.device \in Id /\ ref.seq \in 1..Len(log[ref.device]) /\ ref.seq \in Nat /\ ref.nth \in Nat
      /\ ref.nth \in 1..Len(log[ref.device][ref.seq]) /\ Len(log[ref.device][ref.seq]) \in Nat /\ Len(log[ref.device]) \in Nat
  <2>1. log[ref.device] \in Seq(Seq(Record)) /\ ref.seq \in 1..Len(log[ref.device]) /\ ref.nth \in DOMAIN log[ref.device][ref.seq]
    BY <1>3, <1>6
  <2>2. log[ref.device][ref.seq] \in Seq(Record)
    BY <2>1
  <2> QED
    BY <1>6, <2>1, <2>2
<1>9. record \in Record /\ EnvelopeOK(env, restores)
  <2>1. ref.seq \in 1..ref.seq
    BY <1>8
  <2>2. record \in Record
    BY <1>7, <1>8, <2>1
  <2>3. EnvelopeOK(env, restores)
    BY <1>3, <1>8 DEF LogOK
  <2> QED
    BY <2>2, <2>3
<1>10. kind[k] = "progress" => ResetFiled(k, env.reset, log)
  BY <1>8 DEF ResetFiled
<1> HIDE DEF record
<1>11. k \in Key /\ env \in Version(k)
  BY <1>9 DEF Record
<1>12. /\ StampsOK(a.mem, restores)
       /\ \A r \in Record : Merged(m, store[d], r, log) => Merged(a.mem, a.store, r, log)
       /\ \A r \in Record : r.key = k /\ r.env = env => Merged(a.mem, a.store, r, log)
       /\ kind[k] = "progress" => a.mem.stamps[k].reset \in {m.stamps[k].reset, env.reset}
  BY <1>3, <1>9, <1>11, ApplyMerges DEF StateOK
<1>13. Applied(m, store[d], k, a)
  BY <1>3, <1>11, ApplyIs
<1> HIDE DEF a
<1>14. a.mem \in Engine /\ Same(a.mem, m) /\ a.mem.vector = m.vector /\ \A j \in Key \ {k} : a.mem.stamps[j] = m.stamps[j]
  BY <1>13 DEF Applied, Same
<1>15. /\ n \in Engine
       /\ n.device = a.mem.device /\ n.nextSeq = a.mem.nextSeq /\ n.pending = a.mem.pending /\ n.stamps = a.mem.stamps
       /\ n.dirty = a.mem.dirty
  BY <1>6, <1>14, AdvancedIs
<1>16. /\ n.clock = a.mem.clock
       /\ \A i \in Id : n.vector[i] = IF i # ref.device \/ ref.nth < Len(log[ref.device][ref.seq])
                                      THEN m.vector[i] ELSE Larger(m.vector[i], ref.seq)
  BY <1>6, <1>14, AdvancedVector
<1> HIDE DEF n
<1> HIDE DEF k
<1> HIDE DEF env
<1>17. mem'[d] = n /\ store'[d] = a.store /\ inbox'[d] = inbox[d] \ {ref}
       /\ \A e \in Install \ {d} : mem'[e] = mem[e] /\ store'[e] = store[e] /\ inbox'[e] = inbox[e]
  BY <1>3, <1>5
<1>18. \A r : Merged(n, a.store, r, log) <=> Merged(a.mem, a.store, r, log)
  BY <1>15 DEF Merged
<1>19. Merged(n, a.store, record, log)
  BY <1>9, <1>12, <1>18 DEF k, env
<1>20. m.vector \in [Id -> Nat] /\ n.vector \in [Id -> Nat] /\ m.device \in Id /\ m.nextSeq \in Nat
  BY <1>3, <1>15, TypesOfAll DEF Engine
<1>21. StateOK(n, log, restores)
  <2>1. StampsOK(n, restores)
    BY <1>12, <1>15, <1>16 DEF StampsOK
  <2>2. \A i \in Id : m.vector[i] <= n.vector[i] /\ n.vector[i] <= Len(log[i])
    <3>1. \A i \in Id : m.vector[i] \in Nat /\ m.vector[i] <= Len(log[i])
      BY <1>3, <1>20 DEF StateOK, VectorOK
    <3> QED
      BY <1>8, <1>16, <3>1 DEF Larger
  <2>3. n.device = m.device /\ n.nextSeq = m.nextSeq /\ n.pending = m.pending
    BY <1>14, <1>15 DEF Same
  <2>4. n.nextSeq - 1 <= n.vector[n.device] + (IF n.pending = <<>> THEN 0 ELSE 1)
    <3>1. m.nextSeq - 1 <= m.vector[m.device] + (IF m.pending = <<>> THEN 0 ELSE 1)
      <4>1. m.device # 0
        BY TypesOfAll
      <4> QED
        BY <1>3, <4>1 DEF StateOK, VectorOK
    <3>2. m.vector[m.device] \in Nat /\ n.vector[m.device] \in Nat /\ m.vector[m.device] <= n.vector[m.device]
      BY <1>20, <2>2
    <3> QED
      BY <1>20, <2>3, <3>1, <3>2
  <2> QED
    BY <2>1, <2>2, <2>4 DEF StateOK, VectorOK
<1>22. ASSUME NEW i \in 1..ref.seq, NEW j \in 1..Len(log[ref.device][i]), i < ref.seq \/ j <= ref.nth
       PROVE  Merged(n, a.store, log[ref.device][i][j], log)
  <2>1. CASE i < ref.seq \/ j < ref.nth
    <3>1. ~\E other \in inbox[d] : other.device = ref.device /\ other.seq = i /\ other.nth = j
      <4> SUFFICES ASSUME NEW other \in inbox[d], other.device = ref.device, other.seq = i, other.nth = j PROVE FALSE
        OBVIOUS
      <4>1. i \in Nat /\ j \in Nat
        BY <1>6
      <4>2. other # ref
        BY <1>8, <2>1, <4>1
      <4>3. Before(ref, other)
        BY <1>5, <4>2
      <4> QED
        BY <1>8, <2>1, <4>1, <4>3 DEF Before, SegmentBefore
    <3>2. Merged(m, store[d], log[ref.device][i][j], log)
      BY <1>2, <1>4, <2>1, <3>1 DEF PageOK
    <3> QED
      BY <1>7, <1>12, <1>18, <3>2
  <2>2. CASE ~(i < ref.seq \/ j < ref.nth)
    <3>1. i = ref.seq
      BY <1>8, <2>2
    <3>2. j = ref.nth
      BY <1>8, <1>22, <2>2, <3>1
    <3> QED
      BY <1>19, <3>1, <3>2 DEF record
  <2> QED
    BY <2>1, <2>2
<1>23. ASSUME NEW r \in Record, Counts(n, r, log) PROVE Counts(m, r, log) \/ Merged(n, a.store, r, log)
  <2>1. CASE \E j \in 1..Len(n.pending) : r = n.pending[j]
    BY <1>14, <1>15, <2>1 DEF Counts, Same
  <2>2. CASE \E i \in Id : \E x \in 1..n.vector[i] : \E j \in 1..Len(log[i][x]) : r = log[i][x][j]
    <3>1. PICK i \in Id : \E x \in 1..n.vector[i] : \E j \in 1..Len(log[i][x]) : r = log[i][x][j]
      BY <2>2
    <3>2. PICK x \in 1..n.vector[i] : \E j \in 1..Len(log[i][x]) : r = log[i][x][j]
      BY <3>1
    <3>3. PICK j \in 1..Len(log[i][x]) : r = log[i][x][j]
      BY <3>2
    <3>4. m.vector[i] \in Nat /\ n.vector[i] \in Nat
      BY <1>20
    <3>5. CASE x <= m.vector[i]
      <4>1. x \in 1..m.vector[i]
        BY <3>4, <3>5
      <4> QED
        BY <3>3, <4>1 DEF Counts
    <3>6. CASE ~(x <= m.vector[i])
      <4>1. i = ref.device /\ ~(ref.nth < Len(log[ref.device][ref.seq])) /\ n.vector[i] = Larger(m.vector[i], ref.seq)
        BY <1>16, <3>4, <3>6
      <4>2. x \in 1..ref.seq
        BY <1>8, <3>4, <3>6, <4>1 DEF Larger
      <4>3. x < ref.seq \/ j <= ref.nth
        BY <1>8, <4>1, <4>2
      <4> QED
        BY <1>22, <3>3, <4>1, <4>2, <4>3
    <3> QED
      BY <3>5, <3>6
  <2> QED
    BY <1>23, <2>1, <2>2 DEF Counts
<1>24. PageOK(d)'
  <2> SUFFICES ASSUME NEW x \in inbox'[d], NEW i \in 1..x.seq, NEW j \in 1..Len(log[x.device][i]), i < x.seq \/ j < x.nth
               PROVE  \/ \E other \in inbox'[d] : other.device = x.device /\ other.seq = i /\ other.nth = j
                      \/ Merged(mem'[d], store'[d], log[x.device][i][j], log)
    BY <1>2 DEF PageOK
  <2>1. x \in inbox[d]
    BY <1>17
  <2>2. log[x.device][i][j] \in Record
    BY <1>7, <2>1
  <2>3. CASE Merged(m, store[d], log[x.device][i][j], log)
    BY <1>12, <1>17, <1>18, <2>2, <2>3
  <2>4. CASE \E other \in inbox[d] : other.device = x.device /\ other.seq = i /\ other.nth = j
    <3>1. PICK other \in inbox[d] : other.device = x.device /\ other.seq = i /\ other.nth = j
      BY <2>4
    <3>2. CASE other = ref
      <4>1. log[x.device][i][j] = record
        BY <3>1, <3>2 DEF record
      <4> QED
        BY <1>17, <1>19, <4>1
    <3>3. CASE other # ref
      BY <1>17, <3>1, <3>3
    <3> QED
      BY <3>2, <3>3
  <2> QED
    BY <1>2, <1>4, <2>1, <2>3, <2>4 DEF PageOK
<1>25. ResetsKnown(d)'
  <2> SUFFICES ASSUME NEW j \in Key, kind[j] = "progress"
               PROVE  \/ j \in unsaved[d]
                      \/ mem'[d].stamps[j].reset = saved[d].stamps[j].reset
                      \/ ResetFiled(j, mem'[d].stamps[j].reset, log)
    BY <1>2 DEF ResetsKnown
  <2>1. \/ j \in unsaved[d]
        \/ m.stamps[j].reset = saved[d].stamps[j].reset
        \/ ResetFiled(j, m.stamps[j].reset, log)
    BY <1>4 DEF ResetsKnown
  <2>2. mem'[d].stamps[j] = a.mem.stamps[j]
    BY <1>15, <1>17
  <2>3. CASE j = k
    BY <1>10, <1>12, <2>1, <2>2, <2>3
  <2>4. CASE j # k
    BY <1>14, <2>1, <2>2, <2>4
  <2> QED
    BY <2>3, <2>4
<1>26. \A r \in Record : Merged(mem[d], store[d], r, log) => Merged(mem'[d], store'[d], r, log)
  BY <1>12, <1>17, <1>18
<1>27. \A r \in Record : Counts(mem'[d], r, log) => Counts(mem[d], r, log) \/ Merged(mem'[d], store'[d], r, log)
  BY <1>17, <1>23
<1> QED
  BY <1>2, <1>15, <1>17, <1>21, <1>24, <1>25, <1>26, <1>27, MergeStands

-----------------------------------------------------------------------------
(* Stopping, starting again, and being put back                             *)

LEMMA FreshSkips ==
  ASSUME log \in [Id -> Seq(Seq(Record))], NEW id \in Id \cup {0}, NEW now \in Nat
  PROVE  /\ StateOK(Fresh(id), log, now)
         /\ \A r : ~Counts(Fresh(id), r, log)
         /\ \A k \in Key : Fresh(id).stamps[k] = Unstamped
<1> DEFINE n == Fresh(id)
<1>1. /\ n.device = id /\ n.clock = NewClock(id, NoStamp) /\ n.nextSeq = 1 /\ n.pending = <<>> /\ n.dirty = {}
      /\ n.vector = [i \in Id |-> 0] /\ n.stamps = [k \in Key |-> Unstamped]
  BY DEF Fresh
<1> HIDE DEF n
<1>2. /\ \A i \in Id : n.vector[i] = 0 /\ Len(log[i]) \in Nat
      /\ \A k \in Key : n.stamps[k].hlc = NoStamp /\ n.stamps[k].reset = NoStamp
      /\ Len(n.pending) = 0
  BY <1>1 DEF Unstamped
<1>3. n.clock.physical = 0 /\ n.clock.counter = 0
  BY <1>1 DEF NewClock, At, NoStamp
<1>4. NoStamp.physical = 0 /\ NoStamp.counter = 0
  BY DEF NoStamp
<1>5. StampsOK(n, now)
  BY <1>1, <1>2, <1>3, <1>4 DEF StampsOK, Reached
<1>6. VectorOK(n, log)
  BY <1>1, <1>2 DEF VectorOK
<1>7. ASSUME NEW r, Counts(n, r, log) PROVE FALSE
  BY <1>2, <1>7 DEF Counts
<1> QED
  BY <1>1, <1>5, <1>6, <1>7 DEF StateOK, n

\* With no change since the snapshot, what the snapshot counts is merged by its own stamps.
LEMMA SavedMerged ==
  ASSUME SkipInv, NEW d \in Install, unsaved[d] = {}, NEW r \in Record, Counts(saved[d], r, log)
  PROVE  Merged(saved[d], store[d], r, log)
<1> DEFINE old == mem[d].stamps[r.key]
           new == saved[d].stamps[r.key]
<1>1. CountedMerged(d) /\ ResetsKnown(d) /\ mem[d].stamps \in [Key -> Stamped] /\ saved[d].stamps \in [Key -> Stamped]
  BY TypesOfAll DEF InstallOK
<1>2. Merged(mem[d], store[d], r, log) /\ Covered(new, r)
  BY <1>1 DEF CountedMerged
<1>3. r.key \in Key /\ r.env.kind = kind[r.key]
  BY RecordIs
<1>4. Shows(new, store[d][r.key], r, log)
  <2>1. CASE kind[r.key] = "progress"
    <3>1. \/ Earlier(r.env.reset, old.reset) \/ Rewinds(r.key, r.env.reset, log)
          \/ Further(PositionOf(store[d][r.key]), r.env.value) = PositionOf(store[d][r.key])
      BY <1>2, <1>3, <2>1 DEF Merged, Shows
    <3>2. old.reset = new.reset \/ ResetFiled(r.key, old.reset, log)
      BY <1>1, <1>3, <2>1 DEF ResetsKnown
    <3>3. Earlier(r.env.reset, old.reset) /\ ResetFiled(r.key, old.reset, log) => Rewinds(r.key, r.env.reset, log)
      BY DEF ResetFiled, Rewinds
    <3>4. r.env.kind # "event"
      BY <1>3, <2>1
    <3> QED
      BY <3>1, <3>2, <3>3, <3>4 DEF Shows
  <2>2. CASE kind[r.key] # "progress"
    BY <1>2, <1>3, <2>2 DEF Merged, Shows
  <2> QED
    BY <2>1, <2>2
<1> QED
  BY <1>2, <1>4 DEF Merged

LEMMA CrashSkips ==
  ASSUME SkipInv, EngineInv', ~LoseTouches, NEW d \in Install, Crash(d)
  PROVE  SkipInv'
<1>1. /\ Types /\ EngineInv /\ saved[d] \in Engine /\ restores \in Nat /\ log \in [Id -> Seq(Seq(Record))]
      /\ pc \in [Install -> {"idle", "pull", "apply", "send"}]
      /\ inbox \in [Install -> SUBSET [device : Id, seq : Nat, nth : Nat]]
  BY TypesOfAll DEF SkipInv, EngineInv, Types
<1>2. /\ Boots(d, saved[d]) /\ unsaved[d] = {}
      /\ UNCHANGED <<kind, store, saved, backup, log, restores>>
  BY DEF Crash
<1>3. /\ unsaved'[d] = {}
      /\ \A e \in Install \ {d} : mem'[e] = mem[e] /\ unsaved'[e] = unsaved[e]
      /\ \/ saved[d].device # 0 /\ mem'[d] = saved[d]
         \/ saved[d].device = 0 /\ nextId \in Id /\ mem'[d] = Fresh(nextId)
  BY <1>1, <1>2, BootsIs
<1>4. pc'[d] = "idle" /\ \A e \in Install \ {d} : pc'[e] = pc[e] /\ inbox'[e] = inbox[e]
  BY <1>1, <1>2 DEF Boots
<1>5. Onward /\ LogOK(log', restores')
  BY <1>2, SameLog, TypesOfAll
<1>6. StatesOK(d) /\ CountedMerged(d)
  BY TypesOfAll DEF InstallOK
<1>7. /\ StateOK(mem'[d], log, restores)
      /\ \A r \in Record : Counts(mem'[d], r, log) => Merged(mem'[d], store[d], r, log)
      /\ \A r \in Record : Counts(saved[d], r, log) =>
           Merged(mem'[d], store[d], r, log) /\ Covered(saved[d].stamps[r.key], r)
      /\ \A k \in Key : mem'[d].stamps[k].reset = saved[d].stamps[k].reset
  <2>1. CASE saved[d].device # 0
    <3>1. mem'[d] = saved[d]
      BY <1>3, <2>1
    <3>2. \A r \in Record : Counts(saved[d], r, log) => Merged(saved[d], store[d], r, log)
      BY <1>2, SavedMerged
    <3> QED
      BY <1>6, <3>1, <3>2 DEF StatesOK, Merged
  <2>2. CASE saved[d].device = 0
    <3>1. nextId \in Id /\ mem'[d] = Fresh(nextId) /\ saved[d] = Fresh(0)
      BY <1>3, <1>6, <2>2 DEF StatesOK
    <3>2. /\ StateOK(Fresh(nextId), log, restores) /\ \A r : ~Counts(Fresh(nextId), r, log)
          /\ \A k \in Key : Fresh(nextId).stamps[k] = Unstamped
      BY <1>1, <3>1, FreshSkips
    <3>3. (\A r : ~Counts(Fresh(0), r, log)) /\ \A k \in Key : Fresh(0).stamps[k] = Unstamped
      BY <1>1, FreshSkips
    <3> QED
      BY <3>1, <3>2, <3>3
  <2> QED
    BY <2>1, <2>2
<1>8. ResetsKnown(d)'
  BY <1>2, <1>7 DEF ResetsKnown
<1>9. PageOK(d)'
  BY <1>4 DEF PageOK
<1>10. /\ StateOK(saved'[d], log', restores') /\ \A b \in backup'[d] : StateOK(b.state, log', restores')
       /\ saved'[d].device = 0 => saved'[d] = Fresh(0)
  BY <1>2, <1>6 DEF StatesOK
<1>11. \A r \in Record : \A b \in backup'[d] : Counts(b.state, r, log') => Merged(b.state, b.store, r, log')
  BY <1>2, <1>6 DEF CountedMerged
<1>12. InstallOK(d)'
  BY <1>2, <1>5, <1>7, <1>8, <1>9, <1>10, <1>11, InstallIs DEF Onward
<1> QED
  BY <1>2, <1>3, <1>4, <1>5, <1>12, OneMoves

LEMMA BackupSkips ==
  ASSUME SkipInv, EngineInv', NEW d \in Install, Backup(d)
  PROVE  SkipInv'
<1> DEFINE copy == [state |-> saved[d], store |-> store[d]]
<1>1. /\ backup' = [backup EXCEPT ![d] = {copy}] /\ unsaved[d] = {} /\ pc[d] = "idle"
      /\ UNCHANGED <<kind, store, mem, saved, pc, inbox, log, unsaved, restores>>
  BY DEF Backup, host, ghosts, counters
<1>2. Types
  BY DEF SkipInv, EngineInv
<1>3. \A b \in {copy} : b.state = saved[d] /\ b.store = store[d]
  OBVIOUS
<1> HIDE DEF copy
<1>4. backup'[d] = {copy} /\ \A e \in Install \ {d} : backup'[e] = backup[e]
  BY <1>1, <1>2 DEF Types
<1>5. Onward /\ LogOK(log', restores')
  BY <1>1, SameLog, TypesOfAll
<1>6. StatesOK(d) /\ CountedMerged(d) /\ ResetsKnown(d)
  BY TypesOfAll DEF InstallOK
<1>7. /\ StateOK(mem'[d], log', restores') /\ StateOK(saved'[d], log', restores')
      /\ \A b \in backup'[d] : StateOK(b.state, log', restores')
      /\ saved'[d].device = 0 => saved'[d] = Fresh(0)
  BY <1>1, <1>3, <1>4, <1>6 DEF StatesOK
<1>8. \A r \in Record : Counts(saved[d], r, log) => Merged(saved[d], store[d], r, log)
  BY <1>1, SavedMerged
<1>9. ASSUME NEW r \in Record
      PROVE  /\ Counts(mem'[d], r, log') => Merged(mem'[d], store'[d], r, log')
             /\ Counts(saved'[d], r, log') => Merged(mem'[d], store'[d], r, log') /\ Covered(saved'[d].stamps[r.key], r)
             /\ \A b \in backup'[d] : Counts(b.state, r, log') => Merged(b.state, b.store, r, log')
  BY <1>1, <1>3, <1>4, <1>6, <1>8 DEF CountedMerged
<1>10. ResetsKnown(d)' /\ PageOK(d)'
  BY <1>1, <1>6 DEF ResetsKnown, PageOK
<1>11. InstallOK(d)'
  BY <1>5, <1>7, <1>9, <1>10, InstallIs DEF Onward
<1> QED
  BY <1>1, <1>4, <1>5, <1>11, OneMoves

LEMMA RestoreSkips ==
  ASSUME SkipInv, EngineInv', NEW d \in Install, Restore(d)
  PROVE  SkipInv'
<1>1. PICK b \in backup[d] :
        /\ Boots(d, b.state)
        /\ saved' = [saved EXCEPT ![d] = b.state]
        /\ store' = [store EXCEPT ![d] = b.store]
  BY DEF Restore
<1>2. restores' = restores + 1 /\ UNCHANGED <<kind, backup, log>>
  BY DEF Restore
<1>3. /\ Types /\ EngineInv /\ b.state \in Engine /\ b.store \in Library /\ b.state.device # 0
      /\ saved \in [Install -> Engine] /\ store \in [Install -> Library]
      /\ restores \in Nat /\ log \in [Id -> Seq(Seq(Record))]
      /\ pc \in [Install -> {"idle", "pull", "apply", "send"}]
      /\ inbox \in [Install -> SUBSET [device : Id, seq : Nat, nth : Nat]]
      /\ StatesOK(d) /\ CountedMerged(d) /\ LogOK(log, restores)
  BY TypesOfAll DEF SkipInv, EngineInv, Types, Numbers, InstallOK
<1>4. \A e \in Install \ {d} : mem'[e] = mem[e] /\ unsaved'[e] = unsaved[e]
  BY <1>1, <1>3, BootsIs
<1>5. mem'[d] = b.state
  BY <1>1, <1>3, BootsIs
<1>6. pc'[d] = "idle" /\ \A e \in Install \ {d} : pc'[e] = pc[e] /\ inbox'[e] = inbox[e]
  BY <1>1, <1>3 DEF Boots
<1>7. saved'[d] = b.state /\ store'[d] = b.store /\ \A e \in Install \ {d} : saved'[e] = saved[e] /\ store'[e] = store[e]
  BY <1>1, <1>3
<1>8. restores' \in Nat /\ restores <= restores'
  BY <1>2, <1>3
<1>9. Onward
  <2>1. Record' = Record
    BY <1>2 DEF Record, Version
  <2>2. \A i \in Id : Len(log[i]) <= Len(log[i])
    BY <1>3
  <2> QED
    BY <1>2, <1>3, <1>8, <2>1, <2>2 DEF Onward, Grown
<1>10. LogOK(log', restores')
  <2> SUFFICES ASSUME NEW i \in Id, NEW n \in 1..Len(log[i]), NEW j \in 1..Len(log[i][n])
               PROVE  EnvelopeOK(log[i][n][j].env, restores')
    BY <1>2 DEF LogOK
  <2>1. log[i] \in Seq(Seq(Record))
    BY <1>3
  <2>2. log[i][n] \in Seq(Record)
    BY <2>1
  <2>3. log[i][n][j] \in Record
    BY <2>2
  <2>4. log[i][n][j].env.hlc \in Stamp
    BY <2>3, RecordIs
  <2>5. log[i][n][j].env.hlc.physical \in Nat
    BY <2>4 DEF Stamp
  <2>6. EnvelopeOK(log[i][n][j].env, restores)
    BY <1>3 DEF LogOK
  <2> QED
    BY <1>3, <1>8, <2>5, <2>6 DEF EnvelopeOK
<1>11. /\ \A m \in Engine : StateOK(m, log, restores) => StateOK(m, log', restores')
       /\ \A x \in backup[d] : x.state \in Engine
  BY <1>3, <1>9, GrownKeeps, TypesOfAll DEF Onward
<1>12. /\ StateOK(b.state, log', restores')
       /\ \A x \in backup'[d] : StateOK(x.state, log', restores')
  BY <1>2, <1>3, <1>11 DEF StatesOK
<1>13. ASSUME NEW r \in Record
       PROVE  /\ Counts(b.state, r, log') => Merged(b.state, b.store, r, log') /\ Covered(b.state.stamps[r.key], r)
              /\ \A x \in backup'[d] : Counts(x.state, r, log') => Merged(x.state, x.store, r, log')
  BY <1>2, <1>3 DEF CountedMerged, Merged
<1>14. ResetsKnown(d)' /\ PageOK(d)'
  BY <1>5, <1>6, <1>7 DEF ResetsKnown, PageOK
<1>15. InstallOK(d)'
  BY <1>3, <1>5, <1>7, <1>9, <1>12, <1>13, <1>14, InstallIs DEF Onward
<1>16. backup' = backup
  BY <1>2
<1> QED
  BY <1>4, <1>6, <1>7, <1>9, <1>10, <1>15, <1>16, OneMoves

-----------------------------------------------------------------------------
(* Nothing is skipped                                                       *)

LEMMA SkipStarts == Init => SkipInv
<1> SUFFICES ASSUME Init PROVE SkipInv
  OBVIOUS
<1>1. /\ mem = [d \in Install |-> Fresh(d)] /\ saved = [d \in Install |-> Fresh(0)] /\ backup = [d \in Install |-> {}]
      /\ pc = [d \in Install |-> "idle"] /\ log = [i \in Id |-> <<>>] /\ restores = 0
  BY DEF Init
<1>2. EngineInv /\ Install \subseteq Id
  BY Starts, EngineAssumption
<1>3. log \in [Id -> Seq(Seq(Record))] /\ restores \in Nat
  BY <1>2 DEF EngineInv, Types
<1>4. LogOK(log, restores)
  BY <1>1 DEF LogOK
<1>5. ASSUME NEW d \in Install PROVE InstallOK(d)
  <2>1. mem[d] = Fresh(d) /\ saved[d] = Fresh(0) /\ backup[d] = {} /\ pc[d] = "idle"
    BY <1>1
  <2>2. /\ StateOK(Fresh(d), log, restores) /\ \A r : ~Counts(Fresh(d), r, log)
        /\ \A k \in Key : Fresh(d).stamps[k] = Unstamped
    BY <1>2, <1>3, FreshSkips
  <2>3. /\ StateOK(Fresh(0), log, restores) /\ \A r : ~Counts(Fresh(0), r, log)
        /\ \A k \in Key : Fresh(0).stamps[k] = Unstamped
    BY <1>3, FreshSkips
  <2>4. StatesOK(d)
    BY <2>1, <2>2, <2>3 DEF StatesOK
  <2>5. CountedMerged(d)
    BY <2>1, <2>2, <2>3 DEF CountedMerged
  <2>6. ResetsKnown(d) /\ PageOK(d)
    BY <2>1, <2>2, <2>3 DEF ResetsKnown, PageOK
  <2> QED
    BY <2>4, <2>5, <2>6 DEF InstallOK
<1> QED
  BY <1>2, <1>4, <1>5 DEF SkipInv

LEMMA SkipsKeep == ASSUME ~LoseTouches PROVE SkipInv /\ [Next]_vars => SkipInv'
<1> SUFFICES ASSUME SkipInv, [Next]_vars PROVE SkipInv'
  OBVIOUS
<1>1. EngineInv'
  BY StepsKeep DEF SkipInv
<1>2. CASE UNCHANGED vars
  <2>1. UNCHANGED <<kind, store, mem, saved, backup, pc, inbox, log, unsaved, restores>>
    BY <1>2 DEF vars, host, ghosts, counters
  <2>2. Onward /\ LogOK(log', restores')
    BY <2>1, SameLog, TypesOfAll
  <2>3. \A d \in Install : InstallOK(d)'
    BY <2>1, <2>2, InstallStands
  <2> QED
    BY <1>1, <2>2, <2>3 DEF SkipInv
<1>3. ASSUME NEW d \in Install,
             \/ UserWrites(d)
             \/ Pull(d) \/ ApplyRecord(d) \/ PersistPage(d)
             \/ Build(d) \/ Push(d) \/ ContinueAsNew(d) \/ Finish(d)
             \/ Adopt(d)
             \/ PushUnheard(d) \/ RoundFails(d) \/ Crash(d) \/ Backup(d) \/ Restore(d)
      PROVE  SkipInv'
  BY <1>1, <1>3, UserWritesSkip, PullSkips, ApplyRecordSkips, PersistPageSkips, BuildSkips, PushSkips, ContinueAsNewSkips, FinishSkips,
     AdoptSkips, PushUnheardSkips, RoundFailsSkips, CrashSkips, BackupSkips, RestoreSkips
<1> QED
  BY <1>2, <1>3 DEF Next, Round

LEMMA CountedIsTakenIn ==
  ASSUME SkipInv, NEW d \in Install, NEW r \in Record, Counts(saved[d], r, log)
  PROVE  TakenIn(d, r.key, r.env)
<1> DEFINE k == r.key
           env == r.env
           stamp == saved[d].stamps[k]
           old == mem[d].stamps[k]
<1>1. Merged(mem[d], store[d], r, log) /\ Covered(stamp, r) /\ log \in [Id -> Seq(Seq(Record))]
  BY TypesOfAll DEF InstallOK, CountedMerged
<1>2. env.kind = kind[k] /\ kind[k] \in {"register", "event", "progress"}
  BY RecordIs, TypesOfAll DEF Kind
<1>3. CASE kind[k] = "register"
  BY <1>1, <1>2, <1>3 DEF TakenIn, Covered
<1>4. CASE kind[k] = "event"
  BY <1>1, <1>2, <1>4 DEF TakenIn, Covered, Merged, Shows
<1>5. CASE kind[k] = "progress"
  <2>1. Earlier(env.reset, old.reset) \/ Rewinds(k, env.reset, log)
        \/ Further(PositionOf(store[d][k]), env.value) = PositionOf(store[d][k])
    BY <1>1, <1>2, <1>5 DEF Merged, Shows
  <2>2. Shown(d, k) = PositionOf(store[d][k])
    BY <1>5 DEF Shown, PositionOf
  <2>3. ASSUME Rewinds(k, env.reset, log) PROVE Rewound(d, k, env)
    <3>1. PICK i \in Id : \E n \in 1..Len(log[i]) : \E j \in 1..Len(log[i][n]) :
                            log[i][n][j].key = k /\ Earlier(env.reset, log[i][n][j].env.reset)
      BY <2>3 DEF Rewinds
    <3>2. PICK n \in 1..Len(log[i]) : \E j \in 1..Len(log[i][n]) :
                            log[i][n][j].key = k /\ Earlier(env.reset, log[i][n][j].env.reset)
      BY <3>1
    <3>3. log[i] \in Seq(Seq(Record))
      BY <1>1
    <3>4. log[i][n] \in Seq(Record)
      BY <3>3
    <3>5. DOMAIN log[i] = 1..Len(log[i]) /\ DOMAIN log[i][n] = 1..Len(log[i][n])
      BY <3>3, <3>4
    <3> QED
      BY <3>2, <3>5 DEF Rewound
  <2>4. Rewound(d, k, env) \/ Further(Shown(d, k), env.value) = Shown(d, k)
    BY <2>1, <2>2, <2>3 DEF Rewound
  <2> QED
    BY <1>5, <2>4 DEF TakenIn
<1> QED
  BY <1>2, <1>3, <1>4, <1>5

(***************************************************************************)
(* A snapshot's vector counts only what the store has taken in, through    *)
(* every loss, stop and restored backup (engine.ts:7-8), as long as the    *)
(* process does not stop before a change it has recorded is in a snapshot  *)
(* (sync-host.ts:58-61).                                                   *)
(***************************************************************************)
THEOREM NothingIsSkipped == ASSUME ~LoseTouches PROVE Spec => []NothingSkipped
<1>1. SkipInv => NothingSkipped
  <2> SUFFICES ASSUME SkipInv, NEW d \in Install, NEW i \in Id, NEW n \in 1..saved[d].vector[i], NEW r \in DOMAIN log[i][n]
               PROVE  TakenIn(d, log[i][n][r].key, log[i][n][r].env)
    BY DEF NothingSkipped
  <2>1. log[i] \in Seq(Seq(Record)) /\ saved[d].vector[i] \in Nat
    BY TypesOfAll DEF Engine
  <2>2. saved[d].vector[i] <= Len(log[i])
    BY TypesOfAll DEF InstallOK, StatesOK, StateOK, VectorOK
  <2>3. log[i][n] \in Seq(Record)
    BY <2>1, <2>2
  <2>4. log[i][n][r] \in Record /\ r \in 1..Len(log[i][n])
    BY <2>3
  <2>5. Counts(saved[d], log[i][n][r], log)
    BY <2>4 DEF Counts
  <2> QED
    BY <2>4, <2>5, CountedIsTakenIn
<1> QED
  BY <1>1, SkipStarts, SkipsKeep, PTL DEF Spec
=============================================================================
