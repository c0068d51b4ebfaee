------------------------- MODULE NetworkAndStores_proofs -------------------------
(***************************************************************************)
(* Proofs about what carries and keeps data: the gated network that        *)
(* requests go through, and the stores documents are kept in.              *)
(*                                                                         *)
(* The gated network, for any callers, paces, quotas and waits: its types, *)
(* and that the limiters move on (LimiterMoves): a request that waits has  *)
(* a timer or a release that will start it, and a place in flight is a     *)
(* request that was sent and not answered.  Neither half is inductive      *)
(* without the other fact the code relies on and never states: who waits   *)
(* in which queue (InQueues).  A caller is in the queue its request stands *)
(* at, once, so a start that is taken off a queue is one more request in   *)
(* flight.                                                                 *)
(*                                                                         *)
(* The stores: each keeps what it acknowledged (AckedKept) and answers no  *)
(* call with less than was acknowledged when it was made (ReadsCurrent),   *)
(* for every kind of store, any keys and clients, and any number of calls, *)
(* crashes, errors and damages.  A native file's calls must not overlap,   *)
(* nor the process stop inside its write: with either neither holds.       *)
(*                                                                         *)
(* AckedKept is not inductive: a file becomes what a task writes, and what *)
(* that is was decided when the task began.  The invariant says what the   *)
(* tasks of a path's queue are worth: each one's version is later than     *)
(* what was acknowledged and than those before it, and what it writes will *)
(* be the document as it is then, its own change included.                 *)
(***************************************************************************)
EXTENDS GatedNetwork, DocumentStore, FiniteSetTheorems, TLAPS

Distinct(q) == \A i, j \in 1..Len(q) : q[i] = q[j] => i = j
Holds(q, S) == Distinct(q) /\ ToSet(q) = S
At(rs, place) == {c \in Caller : rs[c].pc = place}

LimiterWakes(l) == l.queue # <<>> /\ l.active < l.max => l.timer # None
RouteWakes(w) == w.queue # <<>> => w.timer # None

\* Who waits in which queue.
InQueues(l, w, rs) ==
  /\ Holds(l.queue, At(rs, "queued"))
  /\ w = None => At(rs, "window") = {} /\ \A c \in Caller : ~rs[c].routed
  /\ w # None => Holds(w.queue, At(rs, "window"))

GateOK(l, w, rs) ==
  /\ l \in RateLimiter /\ w \in WindowLimiter \cup {None} /\ rs \in [Caller -> Request]
  /\ w # None => w.limit > 0 /\ RouteWakes(w)
  /\ LimiterWakes(l) /\ InQueues(l, w, rs)
  /\ IsFiniteSet(Sent(rs))

GateInv == GateOK(limiter, route, req) /\ limiter.active = Cardinality(Sent(req)) /\ backoff \in Nat

-----------------------------------------------------------------------------
(* Queues of distinct callers                                               *)

LEMMA SetOf ==
  ASSUME NEW S, NEW q \in Seq(S)
  PROVE  ToSet(q) = {q[i] : i \in 1..Len(q)}
<1>1. DOMAIN q = 1..Len(q)
  OBVIOUS
<1> QED
  BY <1>1 DEF ToSet

LEMMA AppendHolds ==
  ASSUME NEW q \in Seq(Caller), NEW S, Holds(q, S), NEW c \in Caller, c \notin S
  PROVE  Append(q, c) \in Seq(Caller) /\ Holds(Append(q, c), S \cup {c})
<1> DEFINE p == Append(q, c)
<1>1. /\ p \in Seq(Caller) /\ Len(p) = Len(q) + 1 /\ Len(q) \in Nat /\ p[Len(q) + 1] = c
      /\ \A i \in 1..Len(q) : p[i] = q[i]
  OBVIOUS
<1> HIDE DEF p
<1>2. \A i \in 1..Len(q) : q[i] \in S
  BY DEF Holds, ToSet
<1>3. Distinct(p)
  BY <1>1, <1>2 DEF Distinct, Holds
<1>4. \A x \in ToSet(p) : x \in S \cup {c}
  BY <1>1, <1>2 DEF ToSet
<1>5. \A x \in S : \E i \in 1..Len(q) : q[i] = x
  BY DEF Holds, ToSet
<1>6. \A x \in S \cup {c} : \E i \in 1..Len(p) : p[i] = x
  BY <1>1, <1>5
<1>7. ToSet(p) = S \cup {c}
  BY <1>1, <1>4, <1>6 DEF ToSet
<1> QED
  BY <1>1, <1>3, <1>7 DEF p, Holds

\* A queue cut in two: the callers before the cut and those after it.
LEMMA CutHolds ==
  ASSUME NEW q \in Seq(Caller), NEW S, Holds(q, S), NEW n \in 0..Len(q)
  PROVE  LET front == SubSeq(q, 1, n)
             back == SubSeq(q, n + 1, Len(q))
         IN  /\ front \in Seq(Caller) /\ back \in Seq(Caller)
             /\ Distinct(front) /\ Holds(back, S \ ToSet(front)) /\ ToSet(front) \subseteq S
             /\ IsFiniteSet(ToSet(front)) /\ Cardinality(ToSet(front)) = n
             /\ Len(front) = n
<1> DEFINE front == SubSeq(q, 1, n)
           back == SubSeq(q, n + 1, Len(q))
<1>1. /\ front \in Seq(Caller) /\ Len(front) = n /\ Len(q) \in Nat /\ n \in Nat
      /\ \A i \in 1..n : front[i] = q[i]
  OBVIOUS
<1>2. /\ back \in Seq(Caller) /\ Len(back) = Len(q) - n
      /\ \A i \in 1..Len(q) - n : back[i] = q[i + n]
  OBVIOUS
<1> HIDE DEF front
<1> HIDE DEF back
<1>3. Distinct(front) /\ Distinct(back)
  <2>1. \A i, j \in 1..Len(q) : q[i] = q[j] => i = j
    BY DEF Distinct, Holds
  <2>2. Distinct(front)
    BY <1>1, <2>1 DEF Distinct
  <2>3. ASSUME NEW i \in 1..Len(back), NEW j \in 1..Len(back), back[i] = back[j] PROVE i = j
    <3>1. i + n \in 1..Len(q) /\ j + n \in 1..Len(q) /\ q[i + n] = q[j + n]
      BY <1>1, <1>2, <2>3
    <3>2. i + n = j + n
      BY <2>1, <3>1
    <3> QED
      BY <1>1, <1>2, <3>2
  <2> QED
    BY <2>2, <2>3 DEF Distinct
<1>4. S = {q[i] : i \in 1..Len(q)}
  BY DEF Holds, ToSet
<1>5. ToSet(front) = {q[i] : i \in 1..n}
  BY <1>1 DEF ToSet
<1>6. \A x : x \in ToSet(back) <=> \E i \in n+1 .. Len(q) : x = q[i]
  <2>1. ASSUME NEW i \in n+1 .. Len(q) PROVE q[i] \in ToSet(back)
    <3>1. i - n \in 1 .. Len(back) /\ back[i - n] = q[i]
      BY <1>1, <1>2
    <3> QED
      BY <1>2, <3>1 DEF ToSet
  <2>2. ASSUME NEW i \in 1 .. Len(back) PROVE i + n \in n+1 .. Len(q) /\ back[i] = q[i + n]
    BY <1>1, <1>2
  <2> QED
    BY <1>2, <2>1, <2>2 DEF ToSet
<1>7. ToSet(back) = S \ ToSet(front) /\ ToSet(front) \subseteq S
  <2>1. ASSUME NEW i \in 1..n, NEW j \in n+1 .. Len(q) PROVE q[i] # q[j]
    BY <1>1 DEF Holds, Distinct
  <2>2. \A i \in 1..Len(q) : i \in 1..n \/ i \in n+1 .. Len(q)
    BY <1>1
  <2>3. \A i \in n+1 .. Len(q) : i \in 1..Len(q)
    BY <1>1
  <2>4. \A i \in 1..n : i \in 1..Len(q)
    BY <1>1
  <2> QED
    BY <1>4, <1>5, <1>6, <2>1, <2>2, <2>3, <2>4
<1>8. IsFiniteSet(ToSet(front)) /\ Cardinality(ToSet(front)) = n
  <2>1. front \in [1..n -> ToSet(front)]
    BY <1>1, <1>5
  <2>2. front \in Bijection(1..n, ToSet(front))
    <3>1. \A i, j \in 1..n : front[i] = front[j] => i = j
      BY <1>1, <1>3 DEF Distinct
    <3>2. \A x \in ToSet(front) : \E i \in 1..n : front[i] = x
      BY <1>1, <1>5
    <3>3. IsInjective(front)
      BY <2>1, <3>1 DEF IsInjective
    <3> QED
      BY <2>1, <3>2, <3>3 DEF Bijection, Injection, Surjection
  <2>3. ExistsBijection(1..n, ToSet(front))
    BY <2>2 DEF ExistsBijection
  <2> QED
    BY <1>1, <2>3, FS_NatBijection, FS_CountingElements
<1> QED
  BY <1>1, <1>2, <1>3, <1>7, <1>8 DEF front, back, Holds

LEMMA ConcatHolds ==
  ASSUME NEW p \in Seq(Caller), NEW S, Holds(p, S), NEW t \in Seq(Caller), Distinct(t), S \cap ToSet(t) = {}
  PROVE  p \o t \in Seq(Caller) /\ Holds(p \o t, S \cup ToSet(t))
<1> DEFINE r == p \o t
<1>1. /\ r \in Seq(Caller) /\ Len(r) = Len(p) + Len(t) /\ Len(p) \in Nat /\ Len(t) \in Nat
      /\ \A i \in 1..Len(p) : r[i] = p[i]
      /\ \A i \in Len(p) + 1 .. Len(p) + Len(t) : r[i] = t[i - Len(p)]
  OBVIOUS
<1> HIDE DEF r
<1>2. \A i \in 1..Len(r) : i \in 1..Len(p) \/ (i \in Len(p) + 1 .. Len(p) + Len(t) /\ i - Len(p) \in 1..Len(t))
  BY <1>1
<1>3. (\A i \in 1..Len(p) : p[i] \in S) /\ (\A i \in 1..Len(t) : t[i] \in ToSet(t))
  BY DEF Holds, ToSet
<1>4. Distinct(r)
  <2> SUFFICES ASSUME NEW i \in 1..Len(r), NEW j \in 1..Len(r), r[i] = r[j] PROVE i = j
    BY DEF Distinct
  <2>1. CASE i \in 1..Len(p) /\ j \in 1..Len(p)
    BY <1>1, <2>1 DEF Holds, Distinct
  <2>2. CASE i \notin 1..Len(p) /\ j \notin 1..Len(p)
    <3>1. t[i - Len(p)] = t[j - Len(p)] /\ i - Len(p) \in 1..Len(t) /\ j - Len(p) \in 1..Len(t)
      BY <1>1, <1>2, <2>2
    <3>2. i - Len(p) = j - Len(p)
      BY <3>1 DEF Distinct
    <3> QED
      BY <1>1, <3>2
  <2>3. CASE i \in 1..Len(p) /\ j \notin 1..Len(p)
    BY <1>1, <1>2, <1>3, <2>3
  <2>4. CASE i \notin 1..Len(p) /\ j \in 1..Len(p)
    BY <1>1, <1>2, <1>3, <2>4
  <2> QED
    BY <2>1, <2>2, <2>3, <2>4
<1>5. \A x \in ToSet(r) : x \in S \cup ToSet(t)
  BY <1>1, <1>2, <1>3 DEF ToSet
<1>6. ASSUME NEW x \in S \cup ToSet(t) PROVE \E i \in 1..Len(r) : r[i] = x
  <2>1. CASE x \in S
    <3>1. PICK i \in 1..Len(p) : p[i] = x
      BY <2>1 DEF Holds, ToSet
    <3>2. i \in 1..Len(r) /\ r[i] = x
      BY <1>1, <3>1
    <3> QED
      BY <3>2
  <2>2. CASE x \in ToSet(t)
    <3>1. PICK i \in 1..Len(t) : t[i] = x
      BY <2>2 DEF ToSet
    <3>2. /\ i + Len(p) \in 1..Len(r) /\ i + Len(p) \in Len(p) + 1 .. Len(p) + Len(t)
          /\ (i + Len(p)) - Len(p) = i
      BY <1>1, <3>1
    <3>3. r[i + Len(p)] = x
      BY <1>1, <3>1, <3>2
    <3> QED
      BY <3>2, <3>3
  <2> QED
    BY <2>1, <2>2
<1>7. ToSet(r) = S \cup ToSet(t)
  <2>1. ToSet(r) = {r[i] : i \in 1..Len(r)}
    BY <1>1, SetOf
  <2> QED
    BY <1>5, <1>6, <2>1
<1> QED
  BY <1>1, <1>4, <1>7 DEF r, Holds

-----------------------------------------------------------------------------
(* The bridge-wide limiter                                                  *)

LEMMA StartableIs ==
  ASSUME NEW l \in RateLimiter
  PROVE  /\ Startable(l) \in 0..Len(l.queue) /\ Wait(l) \in Nat
         /\ Startable(l) = 0 => l.queue = <<>> \/ l.active >= l.max \/ Wait(l) > 0
         /\ Startable(l) > 0 => l.interval > 0 \/ Startable(l) = Len(l.queue) \/ l.active + Startable(l) = l.max
<1>1. /\ l.max \in Nat /\ l.interval \in Nat /\ l.active \in Nat /\ l.since \in Nat /\ l.pause \in Nat
      /\ l.queue \in Seq(Caller) /\ Len(l.queue) \in Nat /\ (Len(l.queue) = 0 <=> l.queue = <<>>)
  BY DEF RateLimiter
<1>2. Wait(l) \in Nat
  BY <1>1 DEF Wait, Larger
<1> DEFINE m == IF l.interval > 0 THEN 1 ELSE l.max - l.active
<1>3. m \in Int /\ (l.active < l.max => m > 0) /\ (l.interval = 0 => m = l.max - l.active)
  BY <1>1
<1>4. Startable(l) = IF l.active >= l.max \/ Wait(l) > 0 THEN 0 ELSE Smaller(Len(l.queue), m)
  BY DEF Startable
<1> HIDE DEF m
<1>5. CASE l.active >= l.max \/ Wait(l) > 0
  BY <1>1, <1>2, <1>4, <1>5
<1>6. CASE ~(l.active >= l.max \/ Wait(l) > 0)
  <2>1. Startable(l) = IF Len(l.queue) < m THEN Len(l.queue) ELSE m
    BY <1>4, <1>6 DEF Smaller
  <2> QED
    BY <1>1, <1>2, <1>3, <1>6, <2>1
<1> QED
  BY <1>5, <1>6

LEMMA ArmedIs ==
  ASSUME NEW l \in RateLimiter
  PROVE  /\ armed(l) \in RateLimiter
         /\ armed(l).queue = l.queue /\ armed(l).active = l.active /\ armed(l).max = l.max
         /\ LimiterWakes(l) \/ Wait(l) > 0 => LimiterWakes(armed(l))
<1>1. Wait(l) \in Nat /\ Wait(l) # None
  BY StartableIs, NoneAssumption
<1> QED
  BY <1>1, NoneAssumption DEF armed, LimiterWakes, RateLimiter

\* Whatever is drained wakes again: the head of its queue has started, or a release or a timer is to come.
LEMMA DrainIs ==
  ASSUME NEW l \in RateLimiter
  PROVE  /\ drain(l) \in RateLimiter /\ LimiterWakes(drain(l))
         /\ drain(l).queue = SubSeq(l.queue, Startable(l) + 1, Len(l.queue))
         /\ drain(l).active = l.active + Startable(l)
<1> DEFINE n == Startable(l)
           m == [l EXCEPT !.queue = SubSeq(@, n + 1, Len(@)), !.active = @ + n, !.since = 0]
<1>1. n \in 0..Len(l.queue) /\ l.queue \in Seq(Caller) /\ Len(l.queue) \in Nat /\ l.max \in Nat /\ l.active \in Nat
  BY StartableIs DEF RateLimiter
<1>2. CASE n = 0
  <2>1. drain(l) = armed(l)
    BY <1>2 DEF drain
  <2>2. SubSeq(l.queue, 1, Len(l.queue)) = l.queue
    BY <1>1
  <2>3. LimiterWakes(l) \/ Wait(l) > 0
    BY <1>1, <1>2, StartableIs DEF LimiterWakes
  <2> QED
    BY <1>1, <1>2, <2>1, <2>2, <2>3, ArmedIs
<1>3. CASE n # 0
  <2>1. drain(l) = armed(m)
    BY <1>3 DEF drain
  <2>2. SubSeq(l.queue, n + 1, Len(l.queue)) \in Seq(Caller) /\ (n = Len(l.queue) => SubSeq(l.queue, n + 1, Len(l.queue)) = <<>>)
    <3> HIDE DEF n
    <3> QED
      BY <1>1
  <2>3. /\ m \in RateLimiter /\ m.queue = SubSeq(l.queue, n + 1, Len(l.queue)) /\ m.active = l.active + n
        /\ m.since = 0 /\ m.max = l.max /\ m.interval = l.interval
    <3> DEFINE back == SubSeq(l.queue, n + 1, Len(l.queue))
               total == l.active + n
    <3>1. back \in Seq(Caller) /\ total \in Nat
      BY <1>1, <2>2
    <3>2. m = [l EXCEPT !.queue = back, !.active = total, !.since = 0]
      OBVIOUS
    <3> HIDE DEF m
    <3> HIDE DEF back
    <3> HIDE DEF total
    <3>3. m \in RateLimiter /\ m.queue = back /\ m.active = total /\ m.since = 0 /\ m.max = l.max /\ m.interval = l.interval
      BY <3>1, <3>2 DEF RateLimiter
    <3> QED
      BY <3>3 DEF back, total
  <2>4. l.interval > 0 \/ n = Len(l.queue) \/ l.active + n = l.max
    BY <1>1, <1>3, StartableIs
  <2>5. l.interval > 0 => Wait(m) > 0
    <3>1. m.interval \in Nat /\ m.pause \in Nat
      BY <2>3 DEF RateLimiter
    <3> HIDE DEF m
    <3> QED
      BY <2>3, <3>1 DEF Wait, Larger
  <2>6. LimiterWakes(m) \/ Wait(m) > 0
    <3> HIDE DEF m
    <3> HIDE DEF n
    <3> QED
      BY <1>1, <2>2, <2>3, <2>4, <2>5 DEF LimiterWakes
  <2> HIDE DEF m
  <2> QED
    BY <2>1, <2>3, <2>6, ArmedIs
<1> QED
  BY <1>2, <1>3

LEMMA PausedIs ==
  ASSUME NEW l \in RateLimiter, NEW wait \in Nat
  PROVE  /\ pauseUntil(l, wait) \in RateLimiter
         /\ pauseUntil(l, wait).queue = l.queue /\ pauseUntil(l, wait).active = l.active
         /\ LimiterWakes(l) => LimiterWakes(pauseUntil(l, wait))
  BY DEF pauseUntil, RateLimiter, LimiterWakes

-----------------------------------------------------------------------------
(* The route's                                                              *)

LEMMA WindowDrainIs ==
  ASSUME NEW w \in WindowLimiter, w.limit > 0
  PROVE  /\ windowDrain(w) \in WindowLimiter /\ windowDrain(w).limit = w.limit /\ RouteWakes(windowDrain(w))
         /\ Room(w) \in 0..Len(w.queue)
         /\ windowDrain(w).queue = SubSeq(w.queue, Room(w) + 1, Len(w.queue))
<1> DEFINE n == Room(w)
           more == [i \in 1..n |-> w.window]
           starts == w.starts \o more
           m == [w EXCEPT !.queue = SubSeq(@, n + 1, Len(@)), !.starts = @ \o more]
           next == Larger(m.pause, IF Len(m.starts) >= m.limit THEN m.starts[1] ELSE 0)
<1>1. /\ w.limit \in Nat /\ w.window \in Nat /\ w.starts \in Seq(Nat) /\ w.pause \in Nat /\ w.queue \in Seq(Caller)
      /\ Len(w.starts) \in Nat /\ Len(w.queue) \in Nat
  BY DEF WindowLimiter
<1>2. n \in 0..Len(w.queue)
  BY <1>1 DEF Room, Smaller
<1>3. windowDrain(w) = IF m.queue # <<>> /\ m.timer = None THEN [m EXCEPT !.timer = next] ELSE m
  BY DEF windowDrain
<1> HIDE DEF n
<1>4. more \in Seq(Nat)
  BY <1>1, <1>2
<1> HIDE DEF more
<1>5. starts \in Seq(Nat)
  BY <1>1, <1>4
<1>6. SubSeq(w.queue, n + 1, Len(w.queue)) \in Seq(Caller)
  BY <1>1, <1>2
<1>7. /\ m \in WindowLimiter /\ m.limit = w.limit /\ m.queue = SubSeq(w.queue, n + 1, Len(w.queue))
  BY <1>5, <1>6 DEF WindowLimiter
<1> HIDE DEF m
<1>8. next \in Nat
  <2>1. m.pause \in Nat /\ m.starts \in Seq(Nat) /\ m.limit \in Nat /\ m.limit > 0
    BY <1>1, <1>7 DEF WindowLimiter
  <2>2. Len(m.starts) >= m.limit => m.starts[1] \in Nat
    BY <2>1
  <2> QED
    BY <2>1, <2>2 DEF Larger
<1> HIDE DEF next
<1>9. /\ windowDrain(w) \in WindowLimiter /\ windowDrain(w).limit = m.limit /\ windowDrain(w).queue = m.queue
      /\ windowDrain(w).queue # <<>> => windowDrain(w).timer # None
  BY <1>3, <1>7, <1>8, NoneAssumption DEF WindowLimiter
<1> QED
  BY <1>2, <1>7, <1>9 DEF n, RouteWakes

LEMMA RoutePausedIs ==
  ASSUME NEW w \in WindowLimiter, NEW wait \in Nat
  PROVE  /\ pauseUntil(w, wait) \in WindowLimiter /\ pauseUntil(w, wait).limit = w.limit
         /\ pauseUntil(w, wait).queue = w.queue
         /\ RouteWakes(w) => RouteWakes(pauseUntil(w, wait))
  BY DEF pauseUntil, WindowLimiter, RouteWakes

-----------------------------------------------------------------------------
(* The requests that start                                                  *)

Started(l, rs) == [c \in Caller |-> IF c \in Starting(l) THEN [rs[c] EXCEPT !.pc = "sent"] ELSE rs[c]]

LEMMA StartedIs ==
  ASSUME NEW l \in RateLimiter, NEW rs \in [Caller -> Request], Holds(l.queue, At(rs, "queued")),
         IsFiniteSet(Sent(rs))
  PROVE  LET s == Started(l, rs) IN
         /\ s \in [Caller -> Request] /\ Holds(drain(l).queue, At(s, "queued"))
         /\ At(s, "window") = At(rs, "window") /\ \A c \in Caller : s[c].routed = rs[c].routed
         /\ Starting(l) \subseteq At(rs, "queued") /\ Sent(rs) \subseteq Sent(s)
         /\ IsFiniteSet(Sent(s)) /\ Cardinality(Sent(s)) = Cardinality(Sent(rs)) + Startable(l)
<1> DEFINE s == Started(l, rs)
           F == Starting(l)
           n == Startable(l)
<1>1. /\ Holds(SubSeq(l.queue, n + 1, Len(l.queue)), At(rs, "queued") \ F) /\ F \subseteq At(rs, "queued")
      /\ IsFiniteSet(F) /\ Cardinality(F) = n /\ n \in Nat
  <2>1. n \in 0..Len(l.queue) /\ l.queue \in Seq(Caller) /\ Len(l.queue) \in Nat
    BY StartableIs DEF RateLimiter
  <2>2. F = ToSet(SubSeq(l.queue, 1, n))
    BY DEF Starting
  <2> HIDE DEF n
  <2> HIDE DEF F
  <2>3. /\ Holds(SubSeq(l.queue, n + 1, Len(l.queue)), At(rs, "queued") \ ToSet(SubSeq(l.queue, 1, n)))
        /\ ToSet(SubSeq(l.queue, 1, n)) \subseteq At(rs, "queued")
        /\ IsFiniteSet(ToSet(SubSeq(l.queue, 1, n))) /\ Cardinality(ToSet(SubSeq(l.queue, 1, n))) = n
    BY <2>1, CutHolds
  <2> QED
    BY <2>1, <2>2, <2>3
<1> HIDE DEF n
<1> HIDE DEF F
<1>2. s = [c \in Caller |-> IF c \in F THEN [rs[c] EXCEPT !.pc = "sent"] ELSE rs[c]]
  BY DEF Started, F
<1> HIDE DEF s
<1>3. \A c \in Caller : /\ rs[c] \in Request
                        /\ c \in F => s[c] = [rs[c] EXCEPT !.pc = "sent"]
                        /\ c \notin F => s[c] = rs[c]
  BY <1>2
<1>4. \A c \in Caller : /\ s[c] \in Request /\ s[c].routed = rs[c].routed
                        /\ c \in F => s[c].pc = "sent" /\ rs[c].pc = "queued"
                        /\ c \notin F => s[c].pc = rs[c].pc
  BY <1>1, <1>3, ZenonT(60) DEF Request, At
<1>5. s \in [Caller -> Request]
  BY <1>2, <1>4
<1>6. At(s, "queued") = At(rs, "queued") \ F /\ At(s, "window") = At(rs, "window")
  BY <1>4 DEF At
<1>7. Sent(s) = Sent(rs) \cup F /\ Sent(rs) \cap F = {}
  BY <1>1, <1>4 DEF Sent, At
<1>8. IsFiniteSet(Sent(s)) /\ Cardinality(Sent(s)) = Cardinality(Sent(rs)) + n
  <2>1. Cardinality(Sent(rs) \cap F) = 0
    BY <1>7, FS_EmptySet
  <2>2. Cardinality(Sent(rs)) \in Nat
    BY FS_CardinalityType
  <2>3. /\ IsFiniteSet(Sent(rs) \cup F)
        /\ Cardinality(Sent(rs) \cup F) = Cardinality(Sent(rs)) + Cardinality(F) - Cardinality(Sent(rs) \cap F)
    BY <1>1, FS_Union
  <2> QED
    BY <1>1, <1>7, <2>1, <2>2, <2>3
<1>9. drain(l).queue = SubSeq(l.queue, n + 1, Len(l.queue))
  BY DrainIs DEF n
<1> QED
  BY <1>1, <1>4, <1>5, <1>6, <1>7, <1>8, <1>9 DEF s, F, n

\* A drain of the limiter, where its places and its queue were the requests'.
LEMMA DrainedKeeps ==
  ASSUME NEW l \in RateLimiter, NEW rs \in [Caller -> Request], Holds(l.queue, At(rs, "queued")),
         IsFiniteSet(Sent(rs)), l.active = Cardinality(Sent(rs)), Drained(l, rs)
  PROVE  /\ limiter' \in RateLimiter /\ LimiterWakes(limiter')
         /\ req' \in [Caller -> Request] /\ Holds(limiter'.queue, At(req', "queued"))
         /\ At(req', "window") = At(rs, "window") /\ \A c \in Caller : req'[c].routed = rs[c].routed
         /\ IsFiniteSet(Sent(req')) /\ limiter'.active = Cardinality(Sent(req'))
<1>1. limiter' = drain(l) /\ req' = Started(l, rs)
  BY DEF Drained, Started
<1> QED
  BY <1>1, DrainIs, StartedIs

LEMMA DrainedIsOK ==
  ASSUME NEW l \in RateLimiter, NEW w \in WindowLimiter \cup {None}, NEW rs \in [Caller -> Request],
         InQueues(l, w, rs), w # None => w.limit > 0 /\ RouteWakes(w),
         IsFiniteSet(Sent(rs)), l.active = Cardinality(Sent(rs)), Drained(l, rs), route' = w
  PROVE  GateOK(limiter', route', req') /\ limiter'.active = Cardinality(Sent(req'))
<1>1. Holds(l.queue, At(rs, "queued"))
  BY DEF InQueues
<1>2. /\ limiter' \in RateLimiter /\ LimiterWakes(limiter')
      /\ req' \in [Caller -> Request] /\ Holds(limiter'.queue, At(req', "queued"))
      /\ At(req', "window") = At(rs, "window") /\ \A c \in Caller : req'[c].routed = rs[c].routed
      /\ IsFiniteSet(Sent(req')) /\ limiter'.active = Cardinality(Sent(req'))
  BY <1>1, DrainedKeeps
<1>3. InQueues(limiter', route', req')
  BY <1>2 DEF InQueues
<1> QED
  BY <1>2, <1>3 DEF GateOK

\* A drain of the route: those it lets through join the limiter's queue, and may start at once.
LEMMA RouteDrainedIsOK ==
  ASSUME NEW l \in RateLimiter, NEW w \in WindowLimiter, NEW rs \in [Caller -> Request],
         InQueues(l, w, rs), w.limit > 0, LimiterWakes(l),
         IsFiniteSet(Sent(rs)), l.active = Cardinality(Sent(rs)), RouteDrained(w, l, rs)
  PROVE  GateOK(limiter', route', req') /\ limiter'.active = Cardinality(Sent(req'))
<1> DEFINE through == Through(w)
           T == ToSet(through)
           moved == [c \in Caller |-> IF c \in T THEN [rs[c] EXCEPT !.pc = "queued"] ELSE rs[c]]
           w2 == windowDrain(w)
           joined == l.queue \o through
           m == [l EXCEPT !.queue = @ \o through]
<1>1. /\ route' = w2
      /\ through = <<>> => limiter' = l /\ req' = moved
      /\ through # <<>> => Drained(m, moved)
  BY DEF RouteDrained
<1>2. /\ w2 \in WindowLimiter /\ w2.limit > 0 /\ RouteWakes(w2) /\ w2 # None
      /\ w.queue \in Seq(Caller) /\ Room(w) \in 0..Len(w.queue)
      /\ w2.queue = SubSeq(w.queue, Room(w) + 1, Len(w.queue))
  BY WindowDrainIs, NoneAssumption DEF WindowLimiter
<1>3. w # None /\ l.queue \in Seq(Caller)
  <2>1. w # None
    BY NoneAssumption
  <2>2. l.queue \in Seq(Caller)
    BY DEF RateLimiter
  <2> QED
    BY <2>1, <2>2
<1>4. Holds(l.queue, At(rs, "queued")) /\ Holds(w.queue, At(rs, "window"))
  BY <1>3, NoneAssumption DEF InQueues
<1>5. /\ through \in Seq(Caller) /\ Distinct(through) /\ T \subseteq At(rs, "window")
      /\ Holds(w2.queue, At(rs, "window") \ T)
  <2> DEFINE n == Room(w)
  <2>1. through = SubSeq(w.queue, 1, n) /\ w2.queue = SubSeq(w.queue, n + 1, Len(w.queue))
        /\ n \in 0..Len(w.queue) /\ w.queue \in Seq(Caller)
    BY <1>2 DEF Through
  <2> HIDE DEF n
  <2> HIDE DEF w2
  <2>2. /\ SubSeq(w.queue, 1, n) \in Seq(Caller) /\ Distinct(SubSeq(w.queue, 1, n))
        /\ ToSet(SubSeq(w.queue, 1, n)) \subseteq At(rs, "window")
        /\ Holds(SubSeq(w.queue, n + 1, Len(w.queue)), At(rs, "window") \ ToSet(SubSeq(w.queue, 1, n)))
    BY <1>4, <2>1, CutHolds
  <2> HIDE DEF through
  <2> QED
    BY <2>1, <2>2
<1> HIDE DEF w2
<1> HIDE DEF through
<1>6. At(rs, "window") \cap At(rs, "queued") = {}
  BY DEF At
<1>7. joined \in Seq(Caller) /\ Holds(joined, At(rs, "queued") \cup T)
  BY <1>3, <1>4, <1>5, <1>6, ConcatHolds
<1> HIDE DEF T
<1>8. \A c \in Caller : /\ moved[c] \in Request /\ moved[c].routed = rs[c].routed
                        /\ c \in T => moved[c].pc = "queued" /\ rs[c].pc = "window"
                        /\ c \notin T => moved[c].pc = rs[c].pc
  BY <1>5 DEF Request, At
<1>9. moved \in [Caller -> Request]
  BY <1>8
<1> HIDE DEF moved
<1>10. /\ At(moved, "queued") = At(rs, "queued") \cup T /\ At(moved, "window") = At(rs, "window") \ T
       /\ Sent(moved) = Sent(rs)
  BY <1>5, <1>8 DEF At, Sent
<1> HIDE DEF joined
<1>11. /\ m \in RateLimiter /\ m.queue = joined /\ m.active = l.active
  BY <1>7 DEF RateLimiter, joined
<1> HIDE DEF m
<1>12. InQueues(m, w2, moved)
  BY <1>2, <1>5, <1>7, <1>10, <1>11 DEF InQueues
<1>13. CASE through # <<>>
  BY <1>1, <1>2, <1>9, <1>10, <1>11, <1>12, <1>13, DrainedIsOK
<1>14. CASE through = <<>>
  <2>1. T = {}
    BY <1>14 DEF T, ToSet
  <2>2. Holds(l.queue, At(moved, "queued"))
    BY <1>4, <1>10, <2>1
  <2>3. InQueues(l, w2, moved)
    BY <1>12, <2>2 DEF InQueues
  <2> QED
    BY <1>1, <1>2, <1>9, <1>10, <1>14, <2>3 DEF GateOK
<1> QED
  BY <1>13, <1>14

\* One pass of the request loop, for a caller whose request waits in no queue and has no place in flight.
LEMMA AttemptIsOK ==
  ASSUME NEW c \in Caller, NEW l \in RateLimiter, NEW w \in WindowLimiter \cup {None}, NEW rs \in [Caller -> Request],
         GateOK(l, w, rs), rs[c].pc \notin {"queued", "window"},
         l.active = Cardinality(Sent(rs) \ {c}), Attempt(c, w, l, rs)
  PROVE  GateOK(limiter', route', req') /\ limiter'.active = Cardinality(Sent(req'))
<1>1. IsFiniteSet(Sent(rs) \ {c})
  BY FS_RemoveElement DEF GateOK
<1>2. CASE limiter' = l /\ route' = w /\ req' = [rs EXCEPT ![c].pc = "limited"]
  <2>1. \A x \in Caller : /\ req'[x] \in Request /\ req'[x].routed = rs[x].routed
                          /\ x # c => req'[x].pc = rs[x].pc
                          /\ x = c => req'[x].pc = "limited"
    BY <1>2 DEF Request
  <2>2. req' \in [Caller -> Request]
    BY <1>2, <2>1
  <2>3. At(req', "queued") = At(rs, "queued") /\ At(req', "window") = At(rs, "window") /\ Sent(req') = Sent(rs) \ {c}
    BY <2>1 DEF At, Sent
  <2>4. InQueues(l, w, req')
    BY <2>1, <2>3 DEF GateOK, InQueues
  <2> QED
    BY <1>1, <1>2, <2>2, <2>3, <2>4 DEF GateOK
<1>3. CASE rs[c].routed /\ RouteDrained([w EXCEPT !.queue = Append(@, c)], l, [rs EXCEPT ![c].pc = "window"])
  <2> DEFINE v == [w EXCEPT !.queue = Append(@, c)]
             waits == [rs EXCEPT ![c].pc = "window"]
  <2>1. w \in WindowLimiter /\ w # None /\ w.limit > 0 /\ w.queue \in Seq(Caller) /\ Holds(w.queue, At(rs, "window"))
    BY <1>3 DEF GateOK, InQueues, WindowLimiter
  <2>2. Append(w.queue, c) \in Seq(Caller) /\ Holds(Append(w.queue, c), At(rs, "window") \cup {c})
    BY <2>1, AppendHolds DEF At
  <2>3. v \in WindowLimiter /\ v.queue = Append(w.queue, c) /\ v.limit = w.limit
    BY <2>1, <2>2 DEF WindowLimiter
  <2>4. \A x \in Caller : /\ waits[x] \in Request /\ waits[x].routed = rs[x].routed
                          /\ x # c => waits[x].pc = rs[x].pc
                          /\ x = c => waits[x].pc = "window"
    BY DEF Request
  <2>5. waits \in [Caller -> Request]
    BY <2>4
  <2> HIDE DEF waits
  <2> HIDE DEF v
  <2>6. At(waits, "queued") = At(rs, "queued") /\ At(waits, "window") = At(rs, "window") \cup {c}
        /\ Sent(waits) = Sent(rs) \ {c}
    BY <2>4 DEF At, Sent
  <2>7. InQueues(l, v, waits) /\ LimiterWakes(l)
    BY <2>2, <2>3, <2>6, NoneAssumption DEF GateOK, InQueues
  <2> QED
    BY <1>1, <1>3, <2>1, <2>3, <2>5, <2>6, <2>7, RouteDrainedIsOK DEF v, waits
<1>4. CASE ~rs[c].routed /\ route' = w /\ Drained([l EXCEPT !.queue = Append(@, c)], [rs EXCEPT ![c].pc = "queued"])
  <2> DEFINE m == [l EXCEPT !.queue = Append(@, c)]
             waits == [rs EXCEPT ![c].pc = "queued"]
  <2>1. l.queue \in Seq(Caller) /\ Holds(l.queue, At(rs, "queued"))
    BY DEF GateOK, InQueues, RateLimiter
  <2>2. Append(l.queue, c) \in Seq(Caller) /\ Holds(Append(l.queue, c), At(rs, "queued") \cup {c})
    BY <2>1, AppendHolds DEF At
  <2>3. m \in RateLimiter /\ m.queue = Append(l.queue, c) /\ m.active = l.active
    BY <2>2 DEF RateLimiter
  <2>4. \A x \in Caller : /\ waits[x] \in Request /\ waits[x].routed = rs[x].routed
                          /\ x # c => waits[x].pc = rs[x].pc
                          /\ x = c => waits[x].pc = "queued"
    BY DEF Request
  <2>5. waits \in [Caller -> Request]
    BY <2>4
  <2> HIDE DEF waits
  <2> HIDE DEF m
  <2>6. At(waits, "queued") = At(rs, "queued") \cup {c} /\ At(waits, "window") = At(rs, "window")
        /\ Sent(waits) = Sent(rs) \ {c}
    BY <2>4 DEF At, Sent
  <2>7. InQueues(m, w, waits)
    BY <2>2, <2>3, <2>4, <2>6 DEF GateOK, InQueues
  <2>8. w # None => w.limit > 0 /\ RouteWakes(w)
    BY DEF GateOK
  <2> QED
    BY <1>1, <1>4, <2>3, <2>5, <2>6, <2>7, <2>8, DrainedIsOK DEF m, waits
<1> QED
  BY <1>2, <1>3, <1>4 DEF Attempt

-----------------------------------------------------------------------------
(* The steps                                                                *)

LEMMA GateFacts ==
  ASSUME GateInv
  PROVE  /\ GateOK(limiter, route, req) /\ limiter.active = Cardinality(Sent(req)) /\ backoff \in Nat
         /\ limiter \in RateLimiter /\ route \in WindowLimiter \cup {None} /\ req \in [Caller -> Request]
         /\ InQueues(limiter, route, req) /\ LimiterWakes(limiter) /\ IsFiniteSet(Sent(req))
         /\ route # None => route.limit > 0 /\ RouteWakes(route)
         /\ route # None => route \in WindowLimiter
  BY DEF GateInv, GateOK

LEMMA RequestMoves ==
  ASSUME GateInv, NEW c \in Caller, request(c)
  PROVE  GateInv'
<1>1. PICK routed \in {FALSE} \cup {route # None} :
        Attempt(c, route, limiter,
          [req EXCEPT ![c] = [pc |-> "none", routed |-> routed, again |-> FALSE, left |-> MaxInlineWait]])
  BY DEF request
<1> DEFINE r == [pc |-> "none", routed |-> routed, again |-> FALSE, left |-> MaxInlineWait]
           rs == [req EXCEPT ![c] = r]
<1>2. r \in Request /\ r.pc = "none" /\ (route = None => ~r.routed)
  <2>1. routed \in BOOLEAN /\ (route = None => ~routed)
    BY Zenon
  <2> QED
    BY <2>1, WaitsNatural DEF Request
<1> HIDE DEF r
<1>3. rs \in [Caller -> Request] /\ rs[c] = r /\ \A x \in Caller \ {c} : rs[x] = req[x]
  BY <1>2, GateFacts
<1> HIDE DEF rs
<1>4. req[c].pc \notin {"window", "queued", "sent"}
  BY DEF request, Waiting
<1>5. At(rs, "queued") = At(req, "queued") /\ At(rs, "window") = At(req, "window") /\ Sent(rs) = Sent(req) /\ c \notin Sent(rs)
  BY <1>2, <1>3, <1>4 DEF At, Sent
<1>6. InQueues(limiter, route, rs)
  BY <1>2, <1>3, <1>5, GateFacts DEF InQueues
<1>7. GateOK(limiter, route, rs) /\ limiter.active = Cardinality(Sent(rs) \ {c})
  <2>1. Sent(rs) \ {c} = Sent(req)
    BY <1>5
  <2> QED
    BY <1>3, <1>5, <1>6, <2>1, GateFacts DEF GateOK
<1>8. Attempt(c, route, limiter, rs)
  BY <1>1 DEF rs, r
<1>9. GateOK(limiter', route', req') /\ limiter'.active = Cardinality(Sent(req'))
  BY <1>2, <1>3, <1>7, <1>8, AttemptIsOK, GateFacts
<1> QED
  BY <1>9, GateFacts DEF GateInv, request

\* A request that was sent gives its place up.
LEMMA ReleasedIs ==
  ASSUME GateInv, NEW c \in Caller, req[c].pc = "sent"
  PROVE  /\ released(limiter) \in RateLimiter /\ released(limiter).queue = limiter.queue
         /\ released(limiter).active = Cardinality(Sent(req) \ {c}) /\ c \in Sent(req)
         /\ released(limiter).active = Cardinality(Sent(req)) - 1
<1>1. c \in Sent(req)
  BY DEF Sent
<1>2. Cardinality(Sent(req) \ {c}) = Cardinality(Sent(req)) - 1
  BY <1>1, GateFacts, FS_RemoveElement
<1>3. Cardinality(Sent(req) \ {c}) \in Nat
  BY GateFacts, FS_RemoveElement, FS_CardinalityType
<1> DEFINE n == limiter.active - 1
<1>4. n \in Nat /\ released(limiter) = [limiter EXCEPT !.active = n] /\ n = Cardinality(Sent(req)) - 1
  BY <1>2, <1>3, GateFacts DEF released
<1> HIDE DEF n
<1> QED
  BY <1>1, <1>2, <1>4, GateFacts DEF RateLimiter

LEMMA AnswerMoves ==
  ASSUME GateInv, NEW c \in Caller, Answer(c)
  PROVE  GateInv'
<1>1. /\ req[c].pc = "sent" /\ route' = route /\ backoff' \in {FirstBackoff, backoff}
      /\ Drained(released(limiter), [req EXCEPT ![c].pc = "done"])
  BY DEF Answer
<1> DEFINE rs == [req EXCEPT ![c].pc = "done"]
<1>2. \A x \in Caller : /\ rs[x] \in Request /\ rs[x].routed = req[x].routed
                        /\ x # c => rs[x].pc = req[x].pc
                        /\ x = c => rs[x].pc = "done"
  BY GateFacts DEF Request
<1>3. rs \in [Caller -> Request]
  BY <1>2, GateFacts
<1>4. Drained(released(limiter), rs)
  BY <1>1
<1> HIDE DEF rs
<1>5. At(rs, "queued") = At(req, "queued") /\ At(rs, "window") = At(req, "window") /\ Sent(rs) = Sent(req) \ {c}
  BY <1>1, <1>2 DEF At, Sent
<1>6. InQueues(released(limiter), route, rs)
  BY <1>1, <1>2, <1>5, GateFacts, ReleasedIs DEF InQueues
<1>7. IsFiniteSet(Sent(rs)) /\ released(limiter).active = Cardinality(Sent(rs))
  BY <1>1, <1>5, GateFacts, ReleasedIs, FS_RemoveElement
<1>8. GateOK(limiter', route', req') /\ limiter'.active = Cardinality(Sent(req'))
  BY <1>1, <1>3, <1>4, <1>6, <1>7, GateFacts, ReleasedIs, DrainedIsOK
<1> QED
  BY <1>1, <1>8, GateFacts, WaitsNatural DEF GateInv, FirstBackoff, Smaller

LEMMA SlowDownMoves ==
  ASSUME GateInv, NEW c \in Caller, SlowDown(c)
  PROVE  GateInv'
<1> DEFINE r == req[c]
           l1 == released(limiter)
           rs == [x \in Caller |-> IF x \in Starting(l1) THEN [req[x] EXCEPT !.pc = "sent"]
                                   ELSE IF x = c THEN [r EXCEPT !.again = TRUE] ELSE req[x]]
<1>1. PICK named \in Named \cup {None}, is429 \in BOOLEAN :
        /\ backoff' = IF is429 THEN NextBackoff ELSE backoff
        /\ LET wait == IF named = None THEN backoff ELSE named
               hold == IF r.again THEN Larger(wait, BackoffStart) ELSE wait
               l2 == IF r.routed THEN drain(l1) ELSE armed(pauseUntil(drain(l1), hold))
               w2 == IF r.routed THEN pauseUntil(route, hold) ELSE route
           IN Attempt(c, IF r.routed /\ w2 # route THEN windowDrain(w2) ELSE w2, l2, rs)
  BY DEF SlowDown
<1> DEFINE wait == IF named = None THEN backoff ELSE named
           hold == IF r.again THEN Larger(wait, BackoffStart) ELSE wait
           l2 == IF r.routed THEN drain(l1) ELSE armed(pauseUntil(drain(l1), hold))
           w2 == IF r.routed THEN pauseUntil(route, hold) ELSE route
           w3 == IF r.routed /\ w2 # route THEN windowDrain(w2) ELSE w2
<1>2. Attempt(c, w3, l2, rs)
  BY <1>1
<1>3. r.pc = "sent" /\ r \in Request
  BY GateFacts DEF SlowDown
<1>4. hold \in Nat
  BY GateFacts, WaitsNatural DEF Larger
<1> HIDE DEF hold
<1>5. /\ l1 \in RateLimiter /\ l1.queue = limiter.queue
      /\ l1.active = Cardinality(Sent(req)) - 1 /\ c \in Sent(req)
  BY <1>3, ReleasedIs
<1> HIDE DEF l1
\* Another may start in the place, before the pause is set.
<1> DEFINE s == Started(l1, req)
<1>6. /\ s \in [Caller -> Request] /\ Holds(drain(l1).queue, At(s, "queued"))
      /\ At(s, "window") = At(req, "window") /\ \A x \in Caller : s[x].routed = req[x].routed
      /\ Starting(l1) \subseteq At(req, "queued") /\ Sent(req) \subseteq Sent(s)
      /\ IsFiniteSet(Sent(s)) /\ Cardinality(Sent(s)) = Cardinality(Sent(req)) + Startable(l1)
  BY <1>5, GateFacts, StartedIs DEF InQueues
<1>7. c \notin Starting(l1)
  BY <1>3, <1>6 DEF At
<1>8. \A x \in Caller : /\ x # c => rs[x] = s[x]
                        /\ x = c => rs[x] = [r EXCEPT !.again = TRUE] /\ s[x] = r
  BY <1>7 DEF Started
<1> HIDE DEF s
<1>9. \A x \in Caller : rs[x] \in Request /\ rs[x].pc = s[x].pc /\ rs[x].routed = s[x].routed
  BY <1>3, <1>6, <1>8 DEF Request
<1>10. rs \in [Caller -> Request]
  BY <1>9
<1> HIDE DEF rs
<1>11. At(rs, "queued") = At(s, "queued") /\ At(rs, "window") = At(s, "window") /\ Sent(rs) = Sent(s)
  BY <1>9 DEF At, Sent
<1>12. /\ drain(l1) \in RateLimiter /\ LimiterWakes(drain(l1)) /\ drain(l1).active = l1.active + Startable(l1)
  BY <1>5, DrainIs
<1>13. l2 \in RateLimiter /\ LimiterWakes(l2) /\ l2.queue = drain(l1).queue /\ l2.active = drain(l1).active
  BY <1>4, <1>12, PausedIs, ArmedIs
<1> HIDE DEF l2
<1>14. r.routed => route # None
  BY GateFacts DEF InQueues
<1>15. /\ w3 \in WindowLimiter \cup {None} /\ (w3 = None <=> route = None)
       /\ w3 # None => /\ w3.limit > 0 /\ RouteWakes(w3)
                       /\ Holds(w3.queue, At(rs, "window"))
  <2>1. CASE ~r.routed
    <3>1. w3 = route
      BY <2>1
    <3> HIDE DEF w3
    <3> QED
      BY <1>6, <1>11, <3>1, GateFacts DEF InQueues
  <2>2. CASE r.routed
    <3>1. route \in WindowLimiter /\ route.limit > 0 /\ RouteWakes(route) /\ Holds(route.queue, At(rs, "window"))
      BY <1>6, <1>11, <1>14, <2>2, GateFacts DEF InQueues
    <3>2. w2 = pauseUntil(route, hold)
      BY <2>2
    <3>3. w2 \in WindowLimiter /\ w2.limit = route.limit /\ w2.queue = route.queue /\ RouteWakes(w2)
      BY <1>4, <3>1, <3>2, RoutePausedIs
    <3>4. CASE w2 = route
      <4>1. w3 = route
        BY <2>2, <3>4
      <4> HIDE DEF w3
      <4> QED
        BY <1>14, <2>2, <3>1, <4>1
    <3>5. CASE w2 # route
      <4>1. w3 = windowDrain(w2)
        BY <2>2, <3>5
      <4>2. w2.pause > 0
        <5>1. hold > route.pause /\ w2 = [route EXCEPT !.pause = hold]
          BY <1>4, <3>1, <3>2, <3>5 DEF pauseUntil, WindowLimiter
        <5> QED
          BY <1>4, <3>1, <5>1 DEF WindowLimiter
      <4>3. Room(w2) = 0
        BY <4>2 DEF Room
      <4> HIDE DEF w2
      <4> HIDE DEF w3
      <4>4. w3 \in WindowLimiter /\ w3.limit > 0 /\ RouteWakes(w3) /\ w3.queue = SubSeq(w2.queue, 1, Len(w2.queue))
        <5>1. /\ windowDrain(w2) \in WindowLimiter /\ windowDrain(w2).limit = w2.limit /\ RouteWakes(windowDrain(w2))
              /\ windowDrain(w2).queue = SubSeq(w2.queue, Room(w2) + 1, Len(w2.queue))
          BY <3>1, <3>3, WindowDrainIs
        <5> QED
          BY <3>1, <3>3, <4>1, <4>3, <5>1
      <4>5. SubSeq(w2.queue, 1, Len(w2.queue)) = w2.queue
        <5>1. w2.queue \in Seq(Caller)
          BY <3>3 DEF WindowLimiter
        <5> QED
          BY <5>1
      <4>6. w3 # None
        BY <4>4, NoneAssumption
      <4> QED
        BY <1>14, <2>2, <3>1, <3>3, <4>4, <4>5, <4>6
    <3> QED
      BY <3>4, <3>5
  <2> QED
    BY <2>1, <2>2
<1> HIDE DEF w2
<1> HIDE DEF w3
<1>16. InQueues(l2, w3, rs)
  BY <1>6, <1>9, <1>11, <1>13, <1>15, GateFacts DEF InQueues
<1>17. GateOK(l2, w3, rs)
  BY <1>6, <1>10, <1>11, <1>13, <1>15, <1>16 DEF GateOK
<1>18. l2.active = Cardinality(Sent(rs) \ {c}) /\ rs[c].pc = "sent"
  <2>1. c \in Sent(rs) /\ Cardinality(Sent(rs) \ {c}) = Cardinality(Sent(rs)) - 1
    BY <1>5, <1>6, <1>11, FS_RemoveElement
  <2>2. Cardinality(Sent(req)) \in Nat /\ Startable(l1) \in Nat
    <3>1. Startable(l1) \in 0..Len(l1.queue) /\ Len(l1.queue) \in Nat
      BY <1>5, StartableIs DEF RateLimiter
    <3> QED
      BY <3>1, GateFacts, FS_CardinalityType
  <2>3. l2.active = (Cardinality(Sent(req)) - 1) + Startable(l1)
    BY <1>5, <1>12, <1>13
  <2>4. Cardinality(Sent(rs)) = Cardinality(Sent(req)) + Startable(l1)
    BY <1>6, <1>11
  <2>5. l2.active = Cardinality(Sent(rs) \ {c})
    BY <2>1, <2>2, <2>3, <2>4
  <2>6. rs[c].pc = "sent"
    BY <2>1 DEF Sent
  <2> QED
    BY <2>5, <2>6
<1>19. GateOK(limiter', route', req') /\ limiter'.active = Cardinality(Sent(req'))
  BY <1>2, <1>10, <1>13, <1>15, <1>17, <1>18, AttemptIsOK
<1>20. backoff' \in Nat
  BY <1>1, GateFacts, WaitsNatural DEF NextBackoff, Smaller
<1> QED
  BY <1>19, <1>20 DEF GateInv

LEMMA LimiterTimerMoves ==
  ASSUME GateInv, limiterTimer
  PROVE  GateInv'
<1> DEFINE l == [limiter EXCEPT !.timer = None]
<1>1. l \in RateLimiter /\ l.queue = limiter.queue /\ l.active = limiter.active
  BY GateFacts DEF RateLimiter
<1>2. Drained(l, req) /\ route' = route /\ backoff' = backoff
  BY DEF limiterTimer
<1> HIDE DEF l
<1>3. InQueues(l, route, req)
  BY <1>1, GateFacts DEF InQueues
<1>4. GateOK(limiter', route', req') /\ limiter'.active = Cardinality(Sent(req'))
  BY <1>1, <1>2, <1>3, GateFacts, DrainedIsOK
<1> QED
  BY <1>2, <1>4, GateFacts DEF GateInv

LEMMA RouteTimerMoves ==
  ASSUME GateInv, routeTimer
  PROVE  GateInv'
<1> DEFINE w == [route EXCEPT !.timer = None]
<1>1. route # None /\ RouteDrained(w, limiter, req) /\ backoff' = backoff
  BY DEF routeTimer
<1>2. w \in WindowLimiter /\ w.limit > 0 /\ w.queue = route.queue
  BY <1>1, GateFacts DEF WindowLimiter
<1> HIDE DEF w
<1>3. InQueues(limiter, w, req)
  BY <1>1, <1>2, GateFacts, NoneAssumption DEF InQueues
<1>4. GateOK(limiter', route', req') /\ limiter'.active = Cardinality(Sent(req'))
  BY <1>1, <1>2, <1>3, GateFacts, RouteDrainedIsOK
<1> QED
  BY <1>1, <1>4, GateFacts DEF GateInv

LEMMA ReconfigureMoves ==
  ASSUME GateInv, reconfigure
  PROVE  GateInv'
<1> DEFINE l == [limiter EXCEPT !.max = Declared.max, !.interval = Declared.interval]
           w == [limit |-> Quota.limit, window |-> Quota.window, starts |-> <<>>, pause |-> 0,
                 timer |-> None, queue |-> <<>>]
<1>1. route = None /\ route' = w /\ Drained(l, req) /\ backoff' = backoff
  BY DEF reconfigure
<1>2. l \in RateLimiter /\ l.queue = limiter.queue /\ l.active = limiter.active
  BY PacePositive, GateFacts DEF RateLimiter
<1>3. w \in WindowLimiter /\ w.limit > 0 /\ w.queue = <<>>
  BY PacePositive DEF WindowLimiter
<1> HIDE DEF l
<1> HIDE DEF w
<1>4. Holds(w.queue, {})
  BY <1>3 DEF Holds, Distinct, ToSet
<1>5. InQueues(l, w, req)
  BY <1>1, <1>2, <1>3, <1>4, GateFacts, NoneAssumption DEF InQueues
<1>6. GateOK(limiter', route', req') /\ limiter'.active = Cardinality(Sent(req'))
  BY <1>1, <1>2, <1>3, <1>5, GateFacts, DrainedIsOK DEF RouteWakes
<1> QED
  BY <1>1, <1>6, GateFacts DEF GateInv

LEMMA PruneIs ==
  ASSUME NEW s \in Seq(Nat)
  PROVE  prune(s) \in Seq(Nat)
<1> DEFINE A == {i \in 1..Len(s) : \A j \in 1..i : s[j] = 0}
<1>1. IsFiniteSet(1..Len(s)) /\ Cardinality(1..Len(s)) = Len(s) /\ Len(s) \in Nat
  <2>1. Len(s) \in Nat
    OBVIOUS
  <2>2. IsFiniteSet(1..Len(s)) /\ Cardinality(1..Len(s)) = IF 1 > Len(s) THEN 0 ELSE Len(s) - 1 + 1
    BY <2>1, FS_Interval
  <2> QED
    BY <2>1, <2>2
<1>2. A \in SUBSET (1..Len(s))
  OBVIOUS
<1>3. prune(s) = SubSeq(s, Cardinality(A) + 1, Len(s))
  BY DEF prune
<1> HIDE DEF A
<1>4. IsFiniteSet(A) /\ Cardinality(A) <= Len(s)
  BY <1>1, <1>2, FS_Subset
<1>5. Cardinality(A) \in Nat
  BY <1>4, FS_CardinalityType
<1> QED
  BY <1>1, <1>3, <1>4, <1>5

LEMMA ElapseMoves ==
  ASSUME GateInv, Elapse
  PROVE  GateInv'
<1>1. \A n \in Nat : Less(n) \in Nat
  BY DEF Less
<1>2. \A t \in Nat \cup {None} : LaterTimer(t) \in Nat \cup {None} /\ (t # None => LaterTimer(t) # None)
  BY <1>1, NoneAssumption DEF LaterTimer
<1>3. LongestInterval \in Nat
  BY PacePositive DEF LongestInterval, Larger
<1>4. limiter' \in RateLimiter /\ limiter'.queue = limiter.queue /\ limiter'.active = limiter.active /\ LimiterWakes(limiter')
  <2> DEFINE quiet == Smaller(limiter.since + 1, LongestInterval)
             pause == Less(limiter.pause)
             timer == LaterTimer(limiter.timer)
  <2>1. quiet \in Nat /\ pause \in Nat /\ timer \in Nat \cup {None} /\ (limiter.timer # None => timer # None)
    <3>1. limiter.since \in Nat /\ limiter.pause \in Nat /\ limiter.timer \in Nat \cup {None}
      BY GateFacts DEF RateLimiter
    <3>2. quiet \in Nat
      BY <1>3, <3>1 DEF Smaller
    <3> QED
      BY <1>1, <1>2, <3>1, <3>2
  <2>2. limiter' = [limiter EXCEPT !.since = quiet, !.pause = pause, !.timer = timer]
    BY DEF Elapse
  <2> HIDE DEF quiet
  <2> HIDE DEF pause
  <2> HIDE DEF timer
  <2> QED
    BY <2>1, <2>2, GateFacts DEF RateLimiter, LimiterWakes
<1>5. /\ route' \in WindowLimiter \cup {None} /\ (route' = None <=> route = None)
      /\ route # None => route'.limit = route.limit /\ route'.queue = route.queue /\ RouteWakes(route')
  <2>1. CASE route = None
    BY <2>1 DEF Elapse
  <2>2. CASE route # None
    <3> DEFINE pause == Less(route.pause)
               timer == LaterTimer(route.timer)
               aged == [i \in 1..Len(route.starts) |-> Less(route.starts[i])]
               starts == prune(aged)
    <3>1. route \in WindowLimiter /\ RouteWakes(route)
      BY <2>2, GateFacts
    <3>2. route.starts \in Seq(Nat) /\ Len(route.starts) \in Nat
      BY <3>1 DEF WindowLimiter
    <3>3. \A i \in 1..Len(route.starts) : Less(route.starts[i]) \in Nat
      <4>1. \A i \in 1..Len(route.starts) : route.starts[i] \in Nat
        BY <3>2
      <4> QED
        BY <1>1, <4>1
    <3>4. aged \in Seq(Nat)
      BY <3>2, <3>3
    <3>5. starts \in Seq(Nat)
      BY <3>4, PruneIs
    <3>6. pause \in Nat /\ timer \in Nat \cup {None} /\ (route.timer # None => timer # None)
      BY <1>1, <1>2, <3>1 DEF WindowLimiter
    <3>7. route' = [route EXCEPT !.pause = pause, !.timer = timer, !.starts = starts]
      BY <2>2 DEF Elapse
    <3> HIDE DEF pause
    <3> HIDE DEF timer
    <3> HIDE DEF aged
    <3> HIDE DEF starts
    <3>8. route' \in WindowLimiter /\ route'.limit = route.limit /\ route'.queue = route.queue /\ route'.timer = timer
      BY <3>1, <3>5, <3>6, <3>7 DEF WindowLimiter
    <3>9. route' # None
      BY <3>8, NoneAssumption
    <3> QED
      BY <2>2, <3>1, <3>6, <3>8, <3>9 DEF RouteWakes
  <2> QED
    BY <2>1, <2>2
<1>6. req' = [c \in Caller |-> IF Waiting(c) THEN [req[c] EXCEPT !.left = Less(@)] ELSE req[c]] /\ backoff' = backoff
  BY DEF Elapse
<1>7. \A c \in Caller : req'[c] \in Request /\ req'[c].pc = req[c].pc /\ req'[c].routed = req[c].routed
  BY <1>1, <1>6, GateFacts DEF Request
<1>8. req' \in [Caller -> Request]
  BY <1>6, <1>7
<1>9. At(req', "queued") = At(req, "queued") /\ At(req', "window") = At(req, "window") /\ Sent(req') = Sent(req)
  BY <1>7 DEF At, Sent
<1>10. InQueues(limiter', route', req')
  BY <1>4, <1>5, <1>7, <1>9, GateFacts DEF InQueues
<1> QED
  BY <1>4, <1>5, <1>6, <1>8, <1>9, <1>10, GateFacts DEF GateInv, GateOK

-----------------------------------------------------------------------------
LEMMA InitMoves == Init => GateInv
<1> SUFFICES ASSUME Init PROVE GateInv
  OBVIOUS
<1>1. /\ limiter = [max |-> Pace.max, interval |-> Pace.interval, active |-> 0, since |-> LongestInterval,
                    pause |-> 0, timer |-> None, queue |-> <<>>]
      /\ route = None /\ backoff = FirstBackoff /\ req = [c \in Caller |-> NoRequest]
  BY DEF Init
<1>2. LongestInterval \in Nat
  BY PacePositive DEF LongestInterval, Larger
<1>3. limiter \in RateLimiter /\ limiter.queue = <<>> /\ limiter.active = 0
  BY <1>1, <1>2, PacePositive DEF RateLimiter
<1>4. req \in [Caller -> Request] /\ \A c \in Caller : req[c].pc = "none" /\ ~req[c].routed
  BY <1>1 DEF NoRequest, Request
<1>5. At(req, "queued") = {} /\ At(req, "window") = {} /\ Sent(req) = {}
  BY <1>4 DEF At, Sent
<1>6. InQueues(limiter, route, req)
  BY <1>1, <1>3, <1>4, <1>5 DEF InQueues, Holds, Distinct, ToSet
<1> QED
  BY <1>1, <1>3, <1>4, <1>5, <1>6, FS_EmptySet, WaitsNatural
     DEF GateInv, GateOK, LimiterWakes, FirstBackoff, Smaller

LEMMA GateIsKept == Spec => []GateInv
<1>1. GateInv /\ [Next]_gate => GateInv'
  <2> SUFFICES ASSUME GateInv, [Next]_gate PROVE GateInv'
    OBVIOUS
  <2>1. CASE \E c \in Caller : request(c) \/ Answer(c) \/ SlowDown(c)
    BY <2>1, RequestMoves, AnswerMoves, SlowDownMoves
  <2>2. CASE limiterTimer \/ routeTimer
    BY <2>2, LimiterTimerMoves, RouteTimerMoves
  <2>3. CASE reconfigure \/ Elapse
    BY <2>3, ReconfigureMoves, ElapseMoves
  <2>4. CASE UNCHANGED gate
    BY <2>4 DEF gate, GateInv, GateOK, InQueues, LimiterWakes, RouteWakes
  <2> QED
    BY <2>1, <2>2, <2>3, <2>4 DEF Next
<1> QED
  BY <1>1, InitMoves, PTL DEF Spec

\* The limiters, the requests and the backoff are what rate-limiter.ts, window-limiter.ts and
\* gated-network.ts declare: places, times and pauses are never negative, queues hold callers.
THEOREM GateTypes == Spec => []TypeOK
<1>1. GateInv => TypeOK
  BY DEF GateInv, GateOK, TypeOK
<1> QED
  BY <1>1, GateIsKept, PTL

\* Whoever waits for a start has a timer or a release to come, whatever the pace, the quota and the
\* pauses, and the places in flight are the requests that were sent and not answered (RateLimiter.drain,
\* WindowLimiter.drain and the loop of createGatedNetwork's request).
THEOREM LimitersMove == Spec => []LimiterMoves
<1>1. GateInv => LimiterMoves
  BY DEF GateInv, GateOK, LimiterMoves, NoLostWakeup, PlacesAreRequests, LimiterWakes, RouteWakes
<1> QED
  BY <1>1, GateIsKept, PTL


View == [Key -> Nat]
Document == [state : {"missing", "good", "bad", "nothing"}, view : View]
Tasks == [kind : {"flush", "write", "remove", "check"}, by : Client \cup {"load"}, view : View, version : Nat]
Call == [kind : {"none", "get", "put", "delete"}, key : SUBSET Key, number : Nat]

Place == {"idle", "asked", "answered", "waiting", "read", "writing", "adding"}

Types ==
  /\ style \in Style
  /\ file \in Document /\ writing \in Document
  /\ memory \in [loaded : BOOLEAN, view : View, null : BOOLEAN]
  /\ queue \in Seq(Tasks)
  /\ call \in [Client -> Call] /\ seen \in [Client -> View] /\ pc \in [Client -> Place]
  /\ versions \in Seq(View) /\ Len(versions) > 0
  /\ acked \in 1..Len(versions) /\ calls \in Nat

LatestVersion == versions[Len(versions)]
IsLoad(task) == task.kind = "check" /\ task.by = "load"

\* Only a JsonDoc is ever loaded, by one look at the file or by one second look.
LoadsOnce ==
  /\ memory.loaded \/ load # "none" => style \in JsonDocs
  /\ load # "none" => ~memory.loaded
  /\ \A i \in 1..Len(queue) : IsLoad(queue[i]) => load = "queued" /\ \A j \in 1..Len(queue) : IsLoad(queue[j]) => i = j
  /\ memory.null => memory.view = Empty

\* What a task is worth: a version not acknowledged yet, and what is to be written of it.
Worth(task) ==
  task.kind # "check" =>
    /\ acked < task.version /\ task.version <= Len(versions)
    /\ task.kind = "flush" => style \in JsonDocs /\ memory.loaded /\ memory.view = LatestVersion
    /\ task.kind # "flush" => style = "plain" /\ task.view = versions[task.version]
    /\ task.kind = "remove" => task.view = Empty

TasksWorth ==
  /\ \A i \in 1..Len(queue) : Worth(queue[i])
  /\ \A i, j \in 1..Len(queue) :
       i < j /\ queue[i].kind # "check" /\ queue[j].kind # "check" => queue[i].version < queue[j].version
  /\ writing # Nothing => /\ queue # <<>> /\ queue[1].kind # "check"
                          /\ writing.state # "bad" /\ writing.view \in Since(queue[1].version)

\* A store that is not native has the document's file, but for what a damage cost.
HostsKeep ==
  style \notin Native =>
    /\ \A c \in Client : pc[c] \notin {"read", "writing", "adding"}
    /\ file.state = "bad" \/ file.view \in Since(acked) \cup (IF excused THEN {Empty} ELSE {})

\* A native one has the last version, or one caller that has read it is about to write the next.
Busy(c) == pc[c] \in {"read", "writing"}
NativesKeep ==
  style \in Native =>
    /\ queue = <<>> /\ acked = Len(versions)
    /\ (file.state # "bad" /\ file.view = LatestVersion) \/ \E c \in Client : pc[c] = "writing"
    /\ \A c \in Client : Busy(c) => /\ style # "keychain" /\ seen[c] = LatestVersion
                                    /\ \A d \in Client : Busy(d) => d = c

StoreInv == Types /\ LoadsOnce /\ TasksWorth /\ HostsKeep /\ NativesKeep

-----------------------------------------------------------------------------
(* The operators                                                            *)

LEMMA ViewsChange ==
  ASSUME NEW view \in View, NEW a \in Call
  PROVE  Changed(view, a) \in View
<1>1. \A n \in Nat : Put(view, a.key, n) \in View
  BY DEF View, Put
<1> QED
  BY <1>1 DEF Changed, Delete, Call

LEMMA EmptyIs == Empty \in View /\ \A a \in Call : a.kind # "put" => Changed(Empty, a) = Empty
  BY DEF Empty, View, Changed, Delete, Put

LEMMA GoodIs ==
  ASSUME NEW view \in View
  PROVE  /\ Good(view) \in Document /\ Good(view).view = view /\ Good(view).state = "good" /\ Good(view) # Nothing
         /\ Missing \in Document /\ Missing.view = Empty /\ Missing.state = "missing" /\ Missing # Nothing
         /\ Bad \in Document /\ Bad.state = "bad" /\ Nothing \in Document
  BY EmptyIs DEF Good, Missing, Bad, Nothing, Document

LEMMA OverIs ==
  ASSUME Types, NEW callers, Over(callers)
  PROVE  /\ pc' \in [Client -> Place] /\ call' \in [Client -> Call] /\ seen' \in [Client -> View]
         /\ \A c \in Client : /\ c \in callers => pc'[c] = "idle"
                              /\ c \notin callers => pc'[c] = pc[c] /\ seen'[c] = seen[c]
<1>1. NoCall \in Call
  BY DEF NoCall, Call
<1> QED
  BY <1>1, EmptyIs DEF Types, Over, Place

LEMMA AnswerIs ==
  ASSUME Types, NEW c \in Client, NEW view \in View, AnswerWith(c, view)
  PROVE  /\ pc' \in [Client -> Place] /\ call' \in [Client -> Call] /\ seen' \in [Client -> View]
         /\ pc'[c] = "answered" /\ \A d \in Client \ {c} : pc'[d] = pc[d] /\ seen'[d] = seen[d]
  BY DEF Types, AnswerWith, Place

\* What the document has been since a version is what it was before, and the change.
LEMMA VersionsGrow ==
  ASSUME Types, NEW view \in View, versions' = Append(versions, view)
  PROVE  /\ versions' \in Seq(View) /\ Len(versions') = Len(versions) + 1 /\ LatestVersion' = view
         /\ Len(versions) \in Nat /\ \A i \in 1..Len(versions) : versions'[i] = versions[i]
         /\ \A v \in 1..Len(versions) : Since(v) \subseteq Since(v)' /\ view \in Since(v)'
         /\ Since(Len(versions))' = {view}
<1>1. /\ versions' \in Seq(View) /\ Len(versions') = Len(versions) + 1 /\ Len(versions) \in Nat
      /\ versions'[Len(versions) + 1] = view
      /\ \A i \in 1..Len(versions) : versions'[i] = versions[i]
  BY DEF Types
<1>2. ASSUME NEW v \in 1..Len(versions) PROVE Since(v) \subseteq Since(v)' /\ view \in Since(v)'
  BY <1>1 DEF Since
<1>3. Since(Len(versions))' = {view}
  BY <1>1 DEF Since
<1> QED
  BY <1>1, <1>2, <1>3 DEF LatestVersion

LEMMA SinceIs ==
  ASSUME Types
  PROVE  /\ LatestVersion \in View /\ Len(versions) \in Nat /\ Since(Len(versions)) = {LatestVersion}
         /\ \A v \in 1..Len(versions) : versions[v] \in Since(v) /\ LatestVersion \in Since(v) /\ Since(v) \subseteq View
         /\ \A v, u \in 1..Len(versions) : v <= u => Since(u) \subseteq Since(v)
<1>1. Len(versions) \in Nat /\ Len(versions) > 0 /\ \A i \in 1..Len(versions) : versions[i] \in View
  BY DEF Types
<1> QED
  BY <1>1 DEF Since, LatestVersion

-----------------------------------------------------------------------------
(* Steps of the callers that change neither the file nor what waits for it  *)

LEMMA CallersKeep ==
  ASSUME StoreInv, UNCHANGED <<style, file, memory, queue, writing, versions, acked, excused>>,
         call' \in [Client -> Call], seen' \in [Client -> View], pc' \in [Client -> Place], calls' \in Nat,
         load' = load \/ (load = "none" /\ style \in JsonDocs /\ ~memory.loaded),
         \A c \in Client : pc[c] = "writing" => pc'[c] = "writing",
         \A c \in Client : pc'[c] \in {"read", "writing"} => pc'[c] = pc[c] /\ seen'[c] = seen[c],
         style \notin Native => \A c \in Client : pc'[c] # "adding"
  PROVE  StoreInv'
<1>1. Types'
  BY DEF StoreInv, Types
<1>2. LoadsOnce'
  BY DEF StoreInv, LoadsOnce, IsLoad
<1>3. TasksWorth'
  BY DEF StoreInv, TasksWorth, Worth, Since, LatestVersion
<1>4. HostsKeep'
  BY DEF StoreInv, HostsKeep, Since
<1>5. NativesKeep'
  BY DEF StoreInv, NativesKeep, Busy, LatestVersion
<1> QED
  BY <1>1, <1>2, <1>3, <1>4, <1>5 DEF StoreInv

LEMMA AskKeeps ==
  ASSUME StoreInv, NEW c \in Client, Ask(c)
  PROVE  StoreInv'
<1>1. PICK kind \in Kinds, k \in Key :
        call' = [call EXCEPT ![c] =
         [kind |-> IF kind = "clear" THEN "delete" ELSE kind,
          key |-> IF style = "plain" \/ kind = "clear" THEN Key ELSE {k},
          number |-> calls']]
  BY DEF Ask
<1> DEFINE ask == IF kind = "clear" THEN "delete" ELSE kind
           keys == IF style = "plain" \/ kind = "clear" THEN Key ELSE {k}
<1>2. calls' \in Nat
  BY DEF Ask, StoreInv, Types
<1>3. ask \in {"none", "get", "put", "delete"} /\ keys \in SUBSET Key
  BY DEF Kinds
<1>4. call' = [call EXCEPT ![c] = [kind |-> ask, key |-> keys, number |-> calls']]
  BY <1>1
<1> HIDE DEF ask
<1> HIDE DEF keys
<1>5. call' \in [Client -> Call]
  BY <1>2, <1>3, <1>4 DEF StoreInv, Types, Call
<1>6. /\ pc[c] = "idle" /\ pc' = [pc EXCEPT ![c] = "asked"] /\ pc \in [Client -> Place] /\ seen \in [Client -> View]
      /\ UNCHANGED <<style, file, memory, queue, writing, versions, acked, excused, seen>>
      /\ load' = IF style \in JsonDocs /\ ~memory.loaded /\ load = "none" THEN "reading" ELSE load
  BY DEF Ask, StoreInv, Types, diskVars
<1>7. pc' \in [Client -> Place] /\ pc'[c] = "asked" /\ \A d \in Client \ {c} : pc'[d] = pc[d]
  BY <1>6 DEF Place
<1>8. style \notin Native => \A d \in Client : pc'[d] # "adding"
  BY <1>7 DEF StoreInv, HostsKeep
<1>9. load' = load \/ (load = "none" /\ style \in JsonDocs /\ ~memory.loaded)
  BY <1>6
<1> QED
  BY <1>2, <1>5, <1>6, <1>7, <1>8, <1>9, CallersKeep

LEMMA ReturnKeeps ==
  ASSUME StoreInv, NEW c \in Client, Return(c)
  PROVE  StoreInv'
<1>1. /\ pc[c] = "answered" /\ Over({c}) /\ UNCHANGED <<style, file, memory, load, queue, writing, versions, acked, excused, calls>>
  BY DEF Return, diskVars, docVars
<1>2. /\ pc' \in [Client -> Place] /\ call' \in [Client -> Call] /\ seen' \in [Client -> View]
      /\ pc'[c] = "idle" /\ \A d \in Client \ {c} : pc'[d] = pc[d] /\ seen'[d] = seen[d]
  BY <1>1, OverIs DEF StoreInv
<1>3. style \notin Native => \A d \in Client : pc'[d] # "adding"
  BY <1>2 DEF StoreInv, HostsKeep
<1>4. calls' \in Nat
  BY <1>1 DEF StoreInv, Types
<1> QED
  BY <1>1, <1>2, <1>3, <1>4, CallersKeep

\* An answer of what was read, of a call that is neither reading nor writing a native file.
LEMMA AnswerKeeps ==
  ASSUME StoreInv, NEW c \in Client, NEW view \in View, AnswerWith(c, view), pc[c] \in {"asked", "waiting"},
         UNCHANGED <<style, file, memory, load, queue, writing, versions, acked, excused, calls>>
  PROVE  StoreInv'
<1>1. /\ pc' \in [Client -> Place] /\ call' \in [Client -> Call] /\ seen' \in [Client -> View]
      /\ pc'[c] = "answered" /\ \A d \in Client \ {c} : pc'[d] = pc[d] /\ seen'[d] = seen[d]
  BY AnswerIs DEF StoreInv
<1>2. style \notin Native => \A d \in Client : pc'[d] # "adding"
  BY <1>1 DEF StoreInv, HostsKeep
<1>3. calls' \in Nat
  BY DEF StoreInv, Types
<1> QED
  BY <1>1, <1>2, <1>3, CallersKeep

-----------------------------------------------------------------------------
(* Native stores                                                            *)

LEMMA StorageReadKeeps ==
  ASSUME StoreInv, ~Parallel, NEW c \in Client, storageRead(c)
  PROVE  StoreInv'
<1>1. /\ style \in {"file", "keystore"} /\ pc[c] = "asked" /\ Alone(c)
      /\ UNCHANGED <<style, file, memory, load, queue, writing, versions, acked, excused, calls>>
  BY DEF storageRead, diskVars, docVars
<1>2. file.view \in View /\ pc \in [Client -> Place] /\ seen \in [Client -> View] /\ call \in [Client -> Call] /\ calls \in Nat
  BY DEF StoreInv, Types, Document
<1>3. CASE AnswerWith(c, file.view)
  BY <1>1, <1>2, <1>3, AnswerKeeps
<1>4. CASE seen' = [seen EXCEPT ![c] = file.view] /\ pc' = [pc EXCEPT ![c] = "read"] /\ UNCHANGED <<call, since>>
  <2>1. /\ pc' \in [Client -> Place] /\ seen' \in [Client -> View] /\ pc'[c] = "read" /\ seen'[c] = file.view
        /\ \A d \in Client \ {c} : pc'[d] = pc[d] /\ seen'[d] = seen[d]
    BY <1>2, <1>4 DEF Place
  <2>2. \A d \in Client : ~Busy(d)
    BY <1>1 DEF Alone, Busy
  <2>3. style \in Native /\ style # "keychain"
    BY <1>1 DEF Native
  <2>4. file.state # "bad" /\ file.view = LatestVersion /\ queue = <<>> /\ acked = Len(versions)
    BY <2>2, <2>3 DEF StoreInv, NativesKeep, Busy
  <2>5. NativesKeep'
    BY <1>1, <2>1, <2>2, <2>3, <2>4 DEF NativesKeep, Busy, LatestVersion
  <2>6. Types' /\ LoadsOnce' /\ TasksWorth' /\ HostsKeep'
    BY <1>1, <1>2, <1>4, <2>1, <2>3, ZenonT(60) DEF StoreInv, Types, LoadsOnce, IsLoad, TasksWorth, Worth, Since, LatestVersion, HostsKeep
  <2> QED
    BY <2>5, <2>6 DEF StoreInv
<1> QED
  BY <1>3, <1>4 DEF storageRead

LEMMA StorageWriteKeeps ==
  ASSUME StoreInv, NEW c \in Client, storageWrite(c)
  PROVE  StoreInv'
<1>1. /\ pc[c] = "read" /\ file' \in {Bad, Missing} /\ pc' = [pc EXCEPT ![c] = "writing"]
      /\ UNCHANGED <<style, versions, acked, excused, memory, load, queue, writing, call, seen, calls>>
  BY DEF storageWrite, docVars
<1>2. style \in Native
  BY <1>1 DEF StoreInv, HostsKeep
<1>3. pc' \in [Client -> Place] /\ pc'[c] = "writing" /\ \A d \in Client \ {c} : pc'[d] = pc[d]
  BY <1>1 DEF StoreInv, Types, Place
<1>4. file' \in Document
  BY <1>1, GoodIs, EmptyIs
<1>5. NativesKeep'
  BY <1>1, <1>2, <1>3 DEF StoreInv, NativesKeep, Busy, LatestVersion
<1>6. Types' /\ LoadsOnce' /\ TasksWorth' /\ HostsKeep'
  BY <1>1, <1>2, <1>3, <1>4, ZenonT(60) DEF StoreInv, Types, LoadsOnce, IsLoad, TasksWorth, Worth, Since, LatestVersion, HostsKeep
<1> QED
  BY <1>5, <1>6 DEF StoreInv

\* A native store's document becomes what its file is made, and that is acknowledged at once.
LEMMA AcknowledgeKeeps ==
  ASSUME StoreInv, style \in Native, NEW view \in View, file' = Good(view), Acknowledge(view),
         UNCHANGED <<style, memory, load, queue, writing, excused, calls>>,
         call' \in [Client -> Call], seen' \in [Client -> View], pc' \in [Client -> Place],
         \A c \in Client : pc'[c] \notin {"read", "writing"}
  PROVE  StoreInv'
<1>1. versions' = Append(versions, view) /\ acked' = Len(versions')
  BY DEF Acknowledge
<1>2. /\ versions' \in Seq(View) /\ Len(versions') = Len(versions) + 1 /\ LatestVersion' = view /\ Len(versions) \in Nat
  BY <1>1, VersionsGrow DEF StoreInv
<1>3. file' \in Document /\ file'.view = view /\ file'.state = "good"
  BY GoodIs
<1>4. Types'
  BY <1>1, <1>2, <1>3 DEF StoreInv, Types
<1>5. LoadsOnce' /\ HostsKeep'
  BY DEF StoreInv, LoadsOnce, IsLoad, HostsKeep
<1>6. NativesKeep'
  BY <1>1, <1>2, <1>3 DEF StoreInv, NativesKeep, Busy
<1>7. queue = <<>> /\ writing = Nothing
  BY DEF StoreInv, NativesKeep, TasksWorth
<1>8. TasksWorth'
  BY <1>7 DEF TasksWorth
<1> QED
  BY <1>4, <1>5, <1>6, <1>8 DEF StoreInv

LEMMA StorageWrittenKeeps ==
  ASSUME StoreInv, NEW c \in Client, storageWritten(c)
  PROVE  StoreInv'
<1>1. /\ pc[c] = "writing" /\ file' = Good(Changed(seen[c], call[c]))
      /\ Acknowledge(Changed(versions[Len(versions)], call[c])) /\ Over({c})
      /\ UNCHANGED <<style, excused, memory, load, queue, writing, calls>>
  BY DEF storageWritten, docVars
<1>2. style \in Native /\ seen[c] = LatestVersion /\ \A d \in Client : Busy(d) => d = c
  BY <1>1 DEF StoreInv, HostsKeep, NativesKeep, Busy
<1>3. Changed(LatestVersion, call[c]) \in View
  BY SinceIs, ViewsChange DEF StoreInv, Types
<1>4. /\ pc' \in [Client -> Place] /\ call' \in [Client -> Call] /\ seen' \in [Client -> View]
      /\ pc'[c] = "idle" /\ \A d \in Client \ {c} : pc'[d] = pc[d]
  BY <1>1, OverIs DEF StoreInv
<1>5. \A d \in Client : pc'[d] \notin {"read", "writing"}
  BY <1>2, <1>4 DEF Busy
<1>6. file' = Good(Changed(LatestVersion, call[c])) /\ Acknowledge(Changed(LatestVersion, call[c]))
  BY <1>1, <1>2 DEF LatestVersion
<1> QED
  BY <1>1, <1>2, <1>3, <1>4, <1>5, <1>6, AcknowledgeKeeps

\* The keychain writes no file as a whole: no caller has read one, or is writing one.
LEMMA KeychainIdle ==
  ASSUME StoreInv, style = "keychain"
  PROVE  style \in Native /\ file.view = LatestVersion /\ \A c \in Client : pc[c] \notin {"read", "writing"}
<1>1. style \in Native
  BY DEF Native
<1> QED
  BY <1>1 DEF StoreInv, NativesKeep, Busy

LEMMA KeychainSetKeeps ==
  ASSUME StoreInv, NEW c \in Client, keychainSet(c) \/ keychainDelete(c) \/ keychainGet(c)
  PROVE  StoreInv'
<1> DEFINE stored == Changed(file.view, call[c])
<1>1. /\ stored \in View /\ pc \in [Client -> Place] /\ seen \in [Client -> View] /\ call \in [Client -> Call] /\ calls \in Nat
      /\ file.view \in View
  BY ViewsChange DEF StoreInv, Types, Document
<1>2. /\ style = "keychain" /\ UNCHANGED <<style, excused, memory, load, queue, writing, calls>>
  BY DEF keychainSet, keychainDelete, keychainGet, docVars, diskVars
<1>3. style \in Native /\ \A d \in Client : pc[d] \notin {"read", "writing"}
  BY <1>2, KeychainIdle
<1>4. CASE file' = Good(stored) /\ Acknowledge(stored) /\ Over({c})
  <2>1. /\ pc' \in [Client -> Place] /\ call' \in [Client -> Call] /\ seen' \in [Client -> View]
        /\ \A d \in Client : pc'[d] = "idle" \/ pc'[d] = pc[d]
    BY <1>4, OverIs DEF StoreInv
  <2> HIDE DEF stored
  <2> QED
    BY <1>1, <1>2, <1>3, <1>4, <2>1, AcknowledgeKeeps
<1>5. CASE pc' = [pc EXCEPT ![c] = "adding"] /\ UNCHANGED <<file, versions, acked, call, seen, since>>
  <2>1. pc' \in [Client -> Place] /\ pc'[c] = "adding" /\ \A d \in Client \ {c} : pc'[d] = pc[d]
    BY <1>1, <1>5 DEF Place
  <2> QED
    BY <1>1, <1>2, <1>3, <1>5, <2>1, CallersKeep
<1>6. CASE Over({c}) /\ UNCHANGED <<file, versions, acked>>
  <2>1. /\ pc' \in [Client -> Place] /\ call' \in [Client -> Call] /\ seen' \in [Client -> View]
        /\ \A d \in Client : pc'[d] = "idle" \/ pc'[d] = pc[d]
    BY <1>6, OverIs DEF StoreInv
  <2> QED
    BY <1>1, <1>2, <1>3, <1>6, <2>1, CallersKeep
<1>7. CASE keychainGet(c)
  BY <1>1, <1>2, <1>7, AnswerKeeps DEF keychainGet, diskVars, docVars
<1>8. CASE keychainSet(c)
  BY <1>4, <1>5, <1>6, <1>8 DEF keychainSet
<1>9. CASE keychainDelete(c)
  <2>1. file' = Good(stored) /\ Acknowledge(file'.view) /\ Over({c})
    BY <1>9 DEF keychainDelete
  <2>2. file'.view = stored
    <3> HIDE DEF stored
    <3> QED
      BY <1>1, <2>1, GoodIs
  <2>3. Acknowledge(stored)
    BY <2>1, <2>2 DEF Acknowledge
  <2> QED
    BY <1>4, <2>1, <2>3
<1> QED
  BY <1>7, <1>8, <1>9

-----------------------------------------------------------------------------
(* The queue of a path                                                      *)

LEMMA QueueGrows ==
  ASSUME Types, NEW task \in Tasks, queue' = Append(queue, task)
  PROVE  /\ queue' \in Seq(Tasks) /\ Len(queue) \in Nat /\ Len(queue') = Len(queue) + 1
         /\ queue'[Len(queue) + 1] = task /\ \A i \in 1..Len(queue) : queue'[i] = queue[i]
         /\ queue # <<>> => queue' # <<>> /\ queue'[1] = queue[1]
<1>1. /\ queue' \in Seq(Tasks) /\ Len(queue) \in Nat /\ Len(queue') = Len(queue) + 1
      /\ queue'[Len(queue) + 1] = task /\ \A i \in 1..Len(queue) : queue'[i] = queue[i]
  BY DEF Types
<1>2. queue # <<>> => Len(queue) > 0
  BY DEF Types
<1>3. queue' # <<>>
  BY <1>1
<1> QED
  BY <1>1, <1>2, <1>3

LEMMA QueueIsServed ==
  ASSUME Types, queue # <<>>, queue' = Tail(queue)
  PROVE  /\ queue' \in Seq(Tasks) /\ Len(queue) \in Nat /\ Len(queue) > 0 /\ Len(queue') = Len(queue) - 1
         /\ Head(queue) = queue[1] /\ queue[1] \in Tasks
         /\ \A i \in 1..Len(queue') : queue'[i] = queue[i + 1] /\ i + 1 \in 1..Len(queue)
  BY DEF Types

LEMMA QueuedIs ==
  ASSUME Types
  PROVE  /\ Len(queue) \in Nat
         /\ queue # <<>> => 1 \in 1..Len(queue)
         /\ \A i \in 1..Len(queue) : /\ queue[i] \in Tasks /\ queue[i].version \in Nat
                                     /\ queue[i].view \in View /\ queue[i].by \in Client \cup {"load"}
<1>1. queue \in Seq(Tasks)
  BY DEF Types
<1>2. Len(queue) \in Nat /\ \A i \in 1..Len(queue) : queue[i] \in Tasks
  BY <1>1
<1>3. queue # <<>> => Len(queue) > 0
  BY <1>1
<1>4. \A t \in Tasks : t.version \in Nat /\ t.view \in View /\ t.by \in Client \cup {"load"}
  BY DEF Tasks
<1> QED
  BY <1>2, <1>3, <1>4

LEMMA NotNative ==
  ASSUME StoreInv, queue # <<>> \/ load # "none" \/ memory.loaded \/ style = "plain"
  PROVE  style \notin Native
  BY DEF StoreInv, LoadsOnce, NativesKeep, JsonDocs, Native

\* A look at the file behind what is queued, for the load or for a caller.
LEMMA SecondLookIsQueued ==
  ASSUME StoreInv, style \notin Native, NEW task \in Tasks, task.kind = "check", queue' = Append(queue, task),
         UNCHANGED <<style, file, memory, writing, versions, acked, excused, call, seen, calls>>,
         pc' \in [Client -> Place], \A c \in Client : pc'[c] \notin {"read", "writing", "adding"},
         IF task.by = "load" THEN load = "reading" /\ load' = "queued" ELSE UNCHANGED load
  PROVE  StoreInv'
<1>1. /\ queue' \in Seq(Tasks) /\ Len(queue) \in Nat /\ Len(queue') = Len(queue) + 1
      /\ queue'[Len(queue) + 1] = task /\ \A i \in 1..Len(queue) : queue'[i] = queue[i]
      /\ queue # <<>> => queue' # <<>> /\ queue'[1] = queue[1]
  BY QueueGrows DEF StoreInv
<1>2. \A i \in 1..Len(queue') : \/ i \in 1..Len(queue) /\ queue'[i] = queue[i]
                                \/ i = Len(queue) + 1 /\ queue'[i] = task
  BY <1>1
<1>3. Types'
  BY <1>1 DEF StoreInv, Types
<1>4. LoadsOnce'
  <2>1. (memory'.loaded \/ load' # "none" => style' \in JsonDocs) /\ (load' # "none" => ~memory'.loaded)
        /\ (memory'.null => memory'.view = Empty)
    BY DEF StoreInv, LoadsOnce
  <2>2. ASSUME NEW i \in 1..Len(queue'), IsLoad(queue'[i])
        PROVE  load' = "queued" /\ \A j \in 1..Len(queue') : IsLoad(queue'[j]) => i = j
    <3>1. CASE task.by = "load"
      <4>1. \A j \in 1..Len(queue) : ~IsLoad(queue[j])
        BY <3>1 DEF StoreInv, LoadsOnce
      <4> QED
        BY <1>2, <2>2, <3>1, <4>1
    <3>2. CASE task.by # "load"
      <4>1. ~IsLoad(task)
        BY <3>2 DEF IsLoad
      <4> QED
        BY <1>2, <2>2, <3>2, <4>1 DEF StoreInv, LoadsOnce
    <3> QED
      BY <3>1, <3>2
  <2> QED
    BY <2>1, <2>2 DEF LoadsOnce, IsLoad
<1>5. TasksWorth'
  <2>1. \A i \in 1..Len(queue) : Worth(queue[i])
    BY DEF StoreInv, TasksWorth
  <2>2. ASSUME NEW i \in 1..Len(queue') PROVE Worth(queue[i])'
    BY <1>2, <2>1 DEF Worth, LatestVersion
  <2>3. ASSUME NEW i \in 1..Len(queue'), NEW j \in 1..Len(queue'), i < j, queue'[i].kind # "check", queue'[j].kind # "check"
        PROVE  queue'[i].version < queue'[j].version
    BY <1>2, <2>3 DEF StoreInv, TasksWorth
  <2>4. (writing # Nothing => /\ queue # <<>> /\ queue[1].kind # "check"
                              /\ writing.state # "bad" /\ writing.view \in Since(queue[1].version))'
    <3>1. writing # Nothing => /\ queue # <<>> /\ queue[1].kind # "check"
                               /\ writing.state # "bad" /\ writing.view \in Since(queue[1].version)
      BY DEF StoreInv, TasksWorth
    <3> QED
      BY <1>1, <3>1 DEF Since
  <2> QED
    BY <2>2, <2>3, <2>4 DEF TasksWorth
<1>6. HostsKeep' /\ NativesKeep'
  BY DEF StoreInv, HostsKeep, NativesKeep, Since
<1> QED
  BY <1>3, <1>4, <1>5, <1>6 DEF StoreInv
LEMMA OnlyLooks ==
  ASSUME StoreInv, load # "none"
  PROVE  /\ style \in JsonDocs /\ style # "plain" /\ ~memory.loaded
         /\ \A i \in 1..Len(queue) : queue[i].kind = "check"
         /\ writing = Nothing
<1>1. style \in JsonDocs /\ style # "plain" /\ ~memory.loaded
  BY DEF StoreInv, LoadsOnce, JsonDocs
<1>2. \A i \in 1..Len(queue) : queue[i].kind = "check"
  BY <1>1, Zenon DEF StoreInv, TasksWorth, Worth
<1>3. writing # Nothing => queue # <<>> /\ queue[1].kind # "check"
  BY DEF StoreInv, TasksWorth
<1>4. queue # <<>> => 1 \in 1..Len(queue)
  BY DEF StoreInv, Types
<1> QED
  BY <1>1, <1>2, <1>3, <1>4

LEMMA ReadJsonFileKeeps ==
  ASSUME StoreInv, readJsonFile
  PROVE  StoreInv'
<1>1. /\ load = "reading"
      /\ UNCHANGED <<style, writing, pc, call, seen, since, file, versions, acked, excused, calls>>
  BY DEF readJsonFile, diskVars
<1>2. style \notin Native
  BY <1>1, NotNative
<1>3. CASE file.state # "bad" /\ Loaded(file.view) /\ UNCHANGED queue
  <2>1. memory' = [loaded |-> TRUE, view |-> file.view, null |-> FALSE] /\ load' = "none"
    BY <1>3 DEF Loaded
  <2>2. file.view \in View
    BY DEF StoreInv, Types, Document
  <2>3. Types'
    BY <1>1, <1>3, <2>1, <2>2 DEF StoreInv, Types
  <2>4. LoadsOnce'
    BY <1>1, <1>3, <2>1 DEF StoreInv, LoadsOnce, IsLoad
  <2>5. (\A i \in 1..Len(queue) : queue[i].kind = "check") /\ writing = Nothing
    BY <1>1, OnlyLooks
  <2>6. TasksWorth'
    BY <1>1, <1>3, <2>5 DEF TasksWorth, Worth
  <2>7. HostsKeep' /\ NativesKeep'
    BY <1>1, <1>2 DEF StoreInv, HostsKeep, NativesKeep, Since
  <2> QED
    BY <2>3, <2>4, <2>6, <2>7 DEF StoreInv
<1>4. CASE load' = "queued" /\ onPath(Task("check", "load", Empty, 0)) /\ UNCHANGED memory
  <2>1. queue' = Append(queue, Task("check", "load", Empty, 0))
    BY <1>4 DEF onPath
  <2>2. LET task == Task("check", "load", Empty, 0) IN task \in Tasks /\ task.kind = "check" /\ task.by = "load"
    BY EmptyIs DEF Task, Tasks
  <2>3. pc' \in [Client -> Place] /\ \A c \in Client : pc'[c] \notin {"read", "writing", "adding"}
    BY <1>1, <1>2 DEF StoreInv, Types, HostsKeep
  <2> QED
    BY <1>1, <1>2, <1>4, <2>1, <2>2, <2>3, SecondLookIsQueued
<1> QED
  BY <1>3, <1>4 DEF readJsonFile

LEMMA GetPlainKeeps ==
  ASSUME StoreInv, NEW c \in Client, getPlain(c)
  PROVE  StoreInv'
<1>1. /\ style = "plain" /\ pc[c] = "asked"
      /\ UNCHANGED <<style, memory, load, writing, file, versions, acked, excused, calls>>
  BY DEF getPlain, diskVars
<1>2. style \notin Native
  BY <1>1, NotNative
<1>3. CASE AnswerWith(c, file.view) /\ UNCHANGED queue
  <2>1. file.view \in View
    BY DEF StoreInv, Types, Document
  <2> QED
    BY <1>1, <1>3, <2>1, AnswerKeeps
<1>4. CASE onPath(Task("check", c, Empty, 0)) /\ pc' = [pc EXCEPT ![c] = "waiting"] /\ UNCHANGED <<call, seen, since>>
  <2>1. queue' = Append(queue, Task("check", c, Empty, 0))
    BY <1>4 DEF onPath
  <2>2. c # "load"
    BY StoreAssumption
  <2>3. LET task == Task("check", c, Empty, 0) IN task \in Tasks /\ task.kind = "check" /\ task.by # "load"
    BY <2>2, EmptyIs DEF Task, Tasks
  <2>4. pc' \in [Client -> Place] /\ \A d \in Client : pc'[d] \notin {"read", "writing", "adding"}
    BY <1>2, <1>4 DEF StoreInv, Types, HostsKeep, Place
  <2> QED
    BY <1>1, <1>2, <1>4, <2>1, <2>3, <2>4, SecondLookIsQueued
<1> QED
  BY <1>3, <1>4 DEF getPlain
-----------------------------------------------------------------------------
(* A change, in memory or to be written whole, and its task                 *)

LEMMA ChangeIsQueued ==
  ASSUME StoreInv, style \notin Native, load = "none",
         NEW view \in View, versions' = Append(versions, view),
         NEW task \in Tasks, queue' = Append(queue, task), task.version = Len(versions'),
         memory' \in [loaded : BOOLEAN, view : View, null : BOOLEAN],
         \/ /\ task.kind = "flush" /\ memory.loaded /\ memory'.loaded /\ memory'.view = view
            /\ memory'.null => view = Empty
         \/ /\ style = "plain" /\ task.kind \in {"write", "remove"} /\ task.view = view
            /\ task.kind = "remove" => view = Empty
            /\ UNCHANGED memory,
         UNCHANGED <<style, file, load, writing, acked, excused, call, seen, calls>>,
         pc' \in [Client -> Place], \A c \in Client : pc'[c] \notin {"read", "writing", "adding"}
  PROVE  StoreInv'
<1>1. /\ queue' \in Seq(Tasks) /\ Len(queue) \in Nat /\ Len(queue') = Len(queue) + 1
      /\ queue'[Len(queue) + 1] = task /\ \A i \in 1..Len(queue) : queue'[i] = queue[i]
      /\ queue # <<>> => queue' # <<>> /\ queue'[1] = queue[1]
  BY QueueGrows DEF StoreInv
<1>2. \A i \in 1..Len(queue') : \/ i \in 1..Len(queue) /\ queue'[i] = queue[i]
                                \/ i = Len(queue) + 1 /\ queue'[i] = task
  BY <1>1
<1>3. /\ versions' \in Seq(View) /\ Len(versions') = Len(versions) + 1 /\ LatestVersion' = view
      /\ Len(versions) \in Nat /\ \A i \in 1..Len(versions) : versions'[i] = versions[i]
      /\ \A v \in 1..Len(versions) : Since(v) \subseteq Since(v)' /\ view \in Since(v)'
  BY VersionsGrow DEF StoreInv
<1>4. versions'[Len(versions) + 1] = view /\ acked \in 1..Len(versions)
  BY DEF StoreInv, Types
<1>5. Types'
  BY <1>1, <1>3, <1>4 DEF StoreInv, Types
<1>6. LoadsOnce'
  <2>1. \A i \in 1..Len(queue') : ~IsLoad(queue'[i])
    BY <1>2 DEF StoreInv, LoadsOnce, IsLoad
  <2>2. /\ memory'.loaded \/ load' # "none" => style' \in JsonDocs
        /\ memory'.null => memory'.view = Empty
    BY DEF StoreInv, LoadsOnce
  <2> QED
    BY <2>1, <2>2 DEF LoadsOnce, IsLoad
<1>7. TasksWorth'
  <2>1. \A i \in 1..Len(queue) : Worth(queue[i])
    BY DEF StoreInv, TasksWorth
  <2>2. style # "plain" \/ style \notin JsonDocs
    BY DEF JsonDocs
  <2>3. ASSUME NEW i \in 1..Len(queue), Worth(queue[i]) PROVE Worth(queue[i])'
    <3>1. queue'[i] = queue[i]
      BY <1>1
    <3>2. SUFFICES ASSUME queue[i].kind # "check"
                   PROVE  /\ acked < queue[i].version /\ queue[i].version <= Len(versions')
                          /\ queue[i].kind = "flush" => style \in JsonDocs /\ memory'.loaded /\ memory'.view = view
                          /\ queue[i].kind # "flush" => style = "plain" /\ queue[i].view = versions'[queue[i].version]
                          /\ queue[i].kind = "remove" => queue[i].view = Empty
      BY <1>3, <3>1 DEF Worth
    <3>3. queue[i] \in Tasks /\ queue[i].version \in Nat
      BY QueuedIs DEF StoreInv
    <3>4. queue[i].version \in 1..Len(versions)
      BY <1>3, <1>4, <2>3, <3>2, <3>3 DEF Worth
    <3> QED
      BY <1>3, <2>2, <2>3, <3>2, <3>4 DEF Worth
  <2>5. ASSUME NEW i \in 1..Len(queue'), i = Len(queue) + 1 PROVE Worth(queue[i])'
    <3>1. queue'[i] = task
      BY <1>1, <2>5
    <3>2. acked < task.version /\ task.version = Len(versions) + 1
      BY <1>3, <1>4
    <3>3. task.kind = "flush" => style \in JsonDocs /\ memory'.loaded /\ memory'.view = view
      BY DEF StoreInv, LoadsOnce
    <3> QED
      BY <1>3, <1>4, <3>1, <3>2, <3>3 DEF Worth
  <2>6. ASSUME NEW i \in 1..Len(queue') PROVE Worth(queue[i])'
    BY <1>2, <2>1, <2>3, <2>5
  <2>7. ASSUME NEW i \in 1..Len(queue'), NEW j \in 1..Len(queue'), i < j, queue'[i].kind # "check", queue'[j].kind # "check"
        PROVE  queue'[i].version < queue'[j].version
    <3>1. i \in 1..Len(queue) /\ queue'[i] = queue[i]
      BY <1>1, <1>2, <2>7
    <3>2. queue[i].version <= Len(versions) /\ queue[i].version \in Nat
      BY <2>1, <2>7, <3>1, QueuedIs DEF Worth, StoreInv
    <3>3. CASE j = Len(queue) + 1
      BY <1>1, <1>3, <3>1, <3>2, <3>3
    <3>4. CASE j \in 1..Len(queue)
      BY <1>1, <2>7, <3>1, <3>4 DEF StoreInv, TasksWorth
    <3> QED
      BY <1>2, <3>3, <3>4
  <2>8. (writing # Nothing => /\ queue # <<>> /\ queue[1].kind # "check"
                              /\ writing.state # "bad" /\ writing.view \in Since(queue[1].version))'
    <3> SUFFICES ASSUME writing # Nothing
                 PROVE  (queue # <<>> /\ queue[1].kind # "check" /\ writing.state # "bad" /\ writing.view \in Since(queue[1].version))'
      OBVIOUS
    <3>1. /\ queue # <<>> /\ queue[1].kind # "check"
          /\ writing.state # "bad" /\ writing.view \in Since(queue[1].version)
      BY DEF StoreInv, TasksWorth
    <3>2. 1 \in 1..Len(queue) /\ queue[1].version \in Nat
      BY <3>1, QueuedIs DEF StoreInv
    <3>3. queue[1].version \in 1..Len(versions)
      BY <1>3, <1>4, <2>1, <3>1, <3>2 DEF Worth
    <3>4. PICK v \in 1..Len(versions) : v = queue[1].version
      BY <3>3
    <3>5. writing.view \in Since(v)'
      BY <1>3, <3>1, <3>4
    <3> QED
      BY <1>1, <3>1, <3>4, <3>5
  <2> QED
    BY <2>6, <2>7, <2>8 DEF TasksWorth
<1>8. HostsKeep'
  <2>1. Since(acked) \subseteq Since(acked)'
    BY <1>4 DEF Since, StoreInv, Types
  <2> QED
    BY <2>1 DEF StoreInv, HostsKeep
<1>9. NativesKeep'
  BY DEF NativesKeep
<1> QED
  BY <1>5, <1>6, <1>7, <1>8, <1>9 DEF StoreInv
LEMMA UpdateKeeps ==
  ASSUME StoreInv, NEW c \in Client, update(c)
  PROVE  StoreInv'
<1> DEFINE view == Changed(memory.view, call[c])
           null == style = "nullable" /\ call[c].kind = "delete" /\ call[c].key = Key
           task == Task("flush", c, Empty, Len(versions'))
<1>1. /\ memory.loaded /\ pc[c] = "asked"
      /\ UNCHANGED <<style, file, load, writing, acked, excused, calls>>
  BY DEF update
<1>2. style \notin Native /\ load = "none"
  BY <1>1, NotNative DEF StoreInv, LoadsOnce
<1>3. /\ memory \in [loaded : BOOLEAN, view : View, null : BOOLEAN] /\ memory.view \in View
      /\ pc \in [Client -> Place] /\ call \in [Client -> Call] /\ view \in View
  BY ViewsChange DEF StoreInv, Types
<1>4. CASE AnswerWith(c, memory.view) /\ UNCHANGED <<memory, queue, versions>>
  BY <1>1, <1>3, <1>4, AnswerKeeps
<1>5. CASE Over({c}) /\ UNCHANGED <<memory, queue, versions>>
  <2>1. /\ pc' \in [Client -> Place] /\ call' \in [Client -> Call] /\ seen' \in [Client -> View]
        /\ \A d \in Client : pc'[d] = "idle" \/ pc'[d] = pc[d]
    BY <1>5, OverIs DEF StoreInv
  <2>2. \A d \in Client : pc'[d] \notin {"read", "writing", "adding"} /\ pc[d] \notin {"read", "writing", "adding"}
    BY <1>2, <2>1 DEF StoreInv, HostsKeep
  <2>3. calls' \in Nat
    BY <1>1 DEF StoreInv, Types
  <2> QED
    BY <1>1, <1>5, <2>1, <2>2, <2>3, CallersKeep
<1>6. CASE /\ memory' = [memory EXCEPT !.view = view, !.null = null]
           /\ versions' = Append(versions, view)
           /\ onPath(task)
           /\ pc' = [pc EXCEPT ![c] = "waiting"]
           /\ UNCHANGED <<call, seen, since>>
  <2>1. null \in BOOLEAN /\ (null => view = Empty)
    BY <1>3 DEF Changed, Delete, Put, Empty
  <2>2. PICK up \in BOOLEAN : up = null
    BY <2>1
  <2>3. /\ memory' \in [loaded : BOOLEAN, view : View, null : BOOLEAN]
        /\ memory'.loaded = memory.loaded /\ memory'.view = view /\ memory'.null = up
    <3> HIDE DEF view
    <3> HIDE DEF null
    <3> QED
      BY <1>3, <1>6, <2>2
  <2>4. /\ task \in Tasks /\ task.kind = "flush" /\ task.version = Len(versions')
    <3>1. Len(versions') \in Nat
      BY <1>3, <1>6, VersionsGrow DEF StoreInv
    <3> QED
      BY <3>1, EmptyIs DEF Task, Tasks
  <2>5. queue' = Append(queue, task)
    BY <1>6 DEF onPath
  <2>6. pc' \in [Client -> Place] /\ \A d \in Client : pc'[d] \notin {"read", "writing", "adding"}
    BY <1>2, <1>3, <1>6 DEF StoreInv, HostsKeep, Place
  <2>7. memory'.loaded /\ memory'.view = view /\ (memory'.null => view = Empty)
    BY <1>1, <2>1, <2>2, <2>3
  <2> HIDE DEF task
  <2> HIDE DEF view
  <2> QED
    BY <1>1, <1>2, <1>3, <1>6, <2>3, <2>4, <2>5, <2>6, <2>7, ChangeIsQueued
<1> QED
  BY <1>4, <1>5, <1>6 DEF update

LEMMA PutPlainKeeps ==
  ASSUME StoreInv, NEW c \in Client, putPlain(c)
  PROVE  StoreInv'
<1> DEFINE view == Changed(Empty, call[c])
           task == Task(IF call[c].kind = "put" THEN "write" ELSE "remove", c, view, Len(versions'))
<1>1. /\ style = "plain" /\ pc[c] = "asked" /\ versions' = Append(versions, view) /\ onPath(task)
      /\ pc' = [pc EXCEPT ![c] = "waiting"]
      /\ UNCHANGED <<style, file, memory, load, writing, call, seen, acked, excused, calls>>
  BY DEF putPlain
<1>2. style \notin Native /\ load = "none"
  BY <1>1, NotNative, OnlyLooks DEF StoreInv
<1>3. /\ memory \in [loaded : BOOLEAN, view : View, null : BOOLEAN]
      /\ pc \in [Client -> Place] /\ view \in View
  BY ViewsChange, EmptyIs DEF StoreInv, Types
<1>4. /\ task \in Tasks /\ task.kind \in {"write", "remove"} /\ task.version = Len(versions') /\ task.view = view
      /\ task.kind = "remove" => call[c].kind # "put"
  <2>1. Len(versions') \in Nat
    BY <1>1, <1>3, VersionsGrow DEF StoreInv
  <2> HIDE DEF view
  <2> QED
    BY <1>3, <2>1 DEF Task, Tasks
<1>5. task.kind = "remove" => view = Empty
  BY <1>4, EmptyIs DEF StoreInv, Types
<1>6. queue' = Append(queue, task)
  BY <1>1 DEF onPath
<1>7. pc' \in [Client -> Place] /\ \A d \in Client : pc'[d] \notin {"read", "writing", "adding"}
  BY <1>1, <1>2, <1>3 DEF StoreInv, HostsKeep, Place
<1> HIDE DEF task
<1> HIDE DEF view
<1> QED
  BY <1>1, <1>2, <1>3, <1>4, <1>5, <1>6, <1>7, ChangeIsQueued
-----------------------------------------------------------------------------
(* The path's tasks, one after the other                                    *)

LEMMA BeginKeeps ==
  ASSUME StoreInv, Begin
  PROVE  StoreInv'
<1>1. /\ queue # <<>> /\ Head(queue).kind # "check"
      /\ UNCHANGED <<style, memory, load, queue, pc, call, seen, since, file, versions, acked, excused, calls>>
      /\ writing' = CASE Head(queue).kind = "flush" -> encode
                      [] Head(queue).kind = "write" -> Good(Head(queue).view)
                      [] Head(queue).kind = "remove" -> Missing
  BY DEF Begin, diskVars
<1> DEFINE task == queue[1]
<1>2. Head(queue) = task /\ task.kind # "check" /\ 1 \in 1..Len(queue) /\ task \in Tasks /\ task.view \in View /\ task.version \in Nat
  BY <1>1, QueuedIs DEF StoreInv, Types
<1>3. Worth(task)
  BY <1>2 DEF StoreInv, TasksWorth
<1>4. task.version \in 1..Len(versions) /\ Len(versions) \in Nat
  BY <1>2, <1>3 DEF Worth, StoreInv, Types
<1>5. task.kind \in {"flush", "write", "remove"}
  BY <1>2 DEF Tasks
<1>6. /\ LatestVersion \in Since(task.version) /\ versions[task.version] \in Since(task.version)
      /\ memory.view \in View
  BY <1>4, SinceIs DEF StoreInv, Types
<1>7. writing' \in Document /\ writing'.state # "bad" /\ writing'.view \in Since(task.version)
  <2>1. CASE task.kind = "flush"
    <3>1. memory.view = LatestVersion
      BY <1>2, <1>3, <2>1 DEF Worth
    <3>2. writing' = encode
      BY <1>1, <1>2, <2>1
    <3>3. CASE memory.view = Empty /\ writing' = Missing
      BY <1>6, <3>1, <3>3, GoodIs, EmptyIs
    <3>4. CASE writing' = Good(memory.view)
      BY <1>6, <3>1, <3>4, GoodIs
    <3>5. memory.null => memory.view = Empty
      BY DEF StoreInv, LoadsOnce
    <3> QED
      BY <3>2, <3>3, <3>4, <3>5 DEF encode
  <2>2. CASE task.kind = "write"
    <3>1. writing' = Good(task.view) /\ task.view = versions[task.version]
      BY <1>1, <1>2, <1>3, <2>2 DEF Worth
    <3> QED
      BY <1>2, <1>6, <3>1, GoodIs
  <2>3. CASE task.kind = "remove"
    <3>1. writing' = Missing /\ task.view = versions[task.version] /\ task.view = Empty
      BY <1>1, <1>2, <1>3, <2>3 DEF Worth
    <3> QED
      BY <1>6, <3>1, GoodIs, EmptyIs
  <2> QED
    BY <1>5, <2>1, <2>2, <2>3
<1>8. Types' /\ LoadsOnce' /\ HostsKeep' /\ NativesKeep'
  BY <1>1, <1>7, ZenonT(60) DEF StoreInv, Types, LoadsOnce, IsLoad, HostsKeep, NativesKeep, Since, LatestVersion, Busy
<1>9. TasksWorth'
  <2>1. writing'.view \in Since(queue[1].version)'
    BY <1>1, <1>7 DEF Since
  <2> QED
    BY <1>1, <1>2, <1>7, <2>1 DEF StoreInv, TasksWorth, Worth, LatestVersion
<1> QED
  BY <1>8, <1>9 DEF StoreInv

\* What a task that has ended leaves of the others, whatever came of it.
LEMMA TaskHasEnded ==
  ASSUME StoreInv, queue # <<>>, queue' = Tail(queue), writing' = Nothing, UNCHANGED <<style, versions>>,
         acked' = acked \/ (queue[1].kind # "check" /\ acked' = queue[1].version)
  PROVE  /\ queue' \in Seq(Tasks)
         /\ UNCHANGED <<memory, load>> => LoadsOnce'
         /\ UNCHANGED memory => TasksWorth'
         /\ \A i \in 1..Len(queue') : queue'[i] = queue[i + 1] /\ i + 1 \in 1..Len(queue)
<1>1. /\ queue' \in Seq(Tasks) /\ Len(queue) \in Nat /\ Len(queue) > 0 /\ Len(queue') = Len(queue) - 1
      /\ Head(queue) = queue[1] /\ queue[1] \in Tasks
      /\ \A i \in 1..Len(queue') : queue'[i] = queue[i + 1] /\ i + 1 \in 1..Len(queue)
  BY QueueIsServed DEF StoreInv
<1>2. ASSUME UNCHANGED <<memory, load>> PROVE LoadsOnce'
  <2>1. ASSUME NEW i \in 1..Len(queue'), IsLoad(queue'[i])
        PROVE  load' = "queued" /\ \A j \in 1..Len(queue') : IsLoad(queue'[j]) => i = j
    <3>1. i + 1 \in 1..Len(queue) /\ IsLoad(queue[i + 1])
      BY <1>1, <2>1
    <3>2. \A j \in 1..Len(queue) : IsLoad(queue[j]) => i + 1 = j
      BY <3>1 DEF StoreInv, LoadsOnce
    <3>3. \A j \in 1..Len(queue') : IsLoad(queue'[j]) => i + 1 = j + 1
      BY <1>1, <3>2
    <3>4. \A j \in 1..Len(queue') : i + 1 = j + 1 => i = j
      OBVIOUS
    <3> QED
      BY <1>2, <3>1, <3>3, <3>4 DEF StoreInv, LoadsOnce
  <2> QED
    BY <1>2, <2>1 DEF StoreInv, LoadsOnce, IsLoad
<1>3. ASSUME UNCHANGED memory PROVE TasksWorth'
  <2>1. \A i \in 1..Len(queue) : Worth(queue[i])
    BY DEF StoreInv, TasksWorth
  <2>2. ASSUME NEW i \in 1..Len(queue') PROVE Worth(queue[i])'
    <3>1. queue'[i] = queue[i + 1] /\ i + 1 \in 1..Len(queue) /\ Worth(queue[i + 1])
      BY <1>1, <2>1
    <3>2. queue[i + 1].kind # "check" => acked' < queue[i + 1].version
      <4>1. CASE acked' = acked
        BY <3>1, <4>1 DEF Worth
      <4>2. CASE queue[1].kind # "check" /\ acked' = queue[1].version
        <5>1. 1 \in 1..Len(queue) /\ 1 < i + 1
          BY <1>1
        <5> QED
          BY <3>1, <4>2, <5>1 DEF StoreInv, TasksWorth
      <4> QED
        BY <4>1, <4>2
    <3> QED
      BY <1>3, <3>1, <3>2 DEF Worth, LatestVersion
  <2>3. ASSUME NEW i \in 1..Len(queue'), NEW j \in 1..Len(queue'), i < j, queue'[i].kind # "check", queue'[j].kind # "check"
        PROVE  queue'[i].version < queue'[j].version
    <3>1. /\ queue'[i] = queue[i + 1] /\ i + 1 \in 1..Len(queue)
          /\ queue'[j] = queue[j + 1] /\ j + 1 \in 1..Len(queue) /\ i + 1 < j + 1
      BY <1>1, <2>3
    <3> QED
      BY <2>3, <3>1 DEF StoreInv, TasksWorth
  <2> QED
    BY <2>2, <2>3 DEF TasksWorth
<1> QED
  BY <1>1, <1>2, <1>3
LEMMA CheckKeeps ==
  ASSUME StoreInv, Check
  PROVE  StoreInv'
<1> DEFINE by == queue[1].by
<1>1. /\ queue # <<>> /\ queue[1].kind = "check" /\ queue' = Tail(queue)
      /\ file' = IF file.state = "bad" THEN Missing ELSE file
      /\ excused' = (excused \/ file.state = "bad")
      /\ \/ by = "load" /\ Loaded(file.view) /\ UNCHANGED <<pc, call, seen, since>>
         \/ by # "load" /\ AnswerWith(by, file.view) /\ UNCHANGED <<memory, load>>
      /\ UNCHANGED <<style, writing, versions, acked, calls>>
  <2>1. queue # <<>> => Head(queue) = queue[1]
    BY DEF StoreInv, Types
  <2> QED
    BY <2>1 DEF Check
<1>2. style \notin Native
  BY <1>1, NotNative
<1>3. writing = Nothing
  BY <1>1 DEF StoreInv, TasksWorth
<1>4. 1 \in 1..Len(queue) /\ by \in Client \cup {"load"}
  BY <1>1, QueuedIs DEF StoreInv
<1>5. file.view \in View /\ file \in Document
  BY DEF StoreInv, Types, Document
<1>6. file' \in Document /\ (file'.state = "bad" \/ file'.view \in Since(acked)' \cup (IF excused' THEN {Empty} ELSE {}))
  <2>1. Since(acked)' = Since(acked)
    BY <1>1 DEF Since
  <2>2. CASE file.state = "bad"
    <3>1. file' = Missing /\ excused'
      BY <1>1, <2>2
    <3> QED
      BY <3>1, EmptyIs, GoodIs
  <2>3. CASE file.state # "bad"
    <3>1. file' = file /\ file.view \in Since(acked) \cup (IF excused THEN {Empty} ELSE {})
      BY <1>1, <1>2, <2>3 DEF StoreInv, HostsKeep
    <3> QED
      BY <1>1, <1>5, <2>1, <2>3, <3>1
  <2> QED
    BY <2>2, <2>3
<1>7. /\ queue' \in Seq(Tasks)
      /\ UNCHANGED <<memory, load>> => LoadsOnce'
      /\ UNCHANGED memory => TasksWorth'
      /\ \A i \in 1..Len(queue') : queue'[i] = queue[i + 1] /\ i + 1 \in 1..Len(queue)
  BY <1>1, <1>3, TaskHasEnded
<1>8. CASE by = "load" /\ Loaded(file.view) /\ UNCHANGED <<pc, call, seen, since>>
  <2>1. memory' = [loaded |-> TRUE, view |-> file.view, null |-> FALSE] /\ load' = "none"
    BY <1>8 DEF Loaded
  <2>2. IsLoad(queue[1])
    BY <1>1, <1>8 DEF IsLoad
  <2>3. load = "queued" /\ \A j \in 1..Len(queue) : IsLoad(queue[j]) => 1 = j
    BY <1>4, <2>2 DEF StoreInv, LoadsOnce
  <2>4. style \in JsonDocs /\ \A i \in 1..Len(queue) : queue[i].kind = "check"
    BY <2>3, OnlyLooks
  <2>5. ASSUME NEW i \in 1..Len(queue') PROVE ~IsLoad(queue'[i]) /\ queue'[i].kind = "check"
    <3>1. i + 1 # 1
      OBVIOUS
    <3> QED
      BY <1>7, <2>3, <2>4, <3>1
  <2>6. Types'
    BY <1>1, <1>5, <1>6, <1>7, <1>8, <2>1 DEF StoreInv, Types
  <2>7. LoadsOnce'
    BY <1>1, <2>1, <2>4, <2>5 DEF LoadsOnce, IsLoad
  <2>8. TasksWorth'
    BY <1>1, <1>3, <2>5 DEF TasksWorth, Worth
  <2>9. HostsKeep' /\ NativesKeep'
    BY <1>1, <1>2, <1>6, <1>8 DEF StoreInv, HostsKeep, NativesKeep
  <2> QED
    BY <2>6, <2>7, <2>8, <2>9 DEF StoreInv
<1>9. CASE by # "load" /\ AnswerWith(by, file.view) /\ UNCHANGED <<memory, load>>
  <2>1. by \in Client
    BY <1>4, <1>9
  <2>2. /\ pc' \in [Client -> Place] /\ call' \in [Client -> Call] /\ seen' \in [Client -> View]
        /\ pc'[by] = "answered" /\ \A d \in Client \ {by} : pc'[d] = pc[d]
    BY <1>5, <1>9, <2>1, AnswerIs DEF StoreInv
  <2>3. Types' /\ LoadsOnce' /\ TasksWorth'
    BY <1>1, <1>6, <1>7, <1>9, <2>2 DEF StoreInv, Types
  <2>4. \A d \in Client : pc'[d] \notin {"read", "writing", "adding"}
    BY <1>2, <2>2 DEF StoreInv, HostsKeep
  <2>5. HostsKeep' /\ NativesKeep'
    BY <1>1, <1>2, <1>6, <2>4 DEF HostsKeep, NativesKeep
  <2> QED
    BY <2>3, <2>5 DEF StoreInv
<1> QED
  BY <1>1, <1>8, <1>9

LEMMA WriteKeeps ==
  ASSUME StoreInv, writeNow \/ writeFails
  PROVE  StoreInv'
<1> DEFINE task == queue[1]
<1>1. /\ writing # Nothing /\ queue # <<>> /\ task.kind # "check"
      /\ writing.state # "bad" /\ writing.view \in Since(task.version)
  BY DEF writeNow, writeFails, StoreInv, TasksWorth
<1>2. /\ queue' = Tail(queue) /\ writing' = Nothing /\ Over({task.by})
      /\ UNCHANGED <<style, memory, load, versions, calls>>
  <2>1. Head(queue) = task
    BY <1>1 DEF StoreInv, Types
  <2> QED
    BY <2>1 DEF writeNow, writeFails, Settle, diskVars
<1>3. style \notin Native
  BY <1>1, NotNative
<1>4. 1 \in 1..Len(queue) /\ task.version \in Nat /\ Len(versions) \in Nat /\ acked \in 1..Len(versions)
  BY <1>1, QueuedIs DEF StoreInv, Types
<1>5. acked < task.version /\ task.version \in 1..Len(versions)
  <2>1. Worth(task)
    BY <1>4 DEF StoreInv, TasksWorth
  <2> QED
    BY <1>1, <1>4, <2>1 DEF Worth
<1>6. \/ file' = writing /\ acked' = task.version
      \/ file' = file /\ UNCHANGED <<acked, excused>>
  <2>1. Head(queue) = task
    BY <1>1 DEF StoreInv, Types
  <2>2. Later(acked, task.version) = task.version
    BY <1>4, <1>5 DEF Later
  <2> QED
    BY <2>1, <2>2 DEF writeNow, writeFails, diskVars
<1>7. acked' = acked \/ (task.kind # "check" /\ acked' = task.version)
  BY <1>1, <1>6
<1>8. queue' \in Seq(Tasks) /\ LoadsOnce' /\ TasksWorth'
  BY <1>1, <1>2, <1>7, TaskHasEnded
<1>9. /\ pc' \in [Client -> Place] /\ call' \in [Client -> Call] /\ seen' \in [Client -> View]
      /\ \A d \in Client : pc'[d] = "idle" \/ pc'[d] = pc[d]
  BY <1>2, OverIs DEF StoreInv
<1>10. file' \in Document /\ writing' \in Document /\ acked' \in 1..Len(versions)
  BY <1>2, <1>4, <1>5, <1>6, GoodIs, EmptyIs DEF StoreInv, Types
<1>11. Types'
  BY <1>2, <1>8, <1>9, <1>10 DEF StoreInv, Types
<1>12. file'.state = "bad" \/ file'.view \in Since(acked)' \cup (IF excused' THEN {Empty} ELSE {})
  <2>1. CASE file' = writing /\ acked' = task.version
    BY <1>1, <1>2, <2>1 DEF Since
  <2>2. CASE file' = file /\ UNCHANGED <<acked, excused>>
    BY <1>2, <1>3, <2>2 DEF Since, StoreInv, HostsKeep
  <2> QED
    BY <1>6, <2>1, <2>2
<1>13. \A d \in Client : pc'[d] \notin {"read", "writing", "adding"}
  BY <1>3, <1>9 DEF StoreInv, HostsKeep
<1>14. HostsKeep' /\ NativesKeep'
  BY <1>2, <1>3, <1>12, <1>13 DEF HostsKeep, NativesKeep
<1> QED
  BY <1>8, <1>11, <1>14 DEF StoreInv
-----------------------------------------------------------------------------
(* Faults                                                                   *)

LEMMA ReadFailsKeeps ==
  ASSUME StoreInv, readFails
  PROVE  StoreInv'
<1> DEFINE asked == {c \in Client : pc[c] = "asked"}
<1>1. /\ load = "reading" /\ load' = "none" /\ Over(asked)
      /\ UNCHANGED <<style, memory, queue, writing, file, versions, acked, excused, calls>>
  BY DEF readFails, diskVars
<1>2. style \notin Native
  BY <1>1, NotNative
<1>3. /\ pc' \in [Client -> Place] /\ call' \in [Client -> Call] /\ seen' \in [Client -> View]
      /\ \A d \in Client : pc'[d] = "idle" \/ pc'[d] = pc[d]
  <2> HIDE DEF asked
  <2> QED
    BY <1>1, OverIs DEF StoreInv
<1>4. \A d \in Client : pc'[d] \notin {"read", "writing", "adding"}
  BY <1>2, <1>3 DEF StoreInv, HostsKeep
<1>5. Types' /\ LoadsOnce' /\ TasksWorth'
  BY <1>1, <1>3 DEF StoreInv, Types, LoadsOnce, IsLoad, TasksWorth, Worth, Since, LatestVersion
<1>6. HostsKeep' /\ NativesKeep'
  BY <1>1, <1>2, <1>4 DEF StoreInv, HostsKeep, NativesKeep, Since
<1> QED
  BY <1>5, <1>6 DEF StoreInv

\* What is on disk is there for the next process, which knows of no call and has no queue.
LEMMA CrashKeeps ==
  ASSUME StoreInv, Crash, style \in {"file", "keystore"} => ~TornWrites
  PROVE  StoreInv'
<1>1. /\ TornWrites \/ \A c \in Client : pc[c] # "writing"
      /\ memory' = Unloaded /\ load' = "none" /\ queue' = <<>> /\ writing' = Nothing /\ Over(Client)
      /\ UNCHANGED <<style, file, versions, acked, excused, calls>>
  BY DEF Crash, diskVars
<1>2. /\ pc' \in [Client -> Place] /\ call' \in [Client -> Call] /\ seen' \in [Client -> View]
      /\ \A d \in Client : pc'[d] = "idle"
  BY <1>1, OverIs DEF StoreInv
<1>3. style \in Native => \A c \in Client : pc[c] # "writing"
  BY <1>1, KeychainIdle DEF Native
<1>4. /\ memory' \in [loaded : BOOLEAN, view : View, null : BOOLEAN] /\ ~memory'.loaded /\ ~memory'.null
      /\ queue' \in Seq(Tasks) /\ Len(queue') = 0 /\ writing' \in Document
  BY <1>1, EmptyIs, GoodIs DEF Unloaded
<1>5. Types'
  BY <1>1, <1>2, <1>4 DEF StoreInv, Types
<1>6. LoadsOnce' /\ TasksWorth'
  BY <1>1, <1>4 DEF LoadsOnce, TasksWorth
<1>7. HostsKeep' /\ NativesKeep'
  BY <1>1, <1>2, <1>3 DEF StoreInv, HostsKeep, NativesKeep, Since, LatestVersion, Busy
<1> QED
  BY <1>5, <1>6, <1>7 DEF StoreInv

LEMMA DamageKeeps ==
  ASSUME StoreInv, Damage
  PROVE  StoreInv'
<1>1. /\ style \notin Native /\ file' = Bad
      /\ UNCHANGED <<style, versions, acked, excused, memory, load, queue, writing, pc, call, seen, calls>>
  BY DEF Damage, docVars
<1>2. file' \in Document /\ file'.state = "bad"
  BY <1>1, GoodIs, EmptyIs
<1>3. Types' /\ LoadsOnce' /\ TasksWorth'
  BY <1>1, <1>2 DEF StoreInv, Types, LoadsOnce, IsLoad, TasksWorth, Worth, Since, LatestVersion
<1>4. HostsKeep' /\ NativesKeep'
  BY <1>1, <1>2 DEF StoreInv, HostsKeep, NativesKeep
<1> QED
  BY <1>3, <1>4 DEF StoreInv

-----------------------------------------------------------------------------
(* The specification                                                        *)

LEMMA StoreStarts ==
  ASSUME StoreInit
  PROVE  StoreInv
<1> DEFINE view == [k \in Key |-> IF k = CHOOSE key \in Key : TRUE THEN 1 ELSE 0]
<1>1. /\ style \in Style /\ file = Good(view) /\ memory = Unloaded /\ load = "none" /\ queue = <<>> /\ writing = Nothing
      /\ pc = [c \in Client |-> "idle"] /\ call = [c \in Client |-> NoCall] /\ seen = [c \in Client |-> Empty]
      /\ versions = <<file.view>> /\ acked = 1 /\ calls = 1
  BY DEF StoreInit
<1>2. view \in View
  BY DEF View
<1> HIDE DEF view
<1>3. file \in Document /\ file.view = view /\ file.state = "good" /\ writing \in Document
  BY <1>1, <1>2, GoodIs
<1>4. versions = <<view>> /\ versions \in Seq(View) /\ Len(versions) = 1 /\ versions[1] = view
  BY <1>1, <1>2, <1>3
<1>5. /\ memory \in [loaded : BOOLEAN, view : View, null : BOOLEAN] /\ ~memory.loaded /\ ~memory.null
  BY <1>1, EmptyIs DEF Unloaded
<1>6. /\ pc \in [Client -> Place] /\ call \in [Client -> Call] /\ seen \in [Client -> View]
      /\ \A c \in Client : pc[c] = "idle"
  BY <1>1, EmptyIs DEF Place, Call, NoCall
<1>7. Types
  BY <1>1, <1>3, <1>4, <1>5, <1>6 DEF Types
<1>8. LoadsOnce /\ TasksWorth
  BY <1>1, <1>5 DEF LoadsOnce, TasksWorth
<1>9. LatestVersion = view /\ view \in Since(acked)
  BY <1>1, <1>4 DEF LatestVersion, Since
<1>10. HostsKeep /\ NativesKeep
  BY <1>1, <1>3, <1>4, <1>6, <1>9 DEF HostsKeep, NativesKeep, Busy
<1> QED
  BY <1>7, <1>8, <1>10 DEF StoreInv

LEMMA StoreStands ==
  ASSUME StoreInv, UNCHANGED storeVars
  PROVE  StoreInv'
  BY ZenonT(60) DEF storeVars, StoreInv, Types, LoadsOnce, IsLoad, TasksWorth, Worth, HostsKeep, NativesKeep, Since, LatestVersion, Busy

LEMMA StoreSteps ==
  ASSUME StoreInv, [StoreNext]_storeVars, Style \cap {"file", "keystore"} # {} => ~Parallel /\ ~TornWrites
  PROVE  StoreInv'
<1>1. style \in {"file", "keystore"} => ~Parallel /\ ~TornWrites
  BY DEF StoreInv, Types
<1>2. CASE DocStep
  BY <1>2, ReadJsonFileKeeps, BeginKeeps, CheckKeeps, WriteKeeps DEF DocStep
<1>3. ASSUME NEW c \in Client, Ask(c) \/ ClientStep(c) PROVE StoreInv'
  <2>1. CASE storageRead(c)
    <3>1. ~Parallel
      BY <1>1, <2>1 DEF storageRead
    <3> QED
      BY <2>1, <3>1, StorageReadKeeps
  <2>2. CASE keychainGet(c) \/ keychainSet(c) \/ keychainDelete(c)
    BY <2>2, KeychainSetKeeps
  <2>3. CASE update(c) \/ putPlain(c) \/ getPlain(c)
    BY <2>3, UpdateKeeps, PutPlainKeeps, GetPlainKeeps
  <2>4. CASE Return(c) \/ storageWrite(c) \/ storageWritten(c) \/ Ask(c)
    BY <2>4, AskKeeps, ReturnKeeps, StorageWriteKeeps, StorageWrittenKeeps
  <2> QED
    BY <1>3, <2>1, <2>2, <2>3, <2>4 DEF ClientStep
<1>4. CASE writeFails \/ readFails \/ Crash \/ Damage
  BY <1>1, <1>4, WriteKeeps, ReadFailsKeeps, CrashKeeps, DamageKeeps
<1> QED
  BY <1>2, <1>3, <1>4, StoreStands DEF StoreNext

(* A store of any kind keeps, on disk, the document as it was at the last   *)
(* acknowledged change or later, through any number of overlapping calls,   *)
(* failed reads and writes, crashes and damages: json-file.ts's JsonDoc,    *)
(* whose flushes go one by one through onPath's queue and write what is in  *)
(* memory when they run; the plain files written whole behind the same      *)
(* queue; the natives' secure storage.  A native file that is read and      *)
(* written again must not be so by two calls at once, nor be torn by a stop.*)
THEOREM StoresKeepWhatTheyAcknowledge ==
  ASSUME Style \cap {"file", "keystore"} # {} => ~Parallel /\ ~TornWrites
  PROVE  StoreSpec => []AckedKept
<1>1. StoreInit => StoreInv
  BY StoreStarts
<1>2. StoreInv /\ [StoreNext]_storeVars => StoreInv'
  BY StoreSteps
<1>3. StoreInv => AckedKept
  <2> SUFFICES ASSUME StoreInv PROVE AckedKept
    OBVIOUS
  <2>1. CASE style \notin Native
    BY <2>1 DEF StoreInv, HostsKeep, AckedKept
  <2>2. CASE style \in Native
    <3>1. LatestVersion \in Since(acked)
      BY <2>2, SinceIs DEF StoreInv, NativesKeep
    <3> QED
      BY <2>2, <3>1 DEF StoreInv, NativesKeep, AckedKept
  <2> QED
    BY <2>1, <2>2
<1> QED
  BY <1>1, <1>2, <1>3, PTL DEF StoreSpec
-----------------------------------------------------------------------------
(* Reads: what a JsonDoc has in memory is as current as what is on disk,    *)
(* and no call was made when more had been acknowledged than has been now.  *)

Current == Since(acked) \cup (IF excused THEN {Empty} ELSE {})

Reads ==
  /\ memory.loaded => memory.view \in Current
  /\ file.state = "bad" => file.view = Empty
  /\ since \in [Client -> Nat] /\ \A c \in Client : since[c] <= acked

LEMMA SinceGrows ==
  ASSUME Types, NEW v \in Nat, v <= acked
  PROVE  Since(acked) \subseteq Since(v)
  BY DEF Types, Since

\* Nothing that was acknowledged is taken back, and a call under way keeps the moment it was made.
LEMMA CallsStand ==
  ASSUME StoreInv, Reads, [StoreNext]_storeVars
  PROVE  since' \in [Client -> Nat] /\ \A c \in Client : since'[c] <= acked'
<1>1. Types /\ acked \in Nat /\ Len(versions) \in Nat /\ acked <= Len(versions)
  BY DEF StoreInv, Types
<1>2. acked' \in Nat /\ acked <= acked'
  <2>1. ASSUME NEW view, Acknowledge(view) PROVE acked' = Len(versions) + 1
    BY <1>1, <2>1 DEF Acknowledge, Types
  <2>2. ASSUME writeNow PROVE acked' \in Nat /\ acked <= acked'
    <3>1. queue # <<>>
      BY <2>2 DEF writeNow, StoreInv, TasksWorth
    <3>2. Head(queue).version \in Nat
      BY <1>1, <3>1, QueuedIs DEF Types
    <3> QED
      BY <1>1, <2>2, <3>2 DEF writeNow, Later
  <2>3. \/ acked' = acked \/ writeNow \/ \E view : Acknowledge(view)
    BY DEF StoreNext, storeVars, DocStep, ClientStep, Ask, readJsonFile, Begin, Check, update, putPlain, getPlain, Return,
           storageRead, storageWrite, storageWritten, keychainGet, keychainSet, keychainDelete,
           writeFails, readFails, Crash, Damage, diskVars
  <2> QED
    BY <1>1, <2>1, <2>2, <2>3
<1>3. \/ since' = since
      \/ \E c \in Client : since' = [since EXCEPT ![c] = acked]
      \/ \E callers : since' = [c \in Client |-> IF c \in callers THEN 0 ELSE since[c]]
  BY ZenonT(60) DEF StoreNext, storeVars, DocStep, ClientStep, Ask, readJsonFile, Begin, Check, writeNow, update, putPlain, getPlain, Return,
         storageRead, storageWrite, storageWritten, keychainGet, keychainSet, keychainDelete,
         writeFails, readFails, Crash, Damage, diskVars, AnswerWith, Over
<1>4. since \in [Client -> Nat] /\ \A c \in Client : since[c] <= acked
  BY DEF Reads
<1> QED
  BY <1>1, <1>2, <1>3, <1>4
LEMMA BadIsEmpty ==
  ASSUME StoreInv, Reads, [StoreNext]_storeVars
  PROVE  file'.state = "bad" => file'.view = Empty
<1>1. ASSUME NEW view, file' = Good(view) PROVE file'.state # "bad"
  BY <1>1 DEF Good
<1>2. \/ file' = file \/ file' \in {Bad, Missing} \/ (\E view : file' = Good(view)) \/ writeNow
  BY Zenon DEF StoreNext, storeVars, DocStep, ClientStep, Ask, readJsonFile, Begin, Check, update, putPlain, getPlain, Return,
         storageRead, storageWrite, storageWritten, keychainGet, keychainSet, keychainDelete,
         writeFails, readFails, Crash, Damage, diskVars
<1>3. ASSUME writeNow PROVE file'.state # "bad"
  BY <1>3 DEF writeNow, StoreInv, TasksWorth
<1> QED
  BY <1>1, <1>2, <1>3 DEF Reads, Bad, Missing

LEMMA MemoryIsCurrent ==
  ASSUME StoreInv, Reads, [StoreNext]_storeVars
  PROVE  (memory.loaded => memory.view \in Current)'
<1> USE DEF Current
<1>1. /\ Types /\ acked \in 1..Len(versions) /\ Len(versions) \in Nat /\ Len(versions) > 0
      /\ file.view \in View /\ memory.view \in View
      /\ memory.loaded => style \in JsonDocs /\ style # "plain" /\ style \notin Native
  <2>1. memory.loaded => style \in JsonDocs /\ style # "plain" /\ style \notin Native
    BY DEF StoreInv, LoadsOnce, JsonDocs, Native
  <2>2. Len(versions) \in Nat
    BY DEF StoreInv, Types
  <2>3. file.view \in View /\ memory.view \in View
    BY DEF StoreInv, Types, Document
  <2> QED
    BY <2>1, <2>2, <2>3 DEF StoreInv, Types
<1>2. CASE UNCHANGED <<memory, versions, acked, excused>>
  BY <1>2 DEF Reads, Since
<1>3. CASE \E c \in Client : storageWritten(c) \/ keychainSet(c) \/ keychainDelete(c) \/ putPlain(c)
  <2>1. PICK c \in Client : storageWritten(c) \/ keychainSet(c) \/ keychainDelete(c) \/ putPlain(c)
    BY <1>3
  <2>2. style \in Native \/ style = "plain"
    BY <2>1 DEF storageWritten, keychainSet, keychainDelete, putPlain, StoreInv, HostsKeep, Native
  <2>3. UNCHANGED memory
    BY <2>1 DEF storageWritten, keychainSet, keychainDelete, putPlain, docVars
  <2> QED
    BY <1>1, <2>2, <2>3
<1>4. CASE writeNow
  <2>1. /\ UNCHANGED <<memory, versions>> /\ queue # <<>> /\ queue[1].kind # "check" /\ acked' = Later(acked, queue[1].version)
    BY <1>1, <1>4 DEF writeNow, StoreInv, TasksWorth, Types
  <2>2. Worth(queue[1]) /\ queue[1].version \in Nat
    BY <1>1, <2>1, QueuedIs DEF StoreInv, TasksWorth
  <2>3. memory.loaded => memory.view = LatestVersion
    BY <1>1, <2>1, <2>2 DEF Worth
  <2>4. acked' \in 1..Len(versions)
    BY <1>1, <2>1, <2>2 DEF Worth, Later
  <2>5. LatestVersion \in Since(acked)'
    BY <1>1, <2>1, <2>4 DEF Since, LatestVersion
  <2> QED
    BY <2>1, <2>3, <2>5
<1>5. CASE \E c \in Client : update(c)
  <2>1. PICK c \in Client : update(c)
    BY <1>5
  <2>2. CASE UNCHANGED <<memory, versions>>
    BY <1>2, <2>1, <2>2 DEF update
  <2>3. CASE /\ memory' = [memory EXCEPT !.view = Changed(memory.view, call[c]),
                                         !.null = style = "nullable" /\ call[c].kind = "delete" /\ call[c].key = Key]
             /\ versions' = Append(versions, Changed(memory.view, call[c]))
    <3>1. Changed(memory.view, call[c]) \in View
      BY <1>1, ViewsChange DEF Types
    <3>2. memory'.view = Changed(memory.view, call[c])
      BY <2>3 DEF StoreInv, Types
    <3>3. Changed(memory.view, call[c]) \in Since(acked)'
      <4>1. \A v \in 1..Len(versions) : Changed(memory.view, call[c]) \in {versions'[i] : i \in v..Len(versions')}
        BY <1>1, <2>3, <3>1, VersionsGrow DEF Since
      <4>2. acked' = acked
        BY <2>1 DEF update
      <4> QED
        BY <1>1, <4>1, <4>2 DEF Since
    <3> QED
      BY <3>2, <3>3
  <2> QED
    BY <2>1, <2>2, <2>3, Zenon DEF update, onPath
<1>6. CASE readJsonFile
  <2>1. UNCHANGED <<file, versions, acked, excused>> /\ load = "reading"
    BY <1>6 DEF readJsonFile, diskVars
  <2>2. CASE UNCHANGED memory
    BY <1>2, <2>1, <2>2
  <2>3. CASE file.state # "bad" /\ Loaded(file.view)
    <3>1. file.view \in Current
      BY <2>1, <2>3, NotNative DEF StoreInv, HostsKeep
    <3> QED
      BY <2>1, <2>3, <3>1 DEF Loaded, Since
  <2> QED
    BY <1>6, <2>2, <2>3 DEF readJsonFile
<1>7. CASE Check
  <2>1. UNCHANGED <<versions, acked>> /\ excused' = (excused \/ file.state = "bad") /\ queue # <<>>
    BY <1>7 DEF Check
  <2>2. CASE UNCHANGED memory
    BY <2>1, <2>2 DEF Since, Reads
  <2>3. CASE Loaded(file.view)
    <3>1. memory'.view = file.view
      BY <2>3 DEF Loaded
    <3>2. CASE file.state = "bad"
      BY <2>1, <3>1, <3>2 DEF Reads
    <3>3. CASE file.state # "bad"
      BY <2>1, <3>1, <3>3, NotNative DEF StoreInv, HostsKeep, Since
    <3> QED
      BY <3>2, <3>3
  <2> QED
    BY <1>7, <2>2, <2>3 DEF Check
<1>8. CASE Crash
  BY <1>8 DEF Crash, Unloaded
<1>9. CASE \/ Begin \/ writeFails \/ readFails \/ Damage \/ UNCHANGED storeVars
           \/ \E c \in Client : \/ Ask(c) \/ getPlain(c) \/ Return(c) \/ storageRead(c) \/ storageWrite(c) \/ keychainGet(c)
  <2>1. UNCHANGED <<memory, versions, acked, excused>>
    BY <1>9 DEF Begin, writeFails, readFails, Damage, storeVars, Ask, getPlain, Return, storageRead, storageWrite, keychainGet,
                diskVars, docVars
  <2> QED
    BY <1>2, <2>1
<1> QED
  BY <1>3, <1>4, <1>5, <1>6, <1>7, <1>8, <1>9 DEF StoreNext, DocStep, ClientStep
LEMMA AnswersAreCurrent ==
  ASSUME StoreInv, Reads, [StoreNext]_storeVars, style \in {"file", "keystore"} => ~Parallel,
         NEW c \in Client, pc[c] # "answered", pc'[c] = "answered"
  PROVE  seen'[c] \in Since(since[c]) \cup (IF excused' THEN {Empty} ELSE {})
<1>1. /\ Types /\ acked \in 1..Len(versions) /\ Len(versions) \in Nat
      /\ since[c] \in Nat /\ since[c] <= acked /\ Since(acked) \subseteq Since(since[c])
      /\ pc \in [Client -> Place] /\ seen \in [Client -> View]
  BY SinceGrows DEF StoreInv, Types, Reads
<1>2. ASSUME NEW d \in Client, NEW view, AnswerWith(d, view) PROVE c = d /\ seen'[c] = view
  BY <1>1, <1>2 DEF AnswerWith
<1>3. ASSUME NEW callers, Over(callers) PROVE FALSE
  BY <1>3 DEF Over
<1>4. ASSUME NEW d \in Client, NEW place \in Place, place # "answered", pc' = [pc EXCEPT ![d] = place] PROVE FALSE
  BY <1>1, <1>4
<1>5. {"asked", "waiting", "read", "writing", "adding"} \subseteq Place
  BY DEF Place
<1>6. ASSUME NEW view, seen'[c] = view, view \in Current, excused => excused'
      PROVE  seen'[c] \in Since(since[c]) \cup (IF excused' THEN {Empty} ELSE {})
  BY <1>1, <1>6 DEF Current
<1>7. style \notin Native /\ file.state # "bad" => file.view \in Current
  BY DEF StoreInv, HostsKeep, Current
<1>8. style \in Native /\ file.view = LatestVersion => file.view \in Current
  BY <1>1, SinceIs DEF Current
<1>9. CASE \E d \in Client : update(d)
  <2>1. PICK d \in Client : update(d)
    BY <1>9
  <2>2. memory.loaded /\ UNCHANGED excused
    BY <2>1 DEF update
  <2>3. memory.view \in Current
    BY <2>2 DEF Reads
  <2>4. AnswerWith(d, memory.view)
    BY <1>3, <1>4, <1>5, <2>1 DEF update
  <2> QED
    BY <1>2, <1>6, <2>2, <2>3, <2>4
<1>10. CASE Check
  <2>1. excused' = (excused \/ file.state = "bad") /\ queue # <<>>
    BY <1>10 DEF Check
  <2>2. Head(queue).by # "load" /\ AnswerWith(Head(queue).by, file.view)
    BY <1>10 DEF Check
  <2>3. Head(queue).by \in Client
    BY <2>1, <2>2, QueuedIs DEF StoreInv, Types
  <2>4. seen'[c] = file.view
    BY <1>2, <2>2, <2>3
  <2>5. CASE file.state = "bad"
    BY <2>1, <2>4, <2>5 DEF Reads
  <2>6. CASE file.state # "bad"
    BY <1>6, <1>7, <2>1, <2>4, <2>6, NotNative
  <2> QED
    BY <2>5, <2>6
<1>11. CASE \E d \in Client : getPlain(d)
  <2>1. PICK d \in Client : getPlain(d)
    BY <1>11
  <2>2. style = "plain" /\ UNCHANGED excused
    BY <2>1 DEF getPlain, diskVars
  <2>3. file.state # "bad" /\ AnswerWith(d, file.view)
    BY <1>4, <1>5, <2>1 DEF getPlain
  <2> QED
    BY <1>2, <1>6, <1>7, <2>2, <2>3, NotNative
<1>12. CASE \E d \in Client : storageRead(d) \/ keychainGet(d)
  <2>1. PICK d \in Client : storageRead(d) \/ keychainGet(d)
    BY <1>12
  <2>2. AnswerWith(d, file.view) /\ UNCHANGED excused
    BY <1>4, <1>5, <2>1 DEF storageRead, keychainGet, diskVars
  <2>3. style \in Native /\ file.view = LatestVersion
    <3>1. CASE keychainGet(d)
      BY <3>1, KeychainIdle DEF keychainGet
    <3>2. CASE storageRead(d)
      <4>1. style \in {"file", "keystore"} /\ pc[d] = "asked" /\ \A e \in Client \ {d} : pc[e] \in {"idle", "asked", "answered"}
        BY <3>2 DEF storageRead, Alone
      <4>2. style \in Native /\ \A e \in Client : pc[e] # "writing"
        BY <4>1 DEF Native
      <4> QED
        BY <4>2 DEF StoreInv, NativesKeep
    <3> QED
      BY <2>1, <3>1, <3>2
  <2> QED
    BY <1>2, <1>6, <1>8, <2>2, <2>3
<1>13. CASE \/ readJsonFile \/ Begin \/ writeNow \/ writeFails \/ readFails \/ Crash \/ Damage \/ UNCHANGED storeVars
            \/ \E d \in Client : \/ Ask(d) \/ putPlain(d) \/ Return(d) \/ storageWrite(d) \/ storageWritten(d)
                                 \/ keychainSet(d) \/ keychainDelete(d)
  <2>1. \/ UNCHANGED pc
        \/ \E callers : Over(callers)
        \/ \E d \in Client, place \in {"asked", "waiting", "writing", "adding"} : pc' = [pc EXCEPT ![d] = place]
    BY <1>13, Zenon DEF readJsonFile, Begin, writeNow, writeFails, readFails, Crash, Damage, storeVars, Ask, putPlain, Return,
                storageWrite, storageWritten, keychainSet, keychainDelete
  <2> QED
    BY <1>3, <1>4, <1>5, <2>1
<1> QED
  BY <1>9, <1>10, <1>11, <1>12, <1>13 DEF StoreNext, DocStep, ClientStep

(* A call answers with what the document was when it was made, or later:    *)
(* JsonDoc.get and update read memory, which a load or a second look fills  *)
(* with a file no older than what was acknowledged; getPlain reads the file,*)
(* behind the writes queued before it when it will not parse.               *)
THEOREM AnswersStayCurrent ==
  ASSUME Style \cap {"file", "keystore"} # {} => ~Parallel /\ ~TornWrites
  PROVE  StoreSpec => ReadsCurrent
<1> DEFINE Answers == \A c \in Client : pc[c] # "answered" /\ pc'[c] = "answered" =>
                        seen'[c] \in Since(since[c]) \cup (IF excused' THEN {Empty} ELSE {})
<1>1. StoreInit => StoreInv /\ Reads
  <2> SUFFICES ASSUME StoreInit PROVE Reads
    BY StoreStarts
  <2>1. file.state = "good"
    BY DEF StoreInit, Good
  <2> QED
    BY <2>1 DEF StoreInit, Reads, Unloaded
<1>2. (StoreInv /\ Reads) /\ [StoreNext]_storeVars => (StoreInv /\ Reads)'
  <2> SUFFICES ASSUME StoreInv, Reads, [StoreNext]_storeVars PROVE StoreInv' /\ Reads'
    OBVIOUS
  <2>1. StoreInv'
    BY StoreSteps
  <2>2. Reads'
    BY CallsStand, BadIsEmpty, MemoryIsCurrent DEF Reads
  <2> QED
    BY <2>1, <2>2
<1>3. (StoreInv /\ Reads) /\ [StoreNext]_storeVars => [Answers]_storeVars
  <2> SUFFICES ASSUME StoreInv, Reads, [StoreNext]_storeVars PROVE Answers
    OBVIOUS
  <2>1. style \in {"file", "keystore"} => ~Parallel
    BY DEF StoreInv, Types
  <2> QED
    BY <2>1, AnswersAreCurrent
<1> QED
  BY <1>1, <1>2, <1>3, PTL DEF StoreSpec, ReadsCurrent
=============================================================================
