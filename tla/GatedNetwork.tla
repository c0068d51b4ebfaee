---------------------------- MODULE GatedNetwork ----------------------------
(***************************************************************************)
(* The network a bridge is given (core/src/net): every request waits for a *)
(* start that the source's pace allows, a "slow down" pauses the requests  *)
(* behind it, and a request that cannot be tried again in time is refused. *)
(*                                                                         *)
(* Requests come from callers, each with one at a time.  A step is what    *)
(* runs between two awaits.  Times are kept as the time that is left until *)
(* they come, so that a step of the clock shortens them all; a timer that  *)
(* has run out fires then or later.  One route has a quota of its own.     *)
(* Cookies, headers and the texts of errors are left out.                  *)
(***************************************************************************)
EXTENDS Integers, Sequences, FiniteSets, SequencesExt

CONSTANTS
  None,
  Caller,
  Pace, Declared,    \* [max, interval] of the limiter: at first, and as the bridge declares it
  Quota,             \* [limit, window] of the route the bridge declares
  MaxInlineWait,     \* how long a request may be held in all over refusals
  BackoffStart, BackoffMax,
  Named              \* the waits a source may name

ASSUME PacePositive ==
  /\ \A p \in {Pace, Declared} : p.max \in Nat \ {0} /\ p.interval \in Nat
  /\ Quota.limit \in Nat \ {0} /\ Quota.window \in Nat \ {0}
ASSUME WaitsNatural ==
  MaxInlineWait \in Nat /\ BackoffStart \in Nat \ {0} /\ BackoffMax \in Nat \ {0} /\ Named \subseteq Nat

VARIABLES
  limiter,   \* the bridge-wide limiter
  route,     \* the route's, or None before the bridge has declared it
  backoff,   \* the wait the next 429 stands for that names none: it doubles with each in a row
  req        \* caller -> its request

gate == <<limiter, route, backoff, req>>

\* since: the time since the last start.  starts: for each start in the window, when it leaves it.
RateLimiter ==
  [max : Nat, interval : Nat, active : Nat, since : Nat, pause : Nat, timer : Nat \cup {None}, queue : Seq(Caller)]
WindowLimiter ==
  [limit : Nat, window : Nat, starts : Seq(Nat), pause : Nat, timer : Nat \cup {None}, queue : Seq(Caller)]
ASSUME NoneAssumption == None \notin Nat /\ None \notin WindowLimiter
Request ==
  [pc : {"none", "window", "queued", "sent", "done", "limited"}, routed : BOOLEAN, again : BOOLEAN, left : Nat]

NoRequest == [pc |-> "none", routed |-> FALSE, again |-> FALSE, left |-> 0]
Sent(rs) == {c \in Caller : rs[c].pc = "sent"}
Waiting(c) == req[c].pc \in {"window", "queued", "sent"}

Larger(a, b) == IF a > b THEN a ELSE b
Smaller(a, b) == IF a < b THEN a ELSE b
Less(a) == IF a = 0 THEN 0 ELSE a - 1

------------------------------------------------------------------------------
(* The bridge-wide limiter: so many in flight, so far apart *)

Wait(l) == Larger(l.interval - l.since, l.pause)

\* How many of the queue start now: one, unless starts may be together.
Startable(l) ==
  IF l.active >= l.max \/ Wait(l) > 0 THEN 0
  ELSE Smaller(Len(l.queue), IF l.interval > 0 THEN 1 ELSE l.max - l.active)

\* Mutant: a timer is set for the interval only; a pause is left to whoever set it.
armedForTheInterval(l) ==
  IF l.queue # <<>> /\ l.active < l.max /\ l.interval > l.since /\ l.timer = None
  THEN [l EXCEPT !.timer = Wait(l)] ELSE l

\* A start that must wait, and could start, has a timer.
armed(l) ==
  IF l.queue # <<>> /\ l.active < l.max /\ Wait(l) > 0 /\ l.timer = None
  THEN [l EXCEPT !.timer = Wait(l)] ELSE l

drain(l) ==
  LET n == Startable(l) IN
  armed(IF n = 0 THEN l
        ELSE [l EXCEPT !.queue = SubSeq(@, n + 1, Len(@)), !.active = @ + n, !.since = 0])

Starting(l) == ToSet(SubSeq(l.queue, 1, Startable(l)))
pauseUntil(l, wait) == IF wait <= l.pause THEN l ELSE [l EXCEPT !.pause = wait]

------------------------------------------------------------------------------
(* The route's: so many starts in a window *)

Room(w) == IF w.pause > 0 \/ Len(w.starts) >= w.limit THEN 0 ELSE Smaller(w.limit - Len(w.starts), Len(w.queue))

windowDrain(w) ==
  LET n == Room(w)
      m == [w EXCEPT !.queue = SubSeq(@, n + 1, Len(@)), !.starts = @ \o [i \in 1..n |-> w.window]]
      next == Larger(m.pause, IF Len(m.starts) >= m.limit THEN m.starts[1] ELSE 0)
  IN IF m.queue # <<>> /\ m.timer = None THEN [m EXCEPT !.timer = next] ELSE m

Through(w) == SubSeq(w.queue, 1, Room(w))

------------------------------------------------------------------------------
(* What a step does to the two and to the requests in them *)

\* The limiter is drained: those that start are sent.
Drained(l, rs) ==
  /\ limiter' = drain(l)
  /\ req' = [c \in Caller |-> IF c \in Starting(l) THEN [rs[c] EXCEPT !.pc = "sent"] ELSE rs[c]]

\* The route is drained first, and those it lets through join the limiter's queue.
RouteDrained(w, l, rs) ==
  LET through == Through(w)
      moved == [c \in Caller |-> IF c \in ToSet(through) THEN [rs[c] EXCEPT !.pc = "queued"] ELSE rs[c]]
  IN /\ route' = windowDrain(w)
     /\ IF through = <<>> THEN limiter' = l /\ req' = moved
        ELSE Drained([l EXCEPT !.queue = @ \o through], moved)

\* Mutant: only a pause refuses a request; one whose time is over is tried once more, each time.
AttemptForEver(c, w, l, rs) ==
  LET r == rs[c]
      resume == IF r.routed THEN Larger(l.pause, w.pause) ELSE l.pause
  IN IF resume > r.left /\ ~r.again
     THEN limiter' = l /\ route' = w /\ req' = [rs EXCEPT ![c].pc = "limited"]
     ELSE IF r.routed
     THEN RouteDrained([w EXCEPT !.queue = Append(@, c)], l, [rs EXCEPT ![c].pc = "window"])
     ELSE route' = w /\ Drained([l EXCEPT !.queue = Append(@, c)], [rs EXCEPT ![c].pc = "queued"])

\* One pass of the request loop: refused when a pause outlasts its time, else queued.
Attempt(c, w, l, rs) ==
  LET r == rs[c]
      resume == IF r.routed THEN Larger(l.pause, w.pause) ELSE l.pause
  IN IF resume > r.left \/ (r.again /\ r.left = 0)
     THEN limiter' = l /\ route' = w /\ req' = [rs EXCEPT ![c].pc = "limited"]
     ELSE IF r.routed
     THEN RouteDrained([w EXCEPT !.queue = Append(@, c)], l, [rs EXCEPT ![c].pc = "window"])
     ELSE route' = w /\ Drained([l EXCEPT !.queue = Append(@, c)], [rs EXCEPT ![c].pc = "queued"])

request(c) ==
  /\ ~Waiting(c)
  /\ \E routed \in {FALSE} \cup {route # None} :
       Attempt(c, route, limiter,
         [req EXCEPT ![c] = [pc |-> "none", routed |-> routed, again |-> FALSE, left |-> MaxInlineWait]])
  /\ UNCHANGED backoff

released(l) == [l EXCEPT !.active = @ - 1]

\* The first times 2 ^ (strikes - 1), up to the cap.
FirstBackoff == Smaller(BackoffStart, BackoffMax)
NextBackoff == Smaller(2 * backoff, BackoffMax)

\* The source answered, with a page or an error of its own, or could not be reached.
Answer(c) ==
  /\ req[c].pc = "sent"
  /\ \E ok \in BOOLEAN :
       /\ backoff' = IF ok THEN FirstBackoff ELSE backoff
       /\ Drained(released(limiter), [req EXCEPT ![c].pc = "done"])
  /\ UNCHANGED route

\* The source said to slow down, and when to come back or not.  The place in flight is given up,
\* and another may start in it; then the pause is set, on the route alone for a routed request, and
\* the request is tried again.
SlowDown(c) ==
  /\ req[c].pc = "sent"
  /\ \E named \in Named \cup {None}, is429 \in BOOLEAN :
       /\ is429 \/ named # None
       /\ backoff' = IF is429 THEN NextBackoff ELSE backoff
       /\ LET r == req[c]
              wait == IF named = None THEN backoff ELSE named
              hold == IF r.again THEN Larger(wait, BackoffStart) ELSE wait
              l1 == released(limiter)
              rs == [x \in Caller |-> IF x \in Starting(l1) THEN [req[x] EXCEPT !.pc = "sent"]
                                      ELSE IF x = c THEN [r EXCEPT !.again = TRUE] ELSE req[x]]
              l2 == IF r.routed THEN drain(l1) ELSE armed(pauseUntil(drain(l1), hold))
              w2 == IF r.routed THEN pauseUntil(route, hold) ELSE route
          IN Attempt(c, IF r.routed /\ w2 # route THEN windowDrain(w2) ELSE w2, l2, rs)

\* A timer that ran out.
limiterTimer ==
  /\ limiter.timer = 0
  /\ Drained([limiter EXCEPT !.timer = None], req)
  /\ UNCHANGED <<route, backoff>>
routeTimer ==
  /\ route # None /\ route.timer = 0
  /\ RouteDrained([route EXCEPT !.timer = None], limiter, req)
  /\ UNCHANGED backoff

\* The loader has read what the bridge declares: the pace is the bridge's now, and the route its own.
reconfigure ==
  /\ route = None
  /\ route' = [limit |-> Quota.limit, window |-> Quota.window, starts |-> <<>>, pause |-> 0,
               timer |-> None, queue |-> <<>>]
  /\ Drained([limiter EXCEPT !.max = Declared.max, !.interval = Declared.interval], req)
  /\ UNCHANGED backoff

\* The oldest starts, as far as they have left the window.
prune(starts) == SubSeq(starts, Cardinality({i \in 1..Len(starts) : \A j \in 1..i : starts[j] = 0}) + 1, Len(starts))

\* Time passes by one.
LaterTimer(t) == IF t = None THEN None ELSE Less(t)
LongestInterval == Larger(Pace.interval, Declared.interval)
Elapse ==
  /\ limiter' = [limiter EXCEPT !.since = Smaller(@ + 1, LongestInterval), !.pause = Less(@), !.timer = LaterTimer(@)]
  /\ route' = IF route = None THEN None
              ELSE [route EXCEPT !.pause = Less(@), !.timer = LaterTimer(@),
                     !.starts = prune([i \in 1..Len(@) |-> Less(@[i])])]
  /\ req' = [c \in Caller |-> IF Waiting(c) THEN [req[c] EXCEPT !.left = Less(@)] ELSE req[c]]
  /\ UNCHANGED backoff

Init ==
  /\ limiter = [max |-> Pace.max, interval |-> Pace.interval, active |-> 0, since |-> LongestInterval,
                pause |-> 0, timer |-> None, queue |-> <<>>]
  /\ route = None /\ backoff = FirstBackoff /\ req = [c \in Caller |-> NoRequest]

Next ==
  \/ \E c \in Caller : request(c) \/ Answer(c) \/ SlowDown(c)
  \/ limiterTimer \/ routeTimer \/ reconfigure \/ Elapse

Spec == Init /\ [][Next]_gate

\* The clock goes on, timers fire, and the source answers what it is sent: with whatever it likes.
FairSpec ==
  /\ Spec /\ WF_gate(Elapse) /\ WF_gate(limiterTimer) /\ WF_gate(routeTimer)
  /\ \A c \in Caller : WF_gate(Answer(c) \/ SlowDown(c))

------------------------------------------------------------------------------
TypeOK ==
  /\ limiter \in RateLimiter /\ backoff \in Nat
  /\ route \in WindowLimiter \cup {None} /\ req \in [Caller -> Request]

\* No request is forgotten in a queue: whenever one waits that could start, a timer will start it
\* (drain: every path that does not start the head of the queue leaves a timer or a release to come).
NoLostWakeup ==
  /\ limiter.queue # <<>> /\ limiter.active < limiter.max => limiter.timer # None
  /\ route # None => (route.queue # <<>> => route.timer # None)

\* A place in flight is a request that was sent and not answered: none leaks, however the request ends.
PlacesAreRequests == limiter.active = Cardinality(Sent(req))

\* Both: a place that is free is taken, and one that is taken comes free.
LimiterMoves == NoLostWakeup /\ PlacesAreRequests

\* Every request ends, answered or refused, though the source may tell each one to slow down each
\* time and others come and go beside it: a retry is refused once its time is over, and the queues
\* move on (request's loop).
EveryRequestEnds == \A c \in Caller : Waiting(c) ~> ~Waiting(c)

\* A "slow down" holds every start that was not made before it (rate-limiter.ts:52-56).
SlowDownHolds == [][ limiter'.pause > limiter.pause => Sent(req') \subseteq Sent(req) ]_gate

\* No request is held for a pause past the time it may be held (gated-network.ts:27-33).
HeldInTime == \A c \in Caller : req[c].pc \in {"window", "queued"} /\ req[c].left = 0 => limiter.pause = 0
=============================================================================
