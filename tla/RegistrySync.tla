---------------------------- MODULE RegistrySync ----------------------------
(***************************************************************************)
(* What the devices of one user have installed, and one setting of one     *)
(* bridge, carried between them.  A record is an intent: each device       *)
(* performs its own add or install, and keeps what failed for a later      *)
(* round (sync/registry.ts); a value that the bridge here does not take    *)
(* yet is kept aside (sync/settings.ts).  A round, and what is retried     *)
(* after it, go as in host-server/src/sync-host.ts.                        *)
(*                                                                         *)
(* The engine's crash safety is SyncEngine's subject and left out: a       *)
(* segment is built and pushed in one step, and a device stops only        *)
(* between rounds.  The registries are not signed; a registry is "old"     *)
(* and may move to "new", leaving a note there (`moved`).  Trackers go as  *)
(* bridges do, and signature policies are left out.                        *)
(***************************************************************************)
EXTENDS Integers, Sequences, FiniteSets, SequencesExt

CONSTANTS
  Device,        \* their ids, numbers because their order counts
  None,
  Value,         \* values of the bridge's setting
  Understood,    \* URL -> the values that the version installed from there accepts
  maxAttempts,
  Histories      \* bound: what each device has before it first syncs, and how often each kind of
                 \* event happens then

ASSUME DevicesOrdered == Device \subseteq Nat

Url == {"old", "new"}
Rec == Url \cup {"bridge", "setting"}
Zero == <<0, 0>>
Later(s, t) == s[1] > t[1] \/ (s[1] = t[1] /\ s[2] > t[2])

VARIABLES
  has,           \* device -> its registries, the one its bridge is from, and its stored setting
  moved,         \* does "old" publish that it moved to "new"?
  clock, stamp, dirty, adopted,   \* the engine's state: dirty in the order touched
  engine,        \* device -> where its engine's round is
  host,          \* device -> where the host's steps after the round are
  waiting,       \* device -> record -> the intent or value that is kept for a retry, or None
  call,          \* device -> the user's call that holds the engine's lock, or None
  log, seen,     \* the hub's segments in the order pushed, and how many each device has pulled
  chosen,        \* what has been chosen on each device: by its user, or before it synced
  dropped,       \* the records whose intent a device gave up, or forgot when it restarted
  rebound,       \* the stamps of confirmed moves
  mistaken,      \* history: what was not chosen on a device, and may be taken for its choice (NoteRetry)
  undone,        \* history: the records that an older intent or value was retried for
  arrived,       \* history: the setting there was when the record of the value that is held arrived
  left           \* how often each kind of event may still happen

engineState == <<clock, stamp, dirty, adopted>>
ghosts == <<chosen, dropped, rebound, mistaken, undone, arrived>>
vars == <<has, moved, engineState, engine, host, waiting, call, log, seen, ghosts, left>>

Spend(e) == left[e] > 0 /\ left' = [left EXCEPT ![e] = @ - 1]
Free(d) == call[d] = None /\ engine[d].pc # "apply"    \* the engine's lock
AtRest(d) == engine[d].pc = "rest" /\ host[d].pc = "rest" /\ call[d] = None

\* What syncs for a record; a setting only while the bridge that declares it is here.
read(h, r) ==
  CASE r \in Url       -> IF r \in h.regs THEN "saved" ELSE None
    [] r = "bridge"    -> h.from
    [] r = "setting"   -> IF h.from = None THEN None ELSE h.pref

Init ==
  /\ \E h \in Histories : has = h.has /\ left = h.left
  /\ moved = FALSE
  /\ clock = [d \in Device |-> 0] /\ stamp = [d \in Device |-> [r \in Rec |-> Zero]]
  /\ dirty = [d \in Device |-> <<>>] /\ adopted = [d \in Device |-> FALSE]
  /\ engine = [d \in Device |-> [pc |-> "rest", recs |-> <<>>, held |-> {}]]
  /\ host = [d \in Device |-> [pc |-> "rest", intents |-> <<>>]]
  /\ waiting = [d \in Device |-> [r \in Rec |-> None]]
  /\ call = [d \in Device |-> None]
  /\ log = <<>> /\ seen = [d \in Device |-> 0]
  /\ chosen = [d \in Device |-> {<<r, read(has[d], r)>> : r \in Rec} \ (Rec \X {None})]
  /\ dropped = [d \in Device |-> {}] /\ rebound = {}
  /\ mistaken = [d \in Device |-> {}] /\ undone = [d \in Device |-> {}] /\ arrived = [d \in Device |-> None]

------------------------------------------------------------------------------
(* A device's own registry manager, and its bridge's settings *)

\* Adding a registry that moved lands at its new home.
added(h, u) == [h EXCEPT !.regs = @ \cup {IF u = "old" /\ moved THEN "new" ELSE u}]
\* A bridge from another registry is not replaced, and a forwarding note lists no bridges.
Installable(h, u) == h.from \in {None, u} /\ ~(u = "old" /\ moved)

\* What the bridge that is installed declares the setting to be, and takes.
accepts(h, v) == h.from # None /\ v \in Understood[h.from]

\* A call of the user's, as far as it makes sense to them.
Calls(h) ==
  {<<"add", u>> : u \in Url \ h.regs} \cup {<<"remove", u>> : u \in h.regs}
  \cup {<<"install", u>> : u \in {v \in h.regs : h.from = None /\ Installable(h, v)}}
  \cup {<<"uninstall", None>> : u \in {h.from} \ {None}}
  \cup {<<"confirmMove", None>> : u \in {v \in h.regs : v = "old" /\ moved}}
  \cup {<<"set", v>> : v \in {w \in Value \ {h.pref} : accepts(h, w)}}

after(h, op) ==
  CASE op[1] = "add"         -> added(h, op[2])
    [] op[1] = "remove"      -> [h EXCEPT !.regs = @ \ {op[2]}]
    [] op[1] = "install"     -> [h EXCEPT !.from = op[2]]
    [] op[1] = "uninstall"   -> [h EXCEPT !.from = None]
    [] op[1] = "confirmMove" -> [h EXCEPT !.regs = (@ \ {"old"}) \cup {"new"},
                                          !.from = IF @ = "old" THEN "new" ELSE @]
    [] op[1] = "set"         -> [h EXCEPT !.pref = op[2]]

Changed(h1, h2) == {r \in Rec \ {"setting"} : read(h1, r) # read(h2, r)}
                   \cup {r \in {"setting"} : h1.pref # h2.pref}

Touch(d, R) ==
  /\ clock' = [clock EXCEPT ![d] = IF R = {} THEN @ ELSE @ + 1]
  /\ stamp' = [stamp EXCEPT ![d] = [r \in Rec |-> IF r \in R THEN <<clock[d] + 1, d>> ELSE @[r]]]
  /\ dirty' = [dirty EXCEPT ![d] = @ \o SelectSeq(<<"old", "new", "bridge", "setting">>,
                                                  LAMBDA r : r \in R \ ToSet(dirty[d]))]

------------------------------------------------------------------------------
(* The wrapped mutations: what a call changed is found by comparing before and after *)

Call(d) ==
  /\ Free(d) /\ Spend("call")
  /\ \E op \in Calls(has[d]) : call' = [call EXCEPT ![d] = [op |-> op, before |-> has[d]]]
  /\ UNCHANGED <<has, moved, engineState, engine, host, waiting, log, seen, ghosts>>

recorded(h1, h2) == Changed(h1, h2)

Return(d) ==
  /\ call[d] # None
  /\ LET op == call[d].op
         now == after(has[d], op)
         own == Changed(has[d], now)
     IN IF op \notin Calls(has[d])
        THEN UNCHANGED <<has, clock, stamp, dirty, chosen, dropped, rebound, undone>>
        ELSE /\ has' = [has EXCEPT ![d] = now]
             /\ Touch(d, recorded(call[d].before, now))
             /\ chosen' = [chosen EXCEPT ![d] = @ \cup {<<r, read(now, r)>> : r \in own}]
             /\ dropped' = [dropped EXCEPT ![d] = @ \ own]
             /\ undone' = [undone EXCEPT ![d] = @ \ recorded(call[d].before, now)]
             /\ rebound' = IF op[1] = "confirmMove" THEN rebound \cup {stamp'[d]["bridge"]} ELSE rebound
  /\ call' = [call EXCEPT ![d] = None]
  /\ UNCHANGED <<moved, adopted, engine, host, waiting, log, seen, mistaken, arrived, left>>

------------------------------------------------------------------------------
(* Intents *)

Held(v, s) == [value |-> v, of |-> s, attempts |-> 0, base |-> "unread"]

\* Mutant: a bridge that is here counts as installed, wherever it is from.
HeldAnyhow(h, r, v) ==
  LET done == [h |-> h, ok |-> TRUE, fault |-> FALSE]
      failed == [h |-> h, ok |-> FALSE, fault |-> TRUE]
  IN CASE v = None /\ r \in Url -> {[done EXCEPT !.h.regs = @ \ {r}]}
       [] v = None /\ r = "bridge" -> {[done EXCEPT !.h.from = None]}
       [] v # None /\ read(h, r) # None -> {done}
       [] v # None /\ r \in Url /\ read(h, r) = None -> {[done EXCEPT !.h = added(h, r)], failed}
       [] OTHER -> IF Installable(h, v) THEN {[done EXCEPT !.h.from = v], failed}
                   ELSE {[failed EXCEPT !.fault = FALSE]}

\* What the registry manager makes of an intent: what is held then, whether it succeeded, and
\* whether a fault was needed.  What is held already is not added or installed again.
intent(h, r, v) ==
  LET done == [h |-> h, ok |-> TRUE, fault |-> FALSE]
      failed == [h |-> h, ok |-> FALSE, fault |-> TRUE]
  IN CASE v = None /\ r \in Url -> {[done EXCEPT !.h.regs = @ \ {r}]}
       [] v = None /\ r = "bridge" -> {[done EXCEPT !.h.from = None]}
       [] v # None /\ read(h, r) = v -> {done}
       [] v # None /\ r \in Url /\ read(h, r) # v -> {[done EXCEPT !.h = added(h, r)], failed}
       [] OTHER -> IF Installable(h, v) THEN {[done EXCEPT !.h.from = v], failed}
                   ELSE {[failed EXCEPT !.fault = FALSE]}

Keep(d, r, held) == waiting' = [waiting EXCEPT ![d][r] = held]
Drop(d, r, given) == dropped' = [dropped EXCEPT ![d] = IF given THEN @ \cup {r} ELSE @ \ {r}]
Fault(b) == IF b THEN Spend("fault") ELSE UNCHANGED left

attempt(d, r, held) ==
  \E o \in intent(has[d], r, held.value) :
    /\ Fault(o.fault)
    /\ has' = [has EXCEPT ![d] = o.h]
    /\ LET over == ~o.ok /\ held.attempts + 1 >= maxAttempts
       IN /\ Keep(d, r, IF o.ok \/ over THEN None ELSE [held EXCEPT !.attempts = @ + 1])
          /\ Drop(d, r, over)

\* Mutant: a held value is written over what the setting was changed to since.
WritesOverChanges(h, held, loads) ==
  CASE h.from = None \/ ~loads -> "unavailable"
    [] OTHER -> IF ~accepts(h, held.value) THEN "waiting"
                ELSE IF held.value = h.pref THEN "settled" ELSE "written"

\* settings.ts's apply: what becomes of a held value.
apply(h, held, loads) ==
  CASE held.base \notin {"unread", h.pref} -> "settled"
    [] held.base \in {"unread", h.pref} /\ (h.from = None \/ ~loads) -> "unavailable"
    [] OTHER -> IF ~accepts(h, held.value) THEN "waiting"
                ELSE IF held.value = h.pref THEN "settled" ELSE "written"

attemptSetting(d, held) ==
  \E loads \in {TRUE} \cup {FALSE : u \in {has[d].from} \ {None}} :
    LET outcome == apply(has[d], held, loads)
        over == outcome = "unavailable" /\ held.attempts + 1 >= maxAttempts
        kept == [held EXCEPT !.base = has[d].pref]
    IN /\ Fault(~loads)
       /\ has' = IF outcome = "written" THEN [has EXCEPT ![d].pref = held.value] ELSE has
       /\ Keep(d, "setting", CASE outcome = "waiting" -> kept
                               [] outcome = "unavailable" /\ ~over -> [kept EXCEPT !.attempts = @ + 1]
                               [] OTHER -> None)
       /\ Drop(d, "setting", over)

\* A store's write of a record that came with stamp `s`.  A setting is never removed.
write(d, r, v, s) ==
  IF r # "setting" THEN attempt(d, r, Held(v, s))
  ELSE IF v # None THEN attemptSetting(d, Held(v, s))
  ELSE Keep(d, r, None) /\ Drop(d, r, FALSE) /\ UNCHANGED <<has, left>>

------------------------------------------------------------------------------
(* The engine's round *)

Unseen(d) == {n \in seen[d] + 1 .. Len(log) : log[n].by # d}
\* A round that finds nothing to do is left out.
Due(d) == Unseen(d) # {} \/ dirty[d] # <<>> \/ ~adopted[d] \/ \E r \in Rec : waiting[d][r] # None
\* The next round may begin while what waits is still retried.
Ready(d) == Due(d) /\ host[d].pc \in {"rest", "retry"}

Pull(d) ==
  /\ engine[d].pc = "pull" \/ (engine[d].pc = "rest" /\ Ready(d))
  /\ IF Unseen(d) = {}
     THEN engine' = [engine EXCEPT ![d].pc = "send"] /\ UNCHANGED seen
     ELSE LET n == CHOOSE n \in Unseen(d) : \A m \in Unseen(d) : n <= m
          IN /\ call[d] = None
             /\ engine' = [engine EXCEPT ![d].pc = "apply", ![d].recs = log[n].recs]
             /\ seen' = [seen EXCEPT ![d] = n]
  /\ UNCHANGED <<has, moved, engineState, host, waiting, call, log, ghosts, left>>

\* A delete is not about a copy from before this device synced: that copy goes out as a new write.
ApplyRecord(d) ==
  /\ engine[d].pc = "apply"
  /\ LET rec == Head(engine[d].recs)
         old == stamp[d][rec.r]
         held == engine[d].held \cup
                 {r \in {rec.r} : old = Zero /\ read(has[d], r) # None}
         more == Tail(engine[d].recs)
         goOn(hs) == engine' = [engine EXCEPT ![d] =
                       [pc |-> IF more = <<>> THEN "pull" ELSE "apply", recs |-> more, held |-> hs]]
         clockThen == IF rec.at[1] > clock[d] THEN rec.at[1] ELSE clock[d]
     IN \/ /\ old # Zero /\ ~Later(rec.at, old)
           /\ goOn(engine[d].held)
           /\ clock' = [clock EXCEPT ![d] = clockThen]
           /\ UNCHANGED <<has, stamp, dirty, waiting, dropped, mistaken, undone, arrived, left>>
        \/ /\ old = Zero \/ Later(rec.at, old)
           /\ rec.r \in held /\ rec.value = None
           /\ goOn(held)
           /\ clock' = [clock EXCEPT ![d] = clockThen + 1]
           /\ stamp' = [stamp EXCEPT ![d][rec.r] = <<clockThen + 1, d>>]
           /\ dirty' = [dirty EXCEPT ![d] = IF Contains(@, rec.r) THEN @ ELSE Append(@, rec.r)]
           /\ mistaken' = [mistaken EXCEPT ![d] = @ \cup {<<rec.r, read(has[d], rec.r)>>}]
           /\ UNCHANGED <<has, waiting, dropped, undone, arrived, left>>
        \/ /\ old = Zero \/ Later(rec.at, old)
           /\ rec.r \notin held \/ rec.value # None
           /\ goOn(held)
           /\ clock' = [clock EXCEPT ![d] = clockThen]
           /\ stamp' = [stamp EXCEPT ![d][rec.r] = rec.at]
           /\ dirty' = [dirty EXCEPT ![d] = Remove(@, rec.r)]
           /\ write(d, rec.r, rec.value, rec.at)
           /\ undone' = [undone EXCEPT ![d] = @ \ {rec.r}]
           /\ arrived' = IF rec.r = "setting" THEN [arrived EXCEPT ![d] = has[d].pref] ELSE arrived
           /\ UNCHANGED mistaken
  /\ UNCHANGED <<moved, adopted, host, call, log, seen, chosen, rebound>>

byTableOrder(s) ==
  SelectSeq(s, LAMBDA r : r \in Url) \o SelectSeq(s, LAMBDA r : r = "bridge")
  \o SelectSeq(s, LAMBDA r : r = "setting")

Send(d) ==
  /\ engine[d].pc = "send" /\ call[d] = None /\ dirty[d] # <<>>
  /\ LET rs == byTableOrder(dirty[d])
         recs == [i \in 1..Len(rs) |-> [r |-> rs[i], at |-> stamp[d][rs[i]], value |-> read(has[d], rs[i])]]
     IN log' = Append(log, [by |-> d, recs |-> recs])
  /\ dirty' = [dirty EXCEPT ![d] = <<>>]
  /\ UNCHANGED <<has, moved, clock, stamp, adopted, engine, host, waiting, call, seen, ghosts, left>>

\* The round is over; the host goes on to what is waiting, when what it retried before is done with.
Finish(d) ==
  /\ engine[d].pc = "send" /\ call[d] = None /\ dirty[d] = <<>> /\ host[d].pc = "rest"
  /\ engine' = [engine EXCEPT ![d] = [pc |-> "rest", recs |-> <<>>, held |-> {}]]
  /\ LET intents == SelectSeq(<<"old", "new", "bridge">>, LAMBDA r : waiting[d][r] # None)
     IN host' = [host EXCEPT ![d] = [pc |-> "retry",
                   intents |-> [i \in 1..Len(intents) |-> [r |-> intents[i], held |-> waiting[d][intents[i]]]]]]
  /\ UNCHANGED <<has, moved, engineState, waiting, call, log, seen, ghosts, left>>

\* History: a retry that is late undoes what its record was changed to since, and what one does then, or
\* in the middle of a call, is taken for the user's.
NoteRetry(d, r, late, within) ==
  /\ mistaken' = [mistaken EXCEPT ![d] = IF late \/ within
                     THEN @ \cup {<<x, read(has'[d], x)>> : x \in Changed(has[d], has'[d])} ELSE @]
  /\ undone' = [undone EXCEPT ![d] = IF late THEN @ \cup {r} ELSE @ \ {r}]

\* Outside the engine's lock, from a copy of what was waiting, whatever has changed since.
RetryIntent(d) ==
  /\ host[d].pc = "retry" /\ host[d].intents # <<>>
  /\ LET i == Head(host[d].intents)
     IN attempt(d, i.r, i.held) /\ NoteRetry(d, i.r, stamp[d][i.r] # i.held.of, call[d] # None)
  /\ host' = [host EXCEPT ![d].intents = Tail(@)]
  /\ UNCHANGED <<moved, engineState, engine, call, log, seen, chosen, rebound, arrived>>

\* After the intents, so that a value for a bridge just installed lands; under the lock.
RetrySettings(d) ==
  /\ host[d].pc = "retry" /\ host[d].intents = <<>> /\ Free(d)
  /\ \/ waiting[d]["setting"] = None /\ UNCHANGED <<has, waiting, dropped, mistaken, undone, left>>
     \/ waiting[d]["setting"] # None /\ attemptSetting(d, waiting[d]["setting"])
        /\ NoteRetry(d, "setting", stamp[d]["setting"] # waiting[d]["setting"].of, FALSE)
  /\ host' = [host EXCEPT ![d].pc = IF adopted[d] THEN "rest" ELSE "adopt"]
  /\ UNCHANGED <<moved, engineState, engine, call, log, seen, chosen, rebound, arrived>>

\* After a device's first round: what sync has not met is sent as chosen here.
Adopt(d) ==
  /\ host[d].pc = "adopt" /\ Free(d)
  /\ LET R == {r \in Rec : read(has[d], r) # None /\ stamp[d][r] = Zero}
     IN Touch(d, R)
  /\ adopted' = [adopted EXCEPT ![d] = TRUE]
  /\ host' = [host EXCEPT ![d].pc = "rest"]
  /\ UNCHANGED <<has, moved, engine, waiting, call, log, seen, ghosts, left>>

------------------------------------------------------------------------------
Publish ==
  /\ ~moved /\ Spend("move") /\ moved' = TRUE
  /\ UNCHANGED <<has, engineState, engine, host, waiting, call, log, seen, ghosts>>

\* What is kept aside is not saved.
Restart(d) ==
  /\ AtRest(d) /\ dirty[d] = <<>> /\ Spend("restart")
  /\ waiting' = [waiting EXCEPT ![d] = [r \in Rec |-> None]]
  /\ dropped' = [dropped EXCEPT ![d] = @ \cup {r \in Rec : waiting[d][r] # None}]
  /\ UNCHANGED <<has, moved, engineState, engine, host, call, log, seen, chosen, rebound, mistaken, undone, arrived>>

Next ==
  \/ Publish
  \/ \E d \in Device :
       \/ Call(d) \/ Return(d)
       \/ Pull(d) \/ ApplyRecord(d) \/ Send(d) \/ Finish(d)
       \/ RetryIntent(d) \/ RetrySettings(d) \/ Adopt(d)
       \/ Restart(d)

Spec == Init /\ [][Next]_vars

------------------------------------------------------------------------------
(* Properties *)

Stamped(r, s) == {rec \in UNION {ToSet(log[n].recs) : n \in DOMAIN log} : rec.r = r /\ rec.at = s}

\* Once the old address forwards, nothing is held under it.
Matches(h, r, v) ==
  CASE r \in Url     -> moved \/ read(h, r) = v
    [] r = "bridge"  -> h.from = v
    [] r = "setting" -> v \in {None, h.pref}

\* Between rounds a device has what the last record it knows of says, unless it still waits to, or
\* gave up, or retried an older intent for it: whatever the order in which records, failures, retries
\* and its user's calls came.
RecordsFollowed ==
  \A d \in Device : AtRest(d) => \A r \in Rec \ (ToSet(dirty[d]) \cup dropped[d] \cup undone[d]) :
    waiting[d][r] = None => \A rec \in Stamped(r, stamp[d][r]) : Matches(has[d], r, rec.value)

\* A value that is retried never replaces a setting that was changed here since it arrived, unless it was
\* set back to what it was then (settings.ts:17; an intent has no such guard, registry.ts:143).
LaterChoiceStands ==
  [][\A d \in Device : host[d].pc = "retry" /\ host'[d].pc # "retry" =>
       has'[d].pref = has[d].pref \/ has[d].pref = arrived[d]]_vars

\* What a device sends as its own was chosen there, by its user or before it first synced; a
\* registry found where another forwards to counts as chosen with that one.  Two things are mistaken
\* for a choice and no others: what a retry does in the middle of a call or for a record that was
\* changed since (the wrapper compares before and after, and a segment is built of what is there), and
\* what has come in the place of a copy from before sync when its deletion arrives.
OnlyOwnChoices ==
  \A n \in DOMAIN log : \A rec \in ToSet(log[n].recs) :
    \/ <<rec.r, rec.value>> \in chosen[log[n].by] \cup mistaken[log[n].by]
    \/ rec.r = "setting" /\ rec.value = None
    \/ rec.r = "new" /\ moved
    \/ rec.at[2] # log[n].by

\* Both, step by step from an empty log, while rounds, retries outside the lock and the user's calls
\* come in any order.
ChoicesStand == [][OnlyOwnChoices']_vars /\ LaterChoiceStands

\* A confirmed move rebinds what every device installed from the old address
\* (sync/test/registry.test.ts:213): all have exchanged everything, and no call to the network failed.
MoveRebindsEverywhere ==
  (\A d \in Device : AtRest(d) /\ Unseen(d) = {} /\ dirty[d] = <<>> /\ \A r \in Rec : waiting[d][r] = None)
  => \A d \in Device : stamp[d]["bridge"] \in rebound => has[d].from = "new"
=============================================================================
