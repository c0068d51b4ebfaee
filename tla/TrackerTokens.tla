---------------------------- MODULE TrackerTokens ----------------------------
(***************************************************************************)
(* How a host loads one tracker and keeps its login: an access token that  *)
(* expires and a refresh token that buys the next pair. A call answered    *)
(* with 401 buys one through RefreshableNetwork and is sent again; the new *)
(* pair goes into the stored settings at once on the server, and on a      *)
(* device waits in the native context until a call's end fetches it.       *)
(*                                                                         *)
(* Tokens are numbers, in the order the service gave them out. Codes,      *)
(* client ids, other settings and what calls return are left out.          *)
(***************************************************************************)
EXTENDS Naturals, Sequences, FiniteSets

CONSTANTS
  User,         \* who calls the tracker: pulls, pushes, searches, the settings screen
  Side,         \* the hosts considered, out of "device" and "server"
  MaxExpiries,  \* bound on how often the access token expires
  MaxDrops,     \* bound on logins and on changes that drop what is loaded
  MaxMishaps,   \* bound on lost answers and restarts
  MaxEvents,    \* bound on all of these together
  MaxContexts   \* bound on how many contexts are in use at one time

NoUser == "nobody"

ASSUME TokenAssumption ==
  /\ NoUser \notin User
  /\ Side \subseteq {"device", "server"}
  /\ MaxExpiries \in Nat /\ MaxDrops \in Nat /\ MaxMishaps \in Nat /\ MaxEvents \in Nat
  /\ MaxContexts \in Nat

VARIABLES
  side,      \* which of the hosts this is
  service,   \* the pair the service takes, and whether its access token has not expired
  stored,    \* the pair in the tracker's settings
  contexts,  \* the loaded trackers, each with its RefreshableNetwork; one that nobody uses any more is made anew
  cached,    \* which of them the provider hands out, 0 for none
  native,    \* which of them the native engine holds, 0 for none (device)
  loader,    \* the user whose load the others share, NoUser (device)
  outdated,  \* whether the load in flight has been told that it is stale (device)
  taken,     \* the pair each user's load has read
  at,        \* where each user is
  using,     \* the context each user's call runs in
  bearer,    \* the access token each user's request carries
  turns,     \* writes of the stored pair that wait for their turn (device)
  saving,    \* whether a login has been patched in and not yet dropped what was loaded (server)
  excused,   \* (history) whether the refresh token the service takes has been lost (see Holders)
  expiries, drops, mishaps

tokenVars == <<side, service, stored, contexts, cached, native, loader, outdated, taken, at, using, bearer, turns,
               saving, excused, expiries, drops, mishaps>>

NoPair == [access |-> 0, refresh |-> 0]
Pair(access, refresh) == [access |-> access, refresh |-> refresh]
Contexts == 1..MaxContexts

(* A tracker as it is loaded: its settings hold the access token as it was, and *)
(* its network can renew it when the settings held a refresh token too.         *)
loadTracker(pair) == [access |-> pair.access, current |-> pair.access, refresh |-> pair.refresh, renewing |-> "no",
                      got |-> NoPair, pending |-> NoPair]

TokenInit ==
  /\ side \in Side
  /\ service = [access |-> 1, refresh |-> 1, live |-> TRUE]
  /\ stored = Pair(1, 1)
  /\ contexts = [i \in Contexts |-> loadTracker(NoPair)] /\ cached = 0 /\ native = 0
  /\ loader = NoUser /\ outdated = FALSE
  /\ taken = [u \in User |-> NoPair]
  /\ at = [u \in User |-> "idle"]
  /\ using = [u \in User |-> 0]
  /\ bearer = [u \in User |-> 0]
  /\ turns = <<>> /\ saving = FALSE
  /\ excused = FALSE
  /\ expiries = 0 /\ drops = 0 /\ mishaps = 0

loadVars == <<contexts, cached, native, loader, outdated, taken>>
callVars == <<at, using, bearer>>
pastVars == <<excused, expiries, drops, mishaps>>
MayHappen == expiries + drops + mishaps < MaxEvents

(* (history) A context that holds a renewed pair which is not stored yet. *)
Holding(i) == contexts[i].renewing = "granted" \/ contexts[i].pending # NoPair

(* get: what is loaded, or a load; a device shares the one in flight. *)
get(u) ==
  /\ at[u] = "idle"
  /\ \/ /\ cached # 0
        /\ at' = [at EXCEPT ![u] = "calling"]
        /\ using' = [using EXCEPT ![u] = cached]
        /\ UNCHANGED <<loader, outdated>>
     \/ /\ cached = 0
        /\ at' = [at EXCEPT ![u] = IF side = "device" /\ loader # NoUser THEN "waiting" ELSE "loading"]
        /\ loader' = IF side = "device" /\ loader = NoUser THEN u ELSE loader
        /\ outdated' = IF side = "device" /\ loader = NoUser THEN FALSE ELSE outdated
        /\ UNCHANGED using
  /\ UNCHANGED <<side, service, stored, contexts, cached, native, taken, bearer, turns, saving, pastVars>>

(* A load reads the settings, and ends. Told in the meantime that it is stale, a *)
(* device's disposes of what it made and begins again; a server's keeps it.      *)
LoadReads(u) ==
  /\ at[u] = "loading" /\ taken[u] = NoPair
  /\ taken' = [taken EXCEPT ![u] = stored]
  /\ UNCHANGED <<side, service, stored, contexts, cached, native, loader, outdated, callVars, turns, saving, pastVars>>

Unused(i) == i \notin {cached, native} /\ contexts[i].renewing = "no" /\ \A u \in User : using[u] # i

LoadEnds(u) ==
  /\ at[u] = "loading" /\ taken[u] # NoPair
  /\ taken' = [taken EXCEPT ![u] = NoPair]
  /\ outdated' = FALSE
  /\ \/ /\ side = "device" /\ outdated
        /\ native' = 0
        /\ UNCHANGED <<contexts, cached, loader, at, using>>
     \/ /\ ~outdated
        /\ \E i \in Contexts : Unused(i)
        /\ cached' = CHOOSE i \in Contexts : Unused(i)
        /\ contexts' = [contexts EXCEPT ![cached'] = loadTracker(taken[u])]
        /\ native' = IF side = "device" THEN cached' ELSE 0
        /\ loader' = NoUser
        /\ LET handed == {u} \cup {v \in User : at[v] = "waiting"}
           IN /\ at' = [v \in User |-> IF v \in handed THEN "calling" ELSE at[v]]
              /\ using' = [v \in User |-> IF v \in handed THEN cached' ELSE using[v]]
  /\ UNCHANGED <<side, service, stored, bearer, turns, saving, pastVars>>

(* A call. A device's proxies name the tracker, not the context: it runs in the one there is. *)
callTracker(u) ==
  /\ at[u] = "calling"
  /\ LET context == IF side = "device" THEN native ELSE using[u]
     IN \/ /\ context # 0
           /\ using' = [using EXCEPT ![u] = context]
           /\ bearer' = [bearer EXCEPT ![u] = contexts[context].access]
           /\ at' = [at EXCEPT ![u] = "sent"]
        \/ /\ context = 0
           /\ at' = [at EXCEPT ![u] = "failed"]
           /\ UNCHANGED <<using, bearer>>
  /\ UNCHANGED <<side, service, stored, loadVars, turns, saving, pastVars>>

Accepted(u) == service.live /\ bearer[u] = service.access

(* The service answers the request, and later the one sent again. *)
Answered(u) ==
  /\ at[u] \in {"sent", "retrying"}
  /\ at' = [at EXCEPT ![u] = IF Accepted(u) THEN "served" ELSE IF at[u] = "sent" THEN "refused" ELSE "failed"]
  /\ UNCHANGED <<side, service, stored, loadVars, using, bearer, turns, saving, pastVars>>

(* RefreshableNetwork.request: a 401 for the token it knows renews it, or joins the renewal under way. *)
request(u) ==
  /\ at[u] = "refused"
  /\ LET context == contexts[using[u]]
     IN \/ /\ context.refresh # 0 /\ context.current = bearer[u]
           /\ contexts' = IF context.renewing = "no" THEN [contexts EXCEPT ![using[u]].renewing = "asked"] ELSE contexts
           /\ at' = [at EXCEPT ![u] = "renewing"]
        \/ /\ ~(context.refresh # 0 /\ context.current = bearer[u])
           /\ at' = [at EXCEPT ![u] = "failed"]
           /\ UNCHANGED contexts
  /\ UNCHANGED <<side, service, stored, cached, native, loader, outdated, taken, using, bearer, turns, saving, pastVars>>

Joined(i) == {u \in User : at[u] = "renewing" /\ using[u] = i}

(* The service renews a pair, and takes the old one no more. It may leave the refresh *)
(* token as it was, and out of its answer: what is stored then has none.              *)
Granted(omits) ==
  [access |-> service.access + 1, refresh |-> IF omits THEN service.refresh ELSE service.access + 1, live |-> TRUE]
Sent(omits) == Pair(service.access + 1, IF omits THEN 0 ELSE service.access + 1)

\* Mutant: a renewal that fails lets nobody go.
LeavesThemWaiting(i) ==
  /\ contexts' = [contexts EXCEPT ![i].renewing = "no"]
  /\ UNCHANGED at

RenewalFails(i) ==
  /\ contexts' = [contexts EXCEPT ![i].renewing = "no"]
  /\ at' = [u \in User |-> IF u \in Joined(i) THEN "failed" ELSE at[u]]

doRefresh(i) ==
  /\ contexts[i].renewing = "asked"
  /\ \/ /\ contexts[i].refresh = service.refresh
        /\ \E omits \in BOOLEAN :
             /\ service' = Granted(omits)
             /\ contexts' = [contexts EXCEPT ![i].renewing = "granted", ![i].got = Sent(omits)]
             /\ excused' = (excused \/ omits \/ (side = "device" /\ i # native))
        /\ UNCHANGED at
     \/ /\ contexts[i].refresh # service.refresh
        /\ RenewalFails(i)
        /\ UNCHANGED <<service, excused>>
  /\ UNCHANGED <<side, stored, cached, native, loader, outdated, taken, using, bearer, turns, saving, expiries, drops,
                 mishaps>>

(* The answer is lost, whether or not the service had renewed the pair. *)
RefreshLost(i) ==
  /\ contexts[i].renewing = "asked"
  /\ MayHappen /\ mishaps < MaxMishaps /\ mishaps' = mishaps + 1
  /\ \/ UNCHANGED <<service, excused>>
     \/ /\ contexts[i].refresh = service.refresh
        /\ service' = Granted(FALSE)
        /\ excused' = TRUE
  /\ RenewalFails(i)
  /\ UNCHANGED <<side, stored, cached, native, loader, outdated, taken, using, bearer, turns, saving, expiries, drops>>

(* onRefreshed. The server patches the settings and drops what is loaded, a device's *)
(* context keeps the pair aside; then the waiting requests are sent again.           *)
Save(i) ==
  /\ side = "server" /\ contexts[i].renewing = "granted"
  /\ stored' = contexts[i].got
  /\ contexts' = [contexts EXCEPT ![i].renewing = "saved"]
  /\ UNCHANGED <<side, service, cached, native, loader, outdated, taken, callVars, turns, saving, pastVars>>

onRefreshed(i) ==
  /\ contexts[i].renewing = (IF side = "device" THEN "granted" ELSE "saved")
  /\ LET got == contexts[i].got
     IN /\ contexts' = [contexts EXCEPT
             ![i].current = got.access, ![i].refresh = IF got.refresh = 0 THEN @ ELSE got.refresh,
             ![i].renewing = "no", ![i].got = NoPair,
             ![i].pending = IF side = "device" THEN got ELSE NoPair]
        /\ bearer' = [u \in User |-> IF u \in Joined(i) THEN got.access ELSE bearer[u]]
  /\ cached' = IF side = "server" THEN 0 ELSE cached
  /\ at' = [u \in User |-> IF u \in Joined(i) THEN "retrying" ELSE at[u]]
  /\ UNCHANGED <<side, service, stored, native, loader, outdated, taken, using, turns, saving, pastVars>>

(* The call's end, good or bad. On a device it fetches what the native context has put aside. *)
(* The user may go on with the tracker it has: the next page, or the next try.                *)
afterCall(u) ==
  /\ at[u] \in {"served", "failed"}
  /\ LET fetched == IF native = 0 THEN NoPair ELSE contexts[native].pending
     IN \/ /\ fetched # NoPair
           /\ contexts' = [contexts EXCEPT ![native].pending = NoPair]
           /\ turns' = Append(turns, [by |-> u, pair |-> fetched])
           /\ at' = [at EXCEPT ![u] = "draining"]
           /\ UNCHANGED using
        \/ /\ fetched = NoPair
           /\ \/ at' = [at EXCEPT ![u] = "idle"] /\ using' = [using EXCEPT ![u] = 0]
              \/ at' = [at EXCEPT ![u] = "calling"] /\ UNCHANGED using
           /\ UNCHANGED <<contexts, turns>>
  /\ bearer' = [bearer EXCEPT ![u] = 0]
  /\ UNCHANGED <<side, service, stored, cached, native, loader, outdated, taken, saving, pastVars>>

(* What drops the loaded tracker. A fetched pair leaves the native context to the next load. *)
Drop ==
  /\ cached' = 0
  /\ native' = IF cached # 0 THEN 0 ELSE native
  /\ outdated' = (loader # NoUser)
  /\ excused' = (excused \/ (cached # 0 /\ native # 0 /\ Holding(native)))

\* Mutant: the writes of the settings take no turns.
TakesAnyTurn ==
  /\ turns # <<>>
  /\ \E n \in DOMAIN turns :
       /\ stored' = turns[n].pair
       /\ turns' = SubSeq(turns, 1, n - 1) \o SubSeq(turns, n + 1, Len(turns))
       /\ at' = IF turns[n].by = NoUser THEN at ELSE [at EXCEPT ![turns[n].by] = "idle"]
       /\ using' = IF turns[n].by = NoUser THEN using ELSE [using EXCEPT ![turns[n].by] = 0]
  /\ cached' = 0 /\ outdated' = (loader # NoUser)
  /\ UNCHANGED <<side, service, contexts, native, loader, taken, bearer, saving, pastVars>>

(* A device's writes of the settings take turns. *)
drainAndPersist ==
  /\ turns # <<>>
  /\ stored' = Head(turns).pair
  /\ turns' = Tail(turns)
  /\ \/ /\ Head(turns).by = NoUser
        /\ Drop
        /\ UNCHANGED <<at, using>>
     \/ /\ Head(turns).by # NoUser
        /\ cached' = 0 /\ outdated' = (loader # NoUser)
        /\ \/ at' = [at EXCEPT ![Head(turns).by] = "idle"] /\ using' = [using EXCEPT ![Head(turns).by] = 0]
           \/ at' = [at EXCEPT ![Head(turns).by] = "calling"] /\ UNCHANGED using
        /\ UNCHANGED <<native, excused>>
  /\ UNCHANGED <<side, service, contexts, loader, taken, bearer, saving, expiries, drops, mishaps>>

(* The user logs in: the service gives out a pair, and it is stored as any setting is. *)
Login ==
  /\ MayHappen /\ drops < MaxDrops /\ drops' = drops + 1
  /\ LET token == service.access + 1
     IN /\ service' = [access |-> token, refresh |-> token, live |-> TRUE]
        /\ \/ /\ side = "device"
              /\ turns' = Append(turns, [by |-> NoUser, pair |-> Pair(token, token)])
              /\ UNCHANGED <<stored, saving>>
           \/ /\ side = "server"
              /\ stored' = Pair(token, token)
              /\ saving' = TRUE
              /\ UNCHANGED turns
  /\ excused' = (excused \/ \E i \in Contexts : Holding(i))
  /\ UNCHANGED <<side, loadVars, callVars, expiries, mishaps>>

LoginEnds ==
  /\ saving
  /\ saving' = FALSE
  /\ Drop
  /\ UNCHANGED <<side, service, stored, contexts, loader, taken, callVars, turns, expiries, drops, mishaps>>

(* An install, an update, a removal, or another setting drops what is loaded. *)
refresh ==
  /\ MayHappen /\ drops < MaxDrops /\ drops' = drops + 1
  /\ Drop
  /\ UNCHANGED <<side, service, stored, contexts, loader, taken, callVars, turns, saving, expiries, mishaps>>

(* The access token expires. *)
Expire ==
  /\ service.live /\ MayHappen /\ expiries < MaxExpiries /\ expiries' = expiries + 1
  /\ service' = [service EXCEPT !.live = FALSE]
  /\ UNCHANGED <<side, stored, loadVars, callVars, turns, saving, excused, drops, mishaps>>

(* The process ends. What is stored is there for the next. *)
Restart ==
  /\ MayHappen /\ mishaps < MaxMishaps /\ mishaps' = mishaps + 1
  /\ contexts' = [i \in Contexts |-> loadTracker(NoPair)] /\ cached' = 0 /\ native' = 0 /\ loader' = NoUser /\ outdated' = FALSE
  /\ taken' = [u \in User |-> NoPair]
  /\ at' = [u \in User |-> "idle"]
  /\ using' = [u \in User |-> 0]
  /\ bearer' = [u \in User |-> 0]
  /\ turns' = <<>> /\ saving' = FALSE
  /\ excused' = (excused \/ stored.refresh # service.refresh)
  /\ UNCHANGED <<side, service, stored, expiries, drops>>

UserStep(u) ==
  LoadReads(u) \/ LoadEnds(u) \/ callTracker(u) \/ Answered(u) \/ request(u) \/ afterCall(u)
ContextStep(i) == doRefresh(i) \/ Save(i) \/ onRefreshed(i)

TokenNext ==
  \/ \E u \in User : get(u) \/ UserStep(u)
  \/ \E i \in Contexts : ContextStep(i) \/ RefreshLost(i)
  \/ drainAndPersist
  \/ Login \/ LoginEnds \/ refresh \/ Expire \/ Restart

TokenSpec == TokenInit /\ [][TokenNext]_tokenVars

(***************************************************************************)
(* Properties                                                              *)
(***************************************************************************)

(* The refresh token the service takes is stored, or with someone who will  *)
(* store it: however calls, loads, renewals, fetches, logins and drops      *)
(* overlap, nobody is logged out. It is lost (excused) with the answer of a *)
(* renewal, with the process, when the answer leaves it out, when a login   *)
(* comes while a renewed pair is still to be stored, over the login's, and  *)
(* when a device's native context is dropped in the middle of a renewal;    *)
(* nothing else costs it.                                                   *)
Holders ==
  {stored} \cup {contexts[i].got : i \in {j \in Contexts : contexts[j].renewing \in {"granted", "saved"}}}
           \cup (IF native = 0 THEN {} ELSE {contexts[native].pending})
           \cup {turns[j].pair : j \in DOMAIN turns}

LoginKept == excused \/ \E pair \in Holders : pair.refresh = service.refresh

(* host-native/src/runtime.ts:99: "an expired OAuth access token is silently refreshed rather than surfacing a *)
(* 401": a refused request whose network holds the refresh token the service takes gets the pair renewed.       *)
RefreshedSilently ==
  \A u \in User : at[u] = "refused" =>
    LET context == contexts[using[u]] IN context.refresh = service.refresh => context.current = bearer[u]

(***************************************************************************)
(* Every call ends, served or failed: whoever joined a load, a renewal or  *)
(* the turns is let go in the end. The event loop and the service take     *)
(* what is due; users, expiries, logins and mishaps owe nothing.           *)
(***************************************************************************)
TokenFairness ==
  /\ \A u \in User : WF_tokenVars(UserStep(u))
  /\ \A i \in Contexts : WF_tokenVars(ContextStep(i))
  /\ WF_tokenVars(drainAndPersist \/ LoginEnds)

FairTokenSpec == TokenSpec /\ TokenFairness

EveryCallEnds ==
  \A u \in User : at[u] \notin {"idle", "calling"} ~> at[u] \in {"idle", "calling"}
=============================================================================
