----------------------------- MODULE SyncHosting -----------------------------
(***************************************************************************)
(* When a server that is both hub and device syncs its own library:        *)
(* createSyncHost's timer, the rounds that share one under way, what runs  *)
(* after a round, and the shutdown. What a round does to a record is       *)
(* SyncEngine's, the retries after it are RegistrySync's.                  *)
(*                                                                         *)
(* A change is one made here, a push one record of another device that     *)
(* adds a series to this library. Pages of a pull and retried installs are *)
(* left out.                                                               *)
(***************************************************************************)
EXTENDS Naturals, FiniteSets

CONSTANTS
  Change,       \* the changes made here; those in Before were made before the first sync
  Before,
  Arriving,     \* what the other devices push
  MaxFlushes,   \* bound on calls of flush
  MaxFailures,  \* bound on rounds and retries that fail
  MaxStops      \* bound on shutdowns

ASSUME HostAssumption ==
  /\ Before \subseteq Change
  /\ MaxFlushes \in Nat /\ MaxFailures \in Nat /\ MaxStops \in Nat

VARIABLES
  up,        \* whether the process runs, and has not been told to stop: "yes", "stopping" or "no"
  timer,     \* whether it is set
  phase,     \* where the round under way is, "none" when there is none
  inbox,     \* what it has pulled
  runs,      \* how many runs of each caller are at each place
  ready,     \* how far the first rounds are: "first", "adopting", "second" or "done"
  flush,     \* a call of flush: "none", "asked" or "running"
  unsent,    \* changes recorded and not in a segment
  pending,   \* the segment that waits for its push
  saved,     \* the changes in the snapshot, in a segment or not
  adopted,   \* whether what was here before is recorded: "no", "yes" or "saved"
  hub,       \* what the hub's log holds
  here,      \* pushes this library holds
  added,     \* series a round has added and no run has reported
  touched,   \* (history) changes the engine was told of
  reported,  \* (history) series reported as added
  lost,      \* (history) changes, and additions to report, that ended with a process
  failed,    \* (history) whether the last round or run to begin failed
  missed,    \* (history) whether a run shares the last round to begin and came too late for it (ComesTooLate)
  flushes, failures, stops

hostVars == <<up, timer, phase, inbox, runs, ready, flush, unsent, pending, saved, adopted, hub, here, added, touched,
              reported, lost, failed, missed, flushes, failures, stops>>

Caller == {"start", "timer", "flush"}
Place == {"round", "registry", "settings"}
NoRuns == [c \in Caller |-> [p \in Place |-> 0]]

HostInit ==
  /\ up = "yes" /\ timer = FALSE
  /\ phase = "pull" /\ inbox = {}
  /\ runs = [NoRuns EXCEPT !["start"]["round"] = 1]
  /\ ready = "first" /\ flush = "none"
  /\ unsent = {} /\ pending = {} /\ saved = {} /\ adopted = "no"
  /\ hub = {} /\ here = {} /\ added = {}
  /\ touched = {} /\ reported = {} /\ lost = {}
  /\ failed = FALSE /\ missed = FALSE /\ flushes = 0 /\ failures = 0 /\ stops = 0

engineVars == <<unsent, pending, saved, hub, here, added>>
pastVars == <<touched, reported, lost>>
boundVars == <<flushes, failures, stops>>

(* What the snapshot holds from now on. *)
persist(changes) ==
  /\ saved' = changes
  /\ adopted' = IF adopted = "yes" THEN "saved" ELSE adopted

\* Mutant: a change that comes during a round is left to that round.
DropsDuringRound == timer' = (up # "stopping" /\ phase = "none")

(* Every touch and every push begins the wait anew. *)
schedule == timer' = (up # "stopping")

(* What the round under way sends no more, or has pulled past. *)
ComesTooLate ==
  \/ phase = "end" /\ unsent # {}
  \/ phase \notin {"none", "pull"} /\ ~((Arriving \cap hub) \subseteq (here \cup inbox))

(* run: it begins a round or shares the one under way. *)
run(caller) ==
  /\ phase' = IF phase = "none" THEN "pull" ELSE phase
  /\ failed' = (phase # "none" /\ failed)
  /\ missed' = (phase # "none" /\ (missed \/ ComesTooLate))
  /\ runs' = [runs EXCEPT ![caller]["round"] = @ + 1]

Touch(c) ==
  /\ up # "no" /\ c \notin touched \cup Before
  /\ touched' = touched \cup {c}
  /\ unsent' = unsent \cup {c}
  /\ schedule
  /\ UNCHANGED <<up, phase, inbox, runs, ready, flush, pending, saved, adopted, hub, here, added, reported, lost, failed, missed,
                 boundVars>>

push(p) ==
  /\ up # "no" /\ p \notin hub
  /\ hub' = hub \cup {p}
  /\ schedule
  /\ UNCHANGED <<up, phase, inbox, runs, ready, flush, unsent, pending, saved, adopted, here, added, pastVars, failed, missed,
                 boundVars>>

TimerFires ==
  /\ timer
  /\ timer' = FALSE
  /\ run("timer")
  /\ UNCHANGED <<up, inbox, ready, flush, engineVars, adopted, pastVars, boundVars>>

(* flush clears the timer, waits for the first rounds, and runs. *)
FlushAsked ==
  /\ up = "yes" /\ flush = "none" /\ flushes < MaxFlushes
  /\ flushes' = flushes + 1
  /\ timer' = FALSE
  /\ flush' = "asked"
  /\ UNCHANGED <<up, phase, inbox, runs, ready, engineVars, adopted, pastVars, failed, missed, failures, stops>>

FlushRuns ==
  /\ flush = "asked" /\ ready = "done"
  /\ flush' = "running"
  /\ run("flush")
  /\ UNCHANGED <<up, timer, inbox, ready, engineVars, adopted, pastVars, boundVars>>

(* A round: a pull, its records applied under the lock, then segments until nothing is dirty. *)
PullAll ==
  /\ phase = "pull"
  /\ inbox' = hub \cap (Arriving \ here)
  /\ phase' = IF inbox' = {} THEN "build" ELSE "apply"
  /\ UNCHANGED <<up, timer, runs, ready, flush, engineVars, adopted, pastVars, failed, missed, boundVars>>

Apply ==
  /\ phase = "apply"
  /\ here' = here \cup inbox
  /\ added' = added \cup inbox
  /\ inbox' = {}
  /\ persist(unsent \cup pending)
  /\ phase' = "build"
  /\ UNCHANGED <<up, timer, runs, ready, flush, unsent, pending, hub, pastVars, failed, missed, boundVars>>

Build ==
  /\ phase = "build"
  /\ \/ /\ pending # {} \/ unsent # {}
        /\ pending' = IF pending # {} THEN pending ELSE unsent
        /\ unsent' = IF pending # {} THEN unsent ELSE {}
        /\ persist(unsent \cup pending)
        /\ phase' = "push"
     \/ /\ pending = {} /\ unsent = {}
        /\ phase' = "end"
        /\ UNCHANGED <<unsent, pending, saved, adopted>>
  /\ UNCHANGED <<up, timer, inbox, runs, ready, flush, hub, here, added, pastVars, failed, missed, boundVars>>

Pushed ==
  /\ phase = "push"
  /\ hub' = hub \cup pending
  /\ pending' = {}
  /\ persist(unsent)
  /\ phase' = "build"
  /\ UNCHANGED <<up, timer, inbox, runs, ready, flush, unsent, here, added, pastVars, failed, missed, boundVars>>

(* The round is over for every run that shares it. *)
RoundEnds ==
  /\ phase = "end"
  /\ phase' = "none"
  /\ runs' = [c \in Caller |-> [runs[c] EXCEPT !["round"] = 0, !["registry"] = @ + runs[c]["round"]]]
  /\ UNCHANGED <<up, timer, inbox, ready, flush, engineVars, adopted, pastVars, failed, missed, boundVars>>

(* A run that is over, well or not, lets whoever waits for it go on. *)
Resolved(c) ==
  /\ ready' = IF c = "start" THEN (IF ready = "first" /\ adopted = "no" THEN "adopting" ELSE "done") ELSE ready
  /\ flush' = IF c = "flush" THEN "none" ELSE flush

RoundFails ==
  /\ phase # "none"
  /\ failures < MaxFailures /\ failures' = failures + 1
  /\ phase' = "none"
  /\ \E done \in SUBSET inbox : here' = here \cup done /\ added' = added \cup done
  /\ inbox' = {} /\ failed' = TRUE
  /\ runs' = [c \in Caller |-> [runs[c] EXCEPT !["round"] = 0]]
  /\ ready' = CASE runs["start"]["round"] = 0 -> ready
                [] ready = "first" /\ adopted = "no" -> "adopting"
                [] OTHER -> "done"
  /\ flush' = IF runs["flush"]["round"] > 0 THEN "none" ELSE flush
  /\ UNCHANGED <<up, timer, unsent, pending, saved, adopted, hub, pastVars, missed, flushes, stops>>

(* After a round: what could not be installed or set is tried again, and what came is reported. *)
RetryRegistry(c) ==
  /\ runs[c]["registry"] > 0
  /\ runs' = [runs EXCEPT ![c]["registry"] = @ - 1, ![c]["settings"] = @ + 1]
  /\ UNCHANGED <<up, timer, phase, inbox, ready, flush, engineVars, adopted, pastVars, failed, missed, boundVars>>

RetrySettings(c) ==
  /\ runs[c]["settings"] > 0
  /\ runs' = [runs EXCEPT ![c]["settings"] = @ - 1]
  /\ Resolved(c)
  /\ \/ /\ reported' = reported \cup added
        /\ added' = {}
        /\ UNCHANGED <<failed, missed, failures>>
     \/ /\ failures < MaxFailures /\ failures' = failures + 1
        /\ failed' = TRUE
        /\ UNCHANGED <<reported, added>>
  /\ UNCHANGED <<up, timer, phase, inbox, unsent, pending, saved, adopted, hub, here, touched, lost, missed, flushes, stops>>

(* After the first round, what was here before is recorded, and a second round takes it out. *)
Adopt ==
  /\ up # "no" /\ ready = "adopting"
  /\ adopted' = "yes"
  /\ touched' = touched \cup Before
  /\ unsent' = unsent \cup Before
  /\ IF Before = {} THEN UNCHANGED timer ELSE schedule
  /\ ready' = "second"
  /\ UNCHANGED <<up, phase, inbox, runs, flush, pending, saved, hub, here, added, reported, lost, failed, missed, boundVars>>

RunAgain ==
  /\ up # "no" /\ ready = "second" /\ runs["start"] = NoRuns["start"]
  /\ run("start")
  /\ UNCHANGED <<up, timer, inbox, ready, flush, engineVars, adopted, pastVars, boundVars>>

(* Shutdown: no more rounds; later the process ends, and starts again from what it has saved. *)
stop ==
  /\ up = "yes" /\ stops < MaxStops /\ stops' = stops + 1
  /\ up' = "stopping" /\ timer' = FALSE
  /\ UNCHANGED <<phase, inbox, runs, ready, flush, engineVars, adopted, pastVars, failed, missed, flushes, failures>>

Quit ==
  /\ up = "stopping"
  /\ up' = "no" /\ timer' = FALSE /\ phase' = "none" /\ inbox' = {} /\ runs' = NoRuns /\ ready' = "first" /\ flush' = "none"
  /\ unsent' = {} /\ pending' = {} /\ added' = {}
  /\ lost' = lost \cup ((unsent \cup pending) \ saved) \cup added
  /\ adopted' = IF adopted = "yes" THEN "no" ELSE adopted
  /\ UNCHANGED <<saved, hub, here, touched, reported, failed, missed, boundVars>>

Start ==
  /\ up = "no"
  /\ up' = "yes" /\ phase' = "pull" /\ failed' = FALSE /\ missed' = FALSE
  /\ runs' = [NoRuns EXCEPT !["start"]["round"] = 1]
  /\ unsent' = saved
  /\ UNCHANGED <<timer, inbox, ready, flush, pending, saved, adopted, hub, here, added, pastVars, boundVars>>

RoundStep == PullAll \/ Apply \/ Build \/ Pushed \/ RoundEnds
AfterRound(c) == RetryRegistry(c) \/ RetrySettings(c)

HostNext ==
  \/ \E c \in Change : Touch(c)
  \/ \E p \in Arriving : push(p)
  \/ TimerFires \/ FlushAsked \/ FlushRuns
  \/ RoundStep \/ RoundFails
  \/ \E c \in Caller : AfterRound(c)
  \/ Adopt \/ RunAgain
  \/ stop \/ Quit \/ Start

HostSpec == HostInit /\ [][HostNext]_hostVars

(***************************************************************************)
(* Properties. Fairness: the event loop takes what is due, a shutdown ends *)
(* and the server is started again; changes, pushes, calls of flush,       *)
(* failures and shutdowns owe nothing.                                     *)
(***************************************************************************)
HostFairness ==
  /\ WF_hostVars(TimerFires) /\ WF_hostVars(FlushRuns)
  /\ WF_hostVars(RoundStep)
  /\ \A c \in Caller : WF_hostVars(AfterRound(c))
  /\ WF_hostVars(Adopt \/ RunAgain)
  /\ WF_hostVars(Quit) /\ WF_hostVars(Start)

FairHostSpec == HostSpec /\ HostFairness

(* A change made here reaches the log, and what another device pushed is here *)
(* and reported as added, however timers, calls of flush and rounds that share *)
(* one another overlap, but where a run that shares a round came too late for  *)
(* it (engine.ts's sync) and nothing makes another. A round that failed may be *)
(* the last one too; only what no snapshot holds, or a report that a shutdown  *)
(* cut off, is lost. sync-host.ts's run and schedule.                          *)
Carried ==
  /\ \A c \in Change : c \in touched ~> (c \in hub \cup lost \/ []failed \/ []missed)
  /\ \A p \in Arriving : p \in hub ~> (p \in reported \cup lost \/ []failed \/ []missed)

(* SyncHost.backend: "A push through it also brings this server's own library  *)
(* up to date." It does unless every round from then on fails.                 *)
PushBringsUpToDate == \A p \in Arriving : p \in hub ~> (p \in here \/ []failed)
=============================================================================
