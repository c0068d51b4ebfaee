---------------------------- MODULE SyncHubFaults ----------------------------
(***************************************************************************)
(* The hub on a disk that fails, which its comments do not count on: an    *)
(* append fails and the process goes on, so that the device re-pushes to   *)
(* the same open hub; or the process stops while a reopening is rewriting  *)
(* a damaged file, which writeFile does by emptying it first.              *)
(***************************************************************************)
EXTENDS SyncHub

CONSTANTS
  WriteErrors,   \* bound: appends that fail while the process goes on
  FragileReopen  \* may the process stop while a reopening rewrites a file?

VARIABLE errors

FaultyInit == Init /\ errors = 0

Failed ==
  /\ errors < WriteErrors
  /\ errors' = errors + 1
  /\ queue' = Tail(queue)
  /\ phase' = "open"
  /\ UNCHANGED <<log, acked, served, crashes>>

\* The disk is full: part of the line is in the file and the push fails.
WriteFails ==
  /\ phase = "open" /\ queue # <<>>
  /\ Extends
  /\ file' = [file EXCEPT ![Current.device] = Appended(Current.device, TornLine)]
  /\ half' = [half EXCEPT ![Current.device] = TRUE]
  /\ Failed

\* The line was written and datasync failed.
SyncFails ==
  /\ phase = "written"
  /\ Failed
  /\ UNCHANGED <<file, half>>

CrashInReopen(d) ==
  /\ FragileReopen
  /\ phase = "closed" /\ crashes < MaxCrashes
  /\ Unclean(d)
  /\ \E n \in 0..CleanLength(file[d]) : file' = [file EXCEPT ![d] = SubSeq(@, 1, n)]
  /\ half' = [half EXCEPT ![d] = FALSE]
  /\ crashes' = crashes + 1
  /\ UNCHANGED <<log, queue, phase, acked, served, errors>>

FaultyNext ==
  \/ Next /\ UNCHANGED errors
  \/ WriteFails
  \/ SyncFails
  \/ \E d \in Device : CrashInReopen(d)

FaultySpec == FaultyInit /\ [][FaultyNext]_<<vars, errors>>
=============================================================================
