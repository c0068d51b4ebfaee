--------------------------- MODULE MCSyncLibrary ---------------------------
\* What two devices make of each other's records, and when a server's own device sends and takes
\* them, share no state here: `part` says which of them a behaviour is about.
EXTENDS SyncLibrary, SyncHosting

VARIABLE part

SumVars == <<part, syncVars, hostVars>>

SumInit ==
  /\ part \in {"records", "host"} /\ LibraryInit /\ HostInit
  /\ part = "host" => lib = [d \in Device |-> Library(d, FALSE)]
SumNext ==
  /\ UNCHANGED part
  /\ \/ part = "records" /\ LibraryNext /\ UNCHANGED hostVars
     \/ part = "host" /\ HostNext /\ UNCHANGED syncVars
\* HostFairness, of the behaviours that are about the host.
InHost(A) == part = "host" /\ A /\ UNCHANGED <<part, syncVars>>
SumFairness ==
  /\ WF_SumVars(InHost(TimerFires)) /\ WF_SumVars(InHost(FlushRuns))
  /\ WF_SumVars(InHost(RoundStep))
  /\ \A c \in Caller : WF_SumVars(InHost(AfterRound(c)))
  /\ WF_SumVars(InHost(Adopt \/ RunAgain))
  /\ WF_SumVars(InHost(Quit)) /\ WF_SumVars(InHost(Start))
SumSpec == SumInit /\ [][SumNext]_SumVars /\ SumFairness
=============================================================================
