--------------------------- MODULE MCGatedNetwork ---------------------------
\* What leaves a host for a source and what it keeps on disk share no state: `part` says which of them
\* a behaviour is about.
EXTENDS GatedNetwork, DocumentStore

MCPace == [max |-> 2, interval |-> 0]
MCDeclared == [max |-> 1, interval |-> 1]
MCQuota == [limit |-> 1, window |-> 2]

VARIABLE part

SumVars == <<part, gate, storeVars>>

SumInit ==
  /\ part \in {"network", "store"} /\ Init /\ StoreInit
  /\ part = "network" => style = CHOOSE s \in Style : TRUE
SumNext ==
  /\ UNCHANGED part
  /\ \/ part = "network" /\ Next /\ UNCHANGED storeVars
     \/ part = "store" /\ StoreNext /\ UNCHANGED gate
\* The fairness of FairSpec and of FairStoreSpec, each of the behaviours that are about its part.
InNetwork(A) == part = "network" /\ A /\ UNCHANGED <<part, storeVars>>
InStore(A) == part = "store" /\ A /\ UNCHANGED <<part, gate>>
SumFairness ==
  /\ WF_SumVars(InNetwork(Elapse)) /\ WF_SumVars(InNetwork(limiterTimer)) /\ WF_SumVars(InNetwork(routeTimer))
  /\ \A c \in Caller : WF_SumVars(InNetwork(Answer(c) \/ SlowDown(c)))
  /\ WF_SumVars(InStore(DocStep))
  /\ \A c \in Client : WF_SumVars(InStore(ClientStep(c)))
SumSpec == SumInit /\ [][SumNext]_SumVars /\ SumFairness

\* Whoever asks a source or a store is answered or refused.
EveryWaitEnds == EveryRequestEnds /\ EveryCallSettles
=============================================================================
