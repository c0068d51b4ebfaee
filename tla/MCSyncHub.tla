----------------------------- MODULE MCSyncHub -----------------------------
\* The hub's log and the gate in front of it share no state: `part` says which of them a behaviour is about.
EXTENDS SyncHub, SyncPairing, TLC

VARIABLE part

SumVars == <<part, vars, pairingVars>>

SumInit == part \in {"hub", "gate"} /\ Init /\ PairingInit
SumNext ==
  /\ UNCHANGED part
  /\ \/ part = "hub" /\ Next /\ UNCHANGED pairingVars
     \/ part = "gate" /\ PairingNext /\ UNCHANGED vars
SumSpec == SumInit /\ [][SumNext]_SumVars

HubSymmetry == Permutations(Device) \cup Permutations(Body) \cup Permutations(Phone)
=============================================================================
