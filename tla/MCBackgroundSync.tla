-------------------------- MODULE MCBackgroundSync --------------------------
\* A bound: in a behaviour either bridges are uninstalled, or pages opened and series taken down; `part`
\* says which.
EXTENDS BackgroundSync

VARIABLE part

SumVars == <<part, check>>

SumInit == part \in {"pages", "bridges"} /\ Init
SumNext ==
  /\ UNCHANGED part
  /\ Next
  /\ part = "pages" => UNCHANGED loads
  /\ part = "bridges" => UNCHANGED page /\ \A e \in Entry : source'[e].up
SumSpec == SumInit /\ [][SumNext]_SumVars /\ Fairness
=============================================================================
