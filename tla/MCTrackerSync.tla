---------------------------- MODULE MCTrackerSync ----------------------------
\* What is read to and from a tracker, and the login it is read with, share no state: `part` says which
\* of them a behaviour is about.
EXTENDS TrackerSync, TrackerTokens

VARIABLE part

SumVars == <<part, vars, tokenVars>>

SumInit ==
  /\ part \in {"entries", "tokens"} /\ Init /\ TokenInit
  /\ part = "entries" => side = CHOOSE s \in Side : TRUE
  /\ part = "tokens" => ~held /\ remote = [e \in Entry |-> None] /\ left = CHOOSE b \in Budgets : TRUE
SumNext ==
  /\ UNCHANGED part
  /\ \/ part = "entries" /\ Next /\ UNCHANGED tokenVars
     \/ part = "tokens" /\ TokenNext /\ UNCHANGED vars
\* The fairness of FairSpec and of TokenFairness, each of the behaviours that are about its part.
InEntries(A) == part = "entries" /\ A /\ UNCHANGED <<part, tokenVars>>
InTokens(A) == part = "tokens" /\ A /\ UNCHANGED <<part, vars>>
SumFairness ==
  /\ \A c \in Caller : WF_SumVars(InEntries(Steps(c))) /\ WF_SumVars(InEntries(relinkEntry(c)))
  /\ \A u \in User : WF_SumVars(InTokens(UserStep(u)))
  /\ \A i \in Contexts : WF_SumVars(InTokens(ContextStep(i)))
  /\ WF_SumVars(InTokens(drainAndPersist \/ LoginEnds))
SumSpec == SumInit /\ [][SumNext]_SumVars /\ SumFairness

CONSTANTS a, b, e1, e2

TwoCallers == {a, b}
TwoEntries == {e1, e2}
MCChapter == {2, 3, 4}
MCTotal == [e \in TwoEntries |-> IF e = e1 THEN 4 ELSE 0]
Kinds == [read |-> 0, unread |-> 0, fault |-> 0, edit |-> 0, hand |-> 0, crash |-> 0]
MCBudgets == {
  [Kinds EXCEPT !.read = 2],
  [Kinds EXCEPT !.read = 1, !.fault = 2, !.crash = 1],
  [Kinds EXCEPT !.read = 1, !.unread = 1, !.fault = 1],
  [Kinds EXCEPT !.read = 1, !.hand = 1, !.fault = 1],
  [Kinds EXCEPT !.read = 1, !.edit = 1],
  [Kinds EXCEPT !.edit = 1, !.hand = 1]}
==============================================================================
