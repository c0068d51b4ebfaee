-------------------------- MODULE MCBridgeRegistry --------------------------
\* The book of what is installed, the hosts that load it and the migration of ids share no state: `part`
\* says which of them a behaviour is about.
EXTENDS BridgeRegistry, BridgeHosting, IdMigration, TLC

------------------------------------------------------------------------------
\* The book.

MCUrl == {"old", "new", "other"}
MCItem == {"b", "t"}
V(v) == [v |-> v, sha |-> v, compatible |-> v < 3]
None2 == [b |-> None, t |-> None]
I(offers, forward, back, key) == [offers |-> offers, movedTo |-> forward, movedFrom |-> back, key |-> key]
Both(v) == [b |-> V(v), t |-> V(v)]
\* "old" leaves a forwarding note, "new" takes over with the same key; "other" has the same ids.
MCIndex == [old |-> <<I(Both(1), None, {}, "k"), I(None2, "new", {}, "k")>>,
            new |-> <<I(Both(1), None, {"old"}, "k"), I([Both(2) EXCEPT !.t = None], None, {"old"}, "k")>>,
            other |-> <<I(Both(1), None, {"old"}, "x"), I(Both(3), "new", {"old"}, "x")>>]
Saves(pin) == [pin |-> pin, pendingMove |-> None, pendingAdoption |-> {}]
\* Both are installed from "old", which was pinned to the key it is signed with, or to none.
MCStart(pin) ==
  [registries |-> [old |-> Saves(pin), new |-> None, other |-> Saves("x")],
   installed |-> [i \in MCItem |-> [from |-> "old", v |-> 1, sha |-> 1, available |-> None, discontinued |-> FALSE]]]
MCStarts == {MCStart("k"), MCStart(None)}
Kinds == [user |-> 0, check |-> 0, offline |-> 0, crash |-> 0]
MCBudgets == {[Kinds EXCEPT !.user = 3, !.crash = 1],
              [Kinds EXCEPT !.user = 2, !.check = 1, !.offline = 1]}
CheckBudget == {[Kinds EXCEPT !.check = 1]}

------------------------------------------------------------------------------
\* The migration.
MCSid == {"a", "b", "n"}
MCCid == {"c", "d"}
\* Two series become one; or a series keeps its id and a chapter changes.
ToOne == [series |-> [s \in MCSid |-> "n"], chapter |-> [s \in MCSid |-> [c \in MCCid |-> "d"]]]
InSeries == [series |-> [s \in MCSid |-> s],
             chapter |-> [s \in MCSid |-> [c \in MCCid |-> IF s = "a" THEN "d" ELSE c]]]
MCAnswers == {ToOne, InSeries}
Events == [read |-> 0, file |-> 0, download |-> 0, restore |-> 0, fail |-> 0, crash |-> 0, midmove |-> 0, overlap |-> 0]
MCHistories == {
  [Events EXCEPT !.read = 1, !.file = 2],
  [Events EXCEPT !.read = 2, !.crash = 1],
  [Events EXCEPT !.read = 1, !.restore = 1, !.fail = 1],
  [Events EXCEPT !.file = 3, !.fail = 1],
  [Events EXCEPT !.download = 2, !.fail = 1, !.crash = 1],
  [Events EXCEPT !.read = 1, !.download = 1, !.restore = 1]}
MidMove == {[Events EXCEPT !.download = 1, !.midmove = 1]}
ReadsOverlap == {[Events EXCEPT !.read = 2, !.overlap = 1]}

------------------------------------------------------------------------------
VARIABLE part

SumVars == <<part, vars, bridgeVars, migrationVars>>

SumInit ==
  /\ part \in {"book", "hosting", "ids"} /\ Init /\ BridgeInit /\ MigrationInit
  /\ part # "book" => host = "server" /\ left = CHOOSE b \in Budgets : TRUE
  /\ part # "book" => installed = (CHOOSE s \in Starts : TRUE).installed /\ registries = (CHOOSE s \in Starts : TRUE).registries
  /\ part # "hosting" => transport = CHOOSE t \in Host : TRUE
  /\ part # "ids" => to = (CHOOSE a \in Answers : TRUE) /\ remaining = CHOOSE h \in Histories : TRUE
SumNext ==
  /\ UNCHANGED part
  /\ \/ part = "book" /\ Next /\ UNCHANGED <<bridgeVars, migrationVars>>
     \/ part = "hosting" /\ BridgeNext /\ UNCHANGED <<vars, migrationVars>>
     \/ part = "ids" /\ MigrationNext /\ UNCHANGED <<vars, bridgeVars>>
\* BridgeFairness, of the behaviours that are about the hosting.
InHosting(A) == part = "hosting" /\ A /\ UNCHANGED <<part, vars, migrationVars>>
SumFairness ==
  /\ \A c \in Asker : WF_SumVars(InHosting(LoadStep(c)))
  /\ WF_SumVars(InHosting(MigrationEnds))
SumSpec == SumInit /\ [][SumNext]_SumVars /\ SumFairness
=============================================================================
