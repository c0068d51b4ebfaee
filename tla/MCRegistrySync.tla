--------------------------- MODULE MCRegistrySync ---------------------------
EXTENDS RegistrySync

TwoDevices == {1, 2}
Values == {"a", "b", "c"}
MCUnderstood == [u \in Url |-> IF u = "old" THEN {"a"} ELSE Values]
Nothing == [regs |-> {}, from |-> None, pref |-> None]
Installed(u) == [regs |-> {u}, from |-> u, pref |-> "a"]
Kinds == [call |-> 0, fault |-> 0, move |-> 0, restart |-> 0]
From(x, y, n) == [has |-> [d \in TwoDevices |-> IF d = 1 THEN x ELSE y], left |-> n]
\* An orphan: its registry was removed.
Orphan == [regs |-> {}, from |-> "new", pref |-> None]
MCHistories == {
  From(Installed("old"), Nothing, [Kinds EXCEPT !.call = 2, !.move = 1]),
  From(Installed("old"), Installed("new"), [Kinds EXCEPT !.call = 1, !.fault = 1, !.restart = 1, !.move = 1]),
  From(Nothing, Installed("new"), [Kinds EXCEPT !.call = 2]),
  From(Orphan, Orphan, [Kinds EXCEPT !.call = 1, !.fault = 1]),
  From(Orphan, Nothing, [Kinds EXCEPT !.call = 2]),
  From([Installed("new") EXCEPT !.pref = "b"], Installed("new"), [Kinds EXCEPT !.call = 1, !.fault = 1])}
Moves == {From(Installed("old"), Installed("old"), [Kinds EXCEPT !.call = 1, !.move = 1])}
=============================================================================
