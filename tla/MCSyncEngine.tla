---------------------------- MODULE MCSyncEngine ----------------------------
EXTENDS SyncEngine

MCInstall == {1, 2}
MCKey == {1}
MCPage == {1}
AnyTable == [MCKey -> Kind]
TwoKeys == {1, 2}
TwoTables == {<<"register", "event">>, <<"progress", "register">>}
AtRest == {"idle"}
AllPoints == {"idle", "pull", "apply", "send"}
=============================================================================
