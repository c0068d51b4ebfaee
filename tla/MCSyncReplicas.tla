--------------------------- MODULE MCSyncReplicas ---------------------------
(***************************************************************************)
(* Two replicas of one record of each kind.  Wall readings 1 and 2 in any  *)
(* order make clocks stall, jump and go back; both are within MaxDrift.    *)
(***************************************************************************)
EXTENDS SyncReplicas, TLC

MCReplica == {1, 2}
MCWall == {1, 2}
MCPage == {1, 2}
ValueSymmetry == Permutations(Value)
=============================================================================
