--------------------------- MODULE MC_LockSessions ---------------------------
(***************************************************************************)
(* Bounds for the run of sessions, and a check over all the commands: they *)
(* take their locks in one order, which SomebodyWins is proved from.       *)
(***************************************************************************)
EXTENDS MC_ContainerLocks

Commands == INSTANCE ContainerLocks WITH Programs <- AllPrograms

(* Every lock file's place in the order, the images' before the containers'. *)
LockRank == [a \in MCPaths |-> IF a[1] = "build" THEN a[2] ELSE 2 + a[2]]

ASSUME CommandsInOrder == Commands!InOrder(LockRank)

=============================================================================
