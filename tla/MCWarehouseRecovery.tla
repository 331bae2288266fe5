------------------------ MODULE MCWarehouseRecovery ------------------------
(* Three attempts of one operation, enough for two certifiers holding the  *)
(* same binding while a third attempt retries.                             *)
EXTENDS WarehouseRecovery, TLC

CONSTANTS r1, r2, r3, o1

MCRuns == {r1, r2, r3}
MCKeyOf == [r \in MCRuns |-> o1]
MCSymmetry == Permutations(MCRuns)
=============================================================================
