-------------------------- MODULE MCWarehouseDrill --------------------------
(* Two approved checks of one operation, of either kind and in any order: a *)
(* drill retried after a safe NOT_COMMITTED, a commit check meeting a drill *)
(* under way, and the other way round.                                      *)
EXTENDS WarehouseDrill, TLC

CONSTANTS r1, r2, o1

MCRuns == {r1, r2}
MCKeyOf == [r \in MCRuns |-> o1]
MCSymmetry == Permutations(MCRuns)

Request(kind, recovery, deployed) ==
    [kind |-> kind, recovery |-> recovery, deployed |-> deployed]

MCRequests == { Request("drill", TRUE, TRUE), Request("drill", FALSE, TRUE),
                Request("commit", FALSE, TRUE), Request("drill", TRUE, FALSE) }
=============================================================================
