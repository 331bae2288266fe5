------------------------- MODULE MCQuarantineReplay -------------------------
EXTENDS QuarantineReplay, TLC

Symmetry ==
    {f @@ g @@ h : f \in Permutations(Calls), g \in Permutations(Batches),
                   h \in Permutations(Reviews)}
=============================================================================
