--------------------------- MODULE MCWatermarkScd2 ---------------------------
EXTENDS WatermarkScd2, TLC

Symmetry == {p @@ q : p \in Permutations(Keys), q \in Permutations(Data)}

\* quality, maxQuarantine and required; then overlap and serialized.
Config(q, m, c, o, s) ==
    [quality |-> q, maxQuarantine |-> m, required |-> c, overlap |-> o, serialized |-> s]

\* Both quality policies, with and without the reconciliation gate and an
\* overlap, one at a time and overlapping.  Rules that are off accept every row,
\* as any policy does when every row is valid.
EveryConfig ==
    {Config("quarantine", 1, TRUE, 1, TRUE),
     Config("quarantine", 1, FALSE, 0, TRUE),
     Config("fail", 0, TRUE, 0, FALSE)}
=============================================================================
