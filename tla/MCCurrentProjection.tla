------------------------ MODULE MCCurrentProjection ------------------------
EXTENDS CurrentProjection, TLC

Symmetry == Permutations(Runs) \cup Permutations(Keys)
=============================================================================
