--------------------------- MODULE MCIntegration ---------------------------
EXTENDS Integration, TLC
CONSTANTS t1, t2, dispatch, release, none, g1, g2

\* No step prefers one task to another.
Interchangeable == Permutations(Tasks)
=============================================================================
