--------------------------- MODULE MCLiveSession ---------------------------
EXTENDS LiveSession, TLC

Symmetry == Permutations(Agents)
=============================================================================
