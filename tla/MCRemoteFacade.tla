--------------------------- MODULE MCRemoteFacade ---------------------------
EXTENDS RemoteFacade, TLC

CONSTANTS c1, c2

MCCaller == {c1, c2}

Symmetry == Permutations(MCCaller)
=============================================================================
