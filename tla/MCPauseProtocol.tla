-------------------------- MODULE MCPauseProtocol --------------------------
EXTENDS PauseProtocol, TLC
Symmetry == Permutations(Instance)
=============================================================================
