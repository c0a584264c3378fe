---------------------------- MODULE MCProjectStore ----------------------------
EXTENDS ProjectStore, TLC
Symmetry == Permutations(Agent) \cup Permutations(Call)
=============================================================================
