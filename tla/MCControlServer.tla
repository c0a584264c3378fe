--------------------------- MODULE MCControlServer ---------------------------
EXTENDS ControlServer, TLC
Symmetry == Permutations(Client)
=============================================================================
