------------------------------- MODULE MCTcp -------------------------------
EXTENDS Tcp, TLC

Symmetry == Permutations(Clients)
=============================================================================
