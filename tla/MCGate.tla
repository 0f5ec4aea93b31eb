------------------------------- MODULE MCGate -------------------------------
EXTENDS Gate, TLC

Same == Permutations(Procs)
=============================================================================
