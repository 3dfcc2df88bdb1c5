-------------------------- MODULE MCThreadRegistry --------------------------
EXTENDS ThreadRegistry, TLC

Symmetry == Permutations(Threads) \cup Permutations(Plugins) \cup Permutations(Contexts)
=============================================================================
