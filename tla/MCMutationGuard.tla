-------------------------- MODULE MCMutationGuard --------------------------
EXTENDS MutationGuard, TLC

Symmetry == Permutations(Tabs) \cup Permutations(Ids) \cup Permutations(Nonces)
=============================================================================
