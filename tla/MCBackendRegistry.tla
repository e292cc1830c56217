-------------------------- MODULE MCBackendRegistry --------------------------
EXTENDS BackendRegistry, TLC

RequestSymmetry == Permutations(Requests)
=============================================================================
