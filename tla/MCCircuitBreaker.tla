-------------------------- MODULE MCCircuitBreaker --------------------------
EXTENDS CircuitBreaker, TLC

AdminSymmetry == Permutations(Admins) \cup Permutations(Approvals)
MCReturns == {-1, 1}
=============================================================================
