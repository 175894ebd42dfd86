---------------------------- MODULE MCLLMBudget ----------------------------
EXTENDS LLMBudget

CONSTANTS c1, c2, c3, worker, server

MCHome == [c \in Callers |-> IF c = c3 THEN server ELSE worker]
=============================================================================
