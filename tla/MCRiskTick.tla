----------------------------- MODULE MCRiskTick -----------------------------
EXTENDS RiskTick

CONSTANTS h1, h2, g1, m1, w1

MCKeys == P0 \cup P1 \cup Meta
MCWindow == [k \in Keys |-> 2]
=============================================================================
