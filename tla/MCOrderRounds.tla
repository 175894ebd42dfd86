--------------------------- MODULE MCOrderRounds ---------------------------
(* Instances of OrderRounds for TLC.                                       *)
EXTENDS OrderRounds

CONSTANTS s1, b1

MCHolding == [c \in Codes |-> IF c = s1 THEN 1 ELSE 0]
MCTarget  == [c \in Codes |-> IF c = s1 THEN 0 ELSE 2]
=============================================================================
