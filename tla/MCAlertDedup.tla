---------------------------- MODULE MCAlertDedup ----------------------------
EXTENDS AlertDedup, TLC

CONSTANTS k1, k2

MCWindow == (k1 :> 3) @@ (k2 :> 2)
Symmetry == Permutations(Senders)
=============================================================================
