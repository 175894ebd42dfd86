--------------------------- MODULE MCStrategyGate ---------------------------
EXTENDS StrategyGate, TLC

CONSTANTS s1, s2

MCBundle == <<s1, s2>>
MCDeclared == (s1 :> "live") @@ (s2 :> "dry_run")
Symmetry == Permutations(Managers) \cup Permutations(Booters)
=============================================================================
