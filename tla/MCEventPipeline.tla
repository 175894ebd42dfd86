--------------------------- MODULE MCEventPipeline ---------------------------
(* Instances of EventPipeline for TLC.                                     *)
EXTENDS EventPipeline, TLC

Symmetry == Permutations(Events) \cup Permutations(Publishers)
=============================================================================
