------------------------- MODULE MCStagedExecution -------------------------
(* Instances of StagedExecution for TLC.                                   *)
EXTENDS StagedExecution, TLC

CONSTANTS p1, p2

(* A full id matches one plan, a short prefix both or none.                *)
OneOrBoth == {{p1}, {p2}, {p1, p2}}
JustOne   == {{p1}}

PlanSymmetry == Permutations(Plans)
=============================================================================
