---------------------------- MODULE PlanLifecycle ----------------------------
(***************************************************************************)
(* What the execution_plans table promises to anyone who reads it: every   *)
(* plan moves along the state machine of L4ExecutionPlanner, decision and  *)
(* sale become visible together, and a settled plan never moves again.     *)
(***************************************************************************)
CONSTANT Plans

VARIABLE st   \* the committed status of each plan

(* The table of L4ExecutionPlanner.valid_transition.                       *)
ValidTransitions == [
    PENDING_CONFIRM  |-> {"CONFIRMED", "CANCELLED", "TIMEOUT_EXECUTED", "FAILED"},
    CONFIRMED        |-> {"EXECUTED", "FAILED"},
    TIMEOUT_EXECUTED |-> {"EXECUTED", "FAILED"},
    CANCELLED        |-> {},
    EXECUTED         |-> {},
    FAILED           |-> {}]

Settled == {s \in DOMAIN ValidTransitions : ValidTransitions[s] = {}}

(* generate_plan: a STAGED plan waits for the user, an OFF plan does not.  *)
Creation(s, t) == s = "NONE" /\ t \in {"PENDING_CONFIRM", "CONFIRMED"}

(* One commit may carry two transitions (decision, then sale) and ends in  *)
(* a settled status.                                                       *)
Settling(s, t) ==
    /\ s \in DOMAIN ValidTransitions /\ t \in Settled
    /\ \/ t \in ValidTransitions[s]
       \/ \E u \in ValidTransitions[s] : t \in ValidTransitions[u]

Init == st = [p \in Plans |-> "NONE"]

Next ==
    /\ st' \in [Plans -> {"NONE"} \cup DOMAIN ValidTransitions]
    /\ \A p \in Plans : \/ st'[p] = st[p]
                        \/ Creation(st[p], st'[p])
                        \/ Settling(st[p], st'[p])

Spec == Init /\ [][Next]_st
=============================================================================
