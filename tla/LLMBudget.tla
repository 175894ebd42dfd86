----------------------------- MODULE LLMBudget -----------------------------
(***************************************************************************)
(* The monthly budget for language models: get_llm_router's one router per *)
(* process, and BudgetAwareRouter.completion, which checks the booked cost *)
(* of the month, calls a model and books what the call cost.               *)
(*                                                                         *)
(* Callers are threads of several processes.  Nothing holds the budget     *)
(* between the check and the booking, so calls overlap.  Costs are whole   *)
(* units; the local model costs nothing.                                   *)
(***************************************************************************)
EXTENDS Naturals, FiniteSets

CONSTANTS
    Callers,    \* threads that ask for completions
    Home,       \* the process of each caller
    Asks,       \* callers that pass a conn_factory to get_llm_router
    Cap,        \* cap_threshold * monthly_budget_usd
    MaxCost,    \* bound: the cost of a completion over all its attempts
    NoRouter,
    MaxLost,    \* bound: calls of a month that are not booked in full
    MaxMonths   \* bound: ends of a month

Processes == {Home[c] : c \in Callers}

ASSUME BudgetAssumption ==
    /\ IsFiniteSet(Callers)
    /\ Asks \subseteq Callers
    /\ Home = [c \in Callers |-> Home[c]]
    /\ Cap \in Nat \ {0} /\ MaxCost \in Nat
    /\ MaxLost \in Nat /\ MaxMonths \in Nat

VARIABLES
    singleton,  \* _router_singleton of each process
    router,     \* the router each caller has been given
    call,       \* where each caller is
    spent,      \* the month's sum of llm_cost_daily
    paid,       \* what the month's guarded calls cost in fact
    lost,       \* how many of them were not booked in full
    months

vars == <<singleton, router, call, spent, paid, lost, months>>

(* A router, by the caller that built it, and whether it has a guard.      *)
Routers == [by : Callers, guarded : BOOLEAN]

At(step, capped, cost) == [step |-> step, capped |-> capped, cost |-> cost]

Idle == At("idle", FALSE, 0)

Init ==
    /\ singleton = [p \in Processes |-> NoRouter]
    /\ router = [c \in Callers |-> NoRouter]
    /\ call = [c \in Callers |-> Idle]
    /\ spent = 0 /\ paid = 0
    /\ lost = 0 /\ months = 0

Guarded(c) == router[c].guarded

Lose(n) == lost + n <= MaxLost /\ lost' = lost + n

(* Whether a cost that was paid is not booked.                             *)
Gap(c, hidden) == IF Guarded(c) /\ hidden > 0 THEN 1 ELSE 0

Go(c, at) == call' = [call EXCEPT ![c] = at]

Give(c, r) == router' = [router EXCEPT ![c] = r]

-----------------------------------------------------------------------------
(* get_llm_router                                                          *)

Build(c) == [by |-> c, guarded |-> c \in Asks]

(* The check without the lock.                                             *)
GetRouter(c) ==
    /\ call[c] = Idle /\ router[c] = NoRouter
    /\ IF singleton[Home[c]] = NoRouter
       THEN Go(c, At("lock", FALSE, 0)) /\ UNCHANGED router
       ELSE Give(c, singleton[Home[c]]) /\ UNCHANGED call
    /\ UNCHANGED <<singleton, spent, paid, lost, months>>

Missing_Unchecked(c) == TRUE

(* The check under the lock.                                               *)
Missing(c) == singleton[Home[c]] = NoRouter

(* The critical section; a bad configuration raises.                       *)
BuildRouter(c) ==
    /\ call[c].step = "lock"
    /\ \/ LET r == IF Missing(c) THEN Build(c) ELSE singleton[Home[c]] IN
            /\ singleton' = [singleton EXCEPT ![Home[c]] = r]
            /\ Give(c, r)
       \/ Missing(c) /\ UNCHANGED <<singleton, router>>
    /\ Go(c, Idle)
    /\ UNCHANGED <<spent, paid, lost, months>>

-----------------------------------------------------------------------------
(* completion                                                              *)

Capped_Above == spent > Cap

(* BudgetGuard.check over the booked days of the month.                    *)
Capped == spent >= Cap

(* Without a guard there is no check.  Nobody builds a strict router: a    *)
(* capped call goes to the local model.                                    *)
Check(c) ==
    /\ call[c] = Idle /\ router[c] # NoRouter
    /\ Go(c, At("checked", Guarded(c) /\ Capped, 0))
    /\ UNCHANGED <<singleton, router, spent, paid, lost, months>>

(* What is paid for a call that has a guard.                               *)
Charge(c, cost) == paid' = IF Guarded(c) THEN paid + cost ELSE paid

Limit_Primary(c) == MaxCost

(* A capped call only asks the local model.                                *)
Limit(c) == IF call[c].capped THEN 0 ELSE MaxCost

(* The response reports the cost of the model that answered.  A cost that  *)
(* is not known, and that of the attempts before a fallback, is not        *)
(* reported.                                                               *)
Answer(c) ==
    /\ call[c].step = "checked"
    /\ \E cost, hidden \in 0..MaxCost :
         /\ cost + hidden <= Limit(c)
         /\ Lose(Gap(c, hidden))
         /\ Charge(c, cost + hidden)
         /\ Go(c, IF Guarded(c) THEN At("answered", call[c].capped, cost)
                                ELSE Idle)
    /\ UNCHANGED <<singleton, router, spent, months>>

(* Every model failed: a row in the audit log, and the caller gets the     *)
(* exception.  What it cost is not booked.                                 *)
AllFail(c) ==
    /\ call[c].step = "checked"
    /\ \E hidden \in 0..MaxCost :
         /\ hidden <= Limit(c)
         /\ Lose(Gap(c, hidden))
         /\ Charge(c, hidden)
    /\ Go(c, Idle)
    /\ UNCHANGED <<singleton, router, spent, months>>

(* record_cost adds to the row of today, one statement, then the audit     *)
(* row.  When it fails the caller gets no response and nothing is booked.  *)
RecordCost(c) ==
    /\ call[c].step = "answered"
    /\ \/ spent' = spent + call[c].cost /\ UNCHANGED lost
       \/ Lose(1) /\ UNCHANGED spent
    /\ Go(c, Idle)
    /\ UNCHANGED <<singleton, router, paid, months>>

(* The month's sum starts again; calls under way are booked to the new one.*)
NewMonth ==
    /\ months < MaxMonths
    /\ months' = months + 1
    /\ spent' = 0 /\ paid' = 0 /\ lost' = 0
    /\ UNCHANGED <<singleton, router, call>>

(* A process dies with its calls, and starts without a router.             *)
Restart(p) ==
    /\ Lose(Cardinality({c \in Callers : Home[c] = p /\ call[c].step = "answered"}))
    /\ singleton' = [singleton EXCEPT ![p] = NoRouter]
    /\ router' = [c \in Callers |-> IF Home[c] = p THEN NoRouter ELSE router[c]]
    /\ call' = [c \in Callers |-> IF Home[c] = p THEN Idle ELSE call[c]]
    /\ UNCHANGED <<spent, paid, months>>

Next ==
    \/ NewMonth
    \/ \E p \in Processes : Restart(p)
    \/ \E c \in Callers : \/ GetRouter(c) \/ BuildRouter(c)
                          \/ Check(c) \/ Answer(c) \/ AllFail(c) \/ RecordCost(c)

Spec == Init /\ [][Next]_vars

-----------------------------------------------------------------------------
(* Properties                                                              *)

Calls == [step : {"idle", "lock", "checked", "answered"},
          capped : BOOLEAN, cost : 0..MaxCost]

(* Types; only a caller with a router is in a completion, and a capped     *)
(* call costs nothing.                                                     *)
TypeOK ==
    /\ singleton \in [Processes -> Routers \cup {NoRouter}]
    /\ router \in [Callers -> Routers \cup {NoRouter}]
    /\ call \in [Callers -> Calls]
    /\ spent \in Nat /\ paid \in Nat
    /\ lost \in 0..MaxLost /\ months \in 0..MaxMonths
    /\ \A c \in Callers :
         /\ call[c].step \in {"checked", "answered"} => router[c] # NoRouter
         /\ call[c].capped => call[c].cost = 0

(* The callers of a process share one router, and a caller that asked for  *)
(* the guard has it unless another caller of its process that did not ask  *)
(* was there first.                                                        *)
OneRouter ==
    \A c \in Callers :
        router[c] # NoRouter =>
            /\ router[c] = singleton[Home[c]]
            /\ c \in Asks /\ ~router[c].guarded =>
                 Home[router[c].by] = Home[c] /\ router[c].by \notin Asks

(* The month's guarded calls cost less than the cap and one call for each  *)
(* caller that may be between check and booking, and for each call that    *)
(* was not booked.                                                         *)
CapHolds == paid < Cap + MaxCost * (Cardinality(Callers) + lost)
=============================================================================
