------------------------ MODULE StagedExecution_proofs ------------------------
(***************************************************************************)
(* Proofs about StagedExecution, for any sets of plans, webhook threads    *)
(* and workers, any windows and any number of faults.                      *)
(***************************************************************************)
EXTENDS StagedExecution, FiniteSetTheorems, TLAPS

USE DEF Procs

(* The type invariant is inductive by itself.                              *)
LEMMA InitTypeOK == Init => TypeOK
BY BoundsAssumption DEF Init, TypeOK, Row, NoRow, Status, Labels, Optional

LEMMA StepTypeOK == TypeOK /\ [Next]_vars => TypeOK'
<1> SUFFICES ASSUME TypeOK, [Next]_vars PROVE TypeOK'
    OBVIOUS
<1> USE ProcsAssumption, BoundsAssumption DEF TypeOK
<1>1. CASE Tick
      BY <1>1 DEF Tick, db, local, orders
<1>2. CASE OpenOrClose
      BY <1>2 DEF OpenOrClose, db, local, orders
<1>3. ASSUME NEW p \in Plans, PersistPlan(p) PROVE TypeOK'
  <2>1. row' \in [Plans -> Row]
    <3>1. ASSUME NEW d \in Windows
          PROVE  [status |-> "PENDING_CONFIRM", mode |-> "STAGED",
                  deadline |-> clock + d, since |-> clock] \in Row
          BY DEF Row, Status
    <3>2. [status |-> "CONFIRMED", mode |-> "OFF",
           deadline |-> clock, since |-> clock] \in Row
          BY DEF Row, Status
    <3> QED BY <1>3, <3>1, <3>2 DEF PersistPlan
  <2> QED BY <1>3, <2>1 DEF PersistPlan, local, orders
<1>4. ASSUME NEW h \in Hooks, NEW command \in {"confirm", "cancel"},
             NEW ids \in Prefixes, WebhookArrives(h, command, ids)
      PROVE  TypeOK'
      BY <1>4 DEF WebhookArrives, Start, Goto, db, orders, Labels
<1>5. ASSUME NEW h \in Hooks, WebhookResolve(h) PROVE TypeOK'
  <2>1. CASE Unambiguous(Matches(h)) /\ \A p \in Matches(h) : Decidable(h, p)
    <3>1. Matches(h) \in Optional(Plans)
          BY <2>1 DEF Unambiguous, Matches, Optional
    <3>2. /\ cur' \in [Procs -> Optional(Plans)] /\ pc' \in [Procs -> Labels]
          /\ UNCHANGED <<clock, open, row, draft, lock, task, now, todo, reply,
                         sold, lost, inflight, faults>>
          BY <1>5, <2>1, <3>1 DEF WebhookResolve, Goto, db, orders, Labels
    <3> QED BY <3>2
  <2>2. CASE ~(Unambiguous(Matches(h)) /\ \A p \in Matches(h) : Decidable(h, p))
        BY <1>5, <2>2 DEF WebhookResolve, Leave, Goto, db, orders, Labels, Optional
  <2> QED BY <2>1, <2>2
<1>6. ASSUME NEW h \in Hooks, WebhookDecide(h) PROVE TypeOK'
  <2>1. PICK p \in cur[h] :
          IF row[p].status = "PENDING_CONFIRM"
          THEN /\ Write(h, p, Restate(row[p], Decision(h), now[h]))
               /\ Goto(h, AfterDecision(h))
               /\ UNCHANGED <<task, now, todo, cur, reply>>
          ELSE Leave(h) /\ UNCHANGED db
        BY <1>6 DEF WebhookDecide
  <2>2. p \in Plans
        BY DEF Optional
  <2>3. UNCHANGED <<clock, open, orders, faults>>
        BY <1>6 DEF WebhookDecide
  <2>4. CASE row[p].status = "PENDING_CONFIRM"
    <3>1. Restate(row[p], Decision(h), now[h]) \in Row
          BY <2>2 DEF Restate, Decision, Row, Status
    <3>2. AfterDecision(h) \in Labels
          BY DEF AfterDecision, Labels
    <3>3. /\ Write(h, p, Restate(row[p], Decision(h), now[h]))
          /\ pc' = [pc EXCEPT ![h] = AfterDecision(h)]
          /\ UNCHANGED <<task, now, todo, cur, reply>>
          BY <2>1, <2>4 DEF Goto
    <3> QED BY <2>2, <2>3, <3>1, <3>2, <3>3 DEF Write, orders
  <2>5. CASE row[p].status # "PENDING_CONFIRM"
        BY <2>1, <2>2, <2>3, <2>5 DEF Leave, Goto, Labels, orders, db, Optional
  <2> QED BY <2>4, <2>5
<1>7. ASSUME NEW w \in Workers, SweepScan(w) PROVE TypeOK'
      BY <1>7 DEF SweepScan, Start, Goto, Expired, db, orders, Labels
<1>8. ASSUME NEW w \in Workers, StuckScan(w) PROVE TypeOK'
      BY <1>8 DEF StuckScan, Start, Goto, Stuck, db, orders, Labels
<1>9. ASSUME NEW w \in Workers, NEW p \in Plans, SweepRow(w, p) PROVE TypeOK'
  <2>1. CASE Overdue(p, now[w])
    <3>1. Restate(row[p], "TIMEOUT_EXECUTED", now[w]) \in Row
          BY DEF Restate, Row, Status
    <3>2. /\ Write(w, p, Restate(row[p], "TIMEOUT_EXECUTED", now[w]))
          /\ cur' = [cur EXCEPT ![w] = {p}] /\ pc' = [pc EXCEPT ![w] = "load"]
          /\ todo' = [todo EXCEPT ![w] = @ \ {p}]
          /\ UNCHANGED <<clock, open, task, now, reply, orders, faults>>
          BY <1>9, <2>1 DEF SweepRow, NextRow, Goto
    <3>3. {p} \in Optional(Plans) /\ "load" \in Labels
          BY DEF Optional, Labels
    <3> QED BY <3>1, <3>2, <3>3 DEF Write, orders
  <2>2. CASE ~Overdue(p, now[w])
        BY <1>9, <2>2 DEF SweepRow, NextRow, db, orders
  <2> QED BY <2>1, <2>2
<1>10. ASSUME NEW w \in Workers, NEW p \in Plans, StuckRow(w, p) PROVE TypeOK'
       BY <1>10 DEF StuckRow, NextRow, Goto, db, orders, Labels, Optional
<1>11. ASSUME NEW w \in Workers, SweepEnd(w) PROVE TypeOK'
       BY <1>11 DEF SweepEnd, CommitTx, Release, Seen, Leave, Goto, Labels,
                    Optional, NoRow, Row, Status
<1>12. ASSUME NEW w \in Procs, LoadPlan(w) PROVE TypeOK'
       BY <1>12 DEF LoadPlan, AfterPlan, Goto, Labels, db, orders
<1>13. ASSUME NEW w \in Procs, CallBroker(w) PROVE TypeOK'
  <2>1. PICK p \in cur[w], answer \in {"ok", "accepted_but_raised", "rejected"} :
          /\ reply' = [reply EXCEPT ![w] = Reported(answer)]
          /\ IF answer = "rejected"
             THEN UNCHANGED <<sold, inflight>>
             ELSE /\ sold' = [sold EXCEPT ![p] = @ + 1]
                  /\ inflight' = [inflight EXCEPT ![w] = @ \cup {p}]
        BY <1>13 DEF CallBroker
  <2>2. p \in Plans
        BY DEF Optional
  <2> QED BY <1>13, <2>1, <2>2 DEF CallBroker, Reported, Goto, Labels, db
<1>14. ASSUME NEW w \in Procs, RecordOutcome(w) PROVE TypeOK'
  <2>1. PICK p \in cur[w] :
          IF Seen(w, p).status \in Executable
          THEN /\ Write(w, p, Restate(Seen(w, p), Outcome(w), Seen(w, p).since))
               /\ UNCHANGED orders
          ELSE /\ lost' = [lost EXCEPT ![p] = IF p \in inflight[w] THEN @ + 1 ELSE @]
               /\ inflight' = [inflight EXCEPT ![w] = @ \ {p}]
               /\ UNCHANGED <<db, sold>>
        BY <1>14 DEF RecordOutcome
  <2>2. p \in Plans
        BY DEF Optional
  <2>3. /\ UNCHANGED <<clock, open, task, now, todo, cur, reply, faults>>
        /\ pc' \in [Procs -> Labels]
        BY <1>14 DEF RecordOutcome, Goto, AfterPlan, Labels
  <2>4. CASE Seen(w, p).status \in Executable
    <3>1. Restate(Seen(w, p), Outcome(w), Seen(w, p).since) \in Row
          BY <2>2 DEF Seen, Restate, Outcome, Row, Status
    <3> QED BY <2>1, <2>2, <2>3, <2>4, <3>1 DEF Write, orders
  <2>5. CASE Seen(w, p).status \notin Executable
        BY <2>1, <2>2, <2>3, <2>5 DEF db
  <2> QED BY <2>4, <2>5
<1>15. ASSUME NEW w \in Procs, Commit(w) PROVE TypeOK'
  <2>1. /\ row' \in [Plans -> Row] /\ draft' \in [Plans -> Row]
        /\ lock' \in [Plans -> Procs \cup {Nobody}]
        /\ inflight' \in [Procs -> SUBSET Plans]
        /\ UNCHANGED <<clock, open, faults, sold, lost>>
        BY <1>15 DEF Commit, CommitTx, Release, Seen, NoRow, Row, Status
  <2>2. /\ pc' \in [Procs -> Labels]
        /\ task' \in [Procs -> {"none", "confirm", "cancel", "sweep", "stuck"}]
        /\ now' \in [Procs -> Nat] /\ todo' \in [Procs -> SUBSET Plans]
        /\ cur' \in [Procs -> Optional(Plans)]
        /\ reply' \in [Procs -> {"none", "ok", "failed"}]
        BY <1>15 DEF Commit, Leave, Goto, Labels, Optional
  <2> QED BY <2>1, <2>2
<1>16. ASSUME NEW w \in Procs, Fault(w) PROVE TypeOK'
  <2>1. /\ draft' \in [Plans -> Row]
        /\ lock' \in [Plans -> Procs \cup {Nobody}]
        /\ inflight' \in [Procs -> SUBSET Plans] /\ lost' \in [Plans -> Nat]
        /\ faults' \in 0..MaxFaults
        /\ UNCHANGED <<clock, open, sold, row>>
        BY <1>16 DEF Fault, RollbackTx, Release, NoRow, Row, Status
  <2>2. /\ pc' \in [Procs -> Labels]
        /\ task' \in [Procs -> {"none", "confirm", "cancel", "sweep", "stuck"}]
        /\ now' \in [Procs -> Nat] /\ todo' \in [Procs -> SUBSET Plans]
        /\ cur' \in [Procs -> Optional(Plans)]
        /\ reply' \in [Procs -> {"none", "ok", "failed"}]
        BY <1>16 DEF Fault, Leave, Goto, Labels, Optional
  <2> QED BY <2>1, <2>2
<1>17. ASSUME NEW w \in Procs, StuckPlanFault(w) PROVE TypeOK'
       BY <1>17 DEF StuckPlanFault, RollbackTx, Release, Goto, Labels, NoRow, Row, Status
<1>18. CASE UNCHANGED vars
       BY <1>18 DEF vars, db, local, orders
<1> QED
  BY <1>1, <1>2, <1>3, <1>4, <1>5, <1>6, <1>7, <1>8, <1>9, <1>10, <1>11, <1>12,
     <1>13, <1>14, <1>15, <1>16, <1>17, <1>18
     DEF Next, Webhook, Sweeps, ExecutePlan

(* Every variable keeps its type, and no process ever has two plans in     *)
(* hand: process_command refuses an ambiguous prefix.                      *)
THEOREM TypeCorrect == Spec => []TypeOK
<1>1. Init => TypeOK BY InitTypeOK
<1>2. TypeOK /\ [Next]_vars => TypeOK' BY StepTypeOK
<1> QED BY <1>1, <1>2, PTL DEF Spec

-----------------------------------------------------------------------------
(* The inductive invariant.                                                *)

Settles(s, t) ==
    \/ s = "PENDING_CONFIRM" /\ t \in Terminal
    \/ s \in Executable /\ t \in {"EXECUTED", "FAILED"}

(* An uncommitted row version settles the committed one, or is halfway     *)
(* there and in the hand of the process that will sell it.                 *)
DraftInv ==
    \A p \in Plans : lock[p] # Nobody =>
        \/ Settles(row[p].status, draft[p].status)
        \/ /\ row[p].status = "PENDING_CONFIRM" /\ draft[p].status \in Executable
           /\ p \in cur[lock[p]] /\ pc[lock[p]] \in {"load", "call", "record"}

(* What a process holds at each point: nothing before its first UPDATE,    *)
(* no order from an earlier plan unless it is the batch sweep, and never   *)
(* an order for the plan it is about to sell.                              *)
HoldInv ==
    \A w \in Procs :
        /\ pc[w] = "idle" => cur[w] = {} /\ inflight[w] = {}
        /\ pc[w] \in {"resolve", "decide"} => task[w] # "sweep" /\ inflight[w] = {}
        /\ task[w] # "sweep" /\ pc[w] \notin {"record", "commit"} => inflight[w] = {}
        /\ task[w] = "sweep" => (inflight[w] \cup cur[w]) \cap todo[w] = {}
        /\ pc[w] \in {"load", "call"} => cur[w] \cap inflight[w] = {}

Sellable == {"CONFIRMED", "TIMEOUT_EXECUTED", "EXECUTED", "FAILED"}

CallInv ==
    \A w \in Procs : \A p \in cur[w] : pc[w] = "call" =>
        IF lock[p] = w THEN draft[p].status \in Executable
                       ELSE row[p].status \in Sellable

InflightInv ==
    \A w \in Procs : \A p \in inflight[w] :
        IF lock[p] = w THEN draft[p].status # "CANCELLED"
                       ELSE row[p].status \in Sellable

(* Only the holder of the row lock can have an order under way for a plan  *)
(* that is not committed as sold or to be sold.                            *)
UnsoldInv ==
    \A p \in Plans : row[p].status \notin Sellable =>
        sold[p] = IF lock[p] # Nobody /\ p \in inflight[lock[p]]
                  THEN lost[p] + 1 ELSE lost[p]

IInv == /\ TypeOK /\ DraftInv /\ DecisionAndSaleAtomic /\ HoldInv
        /\ CallInv /\ InflightInv /\ UnsoldInv

(* The invariant is inductive: one step per action, and under it one per   *)
(* conjunct.                                                               *)
LEMMA InitIInv == Init => IInv
<1> SUFFICES ASSUME Init PROVE IInv
    OBVIOUS
<1>1. TypeOK BY InitTypeOK
<1>2. DraftInv /\ DecisionAndSaleAtomic /\ HoldInv /\ CallInv /\ InflightInv /\ UnsoldInv
      BY ProcsAssumption DEF Init, NoRow, DraftInv, DecisionAndSaleAtomic, HoldInv, CallInv,
         InflightInv, UnsoldInv
<1> QED BY <1>1, <1>2 DEF IInv

LEMMA StepIInv == IInv /\ [Next]_vars => IInv'
<1> SUFFICES ASSUME IInv, [Next]_vars PROVE IInv'
    OBVIOUS
<1>a. TypeOK' BY StepTypeOK DEF IInv
<1>b. ASSUME NEW w \in Procs, NEW p \in cur[w]
      PROVE  p \in Plans /\ cur[w] = {p}
      BY <1>b DEF IInv, TypeOK, Optional
<1>c. cur \in [Procs -> SUBSET Plans] /\ cur' \in [Procs -> SUBSET Plans]
      BY <1>a DEF IInv, TypeOK, Optional
<1> USE ProcsAssumption, <1>a DEF IInv, TypeOK
<1>1. CASE Tick
  <2>1. DraftInv'
        BY <1>1 DEF Tick, db, local, orders, DraftInv
  <2>2. DecisionAndSaleAtomic'
        BY <1>1 DEF Tick, db, local, orders, DecisionAndSaleAtomic
  <2>3. HoldInv'
        BY <1>1 DEF Tick, db, local, orders, HoldInv
  <2>4. CallInv'
        BY <1>1, <1>c DEF Tick, db, local, orders, CallInv
  <2>5. InflightInv'
        BY <1>1 DEF Tick, db, local, orders, InflightInv
  <2>6. UnsoldInv'
        BY <1>1 DEF Tick, db, local, orders, UnsoldInv
  <2> QED BY <2>1, <2>2, <2>3, <2>4, <2>5, <2>6
<1>2. CASE OpenOrClose
  <2>1. DraftInv'
        BY <1>2 DEF OpenOrClose, db, local, orders, DraftInv
  <2>2. DecisionAndSaleAtomic'
        BY <1>2 DEF OpenOrClose, db, local, orders, DecisionAndSaleAtomic
  <2>3. HoldInv'
        BY <1>2 DEF OpenOrClose, db, local, orders, HoldInv
  <2>4. CallInv'
        BY <1>2, <1>c DEF OpenOrClose, db, local, orders, CallInv
  <2>5. InflightInv'
        BY <1>2 DEF OpenOrClose, db, local, orders, InflightInv
  <2>6. UnsoldInv'
        BY <1>2 DEF OpenOrClose, db, local, orders, UnsoldInv
  <2> QED BY <2>1, <2>2, <2>3, <2>4, <2>5, <2>6
<1>3. ASSUME NEW p \in Plans, PersistPlan(p) PROVE IInv'
  <2>1. DraftInv'
        BY <1>3 DEF PersistPlan, local, orders, Settles, Sellable, Executable, Terminal, DraftInv
  <2>2. DecisionAndSaleAtomic'
        BY <1>3 DEF PersistPlan, local, orders, Settles, Sellable, Executable, Terminal, DecisionAndSaleAtomic
  <2>3. HoldInv'
        BY <1>3 DEF PersistPlan, local, orders, Settles, Sellable, Executable, Terminal, HoldInv
  <2>4. CallInv'
        BY <1>3, <1>c DEF PersistPlan, local, orders, Settles, Sellable, Executable, Terminal, CallInv
  <2>5. InflightInv'
        BY <1>3 DEF PersistPlan, local, orders, Settles, Sellable, Executable, Terminal, InflightInv
  <2>6. UnsoldInv'
        BY <1>3 DEF PersistPlan, local, orders, Settles, Sellable, Executable, Terminal, UnsoldInv
  <2> QED BY <2>1, <2>2, <2>3, <2>4, <2>5, <2>6
<1>4. ASSUME NEW h \in Hooks, NEW command \in {"confirm", "cancel"},
             NEW ids \in Prefixes, WebhookArrives(h, command, ids)
      PROVE  IInv'
  <2>1. DraftInv'
        BY <1>4 DEF WebhookArrives, Start, Goto, db, orders, DraftInv
  <2>2. DecisionAndSaleAtomic'
        BY <1>4 DEF WebhookArrives, Start, Goto, db, orders, DecisionAndSaleAtomic
  <2>3. HoldInv'
        BY <1>4 DEF WebhookArrives, Start, Goto, db, orders, HoldInv
  <2>4. CallInv'
        BY <1>4, <1>c DEF WebhookArrives, Start, Goto, db, orders, CallInv
  <2>5. InflightInv'
        BY <1>4 DEF WebhookArrives, Start, Goto, db, orders, InflightInv
  <2>6. UnsoldInv'
        BY <1>4 DEF WebhookArrives, Start, Goto, db, orders, UnsoldInv
  <2> QED BY <2>1, <2>2, <2>3, <2>4, <2>5, <2>6
<1>5. ASSUME NEW h \in Hooks, WebhookResolve(h) PROVE IInv'
  <2>1. DraftInv'
        BY <1>5 DEF WebhookResolve, Leave, Goto, db, orders, DraftInv
  <2>2. DecisionAndSaleAtomic'
        BY <1>5 DEF WebhookResolve, Leave, Goto, db, orders, DecisionAndSaleAtomic
  <2>3. HoldInv'
        BY <1>5 DEF WebhookResolve, Leave, Goto, db, orders, HoldInv
  <2>4. CallInv'
        BY <1>5, <1>c DEF WebhookResolve, Leave, Goto, db, orders, CallInv
  <2>5. InflightInv'
        BY <1>5 DEF WebhookResolve, Leave, Goto, db, orders, InflightInv
  <2>6. UnsoldInv'
        BY <1>5 DEF WebhookResolve, Leave, Goto, db, orders, UnsoldInv
  <2> QED BY <2>1, <2>2, <2>3, <2>4, <2>5, <2>6
<1>6. ASSUME NEW h \in Hooks, WebhookDecide(h) PROVE IInv'
  <2>0. PICK p \in cur[h] :
          /\ Unlocked(h, p)
          /\ IF row[p].status = "PENDING_CONFIRM"
             THEN /\ Write(h, p, Restate(row[p], Decision(h), now[h]))
                  /\ Goto(h, AfterDecision(h))
                  /\ UNCHANGED <<task, now, todo, cur, reply>>
             ELSE Leave(h) /\ UNCHANGED db
        BY <1>6 DEF WebhookDecide
  <2>a. pc[h] = "decide" /\ UNCHANGED <<clock, open, orders, faults>>
        BY <1>6 DEF WebhookDecide
  <2>b. p \in Plans /\ cur[h] = {p} /\ h \in Procs
        BY <1>b
  <2>1. DraftInv'
        BY <2>0, <2>a, <2>b DEF Unlocked, Write, Restate, Decision, AfterDecision, Goto, Leave,
           db, orders, DraftInv, Settles, Executable, Terminal, Sellable
  <2>2. DecisionAndSaleAtomic'
        BY <2>0, <2>a, <2>b DEF Unlocked, Write, Restate, Decision, AfterDecision, Goto, Leave,
           db, orders, DecisionAndSaleAtomic, Settles, Executable, Terminal, Sellable
  <2>3. HoldInv'
        BY <2>0, <2>a, <2>b DEF Unlocked, Write, Restate, Decision, AfterDecision, Goto, Leave,
           db, orders, HoldInv, Settles, Executable, Terminal, Sellable
  <2>4. CallInv'
        BY <2>0, <2>a, <2>b, <1>c DEF Unlocked, Write, Restate, Decision, AfterDecision, Goto, Leave,
           db, orders, CallInv, Settles, Executable, Terminal, Sellable, HoldInv, InflightInv, DraftInv
  <2>5. InflightInv'
        BY <2>0, <2>a, <2>b DEF Unlocked, Write, Restate, Decision, AfterDecision, Goto, Leave,
           db, orders, InflightInv, Settles, Executable, Terminal, Sellable, HoldInv, InflightInv, DraftInv
  <2>6. UnsoldInv'
        BY <2>0, <2>a, <2>b DEF Unlocked, Write, Restate, Decision, AfterDecision, Goto, Leave,
           db, orders, UnsoldInv, Settles, Executable, Terminal, Sellable, HoldInv, InflightInv, DraftInv
  <2> QED BY <2>1, <2>2, <2>3, <2>4, <2>5, <2>6
<1>7. ASSUME NEW w \in Workers, SweepScan(w) PROVE IInv'
  <2>1. DraftInv'
        BY <1>7 DEF SweepScan, Start, Goto, db, orders, DraftInv
  <2>2. DecisionAndSaleAtomic'
        BY <1>7 DEF SweepScan, Start, Goto, db, orders, DecisionAndSaleAtomic
  <2>3. HoldInv'
        BY <1>7 DEF SweepScan, Start, Goto, db, orders, HoldInv
  <2>4. CallInv'
        BY <1>7, <1>c DEF SweepScan, Start, Goto, db, orders, CallInv
  <2>5. InflightInv'
        BY <1>7 DEF SweepScan, Start, Goto, db, orders, InflightInv
  <2>6. UnsoldInv'
        BY <1>7 DEF SweepScan, Start, Goto, db, orders, UnsoldInv
  <2> QED BY <2>1, <2>2, <2>3, <2>4, <2>5, <2>6
<1>8. ASSUME NEW w \in Workers, StuckScan(w) PROVE IInv'
  <2>1. DraftInv'
        BY <1>8 DEF StuckScan, Start, Goto, db, orders, DraftInv
  <2>2. DecisionAndSaleAtomic'
        BY <1>8 DEF StuckScan, Start, Goto, db, orders, DecisionAndSaleAtomic
  <2>3. HoldInv'
        BY <1>8 DEF StuckScan, Start, Goto, db, orders, HoldInv
  <2>4. CallInv'
        BY <1>8, <1>c DEF StuckScan, Start, Goto, db, orders, CallInv
  <2>5. InflightInv'
        BY <1>8 DEF StuckScan, Start, Goto, db, orders, InflightInv
  <2>6. UnsoldInv'
        BY <1>8 DEF StuckScan, Start, Goto, db, orders, UnsoldInv
  <2> QED BY <2>1, <2>2, <2>3, <2>4, <2>5, <2>6
<1>9. ASSUME NEW w \in Workers, NEW p \in Plans, SweepRow(w, p) PROVE IInv'
  <2>1. DraftInv'
        BY <1>9 DEF SweepRow, NextRow, Overdue, Unlocked, Write, Restate, Goto, db, orders, Settles, Executable, Terminal, Sellable, DraftInv
  <2>2. DecisionAndSaleAtomic'
        BY <1>9 DEF SweepRow, NextRow, Overdue, Unlocked, Write, Restate, Goto, db, orders, Settles, Executable, Terminal, Sellable, DecisionAndSaleAtomic
  <2>3. HoldInv'
        BY <1>9 DEF SweepRow, NextRow, Overdue, Unlocked, Write, Restate, Goto, db, orders, Settles, Executable, Terminal, Sellable, HoldInv
  <2>4. CallInv'
        BY <1>9, <1>c DEF SweepRow, NextRow, Overdue, Unlocked, Write, Restate, Goto, db, orders, Settles, Executable, Terminal, Sellable, CallInv, HoldInv
  <2>5. InflightInv'
        BY <1>9 DEF SweepRow, NextRow, Overdue, Unlocked, Write, Restate, Goto, db, orders, Settles, Executable, Terminal, Sellable, InflightInv, HoldInv
  <2>6. UnsoldInv'
        BY <1>9 DEF SweepRow, NextRow, Overdue, Unlocked, Write, Restate, Goto, db, orders, Settles, Executable, Terminal, Sellable, UnsoldInv, HoldInv, InflightInv
  <2> QED BY <2>1, <2>2, <2>3, <2>4, <2>5, <2>6
<1>10. ASSUME NEW w \in Workers, NEW p \in Plans, StuckRow(w, p) PROVE IInv'
  <2>1. DraftInv'
        BY <1>10 DEF StuckRow, NextRow, Goto, db, orders, DraftInv
  <2>2. DecisionAndSaleAtomic'
        BY <1>10 DEF StuckRow, NextRow, Goto, db, orders, DecisionAndSaleAtomic
  <2>3. HoldInv'
        BY <1>10 DEF StuckRow, NextRow, Goto, db, orders, HoldInv
  <2>4. CallInv'
        BY <1>10, <1>c DEF StuckRow, NextRow, Goto, db, orders, CallInv
  <2>5. InflightInv'
        BY <1>10 DEF StuckRow, NextRow, Goto, db, orders, InflightInv
  <2>6. UnsoldInv'
        BY <1>10 DEF StuckRow, NextRow, Goto, db, orders, UnsoldInv
  <2> QED BY <2>1, <2>2, <2>3, <2>4, <2>5, <2>6
<1>11. ASSUME NEW w \in Workers, SweepEnd(w) PROVE IInv'
  <2>1. DraftInv'
        BY <1>11 DEF SweepEnd, CommitTx, Release, Seen, Leave, Goto, NoRow, Settles, Executable, Terminal, Sellable, DraftInv, DraftInv
  <2>2. DecisionAndSaleAtomic'
        BY SMTT(30), <1>11 DEF SweepEnd, CommitTx, Release, Seen, Leave, Goto, NoRow, Settles, Executable, Terminal, Sellable, DraftInv, DecisionAndSaleAtomic
  <2>3. HoldInv'
        BY <1>11 DEF SweepEnd, CommitTx, Release, Seen, Leave, Goto, NoRow, Settles, Executable, Terminal, Sellable, DraftInv, HoldInv
  <2>4. CallInv'
        BY <1>11, <1>c DEF SweepEnd, CommitTx, Release, Seen, Leave, Goto, NoRow, Settles, Executable, Terminal, Sellable, DraftInv, CallInv
  <2>5. InflightInv'
        BY <1>11 DEF SweepEnd, CommitTx, Release, Seen, Leave, Goto, NoRow, Settles, Executable, Terminal, Sellable, DraftInv, InflightInv
  <2>6. UnsoldInv'
        BY <1>11 DEF SweepEnd, CommitTx, Release, Seen, Leave, Goto, NoRow, Settles, Executable, Terminal, Sellable, DraftInv, UnsoldInv, InflightInv
  <2> QED BY <2>1, <2>2, <2>3, <2>4, <2>5, <2>6
<1>12. ASSUME NEW w \in Procs, LoadPlan(w) PROVE IInv'
  <2>1. DraftInv'
        BY <1>12, <1>b DEF LoadPlan, AfterPlan, Seen, Goto, db, orders, DraftInv, Settles, Executable, Terminal
  <2>2. DecisionAndSaleAtomic'
        BY <1>12, <1>b DEF LoadPlan, AfterPlan, Seen, Goto, db, orders, DecisionAndSaleAtomic
  <2>3. HoldInv'
        BY <1>12, <1>b DEF LoadPlan, AfterPlan, Seen, Goto, db, orders, HoldInv
  <2>4. CallInv'
        BY <1>12, <1>b, <1>c DEF LoadPlan, AfterPlan, Seen, Goto, db, orders, CallInv, Sellable, Executable
  <2>5. InflightInv'
        BY <1>12, <1>b DEF LoadPlan, AfterPlan, Seen, Goto, db, orders, InflightInv
  <2>6. UnsoldInv'
        BY <1>12, <1>b DEF LoadPlan, AfterPlan, Seen, Goto, db, orders, UnsoldInv
  <2> QED BY <2>1, <2>2, <2>3, <2>4, <2>5, <2>6
<1>13. ASSUME NEW w \in Procs, CallBroker(w) PROVE IInv'
  <2>0. PICK p \in cur[w] :
          \/ UNCHANGED <<sold, inflight>>
          \/ /\ sold' = [sold EXCEPT ![p] = @ + 1]
             /\ inflight' = [inflight EXCEPT ![w] = @ \cup {p}]
        BY <1>13 DEF CallBroker
  <2>a. /\ pc[w] = "call" /\ pc' = [pc EXCEPT ![w] = "record"]
        /\ UNCHANGED <<clock, open, db, task, now, todo, cur, lost, faults>>
        BY <1>13 DEF CallBroker, Goto
  <2>b. p \in Plans /\ cur[w] = {p}
        BY <1>b
  <2>1. DraftInv'
        BY <2>0, <2>a, <2>b DEF db, DraftInv
  <2>2. DecisionAndSaleAtomic'
        BY <2>0, <2>a, <2>b DEF db, DecisionAndSaleAtomic
  <2>3. HoldInv'
        BY <2>0, <2>a, <2>b DEF db, HoldInv
  <2>4. CallInv'
        BY <2>0, <2>a, <2>b, <1>c DEF db, CallInv
  <2>5. InflightInv'
        BY SMTT(30), <2>0, <2>a, <2>b DEF db, InflightInv, CallInv, Executable, Sellable
  <2>6. UnsoldInv'
        BY SMTT(30), <2>0, <2>a, <2>b DEF db, UnsoldInv, CallInv, HoldInv, InflightInv, Executable, Sellable
  <2> QED BY <2>1, <2>2, <2>3, <2>4, <2>5, <2>6
<1>14. ASSUME NEW w \in Procs, RecordOutcome(w) PROVE IInv'
  <2>0. PICK p \in cur[w] :
          /\ Unlocked(w, p)
          /\ IF Seen(w, p).status \in Executable
             THEN /\ Write(w, p, Restate(Seen(w, p), Outcome(w), Seen(w, p).since))
                  /\ UNCHANGED orders
             ELSE /\ lost' = [lost EXCEPT ![p] = IF p \in inflight[w] THEN @ + 1 ELSE @]
                  /\ inflight' = [inflight EXCEPT ![w] = @ \ {p}]
                  /\ UNCHANGED <<db, sold>>
        BY <1>14 DEF RecordOutcome
  <2>a. /\ pc[w] = "record" /\ pc' = [pc EXCEPT ![w] = AfterPlan(w)]
        /\ UNCHANGED <<clock, open, task, now, todo, cur, reply, faults>>
        BY <1>14 DEF RecordOutcome, Goto
  <2>b. p \in Plans /\ cur[w] = {p}
        BY <1>b
  <2>1. DraftInv'
        BY <2>0, <2>a, <2>b DEF Unlocked, Seen, Write, Restate, Outcome, AfterPlan, db, orders,
           Settles, Executable, Terminal, Sellable, DraftInv
  <2>2. DecisionAndSaleAtomic'
        BY <2>0, <2>a, <2>b DEF Unlocked, Seen, Write, Restate, Outcome, AfterPlan, db, orders,
           Settles, Executable, Terminal, Sellable, DecisionAndSaleAtomic
  <2>3. HoldInv'
        BY <2>0, <2>a, <2>b DEF Unlocked, Seen, Write, Restate, Outcome, AfterPlan, db, orders,
           Settles, Executable, Terminal, Sellable, HoldInv
  <2>4. CallInv'
        BY <2>0, <2>a, <2>b, <1>c DEF Unlocked, Seen, Write, Restate, Outcome, AfterPlan, db, orders,
           Settles, Executable, Terminal, Sellable, CallInv
  <2>5. InflightInv'
        BY <2>0, <2>a, <2>b DEF Unlocked, Seen, Write, Restate, Outcome, AfterPlan, db, orders,
           Settles, Executable, Terminal, Sellable, InflightInv, DraftInv
  <2>6. UnsoldInv'
        BY SMTT(30), <2>0, <2>a, <2>b DEF Unlocked, Seen, Write, Restate, Outcome, AfterPlan, db, orders,
           Settles, Executable, Terminal, Sellable, UnsoldInv, InflightInv
  <2> QED BY <2>1, <2>2, <2>3, <2>4, <2>5, <2>6
<1>15. ASSUME NEW w \in Procs, Commit(w) PROVE IInv'
  <2>1. DraftInv'
        BY <1>15 DEF Commit, CommitTx, Release, Seen, Leave, Goto, NoRow, Settles, Executable, Terminal, Sellable, DraftInv, DraftInv
  <2>2. DecisionAndSaleAtomic'
        BY <1>15 DEF Commit, CommitTx, Release, Seen, Leave, Goto, NoRow, Settles, Executable, Terminal, Sellable, DraftInv, DecisionAndSaleAtomic
  <2>3. HoldInv'
        BY <1>15 DEF Commit, CommitTx, Release, Seen, Leave, Goto, NoRow, Settles, Executable, Terminal, Sellable, DraftInv, HoldInv
  <2>4. CallInv'
        BY <1>15, <1>c DEF Commit, CommitTx, Release, Seen, Leave, Goto, NoRow, Settles, Executable, Terminal, Sellable, DraftInv, CallInv
  <2>5. InflightInv'
        BY <1>15 DEF Commit, CommitTx, Release, Seen, Leave, Goto, NoRow, Settles, Executable, Terminal, Sellable, DraftInv, InflightInv
  <2>6. UnsoldInv'
        BY <1>15 DEF Commit, CommitTx, Release, Seen, Leave, Goto, NoRow, Settles, Executable, Terminal, Sellable, DraftInv, UnsoldInv, InflightInv
  <2> QED BY <2>1, <2>2, <2>3, <2>4, <2>5, <2>6
<1>16. ASSUME NEW w \in Procs, Fault(w) PROVE IInv'
  <2>1. DraftInv'
        BY <1>16 DEF Fault, RollbackTx, Release, Seen, Leave, Goto, NoRow, Settles, Executable, Terminal, Sellable, DraftInv, DraftInv
  <2>2. DecisionAndSaleAtomic'
        BY <1>16 DEF Fault, RollbackTx, Release, Seen, Leave, Goto, NoRow, Settles, Executable, Terminal, Sellable, DraftInv, DecisionAndSaleAtomic
  <2>3. HoldInv'
        BY <1>16 DEF Fault, RollbackTx, Release, Seen, Leave, Goto, NoRow, Settles, Executable, Terminal, Sellable, DraftInv, HoldInv
  <2>4. CallInv'
        BY <1>16, <1>c DEF Fault, RollbackTx, Release, Seen, Leave, Goto, NoRow, Settles, Executable, Terminal, Sellable, DraftInv, CallInv
  <2>5. InflightInv'
        BY <1>16 DEF Fault, RollbackTx, Release, Seen, Leave, Goto, NoRow, Settles, Executable, Terminal, Sellable, DraftInv, InflightInv
  <2>6. UnsoldInv'
        BY <1>16 DEF Fault, RollbackTx, Release, Seen, Leave, Goto, NoRow, Settles, Executable, Terminal, Sellable, DraftInv, UnsoldInv, InflightInv
  <2> QED BY <2>1, <2>2, <2>3, <2>4, <2>5, <2>6
<1>17. ASSUME NEW w \in Procs, StuckPlanFault(w) PROVE IInv'
  <2>1. DraftInv'
        BY <1>17 DEF StuckPlanFault, RollbackTx, Release, Seen, Leave, Goto, NoRow, Settles, Executable, Terminal, Sellable, DraftInv, DraftInv
  <2>2. DecisionAndSaleAtomic'
        BY <1>17 DEF StuckPlanFault, RollbackTx, Release, Seen, Leave, Goto, NoRow, Settles, Executable, Terminal, Sellable, DraftInv, DecisionAndSaleAtomic
  <2>3. HoldInv'
        BY <1>17 DEF StuckPlanFault, RollbackTx, Release, Seen, Leave, Goto, NoRow, Settles, Executable, Terminal, Sellable, DraftInv, HoldInv
  <2>4. CallInv'
        BY <1>17, <1>c DEF StuckPlanFault, RollbackTx, Release, Seen, Leave, Goto, NoRow, Settles, Executable, Terminal, Sellable, DraftInv, CallInv
  <2>5. InflightInv'
        BY <1>17 DEF StuckPlanFault, RollbackTx, Release, Seen, Leave, Goto, NoRow, Settles, Executable, Terminal, Sellable, DraftInv, InflightInv
  <2>6. UnsoldInv'
        BY <1>17 DEF StuckPlanFault, RollbackTx, Release, Seen, Leave, Goto, NoRow, Settles, Executable, Terminal, Sellable, DraftInv, UnsoldInv, InflightInv
  <2> QED BY <2>1, <2>2, <2>3, <2>4, <2>5, <2>6
<1>18. CASE UNCHANGED vars
  <2>1. DraftInv'
        BY <1>18 DEF vars, db, local, orders, DraftInv
  <2>2. DecisionAndSaleAtomic'
        BY <1>18 DEF vars, db, local, orders, DecisionAndSaleAtomic
  <2>3. HoldInv'
        BY <1>18 DEF vars, db, local, orders, HoldInv
  <2>4. CallInv'
        BY <1>18, <1>c DEF vars, db, local, orders, CallInv
  <2>5. InflightInv'
        BY <1>18 DEF vars, db, local, orders, InflightInv
  <2>6. UnsoldInv'
        BY <1>18 DEF vars, db, local, orders, UnsoldInv
  <2> QED BY <2>1, <2>2, <2>3, <2>4, <2>5, <2>6
<1> QED
  BY <1>1, <1>2, <1>3, <1>4, <1>5, <1>6, <1>7, <1>8, <1>9, <1>10, <1>11, <1>12, <1>13, <1>14, <1>15, <1>16, <1>17, <1>18
     DEF Next, Webhook, Sweeps, ExecutePlan

LEMMA Invariance == Spec => []IInv
BY InitIInv, StepIInv, PTL DEF Spec

(* No committed row is halfway between decision and sale: the claim that   *)
(* both transitions commit together or not at all.                         *)
THEOREM AtomicCorrect == Spec => []DecisionAndSaleAtomic
<1>1. IInv => DecisionAndSaleAtomic BY DEF IInv
<1> QED BY <1>1, Invariance, PTL

(* A cancelled plan has no order but those that rollbacks left behind.     *)
THEOREM CancelledUnsoldCorrect == Spec => []CancelledUnsold
<1>1. ASSUME IInv PROVE CancelledUnsold
  <2> SUFFICES ASSUME NEW p \in Plans
               PROVE  /\ row[p].status = "CANCELLED" => sold[p] = lost[p]
                      /\ row[p].status = "PENDING_CONFIRM" /\ ~InFlight(p)
                            => sold[p] = lost[p]
      BY DEF CancelledUnsold
  <2> USE <1>1, ProcsAssumption DEF IInv, TypeOK
  <2>1. ASSUME row[p].status = "CANCELLED" PROVE sold[p] = lost[p]
    <3>1. lock[p] = Nobody
          BY <2>1 DEF DraftInv, Settles, Executable
    <3> QED BY <2>1, <3>1 DEF UnsoldInv, Sellable
  <2>2. ASSUME row[p].status = "PENDING_CONFIRM", ~InFlight(p) PROVE sold[p] = lost[p]
    <3>1. lock[p] # Nobody => p \notin inflight[lock[p]]
          BY <2>2 DEF InFlight
    <3> QED BY <2>2, <3>1 DEF UnsoldInv, Sellable
  <2> QED BY <2>1, <2>2
<1> QED BY <1>1, Invariance, PTL

-----------------------------------------------------------------------------
(* Refinement of PlanLifecycle.                                            *)

(* What one step does to the committed status of a plan.                   *)
Moves(p) ==
    \/ row'[p].status = row[p].status
    \/ Lifecycle!Creation(row[p].status, row'[p].status)
    \/ Settles(row[p].status, row'[p].status)

LEMMA CommitMoves ==
    ASSUME IInv, NEW w \in Procs, CommitTx(w), pc[w] \in {"rows", "commit"},
           NEW p \in Plans
    PROVE  Moves(p)
<1>1. row'[p] = IF lock[p] = w THEN draft[p] ELSE row[p]
      BY DEF CommitTx, Seen, IInv, TypeOK
<1>2. lock[p] = w => Settles(row[p].status, draft[p].status)
      BY ProcsAssumption DEF IInv, DraftInv
<1> QED BY <1>1, <1>2 DEF Moves

LEMMA StepMoves == ASSUME IInv, [Next]_vars, NEW p \in Plans PROVE Moves(p)
<1>1. ASSUME NEW q \in Plans, PersistPlan(q) PROVE Moves(p)
  <2>1. CASE p = q
        BY <1>1, <2>1 DEF PersistPlan, Moves, Lifecycle!Creation, IInv, TypeOK
  <2>2. CASE p # q
        BY <1>1, <2>2 DEF PersistPlan, Moves, IInv, TypeOK
  <2> QED BY <2>1, <2>2
<1>2. ASSUME NEW w \in Workers, SweepEnd(w) PROVE Moves(p)
      BY <1>2, CommitMoves DEF SweepEnd
<1>3. ASSUME NEW w \in Procs, Commit(w) PROVE Moves(p)
      BY <1>3, CommitMoves DEF Commit
<1>4. CASE UNCHANGED row
      BY <1>4 DEF Moves
<1>5. \/ UNCHANGED row
      \/ \E q \in Plans : PersistPlan(q)
      \/ \E w \in Workers : SweepEnd(w)
      \/ \E w \in Procs : Commit(w)
      BY DEF Next, vars, db, Tick, OpenOrClose, WebhookArrives, Webhook, Sweeps, ExecutePlan,
         WebhookResolve, WebhookDecide, Write, SweepScan, StuckScan, SweepRow, StuckRow,
         LoadPlan, CallBroker, RecordOutcome, Fault, StuckPlanFault, RollbackTx
<1> QED BY <1>1, <1>2, <1>3, <1>4, <1>5

LEMMA SettlesIsSettling ==
    ASSUME NEW s, NEW t, Settles(s, t)
    PROVE  Lifecycle!Settling(s, t)
<1> DEFINE VT == Lifecycle!ValidTransitions
<1>1. DOMAIN VT = {"PENDING_CONFIRM", "CONFIRMED", "CANCELLED", "TIMEOUT_EXECUTED",
                   "EXECUTED", "FAILED"}
      BY DEF Lifecycle!ValidTransitions
<1>2. /\ VT["PENDING_CONFIRM"] = {"CONFIRMED", "CANCELLED", "TIMEOUT_EXECUTED", "FAILED"}
      /\ VT["CONFIRMED"] = {"EXECUTED", "FAILED"}
      /\ VT["TIMEOUT_EXECUTED"] = {"EXECUTED", "FAILED"}
      /\ VT["CANCELLED"] = {} /\ VT["EXECUTED"] = {} /\ VT["FAILED"] = {}
      BY DEF Lifecycle!ValidTransitions
<1>3. Terminal \subseteq Lifecycle!Settled
      BY <1>1, <1>2 DEF Terminal, Lifecycle!Settled
<1>4. s \in DOMAIN VT /\ t \in Lifecycle!Settled
      BY <1>1, <1>3 DEF Settles, Executable, Terminal
<1>5. t \in VT[s] \/ \E u \in VT[s] : t \in VT[u]
      BY <1>2 DEF Settles, Executable, Terminal
<1> QED BY <1>4, <1>5 DEF Lifecycle!Settling

(* The committed rows implement PlanLifecycle: statuses move along         *)
(* valid_transition, decision and sale at once, and settled plans stay.    *)
THEOREM LifecycleImplemented == Spec => ImplementsLifecycle
<1>1. Init => Lifecycle!Init
      BY DEF Init, Lifecycle!Init, NoRow
<1>2. ASSUME IInv, [Next]_vars
      PROVE  [Lifecycle!Next]_([p \in Plans |-> row[p].status])
  <2>1. \A p \in Plans : row'[p].status \in Status
        BY <1>2, StepIInv DEF IInv, TypeOK, Row
  <2>2. Status = {"NONE"} \cup DOMAIN Lifecycle!ValidTransitions
        BY DEF Status, Lifecycle!ValidTransitions
  <2>3. \A p \in Plans :
          \/ row'[p].status = row[p].status
          \/ Lifecycle!Creation(row[p].status, row'[p].status)
          \/ Lifecycle!Settling(row[p].status, row'[p].status)
        BY <1>2, StepMoves, SettlesIsSettling DEF Moves
  <2> QED BY <2>1, <2>2, <2>3 DEF Lifecycle!Next
<1> QED BY <1>1, <1>2, Invariance, PTL DEF Spec, ImplementsLifecycle, Lifecycle!Spec

-----------------------------------------------------------------------------
(* Who sells what, and when.                                               *)

(* Which process does which job, and when it started.                      *)
JobInv ==
    \A w \in Procs :
        /\ task[w] \in {"confirm", "cancel"} => w \in Hooks
        /\ task[w] \in {"sweep", "stuck"} => w \in Workers
        /\ task[w] = "none" <=> pc[w] = "idle"
        /\ pc[w] \in {"resolve", "decide"} => task[w] \in {"confirm", "cancel"}
        /\ pc[w] \in {"load", "call", "record"} => task[w] # "cancel"
        /\ pc[w] = "rows" => task[w] \in {"sweep", "stuck"}
        /\ now[w] <= clock

(* A row is locked by a decision on a pending plan, overdue if the sweep   *)
(* took it, or by the stuck sweep once it has recorded an executable one.  *)
LockInv ==
    \A p \in Plans : lock[p] # Nobody =>
        /\ pc[lock[p]] \notin {"idle", "resolve", "decide"}
        /\ IF task[lock[p]] = "stuck"
           THEN /\ pc[lock[p]] = "commit" /\ row[p].status \in Executable
                /\ draft[p].status \in {"EXECUTED", "FAILED"}
           ELSE row[p].status = "PENDING_CONFIRM"
        /\ task[lock[p]] = "sweep" => row[p].deadline < now[lock[p]]
        /\ draft[p].mode = row[p].mode

(* What a process is about to sell is its own decision, or a plan that was *)
(* born decided.                                                           *)
HandInv ==
    \A w \in Procs : \A p \in cur[w] :
        IF task[w] = "stuck"
        THEN pc[w] \in {"call", "record"} =>
                row[p].status # "NONE" /\ row[p].mode = "OFF"
        ELSE pc[w] \in {"load", "call", "record"} =>
                lock[p] = w /\ draft[p].status \in Executable

(* An order under way is recorded in its transaction, or about to be, and  *)
(* an EXECUTED draft has one.                                              *)
OrderInv ==
    /\ \A w \in Procs : \A p \in inflight[w] :
         \/ lock[p] = w /\ draft[p].status \in {"EXECUTED", "FAILED"}
         \/ pc[w] = "record" /\ p \in cur[w]
    /\ \A w \in Procs : \A p \in cur[w] :
         pc[w] = "record" /\ reply[w] = "ok" => p \in inflight[w]
    /\ \A p \in Plans :
         lock[p] # Nobody /\ draft[p].status = "EXECUTED" =>
            p \in inflight[lock[p]]

SaleInv == IInv /\ JobInv /\ LockInv /\ HandInv /\ OrderInv

LEMMA JobStep == ASSUME SaleInv, [Next]_vars PROVE JobInv'
<1>a. TypeOK' BY StepTypeOK DEF SaleInv, IInv
<1>b. ASSUME NEW w \in Procs, NEW p \in cur[w]
      PROVE  p \in Plans /\ cur[w] = {p}
      BY <1>b DEF SaleInv, IInv, TypeOK, Optional
<1>d. TypeOK BY DEF SaleInv, IInv
<1>c. cur \in [Procs -> SUBSET Plans] /\ cur' \in [Procs -> SUBSET Plans]
      BY <1>a, <1>d DEF TypeOK, Optional
<1> USE ProcsAssumption, <1>a, <1>c DEF SaleInv, IInv, TypeOK, JobInv
<1>1. CASE Tick
      BY <1>1 DEF Tick, db, local, orders
<1>2. CASE OpenOrClose
      BY <1>2 DEF OpenOrClose, db, local, orders
<1>3. ASSUME NEW p \in Plans, PersistPlan(p)
      PROVE  JobInv'
      BY <1>3 DEF PersistPlan, local, orders
<1>4. ASSUME NEW h \in Hooks, NEW command \in {"confirm", "cancel"},
             NEW ids \in Prefixes, WebhookArrives(h, command, ids)
      PROVE  JobInv'
      BY <1>4 DEF WebhookArrives, Start, Goto, db, orders
<1>5. ASSUME NEW h \in Hooks, WebhookResolve(h)
      PROVE  JobInv'
      BY <1>5 DEF WebhookResolve, Leave, Goto, db, orders
<1>6. ASSUME NEW h \in Hooks, WebhookDecide(h)
      PROVE  JobInv'
  <2>0. PICK p \in cur[h] :
          /\ Unlocked(h, p)
          /\ IF row[p].status = "PENDING_CONFIRM"
             THEN /\ Write(h, p, Restate(row[p], Decision(h), now[h]))
                  /\ Goto(h, AfterDecision(h))
                  /\ UNCHANGED <<task, now, todo, cur, reply>>
             ELSE Leave(h) /\ UNCHANGED db
        BY <1>6 DEF WebhookDecide
  <2>a. pc[h] = "decide" /\ UNCHANGED <<clock, open, orders, faults>>
        BY <1>6 DEF WebhookDecide
  <2>b. p \in Plans /\ cur[h] = {p} /\ h \in Procs
        BY <1>b
  <2> QED BY <2>0, <2>a, <2>b DEF Unlocked, Write, Restate, Decision,
            AfterDecision, Goto, Leave, db, orders
<1>7. ASSUME NEW w \in Workers, SweepScan(w)
      PROVE  JobInv'
      BY <1>7 DEF SweepScan, Start, Goto, db, orders
<1>8. ASSUME NEW w \in Workers, StuckScan(w)
      PROVE  JobInv'
      BY <1>8 DEF StuckScan, Start, Goto, db, orders
<1>9. ASSUME NEW w \in Workers, NEW p \in Plans, SweepRow(w, p)
      PROVE  JobInv'
      BY <1>9 DEF SweepRow, NextRow, Overdue, Unlocked, Write, Restate, Goto,
         db, orders
<1>10. ASSUME NEW w \in Workers, NEW p \in Plans, StuckRow(w, p)
      PROVE  JobInv'
      BY <1>10 DEF StuckRow, NextRow, Goto, db, orders
<1>11. ASSUME NEW w \in Workers, SweepEnd(w)
      PROVE  JobInv'
      BY <1>11 DEF SweepEnd, CommitTx, Release, Seen, Leave, Goto, NoRow
<1>12. ASSUME NEW w \in Procs, LoadPlan(w)
      PROVE  JobInv'
      BY <1>12, <1>b DEF LoadPlan, AfterPlan, Seen, Goto, db, orders
<1>13. ASSUME NEW w \in Procs, CallBroker(w)
      PROVE  JobInv'
  <2>0. PICK p \in cur[w], answer \in {"ok", "accepted_but_raised", "rejected"} :
          /\ reply' = [reply EXCEPT ![w] = Reported(answer)]
          /\ IF answer = "rejected"
             THEN UNCHANGED <<sold, inflight>>
             ELSE /\ sold' = [sold EXCEPT ![p] = @ + 1]
                  /\ inflight' = [inflight EXCEPT ![w] = @ \cup {p}]
        BY <1>13 DEF CallBroker, Goto
  <2>a. /\ pc[w] = "call" /\ pc' = [pc EXCEPT ![w] = "record"]
        /\ UNCHANGED <<clock, open, db, task, now, todo, cur, lost, faults>>
        BY <1>13 DEF CallBroker, Goto
  <2>b. p \in Plans /\ cur[w] = {p}
        BY <1>b
  <2> QED BY <2>0, <2>a, <2>b DEF Reported, db
<1>14. ASSUME NEW w \in Procs, RecordOutcome(w)
      PROVE  JobInv'
  <2>0. PICK p \in cur[w] :
          /\ Unlocked(w, p)
          /\ IF Seen(w, p).status \in Executable
             THEN /\ Write(w, p, Restate(Seen(w, p), Outcome(w), Seen(w, p).since))
                  /\ UNCHANGED orders
             ELSE /\ lost' = [lost EXCEPT ![p] = IF p \in inflight[w] THEN @ + 1 ELSE @]
                  /\ inflight' = [inflight EXCEPT ![w] = @ \ {p}]
                  /\ UNCHANGED <<db, sold>>
        BY <1>14 DEF RecordOutcome, Goto
  <2>a. /\ pc[w] = "record" /\ pc' = [pc EXCEPT ![w] = AfterPlan(w)]
        /\ UNCHANGED <<clock, open, task, now, todo, cur, reply, faults>>
        BY <1>14 DEF RecordOutcome, Goto
  <2>b. p \in Plans /\ cur[w] = {p}
        BY <1>b
  <2> QED BY <2>0, <2>a, <2>b DEF Unlocked, Seen, Write, Restate, Outcome,
            AfterPlan, db, orders
<1>15. ASSUME NEW w \in Procs, Commit(w)
      PROVE  JobInv'
      BY <1>15 DEF Commit, CommitTx, Release, Seen, Leave, Goto, NoRow
<1>16. ASSUME NEW w \in Procs, Fault(w)
      PROVE  JobInv'
      BY <1>16 DEF Fault, RollbackTx, Release, Leave, Goto, NoRow
<1>17. ASSUME NEW w \in Procs, StuckPlanFault(w)
      PROVE  JobInv'
      BY <1>17 DEF StuckPlanFault, RollbackTx, Release, Goto, NoRow
<1>18. CASE UNCHANGED vars
      BY <1>18 DEF vars, db, local, orders
<1> QED
  BY <1>1, <1>2, <1>3, <1>4, <1>5, <1>6, <1>7, <1>8, <1>9,
     <1>10, <1>11, <1>12, <1>13, <1>14, <1>15, <1>16, <1>17, <1>18
     DEF Next, Webhook, Sweeps, ExecutePlan

LEMMA LockStep == ASSUME SaleInv, [Next]_vars PROVE LockInv'
<1>a. TypeOK' BY StepTypeOK DEF SaleInv, IInv
<1>b. ASSUME NEW w \in Procs, NEW p \in cur[w]
      PROVE  p \in Plans /\ cur[w] = {p}
      BY <1>b DEF SaleInv, IInv, TypeOK, Optional
<1>d. TypeOK BY DEF SaleInv, IInv
<1>c. cur \in [Procs -> SUBSET Plans] /\ cur' \in [Procs -> SUBSET Plans]
      BY <1>a, <1>d DEF TypeOK, Optional
<1> USE ProcsAssumption, <1>a, <1>c DEF SaleInv, IInv, TypeOK, JobInv, LockInv, HandInv
<1>1. CASE Tick
      BY <1>1 DEF Tick, db, local, orders
<1>2. CASE OpenOrClose
      BY <1>2 DEF OpenOrClose, db, local, orders
<1>3. ASSUME NEW p \in Plans, PersistPlan(p)
      PROVE  LockInv'
      BY <1>3 DEF PersistPlan, local, orders, Settles, Executable, Terminal,
         DraftInv
<1>4. ASSUME NEW h \in Hooks, NEW command \in {"confirm", "cancel"},
             NEW ids \in Prefixes, WebhookArrives(h, command, ids)
      PROVE  LockInv'
      BY <1>4 DEF WebhookArrives, Start, Goto, db, orders, Settles,
         Executable, Terminal, DraftInv
<1>5. ASSUME NEW h \in Hooks, WebhookResolve(h)
      PROVE  LockInv'
      BY <1>5 DEF WebhookResolve, Leave, Goto, db, orders, Settles,
         Executable, Terminal, DraftInv
<1>6. ASSUME NEW h \in Hooks, WebhookDecide(h)
      PROVE  LockInv'
  <2>0. PICK p \in cur[h] :
          /\ Unlocked(h, p)
          /\ IF row[p].status = "PENDING_CONFIRM"
             THEN /\ Write(h, p, Restate(row[p], Decision(h), now[h]))
                  /\ Goto(h, AfterDecision(h))
                  /\ UNCHANGED <<task, now, todo, cur, reply>>
             ELSE Leave(h) /\ UNCHANGED db
        BY <1>6 DEF WebhookDecide
  <2>a. pc[h] = "decide" /\ UNCHANGED <<clock, open, orders, faults>>
        BY <1>6 DEF WebhookDecide
  <2>b. p \in Plans /\ cur[h] = {p} /\ h \in Procs
        BY <1>b
  <2> QED BY <2>0, <2>a, <2>b DEF Unlocked, Write, Restate, Decision,
            AfterDecision, Goto, Leave, db, orders, Settles, Executable,
            Terminal, DraftInv
<1>7. ASSUME NEW w \in Workers, SweepScan(w)
      PROVE  LockInv'
      BY <1>7 DEF SweepScan, Start, Goto, db, orders, Settles, Executable,
         Terminal, DraftInv
<1>8. ASSUME NEW w \in Workers, StuckScan(w)
      PROVE  LockInv'
      BY <1>8 DEF StuckScan, Start, Goto, db, orders, Settles, Executable,
         Terminal, DraftInv
<1>9. ASSUME NEW w \in Workers, NEW p \in Plans, SweepRow(w, p)
      PROVE  LockInv'
      BY <1>9 DEF SweepRow, NextRow, Overdue, Unlocked, Write, Restate, Goto,
         db, orders, Settles, Executable, Terminal, DraftInv
<1>10. ASSUME NEW w \in Workers, NEW p \in Plans, StuckRow(w, p)
      PROVE  LockInv'
      BY <1>10 DEF StuckRow, NextRow, Goto, db, orders, Settles, Executable,
         Terminal, DraftInv
<1>11. ASSUME NEW w \in Workers, SweepEnd(w)
      PROVE  LockInv'
      BY <1>11 DEF SweepEnd, CommitTx, Release, Seen, Leave, Goto, NoRow,
         Settles, Executable, Terminal, DraftInv
<1>12. ASSUME NEW w \in Procs, LoadPlan(w)
      PROVE  LockInv'
      BY <1>12, <1>b DEF LoadPlan, AfterPlan, Seen, Goto, db, orders,
         Settles, Executable, Terminal, DraftInv
<1>13. ASSUME NEW w \in Procs, CallBroker(w)
      PROVE  LockInv'
  <2>0. PICK p \in cur[w], answer \in {"ok", "accepted_but_raised", "rejected"} :
          /\ reply' = [reply EXCEPT ![w] = Reported(answer)]
          /\ IF answer = "rejected"
             THEN UNCHANGED <<sold, inflight>>
             ELSE /\ sold' = [sold EXCEPT ![p] = @ + 1]
                  /\ inflight' = [inflight EXCEPT ![w] = @ \cup {p}]
        BY <1>13 DEF CallBroker, Goto
  <2>a. /\ pc[w] = "call" /\ pc' = [pc EXCEPT ![w] = "record"]
        /\ UNCHANGED <<clock, open, db, task, now, todo, cur, lost, faults>>
        BY <1>13 DEF CallBroker, Goto
  <2>b. p \in Plans /\ cur[w] = {p}
        BY <1>b
  <2> QED BY <2>0, <2>a, <2>b DEF Reported, db, Settles, Executable,
            Terminal, DraftInv
<1>14. ASSUME NEW w \in Procs, RecordOutcome(w)
      PROVE  LockInv'
  <2>0. PICK p \in cur[w] :
          /\ Unlocked(w, p)
          /\ IF Seen(w, p).status \in Executable
             THEN /\ Write(w, p, Restate(Seen(w, p), Outcome(w), Seen(w, p).since))
                  /\ UNCHANGED orders
             ELSE /\ lost' = [lost EXCEPT ![p] = IF p \in inflight[w] THEN @ + 1 ELSE @]
                  /\ inflight' = [inflight EXCEPT ![w] = @ \ {p}]
                  /\ UNCHANGED <<db, sold>>
        BY <1>14 DEF RecordOutcome, Goto
  <2>a. /\ pc[w] = "record" /\ pc' = [pc EXCEPT ![w] = AfterPlan(w)]
        /\ UNCHANGED <<clock, open, task, now, todo, cur, reply, faults>>
        BY <1>14 DEF RecordOutcome, Goto
  <2>b. p \in Plans /\ cur[w] = {p}
        BY <1>b
  <2> QED BY <2>0, <2>a, <2>b DEF Unlocked, Seen, Write, Restate, Outcome,
            AfterPlan, db, orders, Settles, Executable, Terminal, DraftInv
<1>15. ASSUME NEW w \in Procs, Commit(w)
      PROVE  LockInv'
      BY <1>15 DEF Commit, CommitTx, Release, Seen, Leave, Goto, NoRow,
         Settles, Executable, Terminal, DraftInv
<1>16. ASSUME NEW w \in Procs, Fault(w)
      PROVE  LockInv'
      BY <1>16 DEF Fault, RollbackTx, Release, Leave, Goto, NoRow, Settles,
         Executable, Terminal, DraftInv
<1>17. ASSUME NEW w \in Procs, StuckPlanFault(w)
      PROVE  LockInv'
      BY <1>17 DEF StuckPlanFault, RollbackTx, Release, Goto, NoRow, Settles,
         Executable, Terminal, DraftInv
<1>18. CASE UNCHANGED vars
      BY <1>18 DEF vars, db, local, orders
<1> QED
  BY <1>1, <1>2, <1>3, <1>4, <1>5, <1>6, <1>7, <1>8, <1>9,
     <1>10, <1>11, <1>12, <1>13, <1>14, <1>15, <1>16, <1>17, <1>18
     DEF Next, Webhook, Sweeps, ExecutePlan

(* The version of a plan that a process is about to commit is a plan.      *)
LEMMA DraftIsPlan ==
    ASSUME SaleInv, NEW q \in Plans, lock[q] # Nobody
    PROVE  draft[q].status # "NONE" /\ draft[q].mode = row[q].mode
<1>1. draft[q].status # "NONE"
      BY DEF SaleInv, IInv, DraftInv, Settles, Executable, Terminal
<1>2. draft[q].mode = row[q].mode
      BY DEF SaleInv, LockInv
<1> QED BY <1>1, <1>2

LEMMA HandSweepEnd == ASSUME SaleInv, NEW w \in Workers, SweepEnd(w) PROVE HandInv'
<1>1. /\ \A q \in Plans : lock[q] # w => lock'[q] = lock[q] /\ draft'[q] = draft[q]
      /\ \A q \in Plans : row'[q] = IF lock[q] = w THEN draft[q] ELSE row[q]
      BY DEF SweepEnd, CommitTx, Release, Seen
<1>2. /\ \A v \in Procs : v # w => pc'[v] = pc[v] /\ task'[v] = task[v] /\ cur'[v] = cur[v]
      /\ w \in Procs /\ cur'[w] = {}
      BY DEF SweepEnd, Leave, Goto, SaleInv, IInv, TypeOK
<1>3. ASSUME NEW v \in Procs, NEW q \in cur'[v]
      PROVE  /\ task'[v] = "stuck" /\ pc'[v] \in {"call", "record"} =>
                  row'[q].status # "NONE" /\ row'[q].mode = "OFF"
             /\ task'[v] # "stuck" /\ pc'[v] \in {"load", "call", "record"} =>
                  lock'[q] = v /\ draft'[q].status \in Executable
  <2>1. v # w /\ q \in cur[v]
        BY <1>2, <1>3
  <2>2. q \in Plans
        BY <2>1 DEF SaleInv, IInv, TypeOK, Optional
  <2>3. /\ task[v] = "stuck" /\ pc[v] \in {"call", "record"} =>
             row[q].status # "NONE" /\ row[q].mode = "OFF"
        /\ task[v] # "stuck" /\ pc[v] \in {"load", "call", "record"} =>
             lock[q] = v /\ draft[q].status \in Executable
        BY <2>1 DEF SaleInv, HandInv
  <2>4. lock[q] = w => draft[q].status # "NONE" /\ draft[q].mode = row[q].mode
        BY <1>2, <2>2, DraftIsPlan, ProcsAssumption
  <2>5. task'[v] = task[v] /\ pc'[v] = pc[v]
        BY <1>2, <2>1
  <2> QED BY <1>1, <2>1, <2>2, <2>3, <2>4, <2>5
<1> QED BY <1>3 DEF HandInv

LEMMA HandStep == ASSUME SaleInv, [Next]_vars PROVE HandInv'
<1>a. TypeOK' BY StepTypeOK DEF SaleInv, IInv
<1>b. ASSUME NEW w \in Procs, NEW p \in cur[w]
      PROVE  p \in Plans /\ cur[w] = {p}
      BY <1>b DEF SaleInv, IInv, TypeOK, Optional
<1>d. TypeOK BY DEF SaleInv, IInv
<1>c. cur \in [Procs -> SUBSET Plans] /\ cur' \in [Procs -> SUBSET Plans]
      BY <1>a, <1>d DEF TypeOK, Optional
<1> USE ProcsAssumption, <1>a, <1>c DEF SaleInv, IInv, TypeOK, JobInv, LockInv, HandInv
<1>1. CASE Tick
      BY <1>1 DEF Tick, db, local, orders
<1>2. CASE OpenOrClose
      BY <1>2 DEF OpenOrClose, db, local, orders
<1>3. ASSUME NEW p \in Plans, PersistPlan(p)
      PROVE  HandInv'
  <2>1. \A q \in Plans : q # p => row'[q] = row[q]
        BY <1>3 DEF PersistPlan
  <2>2. row[p].status = "NONE" /\ UNCHANGED <<lock, draft, pc, task, cur>>
        BY <1>3 DEF PersistPlan, local
  <2>3. lock[p] = Nobody
        BY <2>2 DEF Executable
  <2> QED BY <2>1, <2>2, <2>3, <1>b
<1>4. ASSUME NEW h \in Hooks, NEW command \in {"confirm", "cancel"},
             NEW ids \in Prefixes, WebhookArrives(h, command, ids)
      PROVE  HandInv'
      BY <1>4 DEF WebhookArrives, Start, Goto, db, orders, Settles,
         Executable, Terminal, DraftInv, HoldInv, DecisionAndSaleAtomic
<1>5. ASSUME NEW h \in Hooks, WebhookResolve(h)
      PROVE  HandInv'
      BY <1>5 DEF WebhookResolve, Leave, Goto, db, orders, Settles,
         Executable, Terminal, DraftInv, HoldInv, DecisionAndSaleAtomic
<1>6. ASSUME NEW h \in Hooks, WebhookDecide(h)
      PROVE  HandInv'
  <2>0. PICK p \in cur[h] :
          /\ Unlocked(h, p)
          /\ IF row[p].status = "PENDING_CONFIRM"
             THEN /\ Write(h, p, Restate(row[p], Decision(h), now[h]))
                  /\ Goto(h, AfterDecision(h))
                  /\ UNCHANGED <<task, now, todo, cur, reply>>
             ELSE Leave(h) /\ UNCHANGED db
        BY <1>6 DEF WebhookDecide
  <2>a. pc[h] = "decide" /\ UNCHANGED <<clock, open, orders, faults>>
        BY <1>6 DEF WebhookDecide
  <2>b. p \in Plans /\ cur[h] = {p} /\ h \in Procs
        BY <1>b
  <2> QED BY <2>0, <2>a, <2>b DEF Unlocked, Write, Restate, Decision,
            AfterDecision, Goto, Leave, db, orders, Settles, Executable,
            Terminal, DraftInv, HoldInv, DecisionAndSaleAtomic
<1>7. ASSUME NEW w \in Workers, SweepScan(w)
      PROVE  HandInv'
      BY <1>7 DEF SweepScan, Start, Goto, db, orders, Settles, Executable,
         Terminal, DraftInv, HoldInv, DecisionAndSaleAtomic
<1>8. ASSUME NEW w \in Workers, StuckScan(w)
      PROVE  HandInv'
      BY <1>8 DEF StuckScan, Start, Goto, db, orders, Settles, Executable,
         Terminal, DraftInv, HoldInv, DecisionAndSaleAtomic
<1>9. ASSUME NEW w \in Workers, NEW p \in Plans, SweepRow(w, p)
      PROVE  HandInv'
      BY <1>9 DEF SweepRow, NextRow, Overdue, Unlocked, Write, Restate, Goto,
         db, orders, Settles, Executable, Terminal, DraftInv, HoldInv,
         DecisionAndSaleAtomic
<1>10. ASSUME NEW w \in Workers, NEW p \in Plans, StuckRow(w, p)
      PROVE  HandInv'
      BY <1>10 DEF StuckRow, NextRow, Goto, db, orders, Settles, Executable,
         Terminal, DraftInv, HoldInv, DecisionAndSaleAtomic
<1>11. ASSUME NEW w \in Workers, SweepEnd(w)
      PROVE  HandInv'
      BY <1>11, HandSweepEnd
<1>12. ASSUME NEW w \in Procs, LoadPlan(w)
      PROVE  HandInv'
      BY <1>12, <1>b DEF LoadPlan, AfterPlan, Seen, Goto, db, orders,
         Settles, Executable, Terminal, DraftInv, HoldInv,
         DecisionAndSaleAtomic
<1>13. ASSUME NEW w \in Procs, CallBroker(w)
      PROVE  HandInv'
  <2>0. PICK p \in cur[w], answer \in {"ok", "accepted_but_raised", "rejected"} :
          /\ reply' = [reply EXCEPT ![w] = Reported(answer)]
          /\ IF answer = "rejected"
             THEN UNCHANGED <<sold, inflight>>
             ELSE /\ sold' = [sold EXCEPT ![p] = @ + 1]
                  /\ inflight' = [inflight EXCEPT ![w] = @ \cup {p}]
        BY <1>13 DEF CallBroker, Goto
  <2>a. /\ pc[w] = "call" /\ pc' = [pc EXCEPT ![w] = "record"]
        /\ UNCHANGED <<clock, open, db, task, now, todo, cur, lost, faults>>
        BY <1>13 DEF CallBroker, Goto
  <2>b. p \in Plans /\ cur[w] = {p}
        BY <1>b
  <2> QED BY <2>0, <2>a, <2>b DEF Reported, db, Settles, Executable,
            Terminal, DraftInv, HoldInv, DecisionAndSaleAtomic
<1>14. ASSUME NEW w \in Procs, RecordOutcome(w)
      PROVE  HandInv'
  <2>0. PICK p \in cur[w] :
          /\ Unlocked(w, p)
          /\ IF Seen(w, p).status \in Executable
             THEN /\ Write(w, p, Restate(Seen(w, p), Outcome(w), Seen(w, p).since))
                  /\ UNCHANGED orders
             ELSE /\ lost' = [lost EXCEPT ![p] = IF p \in inflight[w] THEN @ + 1 ELSE @]
                  /\ inflight' = [inflight EXCEPT ![w] = @ \ {p}]
                  /\ UNCHANGED <<db, sold>>
        BY <1>14 DEF RecordOutcome, Goto
  <2>a. /\ pc[w] = "record" /\ pc' = [pc EXCEPT ![w] = AfterPlan(w)]
        /\ UNCHANGED <<clock, open, task, now, todo, cur, reply, faults>>
        BY <1>14 DEF RecordOutcome, Goto
  <2>b. p \in Plans /\ cur[w] = {p}
        BY <1>b
  <2> QED BY <2>0, <2>a, <2>b DEF Unlocked, Seen, Write, Restate, Outcome,
            AfterPlan, db, orders, Settles, Executable, Terminal, DraftInv,
            HoldInv, DecisionAndSaleAtomic
<1>15. ASSUME NEW w \in Procs, Commit(w)
      PROVE  HandInv'
      BY SMTT(30), <1>15 DEF Commit, CommitTx, Release, Seen, Leave, Goto, NoRow,
         Settles, Executable, Terminal, DraftInv, HoldInv,
         DecisionAndSaleAtomic
<1>16. ASSUME NEW w \in Procs, Fault(w)
      PROVE  HandInv'
      BY <1>16 DEF Fault, RollbackTx, Release, Leave, Goto, NoRow, Settles,
         Executable, Terminal, DraftInv, HoldInv, DecisionAndSaleAtomic
<1>17. ASSUME NEW w \in Procs, StuckPlanFault(w)
      PROVE  HandInv'
      BY <1>17 DEF StuckPlanFault, RollbackTx, Release, Goto, NoRow, Settles,
         Executable, Terminal, DraftInv, HoldInv, DecisionAndSaleAtomic
<1>18. CASE UNCHANGED vars
      BY <1>18 DEF vars, db, local, orders
<1> QED
  BY <1>1, <1>2, <1>3, <1>4, <1>5, <1>6, <1>7, <1>8, <1>9,
     <1>10, <1>11, <1>12, <1>13, <1>14, <1>15, <1>16, <1>17, <1>18
     DEF Next, Webhook, Sweeps, ExecutePlan

(* A step of a process that records no order, on nobody's row.             *)
LEMMA OrderAside ==
    ASSUME OrderInv, NEW w \in Procs, pc[w] # "record", pc'[w] # "record",
           UNCHANGED <<lock, draft, inflight>>,
           \A v \in Procs \ {w} : pc'[v] = pc[v] /\ cur'[v] = cur[v] /\ reply'[v] = reply[v]
    PROVE  OrderInv'
<1>1. ASSUME NEW v \in Procs, NEW p \in inflight'[v]
      PROVE  \/ lock'[p] = v /\ draft'[p].status \in {"EXECUTED", "FAILED"}
             \/ pc'[v] = "record" /\ p \in cur'[v]
      BY <1>1 DEF OrderInv
<1>2. ASSUME NEW v \in Procs, NEW p \in cur'[v], pc'[v] = "record", reply'[v] = "ok"
      PROVE  p \in inflight'[v]
      BY <1>2 DEF OrderInv
<1>3. ASSUME NEW p \in Plans, lock'[p] # Nobody, draft'[p].status = "EXECUTED"
      PROVE  p \in inflight'[lock'[p]]
      BY <1>3 DEF OrderInv
<1> QED BY <1>1, <1>2, <1>3 DEF OrderInv

LEMMA OrderStep == ASSUME SaleInv, [Next]_vars PROVE OrderInv'
<1>a. TypeOK' BY StepTypeOK DEF SaleInv, IInv
<1>b. ASSUME NEW w \in Procs, NEW p \in cur[w]
      PROVE  p \in Plans /\ cur[w] = {p}
      BY <1>b DEF SaleInv, IInv, TypeOK, Optional
<1>d. TypeOK BY DEF SaleInv, IInv
<1>c. cur \in [Procs -> SUBSET Plans] /\ cur' \in [Procs -> SUBSET Plans]
      BY <1>a, <1>d DEF TypeOK, Optional
<1> USE ProcsAssumption, <1>a, <1>c DEF SaleInv, IInv, TypeOK, JobInv, LockInv, HandInv, OrderInv
<1>1. CASE Tick
      BY <1>1 DEF Tick, db, local, orders
<1>2. CASE OpenOrClose
      BY <1>2 DEF OpenOrClose, db, local, orders
<1>3. ASSUME NEW p \in Plans, PersistPlan(p)
      PROVE  OrderInv'
      BY <1>3 DEF PersistPlan, local, orders, Settles, Executable, Terminal,
         DraftInv, HoldInv
<1>4. ASSUME NEW h \in Hooks, NEW command \in {"confirm", "cancel"},
             NEW ids \in Prefixes, WebhookArrives(h, command, ids)
      PROVE  OrderInv'
      BY <1>4 DEF WebhookArrives, Start, Goto, db, orders, Settles,
         Executable, Terminal, DraftInv, HoldInv
<1>5. ASSUME NEW h \in Hooks, WebhookResolve(h)
      PROVE  OrderInv'
  <2>1. /\ UNCHANGED <<lock, draft, inflight>>
        /\ \A v \in Procs \ {h} : pc'[v] = pc[v] /\ cur'[v] = cur[v] /\ reply'[v] = reply[v]
        /\ pc[h] = "resolve" /\ pc'[h] \in {"decide", "idle"}
        BY <1>5 DEF WebhookResolve, Leave, Goto, db, orders
  <2>2. h \in Procs /\ pc[h] # "record" /\ pc'[h] # "record"
        BY <2>1
  <2> QED BY <2>1, <2>2, OrderAside
<1>6. ASSUME NEW h \in Hooks, WebhookDecide(h)
      PROVE  OrderInv'
  <2>0. PICK p \in cur[h] :
          /\ Unlocked(h, p)
          /\ IF row[p].status = "PENDING_CONFIRM"
             THEN /\ Write(h, p, Restate(row[p], Decision(h), now[h]))
                  /\ Goto(h, AfterDecision(h))
                  /\ UNCHANGED <<task, now, todo, cur, reply>>
             ELSE Leave(h) /\ UNCHANGED db
        BY <1>6 DEF WebhookDecide
  <2>a. pc[h] = "decide" /\ UNCHANGED <<clock, open, orders, faults>>
        BY <1>6 DEF WebhookDecide
  <2>b. p \in Plans /\ cur[h] = {p} /\ h \in Procs
        BY <1>b
  <2>1. lock[p] = Nobody /\ inflight[h] = {}
        BY <2>0, <2>a, <2>b DEF Unlocked, HoldInv
  <2>2. CASE row[p].status = "PENDING_CONFIRM"
    <3>1. /\ lock' = [lock EXCEPT ![p] = h]
          /\ \A q \in Plans : q # p => draft'[q] = draft[q]
          /\ draft'[p].status # "EXECUTED"
          /\ pc' = [pc EXCEPT ![h] = AfterDecision(h)]
          /\ UNCHANGED <<cur, reply, inflight>>
          BY <2>0, <2>a, <2>b, <2>2 DEF Write, Restate, Decision, Goto, orders
    <3>2. AfterDecision(h) # "record"
          BY DEF AfterDecision
    <3> QED BY <2>1, <2>a, <2>b, <3>1, <3>2
  <2>3. CASE row[p].status # "PENDING_CONFIRM"
    <3>1. /\ UNCHANGED <<lock, draft, inflight>>
          /\ pc' = [pc EXCEPT ![h] = "idle"]
          /\ cur' = [cur EXCEPT ![h] = {}] /\ reply' = [reply EXCEPT ![h] = "none"]
          BY <2>0, <2>a, <2>3 DEF Leave, Goto, db, orders
    <3> QED BY <2>a, <2>b, <2>1, <3>1
  <2> QED BY <2>2, <2>3
<1>7. ASSUME NEW w \in Workers, SweepScan(w)
      PROVE  OrderInv'
      BY <1>7 DEF SweepScan, Start, Goto, db, orders, Settles, Executable,
         Terminal, DraftInv, HoldInv
<1>8. ASSUME NEW w \in Workers, StuckScan(w)
      PROVE  OrderInv'
      BY <1>8 DEF StuckScan, Start, Goto, db, orders, Settles, Executable,
         Terminal, DraftInv, HoldInv
<1>9. ASSUME NEW w \in Workers, NEW p \in Plans, SweepRow(w, p)
      PROVE  OrderInv'
  <2>1. /\ pc[w] = "rows" /\ task[w] = "sweep" /\ p \in todo[w] /\ w \in Procs
        /\ UNCHANGED <<reply, inflight>>
        BY <1>9 DEF SweepRow, NextRow, orders
  <2>2. CASE Overdue(p, now[w])
    <3>1. /\ lock' = [lock EXCEPT ![p] = w]
          /\ \A q \in Plans : q # p => draft'[q] = draft[q]
          /\ draft'[p].status = "TIMEOUT_EXECUTED"
          /\ pc' = [pc EXCEPT ![w] = "load"] /\ cur' = [cur EXCEPT ![w] = {p}]
          BY <1>9, <2>2 DEF SweepRow, Write, Restate, Goto
    <3>2. p \notin inflight[w]
          BY <2>1 DEF HoldInv
    <3>3. lock[p] \in {Nobody, w}
          BY <1>9 DEF SweepRow, Unlocked
    <3> QED BY <2>1, <3>1, <3>2, <3>3
  <2>3. CASE ~Overdue(p, now[w])
        BY <1>9, <2>1, <2>3 DEF SweepRow, db
  <2> QED BY <2>2, <2>3
<1>10. ASSUME NEW w \in Workers, NEW p \in Plans, StuckRow(w, p)
      PROVE  OrderInv'
      BY <1>10 DEF StuckRow, NextRow, Goto, db, orders, Settles, Executable,
         Terminal, DraftInv, HoldInv
<1>11. ASSUME NEW w \in Workers, SweepEnd(w)
      PROVE  OrderInv'
      BY <1>11 DEF SweepEnd, CommitTx, Release, Seen, Leave, Goto, NoRow,
         Settles, Executable, Terminal, DraftInv, HoldInv
<1>12. ASSUME NEW w \in Procs, LoadPlan(w)
      PROVE  OrderInv'
      BY <1>12, <1>b DEF LoadPlan, AfterPlan, Seen, Goto, db, orders,
         Settles, Executable, Terminal, DraftInv, HoldInv
<1>13. ASSUME NEW w \in Procs, CallBroker(w)
      PROVE  OrderInv'
  <2>0. PICK p \in cur[w], answer \in {"ok", "accepted_but_raised", "rejected"} :
          /\ reply' = [reply EXCEPT ![w] = Reported(answer)]
          /\ IF answer = "rejected"
             THEN UNCHANGED <<sold, inflight>>
             ELSE /\ sold' = [sold EXCEPT ![p] = @ + 1]
                  /\ inflight' = [inflight EXCEPT ![w] = @ \cup {p}]
        BY <1>13 DEF CallBroker, Goto
  <2>a. /\ pc[w] = "call" /\ pc' = [pc EXCEPT ![w] = "record"]
        /\ UNCHANGED <<clock, open, db, task, now, todo, cur, lost, faults>>
        BY <1>13 DEF CallBroker, Goto
  <2>b. p \in Plans /\ cur[w] = {p}
        BY <1>b
  <2> QED BY <2>0, <2>a, <2>b DEF Reported, db, Settles, Executable,
            Terminal, DraftInv, HoldInv
<1>14. ASSUME NEW w \in Procs, RecordOutcome(w)
      PROVE  OrderInv'
  <2>0. PICK p \in cur[w] :
          /\ Unlocked(w, p)
          /\ IF Seen(w, p).status \in Executable
             THEN /\ Write(w, p, Restate(Seen(w, p), Outcome(w), Seen(w, p).since))
                  /\ UNCHANGED orders
             ELSE /\ lost' = [lost EXCEPT ![p] = IF p \in inflight[w] THEN @ + 1 ELSE @]
                  /\ inflight' = [inflight EXCEPT ![w] = @ \ {p}]
                  /\ UNCHANGED <<db, sold>>
        BY <1>14 DEF RecordOutcome, Goto
  <2>a. /\ pc[w] = "record" /\ pc' = [pc EXCEPT ![w] = AfterPlan(w)]
        /\ UNCHANGED <<clock, open, task, now, todo, cur, reply, faults>>
        BY <1>14 DEF RecordOutcome, Goto
  <2>b. p \in Plans /\ cur[w] = {p}
        BY <1>b
  <2>1. AfterPlan(w) # "record" /\ lock[p] \in {Nobody, w}
        BY <2>0 DEF AfterPlan, Unlocked
  <2>2. lock[p] = w => draft[p].status \in Executable
        BY <2>a, <2>b
  <2>3. CASE Seen(w, p).status \in Executable
    <3>1. /\ lock' = [lock EXCEPT ![p] = w]
          /\ \A q \in Plans : q # p => draft'[q] = draft[q]
          /\ draft'[p].status = Outcome(w)
          /\ UNCHANGED inflight
          BY <2>0, <2>b, <2>3 DEF Write, Restate, orders
    <3>2. /\ Outcome(w) \in {"EXECUTED", "FAILED"}
          /\ Outcome(w) = "EXECUTED" => p \in inflight[w]
          BY <2>a, <2>b DEF Outcome
    <3> QED BY <2>a, <2>b, <2>1, <3>1, <3>2
  <2>4. CASE Seen(w, p).status \notin Executable
    <3>1. inflight' = [inflight EXCEPT ![w] = @ \ {p}] /\ UNCHANGED <<lock, draft>>
          BY <2>0, <2>4 DEF db
    <3>2. lock[p] # w
          BY <2>2, <2>4 DEF Seen
    <3> QED BY <2>a, <2>b, <2>1, <3>1, <3>2
  <2> QED BY <2>3, <2>4
<1>15. ASSUME NEW w \in Procs, Commit(w)
      PROVE  OrderInv'
      BY <1>15 DEF Commit, CommitTx, Release, Seen, Leave, Goto, NoRow,
         Settles, Executable, Terminal, DraftInv, HoldInv
<1>16. ASSUME NEW w \in Procs, Fault(w)
      PROVE  OrderInv'
      BY <1>16 DEF Fault, RollbackTx, Release, Leave, Goto, NoRow, Settles,
         Executable, Terminal, DraftInv, HoldInv
<1>17. ASSUME NEW w \in Procs, StuckPlanFault(w)
      PROVE  OrderInv'
      BY <1>17 DEF StuckPlanFault, RollbackTx, Release, Goto, NoRow, Settles,
         Executable, Terminal, DraftInv, HoldInv
<1>18. CASE UNCHANGED vars
      BY <1>18 DEF vars, db, local, orders
<1> QED
  BY <1>1, <1>2, <1>3, <1>4, <1>5, <1>6, <1>7, <1>8, <1>9,
     <1>10, <1>11, <1>12, <1>13, <1>14, <1>15, <1>16, <1>17, <1>18
     DEF Next, Webhook, Sweeps, ExecutePlan

LEMMA SaleInit == Init => SaleInv
BY InitIInv, ProcsAssumption
   DEF Init, SaleInv, JobInv, LockInv, HandInv, OrderInv, NoRow

LEMMA SaleStep == SaleInv /\ [Next]_vars => SaleInv'
BY StepIInv, JobStep, LockStep, HandStep, OrderStep DEF SaleInv

LEMMA Sales == Spec => []SaleInv
BY SaleInit, SaleStep, PTL DEF Spec

(* Only CallBroker places an order.                                        *)
LEMMA Seller ==
    ASSUME TypeOK, [Next]_vars, NEW p \in Plans, sold'[p] # sold[p]
    PROVE  \E w \in Procs : pc[w] = "call" /\ p \in cur[w]
<1>1. ASSUME NEW w \in Procs, CallBroker(w) PROVE pc[w] = "call" /\ p \in cur[w]
  <2>1. pc[w] = "call"
        BY <1>1 DEF CallBroker
  <2>2. PICK q \in cur[w] : sold' = sold \/ sold' = [sold EXCEPT ![q] = @ + 1]
        BY <1>1 DEF CallBroker
  <2> QED BY <2>1, <2>2 DEF TypeOK, Optional
<1>2. CASE UNCHANGED sold
      BY <1>2
<1>3. UNCHANGED sold \/ \E w \in Procs : CallBroker(w)
      BY DEF Next, vars, orders, Tick, OpenOrClose, PersistPlan, WebhookArrives,
         Webhook, Sweeps, ExecutePlan, WebhookResolve, WebhookDecide, SweepScan,
         StuckScan, SweepRow, StuckRow, SweepEnd, LoadPlan, RecordOutcome, Commit,
         CommitTx, Fault, StuckPlanFault, RollbackTx
<1> QED BY <1>1, <1>2, <1>3

(* While the cancel window of a plan is open only the user's confirmation  *)
(* sells it, whatever sweeps overlap.                                      *)
THEOREM EarlySaleConfirmed == Spec => EarlySaleNeedsConfirm
<1>1. ASSUME SaleInv, [Next]_vars, NEW p \in Plans, sold'[p] # sold[p],
             row[p].mode = "STAGED", clock <= row[p].deadline
      PROVE  \E h \in Hooks : p \in cur[h] /\ task[h] = "confirm"
  <2> USE <1>1, ProcsAssumption DEF SaleInv, IInv, TypeOK
  <2>1. PICK w \in Procs : pc[w] = "call" /\ p \in cur[w]
        BY Seller
  <2>2. task[w] # "stuck" /\ lock[p] = w
        BY <2>1 DEF HandInv
  <2>3. task[w] # "sweep"
    <3>1. SUFFICES ASSUME task[w] = "sweep" PROVE FALSE
          OBVIOUS
    <3>2. row[p].deadline < now[w] /\ now[w] <= clock
          BY <2>2, <3>1 DEF LockInv, JobInv
    <3>3. row[p].deadline \in Nat /\ now[w] \in Nat /\ clock \in Nat
          BY BoundsAssumption DEF Row
    <3> QED BY <3>2, <3>3
  <2>4. task[w] = "confirm"
        BY <2>1, <2>2, <2>3 DEF JobInv
  <2> QED BY <2>1, <2>4 DEF JobInv
<1>2. SaleInv /\ [Next]_vars =>
        [\A p \in Plans :
           sold'[p] # sold[p] /\ row[p].mode = "STAGED" /\ clock <= row[p].deadline
             => \E h \in Hooks : p \in cur[h] /\ task[h] = "confirm"]_vars
      BY <1>1
<1> QED BY <1>2, Sales, PTL DEF Spec, EarlySaleNeedsConfirm

-----------------------------------------------------------------------------
(* The orders of a plan, for any number of workers.                        *)

Sold(p) == row[p].status \in {"EXECUTED", "FAILED"}

(* The processes whose open transaction has placed an order for the plan.  *)
Carriers(p) == {w \in Procs : p \in inflight[w]}

(* An order that is not lost is under way in one transaction, or it is the *)
(* one order that the row records.                                         *)
Account(p) ==
    /\ IsFiniteSet(Carriers(p))
    /\ LET k == Cardinality(Carriers(p)) IN
         /\ ~Sold(p) => sold[p] = lost[p] + k
         /\ Sold(p) => sold[p] = lost[p] + k \/ sold[p] = lost[p] + k + 1
         /\ row[p].status = "EXECUTED" => sold[p] = lost[p] + k + 1

AccountInv == \A p \in Plans : Account(p)

BookInv == SaleInv /\ AccountInv

LEMMA CarriersType ==
    ASSUME TypeOK, NEW p \in Plans, Account(p)
    PROVE  /\ Cardinality(Carriers(p)) \in Nat
           /\ sold[p] \in Nat /\ lost[p] \in Nat
BY FS_CardinalityType DEF Account, TypeOK

(* Nothing happens to the orders; an unsold plan may be cancelled, or fail *)
(* without an order.                                                       *)
LEMMA AccountKept ==
    ASSUME NEW p \in Plans, Account(p), Carriers(p)' = Carriers(p),
           sold'[p] = sold[p], lost'[p] = lost[p],
           \/ row'[p].status = row[p].status
           \/ ~Sold(p) /\ row'[p].status # "EXECUTED"
    PROVE  Account(p)'
BY DEF Account, Sold

LEMMA AccountGain ==
    ASSUME TypeOK, NEW p \in Plans, NEW w, Account(p), w \notin Carriers(p),
           Carriers(p)' = Carriers(p) \cup {w}, sold'[p] = sold[p] + 1,
           lost'[p] = lost[p], row'[p] = row[p]
    PROVE  Account(p)'
<1>1. IsFiniteSet(Carriers(p)')
      /\ Cardinality(Carriers(p)') = Cardinality(Carriers(p)) + 1
      BY FS_AddElement DEF Account
<1> QED BY <1>1, CarriersType DEF Account, Sold

LEMMA AccountLoss ==
    ASSUME TypeOK, NEW p \in Plans, NEW w \in Carriers(p), Account(p),
           Carriers(p)' = Carriers(p) \ {w}, sold'[p] = sold[p],
           \/ lost'[p] = lost[p] + 1 /\ row'[p] = row[p]
           \/ lost'[p] = lost[p] /\ ~Sold(p) /\ Sold(p)'
    PROVE  Account(p)'
<1>1. IsFiniteSet(Carriers(p)')
      /\ Cardinality(Carriers(p)') = Cardinality(Carriers(p)) - 1
      BY FS_RemoveElement DEF Account
<1>2. CASE lost'[p] = lost[p] + 1 /\ row'[p] = row[p]
      BY <1>1, <1>2, CarriersType DEF Account, Sold
<1>3. CASE lost'[p] = lost[p] /\ ~Sold(p) /\ Sold(p)'
      BY <1>1, <1>3, CarriersType DEF Account
<1> QED BY <1>2, <1>3

LEMMA CommitAccount ==
    ASSUME BookInv, NEW w \in Procs, pc[w] \in {"rows", "commit"}, CommitTx(w)
    PROVE  AccountInv'
<1> SUFFICES ASSUME NEW p \in Plans PROVE Account(p)'
    BY DEF AccountInv
<1>t. TypeOK /\ Account(p)
      BY DEF BookInv, SaleInv, IInv, AccountInv
<1>1. /\ Carriers(p)' = Carriers(p) \ {w}
      /\ row'[p] = IF lock[p] = w THEN draft[p] ELSE row[p]
      /\ sold'[p] = sold[p] /\ lost'[p] = lost[p]
      BY <1>t DEF CommitTx, Release, Seen, Carriers, TypeOK
<1>2. p \in inflight[w] => lock[p] = w /\ draft[p].status \in {"EXECUTED", "FAILED"}
      BY DEF BookInv, SaleInv, OrderInv
<1>3. lock[p] = w =>
        /\ ~Sold(p) /\ draft[p].status \in Terminal
        /\ draft[p].status = "EXECUTED" => p \in inflight[w]
      BY ProcsAssumption DEF BookInv, SaleInv, LockInv, OrderInv, IInv, DraftInv,
         Settles, Sold, Executable, Terminal
<1>4. CASE p \in inflight[w]
  <2>1. w \in Carriers(p)
        BY <1>4 DEF Carriers
  <2>2. ~Sold(p) /\ Sold(p)'
        BY <1>1, <1>2, <1>3, <1>4 DEF Sold
  <2> QED BY <1>t, <1>1, <2>1, <2>2, AccountLoss
<1>5. CASE p \notin inflight[w]
  <2>1. Carriers(p)' = Carriers(p)
        BY <1>1, <1>5 DEF Carriers
  <2>2. row'[p].status = row[p].status \/ (~Sold(p) /\ row'[p].status # "EXECUTED")
        BY <1>1, <1>3, <1>5
  <2> QED BY <1>t, <1>1, <2>1, <2>2, AccountKept
<1> QED BY <1>4, <1>5

LEMMA RollbackAccount ==
    ASSUME BookInv, NEW w \in Procs, RollbackTx(w)
    PROVE  AccountInv'
<1> SUFFICES ASSUME NEW p \in Plans PROVE Account(p)'
    BY DEF AccountInv
<1>t. TypeOK /\ Account(p)
      BY DEF BookInv, SaleInv, IInv, AccountInv
<1>1. /\ Carriers(p)' = Carriers(p) \ {w}
      /\ lost'[p] = IF p \in inflight[w] THEN lost[p] + 1 ELSE lost[p]
      /\ sold'[p] = sold[p] /\ row'[p] = row[p]
      BY <1>t DEF RollbackTx, Release, Carriers, TypeOK
<1>2. CASE p \in inflight[w]
  <2>1. w \in Carriers(p)
        BY <1>2 DEF Carriers
  <2> QED BY <1>t, <1>1, <1>2, <2>1, AccountLoss
<1>3. CASE p \notin inflight[w]
  <2>1. Carriers(p)' = Carriers(p)
        BY <1>1, <1>3 DEF Carriers
  <2> QED BY <1>t, <1>1, <1>3, <2>1, AccountKept
<1> QED BY <1>2, <1>3

LEMMA CallAccount ==
    ASSUME BookInv, NEW w \in Procs, CallBroker(w)
    PROVE  AccountInv'
<1> SUFFICES ASSUME NEW p \in Plans PROVE Account(p)'
    BY DEF AccountInv
<1>t. TypeOK /\ Account(p)
      BY DEF BookInv, SaleInv, IInv, AccountInv
<1>1. PICK q \in cur[w] :
        \/ UNCHANGED <<sold, inflight>>
        \/ /\ sold' = [sold EXCEPT ![q] = @ + 1]
           /\ inflight' = [inflight EXCEPT ![w] = @ \cup {q}]
      BY DEF CallBroker
<1>2. pc[w] = "call" /\ UNCHANGED <<row, lost>>
      BY DEF CallBroker, db
<1>3. q \in Plans /\ q \notin inflight[w]
      BY <1>t, <1>2 DEF TypeOK, Optional, BookInv, SaleInv, IInv, HoldInv
<1>4. CASE UNCHANGED <<sold, inflight>> \/ p # q
  <2>1. Carriers(p)' = Carriers(p) /\ sold'[p] = sold[p]
        BY <1>t, <1>1, <1>4 DEF Carriers, TypeOK
  <2> QED BY <1>t, <1>2, <2>1, AccountKept
<1>5. CASE /\ p = q /\ sold' = [sold EXCEPT ![q] = @ + 1]
           /\ inflight' = [inflight EXCEPT ![w] = @ \cup {q}]
  <2>1. /\ Carriers(p)' = Carriers(p) \cup {w} /\ w \notin Carriers(p)
        /\ sold'[p] = sold[p] + 1
        BY <1>t, <1>3, <1>5 DEF Carriers, TypeOK
  <2> QED BY <1>t, <1>2, <2>1, AccountGain
<1> QED BY <1>1, <1>4, <1>5

LEMMA RecordAccount ==
    ASSUME BookInv, NEW w \in Procs, RecordOutcome(w)
    PROVE  AccountInv'
<1> SUFFICES ASSUME NEW p \in Plans PROVE Account(p)'
    BY DEF AccountInv
<1>t. TypeOK /\ Account(p)
      BY DEF BookInv, SaleInv, IInv, AccountInv
<1>1. PICK q \in cur[w] :
        \/ UNCHANGED orders
        \/ /\ lost' = [lost EXCEPT ![q] = IF q \in inflight[w] THEN @ + 1 ELSE @]
           /\ inflight' = [inflight EXCEPT ![w] = @ \ {q}]
           /\ UNCHANGED sold
      BY DEF RecordOutcome
<1>2. q \in Plans /\ UNCHANGED row
      BY <1>t DEF RecordOutcome, Write, db, TypeOK, Optional
<1>3. CASE UNCHANGED orders \/ p # q \/ q \notin inflight[w]
  <2>1. Carriers(p)' = Carriers(p) /\ sold'[p] = sold[p] /\ lost'[p] = lost[p]
        BY <1>t, <1>1, <1>2, <1>3 DEF Carriers, TypeOK, orders
  <2> QED BY <1>t, <1>2, <2>1, AccountKept
<1>4. CASE /\ p = q /\ q \in inflight[w] /\ UNCHANGED sold
           /\ lost' = [lost EXCEPT ![q] = IF q \in inflight[w] THEN @ + 1 ELSE @]
           /\ inflight' = [inflight EXCEPT ![w] = @ \ {q}]
  <2>1. /\ Carriers(p)' = Carriers(p) \ {w} /\ w \in Carriers(p)
        /\ sold'[p] = sold[p] /\ lost'[p] = lost[p] + 1
        BY <1>t, <1>4 DEF Carriers, TypeOK
  <2> QED BY <1>t, <1>2, <2>1, AccountLoss
<1> QED BY <1>1, <1>3, <1>4

LEMMA AccountStep == BookInv /\ [Next]_vars => AccountInv'
<1> SUFFICES ASSUME BookInv, [Next]_vars PROVE AccountInv'
    OBVIOUS
<1>1. CASE UNCHANGED <<row, sold, lost, inflight>>
  <2> SUFFICES ASSUME NEW p \in Plans PROVE Account(p)'
      BY DEF AccountInv
  <2>1. Carriers(p)' = Carriers(p) /\ Account(p)
        BY <1>1 DEF Carriers, BookInv, AccountInv
  <2> QED BY <1>1, <2>1, AccountKept
<1>2. ASSUME NEW q \in Plans, PersistPlan(q) PROVE AccountInv'
  <2> SUFFICES ASSUME NEW p \in Plans PROVE Account(p)'
      BY DEF AccountInv
  <2>1. /\ row[q].status = "NONE" /\ row'[q].status \in {"PENDING_CONFIRM", "CONFIRMED"}
        /\ p # q => row'[p] = row[p]
        /\ UNCHANGED <<sold, lost, inflight>>
        BY <1>2 DEF PersistPlan, orders, BookInv, SaleInv, IInv, TypeOK
  <2>2. Carriers(p)' = Carriers(p) /\ Account(p)
        BY <2>1 DEF Carriers, BookInv, AccountInv
  <2>3. row'[p].status = row[p].status \/ (~Sold(p) /\ row'[p].status # "EXECUTED")
        BY <2>1 DEF Sold
  <2> QED BY <2>1, <2>2, <2>3, AccountKept
<1>3. ASSUME NEW w \in Workers, SweepEnd(w) PROVE AccountInv'
      BY <1>3, CommitAccount DEF SweepEnd
<1>4. ASSUME NEW w \in Procs, Commit(w) PROVE AccountInv'
      BY <1>4, CommitAccount DEF Commit
<1>5. ASSUME NEW w \in Procs, Fault(w) \/ StuckPlanFault(w) PROVE AccountInv'
      BY <1>5, RollbackAccount DEF Fault, StuckPlanFault
<1>6. \/ UNCHANGED <<row, sold, lost, inflight>>
      \/ \E p \in Plans : PersistPlan(p)
      \/ \E w \in Workers : SweepEnd(w)
      \/ \E w \in Procs : CallBroker(w) \/ RecordOutcome(w) \/ Commit(w)
                          \/ Fault(w) \/ StuckPlanFault(w)
      BY DEF Next, vars, db, orders, Tick, OpenOrClose, WebhookArrives, Webhook, Sweeps,
         ExecutePlan, WebhookResolve, WebhookDecide, Write, SweepScan, StuckScan,
         SweepRow, StuckRow, LoadPlan
<1> QED BY <1>1, <1>2, <1>3, <1>4, <1>5, <1>6, CallAccount, RecordAccount

LEMMA BookInit == Init => BookInv
<1> SUFFICES ASSUME Init PROVE BookInv
    OBVIOUS
<1>1. ASSUME NEW p \in Plans PROVE Account(p)
  <2>1. Carriers(p) = {} /\ sold[p] = 0 /\ lost[p] = 0 /\ row[p].status = "NONE"
        BY DEF Init, Carriers, NoRow
  <2>2. IsFiniteSet(Carriers(p)) /\ Cardinality(Carriers(p)) = 0
        BY <2>1, FS_EmptySet
  <2> QED BY <2>1, <2>2 DEF Account, Sold
<1> QED BY <1>1, SaleInit DEF BookInv, AccountInv

LEMMA BookStep == BookInv /\ [Next]_vars => BookInv'
BY SaleStep, AccountStep DEF BookInv

LEMMA Books == Spec => []BookInv
BY BookInit, BookStep, PTL DEF Spec

(* A plan recorded as EXECUTED has its order, however many workers race    *)
(* for it.                                                                 *)
THEOREM ExecutedHasOrderCorrect == Spec => []ExecutedHasOrder
<1>1. BookInv => ExecutedHasOrder
  <2> SUFFICES ASSUME BookInv, NEW p \in Plans, row[p].status = "EXECUTED"
               PROVE  sold[p] > lost[p]
      BY DEF ExecutedHasOrder
  <2>1. TypeOK /\ Account(p)
        BY DEF BookInv, SaleInv, IInv, AccountInv
  <2> QED BY <2>1, CarriersType DEF Account
<1> QED BY <1>1, Books, PTL

(* When no order of a plan is under way, all of its orders but one were    *)
(* left behind by a transaction that failed or lost the race for the row:  *)
(* what a second worker can sell twice is counted in lost.                 *)
SettledAccount == \A p \in Plans : ~InFlight(p) => sold[p] <= lost[p] + 1

(* SettledAccount holds for any number of workers, so a plan has two live  *)
(* orders only while transactions overlap or after one left no record.     *)
THEOREM SettledAccountCorrect == Spec => []SettledAccount
<1>1. BookInv => SettledAccount
  <2> SUFFICES ASSUME BookInv, NEW p \in Plans, ~InFlight(p)
               PROVE  sold[p] <= lost[p] + 1
      BY DEF SettledAccount
  <2>1. TypeOK /\ Account(p)
        BY DEF BookInv, SaleInv, IInv, AccountInv
  <2>2. Cardinality(Carriers(p)) = 0
    <3>1. Carriers(p) = {}
          BY DEF Carriers, InFlight
    <3> QED BY <3>1, FS_EmptySet
  <2> QED BY <2>1, <2>2, CarriersType DEF Account
<1> QED BY <1>1, Books, PTL

(* A plan that one transaction at most can carry, and none once it is sold,*)
(* is sold once.                                                           *)
LEMMA OneCarrier ==
    ASSUME TypeOK, NEW p \in Plans, Account(p), Sold(p) => Carriers(p) = {},
           \A v, w \in Carriers(p) : v = w
    PROVE  sold[p] <= lost[p] + 1
<1>1. CASE Carriers(p) = {}
  <2>1. Cardinality(Carriers(p)) = 0
        BY <1>1, FS_EmptySet
  <2> QED BY <2>1, CarriersType DEF Account
<1>2. ASSUME NEW w \in Carriers(p) PROVE sold[p] <= lost[p] + 1
  <2>1. Carriers(p) = {w}
        BY <1>2
  <2>2. Cardinality(Carriers(p)) = 1
        BY <2>1, FS_Singleton
  <2> QED BY <1>2, <2>2, CarriersType DEF Account
<1> QED BY <1>1, <1>2

(* A STAGED plan is only in the hand of the process that holds its row.    *)
LEMMA StagedIsHeld ==
    ASSUME SaleInv, NEW p \in Plans, row[p].mode = "STAGED", NEW w \in Procs,
           p \in inflight[w] \/ (pc[w] = "call" /\ p \in cur[w])
    PROVE  lock[p] = w /\ row[p].status \in {"PENDING_CONFIRM"} \cup Executable
<1> USE ProcsAssumption DEF SaleInv
<1>1. lock[p] = w \/ (pc[w] \in {"call", "record"} /\ p \in cur[w])
      BY DEF OrderInv
<1>2. pc[w] \in {"call", "record"} /\ p \in cur[w] => lock[p] = w
      BY DEF HandInv
<1>3. row[p].status \in {"PENDING_CONFIRM"} \cup Executable
      BY <1>1, <1>2 DEF LockInv
<1> QED BY <1>1, <1>2, <1>3

(* A plan with a cancel window is sold once, but for orders of             *)
(* transactions that failed.                                               *)
StagedSoldOnce ==
    \A p \in Plans : row[p].mode = "STAGED" => sold[p] <= lost[p] + 1

(* It needs no single worker: the row lock of the decision is held until   *)
(* the sale commits, so only OFF plans are at risk from a second worker.   *)
THEOREM StagedSoldOnceCorrect == Spec => []StagedSoldOnce
<1>1. BookInv => StagedSoldOnce
  <2> SUFFICES ASSUME BookInv, NEW p \in Plans, row[p].mode = "STAGED"
               PROVE  sold[p] <= lost[p] + 1
      BY DEF StagedSoldOnce
  <2>1. TypeOK /\ Account(p) /\ SaleInv
        BY DEF BookInv, SaleInv, IInv, AccountInv
  <2>2. \A w \in Carriers(p) :
          lock[p] = w /\ row[p].status \in {"PENDING_CONFIRM"} \cup Executable
        BY <2>1, StagedIsHeld DEF Carriers
  <2>3. Sold(p) => Carriers(p) = {}
        BY <2>2 DEF Sold, Executable
  <2> QED BY <2>1, <2>2, <2>3, OneCarrier
<1> QED BY <1>1, Books, PTL

(* A settled STAGED plan is never sold, whatever status execute_plan has   *)
(* loaded and however many workers there are.                              *)
StagedNeverSellSettled ==
    [][\A p \in Plans :
         sold'[p] # sold[p] /\ row[p].mode = "STAGED"
           => row[p].status \notin Terminal]_vars

(* No webhook, sweep or stuck sweep orders a settled STAGED plan.          *)
THEOREM StagedNeverSellSettledCorrect == Spec => StagedNeverSellSettled
<1>1. ASSUME SaleInv, [Next]_vars, NEW p \in Plans, sold'[p] # sold[p],
             row[p].mode = "STAGED"
      PROVE  row[p].status \notin Terminal
  <2>1. PICK w \in Procs : pc[w] = "call" /\ p \in cur[w]
        BY <1>1, Seller DEF SaleInv, IInv
  <2>2. row[p].status \in {"PENDING_CONFIRM"} \cup Executable
        BY <1>1, <2>1, StagedIsHeld
  <2> QED BY <2>2 DEF Executable, Terminal
<1>2. SaleInv /\ [Next]_vars =>
        [\A p \in Plans :
           sold'[p] # sold[p] /\ row[p].mode = "STAGED"
             => row[p].status \notin Terminal]_vars
      BY <1>1
<1> QED BY <1>2, Sales, PTL DEF Spec, StagedNeverSellSettled

-----------------------------------------------------------------------------
(* One worker, as deployed.                                                *)

OneWorker == \A w, z \in Workers : w = z

(* The stuck sweep sells plans that nobody else decides or sells.          *)
StuckInv ==
    \A w \in Procs : \A p \in cur[w] :
        pc[w] \in {"call", "record"} /\ task[w] = "stuck" =>
            lock[p] = Nobody /\ row[p].status \in Executable

LoneInv == OneWorker /\ BookInv /\ StuckInv

LEMMA StuckStep == ASSUME LoneInv, [Next]_vars PROVE StuckInv'
<1>a. TypeOK' BY StepTypeOK DEF LoneInv, BookInv, SaleInv, IInv
<1>b. ASSUME NEW w \in Procs, NEW p \in cur[w]
      PROVE  p \in Plans /\ cur[w] = {p}
      BY <1>b DEF LoneInv, BookInv, SaleInv, IInv, TypeOK, Optional
<1>d. TypeOK BY DEF LoneInv, BookInv, SaleInv, IInv
<1>c. cur \in [Procs -> SUBSET Plans] /\ cur' \in [Procs -> SUBSET Plans]
      BY <1>a, <1>d DEF TypeOK, Optional
<1> USE ProcsAssumption, <1>a, <1>c DEF LoneInv, BookInv, SaleInv, IInv, TypeOK, JobInv, LockInv, HandInv, StuckInv
<1>1. CASE Tick
      BY <1>1 DEF Tick, db, local, orders
<1>2. CASE OpenOrClose
      BY <1>2 DEF OpenOrClose, db, local, orders
<1>3. ASSUME NEW p \in Plans, PersistPlan(p)
      PROVE  StuckInv'
  <2>1. \A q \in Plans : q # p => row'[q] = row[q]
        BY <1>3 DEF PersistPlan
  <2>2. row[p].status = "NONE" /\ UNCHANGED <<lock, draft, pc, task, cur>>
        BY <1>3 DEF PersistPlan, local
  <2>3. lock[p] = Nobody
        BY <2>2 DEF Executable
  <2>4. row[p].status \notin Executable
        BY <2>2 DEF Executable
  <2>5. ASSUME NEW w \in Procs, NEW q \in cur[w],
               pc[w] \in {"call", "record"}, task[w] = "stuck"
        PROVE  lock[q] = Nobody /\ row'[q].status \in Executable
    <3>1. q \in Plans /\ lock[q] = Nobody /\ row[q].status \in Executable
          BY <2>5, <1>b
    <3> QED BY <2>1, <2>4, <3>1
  <2> QED BY <2>2, <2>5
<1>4. ASSUME NEW h \in Hooks, NEW command \in {"confirm", "cancel"},
             NEW ids \in Prefixes, WebhookArrives(h, command, ids)
      PROVE  StuckInv'
      BY <1>4 DEF WebhookArrives, Start, Goto, db, orders, Settles,
         Executable, Terminal, DraftInv
<1>5. ASSUME NEW h \in Hooks, WebhookResolve(h)
      PROVE  StuckInv'
      BY SMTT(30), <1>5 DEF WebhookResolve, Leave, Goto, db, orders, Settles,
         Executable, Terminal, DraftInv
<1>6. ASSUME NEW h \in Hooks, WebhookDecide(h)
      PROVE  StuckInv'
  <2>0. PICK p \in cur[h] :
          /\ Unlocked(h, p)
          /\ IF row[p].status = "PENDING_CONFIRM"
             THEN /\ Write(h, p, Restate(row[p], Decision(h), now[h]))
                  /\ Goto(h, AfterDecision(h))
                  /\ UNCHANGED <<task, now, todo, cur, reply>>
             ELSE Leave(h) /\ UNCHANGED db
        BY <1>6 DEF WebhookDecide
  <2>a. pc[h] = "decide" /\ UNCHANGED <<clock, open, orders, faults>>
        BY <1>6 DEF WebhookDecide
  <2>b. p \in Plans /\ cur[h] = {p} /\ h \in Procs
        BY <1>b
  <2> QED BY <2>0, <2>a, <2>b DEF Unlocked, Write, Restate, Decision,
            AfterDecision, Goto, Leave, db, orders, Settles, Executable,
            Terminal, DraftInv
<1>7. ASSUME NEW w \in Workers, SweepScan(w)
      PROVE  StuckInv'
      BY <1>7 DEF SweepScan, Start, Goto, db, orders, Settles, Executable,
         Terminal, DraftInv
<1>8. ASSUME NEW w \in Workers, StuckScan(w)
      PROVE  StuckInv'
      BY <1>8 DEF StuckScan, Start, Goto, db, orders, Settles, Executable,
         Terminal, DraftInv
<1>9. ASSUME NEW w \in Workers, NEW p \in Plans, SweepRow(w, p)
      PROVE  StuckInv'
      BY SMTT(30), <1>9 DEF SweepRow, NextRow, Overdue, Unlocked, Write, Restate, Goto,
         db, orders, Settles, Executable, Terminal, DraftInv
<1>10. ASSUME NEW w \in Workers, NEW p \in Plans, StuckRow(w, p)
      PROVE  StuckInv'
      BY <1>10 DEF StuckRow, NextRow, Goto, db, orders, Settles, Executable,
         Terminal, DraftInv
<1>11. ASSUME NEW w \in Workers, SweepEnd(w)
      PROVE  StuckInv'
      BY <1>11 DEF SweepEnd, CommitTx, Release, Seen, Leave, Goto, NoRow,
         Settles, Executable, Terminal, DraftInv
<1>12. ASSUME NEW w \in Procs, LoadPlan(w)
      PROVE  StuckInv'
  <2>a. pc[w] = "load" /\ UNCHANGED <<db, task, cur>>
        BY <1>12 DEF LoadPlan
  <2>1. \A p \in cur[w] : pc'[w] \in {"call", "record"} =>
          p \in Plans /\ Seen(w, p).status \in Executable
        BY <1>12, <1>b DEF LoadPlan, Goto, AfterPlan
  <2>2. ASSUME NEW p \in cur[w], task[w] = "stuck", pc'[w] \in {"call", "record"}
        PROVE  lock[p] = Nobody /\ row[p].status \in Executable
    <3>1. lock[p] # w
          BY <2>a, <2>1, <2>2
    <3>2. row[p].status \in Executable
          BY <2>1, <2>2, <3>1 DEF Seen
    <3>3. lock[p] # Nobody => task[lock[p]] = "stuck"
          BY <2>1, <2>2, <3>2 DEF Executable
    <3> QED BY <2>1, <2>2, <3>1, <3>2, <3>3 DEF OneWorker
  <2>3. \A v \in Procs \ {w} : pc'[v] = pc[v]
        BY <1>12 DEF LoadPlan, Goto
  <2> QED BY <2>a, <2>2, <2>3 DEF db
<1>13. ASSUME NEW w \in Procs, CallBroker(w)
      PROVE  StuckInv'
  <2>0. PICK p \in cur[w], answer \in {"ok", "accepted_but_raised", "rejected"} :
          /\ reply' = [reply EXCEPT ![w] = Reported(answer)]
          /\ IF answer = "rejected"
             THEN UNCHANGED <<sold, inflight>>
             ELSE /\ sold' = [sold EXCEPT ![p] = @ + 1]
                  /\ inflight' = [inflight EXCEPT ![w] = @ \cup {p}]
        BY <1>13 DEF CallBroker, Goto
  <2>a. /\ pc[w] = "call" /\ pc' = [pc EXCEPT ![w] = "record"]
        /\ UNCHANGED <<clock, open, db, task, now, todo, cur, lost, faults>>
        BY <1>13 DEF CallBroker, Goto
  <2>b. p \in Plans /\ cur[w] = {p}
        BY <1>b
  <2> QED BY <2>0, <2>a, <2>b DEF Reported, db, Settles, Executable,
            Terminal, DraftInv
<1>14. ASSUME NEW w \in Procs, RecordOutcome(w)
      PROVE  StuckInv'
  <2>0. PICK p \in cur[w] :
          /\ Unlocked(w, p)
          /\ IF Seen(w, p).status \in Executable
             THEN /\ Write(w, p, Restate(Seen(w, p), Outcome(w), Seen(w, p).since))
                  /\ UNCHANGED orders
             ELSE /\ lost' = [lost EXCEPT ![p] = IF p \in inflight[w] THEN @ + 1 ELSE @]
                  /\ inflight' = [inflight EXCEPT ![w] = @ \ {p}]
                  /\ UNCHANGED <<db, sold>>
        BY <1>14 DEF RecordOutcome, Goto
  <2>a. /\ pc[w] = "record" /\ pc' = [pc EXCEPT ![w] = AfterPlan(w)]
        /\ UNCHANGED <<clock, open, task, now, todo, cur, reply, faults>>
        BY <1>14 DEF RecordOutcome, Goto
  <2>b. p \in Plans /\ cur[w] = {p}
        BY <1>b
  <2>1. AfterPlan(w) \notin {"call", "record"}
        BY DEF AfterPlan
  <2>2. UNCHANGED row /\ \A q \in Plans \ {p} : lock'[q] = lock[q]
        BY <2>0, <2>b DEF Write, db
  <2>3. ASSUME NEW v \in Procs, v # w, task[v] = "stuck",
               pc[v] \in {"call", "record"}, p \in cur[v]
        PROVE  FALSE
    <3>1. lock[p] = Nobody
          BY <2>3
    <3>2. task[w] = "stuck"
          BY <2>a, <2>b, <3>1
    <3> QED BY <2>3, <3>2 DEF OneWorker
  <2>4. \A v \in Procs : \A q \in cur[v] : q \in Plans
        BY <1>b
  <2>5. \A v \in Procs : v # w => pc'[v] = pc[v]
        BY <2>a
  <2>6. pc'[w] = AfterPlan(w)
        BY <2>a
  <2> QED BY <2>a, <2>1, <2>2, <2>3, <2>4, <2>5, <2>6
<1>15. ASSUME NEW w \in Procs, Commit(w)
      PROVE  StuckInv'
  <2>1. /\ \A q \in Plans : lock[q] = Nobody => lock'[q] = Nobody /\ row'[q] = row[q]
        /\ \A v \in Procs : v # w => pc'[v] = pc[v] /\ task'[v] = task[v] /\ cur'[v] = cur[v]
        /\ pc'[w] \in {"rows", "idle"}
        BY <1>15 DEF Commit, CommitTx, Release, Seen, Leave, Goto
  <2>2. \A v \in Procs : \A q \in cur[v] : q \in Plans
        BY <1>b
  <2>3. ASSUME NEW v \in Procs, NEW q \in cur'[v],
               pc'[v] \in {"call", "record"}, task'[v] = "stuck"
        PROVE  lock'[q] = Nobody /\ row'[q].status \in Executable
    <3>1. v # w
          BY <2>1, <2>3
    <3>2. q \in Plans /\ lock[q] = Nobody /\ row[q].status \in Executable
          BY <2>1, <2>2, <2>3, <3>1
    <3> QED BY <2>1, <3>2
  <2> QED BY <2>3
<1>16. ASSUME NEW w \in Procs, Fault(w)
      PROVE  StuckInv'
      BY <1>16 DEF Fault, RollbackTx, Release, Leave, Goto, NoRow, Settles,
         Executable, Terminal, DraftInv
<1>17. ASSUME NEW w \in Procs, StuckPlanFault(w)
      PROVE  StuckInv'
      BY <1>17 DEF StuckPlanFault, RollbackTx, Release, Goto, NoRow, Settles,
         Executable, Terminal, DraftInv
<1>18. CASE UNCHANGED vars
      BY <1>18 DEF vars, db, local, orders
<1> QED
  BY <1>1, <1>2, <1>3, <1>4, <1>5, <1>6, <1>7, <1>8, <1>9,
     <1>10, <1>11, <1>12, <1>13, <1>14, <1>15, <1>16, <1>17, <1>18
     DEF Next, Webhook, Sweeps, ExecutePlan

(* A plan is under way with one process only, and not while another is     *)
(* about to sell it.                                                       *)
LEMMA OnlyOne ==
    ASSUME LoneInv, NEW w \in Procs, NEW v \in Procs, NEW p \in inflight[w],
           \/ p \in inflight[v]
           \/ lock[p] = v
           \/ p \in cur[v] /\ pc[v] = "call"
    PROVE  w = v
<1> USE ProcsAssumption DEF LoneInv, BookInv, SaleInv
<1>1. p \in Plans
      BY DEF IInv, TypeOK
<1>2. ASSUME NEW z \in Procs, p \in inflight[z] \/ (p \in cur[z] /\ pc[z] = "call")
      PROVE  lock[p] = z \/ (lock[p] = Nobody /\ z \in Workers)
  <2>1. lock[p] = z \/ (p \in cur[z] /\ pc[z] \in {"call", "record"})
        BY <1>2 DEF OrderInv
  <2>2. CASE task[z] = "stuck"
        BY <2>1, <2>2 DEF StuckInv, JobInv
  <2>3. CASE task[z] # "stuck"
    <3>1. p \in cur[z] /\ pc[z] \in {"load", "call", "record"} => lock[p] = z
          BY <2>3 DEF HandInv
    <3> QED BY <2>1, <3>1
  <2> QED BY <2>2, <2>3
<1>3. lock[p] = w \/ (lock[p] = Nobody /\ w \in Workers)
      BY <1>2
<1>4. lock[p] = v \/ (lock[p] = Nobody /\ v \in Workers)
      BY <1>2
<1> QED BY <1>3, <1>4 DEF OneWorker

(* A settled plan has no order under way.                                  *)
LEMMA SoldIsDone ==
    ASSUME LoneInv, NEW p \in Plans, Sold(p)
    PROVE  ~InFlight(p)
<1> SUFFICES ASSUME NEW w \in Procs, p \in inflight[w] PROVE FALSE
    BY DEF InFlight
<1> USE ProcsAssumption DEF LoneInv, BookInv, SaleInv
<1>1. lock[p] # w
      BY DEF LockInv, Sold, Executable
<1>2. pc[w] = "record" /\ p \in cur[w]
      BY <1>1 DEF OrderInv
<1>3. task[w] = "stuck"
      BY <1>1, <1>2 DEF HandInv
<1> QED BY <1>2, <1>3 DEF StuckInv, Sold, Executable

LEMMA CallFresh ==
    ASSUME LoneInv, NEW w \in Procs, NEW p \in cur[w], pc[w] = "call"
    PROVE  p \in Plans /\ ~InFlight(p) /\ row[p].status \notin Terminal
<1> USE ProcsAssumption DEF LoneInv, BookInv, SaleInv
<1>1. p \in Plans
      BY DEF IInv, TypeOK, Optional
<1>2. p \notin inflight[w]
      BY DEF IInv, HoldInv
<1>3. ~InFlight(p)
      BY <1>2, OnlyOne DEF InFlight
<1>4. row[p].status \notin Terminal
  <2>1. CASE task[w] = "stuck"
        BY <2>1 DEF StuckInv, Executable, Terminal
  <2>2. CASE task[w] # "stuck"
        BY <1>1, <2>2 DEF HandInv, LockInv, Terminal
  <2> QED BY <2>1, <2>2
<1> QED BY <1>1, <1>3, <1>4

LEMMA LoneInit == OneWorker /\ Init => LoneInv
BY BookInit DEF Init, LoneInv, StuckInv

LEMMA LoneStep == LoneInv /\ [Next]_vars => LoneInv'
BY BookStep, StuckStep DEF LoneInv, OneWorker

(* With one worker every order of a plan but one belongs to a transaction  *)
(* that failed, for any number of webhook threads, plans and faults.       *)
THEOREM NoDoubleSellCorrect == OneWorker => (Spec => []NoDoubleSell)
<1>1. LoneInv => NoDoubleSell
  <2> SUFFICES ASSUME LoneInv, NEW p \in Plans PROVE sold[p] <= lost[p] + 1
      BY DEF NoDoubleSell
  <2>1. TypeOK /\ Account(p)
        BY DEF LoneInv, BookInv, SaleInv, IInv, AccountInv
  <2>2. Sold(p) => Carriers(p) = {}
        BY SoldIsDone DEF Carriers, InFlight
  <2>3. \A v, w \in Carriers(p) : v = w
        BY OnlyOne DEF Carriers
  <2> QED BY <2>1, <2>2, <2>3, OneCarrier
<1> QED BY <1>1, LoneInit, LoneStep, PTL DEF Spec

(* With one worker no order is placed for a plan that is settled, however  *)
(* old the status execute_plan has loaded.                                 *)
THEOREM NeverSellSettledCorrect == OneWorker => (Spec => NeverSellSettled)
<1>1. LoneInv /\ [Next]_vars =>
        [\A p \in Plans : sold'[p] # sold[p] => row[p].status \notin Terminal]_vars
      BY Seller, CallFresh DEF LoneInv, BookInv, SaleInv, IInv
<1> QED BY <1>1, LoneInit, LoneStep, PTL DEF Spec, NeverSellSettled
=============================================================================
