--------------------------- MODULE StagedExecution ---------------------------
(***************************************************************************)
(* The L4 staged-execution path: rows of the table execution_plans, the    *)
(* DingTalk webhook handlers of the API process, the two periodic sweeps   *)
(* of the Celery workers, and the broker that receives sell orders.        *)
(*                                                                         *)
(* Database transactions run at READ COMMITTED with row locks: row[p] is   *)
(* the committed version of plan p, draft[p] the version written by the    *)
(* open transaction of lock[p].  An UPDATE of a row another transaction    *)
(* has written waits for it and then re-evaluates its WHERE clause.  A     *)
(* sell order reaches the broker at once and no rollback recalls it.       *)
(***************************************************************************)
EXTENDS Naturals, FiniteSets

CONSTANTS
    Plans,       \* plan ids
    Hooks,       \* threads of the API process that serve the webhook
    Workers,     \* Celery worker processes (each runs one task at a time)
    Nobody,      \* owner of an unlocked row
    Prefixes,    \* sets of plan ids that one plan-id prefix can match
    Windows,     \* lengths of the cancel window of a STAGED plan
    StuckAge,    \* BROKER_PLAN_STUCK_OVERDUE_THRESHOLD_S
    BatchLimit,  \* SWEEP_BATCH_LIMIT
    MaxClock,    \* bound: time stops here
    MaxFaults    \* bound: exceptions, lost connections and crashes

Procs == Hooks \cup Workers

ASSUME ProcsAssumption == Hooks \cap Workers = {} /\ Nobody \notin Procs
ASSUME BoundsAssumption ==
    /\ Windows \subseteq Nat
    /\ StuckAge \in Nat /\ MaxClock \in Nat /\ MaxFaults \in Nat
    /\ BatchLimit \in Nat \ {0}
    /\ Prefixes \subseteq SUBSET Plans

VARIABLES
    clock,      \* wall clock, shared by the API, the workers and PostgreSQL
    open,       \* trading hours of a trading day
    row,        \* committed rows of execution_plans
    draft,      \* row versions written by open transactions
    lock,       \* who holds the row lock
    pc, task,   \* control state of each process and the job it runs
    now,        \* the time the job took at its start
    todo,       \* webhook: ids its prefix matches; sweep: rows still to do
    cur,        \* set holding the plan in hand, at most one
    reply,      \* what the broker call returned to the process
    inflight,   \* plans the open transaction has placed an order for
    sold,       \* orders the broker accepted, per plan
    lost,       \* accepted orders whose transaction left no record of them
    faults

db     == <<row, draft, lock>>
local  == <<pc, task, now, todo, cur, reply>>
orders == <<sold, lost, inflight>>
vars   == <<clock, open, db, local, orders, faults>>

Status     == {"NONE", "PENDING_CONFIRM", "CONFIRMED", "CANCELLED",
               "TIMEOUT_EXECUTED", "EXECUTED", "FAILED"}
Terminal   == {"CANCELLED", "EXECUTED", "FAILED"}

(* Faulty variants, here and below, are what the runs' mutants put in the  *)
(* place of the definition that follows them.                              *)
Executable_RetryFailed  == {"CONFIRMED", "TIMEOUT_EXECUTED", "FAILED"}
Executable_TimeoutsOnly == {"TIMEOUT_EXECUTED"}

Executable == {"CONFIRMED", "TIMEOUT_EXECUTED"}

Row        == [status: Status, mode: {"OFF", "STAGED"},
               deadline: Nat, since: Nat]
NoRow      == [status |-> "NONE", mode |-> "OFF", deadline |-> 0, since |-> 0]

(* What a statement of process w reads: its own writes, else what is       *)
(* committed.                                                              *)
Seen(w, p) == IF lock[p] = w THEN draft[p] ELSE row[p]

Unlocked_Ignored(w, p) == TRUE

Unlocked(w, p) == lock[p] \in {Nobody, w}

(* The version an UPDATE SET status, user_decision_at makes of a row.      *)
Restate(version, status, since) ==
    [status |-> status, mode |-> version.mode,
     deadline |-> version.deadline, since |-> since]

Write(w, p, version) ==
    /\ lock' = [lock EXCEPT ![p] = w]
    /\ draft' = [draft EXCEPT ![p] = version]
    /\ UNCHANGED row

Release(w) ==
    /\ lock' = [p \in Plans |-> IF lock[p] = w THEN Nobody ELSE lock[p]]
    /\ draft' = [p \in Plans |-> IF lock[p] = w THEN NoRow ELSE draft[p]]
    /\ inflight' = [inflight EXCEPT ![w] = {}]

CommitTx(w) ==
    /\ row' = [p \in Plans |-> Seen(w, p)]
    /\ Release(w)
    /\ UNCHANGED <<sold, lost>>

RollbackTx(w) ==
    /\ Release(w)
    /\ lost' = [p \in Plans |-> IF p \in inflight[w] THEN lost[p] + 1 ELSE lost[p]]
    /\ UNCHANGED <<row, sold>>

Goto(w, label) == pc' = [pc EXCEPT ![w] = label]

(* The job ends and its locals die.                                        *)
Leave(w) ==
    /\ Goto(w, "idle")
    /\ task' = [task EXCEPT ![w] = "none"]
    /\ now' = [now EXCEPT ![w] = 0]
    /\ todo' = [todo EXCEPT ![w] = {}]
    /\ cur' = [cur EXCEPT ![w] = {}]
    /\ reply' = [reply EXCEPT ![w] = "none"]

Start(w, job, set, label) ==
    /\ pc[w] = "idle"
    /\ Goto(w, label)
    /\ task' = [task EXCEPT ![w] = job]
    /\ now' = [now EXCEPT ![w] = clock]
    /\ todo' = [todo EXCEPT ![w] = set]
    /\ UNCHANGED <<cur, reply>>

Init ==
    /\ clock = 0 /\ open = TRUE /\ faults = 0
    /\ row = [p \in Plans |-> NoRow]
    /\ draft = [p \in Plans |-> NoRow]
    /\ lock = [p \in Plans |-> Nobody]
    /\ pc = [w \in Procs |-> "idle"]
    /\ task = [w \in Procs |-> "none"]
    /\ now = [w \in Procs |-> 0]
    /\ todo = [w \in Procs |-> {}]
    /\ cur = [w \in Procs |-> {}]
    /\ reply = [w \in Procs |-> "none"]
    /\ inflight = [w \in Procs |-> {}]
    /\ sold = [p \in Plans |-> 0]
    /\ lost = [p \in Plans |-> 0]

-----------------------------------------------------------------------------
(* Environment: time, trading hours, and the realtime risk tick, which     *)
(* commits a new plan (generate_plan, persist_plan_with_audit).            *)

Tick ==
    /\ clock < MaxClock
    /\ clock' = clock + 1
    /\ UNCHANGED <<open, db, local, orders, faults>>

OpenOrClose ==
    /\ open' = ~open
    /\ UNCHANGED <<clock, db, local, orders, faults>>

(* A plan that cannot expire before time stops is not created: the bound   *)
(* MaxClock stands for no property of the code.                            *)
PersistPlan(p) ==
    /\ open
    /\ row[p].status = "NONE"
    /\ \/ \E d \in Windows:
            /\ clock + d < MaxClock
            /\ row' = [row EXCEPT ![p] =
                 [status |-> "PENDING_CONFIRM", mode |-> "STAGED",
                  deadline |-> clock + d, since |-> clock]]
       \/ /\ clock + StuckAge < MaxClock
          /\ row' = [row EXCEPT ![p] =
               [status |-> "CONFIRMED", mode |-> "OFF",
                deadline |-> clock, since |-> clock]]
    /\ UNCHANGED <<clock, open, draft, lock, local, orders, faults>>

-----------------------------------------------------------------------------
(* Webhook: process_command, then execute_plan on the same transaction.    *)

WebhookArrives(h, command, ids) ==
    /\ Start(h, command, ids, "resolve")
    /\ UNCHANGED <<clock, open, db, orders, faults>>

Matches(h) == {p \in todo[h] : row[p].status # "NONE"}

Unambiguous_AnyMatch(ids) == ids # {}

Unambiguous(ids) == \E p \in ids : ids = {p}

Decidable(h, p) ==
    /\ row[p].status = "PENDING_CONFIRM"
    /\ now[h] < row[p].deadline

WebhookResolve(h) ==
    /\ pc[h] = "resolve"
    /\ IF Unambiguous(Matches(h)) /\ \A p \in Matches(h) : Decidable(h, p)
       THEN /\ cur' = [cur EXCEPT ![h] = Matches(h)]
            /\ Goto(h, "decide")
            /\ UNCHANGED <<task, now, todo, reply>>
       ELSE Leave(h)
    /\ UNCHANGED <<clock, open, db, orders, faults>>

Decision(h) == IF task[h] = "confirm" THEN "CONFIRMED" ELSE "CANCELLED"

(* A confirmed plan is sold in the same transaction.                       *)
AfterDecision_CommitFirst(h) == "commit"

AfterDecision(h) == IF task[h] = "confirm" THEN "load" ELSE "commit"

(* UPDATE ... WHERE status = 'PENDING_CONFIRM': the deadline is not        *)
(* looked at again.                                                        *)
WebhookDecide(h) ==
    /\ pc[h] = "decide"
    /\ \E p \in cur[h] :
         /\ Unlocked(h, p)
         /\ IF row[p].status = "PENDING_CONFIRM"
            THEN /\ Write(h, p, Restate(row[p], Decision(h), now[h]))
                 /\ Goto(h, AfterDecision(h))
                 /\ UNCHANGED <<task, now, todo, cur, reply>>
            ELSE Leave(h) /\ UNCHANGED db
    /\ UNCHANGED <<clock, open, orders, faults>>

-----------------------------------------------------------------------------
(* The sweeps.  SELECT ... ORDER BY ... LIMIT: the batch is a set of rows  *)
(* none of which comes after a row left out.                               *)

IsBatch(batch, found, key) ==
    /\ batch \subseteq found
    /\ batch = found \/ Cardinality(batch) = BatchLimit
    /\ Cardinality(batch) <= BatchLimit
    /\ \A p \in batch, q \in found \ batch : key[p] <= key[q]

Overdue_FromDeadline(p, t) == row[p].status = "PENDING_CONFIRM" /\ row[p].deadline <= t
Overdue_AnyStatus(p, t)    == row[p].status # "NONE" /\ row[p].deadline < t

(* WHERE status = 'PENDING_CONFIRM' AND cancel_deadline < NOW()            *)
Overdue(p, t) == row[p].status = "PENDING_CONFIRM" /\ row[p].deadline < t

Expired == {p \in Plans : Overdue(p, clock)}

Stuck == {p \in Plans : /\ row[p].status \in Executable
                        /\ row[p].since + StuckAge < clock}

Deadlines == [p \in Plans |-> row[p].deadline]
Sinces    == [p \in Plans |-> row[p].since]

(* PostgreSQL's NOW() is the start of the transaction, so the UPDATEs of   *)
(* the batch compare with the same time as the SELECT.  A scan that finds  *)
(* nothing changes nothing and is left out.                                *)
SweepScan(w) ==
    /\ open
    /\ \E batch \in SUBSET Expired \ {{}} :
         /\ IsBatch(batch, Expired, Deadlines)
         /\ Start(w, "sweep", batch, "rows")
    /\ UNCHANGED <<clock, open, db, orders, faults>>

StuckScan(w) ==
    /\ \E batch \in SUBSET Stuck \ {{}} :
         /\ IsBatch(batch, Stuck, Sinces)
         /\ Start(w, "stuck", batch, "rows")
    /\ UNCHANGED <<clock, open, db, orders, faults>>

NextRow(w, p, key) ==
    /\ pc[w] = "rows" /\ p \in todo[w]
    /\ \A q \in todo[w] : key[p] <= key[q]
    /\ todo' = [todo EXCEPT ![w] = @ \ {p}]

(* One row of _sweep_inner: the compare-and-set to TIMEOUT_EXECUTED.       *)
SweepRow(w, p) ==
    /\ task[w] = "sweep"
    /\ NextRow(w, p, Deadlines)
    /\ Unlocked(w, p)
    /\ IF Overdue(p, now[w])
       THEN /\ Write(w, p, Restate(row[p], "TIMEOUT_EXECUTED", now[w]))
            /\ cur' = [cur EXCEPT ![w] = {p}]
            /\ Goto(w, "load")
       ELSE UNCHANGED <<db, cur, pc>>
    /\ UNCHANGED <<clock, open, task, now, reply, orders, faults>>

(* One row of _sweep_stuck_inner: straight to execute_plan.                *)
StuckRow(w, p) ==
    /\ task[w] = "stuck"
    /\ NextRow(w, p, Sinces)
    /\ cur' = [cur EXCEPT ![w] = {p}]
    /\ Goto(w, "load")
    /\ UNCHANGED <<clock, open, db, task, now, reply, orders, faults>>

(* _sweep_inner commits its whole batch once, the stuck sweep committed    *)
(* plan by plan and has nothing left to commit.                            *)
SweepEnd(w) ==
    /\ pc[w] = "rows" /\ todo[w] = {}
    /\ CommitTx(w)
    /\ Leave(w)
    /\ UNCHANGED <<clock, open, faults>>

-----------------------------------------------------------------------------
(* StagedExecutionService.execute_plan, run by every kind of job.          *)

AfterPlan(w) == IF task[w] = "sweep" THEN "rows" ELSE "commit"

LoadPlan(w) ==
    /\ pc[w] = "load"
    /\ \E p \in cur[w] :
         Goto(w, IF Seen(w, p).status \in Executable THEN "call" ELSE AfterPlan(w))
    /\ UNCHANGED <<clock, open, db, task, now, todo, cur, reply, orders, faults>>

Reported_AnyAnswer(answer) == "ok"

Reported(answer) == IF answer = "ok" THEN "ok" ELSE "failed"

(* The broker accepts the order and says so; accepts it and the answer is  *)
(* an exception or a timeout; or rejects it.                               *)
CallBroker(w) ==
    /\ pc[w] = "call"
    /\ \E p \in cur[w], answer \in {"ok", "accepted_but_raised", "rejected"} :
         /\ reply' = [reply EXCEPT ![w] = Reported(answer)]
         /\ IF answer = "rejected"
            THEN UNCHANGED <<sold, inflight>>
            ELSE /\ sold' = [sold EXCEPT ![p] = @ + 1]
                 /\ inflight' = [inflight EXCEPT ![w] = @ \cup {p}]
    /\ Goto(w, "record")
    /\ UNCHANGED <<clock, open, db, task, now, todo, cur, lost, faults>>

Outcome(w) == IF reply[w] = "ok" THEN "EXECUTED" ELSE "FAILED"

(* UPDATE ... WHERE status IN ('CONFIRMED','TIMEOUT_EXECUTED'); on zero    *)
(* rows the broker's answer is dropped (outcome RACE).                     *)
RecordOutcome(w) ==
    /\ pc[w] = "record"
    /\ \E p \in cur[w] :
         /\ Unlocked(w, p)
         /\ IF Seen(w, p).status \in Executable
            THEN /\ Write(w, p, Restate(Seen(w, p), Outcome(w), Seen(w, p).since))
                 /\ UNCHANGED orders
            ELSE /\ lost' = [lost EXCEPT ![p] = IF p \in inflight[w] THEN @ + 1 ELSE @]
                 /\ inflight' = [inflight EXCEPT ![w] = @ \ {p}]
                 /\ UNCHANGED <<db, sold>>
    /\ Goto(w, AfterPlan(w))
    /\ UNCHANGED <<clock, open, task, now, todo, cur, reply, faults>>

(* Webhook: the transaction and the request end.  Stuck sweep: the plan's  *)
(* transaction ends and the loop goes on.                                  *)
Commit(w) ==
    /\ pc[w] = "commit"
    /\ CommitTx(w)
    /\ IF task[w] = "stuck"
       THEN Goto(w, "rows") /\ UNCHANGED <<task, now, todo, cur, reply>>
       ELSE Leave(w)
    /\ UNCHANGED <<clock, open, faults>>

-----------------------------------------------------------------------------
(* Faults, at most MaxFaults: a database error, a lost connection, a hard  *)
(* task limit or a dead process at any statement of a job.  The open       *)
(* transaction is rolled back.                                             *)

Fault(w) ==
    /\ pc[w] # "idle"
    /\ faults < MaxFaults
    /\ faults' = faults + 1
    /\ RollbackTx(w)
    /\ Leave(w)
    /\ UNCHANGED <<clock, open>>

(* The stuck sweep survives an exception of one plan.                      *)
StuckPlanFault(w) ==
    /\ task[w] = "stuck" /\ pc[w] \in {"load", "call", "record", "commit"}
    /\ faults < MaxFaults
    /\ faults' = faults + 1
    /\ RollbackTx(w)
    /\ Goto(w, "rows")
    /\ UNCHANGED <<clock, open, task, now, todo, cur, reply>>

-----------------------------------------------------------------------------
ExecutePlan(w) == LoadPlan(w) \/ CallBroker(w) \/ RecordOutcome(w) \/ Commit(w)

Webhook(h) ==
    \/ WebhookResolve(h) \/ WebhookDecide(h) \/ ExecutePlan(h)

Sweeps(w) ==
    \/ \E p \in Plans : SweepRow(w, p) \/ StuckRow(w, p)
    \/ SweepEnd(w) \/ ExecutePlan(w)

Next ==
    \/ Tick \/ OpenOrClose
    \/ \E p \in Plans : PersistPlan(p)
    \/ \E h \in Hooks :
         \/ \E command \in {"confirm", "cancel"}, ids \in Prefixes :
              WebhookArrives(h, command, ids)
         \/ Webhook(h)
    \/ \E w \in Workers : SweepScan(w) \/ StuckScan(w) \/ Sweeps(w)
    \/ \E w \in Procs : Fault(w) \/ StuckPlanFault(w)

Spec == Init /\ [][Next]_vars

(* A running job goes on (a hung one is killed by its time limit, which is *)
(* a fault).  Beat keeps sending both sweeps, so each is taken if it is    *)
(* possible again and again, and trading days keep coming.                 *)
Fairness ==
    /\ WF_vars(Tick)
    /\ WF_vars(OpenOrClose)
    /\ \A h \in Hooks : WF_vars(Webhook(h))
    /\ \A w \in Workers : /\ WF_vars(Sweeps(w))
                          /\ SF_vars(SweepScan(w))
                          /\ SF_vars(StuckScan(w))

FairSpec == Spec /\ Fairness

-----------------------------------------------------------------------------
(* Properties                                                              *)

Optional(S) == {{}} \cup {{p} : p \in S}

Labels == {"idle", "resolve", "decide", "rows", "load", "call", "record", "commit"}

(* Types; a process has at most one plan in hand, so an ambiguous prefix   *)
(* never gets past the webhook's resolution.                               *)
TypeOK ==
    /\ clock \in 0..MaxClock /\ open \in BOOLEAN /\ faults \in 0..MaxFaults
    /\ row \in [Plans -> Row] /\ draft \in [Plans -> Row]
    /\ lock \in [Plans -> Procs \cup {Nobody}]
    /\ pc \in [Procs -> Labels]
    /\ task \in [Procs -> {"none", "confirm", "cancel", "sweep", "stuck"}]
    /\ now \in [Procs -> Nat]
    /\ todo \in [Procs -> SUBSET Plans]
    /\ cur \in [Procs -> Optional(Plans)]
    /\ reply \in [Procs -> {"none", "ok", "failed"}]
    /\ inflight \in [Procs -> SUBSET Plans]
    /\ sold \in [Plans -> Nat] /\ lost \in [Plans -> Nat]

(* A plan the user cancelled, or has not decided and whose window is open, *)
(* has no live sell order, except one whose transaction was rolled back    *)
(* or whose record lost a race.  Webhook, sweep and stuck sweep interleave *)
(* freely; the compare-and-set on PENDING_CONFIRM and the row locks are    *)
(* what keeps this true.                                                   *)
InFlight(p) == \E w \in Procs : p \in inflight[w]

CancelledUnsold ==
    \A p \in Plans :
        /\ row[p].status = "CANCELLED" => sold[p] = lost[p]
        /\ row[p].status = "PENDING_CONFIRM" /\ ~InFlight(p) => sold[p] = lost[p]

(* With the deployed single Celery worker, every order of a plan but one   *)
(* belongs to a transaction that failed: fault-free, execute_plan sells a  *)
(* plan at most once whichever of its three callers gets there first.      *)
NoDoubleSell == \A p \in Plans : sold[p] <= lost[p] + 1

(* A plan recorded as EXECUTED has an order at the broker that this record *)
(* stands for.                                                             *)
ExecutedHasOrder ==
    \A p \in Plans : row[p].status = "EXECUTED" => sold[p] > lost[p]

(* The decision and the sale of a plan commit together: no reader ever     *)
(* sees TIMEOUT_EXECUTED, and the only CONFIRMED rows are the OFF plans    *)
(* that were born so.                                                      *)
DecisionAndSaleAtomic ==
    \A p \in Plans :
        /\ row[p].status # "TIMEOUT_EXECUTED"
        /\ row[p].status = "CONFIRMED" => row[p].mode = "OFF"

(* With the single worker, no order is ever placed for a plan whose        *)
(* committed status is already settled, however old the status that        *)
(* execute_plan loaded before it called the broker.                        *)
NeverSellSettled ==
    [][\A p \in Plans : sold'[p] # sold[p] => row[p].status \notin Terminal]_vars

(* While the cancel window of a STAGED plan is open, only the user's own   *)
(* confirmation sells it.                                                  *)
EarlySaleNeedsConfirm ==
    [][\A p \in Plans :
        sold'[p] # sold[p] /\ row[p].mode = "STAGED" /\ clock <= row[p].deadline
          => \E h \in Hooks : p \in cur[h] /\ task[h] = "confirm"]_vars

(* The committed rows behave as PlanLifecycle says.                        *)
Lifecycle == INSTANCE PlanLifecycle
                 WITH st <- [p \in Plans |-> row[p].status]
ImplementsLifecycle == Lifecycle!Spec

(* Every plan is settled in the end, with any finite number of faults and  *)
(* a batch limit smaller than the backlog.                                 *)
EveryPlanSettles ==
    \A p \in Plans :
        row[p].status # "NONE" ~> row[p].status \in Terminal
=============================================================================
