---------------------------- MODULE StrategyGate ----------------------------
(***************************************************************************)
(* DBStrategyRegistry: which strategies are live, and the verdict an       *)
(* evaluation must have given before one becomes so.                       *)
(*                                                                         *)
(* A manager's transaction records verdicts and changes the status of one  *)
(* strategy; the caller commits.  A booter is a run of                     *)
(* get_live_strategies_for_risk_check, which registers its strategies in   *)
(* one transaction, reads the live ones in the next, and falls back to S1. *)
(* Reads take no locks; a written row stays locked until its transaction   *)
(* ends.                                                                   *)
(***************************************************************************)
EXTENDS Naturals, Sequences

CONSTANTS
    Strategies,
    Bundle,     \* the sequence of strategies a booter registers, S1 first
    Declared,   \* the status each strategy is registered with
    Statuses,   \* the other statuses an update may set, beside "live"
    Managers,
    Booters,
    Freshness,  \* live_eval_freshness_days
    Nobody,
    MaxTx,      \* bound: transactions of managers
    MaxDay      \* bound: days

S1 == Bundle[1]

Live == "live"

ASSUME GateAssumption ==
    /\ Bundle \in Seq(Strategies) /\ Bundle # <<>>
    /\ Live \notin Statuses /\ "none" \notin Statuses
    /\ Declared \in [Strategies -> Statuses \cup {Live}]
    /\ Managers \cap Booters = {} /\ Nobody \notin Managers \cup Booters
    /\ Freshness \in Nat /\ MaxTx \in Nat /\ MaxDay \in Nat

VARIABLES
    status,   \* strategy_registry.status, "none" without a row
    log,      \* new_status of the last row of strategy_status_log
    newest,   \* the verdict with the latest evaluated_at, or none: a set
    lock,     \* who has written the row of a strategy and not yet committed
    tx,       \* transaction of each manager
    boot,     \* where each booter is
    txs,      \* transactions of managers begun, in the order of their NOW()
    day,
    doubled,  \* strategies whose first registration was logged twice
    overlap   \* managers overtaken, since they looked, by a verdict or a day

vars == <<status, log, newest, lock, tx, boot, txs, day, doubled, overlap>>

NoTx == [step |-> "none"]

AtHome == [step |-> "idle", list |-> {S1}]

Init ==
    /\ status = [s \in Strategies |-> "none"]
    /\ log = [s \in Strategies |-> "none"]
    /\ newest = [s \in Strategies |-> {}]
    /\ lock = [s \in Strategies |-> Nobody]
    /\ tx = [m \in Managers |-> NoTx]
    /\ boot = [b \in Booters |-> AtHome]
    /\ txs = 0 /\ day = 0
    /\ doubled = {} /\ overlap = {}

Lockable_Always(s, p) == TRUE

Lockable(s, p) == lock[s] \in {Nobody, p}

-----------------------------------------------------------------------------
(* A manager's transaction                                                 *)

(* Its NOW() is that of its first statement.                               *)
Begin(m, s) ==
    /\ tx[m] = NoTx /\ txs < MaxTx
    /\ txs' = txs + 1
    /\ tx' = [tx EXCEPT ![m] = [step |-> "open", s |-> s, at |-> txs, day |-> day,
                                verdict |-> {}, status |-> "none",
                                target |-> Live]]
    /\ UNCHANGED <<status, log, newest, lock, boot, day, doubled, overlap>>

(* record_evaluation; the strategy must have a row.  The verdict comes     *)
(* before the update it is for.                                            *)
Record(m, passed) ==
    /\ tx[m].step = "open" /\ tx[m].status = "none"
    /\ status[tx[m].s] # "none"
    /\ tx' = [tx EXCEPT ![m].verdict = {[at |-> tx[m].at, day |-> tx[m].day,
                                         passed |-> passed]}]
    /\ UNCHANGED <<status, log, newest, lock, boot, txs, day, doubled, overlap>>

(* The status a manager sees: its own, if it has written one.              *)
Seen(m) == IF tx[m].status = "none" THEN status[tx[m].s] ELSE tx[m].status

(* update_status reads the status; without a row it raises, and at the     *)
(* target it returns.                                                      *)
ReadStatus(m, target) ==
    /\ tx[m].step = "open"
    /\ Seen(m) \notin {"none", target}
    /\ tx' = [tx EXCEPT ![m].step = IF target = Live THEN "gate" ELSE "write",
                        ![m].target = target]
    /\ UNCHANGED <<status, log, newest, lock, boot, txs, day, doubled, overlap>>

(* Verdicts with the latest evaluated_at.                                  *)
Latest(verdicts) == {v \in verdicts : \A w \in verdicts : w.at <= v.at}

Good_AnyAge(verdicts) == \E v \in verdicts : v.passed

(* A verdict that lets a strategy go live.                                 *)
Good(verdicts) == \E v \in verdicts : v.passed /\ day - v.day <= Freshness

(* _assert_eval_passed_for_live, or EvaluationRequired.                    *)
Gate(m) ==
    /\ tx[m].step = "gate"
    /\ tx' = [tx EXCEPT ![m].step =
                IF Good(Latest(newest[tx[m].s] \cup tx[m].verdict))
                THEN "write" ELSE "open"]
    /\ overlap' = overlap \ {m}
    /\ UNCHANGED <<status, log, newest, lock, boot, txs, day, doubled>>

(* The update waits for the row, and the log row follows it.               *)
WriteStatus(m) ==
    /\ tx[m].step = "write"
    /\ Lockable(tx[m].s, m)
    /\ lock' = [lock EXCEPT ![tx[m].s] = m]
    /\ tx' = [tx EXCEPT ![m].step = "open", ![m].target = Live,
                        ![m].status = tx[m].target]
    /\ UNCHANGED <<status, log, newest, boot, txs, day, doubled, overlap>>

EndTx(m) ==
    /\ tx' = [tx EXCEPT ![m] = NoTx]
    /\ lock' = [s \in Strategies |-> IF lock[s] = m THEN Nobody ELSE lock[s]]

(* The transactions that may have decided without the verdicts of m's.     *)
Overtaken(m) ==
    {z \in Managers \ {m} :
        tx[z] # NoTx /\ tx[z].s = tx[m].s /\ tx[m].verdict # {}}

Commit(m) ==
    /\ tx[m].step = "open"
    /\ LET s == tx[m].s IN
         /\ IF tx[m].status = "none" THEN UNCHANGED <<status, log>>
            ELSE /\ status' = [status EXCEPT ![s] = tx[m].status]
                 /\ log' = [log EXCEPT ![s] = tx[m].status]
         /\ newest' = [newest EXCEPT ![s] = Latest(@ \cup tx[m].verdict)]
         /\ overlap' = (overlap \cup Overtaken(m)) \ {m}
    /\ EndTx(m)
    /\ UNCHANGED <<boot, txs, day, doubled>>

(* The caller rolls back, or dies.                                         *)
Rollback(m) ==
    /\ tx[m] # NoTx
    /\ EndTx(m)
    /\ overlap' = overlap \ {m}
    /\ UNCHANGED <<status, log, newest, boot, txs, day, doubled>>

-----------------------------------------------------------------------------
(* get_live_strategies_for_risk_check                                      *)

(* register reads whether the strategy has a row.                          *)
Look(b, i, fresh) ==
    boot' = [boot EXCEPT ![b] = [step |-> "upsert", i |-> i, fresh |-> fresh,
                                 first |-> status[Bundle[i]] = "none"]]

StartBoot(b) ==
    /\ boot[b].step = "idle"
    /\ Look(b, 1, {})
    /\ UNCHANGED <<status, log, newest, lock, tx, txs, day, doubled, overlap>>

(* The upsert waits for the row and leaves its status alone; the first     *)
(* registration is logged, on the strength of the read.                    *)
Upsert(b) ==
    /\ boot[b].step = "upsert"
    /\ LET i == boot[b].i
           s == Bundle[i]
           fresh == boot[b].fresh \cup (IF boot[b].first THEN {s} ELSE {})
       IN /\ Lockable(s, b)
          /\ lock' = [lock EXCEPT ![s] = b]
          /\ doubled' = IF boot[b].first /\ status[s] # "none"
                        THEN doubled \cup {s} ELSE doubled
          /\ IF i < Len(Bundle) THEN Look(b, i + 1, fresh)
             ELSE boot' = [boot EXCEPT ![b] = [step |-> "commit", fresh |-> fresh]]
    /\ UNCHANGED <<status, log, newest, tx, txs, day, overlap>>

Unlock(b) ==
    lock' = [s \in Strategies |-> IF lock[s] = b THEN Nobody ELSE lock[s]]

Stored_Overwritten(b, s) == IF s \in {Bundle[i] : i \in 1..Len(Bundle)}
                            THEN Declared[s] ELSE status[s]

(* ON CONFLICT keeps the status.                                           *)
Stored(b, s) == IF s \in boot[b].fresh /\ status[s] = "none"
                THEN Declared[s] ELSE status[s]

CommitBoot(b) ==
    /\ boot[b].step = "commit"
    /\ status' = [s \in Strategies |-> Stored(b, s)]
    /\ log' = [s \in Strategies |-> IF s \in boot[b].fresh THEN Declared[s]
                                                           ELSE log[s]]
    /\ Unlock(b)
    /\ boot' = [boot EXCEPT ![b] = [step |-> "list"]]
    /\ UNCHANGED <<newest, tx, txs, day, doubled, overlap>>

(* get_live raises for a live strategy that was not registered.  That, and *)
(* having none, leaves S1 alone.                                           *)
List(b) ==
    /\ boot[b].step = "list"
    /\ LET live == {s \in Strategies : status[s] = Live}
           known == {Bundle[i] : i \in 1..Len(Bundle)}
       IN boot' = [boot EXCEPT ![b] =
                     [step |-> "idle",
                      list |-> IF live # {} /\ live \subseteq known
                               THEN live ELSE {S1}]]
    /\ UNCHANGED <<status, log, newest, lock, tx, txs, day, doubled, overlap>>

(* Any exception: rolled back, and S1 alone.                               *)
FailBoot(b) ==
    /\ boot[b].step # "idle"
    /\ boot' = [boot EXCEPT ![b] = AtHome]
    /\ Unlock(b)
    /\ UNCHANGED <<status, log, newest, tx, txs, day, doubled, overlap>>

-----------------------------------------------------------------------------
NextDay ==
    /\ day < MaxDay
    /\ day' = day + 1
    /\ overlap' = overlap \cup {m \in Managers : tx[m] # NoTx}
    /\ UNCHANGED <<status, log, newest, lock, tx, boot, txs, doubled>>

Next ==
    \/ NextDay
    \/ \E m \in Managers :
         \/ \E s \in Strategies : Begin(m, s)
         \/ \E passed \in BOOLEAN : Record(m, passed)
         \/ \E target \in Statuses \cup {Live} : ReadStatus(m, target)
         \/ Gate(m) \/ WriteStatus(m) \/ Commit(m) \/ Rollback(m)
    \/ \E b \in Booters :
         StartBoot(b) \/ Upsert(b) \/ CommitBoot(b) \/ List(b) \/ FailBoot(b)

Spec == Init /\ [][Next]_vars

-----------------------------------------------------------------------------
(* Properties                                                              *)

Known == Statuses \cup {Live}

Verdicts == [at : Nat, day : Nat, passed : BOOLEAN]

Transactions ==
    {NoTx} \cup [step : {"open", "gate", "write"}, s : Strategies, at : Nat,
                 day : Nat, verdict : SUBSET Verdicts,
                 status : Known \cup {"none"}, target : Known]

Boots == [step : {"idle"}, list : SUBSET Strategies]
    \cup [step : {"upsert"}, i : 1..Len(Bundle), fresh : SUBSET Strategies,
          first : BOOLEAN]
    \cup [step : {"commit"}, fresh : SUBSET Strategies]
    \cup [step : {"list"}]

(* Types; a transaction that has written a status holds the row's lock.    *)
TypeOK ==
    /\ status \in [Strategies -> Known \cup {"none"}]
    /\ log \in [Strategies -> Known \cup {"none"}]
    /\ newest \in [Strategies -> SUBSET Verdicts]
    /\ lock \in [Strategies -> Managers \cup Booters \cup {Nobody}]
    /\ tx \in [Managers -> Transactions]
    /\ boot \in [Booters -> Boots]
    /\ txs \in 0..MaxTx /\ day \in 0..MaxDay
    /\ doubled \subseteq Strategies /\ overlap \subseteq Managers
    /\ \A m \in Managers :
         tx[m] # NoTx /\ tx[m].status # "none" => lock[tx[m].s] = m

(* The status log ends in the status, unless two first registrations       *)
(* overlapped: the second logs the declared status, whatever has become of *)
(* it since.                                                               *)
LogEndsInStatus ==
    \A s \in Strategies : log[s] = status[s] \/ s \in doubled

(* A strategy goes live with a fresh verdict that passed as its newest one,*)
(* or because its class declares it live when it is first registered, or   *)
(* because another transaction of the strategy, or the end of the day,     *)
(* overtook the one that had looked at the verdict.                        *)
GoesLiveEvaluated ==
    [][\A s \in Strategies :
         status[s] # Live /\ status'[s] = Live =>
            \/ \E v \in newest'[s] : v.passed /\ day - v.day <= Freshness
            \/ status[s] = "none" /\ Declared[s] = Live
            \/ \E m \in overlap : tx[m].s = s]_vars
=============================================================================
