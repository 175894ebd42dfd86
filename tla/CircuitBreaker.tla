--------------------------- MODULE CircuitBreaker ---------------------------
(***************************************************************************)
(* The four level circuit breaker of risk_control_service.py as it runs:   *)
(* check_circuit_breaker_sync is called by both phases of                  *)
(* run_paper_trading.py (execute at 09:31, signal at 16:30) on an          *)
(* autocommit connection, so each of its writes is visible, and survives a *)
(* crash, alone.  Administrators act meanwhile through the API (one        *)
(* transaction per request) and through scripts/approve_l4.py.             *)
(*                                                                         *)
(* Levels: 0 normal, 1 and 2 pause, 3 half position, 4 stopped.            *)
(***************************************************************************)
EXTENDS Naturals, Integers, FiniteSets

CONSTANTS Admins,      \* people or pages that issue requests
          Approvals,   \* ids of approval_queue rows
          None,        \* SQL NULL, and "nobody"
          Mode,        \* settings.EXECUTION_MODE
          L3Days,      \* CB_THRESHOLDS["l3_recovery_days"]
          L3Return,    \* CB_THRESHOLDS["l3_recovery_return"]
          Returns,     \* the daily returns told apart
          NavMayFail,  \* whether reading the account can fail of an evening
          MaxNow,      \* bound: half days
          MaxNormal,   \* bound: log rows to level 0 after which nobody resets
          MaxCrashes   \* bound: phases that die and are run again

ASSUME ConstantsAssumption ==
  /\ None \notin Approvals /\ None \notin {"execute", "signal"}
  /\ Mode \in {"paper", "live"}
  /\ L3Days \in Nat /\ L3Return \in Int /\ Returns \subseteq Int
  /\ NavMayFail \in BOOLEAN
  /\ MaxNow \in Nat /\ MaxNormal \in Nat /\ MaxCrashes \in Nat

VARIABLES now,      \* half days: odd is a morning, even an evening
          due,      \* phases the scheduler still has to start this half day
          latest,   \* newest row of performance_series; day 0: no row
          row,      \* the strategy's row of circuit_breaker_state
          status,   \* approval_queue.status
          logged,   \* rows of circuit_breaker_log, counted by new_level
          check,    \* the check each phase is running
          lock,     \* holder of the advisory lock
          admin,    \* the request each administrator has in flight
          crashes,  \* phases that died
          entered,  \* ghost: times the breaker came to each level
          granted   \* ghost: approvals given since the breaker came to 4

dbVars == <<row, status, logged>>
ghostVars == <<entered, granted>>
vars == <<now, due, latest, dbVars, check, lock, admin, crashes, ghostVars>>

Levels == 0 .. 4
Phases == {"execute", "signal"}
Day(t) == (t + 1) \div 2
PhaseOf(t) == IF t % 2 = 1 THEN "execute" ELSE "signal"

(* What a newest row of the series says: the return of its day, and the    *)
(* level that day's and the cumulative and rolling losses call for.        *)
Loss(ret) == ret < 0
SeriesRow(d) == {[day |-> d, ret |-> r, trig |-> l] : r \in Returns, l \in Levels}
Coherent(s) == s.trig \in {1, 2} => Loss(s.ret)

StateRow == [level : Levels, entered : Nat, days : Nat, ret : Int,
             appr : Approvals \cup {None}]
Idle == [pc |-> "idle"]
NoRequest == [op |-> "none", appr |-> None]

Init ==
  /\ now = 0 /\ due = {} /\ crashes = 0 /\ lock = None
  /\ latest = [day |-> 0, ret |-> 0, trig |-> 0]
  /\ row = [level |-> 0, entered |-> 0, days |-> 0, ret |-> 0, appr |-> None]
  /\ status = [a \in Approvals |-> "none"]
  /\ logged = [l \in Levels |-> 0]
  /\ check = [p \in Phases |-> Idle]
  /\ admin = [m \in Admins |-> NoRequest]
  /\ entered = [l \in Levels |-> 0] /\ granted = {}

-----------------------------------------------------------------------------
(* Writes to the state row.                                                *)

(* Faulty: the linked approval survives the upsert.                        *)
Upsert_KeepsApproval(level, day, days, ret) ==
  [level |-> level, days |-> days, ret |-> ret, appr |-> row.appr,
   entered |-> IF row.level # level THEN day ELSE row.entered]

(* The upsert keeps entered_date while the level stays, and overwrites     *)
(* approval_id: no caller passes one.                                      *)
Upsert(level, day, days, ret) ==
  [level |-> level, days |-> days, ret |-> ret, appr |-> None,
   entered |-> IF row.level # level THEN day ELSE row.entered]

Log(level) == logged' = [logged EXCEPT ![level] = @ + 1]

(* A write of the row, with the ghosts that follow its level.              *)
Write(r) ==
  /\ row' = r
  /\ entered' = IF row.level = r.level THEN entered
                ELSE [entered EXCEPT ![r.level] = @ + 1]
  /\ granted' = IF row.level # 4 /\ r.level = 4 THEN {} ELSE granted

-----------------------------------------------------------------------------
(* Time.  By the evening the day's return is in performance_series, unless *)
(* reading the account failed, which stops neither phase.                  *)
Advance ==
  /\ now < MaxNow
  /\ now' = now + 1
  /\ due' = {PhaseOf(now + 1)}
  /\ \/ /\ PhaseOf(now + 1) = "execute" \/ NavMayFail
        /\ latest' = latest
     \/ /\ PhaseOf(now + 1) = "signal"
        /\ latest' \in {s \in SeriesRow(Day(now + 1)) : Coherent(s)}
  /\ UNCHANGED <<dbVars, check, lock, admin, crashes, ghostVars>>

-----------------------------------------------------------------------------
(* One check.                                                              *)

CanStart == lock = None

(* A phase that does not get the advisory lock ends at once.  Otherwise the *)
(* check reads the series, then the state.                                 *)
StartPhase(p) ==
  /\ p \in due /\ check[p] = Idle
  /\ due' = due \ {p}
  /\ IF CanStart
     THEN /\ lock' = p
          /\ check' = [check EXCEPT ![p] =
               [pc |-> "loaded", day |-> Day(now), data |-> latest, seen |-> row]]
     ELSE UNCHANGED <<lock, check>>
  /\ UNCHANGED <<now, latest, dbVars, admin, crashes, ghostVars>>

(* Faulty: a losing day costs one day of the streak instead of all.        *)
StreakDays_Decay(seen, s) == IF s.ret > 0 THEN seen.days + 1 ELSE seen.days - 1

(* The recovery streak at level 3, this row included.                      *)
StreakDays(seen, s) == IF s.ret > 0 THEN seen.days + 1 ELSE 0
StreakReturn(seen, s) == IF s.ret > 0 THEN seen.ret + s.ret ELSE 0

Approved(seen) == seen.appr # None /\ status[seen.appr] = "approved"

Recovered(seen, s, day) ==
  \/ seen.level \in {1, 2} /\ day > seen.entered
  \/ /\ seen.level = 3
     /\ StreakDays(seen, s) >= L3Days /\ StreakReturn(seen, s) >= L3Return
  \/ seen.level = 4 /\ Approved(seen)

(* Faulty: an escalation writes the state without its log row.             *)
Onward_Unlogged(prev, trig) ==
  IF trig > prev THEN "writeEscalation"
  ELSE IF prev = 3 THEN "hold" ELSE IF prev = 0 THEN "clear" ELSE "done"

(* Where a check goes whose level is now prev and whose series calls for   *)
(* trig: up, to a rewrite of level 3 or 0, or nowhere.                     *)
Onward(prev, trig) ==
  IF trig > prev THEN "logEscalation"
  ELSE IF prev = 3 THEN "hold" ELSE IF prev = 0 THEN "clear" ELSE "done"

(* The decision; the status of the approval is read only here.             *)
Decide(p) ==
  LET c == check[p] IN
  /\ c.pc = "loaded"
  /\ check' = [check EXCEPT ![p].pc =
       IF c.data.day = 0 THEN "clear"
       ELSE IF Recovered(c.seen, c.data, c.day) THEN "logRecovery"
       ELSE Onward(c.seen.level, c.data.trig)]
  /\ UNCHANGED <<now, due, latest, dbVars, lock, admin, crashes, ghostVars>>

LogStep(p, from, level, to) ==
  /\ check[p].pc = from
  /\ Log(level)
  /\ check' = [check EXCEPT ![p].pc = to]
  /\ UNCHANGED <<now, due, latest, row, status, lock, admin, crashes, ghostVars>>

LogRecovery(p) == LogStep(p, "logRecovery", 0, "writeRecovery")
LogEscalation(p) ==
  LogStep(p, "logEscalation", check[p].data.trig, "writeEscalation")

WriteStep(p, from, r, to) ==
  /\ check[p].pc = from
  /\ Write(r)
  /\ check' = [check EXCEPT ![p].pc = to]
  /\ UNCHANGED <<now, due, latest, status, logged, lock, admin, crashes>>

WriteRecovery(p) ==
  WriteStep(p, "writeRecovery", Upsert(0, check[p].day, 0, 0),
            Onward(0, check[p].data.trig))
WriteEscalation(p) ==
  WriteStep(p, "writeEscalation",
            Upsert(check[p].data.trig, check[p].day, 0, 0), "done")

(* Level 3 kept: the row is written back with the streak.                  *)
Hold(p) ==
  LET c == check[p] IN
  WriteStep(p, "hold",
            Upsert(3, c.seen.entered, StreakDays(c.seen, c.data),
                   StreakReturn(c.seen, c.data)), "done")

Clear(p) == WriteStep(p, "clear", Upsert(0, check[p].day, 0, 0), "done")

Release(p) == check' = [check EXCEPT ![p] = Idle] /\ lock' = None

EndPhase(p) ==
  /\ check[p].pc = "done"
  /\ Release(p)
  /\ UNCHANGED <<now, due, latest, dbVars, admin, crashes, ghostVars>>

(* The process dies, its connection and advisory lock with it; the phase   *)
(* is run again.                                                           *)
Crash(p) ==
  /\ check[p] # Idle /\ crashes < MaxCrashes
  /\ crashes' = crashes + 1
  /\ due' = due \cup {p}
  /\ Release(p)
  /\ UNCHANGED <<now, latest, dbVars, admin, ghostVars>>

-----------------------------------------------------------------------------
(* Administrators.  A request that writes and then commits is one step: its *)
(* writes are seen, and its row lock freed, together.                      *)

Busy(m, r) == admin' = [admin EXCEPT ![m] = r]
Done(m) == Busy(m, NoRequest)
Free(m) == admin[m] = NoRequest

(* An API approval has updated, and so locked, the queue row.              *)
Held(a) == \E m \in Admins : admin[m] = [op |-> "approve", appr |-> a]

RequestRead(m) ==
  /\ Free(m) /\ row.level = 4
  /\ Busy(m, [op |-> "request", appr |-> None])
  /\ UNCHANGED <<now, due, latest, dbVars, check, lock, crashes, ghostVars>>

(* The UPDATE that links the approval does not look at the level again.    *)
RequestCommit(m) ==
  /\ admin[m].op = "request"
  /\ \E a \in Approvals :
       /\ status[a] = "none"
       /\ status' = [status EXCEPT ![a] = "pending"]
       /\ row' = [row EXCEPT !.appr = a]
  /\ Done(m)
  /\ UNCHANGED <<now, due, latest, logged, check, lock, crashes, ghostVars>>

Grant(a) == granted' = IF row.level = 4 THEN granted \cup {a} ELSE granted

(* The queue row is updated whatever its status; a linked one goes on to   *)
(* reset the breaker in the same transaction.                              *)
ApproveLookup(m, a) ==
  /\ Free(m) /\ status[a] # "none" /\ ~Held(a)
  /\ IF row.appr = a
     THEN Busy(m, [op |-> "approve", appr |-> a]) /\ UNCHANGED <<status, granted>>
     ELSE /\ status' = [status EXCEPT ![a] = "approved"]
          /\ Grant(a) /\ UNCHANGED admin
  /\ UNCHANGED <<now, due, latest, row, logged, check, lock, crashes, entered>>

ApproveCommit(m) ==
  /\ admin[m].op = "approve"
  /\ status' = [status EXCEPT ![admin[m].appr] = "approved"]
  /\ Write(Upsert(0, Day(now), 0, 0)) /\ Log(0)
  /\ Done(m)
  /\ UNCHANGED <<now, due, latest, check, lock, crashes>>

Reject(a) ==
  /\ status[a] # "none" /\ ~Held(a)
  /\ status' = [status EXCEPT ![a] = "rejected"]
  /\ UNCHANGED <<now, due, latest, row, logged, check, lock, admin, crashes,
                 ghostVars>>

ForceReset ==
  /\ logged[0] < MaxNormal
  /\ Write(Upsert(0, Day(now), 0, 0)) /\ Log(0)
  /\ UNCHANGED <<now, due, latest, status, check, lock, admin, crashes>>

(* approve_l4.py reads that the request is pending, then decides it.       *)
CliRead(m, a, verdict) ==
  /\ Free(m) /\ status[a] = "pending"
  /\ Busy(m, [op |-> verdict, appr |-> a])
  /\ UNCHANGED <<now, due, latest, dbVars, check, lock, crashes, ghostVars>>

CliCommit(m) ==
  LET r == admin[m] IN
  /\ r.op \in {"approved", "rejected"} /\ ~Held(r.appr)
  /\ status' = [status EXCEPT ![r.appr] = r.op]
  /\ IF r.op = "approved" THEN Grant(r.appr) ELSE UNCHANGED granted
  /\ Done(m)
  /\ UNCHANGED <<now, due, latest, row, logged, check, lock, crashes, entered>>

(* The script resets and logs the row of mode 'paper', whatever mode runs. *)
CliForceReset ==
  /\ logged[0] < MaxNormal
  /\ \A a \in Approvals : status[a] = "pending" => ~Held(a)
  /\ status' = [a \in Approvals |->
       IF status[a] = "pending" THEN "cancelled" ELSE status[a]]
  /\ IF Mode = "paper"
     THEN /\ Write([Upsert(0, Day(now), 0, 0) EXCEPT !.entered = Day(now)])
          /\ Log(0)
     ELSE UNCHANGED <<row, logged, ghostVars>>
  /\ UNCHANGED <<now, due, latest, check, lock, admin, crashes>>

-----------------------------------------------------------------------------
CheckStep(p) ==
  \/ StartPhase(p) \/ Decide(p) \/ LogRecovery(p) \/ WriteRecovery(p)
  \/ LogEscalation(p) \/ WriteEscalation(p) \/ Hold(p) \/ Clear(p)
  \/ EndPhase(p) \/ Crash(p)

AdminStep(m) ==
  \/ RequestRead(m) \/ RequestCommit(m) \/ ApproveCommit(m) \/ CliCommit(m)
  \/ \E a \in Approvals : ApproveLookup(m, a)
  \/ \E a \in Approvals, v \in {"approved", "rejected"} : CliRead(m, a, v)

Next ==
  \/ Advance \/ ForceReset \/ CliForceReset
  \/ \E p \in Phases : CheckStep(p)
  \/ \E m \in Admins : AdminStep(m)
  \/ \E a \in Approvals : Reject(a)

Spec == Init /\ [][Next]_vars
-----------------------------------------------------------------------------
(* Properties.                                                             *)

Statuses == {"none", "pending", "approved", "rejected", "cancelled"}
Running == {"loaded", "logRecovery", "writeRecovery", "logEscalation",
            "writeEscalation", "hold", "clear", "done"}
IsCheck(c) ==
  \/ c = Idle
  \/ c \in [pc : Running, day : Nat, seen : StateRow,
            data : [day : Nat, ret : Int, trig : Levels]]

Requests == {NoRequest, [op |-> "request", appr |-> None]}
            \cup [op : {"approve", "approved", "rejected"}, appr : Approvals]

(* Every variable has its type.                                            *)
TypeOK ==
  /\ now \in Nat /\ due \subseteq Phases /\ crashes \in Nat
  /\ latest \in [day : Nat, ret : Int, trig : Levels]
  /\ row \in StateRow
  /\ status \in [Approvals -> Statuses]
  /\ logged \in [Levels -> Nat] /\ entered \in [Levels -> Nat]
  /\ DOMAIN check = Phases /\ \A p \in Phases : IsCheck(check[p])
  /\ lock \in Phases \cup {None}
  /\ admin \in [Admins -> Requests]
  /\ granted \subseteq Approvals

(* The audit log covers every change of level, whatever crashes and races: *)
(* as many log rows lead to a level as the breaker has come to it.  Level 3 *)
(* is left out: a check that rewrites it upserts what it read, and undoes  *)
(* a reset committed since, with no log row.                               *)
ChangesAudited == \A l \in Levels \ {3} : entered[l] <= logged[l]

(* A check takes the breaker out of level 4 only on an approval that was   *)
(* given after the breaker came to level 4; one left over from an earlier  *)
(* stop opens nothing.                                                     *)
StopNeedsFreshApproval ==
  [][\A p \in Phases :
       row.level = 4 /\ row'.level # 4 /\ check'[p] # check[p]
         => check[p].seen.appr \in granted]_vars
=============================================================================
