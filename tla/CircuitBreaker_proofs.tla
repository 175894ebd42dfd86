------------------------ MODULE CircuitBreaker_proofs ------------------------
(***************************************************************************)
(* Proofs about CircuitBreaker, for any number of administrators, requests *)
(* and crashes, any returns and any recovery thresholds.                   *)
(***************************************************************************)
EXTENDS CircuitBreaker, TLAPS

Active(p) == check[p] # Idle

(* The advisory lock keeps two checks apart.                               *)
LockInv == \A p \in Phases : Active(p) => lock = p

(* Until the series has a row, no level but normal has been written.       *)
SeriesInv ==
  /\ latest.day = 0 => row.level = 0
  /\ \A p \in Phases : Active(p) =>
       /\ latest.day = 0 => check[p].data.day = 0
       /\ check[p].data.day = 0 => row.level = 0 /\ check[p].pc \in {"loaded", "clear", "done"}

(* A log row is written before the level it announces.                     *)
AuditInv ==
  /\ ChangesAudited
  /\ \A p \in Phases :
       /\ check[p].pc = "writeRecovery" => entered[0] < logged[0]
       /\ check[p].pc = "writeEscalation" /\ check[p].data.trig # 3
            => entered[check[p].data.trig] < logged[check[p].data.trig]
       /\ check[p].pc = "clear" => row.level = 0
       /\ check[p].pc = "loaded" /\ check[p].seen.level = 0 => row.level = 0

(* While a check runs, nobody else brings the breaker to level 4, and only *)
(* a fresh approval sends the check on a way that leaves level 4.          *)
StopInv ==
  /\ row.level = 4 /\ row.appr # None /\ status[row.appr] = "approved"
       => row.appr \in granted
  /\ \A p \in Phases : row.level = 4 =>
       /\ check[p].pc \in {"loaded", "logRecovery", "writeRecovery"}
            => check[p].seen.level = 4
       /\ check[p].pc = "loaded" /\ Approved(check[p].seen)
            => check[p].seen.appr \in granted
       /\ check[p].pc \in {"logRecovery", "writeRecovery"}
            => check[p].seen.appr \in granted
       /\ check[p].pc \notin {"logEscalation", "writeEscalation", "hold", "clear"}

IInv == TypeOK /\ LockInv /\ SeriesInv /\ AuditInv /\ StopInv
-----------------------------------------------------------------------------
LEMMA DayType == \A t \in Nat : Day(t) \in Nat /\ (t >= 1 => Day(t) >= 1)
BY DEF Day

LEMMA InitIInv == Init => IInv
BY ConstantsAssumption
   DEF Init, IInv, TypeOK, LockInv, SeriesInv, AuditInv, ChangesAudited, StopInv,
       IsCheck, Idle, Active, StateRow, Levels, Phases, Statuses, NoRequest, Requests

LEMMA StepAdvance ==
  ASSUME IInv, Advance
  PROVE  IInv'
<1> USE ConstantsAssumption, DayType DEF IInv, Advance, dbVars, ghostVars, SeriesRow, PhaseOf, Phases
<1>1. TypeOK'
      BY DEF TypeOK, IsCheck, StateRow, Idle, Levels, Statuses
<1>2. LockInv'
      BY DEF TypeOK, IsCheck, LockInv, Active, Idle
<1>3. SeriesInv'
      BY DEF TypeOK, IsCheck, StateRow, LockInv, SeriesInv, AuditInv, Active, Idle
<1>4. AuditInv'
      BY DEF TypeOK, IsCheck, StateRow, LockInv, AuditInv, ChangesAudited, SeriesInv, Active, Idle, Levels
<1>5. StopInv'
      BY DEF TypeOK, IsCheck, StateRow, LockInv, SeriesInv, AuditInv, StopInv, Approved, Active, Idle, Levels
<1> QED BY <1>1, <1>2, <1>3, <1>4, <1>5

LEMMA StepStart ==
  ASSUME IInv, NEW p \in Phases, StartPhase(p)
  PROVE  IInv'
<1> USE ConstantsAssumption, DayType DEF IInv, StartPhase, CanStart, Phases, dbVars, ghostVars, Running
<1>1. TypeOK'
  <2>1. CASE lock = None
    <3>1. IsCheck([pc |-> "loaded", day |-> Day(now), data |-> latest, seen |-> row])
          BY DEF TypeOK, IsCheck
    <3> QED BY <2>1, <3>1 DEF TypeOK, IsCheck, Statuses
  <2>2. CASE lock # None
    <3>1. check' = check /\ lock' = lock /\ due' \subseteq Phases
          BY <2>2 DEF TypeOK
    <3> QED BY <3>1 DEF TypeOK, IsCheck
  <2> QED BY <2>1, <2>2
<1>2. LockInv'
      BY DEF TypeOK, IsCheck, LockInv, Active, Idle
<1>3. SeriesInv'
      BY DEF TypeOK, IsCheck, StateRow, LockInv, SeriesInv, AuditInv, Active, Idle
<1>4. AuditInv'
      BY DEF TypeOK, IsCheck, StateRow, LockInv, AuditInv, ChangesAudited, SeriesInv, Active, Idle, Levels
<1>5. StopInv'
      BY DEF TypeOK, IsCheck, StateRow, LockInv, SeriesInv, AuditInv, StopInv, Approved, Active, Idle, Levels
<1> QED BY <1>1, <1>2, <1>3, <1>4, <1>5

LEMMA StepDecide ==
  ASSUME IInv, NEW p \in Phases, Decide(p)
  PROVE  IInv'
<1> USE ConstantsAssumption, DayType DEF IInv, Decide, dbVars, ghostVars, Recovered, Onward, Running
<1>1. TypeOK'
  <2>1. PICK to \in Running : check' = [check EXCEPT ![p].pc = to]
        OBVIOUS
  <2>2. check[p].pc = "loaded" /\ IsCheck(check[p]) /\ DOMAIN check = Phases
        BY DEF TypeOK
  <2>3. IsCheck([check[p] EXCEPT !.pc = to])
        BY <2>1, <2>2 DEF IsCheck, Idle
  <2>4. DOMAIN check' = Phases /\ \A q \in Phases : IsCheck(check[q])'
    <3> HIDE DEF Running
    <3>1. check'[p] = [check[p] EXCEPT !.pc = to]
          /\ \A q \in Phases \ {p} : check'[q] = check[q]
          BY <2>1, <2>2
    <3> QED BY <2>1, <2>2, <2>3, <3>1 DEF TypeOK, IsCheck
  <2> QED BY <2>4 DEF TypeOK
<1>2. LockInv'
      BY DEF TypeOK, IsCheck, LockInv, Active, Idle
<1>3. SeriesInv'
      BY DEF TypeOK, IsCheck, StateRow, LockInv, SeriesInv, AuditInv, Active, Idle
<1>4. AuditInv'
      BY DEF TypeOK, IsCheck, StateRow, LockInv, AuditInv, ChangesAudited, SeriesInv, Active, Idle, Levels
<1>5. StopInv'
      BY DEF TypeOK, IsCheck, StateRow, LockInv, SeriesInv, AuditInv, StopInv, Approved, Active, Idle, Levels
<1> QED BY <1>1, <1>2, <1>3, <1>4, <1>5

LEMMA StepLogRecovery ==
  ASSUME IInv, NEW p \in Phases, LogRecovery(p)
  PROVE  IInv'
<1> USE ConstantsAssumption, DayType DEF IInv, LogRecovery, LogStep, Log, ghostVars, Running
<1>1. TypeOK'
      BY DEF TypeOK, IsCheck, StateRow, Idle, Levels, Statuses
<1>2. LockInv'
      BY DEF TypeOK, IsCheck, LockInv, Active, Idle
<1>3. SeriesInv'
      BY DEF TypeOK, IsCheck, StateRow, LockInv, SeriesInv, AuditInv, Active, Idle
<1>4. AuditInv'
      BY DEF TypeOK, IsCheck, StateRow, LockInv, AuditInv, ChangesAudited, SeriesInv, Active, Idle, Levels
<1>5. StopInv'
      BY DEF TypeOK, IsCheck, StateRow, LockInv, SeriesInv, AuditInv, StopInv, Approved, Active, Idle, Levels
<1> QED BY <1>1, <1>2, <1>3, <1>4, <1>5

LEMMA StepLogEscalation ==
  ASSUME IInv, NEW p \in Phases, LogEscalation(p)
  PROVE  IInv'
<1> USE ConstantsAssumption, DayType DEF IInv, LogEscalation, LogStep, Log, ghostVars, Running
<1>1. TypeOK'
      BY DEF TypeOK, IsCheck, StateRow, Idle, Levels, Statuses
<1>2. LockInv'
      BY DEF TypeOK, IsCheck, LockInv, Active, Idle
<1>3. SeriesInv'
      BY DEF TypeOK, IsCheck, StateRow, LockInv, SeriesInv, AuditInv, Active, Idle
<1>4. AuditInv'
      BY DEF TypeOK, IsCheck, StateRow, LockInv, AuditInv, ChangesAudited, SeriesInv, Active, Idle, Levels
<1>5. StopInv'
      BY DEF TypeOK, IsCheck, StateRow, LockInv, SeriesInv, AuditInv, StopInv, Approved, Active, Idle, Levels
<1> QED BY <1>1, <1>2, <1>3, <1>4, <1>5

LEMMA StepWriteRecovery ==
  ASSUME IInv, NEW p \in Phases, WriteRecovery(p)
  PROVE  IInv'
<1> USE ConstantsAssumption, DayType DEF IInv, WriteRecovery, Onward, WriteStep, Write, Upsert, Running
<1>1. TypeOK'
      BY DEF TypeOK, IsCheck, StateRow, Idle, Levels, Statuses
<1>2. LockInv'
      BY DEF TypeOK, IsCheck, LockInv, Active, Idle
<1>3. SeriesInv'
      BY DEF TypeOK, IsCheck, StateRow, LockInv, SeriesInv, AuditInv, Active, Idle
<1>4. AuditInv'
      BY DEF TypeOK, IsCheck, StateRow, LockInv, AuditInv, ChangesAudited, SeriesInv, Active, Idle, Levels
<1>5. StopInv'
      BY DEF TypeOK, IsCheck, StateRow, LockInv, SeriesInv, AuditInv, StopInv, Approved, Active, Idle, Levels
<1> QED BY <1>1, <1>2, <1>3, <1>4, <1>5

LEMMA StepWriteEscalation ==
  ASSUME IInv, NEW p \in Phases, WriteEscalation(p)
  PROVE  IInv'
<1> USE ConstantsAssumption, DayType DEF IInv, WriteEscalation, WriteStep, Write, Upsert, Running
<1>1. TypeOK'
      BY DEF TypeOK, IsCheck, StateRow, Idle, Levels, Statuses
<1>2. LockInv'
      BY DEF TypeOK, IsCheck, LockInv, Active, Idle
<1>3. SeriesInv'
      BY DEF TypeOK, IsCheck, StateRow, LockInv, SeriesInv, AuditInv, Active, Idle
<1>4. AuditInv'
      BY DEF TypeOK, IsCheck, StateRow, LockInv, AuditInv, ChangesAudited, SeriesInv, Active, Idle, Levels
<1>5. StopInv'
      BY DEF TypeOK, IsCheck, StateRow, LockInv, SeriesInv, AuditInv, StopInv, Approved, Active, Idle, Levels
<1> QED BY <1>1, <1>2, <1>3, <1>4, <1>5

LEMMA StepHold ==
  ASSUME IInv, NEW p \in Phases, Hold(p)
  PROVE  IInv'
<1> USE ConstantsAssumption, DayType DEF IInv, Hold, StreakDays, StreakReturn, WriteStep, Write, Upsert, Running
<1>1. TypeOK'
      BY DEF TypeOK, IsCheck, StateRow, Idle, Levels, Statuses
<1>2. LockInv'
      BY DEF TypeOK, IsCheck, LockInv, Active, Idle
<1>3. SeriesInv'
      BY DEF TypeOK, IsCheck, StateRow, LockInv, SeriesInv, AuditInv, Active, Idle
<1>4. AuditInv'
      BY DEF TypeOK, IsCheck, StateRow, LockInv, AuditInv, ChangesAudited, SeriesInv, Active, Idle, Levels
<1>5. StopInv'
      BY DEF TypeOK, IsCheck, StateRow, LockInv, SeriesInv, AuditInv, StopInv, Approved, Active, Idle, Levels
<1> QED BY <1>1, <1>2, <1>3, <1>4, <1>5

LEMMA StepClear ==
  ASSUME IInv, NEW p \in Phases, Clear(p)
  PROVE  IInv'
<1> USE ConstantsAssumption, DayType DEF IInv, Clear, WriteStep, Write, Upsert, Running
<1>1. TypeOK'
      BY DEF TypeOK, IsCheck, StateRow, Idle, Levels, Statuses
<1>2. LockInv'
      BY DEF TypeOK, IsCheck, LockInv, Active, Idle
<1>3. SeriesInv'
      BY DEF TypeOK, IsCheck, StateRow, LockInv, SeriesInv, AuditInv, Active, Idle
<1>4. AuditInv'
      BY DEF TypeOK, IsCheck, StateRow, LockInv, AuditInv, ChangesAudited, SeriesInv, Active, Idle, Levels
<1>5. StopInv'
      BY DEF TypeOK, IsCheck, StateRow, LockInv, SeriesInv, AuditInv, StopInv, Approved, Active, Idle, Levels
<1> QED BY <1>1, <1>2, <1>3, <1>4, <1>5

LEMMA StepRelease ==
  ASSUME IInv, NEW p \in Phases, EndPhase(p) \/ Crash(p)
  PROVE  IInv'
<1> USE ConstantsAssumption, DayType DEF IInv, EndPhase, Crash, Release, dbVars, ghostVars
<1>1. TypeOK'
  <2>1. ASSUME NEW q \in Phases PROVE IsCheck(check'[q])
        BY <2>1 DEF TypeOK, IsCheck
  <2>2. due' \subseteq Phases /\ crashes' \in Nat /\ lock' = None
        BY DEF TypeOK
  <2>3. DOMAIN check' = Phases
        BY DEF TypeOK
  <2> QED BY <2>1, <2>2, <2>3 DEF TypeOK, IsCheck
<1>2. LockInv'
      BY DEF TypeOK, IsCheck, LockInv, Active, Idle
<1>3. SeriesInv'
      BY DEF TypeOK, IsCheck, StateRow, LockInv, SeriesInv, AuditInv, Active, Idle
<1>4. AuditInv'
      BY DEF TypeOK, IsCheck, StateRow, LockInv, AuditInv, ChangesAudited, SeriesInv, Active, Idle, Levels
<1>5. StopInv'
      BY DEF TypeOK, IsCheck, StateRow, LockInv, SeriesInv, AuditInv, StopInv, Approved, Active, Idle, Levels
<1> QED BY <1>1, <1>2, <1>3, <1>4, <1>5

LEMMA StepRead ==
  ASSUME IInv, NEW m \in Admins, NEW a \in Approvals, NEW v \in {"approved", "rejected"},
         RequestRead(m) \/ CliRead(m, a, v)
  PROVE  IInv'
<1> USE ConstantsAssumption, DayType DEF IInv, RequestRead, CliRead, Busy, dbVars, ghostVars
<1>1. TypeOK'
  <2>1. /\ [op |-> "request", appr |-> None] \in Requests
        /\ [op |-> v, appr |-> a] \in Requests
        BY DEF Requests
  <2> QED BY <2>1 DEF TypeOK
<1>2. LockInv'
      BY DEF TypeOK, IsCheck, LockInv, Active, Idle
<1>3. SeriesInv'
      BY DEF TypeOK, IsCheck, StateRow, LockInv, SeriesInv, AuditInv, Active, Idle
<1>4. AuditInv'
      BY DEF TypeOK, IsCheck, StateRow, LockInv, AuditInv, ChangesAudited, SeriesInv, Active, Idle, Levels
<1>5. StopInv'
      BY DEF TypeOK, IsCheck, StateRow, LockInv, SeriesInv, AuditInv, StopInv, Approved, Active, Idle, Levels
<1> QED BY <1>1, <1>2, <1>3, <1>4, <1>5

LEMMA StepRequestCommit ==
  ASSUME IInv, NEW m \in Admins, RequestCommit(m)
  PROVE  IInv'
<1> USE ConstantsAssumption, DayType DEF IInv, RequestCommit, Done, Busy, NoRequest, ghostVars
<1>1. TypeOK'
      BY DEF TypeOK, StateRow, Levels, Statuses, Requests
<1>2. LockInv'
      BY DEF TypeOK, IsCheck, LockInv, Active, Idle
<1>3. SeriesInv'
      BY DEF TypeOK, IsCheck, StateRow, LockInv, SeriesInv, AuditInv, Active, Idle
<1>4. AuditInv'
      BY DEF TypeOK, IsCheck, StateRow, LockInv, AuditInv, ChangesAudited, SeriesInv, Active, Idle, Levels
<1>5. StopInv'
      BY DEF TypeOK, IsCheck, StateRow, LockInv, SeriesInv, AuditInv, StopInv, Approved, Active, Idle, Levels
<1> QED BY <1>1, <1>2, <1>3, <1>4, <1>5

LEMMA StepLookup ==
  ASSUME IInv, NEW m \in Admins, NEW a \in Approvals, ApproveLookup(m, a)
  PROVE  IInv'
<1> USE ConstantsAssumption, DayType DEF IInv, ApproveLookup, Busy, Grant
<1>1. TypeOK'
  <2>1. [op |-> "approve", appr |-> a] \in Requests
        BY DEF Requests
  <2> QED BY <2>1 DEF TypeOK, Statuses
<1>2. LockInv'
      BY DEF TypeOK, IsCheck, LockInv, Active, Idle
<1>3. SeriesInv'
      BY DEF TypeOK, IsCheck, StateRow, LockInv, SeriesInv, AuditInv, Active, Idle
<1>4. AuditInv'
      BY DEF TypeOK, IsCheck, StateRow, LockInv, AuditInv, ChangesAudited, SeriesInv, Active, Idle, Levels
<1>5. StopInv'
      BY DEF TypeOK, IsCheck, StateRow, LockInv, SeriesInv, AuditInv, StopInv, Approved, Active, Idle, Levels
<1> QED BY <1>1, <1>2, <1>3, <1>4, <1>5

LEMMA StepApproveCommit ==
  ASSUME IInv, NEW m \in Admins, ApproveCommit(m)
  PROVE  IInv'
<1> USE ConstantsAssumption, DayType DEF IInv, ApproveCommit, Done, Busy, NoRequest, Log, Write, Upsert
<1>1. TypeOK'
  <2>1. NoRequest \in Requests
        BY DEF Requests
  <2>2. row' \in StateRow
        BY DEF TypeOK, StateRow, Levels
  <2>5. status' \in [Approvals -> Statuses]
        BY DEF TypeOK, Statuses
  <2>3. /\ logged' \in [Levels -> Nat] /\ entered' \in [Levels -> Nat]
        /\ granted' \subseteq Approvals
        BY DEF TypeOK, StateRow, Levels
  <2>4. admin' \in [Admins -> Requests]
        BY <2>1 DEF TypeOK
  <2> QED BY <2>2, <2>3, <2>4, <2>5 DEF TypeOK
<1>2. LockInv'
      BY DEF TypeOK, IsCheck, LockInv, Active, Idle
<1>3. SeriesInv'
      BY DEF TypeOK, IsCheck, StateRow, LockInv, SeriesInv, AuditInv, Active, Idle
<1>4. AuditInv'
      BY DEF TypeOK, IsCheck, StateRow, LockInv, AuditInv, ChangesAudited, SeriesInv, Active, Idle, Levels
<1>5. StopInv'
      BY DEF TypeOK, IsCheck, StateRow, LockInv, SeriesInv, AuditInv, StopInv, Approved, Active, Idle, Levels
<1> QED BY <1>1, <1>2, <1>3, <1>4, <1>5

LEMMA StepReject ==
  ASSUME IInv, NEW a \in Approvals, Reject(a)
  PROVE  IInv'
<1> USE ConstantsAssumption, DayType DEF IInv, Reject, ghostVars
<1>1. TypeOK'
      BY DEF TypeOK, IsCheck, StateRow, Idle, Levels, Statuses
<1>2. LockInv'
      BY DEF TypeOK, IsCheck, LockInv, Active, Idle
<1>3. SeriesInv'
      BY DEF TypeOK, IsCheck, StateRow, LockInv, SeriesInv, AuditInv, Active, Idle
<1>4. AuditInv'
      BY DEF TypeOK, IsCheck, StateRow, LockInv, AuditInv, ChangesAudited, SeriesInv, Active, Idle, Levels
<1>5. StopInv'
      BY DEF TypeOK, IsCheck, StateRow, LockInv, SeriesInv, AuditInv, StopInv, Approved, Active, Idle, Levels
<1> QED BY <1>1, <1>2, <1>3, <1>4, <1>5

LEMMA StepForceReset ==
  ASSUME IInv, ForceReset
  PROVE  IInv'
<1> USE ConstantsAssumption, DayType DEF IInv, ForceReset, Log, Write, Upsert
<1>1. TypeOK'
      BY DEF TypeOK, IsCheck, StateRow, Idle, Levels, Statuses
<1>2. LockInv'
      BY DEF TypeOK, IsCheck, LockInv, Active, Idle
<1>3. SeriesInv'
      BY DEF TypeOK, IsCheck, StateRow, LockInv, SeriesInv, AuditInv, Active, Idle
<1>4. AuditInv'
      BY DEF TypeOK, IsCheck, StateRow, LockInv, AuditInv, ChangesAudited, SeriesInv, Active, Idle, Levels
<1>5. StopInv'
      BY DEF TypeOK, IsCheck, StateRow, LockInv, SeriesInv, AuditInv, StopInv, Approved, Active, Idle, Levels
<1> QED BY <1>1, <1>2, <1>3, <1>4, <1>5

LEMMA StepCliCommit ==
  ASSUME IInv, NEW m \in Admins, CliCommit(m)
  PROVE  IInv'
<1> USE ConstantsAssumption, DayType DEF IInv, CliCommit, Done, Busy, NoRequest, Grant
<1>1. TypeOK'
  <2>1. admin[m] \in Requests /\ NoRequest \in Requests
        BY DEF TypeOK, Requests
  <2>2. admin[m].appr \in Approvals
        BY <2>1 DEF Requests
  <2>3. status' \in [Approvals -> Statuses] /\ granted' \subseteq Approvals
        BY <2>2 DEF TypeOK, Statuses
  <2>4. admin' \in [Admins -> Requests]
        BY <2>1 DEF TypeOK
  <2> QED BY <2>3, <2>4 DEF TypeOK
<1>2. LockInv'
      BY DEF TypeOK, IsCheck, LockInv, Active, Idle
<1>3. SeriesInv'
      BY DEF TypeOK, IsCheck, StateRow, LockInv, SeriesInv, AuditInv, Active, Idle
<1>4. AuditInv'
      BY DEF TypeOK, IsCheck, StateRow, LockInv, AuditInv, ChangesAudited, SeriesInv, Active, Idle, Levels
<1>5. StopInv'
      BY DEF TypeOK, IsCheck, StateRow, LockInv, SeriesInv, AuditInv, StopInv, Approved, Active, Idle, Levels
<1> QED BY <1>1, <1>2, <1>3, <1>4, <1>5

LEMMA StepCliForceReset ==
  ASSUME IInv, CliForceReset
  PROVE  IInv'
<1> USE ConstantsAssumption, DayType DEF IInv, CliForceReset, Log, Write, Upsert, ghostVars
<1>1. TypeOK'
      BY DEF TypeOK, IsCheck, StateRow, Idle, Levels, Statuses
<1>2. LockInv'
      BY DEF TypeOK, IsCheck, LockInv, Active, Idle
<1>3. SeriesInv'
      BY DEF TypeOK, IsCheck, StateRow, LockInv, SeriesInv, AuditInv, Active, Idle
<1>4. AuditInv'
      BY DEF TypeOK, IsCheck, StateRow, LockInv, AuditInv, ChangesAudited, SeriesInv, Active, Idle, Levels
<1>5. StopInv'
      BY DEF TypeOK, IsCheck, StateRow, LockInv, SeriesInv, AuditInv, StopInv, Approved, Active, Idle, Levels
<1> QED BY <1>1, <1>2, <1>3, <1>4, <1>5

LEMMA StepIInv ==
  ASSUME IInv, [Next]_vars
  PROVE  IInv'
<1>1. ASSUME NEW p \in Phases, CheckStep(p) PROVE IInv'
      BY <1>1, StepStart, StepDecide, StepLogRecovery, StepLogEscalation,
         StepWriteRecovery, StepWriteEscalation, StepHold, StepClear, StepRelease
         DEF CheckStep
<1>2. ASSUME NEW m \in Admins, AdminStep(m) PROVE IInv'
  <2>1. CASE RequestRead(m)
    <3>1. IInv' \/ Approvals = {}
          BY <2>1, StepRead
    <3>2. CASE Approvals = {}
      <4>1. [op |-> "request", appr |-> None] \in Requests
            BY DEF Requests
      <4>2. TypeOK'
            BY <2>1, <4>1 DEF IInv, TypeOK, RequestRead, Busy, dbVars, ghostVars, IsCheck
      <4> QED BY <2>1, <4>2 DEF IInv, RequestRead, Busy, dbVars, ghostVars, LockInv,
                      SeriesInv, AuditInv, ChangesAudited, StopInv, Approved, Active
    <3> QED BY <3>1, <3>2
  <2> QED BY <1>2, <2>1, StepRead, StepRequestCommit, StepLookup, StepApproveCommit,
             StepCliCommit DEF AdminStep
<1>3. CASE UNCHANGED vars
      BY <1>3 DEF vars, dbVars, ghostVars, IInv, TypeOK, IsCheck, LockInv, SeriesInv,
                  AuditInv, ChangesAudited, StopInv, Approved, Active
<1> QED BY <1>1, <1>2, <1>3, StepAdvance, StepForceReset, StepCliForceReset, StepReject
        DEF Next

LEMMA Invariance == Spec => []IInv
<1>1. Init => IInv
      BY InitIInv
<1>2. IInv /\ [Next]_vars => IInv'
      BY StepIInv
<1> QED BY <1>1, <1>2, PTL DEF Spec

-----------------------------------------------------------------------------
(* Every variable keeps its type.                                          *)
THEOREM TypeCorrect == Spec => []TypeOK
<1>1. IInv => TypeOK
      BY DEF IInv
<1> QED BY <1>1, Invariance, PTL

(* Whatever dies and whoever interferes, the log has a row for every time  *)
(* the breaker came to a level other than 3.                               *)
THEOREM ChangesAuditedCorrect == Spec => []ChangesAudited
<1>1. IInv => ChangesAudited
      BY DEF IInv, AuditInv
<1> QED BY <1>1, Invariance, PTL

(* A check that takes the breaker out of level 4 is about to write the     *)
(* recovery, so an approval given since it came to level 4 sent it there.  *)
LEMMA LeavingStop ==
  ASSUME IInv, [Next]_vars, NEW p \in Phases,
         row.level = 4, row'.level # 4, check'[p] # check[p]
  PROVE  check[p].seen.appr \in granted
<1> SUFFICES ASSUME check[p].pc # "writeRecovery" PROVE FALSE
    BY DEF IInv, StopInv
<1>1. ASSUME NEW q \in Phases, CheckStep(q) PROVE FALSE
  <2>1. q = p
        BY <1>1 DEF CheckStep, StartPhase, Decide, LogRecovery, LogEscalation, LogStep,
           WriteRecovery, WriteEscalation, Hold, Clear, WriteStep, EndPhase, Crash,
           Release, IInv, TypeOK
  <2>2. \/ WriteRecovery(q) \/ WriteEscalation(q) \/ Hold(q) \/ Clear(q)
        BY <1>1 DEF CheckStep, StartPhase, Decide, LogRecovery, LogEscalation, LogStep,
           EndPhase, Crash, dbVars
  <2> QED BY <2>1, <2>2 DEF WriteRecovery, WriteEscalation, Hold, Clear, WriteStep,
             IInv, StopInv
<1>2. ASSUME check' = check PROVE FALSE
      BY <1>2
<1>3. ASSUME NEW m \in Admins, AdminStep(m) PROVE FALSE
      BY <1>3 DEF AdminStep, RequestRead, RequestCommit, ApproveCommit, CliCommit,
                  ApproveLookup, CliRead
<1>4. (Advance \/ ForceReset \/ CliForceReset \/ UNCHANGED vars) => check' = check
      BY DEF Advance, ForceReset, CliForceReset, vars
<1>5. ASSUME NEW a \in Approvals, Reject(a) PROVE FALSE
      BY <1>5 DEF Reject
<1> QED BY <1>1, <1>2, <1>3, <1>4, <1>5 DEF Next

(* An approval left over from an earlier stop never lets a check end the   *)
(* present one.                                                            *)
THEOREM StopNeedsFreshApprovalCorrect == Spec => StopNeedsFreshApproval
<1>1. IInv /\ [Next]_vars =>
        [\A p \in Phases :
           row.level = 4 /\ row'.level # 4 /\ check'[p] # check[p]
             => check[p].seen.appr \in granted]_vars
      BY LeavingStop
<1> QED BY <1>1, Invariance, PTL DEF Spec, StopNeedsFreshApproval

-----------------------------------------------------------------------------
(* The other side of the audit, and how long level 3 lasts.                *)

(* While a check decides, others have only reset the level it saw; when it *)
(* is about to escalate, the level is below the one it comes to.           *)
SeenInv ==
  \A p \in Phases :
    /\ check[p].pc \in {"loaded", "hold", "logRecovery", "writeRecovery"}
         => row.level \in {0, check[p].seen.level}
    /\ check[p].pc \in {"logEscalation", "writeEscalation"}
         => row.level < check[p].data.trig
    /\ check[p].pc = "hold" => check[p].seen.level = 3

(* An escalation that is logged and not written.                           *)
Announced(l) ==
  \E p \in Phases : check[p].pc = "writeEscalation" /\ check[p].data.trig = l

(* Every log row for a level beyond the arrivals there was left by a check *)
(* that died, or is that of the check under way.                           *)
SurplusInv ==
  \A l \in 1 .. 4 :
    logged[l] <= entered[l] + crashes + (IF Announced(l) THEN 1 ELSE 0)

EscalationInv == IInv /\ SeenInv /\ SurplusInv

(* When no check runs, each escalation in the log happened, except one for *)
(* each check that died between the log row and the write.                 *)
EscalationsHappened ==
  lock = None => \A l \in 1 .. 4 : logged[l] <= entered[l] + crashes

LEMMA InitEscalation == Init => EscalationInv
<1> SUFFICES ASSUME Init PROVE SeenInv /\ SurplusInv
    BY InitIInv DEF EscalationInv
<1>1. \A p \in Phases : check[p].pc = "idle"
      BY DEF Init, Idle
<1>2. logged = [l \in Levels |-> 0] /\ entered = [l \in Levels |-> 0] /\ crashes = 0
      BY DEF Init
<1> QED BY <1>1, <1>2 DEF SeenInv, SurplusInv, Announced, Levels

(* Steps that leave every check alone, and do not raise the level.         *)
LEMMA QuietSeen ==
  ASSUME SeenInv, IInv, check' = check, row'.level \in {0, row.level}
  PROVE  SeenInv'
<1>1. row.level \in Nat
      BY DEF IInv, TypeOK, StateRow, Levels
<1> SUFFICES ASSUME NEW p \in Phases
             PROVE  /\ check[p].pc \in {"loaded", "hold", "logRecovery", "writeRecovery"}
                         => row'.level \in {0, check[p].seen.level}
                    /\ check[p].pc \in {"logEscalation", "writeEscalation"}
                         => row'.level < check[p].data.trig
                    /\ check[p].pc = "hold" => check[p].seen.level = 3
    BY DEF SeenInv
<1>2. check[p] # Idle => check[p].data.trig \in Nat
      BY DEF IInv, TypeOK, IsCheck, Levels
<1>3. check[p].pc \in {"logEscalation", "writeEscalation"} => check[p] # Idle
      BY DEF Idle
<1> QED BY <1>1, <1>2, <1>3 DEF SeenInv

LEMMA QuietSurplus ==
  ASSUME SurplusInv, check' = check, crashes' = crashes,
         \A l \in 1 .. 4 : logged'[l] = logged[l] /\ entered'[l] = entered[l]
  PROVE  SurplusInv'
BY DEF SurplusInv, Announced

(* Time and administrators leave the checks alone; they reset the level or *)
(* keep it, and log no escalation.                                         *)
Outside ==
  \/ Advance \/ ForceReset \/ CliForceReset \/ UNCHANGED vars
  \/ \E m \in Admins : AdminStep(m)
  \/ \E a \in Approvals : Reject(a)

SameLevel == row'.level = row.level /\ row'.days = row.days /\ row'.entered = row.entered
Reset == row'.level = 0 /\ row'.days = 0

LEMMA ResetRow ==
  ASSUME IInv, NEW r, r.level = 0, r.days = 0, Write(r), Log(0)
  PROVE  Reset /\ \A l \in 1 .. 4 : logged'[l] = logged[l] /\ entered'[l] = entered[l]
<1>1. logged \in [Levels -> Nat] /\ entered \in [Levels -> Nat]
      BY DEF IInv, TypeOK
<1> QED BY <1>1 DEF Reset, Write, Log, Levels

LEMMA OutsideSteps ==
  ASSUME IInv, Outside
  PROVE  /\ check' = check /\ crashes' = crashes /\ lock' = lock
         /\ SameLevel \/ Reset
         /\ Advance \/ UNCHANGED <<now, due>>
         /\ \A l \in 1 .. 4 : logged'[l] = logged[l] /\ entered'[l] = entered[l]
<1> DEFINE R == Upsert(0, Day(now), 0, 0)
<1>1. R.level = 0 /\ R.days = 0
      BY DEF Upsert
<1>2. [R EXCEPT !.entered = Day(now)].level = 0 /\ [R EXCEPT !.entered = Day(now)].days = 0
      BY DEF Upsert
<1> HIDE DEF R
<1>3. CASE Advance
      BY <1>3 DEF Advance, dbVars, ghostVars, SameLevel
<1>4. CASE ForceReset
      BY <1>1, <1>4, ResetRow DEF ForceReset, R
<1>5. CASE CliForceReset
  <2>1. CASE Mode = "paper"
        BY <1>2, <1>5, <2>1, ResetRow DEF CliForceReset, R
  <2>2. CASE Mode # "paper"
        BY <1>5, <2>2 DEF CliForceReset, SameLevel, ghostVars
  <2> QED BY <2>1, <2>2
<1>6. CASE UNCHANGED vars
      BY <1>6 DEF vars, dbVars, ghostVars, SameLevel
<1>7. ASSUME NEW a \in Approvals, Reject(a)
      PROVE  check' = check /\ crashes' = crashes /\ lock' = lock /\ SameLevel
             /\ UNCHANGED <<now, due, logged, entered>>
      BY <1>7 DEF Reject, ghostVars, SameLevel
<1>8. ASSUME NEW m \in Admins, ApproveCommit(m)
      PROVE  check' = check /\ crashes' = crashes /\ lock' = lock
             /\ UNCHANGED <<now, due>> /\ Write(R) /\ Log(0)
      BY <1>8 DEF ApproveCommit, R
<1>9. ASSUME NEW m \in Admins, AdminStep(m), ~ApproveCommit(m)
      PROVE  check' = check /\ crashes' = crashes /\ lock' = lock /\ SameLevel
             /\ UNCHANGED <<now, due, logged, entered>>
  <2>1. row \in StateRow
        BY DEF IInv, TypeOK
  <2>2. CASE RequestCommit(m)
        BY <2>1, <2>2 DEF RequestCommit, ghostVars, SameLevel, StateRow
  <2> QED BY <1>9, <2>2 DEF AdminStep, RequestRead, CliCommit, ApproveLookup, CliRead,
                           dbVars, ghostVars, SameLevel
<1> QED BY <1>1, <1>3, <1>4, <1>5, <1>6, <1>7, <1>8, <1>9, ResetRow DEF Outside

LEMMA NextSplit == ASSUME [Next]_vars PROVE Outside \/ \E p \in Phases : CheckStep(p)
BY DEF Next, Outside

(* A step of a check is taken alone: no other phase runs one.              *)
LEMMA CheckAlone ==
  ASSUME IInv, NEW p \in Phases, CheckStep(p), check' # check
  PROVE  /\ \A q \in Phases \ {p} : check[q] = Idle /\ check'[q] = Idle
         /\ check' = [check EXCEPT ![p] = check'[p]]
         /\ check[p] # Idle \/ StartPhase(p)
<1> USE DEF CheckStep, StartPhase, CanStart, Decide, LogRecovery, LogEscalation,
            LogStep, WriteRecovery, WriteEscalation, Hold, Clear, WriteStep, EndPhase,
            Crash, Release
<1>1. check[p] # Idle \/ StartPhase(p)
      BY DEF Idle
<1>2. \A q \in Phases \ {p} : check[q] = Idle
  <2>1. check[p] # Idle => lock = p
        BY DEF IInv, LockInv, Active
  <2>2. StartPhase(p) => lock = None
        OBVIOUS
  <2>3. lock \in {p, None} /\ None \notin Phases
        BY <1>1, <2>1, <2>2, ConstantsAssumption DEF Phases
  <2> HIDE DEF CheckStep, StartPhase
  <2> QED BY <2>3 DEF IInv, LockInv, Active
<1>3. check' = [check EXCEPT ![p] = check'[p]]
      BY DEF IInv, TypeOK, IsCheck
<1> QED BY <1>1, <1>2, <1>3 DEF Idle, IInv, TypeOK

LEMMA StepSeen ==
  ASSUME IInv, SeenInv, NEW p \in Phases, CheckStep(p), check' # check
  PROVE  SeenInv'
<1>1. \A q \in Phases \ {p} : check'[q].pc = "idle"
      BY CheckAlone DEF Idle
<1>2. p \in DOMAIN check /\ row.level \in Nat
      BY DEF IInv, TypeOK, StateRow, Levels
<1>3. check[p] # Idle =>
        /\ check[p] \in [pc : Running, day : Nat, seen : StateRow,
                         data : [day : Nat, ret : Int, trig : Levels]]
        /\ check[p].seen.level \in Nat /\ check[p].data.trig \in Nat
      BY <1>2 DEF IInv, TypeOK, IsCheck, StateRow, Levels
<1> DEFINE Good(c, l) ==
      /\ c.pc \in {"loaded", "hold", "logRecovery", "writeRecovery"}
           => l \in {0, c.seen.level}
      /\ c.pc \in {"logEscalation", "writeEscalation"} => l < c.data.trig
      /\ c.pc = "hold" => c.seen.level = 3
<1>4. Good(check[p], row.level)
      BY DEF SeenInv
<1>5. Good(check'[p], row'.level)
  <2>1. CASE StartPhase(p)
        BY <1>2, <2>1 DEF StartPhase, dbVars
  <2>2. CASE Decide(p)
    <3>1. check[p] # Idle /\ row' = row /\ check[p].pc = "loaded"
          BY <2>2 DEF Decide, Idle, dbVars
    <3>2. check'[p].data = check[p].data /\ check'[p].seen = check[p].seen
          BY <1>2, <1>3, <2>2, <3>1 DEF Decide
    <3>3. check'[p].pc \in {"clear", "logRecovery", Onward(check[p].seen.level, check[p].data.trig)}
          BY <1>2, <1>3, <2>2, <3>1 DEF Decide
    <3> QED BY <1>2, <1>3, <1>4, <3>1, <3>2, <3>3 DEF Onward
  <2>3. CASE LogRecovery(p) \/ LogEscalation(p)
        BY <1>2, <1>3, <1>4, <2>3 DEF LogRecovery, LogEscalation, LogStep, Idle
  <2>4. CASE WriteRecovery(p)
    <3>1. check[p] # Idle /\ row'.level = 0
          BY <2>4 DEF WriteRecovery, WriteStep, Write, Upsert, Idle
    <3>2. check'[p].data = check[p].data /\ check'[p].seen = check[p].seen
          /\ check'[p].pc = Onward(0, check[p].data.trig)
          BY <1>2, <1>3, <2>4, <3>1 DEF WriteRecovery, WriteStep
    <3> QED BY <1>3, <3>1, <3>2 DEF Onward
  <2>5. CASE WriteEscalation(p) \/ Hold(p) \/ Clear(p)
        BY <1>2, <1>3, <2>5 DEF WriteEscalation, Hold, Clear, WriteStep, Idle
  <2>6. CASE EndPhase(p) \/ Crash(p)
        BY <1>2, <2>6 DEF EndPhase, Crash, Release, Idle
  <2> QED BY <2>1, <2>2, <2>3, <2>4, <2>5, <2>6 DEF CheckStep
<1> QED BY <1>1, <1>5 DEF SeenInv

LEMMA StepSurplus ==
  ASSUME IInv, SeenInv, SurplusInv, NEW p \in Phases, CheckStep(p), check' # check
  PROVE  SurplusInv'
<1>1. \A q \in Phases \ {p} : check[q].pc = "idle" /\ check'[q].pc = "idle"
      BY CheckAlone DEF Idle
<1>2. /\ p \in DOMAIN check /\ row.level \in Nat /\ crashes \in Nat
      /\ logged \in [Levels -> Nat] /\ entered \in [Levels -> Nat]
      BY DEF IInv, TypeOK, StateRow, Levels
<1>3. check[p] # Idle =>
        /\ check[p] \in [pc : Running, day : Nat, seen : StateRow,
                         data : [day : Nat, ret : Int, trig : Levels]]
        /\ check[p].data.trig \in Levels
      BY <1>2 DEF IInv, TypeOK, IsCheck
<1>4. \A l \in 1 .. 4 :
        /\ Announced(l) <=> check[p].pc = "writeEscalation" /\ check[p].data.trig = l
        /\ Announced(l)' <=> check'[p].pc = "writeEscalation" /\ check'[p].data.trig = l
      BY <1>1 DEF Announced
<1>5. SUFFICES ASSUME NEW l \in 1 .. 4
               PROVE  logged'[l] <= entered'[l] + crashes' + (IF Announced(l)' THEN 1 ELSE 0)
      BY DEF SurplusInv
<1>6. /\ logged[l] <= entered[l] + crashes + (IF Announced(l) THEN 1 ELSE 0)
      /\ l \in Levels /\ logged[l] \in Nat /\ entered[l] \in Nat
      BY <1>2 DEF SurplusInv, Levels
<1>7. CASE StartPhase(p) \/ Decide(p)
  <2>1. logged' = logged /\ entered' = entered /\ crashes' = crashes
        BY <1>7 DEF StartPhase, Decide, dbVars, ghostVars
  <2>2. check[p].pc # "writeEscalation"
        BY <1>7 DEF StartPhase, Decide, Idle
  <2> QED BY <1>2, <1>4, <1>6, <2>1, <2>2
<1>8. CASE LogRecovery(p)
  <2>1. logged'[l] = logged[l] /\ entered' = entered /\ crashes' = crashes
        BY <1>2, <1>6, <1>8 DEF LogRecovery, LogStep, Log, Levels, ghostVars
  <2>2. check[p].pc # "writeEscalation"
        BY <1>8 DEF LogRecovery, LogStep
  <2> QED BY <1>2, <1>4, <1>6, <2>1, <2>2
<1>9. CASE LogEscalation(p)
  <2>1. check[p] # Idle /\ check[p].pc = "logEscalation"
        BY <1>9 DEF LogEscalation, LogStep, Idle
  <2>2. check'[p].pc = "writeEscalation" /\ check'[p].data = check[p].data
        BY <1>2, <1>3, <1>9, <2>1 DEF LogEscalation, LogStep
  <2>3. entered' = entered /\ crashes' = crashes
        /\ logged' = [logged EXCEPT ![check[p].data.trig] = @ + 1]
        BY <1>9 DEF LogEscalation, LogStep, Log, ghostVars
  <2> QED BY <1>2, <1>3, <1>4, <1>6, <2>1, <2>2, <2>3
<1>10. CASE WriteEscalation(p)
  <2>1. check[p] # Idle /\ check[p].pc = "writeEscalation" /\ row.level # check[p].data.trig
        BY <1>3, <1>10 DEF WriteEscalation, WriteStep, Idle, SeenInv, Levels
  <2>2. check'[p].pc = "done"
        BY <1>2, <1>3, <1>10, <2>1 DEF WriteEscalation, WriteStep
  <2>3. logged' = logged /\ crashes' = crashes
        /\ entered' = [entered EXCEPT ![check[p].data.trig] = @ + 1]
        BY <1>10, <2>1 DEF WriteEscalation, WriteStep, Write, Upsert
  <2> QED BY <1>2, <1>3, <1>4, <1>6, <2>1, <2>2, <2>3
<1>11. CASE WriteRecovery(p) \/ Hold(p) \/ Clear(p)
  <2>1. PICK r : r.level \in Levels /\ Write(r)
        BY <1>11 DEF WriteRecovery, Hold, Clear, WriteStep, Upsert, Levels
  <2>2. logged' = logged /\ crashes' = crashes /\ check[p].pc # "writeEscalation"
        BY <1>11 DEF WriteRecovery, Hold, Clear, WriteStep
  <2>3. entered'[l] >= entered[l]
        BY <1>2, <1>6, <2>1 DEF Write
  <2>4. entered'[l] \in Nat
        BY <1>2, <1>6, <2>1 DEF Write
  <2> QED BY <1>2, <1>4, <1>6, <2>2, <2>3, <2>4
<1>12. CASE EndPhase(p)
  <2>1. logged' = logged /\ entered' = entered /\ crashes' = crashes
        /\ check[p].pc # "writeEscalation"
        BY <1>12 DEF EndPhase, dbVars, ghostVars
  <2> QED BY <1>2, <1>4, <1>6, <2>1
<1>13. CASE Crash(p)
  <2>1. logged' = logged /\ entered' = entered /\ crashes' = crashes + 1
        BY <1>13 DEF Crash, dbVars, ghostVars
  <2> QED BY <1>2, <1>4, <1>6, <2>1
<1> QED BY <1>7, <1>8, <1>9, <1>10, <1>11, <1>12, <1>13 DEF CheckStep

(* A second phase that finds the lock taken changes no check.              *)
LEMMA TurnedAway ==
  ASSUME IInv, NEW p \in Phases, CheckStep(p), check' = check
  PROVE  /\ due' = due \ {p} /\ p \in due
         /\ UNCHANGED <<now, latest, dbVars, lock, admin, crashes, ghostVars>>
<1>1. p \in DOMAIN check /\ IsCheck(check[p])
      BY DEF IInv, TypeOK
<1>2. StartPhase(p) /\ lock # None => UNCHANGED <<now, latest, dbVars, lock, admin, crashes, ghostVars>>
      BY DEF StartPhase, CanStart
<1>3. StartPhase(p) /\ lock = None => FALSE
  <2> SUFFICES ASSUME StartPhase(p), lock = None PROVE check'[p] # check[p]
      OBVIOUS
  <2> QED BY <1>1 DEF StartPhase, CanStart, Idle
<1>4. StartPhase(p) => due' = due \ {p} /\ p \in due
      BY DEF StartPhase
<1>5. ~StartPhase(p) => FALSE
  <2> SUFFICES ASSUME CheckStep(p), ~StartPhase(p) PROVE check'[p].pc # check[p].pc
      OBVIOUS
  <2> QED BY <1>1 DEF CheckStep, Decide, Recovered, Onward, LogRecovery, LogEscalation,
             LogStep, WriteRecovery, WriteEscalation, Hold, Clear, WriteStep, EndPhase,
             Crash, Release, IsCheck, Idle, Running
<1> QED BY <1>2, <1>3, <1>4, <1>5

LEMMA StepEscalation == EscalationInv /\ [Next]_vars => EscalationInv'
<1> SUFFICES ASSUME EscalationInv, [Next]_vars PROVE EscalationInv'
    OBVIOUS
<1> USE DEF EscalationInv
<1>1. IInv'
      BY StepIInv
<1>2. CASE Outside
      BY <1>1, <1>2, OutsideSteps, QuietSeen, QuietSurplus DEF SameLevel, Reset
<1>3. ASSUME NEW p \in Phases, CheckStep(p), check' # check PROVE EscalationInv'
      BY <1>1, <1>3, StepSeen, StepSurplus
<1>4. ASSUME NEW p \in Phases, CheckStep(p), check' = check PROVE EscalationInv'
      BY <1>1, <1>4, TurnedAway, QuietSeen, QuietSurplus DEF dbVars, ghostVars
<1> QED BY <1>2, <1>3, <1>4, NextSplit

LEMMA Escalations == Spec => []EscalationInv
<1>1. Init => EscalationInv
      BY InitEscalation
<1>2. EscalationInv /\ [Next]_vars => EscalationInv'
      BY StepEscalation
<1> QED BY <1>1, <1>2, PTL DEF Spec

(* The log announces no escalation that did not happen, but one for each   *)
(* check that died on the way: with ChangesAudited, logs and arrivals at   *)
(* levels 1, 2 and 4 agree when nothing has died.                          *)
THEOREM EscalationsHappenedCorrect == Spec => []EscalationsHappened
<1>1. EscalationInv => EscalationsHappened
  <2> SUFFICES ASSUME EscalationInv, lock = None, NEW l \in 1 .. 4
               PROVE  logged[l] <= entered[l] + crashes
      BY DEF EscalationsHappened
  <2>1. \A p \in Phases : check[p] = Idle
        BY ConstantsAssumption DEF EscalationInv, IInv, LockInv, Active, Phases
  <2>2. ~Announced(l)
        BY <2>1 DEF Announced, Idle
  <2>3. entered[l] \in Nat /\ crashes \in Nat
        BY DEF EscalationInv, IInv, TypeOK, Levels
  <2> QED BY <2>2, <2>3 DEF EscalationInv, SurplusInv
<1> QED BY <1>1, Escalations, PTL

-----------------------------------------------------------------------------
(* How fast a streak at level 3 grows.                                     *)

Due(p) == IF p \in due THEN 1 ELSE 0
Left == Due("execute") + Due("signal")

(* Half days that have begun, and phases that were run again.              *)
Chances == now + 1 + crashes

(* Each check that a phase still due or under way can make adds one day to *)
(* the streak, and there is one such check for each half day since level 3 *)
(* was entered and each crash.                                             *)
Deciding == {"loaded", "hold", "logRecovery", "writeRecovery"}

StreakInv ==
  /\ Left <= 1 + crashes
  /\ row.level = 3 => row.days + 2 * row.entered + Left <= Chances
  /\ \A p \in Phases :
       /\ check[p] # Idle => 2 * check[p].day + Left <= Chances
       /\ check[p].pc \in Deciding /\ check[p].seen.level = 3 =>
            /\ check[p].seen.days + 1 + 2 * check[p].seen.entered + Left <= Chances
            /\ row.level = 3 => row.entered = check[p].seen.entered
       /\ check[p].pc \in {"logRecovery", "writeRecovery"} /\ check[p].seen.level = 3
            => L3Days <= StreakDays(check[p].seen, check[p].data)

PaceInv == IInv /\ SeenInv /\ StreakInv

(* The streak of level 3 is never longer than the half days since the      *)
(* breaker came there, and the phases that were run again.                 *)
StreakIsEarned == row.level = 3 => row.days + 2 * row.entered <= now + 1 + crashes

(* A check that ends level 3 does so no earlier than L3Days half days      *)
(* after, less the phases that were run again.                             *)
RecoveryTakesTime ==
  [][\A p \in Phases :
       row.level = 3 /\ row'.level = 0 /\ check'[p] # check[p]
         => L3Days + 2 * row.entered <= now + 1 + crashes]_vars

LEMMA DayHalves == \A t \in Nat : Day(t) \in Nat /\ 2 * Day(t) <= t + 1
BY DEF Day

LEMMA LeftType == Left \in Nat /\ Left' \in Nat
BY DEF Left, Due

LEMMA InitStreak == Init => StreakInv
BY DEF Init, StreakInv, Left, Due, Chances, Idle, Phases, Deciding

LEMMA CheckTypes ==
  ASSUME IInv
  PROVE  /\ row.level \in Nat /\ row.days \in Nat /\ row.entered \in Nat
         /\ now \in Nat /\ crashes \in Nat
         /\ \A p \in Phases : check[p] # Idle =>
              /\ check[p].day \in Nat
              /\ check[p].seen.level \in Nat /\ check[p].seen.days \in Nat
              /\ check[p].seen.entered \in Nat
              /\ check[p].data.ret \in Int /\ check[p].data.trig \in Nat
BY DEF IInv, TypeOK, StateRow, Levels, IsCheck

(* Time passes, or a request resets the level or leaves it as it was.      *)
LEMMA OutsideStreak ==
  ASSUME PaceInv, Outside
  PROVE  StreakInv'
<1> USE DEF PaceInv
<1>1. /\ check' = check /\ crashes' = crashes
      /\ SameLevel \/ Reset
      /\ Advance \/ UNCHANGED <<now, due>>
      BY OutsideSteps
<1>2. now' \in Nat /\ now' >= now
      /\ \/ Left' <= Left /\ now' = now
         \/ Left' <= 1 /\ now' = now + 1
  <2>1. CASE Advance
    <3>1. now' = now + 1 /\ due' = {PhaseOf(now + 1)}
          BY <2>1 DEF Advance
    <3> QED BY <3>1, CheckTypes DEF Left, Due, PhaseOf
  <2>2. CASE UNCHANGED <<now, due>>
        BY <2>2, CheckTypes, LeftType DEF Left, Due
  <2> QED BY <1>1, <2>1, <2>2
<1>3. Left' <= 1 + crashes
      BY <1>2, CheckTypes, LeftType DEF StreakInv
<1>4. row'.level = 3 =>
        /\ row.level = 3 /\ row'.days = row.days /\ row'.entered = row.entered
      BY <1>1 DEF SameLevel, Reset
<1>5. ASSUME NEW n \in Nat, n + Left <= Chances PROVE n + Left' <= Chances'
      BY <1>1, <1>2, <1>5, CheckTypes, LeftType DEF Chances
<1>6. row'.level = 3 => row'.days + 2 * row'.entered + Left' <= Chances'
      BY <1>4, <1>5, CheckTypes DEF StreakInv
<1>7. ASSUME NEW p \in Phases
      PROVE  /\ check[p] # Idle => 2 * check[p].day + Left' <= Chances'
             /\ check[p].pc \in Deciding /\ check[p].seen.level = 3 =>
                  /\ check[p].seen.days + 1 + 2 * check[p].seen.entered + Left' <= Chances'
                  /\ row'.level = 3 => row'.entered = check[p].seen.entered
             /\ check[p].pc \in {"logRecovery", "writeRecovery"} /\ check[p].seen.level = 3
                  => L3Days <= StreakDays(check[p].seen, check[p].data)
  <2>1. check[p].pc \in Deciding => check[p] # Idle
        BY DEF Deciding, Idle
  <2>2. check[p] # Idle => 2 * check[p].day \in Nat
        BY CheckTypes
  <2>3. check[p] # Idle => check[p].seen.days + 1 + 2 * check[p].seen.entered \in Nat
        BY CheckTypes
  <2> QED BY <1>4, <1>5, <2>1, <2>2, <2>3 DEF StreakInv
<1> QED BY <1>1, <1>3, <1>6, <1>7 DEF StreakInv, StreakDays

(* What the invariant says of one check and of the row.                    *)
Paced(c) ==
  /\ c # Idle => 2 * c.day + Left <= Chances
  /\ c.pc \in Deciding /\ c.seen.level = 3 =>
       /\ c.seen.days + 1 + 2 * c.seen.entered + Left <= Chances
       /\ row.level = 3 => row.entered = c.seen.entered
  /\ c.pc \in {"logRecovery", "writeRecovery"} /\ c.seen.level = 3
       => L3Days <= StreakDays(c.seen, c.data)

LEMMA TurnedAwayStreak ==
  ASSUME PaceInv, NEW p \in Phases, CheckStep(p), check' = check
  PROVE  StreakInv'
<1>1. /\ UNCHANGED <<now, row, crashes>> /\ due' = due \ {p}
      BY TurnedAway DEF PaceInv, dbVars
<1>2. Left' <= Left
      BY <1>1 DEF Left, Due
<1>3. Chances' = Chances /\ Chances \in Nat
      BY <1>1, CheckTypes DEF Chances, PaceInv
<1>4. ASSUME NEW n \in Nat, n + Left <= Chances PROVE n + Left' <= Chances'
      BY <1>1, <1>2, <1>4, LeftType, CheckTypes DEF Chances, PaceInv
<1>5. Left' <= 1 + crashes
      BY <1>2, CheckTypes, LeftType DEF StreakInv, PaceInv
<1>6. row.level = 3 => row.days + 2 * row.entered + Left' <= Chances'
      BY <1>4, CheckTypes DEF StreakInv, PaceInv
<1>7. ASSUME NEW q \in Phases PROVE Paced(check[q])'
  <2>1. check[q].pc \in Deciding => check[q] # Idle
        BY DEF Deciding, Idle
  <2>2. check[q] # Idle => 2 * check[q].day \in Nat
                           /\ check[q].seen.days + 1 + 2 * check[q].seen.entered \in Nat
        BY CheckTypes DEF PaceInv
  <2> QED BY <1>1, <1>4, <2>1, <2>2 DEF PaceInv, StreakInv, Paced, StreakDays
<1> QED BY <1>1, <1>5, <1>6, <1>7 DEF StreakInv, Paced

LEMMA OneMore ==
  ASSUME NEW n \in Nat, NEW l \in Nat, NEW m \in Nat, NEW c \in Nat,
         n + l <= c, m <= l + 1
  PROVE  n + m <= c + 1
OBVIOUS

(* A step that starts no phase leaves due alone, or puts back the phase    *)
(* that crashed.                                                           *)
LEMMA LeftKept ==
  ASSUME PaceInv, NEW p \in Phases, CheckStep(p), ~StartPhase(p)
  PROVE  /\ Left' <= 1 + crashes'
         /\ now' = now
         /\ \A n \in Nat : n + Left <= Chances => n + Left' <= Chances'
<1>1. now \in Nat /\ crashes \in Nat
      BY CheckTypes DEF PaceInv
<1>2. CASE Crash(p)
  <2>1. crashes' = crashes + 1 /\ due' = due \cup {p} /\ now' = now
        BY <1>2 DEF Crash
  <2>2. Left' <= Left + 1
        BY <2>1 DEF Left, Due, Phases
  <2>3. Left <= 1 + crashes
        BY DEF PaceInv, StreakInv
  <2>4. Left' <= 1 + crashes'
        BY <1>1, <2>1, <2>2, <2>3, LeftType
  <2>5. ASSUME NEW n \in Nat, n + Left <= Chances PROVE n + Left' <= Chances'
    <3>1. Chances' = Chances + 1 /\ Chances \in Nat
          BY <1>1, <2>1 DEF Chances
    <3>2. Left \in Nat /\ Left' \in Nat
          BY LeftType
    <3> QED BY <2>2, <2>5, <3>1, <3>2, OneMore
  <2> QED BY <2>1, <2>4, <2>5
<1>3. CASE ~Crash(p)
  <2>1. UNCHANGED <<now, crashes, due>>
        BY <1>3 DEF CheckStep, Decide, LogRecovery, LogEscalation, LogStep,
           WriteRecovery, WriteEscalation, Hold, Clear, WriteStep, EndPhase
  <2> QED BY <2>1 DEF Left, Due, Chances, PaceInv, StreakInv
<1> QED BY <1>2, <1>3

(* The row after such a step keeps the pace.                               *)
LEMMA RowStreak ==
  ASSUME PaceInv, NEW p \in Phases, CheckStep(p), ~StartPhase(p), row'.level = 3
  PROVE  row'.days + 2 * row'.entered + Left' <= Chances'
<1>1. /\ check[p] # Idle => Paced(check[p])
      /\ row.level = 3 => row.days + 2 * row.entered + Left <= Chances
      BY DEF PaceInv, StreakInv, Paced
<1>2. CASE WriteEscalation(p)
  <2>1. check[p] # Idle /\ check[p].data.trig = 3
        /\ row' = Upsert(3, check[p].day, 0, 0)
        BY <1>2 DEF WriteEscalation, WriteStep, Write, Upsert, Idle
  <2>2. row.level # 3
        BY <1>2, <2>1 DEF WriteEscalation, WriteStep, PaceInv, SeenInv
  <2>3. row'.days = 0 /\ row'.entered = check[p].day
        BY <2>1, <2>2 DEF Upsert
  <2>4. 2 * check[p].day \in Nat
        BY <2>1, CheckTypes DEF PaceInv
  <2>5. 2 * check[p].day + Left' <= Chances'
        BY <1>1, <2>1, <2>4, LeftKept DEF Paced
  <2> QED BY <2>3, <2>4, <2>5, LeftType
<1>3. CASE Hold(p)
  <2>1. check[p] # Idle /\ check[p].pc = "hold" /\ check[p].seen.level = 3
        BY <1>3 DEF Hold, WriteStep, Idle, PaceInv, SeenInv
  <2>2. row' = Upsert(3, check[p].seen.entered, StreakDays(check[p].seen, check[p].data),
                      StreakReturn(check[p].seen, check[p].data))
        BY <1>3 DEF Hold, WriteStep, Write
  <2>3. row'.entered = check[p].seen.entered
        /\ row'.days = StreakDays(check[p].seen, check[p].data)
        BY <1>1, <2>1, <2>2 DEF Upsert, Paced, Deciding
  <2>4. check[p].seen.days \in Nat /\ check[p].seen.entered \in Nat
        /\ check[p].data.ret \in Int
        BY <2>1, CheckTypes DEF PaceInv
  <2>5. StreakDays(check[p].seen, check[p].data) \in Nat
        /\ StreakDays(check[p].seen, check[p].data) <= check[p].seen.days + 1
        BY <2>4 DEF StreakDays
  <2>6. check[p].seen.days + 1 + 2 * check[p].seen.entered \in Nat
        BY <2>4
  <2>7. check[p].seen.days + 1 + 2 * check[p].seen.entered + Left' <= Chances'
        BY <1>1, <2>1, <2>6, LeftKept DEF Paced, Deciding
  <2>8. Left' \in Nat /\ Chances' \in Int
        BY <1>3, LeftType, CheckTypes DEF Chances, Hold, WriteStep, PaceInv
  <2> HIDE DEF PaceInv, IInv
  <2> QED BY <2>3, <2>4, <2>5, <2>7, <2>8
<1>4. CASE UNCHANGED row
      BY <1>1, <1>4, LeftKept, CheckTypes DEF PaceInv
<1>5. CASE WriteRecovery(p) \/ Clear(p)
      BY <1>5 DEF WriteRecovery, Clear, WriteStep, Write, Upsert
<1> QED BY <1>2, <1>3, <1>4, <1>5
        DEF CheckStep, Decide, LogRecovery, LogEscalation, LogStep, EndPhase, Crash, dbVars

(* A phase that starts uses up its place in due.                           *)
LEMMA StartStreak ==
  ASSUME PaceInv, NEW p \in Phases, StartPhase(p), check' # check
  PROVE  /\ Paced(check[p])' /\ Left' <= 1 + crashes'
         /\ row'.level = 3 => row'.days + 2 * row'.entered + Left' <= Chances'
<1>1. /\ check'[p] = [pc |-> "loaded", day |-> Day(now), data |-> latest, seen |-> row]
      /\ UNCHANGED <<now, row, crashes>> /\ due' = due \ {p} /\ p \in due
      BY DEF StartPhase, CanStart, dbVars, PaceInv, IInv, TypeOK
<1>2. Left' <= Left - 1
      BY <1>1 DEF Left, Due, Phases
<1>0. now' = now /\ crashes' = crashes /\ row' = row /\ Left' \in Nat /\ Left \in Nat
      BY <1>1, LeftType
<1>3. now \in Nat /\ crashes \in Nat
      /\ row.level \in Nat /\ row.days \in Nat /\ row.entered \in Nat
      BY CheckTypes DEF PaceInv
<1>4. Left <= 1 + crashes
      BY DEF PaceInv, StreakInv
<1>5. 2 * Day(now) + Left' <= Chances'
      BY <1>1, <1>2, <1>3, <1>4, LeftType, DayHalves DEF Chances
<1>6. row.level = 3 =>
        /\ row.days + 2 * row.entered + Left' <= Chances'
        /\ row.days + 1 + 2 * row.entered + Left' <= Chances'
      BY <1>1, <1>2, <1>3, LeftType DEF Chances, PaceInv, StreakInv
<1>7. Left' <= 1 + crashes'
      BY <1>0, <1>2, <1>3, <1>4
<1> QED BY <1>1, <1>5, <1>6, <1>7 DEF Paced, Deciding

LEMMA CheckStreak ==
  ASSUME PaceInv, NEW p \in Phases, CheckStep(p), ~StartPhase(p), check' # check
  PROVE  Paced(check[p])'
<1> DEFINE c == check[p]
           d == check'[p]
<1>1. c # Idle /\ c \in [pc : Running, day : Nat, seen : StateRow,
                         data : [day : Nat, ret : Int, trig : Levels]]
      BY CheckAlone DEF PaceInv, IInv, TypeOK, IsCheck
<1>2. Paced(c)
      BY DEF PaceInv, StreakInv, Paced
<1>3. c.day \in Nat /\ c.seen.days \in Nat /\ c.seen.entered \in Nat
      BY <1>1, CheckTypes DEF PaceInv
<1>4. CASE EndPhase(p) \/ Crash(p)
  <2>1. d = Idle
        BY <1>4 DEF EndPhase, Crash, Release, PaceInv, IInv, TypeOK
  <2> QED BY <2>1 DEF Paced, Idle, Deciding
<1>5. CASE ~EndPhase(p) /\ ~Crash(p)
  <2>1. d.day = c.day /\ d.seen = c.seen /\ d.data = c.data
        BY <1>1, <1>5 DEF CheckStep, Decide, LogRecovery, LogEscalation, LogStep,
           WriteRecovery, WriteEscalation, Hold, Clear, WriteStep, PaceInv, IInv, TypeOK
  <2>2. d.pc \in Deciding =>
          /\ c.pc \in Deciding /\ row' = row
          /\ d.pc \in {"logRecovery", "writeRecovery"} =>
               \/ c.pc \in {"logRecovery", "writeRecovery"}
               \/ Recovered(c.seen, c.data, c.day)
    <3>1. CASE Decide(p)
      <4>1. c.pc = "loaded" /\ row' = row
            BY <3>1 DEF Decide, dbVars
      <4>2. d.pc = "logRecovery" => Recovered(c.seen, c.data, c.day)
            BY <1>1, <3>1 DEF Decide, Onward, PaceInv, IInv, TypeOK
      <4>3. d.pc # "writeRecovery"
            BY <1>1, <3>1 DEF Decide, Onward, PaceInv, IInv, TypeOK
      <4> QED BY <4>1, <4>2, <4>3 DEF Deciding
    <3>2. CASE LogRecovery(p)
          BY <1>1, <3>2 DEF LogRecovery, LogStep, Deciding
    <3>3. CASE LogEscalation(p)
      <4>1. d.pc = "writeEscalation"
            BY <1>1, <3>3 DEF LogEscalation, LogStep, PaceInv, IInv, TypeOK
      <4> QED BY <4>1 DEF Deciding
    <3>4. CASE WriteRecovery(p)
      <4>1. d.pc = Onward(0, c.data.trig)
            BY <1>1, <3>4 DEF WriteRecovery, WriteStep, PaceInv, IInv, TypeOK
      <4> QED BY <4>1 DEF Deciding, Onward
    <3>5. CASE WriteEscalation(p) \/ Hold(p) \/ Clear(p)
      <4>1. d.pc = "done"
            BY <1>1, <3>5 DEF WriteEscalation, Hold, Clear, WriteStep, PaceInv, IInv, TypeOK
      <4> QED BY <4>1 DEF Deciding
    <3> QED BY <1>5, <3>1, <3>2, <3>3, <3>4, <3>5 DEF CheckStep
  <2>3. Recovered(c.seen, c.data, c.day) /\ c.seen.level = 3
          => L3Days <= StreakDays(c.seen, c.data)
        BY <1>1, ConstantsAssumption DEF Recovered, StreakDays
  <2>4. 2 * c.day + Left' <= Chances'
        BY <1>1, <1>2, <1>3, LeftKept DEF Paced
  <2>5. c.seen.days + 1 + 2 * c.seen.entered \in Nat
        BY <1>3
  <2>6. c.pc \in Deciding /\ c.seen.level = 3
          => c.seen.days + 1 + 2 * c.seen.entered + Left' <= Chances'
        BY <1>2, <2>5, LeftKept DEF Paced
  <2> HIDE DEF c, d
  <2>7. StreakDays(d.seen, d.data) = StreakDays(c.seen, c.data)
        BY <2>1
  <2>8. d # Idle => 2 * d.day + Left' <= Chances'
        BY <2>1, <2>4
  <2>9. d.pc \in Deciding /\ d.seen.level = 3 =>
          /\ d.seen.days + 1 + 2 * d.seen.entered + Left' <= Chances'
          /\ row'.level = 3 => row'.entered = d.seen.entered
        BY <1>2, <2>1, <2>2, <2>6 DEF Paced
  <2>10. d.pc \in {"logRecovery", "writeRecovery"} /\ d.seen.level = 3
           => L3Days <= StreakDays(d.seen, d.data)
        BY <1>2, <2>1, <2>2, <2>3, <2>7 DEF Paced, Deciding
  <2> QED BY <2>8, <2>9, <2>10 DEF Paced, d
<1> QED BY <1>4, <1>5

LEMMA StepPace == PaceInv /\ [Next]_vars => PaceInv'
<1> SUFFICES ASSUME PaceInv, [Next]_vars PROVE PaceInv'
    OBVIOUS
<1>1. IInv' /\ IInv /\ SeenInv
      BY StepIInv DEF PaceInv
<1>2. StreakInv'
  <2>1. CASE Outside
        BY <2>1, OutsideStreak
  <2>2. ASSUME NEW p \in Phases, CheckStep(p), check' = check PROVE StreakInv'
        BY <2>2, TurnedAwayStreak
  <2>3. ASSUME NEW p \in Phases, CheckStep(p), check' # check PROVE StreakInv'
    <3>1. Paced(check[p])' /\ Left' <= 1 + crashes'
          /\ (row'.level = 3 => row'.days + 2 * row'.entered + Left' <= Chances')
          BY <2>3, StartStreak, CheckStreak, LeftKept, RowStreak
    <3>2. ASSUME NEW q \in Phases \ {p} PROVE Paced(check[q])'
          BY <1>1, <2>3, <3>2, CheckAlone DEF Paced, Idle, Deciding
    <3> QED BY <3>1, <3>2 DEF StreakInv, Paced
  <2> QED BY <2>1, <2>2, <2>3, NextSplit
<1>3. SeenInv'
  <2>1. CASE Outside
        BY <1>1, <2>1, OutsideSteps, QuietSeen DEF SameLevel, Reset
  <2>2. ASSUME NEW p \in Phases, CheckStep(p), check' = check PROVE SeenInv'
        BY <1>1, <2>2, TurnedAway, QuietSeen DEF dbVars
  <2>3. ASSUME NEW p \in Phases, CheckStep(p), check' # check PROVE SeenInv'
        BY <1>1, <2>3, StepSeen
  <2> QED BY <2>1, <2>2, <2>3, NextSplit
<1> QED BY <1>1, <1>2, <1>3 DEF PaceInv

LEMMA Pace == Spec => []PaceInv
<1>1. Init => PaceInv
      BY InitEscalation, InitStreak DEF PaceInv, EscalationInv
<1>2. PaceInv /\ [Next]_vars => PaceInv'
      BY StepPace
<1> QED BY <1>1, <1>2, PTL DEF Spec

(* However often the checks are run, however slow they are and whoever     *)
(* resets the breaker meanwhile, a streak has no more days than half days  *)
(* have begun since level 3 was entered, and phases were run again.        *)
THEOREM StreakIsEarnedCorrect == Spec => []StreakIsEarned
<1>1. PaceInv => StreakIsEarned
  <2> SUFFICES ASSUME PaceInv, row.level = 3
               PROVE  row.days + 2 * row.entered <= now + 1 + crashes
      BY DEF StreakIsEarned
  <2>1. row.days + 2 * row.entered + Left <= now + 1 + crashes
        BY DEF PaceInv, StreakInv, Chances
  <2> QED BY <2>1, CheckTypes, LeftType DEF PaceInv
<1> QED BY <1>1, Pace, PTL

(* CB_THRESHOLDS["l3_recovery_days"] counts half days: checks are twice a  *)
(* day.  No check ends level 3 before as many of them have begun.          *)
THEOREM RecoveryTakesTimeCorrect == Spec => RecoveryTakesTime
<1>1. ASSUME PaceInv, [Next]_vars, NEW p \in Phases,
             row.level = 3, row'.level = 0, check'[p] # check[p]
      PROVE  L3Days + 2 * row.entered <= now + 1 + crashes
  <2>1. PICK q \in Phases : CheckStep(q) /\ check' # check
        BY <1>1, NextSplit, OutsideSteps DEF PaceInv
  <2>2. WriteRecovery(q)
    <3>1. \/ WriteRecovery(q) \/ WriteEscalation(q) \/ Hold(q) \/ Clear(q)
          BY <1>1, <2>1 DEF CheckStep, StartPhase, Decide, LogRecovery, LogEscalation,
             LogStep, EndPhase, Crash, dbVars
    <3>2. WriteEscalation(q) => row'.level > row.level
      <4>1. check[q].pc = "writeEscalation" => row.level < check[q].data.trig
            BY <1>1 DEF PaceInv, SeenInv
      <4> QED BY <4>1 DEF WriteEscalation, WriteStep, Write, Upsert
    <3>3. Hold(q) => row'.level = 3
          BY DEF Hold, WriteStep, Write, Upsert
    <3>4. Clear(q) => row.level = 0
          BY <1>1 DEF Clear, WriteStep, PaceInv, IInv, AuditInv
    <3> QED BY <1>1, <3>1, <3>2, <3>3, <3>4
  <2>3. check[q].pc = "writeRecovery" /\ check[q] # Idle
        BY <2>2 DEF WriteRecovery, WriteStep, Idle
  <2>4. check[q].seen.level = 3
        BY <1>1, <2>3 DEF PaceInv, SeenInv
  <2>5. /\ check[q].seen.days + 1 + 2 * check[q].seen.entered + Left <= Chances
        /\ row.entered = check[q].seen.entered
        /\ L3Days <= StreakDays(check[q].seen, check[q].data)
        BY <1>1, <2>3, <2>4 DEF PaceInv, StreakInv, Deciding
  <2>6. /\ check[q].seen.days \in Nat /\ check[q].seen.entered \in Nat
        /\ now \in Nat /\ crashes \in Nat
        BY <1>1, <2>3, CheckTypes DEF PaceInv
  <2>7. L3Days <= check[q].seen.days + 1
        BY <2>5, <2>6, ConstantsAssumption DEF StreakDays
  <2> QED BY <2>5, <2>6, <2>7, LeftType, ConstantsAssumption DEF Chances
<1>2. PaceInv /\ [Next]_vars =>
        [\A p \in Phases :
           row.level = 3 /\ row'.level = 0 /\ check'[p] # check[p]
             => L3Days + 2 * row.entered <= now + 1 + crashes]_vars
      BY <1>1
<1> QED BY <1>2, Pace, PTL DEF Spec, RecoveryTakesTime
=============================================================================
