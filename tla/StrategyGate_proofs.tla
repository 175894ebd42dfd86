------------------------ MODULE StrategyGate_proofs ------------------------
(***************************************************************************)
(* Proofs about StrategyGate: types and locks, that the status log ends in *)
(* the status, and what it takes for a strategy to go live.                *)
(***************************************************************************)
EXTENDS StrategyGate, TLAPS

Open ==
    [step : {"open", "gate", "write"}, s : Strategies, at : Nat, day : Nat,
     verdict : SUBSET Verdicts, status : Known \cup {"none"}, target : Known]

LEMMA TxOf ==
  ASSUME TypeOK, NEW m \in Managers
  PROVE  /\ tx[m] = NoTx \/ tx[m] \in Open
         /\ tx[m].step \in {"open", "gate", "write"} => tx[m] \in Open
         /\ tx[m] \in Open => tx[m] # NoTx
  BY DEF TypeOK, Transactions, NoTx, Open

LEMMA BundleOf ==
  /\ 1 \in 1..Len(Bundle) /\ Len(Bundle) \in Nat
  /\ \A i \in 1..Len(Bundle) : Bundle[i] \in Strategies
  BY GateAssumption

LEMMA BootOf ==
  ASSUME TypeOK, NEW b \in Booters
  PROVE  /\ boot[b].step = "upsert" =>
              /\ boot[b].i \in 1..Len(Bundle) /\ boot[b].fresh \subseteq Strategies
              /\ boot[b].first \in BOOLEAN
         /\ boot[b].step = "commit" => boot[b].fresh \subseteq Strategies
  BY DEF TypeOK, Boots

LEMMA LookTypes ==
  ASSUME TypeOK, NEW b \in Booters, NEW i \in 1..Len(Bundle),
         NEW fresh \in SUBSET Strategies, Look(b, i, fresh)
  PROVE  /\ boot' \in [Booters -> Boots]
         /\ boot'[b].step = "upsert" /\ boot'[b].fresh = fresh
         /\ boot'[b].i = i /\ boot'[b].first = (status[Bundle[i]] = "none")
  <1> DEFINE r == [step |-> "upsert", i |-> i, fresh |-> fresh,
                   first |-> status[Bundle[i]] = "none"]
  <1>1. r \in Boots BY DEF Boots
  <1>2. boot' = [boot EXCEPT ![b] = r] BY DEF Look
  <1>3. boot' \in [Booters -> Boots] /\ boot'[b] = r BY <1>1, <1>2 DEF TypeOK
  <1> QED BY <1>3

(* What the end of a transaction leaves of the locks.                      *)
LEMMA EndTxTypes ==
  ASSUME TypeOK, NEW m \in Managers, EndTx(m)
  PROVE  /\ tx' \in [Managers -> Transactions] /\ tx'[m] = NoTx
         /\ \A z \in Managers \ {m} : tx'[z] = tx[z]
         /\ lock' \in [Strategies -> Managers \cup Booters \cup {Nobody}]
         /\ \A s \in Strategies : lock[s] # m => lock'[s] = lock[s]
  <1>1. NoTx \in Transactions BY DEF Transactions
  <1>2. tx' = [tx EXCEPT ![m] = NoTx]
        /\ lock' = [s \in Strategies |-> IF lock[s] = m THEN Nobody ELSE lock[s]]
    BY DEF EndTx
  <1>3. tx' \in [Managers -> Transactions] /\ tx'[m] = NoTx
        /\ \A z \in Managers \ {m} : tx'[z] = tx[z]
    BY <1>1, <1>2 DEF TypeOK
  <1>4. lock' \in [Strategies -> Managers \cup Booters \cup {Nobody}]
    BY <1>2 DEF TypeOK
  <1> QED BY <1>2, <1>3, <1>4

LEMMA UnlockTypes ==
  ASSUME TypeOK, NEW b \in Booters, Unlock(b)
  PROVE  /\ lock' \in [Strategies -> Managers \cup Booters \cup {Nobody}]
         /\ \A s \in Strategies : lock[s] # b => lock'[s] = lock[s]
  BY DEF Unlock, TypeOK

(* The lock of whoever has written a row.                                  *)
TxLocks(m) == tx[m] # NoTx /\ tx[m].status # "none" => lock[tx[m].s] = m

LEMMA TypeInit == Init => TypeOK
  <1> SUFFICES ASSUME Init PROVE TypeOK OBVIOUS
  <1>1. NoTx \in Transactions BY DEF Transactions
  <1>2. AtHome \in Boots BY BundleOf DEF AtHome, Boots, S1
  <1>3. 0 \in 0..MaxTx /\ 0 \in 0..MaxDay BY GateAssumption
  <1> QED BY <1>1, <1>2, <1>3 DEF Init, TypeOK

LEMMA TypeStep == TypeOK /\ [Next]_vars => TypeOK'
  <1> SUFFICES ASSUME TypeOK, [Next]_vars PROVE TypeOK' OBVIOUS
  <1>1. CASE NextDay
    <2>1. day' \in 0..MaxDay BY <1>1, GateAssumption, SMT DEF NextDay, TypeOK
    <2>2. overlap' \subseteq Managers BY <1>1 DEF NextDay, TypeOK
    <2> QED BY <1>1, <2>1, <2>2 DEF NextDay, TypeOK
  <1>2. ASSUME NEW m \in Managers, NEW s \in Strategies, Begin(m, s)
        PROVE  TypeOK'
    <2> DEFINE r == [step |-> "open", s |-> s, at |-> txs, day |-> day,
                     verdict |-> {}, status |-> "none", target |-> Live]
    <2>1. txs' \in 0..MaxTx BY <1>2, GateAssumption, SMT DEF Begin, TypeOK
    <2>2. r \in Open BY GateAssumption DEF Open, TypeOK, Known
    <2>3. r \in Transactions BY <2>2 DEF Open, Transactions
    <2>4. r.status = "none" OBVIOUS
    <2>5. tx' = [tx EXCEPT ![m] = r] BY <1>2 DEF Begin
    <2> HIDE DEF r
    <2>6. tx' \in [Managers -> Transactions] BY <2>3, <2>5 DEF TypeOK
    <2>7. ASSUME NEW z \in Managers PROVE TxLocks(z)'
      <3>1. lock' = lock BY <1>2 DEF Begin
      <3>2. CASE z = m
        <4>1. tx'[m] = r BY <2>5 DEF TypeOK
        <4> QED BY <2>4, <3>2, <4>1 DEF TxLocks
      <3>3. CASE z # m
        BY <2>5, <3>1, <3>3 DEF TypeOK, TxLocks
      <3> QED BY <3>2, <3>3
    <2> QED BY <1>2, <2>1, <2>6, <2>7 DEF Begin, TypeOK, TxLocks
  <1>3. ASSUME NEW m \in Managers, NEW passed \in BOOLEAN, Record(m, passed)
        PROVE  TypeOK'
    <2> DEFINE v == [at |-> tx[m].at, day |-> tx[m].day, passed |-> passed]
    <2>1. tx[m] \in Open /\ tx[m].status = "none" BY <1>3, TxOf DEF Record
    <2>2. {v} \in SUBSET Verdicts BY <2>1 DEF Open, Verdicts
    <2>3. tx' = [tx EXCEPT ![m].verdict = {v}] BY <1>3 DEF Record
    <2> HIDE DEF v
    <2>4. [tx[m] EXCEPT !.verdict = {v}] \in Open BY <2>1, <2>2 DEF Open
    <2>5. tx'[m] = [tx[m] EXCEPT !.verdict = {v}]
          /\ \A z \in Managers \ {m} : tx'[z] = tx[z]
      BY <2>3 DEF TypeOK
    <2>6. tx'[m].status = "none" BY <2>1, <2>5 DEF Open
    <2>7. tx' \in [Managers -> Transactions]
      BY <2>3, <2>4 DEF TypeOK, Open, Transactions
    <2> QED BY <1>3, <2>5, <2>6, <2>7 DEF Record, TypeOK
  <1>4. ASSUME NEW m \in Managers, NEW target \in Statuses \cup {Live},
               ReadStatus(m, target)
        PROVE  TypeOK'
    <2>1. tx[m] \in Open BY <1>4, TxOf DEF ReadStatus
    <2>2. PICK st \in {"gate", "write"} :
            tx' = [tx EXCEPT ![m].step = st, ![m].target = target]
      BY <1>4 DEF ReadStatus
    <2>3. tx'[m] \in Open /\ tx'[m].status = tx[m].status /\ tx'[m].s = tx[m].s
          /\ \A z \in Managers \ {m} : tx'[z] = tx[z]
      BY <2>1, <2>2 DEF TypeOK, Open, Known
    <2>4. tx' \in [Managers -> Transactions]
      BY <2>2, <2>3 DEF TypeOK, Open, Transactions
    <2>5. tx[m] # NoTx BY <2>1, TxOf
    <2> QED BY <1>4, <2>3, <2>4, <2>5 DEF ReadStatus, TypeOK
  <1>5. ASSUME NEW m \in Managers, Gate(m) PROVE TypeOK'
    <2>1. tx[m] \in Open BY <1>5, TxOf DEF Gate
    <2>2. PICK st \in {"open", "write"} : tx' = [tx EXCEPT ![m].step = st]
      BY <1>5 DEF Gate
    <2>3. tx'[m] \in Open /\ tx'[m].status = tx[m].status /\ tx'[m].s = tx[m].s
          /\ \A z \in Managers \ {m} : tx'[z] = tx[z]
      BY <2>1, <2>2 DEF TypeOK, Open
    <2>4. tx' \in [Managers -> Transactions]
      BY <2>2, <2>3 DEF TypeOK, Open, Transactions
    <2>5. tx[m] # NoTx BY <2>1, TxOf
    <2>6. overlap' \subseteq Managers BY <1>5 DEF Gate, TypeOK
    <2> QED BY <1>5, <2>3, <2>4, <2>5, <2>6 DEF Gate, TypeOK
  <1>6. ASSUME NEW m \in Managers, WriteStatus(m) PROVE TypeOK'
    <2>1. tx[m] \in Open /\ lock[tx[m].s] \in {Nobody, m}
      BY <1>6, TxOf DEF WriteStatus, Lockable
    <2>2. lock' = [lock EXCEPT ![tx[m].s] = m]
          /\ tx' = [tx EXCEPT ![m].step = "open", ![m].target = Live,
                              ![m].status = tx[m].target]
      BY <1>6 DEF WriteStatus
    <2>3. tx'[m] \in Open /\ tx'[m].s = tx[m].s
          /\ \A z \in Managers \ {m} : tx'[z] = tx[z]
      BY <2>1, <2>2 DEF TypeOK, Open, Known
    <2>4. tx' \in [Managers -> Transactions]
      BY <2>2, <2>3 DEF TypeOK, Open, Transactions
    <2>5. lock' \in [Strategies -> Managers \cup Booters \cup {Nobody}]
      BY <2>1, <2>2 DEF TypeOK, Open
    <2>6. ASSUME NEW z \in Managers PROVE TxLocks(z)'
      <3>1. CASE z = m BY <2>1, <2>2, <2>3, <3>1 DEF TypeOK, Open, TxLocks
      <3>2. CASE z # m
        <4>1. tx'[z] = tx[z] /\ TxLocks(z) BY <2>3, <3>2 DEF TypeOK, TxLocks
        <4>2. z # Nobody BY GateAssumption
        <4> QED BY <2>1, <2>2, <3>2, <4>1, <4>2 DEF TypeOK, TxLocks
      <3> QED BY <3>1, <3>2
    <2> QED BY <1>6, <2>4, <2>5, <2>6 DEF WriteStatus, TypeOK, TxLocks
  <1>7. ASSUME NEW m \in Managers, Commit(m) \/ Rollback(m) PROVE TypeOK'
    <2>1. EndTx(m) /\ UNCHANGED <<boot, txs, day, doubled>>
      BY <1>7 DEF Commit, Rollback
    <2>2. /\ tx' \in [Managers -> Transactions] /\ tx'[m] = NoTx
          /\ \A z \in Managers \ {m} : tx'[z] = tx[z]
          /\ lock' \in [Strategies -> Managers \cup Booters \cup {Nobody}]
          /\ \A s \in Strategies : lock[s] # m => lock'[s] = lock[s]
      BY <2>1, EndTxTypes
    <2>3. ASSUME NEW z \in Managers PROVE TxLocks(z)'
      <3>1. CASE z = m BY <2>2, <3>1 DEF TxLocks
      <3>2. CASE z # m
        <4>1. CASE tx[z] = NoTx BY <2>2, <3>2, <4>1 DEF TxLocks
        <4>2. CASE tx[z] # NoTx
          <5>1. tx[z].s \in Strategies BY <4>2, TxOf DEF Open
          <5> QED BY <2>2, <3>2, <5>1 DEF TxLocks, TypeOK
        <4> QED BY <4>1, <4>2
      <3> QED BY <3>1, <3>2
    <2>4. CASE Rollback(m)
      BY <2>1, <2>2, <2>3, <2>4 DEF Rollback, TypeOK, TxLocks
    <2>5. CASE Commit(m)
      <3>1. tx[m] \in Open BY <2>5, TxOf DEF Commit
      <3>2. status' \in [Strategies -> Known \cup {"none"}]
            /\ log' \in [Strategies -> Known \cup {"none"}]
        BY <2>5, <3>1 DEF Commit, TypeOK, Open
      <3>3. newest' \in [Strategies -> SUBSET Verdicts]
        BY <2>5, <3>1 DEF Commit, TypeOK, Open, Latest
      <3>4. overlap' \subseteq Managers BY <2>5 DEF Commit, Overtaken, TypeOK
      <3> QED BY <2>1, <2>2, <2>3, <3>2, <3>3, <3>4 DEF TypeOK, TxLocks
    <2> QED BY <1>7, <2>4, <2>5
  <1>8. ASSUME NEW b \in Booters, StartBoot(b) PROVE TypeOK'
    <2>1. boot' \in [Booters -> Boots]
      BY <1>8, BundleOf, LookTypes DEF StartBoot
    <2> QED BY <1>8, <2>1 DEF StartBoot, TypeOK
  <1>9. ASSUME NEW b \in Booters, Upsert(b) PROVE TypeOK'
    <2>0. PICK i, s, fresh : i = boot[b].i /\ s = Bundle[boot[b].i]
            /\ fresh = boot[b].fresh \cup (IF boot[b].first THEN {Bundle[boot[b].i]} ELSE {})
      OBVIOUS
    <2>1. i \in 1..Len(Bundle) /\ s \in Strategies /\ fresh \subseteq Strategies
      BY <1>9, <2>0, BootOf, BundleOf DEF Upsert
    <2>2. /\ lock[s] \in {Nobody, b} /\ lock' = [lock EXCEPT ![s] = b]
          /\ doubled' = IF boot[b].first /\ status[s] # "none"
                        THEN doubled \cup {s} ELSE doubled
          /\ \/ i < Len(Bundle) /\ Look(b, i + 1, fresh)
             \/ boot' = [boot EXCEPT ![b] = [step |-> "commit", fresh |-> fresh]]
      BY <1>9, <2>0 DEF Upsert, Lockable
    <2>3. boot' \in [Booters -> Boots]
      <3>1. CASE i < Len(Bundle) /\ Look(b, i + 1, fresh)
        <4>1. i + 1 \in 1..Len(Bundle) BY <2>1, <3>1, BundleOf
        <4> QED BY <2>1, <3>1, <4>1, LookTypes
      <3>2. CASE boot' = [boot EXCEPT ![b] = [step |-> "commit", fresh |-> fresh]]
        <4>1. [step |-> "commit", fresh |-> fresh] \in Boots BY <2>1 DEF Boots
        <4> QED BY <3>2, <4>1 DEF TypeOK
      <3> QED BY <2>2, <3>1, <3>2
    <2>4. lock' \in [Strategies -> Managers \cup Booters \cup {Nobody}]
      BY <2>2 DEF TypeOK
    <2>5. doubled' \subseteq Strategies BY <2>1, <2>2 DEF TypeOK
    <2>6. ASSUME NEW z \in Managers PROVE TxLocks(z)'
      <3>1. tx'[z] = tx[z] BY <1>9 DEF Upsert
      <3>2. z # b /\ z # Nobody BY GateAssumption
      <3>3. TxLocks(z) BY DEF TypeOK, TxLocks
      <3> QED BY <2>1, <2>2, <3>1, <3>2, <3>3 DEF TypeOK, TxLocks
    <2> QED BY <1>9, <2>3, <2>4, <2>5, <2>6 DEF Upsert, TypeOK, TxLocks
  <1>10. ASSUME NEW b \in Booters, CommitBoot(b) \/ FailBoot(b) PROVE TypeOK'
    <2>1. Unlock(b) /\ UNCHANGED <<newest, tx, txs, day, doubled, overlap>>
      BY <1>10 DEF CommitBoot, FailBoot
    <2>2. lock' \in [Strategies -> Managers \cup Booters \cup {Nobody}]
          /\ \A s \in Strategies : lock[s] # b => lock'[s] = lock[s]
      BY <2>1, UnlockTypes
    <2>3. ASSUME NEW z \in Managers PROVE TxLocks(z)'
      <3>1. z # b /\ tx'[z] = tx[z] BY <2>1, GateAssumption
      <3>2. CASE tx[z] = NoTx BY <3>1, <3>2 DEF TxLocks
      <3>3. CASE tx[z] # NoTx
        <4>1. tx[z].s \in Strategies BY <3>3, TxOf DEF Open
        <4> QED BY <2>2, <3>1, <4>1 DEF TypeOK, TxLocks
      <3> QED BY <3>2, <3>3
    <2>4. boot' \in [Booters -> Boots]
      <3>1. AtHome \in Boots /\ [step |-> "list"] \in Boots
        BY BundleOf DEF AtHome, Boots, S1
      <3> QED BY <1>10, <3>1 DEF CommitBoot, FailBoot, TypeOK
    <2>5. status' \in [Strategies -> Known \cup {"none"}]
          /\ log' \in [Strategies -> Known \cup {"none"}]
      <3>1. \A s \in Strategies : Declared[s] \in Known
        BY GateAssumption DEF Known
      <3> QED BY <1>10, <3>1 DEF CommitBoot, FailBoot, Stored, TypeOK
    <2> QED BY <2>1, <2>2, <2>3, <2>4, <2>5 DEF TypeOK, TxLocks
  <1>11. ASSUME NEW b \in Booters, List(b) PROVE TypeOK'
    <2>1. PICK list \in SUBSET Strategies :
            boot' = [boot EXCEPT ![b] = [step |-> "idle", list |-> list]]
      BY <1>11, BundleOf DEF List, S1
    <2>2. [step |-> "idle", list |-> list] \in Boots BY DEF Boots
    <2>3. boot' \in [Booters -> Boots] BY <2>1, <2>2 DEF TypeOK
    <2> QED BY <1>11, <2>3 DEF List, TypeOK
  <1>12. CASE UNCHANGED vars BY <1>12 DEF vars, TypeOK
  <1> QED
    BY <1>1, <1>2, <1>3, <1>4, <1>5, <1>6, <1>7, <1>8, <1>9, <1>10, <1>11, <1>12
       DEF Next

(* Types, and the lock of a row that was written.                          *)
THEOREM GateTypes == Spec => []TypeOK
  BY TypeInit, TypeStep, PTL DEF Spec

-----------------------------------------------------------------------------
(* What a booter is about to register it has locked, and found without a   *)
(* row, or doubled.                                                        *)
BootLocks(b) ==
    boot[b].step \in {"upsert", "commit"} =>
        \A s \in boot[b].fresh :
            lock[s] = b /\ (status[s] = "none" \/ s \in doubled)

LogInv ==
    /\ TypeOK
    /\ \A s \in Strategies : log[s] = status[s] \/ s \in doubled
    /\ \A b \in Booters : BootLocks(b)

LEMMA LogInit == Init => LogInv
  BY TypeInit DEF Init, LogInv, BootLocks, AtHome

(* Nothing about the rows, the locks and the booters changes.              *)
LEMMA LogUntouched ==
  ASSUME LogInv, TypeOK', UNCHANGED <<status, log, lock, boot, doubled>>
  PROVE  LogInv'
  BY DEF LogInv, BootLocks

(* A booter whose locks and rows are left alone.                           *)
LEMMA BootKept ==
  ASSUME LogInv, NEW b \in Booters, boot'[b] = boot[b],
         doubled \subseteq doubled',
         \A s \in Strategies : lock[s] = b => lock'[s] = b /\ status'[s] = status[s]
  PROVE  BootLocks(b)'
  <1>1. SUFFICES ASSUME boot[b].step \in {"upsert", "commit"}, NEW s \in boot[b].fresh
                 PROVE  lock'[s] = b /\ (status'[s] = "none" \/ s \in doubled')
    BY DEF BootLocks
  <1>2. s \in Strategies BY <1>1, BootOf DEF LogInv
  <1>3. lock[s] = b /\ (status[s] = "none" \/ s \in doubled)
    BY <1>1 DEF LogInv, BootLocks
  <1> QED BY <1>2, <1>3

LEMMA LogStep == LogInv /\ [Next]_vars => LogInv'
  <1> SUFFICES ASSUME LogInv, [Next]_vars PROVE LogInv' OBVIOUS
  <1>t. TypeOK /\ TypeOK' BY TypeStep DEF LogInv
  <1>1. CASE NextDay BY <1>1, <1>t, LogUntouched DEF NextDay
  <1>2. ASSUME NEW m \in Managers,
               \/ \E s \in Strategies : Begin(m, s)
               \/ \E passed \in BOOLEAN : Record(m, passed)
               \/ \E target \in Statuses \cup {Live} : ReadStatus(m, target)
               \/ Gate(m)
        PROVE  LogInv'
    BY <1>2, <1>t, LogUntouched DEF Begin, Record, ReadStatus, Gate
  <1>3. ASSUME NEW m \in Managers, WriteStatus(m) PROVE LogInv'
    <2>1. tx[m] \in Open /\ lock[tx[m].s] \in {Nobody, m}
          /\ lock' = [lock EXCEPT ![tx[m].s] = m]
          /\ UNCHANGED <<status, log, boot, doubled>>
      BY <1>3, <1>t, TxOf DEF WriteStatus, Lockable
    <2>2. ASSUME NEW b \in Booters PROVE BootLocks(b)'
      <3>1. b # m /\ b # Nobody BY GateAssumption
      <3>2. \A s \in Strategies : lock[s] = b => lock'[s] = b
        BY <1>t, <2>1, <3>1 DEF TypeOK, Open
      <3> QED BY <2>1, <3>2, BootKept
    <2> QED BY <1>t, <2>1, <2>2 DEF LogInv
  <1>4. ASSUME NEW m \in Managers, Commit(m) \/ Rollback(m) PROVE LogInv'
    <2>1. EndTx(m) /\ UNCHANGED <<boot, doubled>> BY <1>4 DEF Commit, Rollback
    <2>2. \A s \in Strategies : lock[s] # m => lock'[s] = lock[s]
      BY <1>t, <2>1, EndTxTypes
    <2>3. ASSUME NEW s \in Strategies
          PROVE  /\ log'[s] = status'[s] \/ s \in doubled
                 /\ lock[s] # m => status'[s] = status[s]
      <3>1. CASE UNCHANGED <<status, log>> BY <3>1 DEF LogInv
      <3>2. CASE /\ Commit(m) /\ tx[m].status # "none"
                 /\ status' = [status EXCEPT ![tx[m].s] = tx[m].status]
                 /\ log' = [log EXCEPT ![tx[m].s] = tx[m].status]
        <4>1. tx[m] \in Open /\ tx[m] # NoTx /\ tx[m].s \in Strategies
          BY <1>t, <3>2, TxOf DEF Commit, Open
        <4>2. lock[tx[m].s] = m BY <1>t, <3>2, <4>1 DEF TypeOK
        <4>3. CASE s = tx[m].s BY <1>t, <3>2, <4>1, <4>2, <4>3 DEF TypeOK
        <4>4. CASE s # tx[m].s BY <1>t, <3>2, <4>1, <4>4 DEF TypeOK, LogInv
        <4> QED BY <4>3, <4>4
      <3> QED BY <1>4, <3>1, <3>2 DEF Commit, Rollback
    <2>4. ASSUME NEW b \in Booters PROVE BootLocks(b)'
      <3>1. b # m BY GateAssumption
      <3> QED BY <2>1, <2>2, <2>3, <3>1, BootKept
    <2> QED BY <1>t, <2>1, <2>3, <2>4 DEF LogInv
  <1>5. ASSUME NEW b \in Booters, StartBoot(b) PROVE LogInv'
    <2>1. Look(b, 1, {}) /\ UNCHANGED <<status, log, lock, doubled>>
      BY <1>5 DEF StartBoot
    <2>2. boot'[b].fresh = {} BY <1>t, <2>1, BundleOf, LookTypes
    <2>3. ASSUME NEW z \in Booters PROVE BootLocks(z)'
      <3>1. CASE z = b BY <2>2, <3>1 DEF BootLocks
      <3>2. CASE z # b
        <4>1. boot'[z] = boot[z] BY <1>t, <2>1, <3>2 DEF Look, TypeOK
        <4> QED BY <2>1, <4>1, BootKept
      <3> QED BY <3>1, <3>2
    <2> QED BY <1>t, <2>1, <2>3 DEF LogInv
  <1>6. ASSUME NEW b \in Booters, Upsert(b) PROVE LogInv'
    <2>0. PICK i, s, fresh : i = boot[b].i /\ s = Bundle[boot[b].i]
            /\ fresh = boot[b].fresh \cup (IF boot[b].first THEN {Bundle[boot[b].i]} ELSE {})
      OBVIOUS
    <2>1. i \in 1..Len(Bundle) /\ s \in Strategies /\ fresh \subseteq Strategies
          /\ boot[b].first \in BOOLEAN
      BY <1>6, <1>t, <2>0, BootOf, BundleOf DEF Upsert
    <2>2. /\ lock[s] \in {Nobody, b} /\ lock' = [lock EXCEPT ![s] = b]
          /\ doubled' = IF boot[b].first /\ status[s] # "none"
                        THEN doubled \cup {s} ELSE doubled
          /\ \/ i < Len(Bundle) /\ Look(b, i + 1, fresh)
             \/ boot' = [boot EXCEPT ![b] = [step |-> "commit", fresh |-> fresh]]
          /\ UNCHANGED <<status, log>> /\ boot[b].step = "upsert"
      BY <1>6, <2>0 DEF Upsert, Lockable
    <2>3. boot'[b].fresh = fresh
          /\ \A z \in Booters \ {b} : boot'[z] = boot[z]
      <3>1. CASE i < Len(Bundle) /\ Look(b, i + 1, fresh)
        <4>1. i + 1 \in 1..Len(Bundle) BY <2>1, <3>1, BundleOf
        <4>2. boot'[b].fresh = fresh BY <1>t, <2>1, <3>1, <4>1, LookTypes
        <4> QED BY <1>t, <3>1, <4>2 DEF Look, TypeOK
      <3>2. CASE boot' = [boot EXCEPT ![b] = [step |-> "commit", fresh |-> fresh]]
        BY <1>t, <3>2 DEF TypeOK
      <3> QED BY <2>2, <3>1, <3>2
    <2>4. doubled \subseteq doubled' BY <2>2
    <2>5. lock'[s] = b /\ \A x \in Strategies \ {s} : lock'[x] = lock[x]
      BY <1>t, <2>1, <2>2 DEF TypeOK
    <2>6. BootLocks(b)'
      <3>1. ASSUME NEW x \in fresh
            PROVE  lock'[x] = b /\ (status'[x] = "none" \/ x \in doubled')
        <4>1. CASE x \in boot[b].fresh
          <5>1. lock[x] = b /\ (status[x] = "none" \/ x \in doubled)
            BY <2>2, <4>1 DEF LogInv, BootLocks
          <5> QED BY <2>1, <2>2, <2>4, <2>5, <5>1
        <4>2. CASE boot[b].first /\ x = s
          BY <2>2, <2>5, <4>2
        <4> QED BY <2>0, <2>1, <3>1, <4>1, <4>2
      <3> QED BY <2>3, <3>1 DEF BootLocks
    <2>7. ASSUME NEW z \in Booters \ {b} PROVE BootLocks(z)'
      <3>1. z # Nobody BY GateAssumption
      <3>2. \A x \in Strategies : lock[x] = z => lock'[x] = z
        BY <2>2, <2>5, <3>1
      <3> QED BY <2>2, <2>3, <2>4, <3>2, BootKept
    <2> QED BY <1>t, <2>2, <2>4, <2>6, <2>7 DEF LogInv
  <1>7. ASSUME NEW b \in Booters, CommitBoot(b) PROVE LogInv'
    <2>1. /\ boot[b].step = "commit"
          /\ status' = [s \in Strategies |-> Stored(b, s)]
          /\ log' = [s \in Strategies |-> IF s \in boot[b].fresh THEN Declared[s]
                                                                 ELSE log[s]]
          /\ Unlock(b) /\ boot' = [boot EXCEPT ![b] = [step |-> "list"]]
          /\ doubled' = doubled
      BY <1>7 DEF CommitBoot
    <2>2. ASSUME NEW s \in Strategies
          PROVE  /\ log'[s] = status'[s] \/ s \in doubled
                 /\ lock[s] # b => status'[s] = status[s]
      <3>1. CASE s \in boot[b].fresh
        <4>1. lock[s] = b /\ (status[s] = "none" \/ s \in doubled)
          BY <2>1, <3>1 DEF LogInv, BootLocks
        <4> QED BY <2>1, <3>1, <4>1 DEF Stored
      <3>2. CASE s \notin boot[b].fresh BY <2>1, <3>2 DEF Stored, LogInv
      <3> QED BY <3>1, <3>2
    <2>3. \A s \in Strategies : lock[s] # b => lock'[s] = lock[s]
      BY <1>t, <2>1, UnlockTypes
    <2>4. ASSUME NEW z \in Booters PROVE BootLocks(z)'
      <3>1. CASE z = b
        <4>1. boot'[b].step = "list" BY <1>t, <2>1 DEF TypeOK
        <4> QED BY <3>1, <4>1 DEF BootLocks
      <3>2. CASE z # b
        <4>1. boot'[z] = boot[z] BY <1>t, <2>1, <3>2 DEF TypeOK
        <4> QED BY <2>1, <2>2, <2>3, <3>2, <4>1, BootKept
      <3> QED BY <3>1, <3>2
    <2> QED BY <1>t, <2>1, <2>2, <2>4 DEF LogInv
  <1>8. ASSUME NEW b \in Booters, FailBoot(b) PROVE LogInv'
    <2>1. boot' = [boot EXCEPT ![b] = AtHome] /\ Unlock(b)
          /\ UNCHANGED <<status, log, doubled>>
      BY <1>8 DEF FailBoot
    <2>2. \A s \in Strategies : lock[s] # b => lock'[s] = lock[s]
      BY <1>t, <2>1, UnlockTypes
    <2>3. ASSUME NEW z \in Booters PROVE BootLocks(z)'
      <3>1. CASE z = b
        <4>1. boot'[b].step = "idle" BY <1>t, <2>1 DEF TypeOK, AtHome
        <4> QED BY <3>1, <4>1 DEF BootLocks
      <3>2. CASE z # b
        <4>1. boot'[z] = boot[z] BY <1>t, <2>1, <3>2 DEF TypeOK
        <4> QED BY <2>1, <2>2, <3>2, <4>1, BootKept
      <3> QED BY <3>1, <3>2
    <2> QED BY <1>t, <2>1, <2>3 DEF LogInv
  <1>9. ASSUME NEW b \in Booters, List(b) PROVE LogInv'
    <2>1. PICK list : boot' = [boot EXCEPT ![b] = [step |-> "idle", list |-> list]]
      BY <1>9 DEF List
    <2>2. UNCHANGED <<status, log, lock, doubled>> BY <1>9 DEF List
    <2>3. ASSUME NEW z \in Booters PROVE BootLocks(z)'
      <3>1. CASE z = b
        <4>1. boot'[b].step = "idle" BY <1>t, <2>1 DEF TypeOK
        <4> QED BY <3>1, <4>1 DEF BootLocks
      <3>2. CASE z # b
        <4>1. boot'[z] = boot[z] BY <1>t, <2>1, <3>2 DEF TypeOK
        <4> QED BY <2>2, <4>1, BootKept
      <3> QED BY <3>1, <3>2
    <2> QED BY <1>t, <2>2, <2>3 DEF LogInv
  <1>10. CASE UNCHANGED vars BY <1>10, <1>t, LogUntouched DEF vars
  <1> QED
    BY <1>1, <1>2, <1>3, <1>4, <1>5, <1>6, <1>7, <1>8, <1>9, <1>10 DEF Next

(* The status log ends in the status, but for doubled registrations.       *)
THEOREM LogIsTrue == Spec => []LogEndsInStatus
  <1>1. LogInv => LogEndsInStatus BY DEF LogInv, LogEndsInStatus
  <1> QED BY LogInit, LogStep, <1>1, PTL DEF Spec

-----------------------------------------------------------------------------
(* One booter at a time: both callers of                                   *)
(* get_live_strategies_for_risk_check (daily_pipeline.py) are tasks of the *)
(* solo Celery worker.                                                     *)
LoneBooter == \A a, b \in Booters : a = b

(* What a manager has read of its strategy is a row, and rows stay.        *)
FoundRow(m) ==
    tx[m] # NoTx /\ (tx[m].step \in {"gate", "write"} \/ tx[m].status # "none")
        => status[tx[m].s] # "none"

(* What a booter takes for a first registration is one.                    *)
FirstIsFirst(b) ==
    boot[b].step = "upsert" /\ boot[b].first => status[Bundle[boot[b].i]] = "none"

LoneInv ==
    /\ LogInv /\ doubled = {}
    /\ \A m \in Managers : FoundRow(m)
    /\ \A b \in Booters : FirstIsFirst(b)

LEMMA LoneInit == Init => LoneInv
  BY LogInit DEF Init, LoneInv, FoundRow, FirstIsFirst, AtHome

(* A row is never deleted, and only a booter's commit writes a first one.  *)
LEMMA RowsStay ==
  ASSUME LoneInv, [Next]_vars, NEW s \in Strategies
  PROVE  /\ status[s] # "none" => status'[s] # "none"
         /\ status[s] = "none" /\ (\A b \in Booters : ~CommitBoot(b))
              => status'[s] = "none"
  <1>t. TypeOK BY DEF LoneInv, LogInv
  <1>1. CASE UNCHANGED status BY <1>1
  <1>2. ASSUME NEW m \in Managers, Commit(m), tx[m].status # "none",
               status' = [status EXCEPT ![tx[m].s] = tx[m].status]
        PROVE  (status[s] = "none") = (status'[s] = "none")
    <2>1. tx[m] \in Open /\ tx[m] # NoTx /\ tx[m].s \in Strategies
      BY <1>t, <1>2, TxOf DEF Commit, Open
    <2>2. status[tx[m].s] # "none" BY <1>2, <2>1 DEF LoneInv, FoundRow
    <2> QED BY <1>t, <1>2, <2>1, <2>2 DEF TypeOK
  <1>3. ASSUME NEW b \in Booters, CommitBoot(b)
        PROVE  status[s] # "none" => status'[s] # "none"
    <2>1. status' = [x \in Strategies |-> Stored(b, x)] BY <1>3 DEF CommitBoot
    <2> HIDE DEF CommitBoot
    <2>2. status[s] # "none" => Stored(b, s) = status[s] BY DEF Stored
    <2> QED BY <2>1, <2>2
  <1>4. \/ UNCHANGED status
        \/ \E m \in Managers :
             /\ Commit(m) /\ tx[m].status # "none"
             /\ status' = [status EXCEPT ![tx[m].s] = tx[m].status]
        \/ \E b \in Booters : CommitBoot(b)
    BY DEF Next, vars, NextDay, Begin, Record, ReadStatus, Gate, WriteStatus,
           Commit, Rollback, StartBoot, Upsert, List, FailBoot
  <1> QED BY <1>1, <1>2, <1>3, <1>4

LEMMA FoundStep ==
  ASSUME LoneInv, [Next]_vars, NEW m \in Managers
  PROVE  FoundRow(m)'
  <1>t. TypeOK /\ TypeOK' BY TypeStep DEF LoneInv, LogInv
  <1>s. \A s \in Strategies : status[s] # "none" => status'[s] # "none" BY RowsStay
  <1>1. CASE tx'[m] = tx[m]
    <2>1. tx[m] # NoTx => tx[m].s \in Strategies BY <1>t, TxOf DEF Open
    <2> QED BY <1>1, <1>s, <2>1 DEF LoneInv, FoundRow
  <1>2. ASSUME tx'[m].step = "open" /\ tx'[m].status = "none" PROVE FoundRow(m)'
    BY <1>2 DEF FoundRow
  <1>3. CASE \/ \E s \in Strategies : Begin(m, s)
             \/ \E passed \in BOOLEAN : Record(m, passed)
    <2>1. tx'[m].step = "open" /\ tx'[m].status = "none"
      BY <1>3, <1>t, TxOf DEF Begin, Record, TypeOK, Open
    <2> QED BY <1>2, <2>1
  <1>4. CASE \/ \E target \in Statuses \cup {Live} : ReadStatus(m, target)
             \/ Gate(m) \/ WriteStatus(m)
    <2>1. tx[m] \in Open /\ tx[m] # NoTx
      BY <1>4, <1>t, TxOf DEF ReadStatus, Gate, WriteStatus
    <2>2. status[tx[m].s] # "none"
      BY <1>4, <2>1 DEF ReadStatus, Seen, Gate, WriteStatus, LoneInv, FoundRow
    <2>3. UNCHANGED status BY <1>4 DEF ReadStatus, Gate, WriteStatus
    <2>4. tx'[m].s = tx[m].s
      <3>1. CASE \E target \in Statuses \cup {Live} : ReadStatus(m, target)
        BY <3>1, <1>t, <2>1 DEF ReadStatus, TypeOK, Open
      <3>2. CASE Gate(m) BY <3>2, <1>t, <2>1 DEF Gate, TypeOK, Open
      <3>3. CASE WriteStatus(m) BY <3>3, <1>t, <2>1 DEF WriteStatus, TypeOK, Open
      <3> QED BY <1>4, <3>1, <3>2, <3>3
    <2> QED BY <2>2, <2>3, <2>4 DEF FoundRow
  <1>5. CASE Commit(m) \/ Rollback(m)
    <2>1. EndTx(m) BY <1>5 DEF Commit, Rollback
    <2>2. tx'[m] = NoTx BY <1>t, <2>1, EndTxTypes
    <2> QED BY <2>2 DEF FoundRow
  <1>6. ASSUME NEW z \in Managers \ {m},
               \/ \E s \in Strategies : Begin(z, s)
               \/ \E passed \in BOOLEAN : Record(z, passed)
               \/ \E target \in Statuses \cup {Live} : ReadStatus(z, target)
               \/ Gate(z) \/ WriteStatus(z) \/ Commit(z) \/ Rollback(z)
        PROVE  tx'[m] = tx[m]
    <2>1. CASE Commit(z) \/ Rollback(z)
      <3>1. EndTx(z) BY <2>1 DEF Commit, Rollback
      <3> QED BY <1>t, <1>6, <3>1, EndTxTypes
    <2>2. CASE \/ \E s \in Strategies : Begin(z, s)
               \/ \E passed \in BOOLEAN : Record(z, passed)
               \/ \E target \in Statuses \cup {Live} : ReadStatus(z, target)
      BY <1>6, <1>t, <2>2 DEF Begin, Record, ReadStatus, TypeOK
    <2>3. CASE Gate(z) \/ WriteStatus(z)
      BY <1>6, <1>t, <2>3 DEF Gate, WriteStatus, TypeOK
    <2> QED BY <1>6, <2>1, <2>2, <2>3
  <1>7. CASE NextDay \/ UNCHANGED vars BY <1>7, <1>1 DEF NextDay, vars
  <1>8. ASSUME NEW b \in Booters,
               StartBoot(b) \/ Upsert(b) \/ CommitBoot(b) \/ List(b) \/ FailBoot(b)
        PROVE  FoundRow(m)'
    BY <1>8, <1>1 DEF StartBoot, Upsert, CommitBoot, List, FailBoot
  <1> QED BY <1>1, <1>3, <1>4, <1>5, <1>6, <1>7, <1>8 DEF Next

LEMMA FirstStep ==
  ASSUME LoneBooter, LoneInv, [Next]_vars, NEW b \in Booters
  PROVE  FirstIsFirst(b)'
  <1>t. TypeOK BY DEF LoneInv, LogInv
  <1>1. CASE boot'[b] = boot[b] /\ \A c \in Booters : ~CommitBoot(c)
    <2>1. boot[b].step = "upsert" => Bundle[boot[b].i] \in Strategies
      BY <1>t, BootOf, BundleOf
    <2> QED BY <1>1, <2>1, RowsStay DEF LoneInv, FirstIsFirst
  <1>2. CASE CommitBoot(b) \/ List(b) \/ FailBoot(b)
    <2>1. boot'[b].step # "upsert"
      BY <1>2, <1>t DEF CommitBoot, List, FailBoot, AtHome, TypeOK
    <2> QED BY <2>1 DEF FirstIsFirst
  <1>3. ASSUME NEW i \in 1..Len(Bundle), NEW fresh \in SUBSET Strategies,
               Look(b, i, fresh), UNCHANGED status
        PROVE  FirstIsFirst(b)'
    BY <1>3, <1>t, LookTypes DEF FirstIsFirst
  <1>4. CASE StartBoot(b) BY <1>4, <1>3, BundleOf DEF StartBoot
  <1>5. CASE Upsert(b)
    <2>1. /\ boot[b].i \in 1..Len(Bundle) /\ Bundle[boot[b].i] \in Strategies
          /\ boot[b].fresh \subseteq Strategies /\ UNCHANGED status
      BY <1>5, <1>t, BootOf, BundleOf DEF Upsert
    <2>2. PICK fresh \in SUBSET Strategies :
            IF boot[b].i < Len(Bundle) THEN Look(b, boot[b].i + 1, fresh)
            ELSE boot' = [boot EXCEPT ![b] = [step |-> "commit", fresh |-> fresh]]
      BY <1>5, <2>1 DEF Upsert
    <2>3. CASE boot[b].i < Len(Bundle)
      <3>1. boot[b].i + 1 \in 1..Len(Bundle) BY <2>1, <2>3, BundleOf
      <3> QED BY <1>3, <2>1, <2>2, <2>3, <3>1
    <2>4. CASE ~(boot[b].i < Len(Bundle))
      <3>1. boot'[b].step = "commit" BY <1>t, <2>2, <2>4 DEF TypeOK
      <3> QED BY <3>1 DEF FirstIsFirst
    <2> QED BY <2>3, <2>4
  <1>6. \/ UNCHANGED <<boot, status>>
        \/ \E m \in Managers : Commit(m) /\ UNCHANGED boot
        \/ \E c \in Booters : \/ StartBoot(c) \/ Upsert(c) \/ CommitBoot(c)
                              \/ List(c) \/ FailBoot(c)
    BY DEF Next, vars, NextDay, Begin, Record, ReadStatus, Gate, WriteStatus,
           Commit, Rollback
  <1>7. \A c \in Booters : c = b BY DEF LoneBooter
  <1>8. CASE UNCHANGED boot
    <2>1. \A c \in Booters : ~CommitBoot(c)
      <3> SUFFICES ASSUME NEW c \in Booters, CommitBoot(c) PROVE FALSE OBVIOUS
      <3>1. boot[c].step = "commit" /\ boot'[c].step = "list"
        BY <1>t DEF CommitBoot, TypeOK
      <3> QED BY <1>8, <3>1
    <2> QED BY <1>1, <1>8, <2>1
  <1> QED BY <1>2, <1>4, <1>5, <1>6, <1>7, <1>8

LEMMA LoneStep == LoneBooter /\ LoneInv /\ [Next]_vars => LoneInv'
  <1> SUFFICES ASSUME LoneBooter, LoneInv, [Next]_vars PROVE LoneInv' OBVIOUS
  <1>1. LogInv' BY LogStep DEF LoneInv
  <1>2. ASSUME NEW b \in Booters, Upsert(b) PROVE doubled' = doubled
    BY <1>2 DEF Upsert, LoneInv, FirstIsFirst
  <1>3. doubled' = doubled
    BY <1>2 DEF Next, vars, NextDay, Begin, Record, ReadStatus, Gate, WriteStatus,
           Commit, Rollback, StartBoot, CommitBoot, List, FailBoot
  <1> QED BY <1>1, <1>3, FoundStep, FirstStep DEF LoneInv

(* With one booter at a time the status log ends in the status, whatever   *)
(* managers change meanwhile and whichever transactions are undone.        *)
THEOREM LoneBooterLogsTruth ==
    LoneBooter => (Spec => [](\A s \in Strategies : log[s] = status[s]))
  <1>1. LoneInv => \A s \in Strategies : log[s] = status[s]
    BY DEF LoneInv, LogInv
  <1> SUFFICES ASSUME LoneBooter
               PROVE  Spec => [](\A s \in Strategies : log[s] = status[s])
      OBVIOUS
  <1>2. LoneInv /\ [Next]_vars => LoneInv' BY LoneStep
  <1> QED BY LoneInit, <1>1, <1>2, PTL DEF Spec

-----------------------------------------------------------------------------
(* A transaction that is about to set a strategy live has looked at the    *)
(* verdict that is still the newest, or was overtaken.                     *)
Decided(m) ==
    \/ m \in overlap
    \/ Good(Latest(newest[tx[m].s] \cup tx[m].verdict))

GateInv ==
    /\ TypeOK
    /\ \A m \in Managers : tx[m] # NoTx =>
         /\ tx[m].step = "gate" => tx[m].status # Live
         /\ tx[m].step = "write" /\ tx[m].target = Live => Decided(m)
         /\ tx[m].status = Live => Decided(m)

LEMMA GateInit == Init => GateInv
  BY TypeInit DEF Init, GateInv

LEMMA LatestOfLatest ==
  ASSUME NEW A, NEW B
  PROVE  Latest(A \cup B) \subseteq Latest(Latest(A) \cup B)
  BY DEF Latest

(* A transaction that is left alone, with the verdicts it looked at.       *)
LEMMA DecidedKept ==
  ASSUME NEW z \in Managers, tx'[z] = tx[z], z \in overlap => z \in overlap',
         newest' = newest, day' = day, Decided(z)
  PROVE  Decided(z)'
  BY DEF Decided, Good, Latest

LEMMA GateKept ==
  ASSUME GateInv, NEW z \in Managers, tx'[z] = tx[z],
         z \in overlap => z \in overlap', newest' = newest, day' = day
  PROVE  (tx[z] # NoTx =>
           /\ tx[z].step = "gate" => tx[z].status # Live
           /\ tx[z].step = "write" /\ tx[z].target = Live => Decided(z)
           /\ tx[z].status = Live => Decided(z))'
  BY DecidedKept DEF GateInv

LEMMA GateStep == GateInv /\ [Next]_vars => GateInv'
  <1> SUFFICES ASSUME GateInv, [Next]_vars PROVE GateInv' OBVIOUS
  <1>t. TypeOK /\ TypeOK' BY TypeStep DEF GateInv
  <1>1. CASE NextDay
    <2>1. \A m \in Managers : tx'[m] = tx[m] /\ (tx[m] # NoTx => m \in overlap')
      BY <1>1 DEF NextDay
    <2> QED BY <1>t, <2>1 DEF GateInv, Decided
  <1>2. ASSUME NEW m \in Managers, NEW s \in Strategies, Begin(m, s) PROVE GateInv'
    <2> DEFINE r == [step |-> "open", s |-> s, at |-> txs, day |-> day,
                     verdict |-> {}, status |-> "none", target |-> Live]
    <2>1. tx' = [tx EXCEPT ![m] = r] /\ UNCHANGED <<newest, day, overlap>>
      BY <1>2 DEF Begin
    <2>2. r.step = "open" /\ r.status = "none" OBVIOUS
    <2> HIDE DEF r
    <2>3. tx'[m] = r /\ \A z \in Managers \ {m} : tx'[z] = tx[z]
      BY <1>t, <2>1 DEF TypeOK
    <2>4. tx'[m].step = "open" /\ tx'[m].status # Live BY <2>2, <2>3 DEF Live
    <2> QED BY <1>t, <2>1, <2>3, <2>4, GateKept DEF GateInv
  <1>3. ASSUME NEW m \in Managers, NEW passed \in BOOLEAN, Record(m, passed)
        PROVE  GateInv'
    <2>1. tx[m] \in Open /\ tx[m].status = "none" /\ tx[m].step = "open"
          /\ UNCHANGED <<newest, day, overlap>>
      BY <1>3, <1>t, TxOf DEF Record
    <2>2. PICK v : tx' = [tx EXCEPT ![m].verdict = v] BY <1>3 DEF Record
    <2>3. tx'[m].step = "open" /\ tx'[m].status = "none"
          /\ \A z \in Managers \ {m} : tx'[z] = tx[z]
      BY <1>t, <2>1, <2>2 DEF TypeOK, Open
    <2>4. tx'[m].status # Live BY <2>3 DEF Live
    <2> QED BY <1>t, <2>1, <2>3, <2>4, GateKept DEF GateInv
  <1>4. ASSUME NEW m \in Managers, NEW target \in Statuses \cup {Live},
               ReadStatus(m, target)
        PROVE  GateInv'
    <2>1. tx[m] \in Open /\ tx[m] # NoTx /\ tx[m].step = "open"
          /\ Seen(m) # target /\ UNCHANGED <<newest, day, overlap>>
          /\ tx' = [tx EXCEPT ![m].step = IF target = Live THEN "gate" ELSE "write",
                              ![m].target = target]
      BY <1>4, <1>t, TxOf DEF ReadStatus
    <2>2. /\ tx'[m].step = (IF target = Live THEN "gate" ELSE "write")
          /\ tx'[m].target = target /\ tx'[m].status = tx[m].status
          /\ tx'[m].s = tx[m].s /\ tx'[m].verdict = tx[m].verdict
          /\ \A z \in Managers \ {m} : tx'[z] = tx[z]
      BY <1>t, <2>1 DEF TypeOK, Open
    <2>3. tx'[m].step = "gate" => tx'[m].status # Live
      BY <2>1, <2>2 DEF Seen, Live
    <2>4. ~(tx'[m].step = "write" /\ tx'[m].target = Live) BY <2>2
    <2>5. tx'[m].status = Live => Decided(m)'
      BY <2>1, <2>2 DEF GateInv, Decided, Good, Latest
    <2> QED BY <1>t, <2>1, <2>2, <2>3, <2>4, <2>5, GateKept DEF GateInv
  <1>5. ASSUME NEW m \in Managers, Gate(m) PROVE GateInv'
    <2>1. tx[m] \in Open /\ tx[m] # NoTx /\ tx[m].step = "gate"
          /\ overlap' = overlap \ {m} /\ UNCHANGED <<newest, day>>
          /\ tx' = [tx EXCEPT ![m].step =
                      IF Good(Latest(newest[tx[m].s] \cup tx[m].verdict))
                      THEN "write" ELSE "open"]
      BY <1>5, <1>t, TxOf DEF Gate
    <2>2. /\ tx'[m].step = (IF Good(Latest(newest[tx[m].s] \cup tx[m].verdict))
                            THEN "write" ELSE "open")
          /\ tx'[m].status = tx[m].status
          /\ tx'[m].s = tx[m].s /\ tx'[m].verdict = tx[m].verdict
          /\ \A z \in Managers \ {m} : tx'[z] = tx[z]
      BY <1>t, <2>1 DEF TypeOK, Open
    <2>3. tx'[m].status # Live BY <2>1, <2>2 DEF GateInv
    <2>4. tx'[m].step = "write" => Decided(m)'
      BY <2>1, <2>2 DEF Decided, Good, Latest
    <2>5. tx'[m].step # "gate" BY <2>2
    <2>6. \A z \in Managers \ {m} : z \in overlap => z \in overlap' BY <2>1
    <2> QED BY <1>t, <2>1, <2>2, <2>3, <2>4, <2>5, <2>6, GateKept DEF GateInv
  <1>6. ASSUME NEW m \in Managers, WriteStatus(m) PROVE GateInv'
    <2>1. tx[m] \in Open /\ tx[m] # NoTx /\ tx[m].step = "write"
          /\ UNCHANGED <<newest, day, overlap>>
          /\ tx' = [tx EXCEPT ![m].step = "open", ![m].target = Live,
                              ![m].status = tx[m].target]
      BY <1>6, <1>t, TxOf DEF WriteStatus
    <2>2. /\ tx'[m].step = "open" /\ tx'[m].status = tx[m].target
          /\ tx'[m].s = tx[m].s /\ tx'[m].verdict = tx[m].verdict
          /\ \A z \in Managers \ {m} : tx'[z] = tx[z]
      BY <1>t, <2>1 DEF TypeOK, Open
    <2>3. tx'[m].status = Live => Decided(m)'
      <3>1. tx[m].target = Live => Decided(m) BY <2>1 DEF GateInv
      <3>2. Decided(m) => Decided(m)' BY <2>1, <2>2 DEF Decided, Good, Latest
      <3> QED BY <2>2, <3>1, <3>2
    <2> QED BY <1>t, <2>1, <2>2, <2>3, GateKept DEF GateInv
  <1>7. ASSUME NEW m \in Managers, Rollback(m) PROVE GateInv'
    <2>1. EndTx(m) /\ overlap' = overlap \ {m} /\ UNCHANGED <<newest, day>>
      BY <1>7 DEF Rollback
    <2>2. tx'[m] = NoTx /\ \A z \in Managers \ {m} : tx'[z] = tx[z]
      BY <1>t, <2>1, EndTxTypes
    <2>3. \A z \in Managers \ {m} : z \in overlap => z \in overlap' BY <2>1
    <2> QED BY <1>t, <2>1, <2>2, <2>3, GateKept DEF GateInv
  <1>8. ASSUME NEW m \in Managers, Commit(m) PROVE GateInv'
    <2>1. /\ EndTx(m) /\ day' = day
          /\ overlap' = (overlap \cup Overtaken(m)) \ {m}
          /\ newest' = [newest EXCEPT ![tx[m].s] = Latest(@ \cup tx[m].verdict)]
      BY <1>8 DEF Commit
    <2>2. tx'[m] = NoTx /\ \A z \in Managers \ {m} : tx'[z] = tx[z]
      BY <1>t, <2>1, EndTxTypes
    <2>3. ASSUME NEW z \in Managers \ {m}, tx[z] # NoTx, Decided(z)
          PROVE  Decided(z)'
      <3>1. tx[z].s \in Strategies BY <1>t, <2>3, TxOf DEF Open
      <3>2. CASE z \in overlap BY <2>1, <3>2 DEF Decided
      <3>3. CASE tx[z].s = tx[m].s /\ tx[m].verdict # {}
        BY <2>1, <2>3, <3>3 DEF Decided, Overtaken
      <3>4. CASE z \notin overlap /\ tx[m].verdict = {}
        <4>1. Good(Latest(newest[tx[z].s] \cup tx[z].verdict))
          BY <2>3, <3>4 DEF Decided
        <4>2. newest'[tx[z].s] = newest[tx[z].s]
              \/ newest'[tx[z].s] = Latest(newest[tx[z].s])
          BY <1>t, <2>1, <3>1, <3>4 DEF TypeOK
        <4>3. Good(Latest(Latest(newest[tx[z].s]) \cup tx[z].verdict))
          <5>1. Latest(newest[tx[z].s] \cup tx[z].verdict)
                  \subseteq Latest(Latest(newest[tx[z].s]) \cup tx[z].verdict)
            BY LatestOfLatest
          <5> QED BY <4>1, <5>1 DEF Good
        <4>4. Good(Latest(newest'[tx[z].s] \cup tx[z].verdict))
          BY <4>1, <4>2, <4>3
        <4> QED BY <2>1, <2>2, <4>4 DEF Decided, Good, Latest
      <3>5. CASE z \notin overlap /\ tx[z].s # tx[m].s
        <4>1. Good(Latest(newest[tx[z].s] \cup tx[z].verdict))
          BY <2>3, <3>5 DEF Decided
        <4>2. newest'[tx[z].s] = newest[tx[z].s]
          BY <1>t, <2>1, <3>1, <3>5 DEF TypeOK
        <4>3. Good(Latest(newest'[tx[z].s] \cup tx[z].verdict))
          BY <4>1, <4>2
        <4> QED BY <2>1, <2>2, <4>3 DEF Decided, Good, Latest
      <3> QED BY <3>2, <3>3, <3>4, <3>5
    <2>4. ASSUME NEW z \in Managers, tx'[z] # NoTx
          PROVE  /\ tx'[z].step = "gate" => tx'[z].status # Live
                 /\ tx'[z].step = "write" /\ tx'[z].target = Live => Decided(z)'
                 /\ tx'[z].status = Live => Decided(z)'
      <3>1. z # m /\ tx'[z] = tx[z] BY <2>2, <2>4
      <3> QED BY <2>3, <2>4, <3>1 DEF GateInv
    <2> QED BY <1>t, <2>4 DEF GateInv
  <1>9. ASSUME NEW b \in Booters,
               StartBoot(b) \/ Upsert(b) \/ CommitBoot(b) \/ List(b) \/ FailBoot(b)
        PROVE  GateInv'
    <2>1. UNCHANGED <<tx, newest, day, overlap>>
      BY <1>9 DEF StartBoot, Upsert, CommitBoot, List, FailBoot
    <2> QED BY <1>t, <2>1, GateKept DEF GateInv
  <1>10. CASE UNCHANGED vars
    <2>1. UNCHANGED <<tx, newest, day, overlap>> BY <1>10 DEF vars
    <2> QED BY <1>t, <2>1, GateKept DEF GateInv
  <1> QED
    BY <1>1, <1>2, <1>3, <1>4, <1>5, <1>6, <1>7, <1>8, <1>9, <1>10 DEF Next

(* What a step that sets a strategy live shows.                            *)
GoesLive(s) ==
    status[s] # Live /\ status'[s] = Live =>
        \/ \E v \in newest'[s] : v.passed /\ day - v.day <= Freshness
        \/ status[s] = "none" /\ Declared[s] = Live
        \/ \E m \in overlap : tx[m].s = s

LEMMA LiveStep ==
  ASSUME GateInv, [Next]_vars, NEW s \in Strategies
  PROVE  GoesLive(s)
  <1>t. TypeOK BY DEF GateInv
  <1>1. CASE status' = status BY <1>1 DEF GoesLive
  <1>2. ASSUME NEW m \in Managers, Commit(m) PROVE GoesLive(s)
    <2>1. SUFFICES ASSUME status[s] # Live, status'[s] = Live PROVE GoesLive(s)
      BY DEF GoesLive
    <2>2. /\ tx[m].status # "none"
          /\ status' = [status EXCEPT ![tx[m].s] = tx[m].status]
          /\ newest' = [newest EXCEPT ![tx[m].s] = Latest(@ \cup tx[m].verdict)]
      BY <1>2, <2>1 DEF Commit
    <2>3. tx[m] \in Open /\ tx[m] # NoTx /\ tx[m].s \in Strategies
      BY <1>2, <1>t, TxOf DEF Commit, Open
    <2>4. s = tx[m].s /\ tx[m].status = Live
      BY <1>t, <2>1, <2>2, <2>3 DEF TypeOK
    <2>5. newest'[s] = Latest(newest[tx[m].s] \cup tx[m].verdict)
      BY <1>t, <2>2, <2>3, <2>4 DEF TypeOK
    <2>6. Decided(m) BY <2>3, <2>4 DEF GateInv
    <2> QED BY <2>4, <2>5, <2>6 DEF Decided, Good, GoesLive
  <1>3. ASSUME NEW b \in Booters, CommitBoot(b) PROVE GoesLive(s)
    BY <1>3 DEF CommitBoot, Stored, GoesLive
  <1> QED
    BY <1>1, <1>2, <1>3 DEF Next, NextDay, Begin, Record, ReadStatus, Gate,
       WriteStatus, Rollback, StartBoot, Upsert, List, FailBoot, vars

(* No strategy goes live without a fresh verdict that passed, but in the   *)
(* ways named.                                                             *)
THEOREM LiveIsEvaluated == Spec => GoesLiveEvaluated
  <1>1. GateInv /\ [Next]_vars =>
          [\A s \in Strategies :
             status[s] # Live /\ status'[s] = Live =>
               \/ \E v \in newest'[s] : v.passed /\ day - v.day <= Freshness
               \/ status[s] = "none" /\ Declared[s] = Live
               \/ \E m \in overlap : tx[m].s = s]_vars
    BY LiveStep DEF GoesLive
  <1> QED BY GateInit, GateStep, <1>1, PTL DEF Spec, GoesLiveEvaluated
=============================================================================
