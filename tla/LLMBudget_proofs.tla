-------------------------- MODULE LLMBudget_proofs --------------------------
(***************************************************************************)
(* Proofs about LLMBudget: types, one router per process, and the bounds   *)
(* on the booked cost and on the paid cost of a month, for any number of   *)
(* callers and processes.  The sum of the costs that are not booked yet is *)
(* taken as the size of a set of units.                                    *)
(***************************************************************************)
EXTENDS LLMBudget, FiniteSetTheorems, TLAPS

LEMMA HomeOf == \A c \in Callers : Home[c] \in Processes
  BY DEF Processes

LEMMA AtCalls ==
  ASSUME NEW step \in {"idle", "lock", "checked", "answered"},
         NEW capped \in BOOLEAN, NEW cost \in 0..MaxCost
  PROVE  /\ At(step, capped, cost) \in Calls
         /\ At(step, capped, cost).step = step
         /\ At(step, capped, cost).capped = capped
         /\ At(step, capped, cost).cost = cost
  BY DEF At, Calls

LEMMA IdleCalls ==
  Idle \in Calls /\ Idle.step = "idle" /\ ~Idle.capped /\ Idle.cost = 0
  <1>1. 0 \in 0..MaxCost BY BudgetAssumption
  <1> QED BY <1>1 DEF Idle, At, Calls

LEMMA TypeInit == Init => TypeOK
  <1> SUFFICES ASSUME Init PROVE TypeOK OBVIOUS
  <1>1. \A c \in Callers : call[c] = Idle BY DEF Init
  <1>2. call \in [Callers -> Calls] BY IdleCalls DEF Init
  <1>3. lost \in 0..MaxLost /\ months \in 0..MaxMonths
    BY BudgetAssumption DEF Init
  <1> QED BY <1>1, <1>2, <1>3, IdleCalls DEF Init, TypeOK

LEMMA LoseTypes ==
  ASSUME TypeOK, NEW n \in Nat, Lose(n)
  PROVE  lost' \in 0..MaxLost
  BY BudgetAssumption, SMT DEF Lose, TypeOK

LEMMA GapNat == ASSUME NEW c, NEW hidden PROVE Gap(c, hidden) \in Nat
  BY DEF Gap

(* A caller that moves, and nobody else.                                   *)
LEMMA GoTypes ==
  ASSUME TypeOK, NEW c \in Callers, NEW a \in Calls, Go(c, a)
  PROVE  /\ call' \in [Callers -> Calls] /\ call'[c] = a
         /\ \A x \in Callers \ {c} : call'[x] = call[x]
  BY DEF Go, TypeOK

LEMMA AnsweredCall ==
  ASSUME TypeOK, NEW c \in Callers, NEW cost \in 0..MaxCost,
         NEW hidden \in 0..MaxCost, cost + hidden <= Limit(c)
  PROVE  /\ At("answered", call[c].capped, cost) \in Calls
         /\ call[c].capped => cost = 0
         /\ call[c].capped \in BOOLEAN
  <1>1. call[c].capped \in BOOLEAN BY DEF TypeOK, Calls
  <1>2. call[c].capped => cost = 0
    <2>1. CASE ~call[c].capped BY <2>1
    <2>2. CASE call[c].capped
      <3>1. cost + hidden <= 0 BY <2>2 DEF Limit
      <3> QED BY <3>1
    <2> QED BY <2>1, <2>2
  <1> QED BY <1>1, <1>2, AtCalls

LEMMA TypeStep == TypeOK /\ [Next]_vars => TypeOK'
  <1> SUFFICES ASSUME TypeOK, [Next]_vars PROVE TypeOK' OBVIOUS
  <1>i. Idle \in Calls /\ Idle.step = "idle" /\ ~Idle.capped /\ Idle.cost = 0
    BY IdleCalls
  <1>1. CASE NewMonth
    <2>1. months' \in 0..MaxMonths
      BY <1>1, BudgetAssumption, SMT DEF NewMonth, TypeOK
    <2>2. lost' \in 0..MaxLost BY <1>1, BudgetAssumption, SMT DEF NewMonth
    <2> QED BY <1>1, <2>1, <2>2 DEF NewMonth, TypeOK
  <1>2. ASSUME NEW p \in Processes, Restart(p) PROVE TypeOK'
    <2>1. lost' \in 0..MaxLost
      <3> DEFINE A == {c \in Callers : Home[c] = p /\ call[c].step = "answered"}
      <3>1. IsFiniteSet(A) BY FS_Subset, BudgetAssumption
      <3>2. Cardinality(A) \in Nat BY <3>1, FS_CardinalityType
      <3> QED BY <1>2, <3>2, LoseTypes DEF Restart
    <2>2. singleton' \in [Processes -> Routers \cup {NoRouter}]
      BY <1>2 DEF Restart, TypeOK
    <2>3. router' \in [Callers -> Routers \cup {NoRouter}]
      BY <1>2 DEF Restart, TypeOK
    <2>4. call' \in [Callers -> Calls] BY <1>2, <1>i DEF Restart, TypeOK
    <2>5. ASSUME NEW c \in Callers
          PROVE  /\ call'[c].step \in {"checked", "answered"} => router'[c] # NoRouter
                 /\ call'[c].capped => call'[c].cost = 0
      <3>1. CASE Home[c] = p
        <4>1. call'[c] = Idle BY <1>2, <3>1 DEF Restart
        <4> QED BY <1>i, <4>1
      <3>2. CASE Home[c] # p
        <4>1. call'[c] = call[c] /\ router'[c] = router[c]
          BY <1>2, <3>2 DEF Restart
        <4> QED BY <4>1 DEF TypeOK
      <3> QED BY <3>1, <3>2
    <2>6. UNCHANGED <<spent, paid, months>> BY <1>2 DEF Restart
    <2> QED BY <2>1, <2>2, <2>3, <2>4, <2>5, <2>6 DEF TypeOK
  <1>3. ASSUME NEW c \in Callers, GetRouter(c) PROVE TypeOK'
    <2>1. CASE singleton[Home[c]] = NoRouter
      <3>1. At("lock", FALSE, 0) \in Calls /\ At("lock", FALSE, 0).step = "lock"
            /\ ~At("lock", FALSE, 0).capped
        BY <1>i DEF Idle, At, Calls
      <3>2. Go(c, At("lock", FALSE, 0))
            /\ UNCHANGED <<router, singleton, spent, paid, lost, months>>
        BY <1>3, <2>1 DEF GetRouter
      <3>3. /\ call' \in [Callers -> Calls] /\ call'[c] = At("lock", FALSE, 0)
            /\ \A x \in Callers \ {c} : call'[x] = call[x]
        BY <3>1, <3>2, GoTypes
      <3> QED BY <3>1, <3>2, <3>3 DEF TypeOK
    <2>2. CASE singleton[Home[c]] # NoRouter
      <3>1. Give(c, singleton[Home[c]])
            /\ UNCHANGED <<call, singleton, spent, paid, lost, months>>
        BY <1>3, <2>2 DEF GetRouter
      <3>2. singleton[Home[c]] \in Routers \cup {NoRouter} BY HomeOf DEF TypeOK
      <3> QED BY <2>2, <3>1, <3>2 DEF Give, TypeOK
    <2> QED BY <2>1, <2>2
  <1>4. ASSUME NEW c \in Callers, BuildRouter(c) PROVE TypeOK'
    <2>1. Go(c, Idle) /\ UNCHANGED <<spent, paid, lost, months>>
      BY <1>4 DEF BuildRouter
    <2>2. \A r \in Routers \cup {NoRouter} :
            /\ [singleton EXCEPT ![Home[c]] = r]
                 \in [Processes -> Routers \cup {NoRouter}]
            /\ [router EXCEPT ![c] = r] \in [Callers -> Routers \cup {NoRouter}]
      BY DEF TypeOK
    <2>3. Build(c) \in Routers /\ singleton[Home[c]] \in Routers \cup {NoRouter}
      BY HomeOf DEF Build, Routers, TypeOK
    <2>4. /\ singleton' \in [Processes -> Routers \cup {NoRouter}]
          /\ router' \in [Callers -> Routers \cup {NoRouter}]
          /\ \A x \in Callers \ {c} : router'[x] = router[x]
      <3>1. CASE UNCHANGED <<singleton, router>> BY <3>1 DEF TypeOK
      <3>2. CASE \E r \in Routers \cup {NoRouter} :
                   /\ singleton' = [singleton EXCEPT ![Home[c]] = r]
                   /\ router' = [router EXCEPT ![c] = r]
        <4>1. PICK r \in Routers \cup {NoRouter} :
                     /\ singleton' = [singleton EXCEPT ![Home[c]] = r]
                     /\ router' = [router EXCEPT ![c] = r]
          BY <3>2
        <4>2. \A x \in Callers \ {c} : router'[x] = router[x] BY <4>1 DEF TypeOK
        <4> QED BY <2>2, <4>1, <4>2
      <3> QED BY <1>4, <2>3, <3>1, <3>2 DEF BuildRouter, Give
    <2>5. call' \in [Callers -> Calls] /\ call'[c] = Idle
          /\ \A x \in Callers \ {c} : call'[x] = call[x]
      BY <1>i, <2>1, GoTypes
    <2> QED BY <1>i, <2>1, <2>4, <2>5 DEF TypeOK
  <1>5. ASSUME NEW c \in Callers, Check(c) PROVE TypeOK'
    <2>1. router[c] # NoRouter /\ router[c] \in Routers
      BY <1>5 DEF Check, TypeOK
    <2>2. (Guarded(c) /\ Capped) \in BOOLEAN BY <2>1 DEF Guarded, Routers
    <2>3. PICK b \in BOOLEAN : b = (Guarded(c) /\ Capped) BY <2>2
    <2>4. Go(c, At("checked", b, 0)) BY <1>5, <2>3 DEF Check
    <2>5. 0 \in 0..MaxCost BY BudgetAssumption
    <2>6. At("checked", b, 0) \in Calls /\ At("checked", b, 0).cost = 0
      BY <2>5, AtCalls
    <2>7. call' \in [Callers -> Calls] /\ call'[c].cost = 0
          /\ \A x \in Callers \ {c} : call'[x] = call[x]
      BY <2>4, <2>6, GoTypes
    <2> QED BY <1>5, <2>1, <2>7 DEF Check, TypeOK
  <1>6. ASSUME NEW c \in Callers, Answer(c) PROVE TypeOK'
    <2>1. PICK cost \in 0..MaxCost, hidden \in 0..MaxCost :
            /\ cost + hidden <= Limit(c)
            /\ Lose(Gap(c, hidden))
            /\ Charge(c, cost + hidden)
            /\ Go(c, IF Guarded(c) THEN At("answered", call[c].capped, cost)
                                   ELSE Idle)
      BY <1>6 DEF Answer
    <2>2. lost' \in 0..MaxLost BY <2>1, GapNat, LoseTypes
    <2>3. paid' \in Nat BY <2>1, BudgetAssumption, SMT DEF Charge, TypeOK
    <2>4. /\ At("answered", call[c].capped, cost) \in Calls
          /\ call[c].capped => cost = 0
          /\ call[c].capped \in BOOLEAN
      BY <2>1, AnsweredCall
    <2>5. At("answered", call[c].capped, cost).capped = call[c].capped
          /\ At("answered", call[c].capped, cost).cost = cost
      BY DEF At
    <2>6. call' \in [Callers -> Calls]
          /\ (call'[c].capped => call'[c].cost = 0)
          /\ \A x \in Callers \ {c} : call'[x] = call[x]
      BY <1>i, <2>1, <2>4, <2>5, GoTypes
    <2>7. router[c] # NoRouter /\ UNCHANGED <<singleton, router, spent, months>>
      BY <1>6 DEF Answer, TypeOK
    <2> QED BY <2>2, <2>3, <2>6, <2>7 DEF TypeOK
  <1>7. ASSUME NEW c \in Callers, AllFail(c) PROVE TypeOK'
    <2>1. PICK hidden \in 0..MaxCost : Lose(Gap(c, hidden)) /\ Charge(c, hidden)
      BY <1>7 DEF AllFail
    <2>2. lost' \in 0..MaxLost BY <2>1, GapNat, LoseTypes
    <2>3. paid' \in Nat BY <2>1, BudgetAssumption, SMT DEF Charge, TypeOK
    <2>4. call' \in [Callers -> Calls] /\ call'[c] = Idle
          /\ \A x \in Callers \ {c} : call'[x] = call[x]
      BY <1>7, <1>i, GoTypes DEF AllFail
    <2> QED BY <1>7, <1>i, <2>2, <2>3, <2>4 DEF AllFail, TypeOK
  <1>8. ASSUME NEW c \in Callers, RecordCost(c) PROVE TypeOK'
    <2>1. call' \in [Callers -> Calls] /\ call'[c] = Idle
          /\ \A x \in Callers \ {c} : call'[x] = call[x]
      BY <1>8, <1>i, GoTypes DEF RecordCost
    <2>2. lost' \in 0..MaxLost BY <1>8, LoseTypes DEF RecordCost, TypeOK
    <2>3. call[c].cost \in Nat BY BudgetAssumption DEF TypeOK, Calls
    <2>4. spent' \in Nat BY <1>8, <2>3 DEF RecordCost, TypeOK
    <2> QED BY <1>8, <1>i, <2>1, <2>2, <2>4 DEF RecordCost, TypeOK
  <1>9. CASE UNCHANGED vars BY <1>9 DEF vars, TypeOK
  <1> QED BY <1>1, <1>2, <1>3, <1>4, <1>5, <1>6, <1>7, <1>8, <1>9 DEF Next

(* Types: a capped call costs nothing.                                     *)
THEOREM Types == Spec => []TypeOK
  BY TypeInit, TypeStep, PTL DEF Spec

-----------------------------------------------------------------------------
(* A router knows the process that built it, and whether it was asked for a*)
(* guard; the callers of a process have its router.                        *)
RouterInv ==
    /\ TypeOK
    /\ \A p \in Processes :
         singleton[p] # NoRouter =>
             /\ Home[singleton[p].by] = p
             /\ singleton[p].by \in Asks => singleton[p].guarded
    /\ \A c \in Callers : router[c] # NoRouter => router[c] = singleton[Home[c]]

LEMMA RouterInit == Init => RouterInv
  BY TypeInit DEF Init, RouterInv

LEMMA RouterStep == RouterInv /\ [Next]_vars => RouterInv'
  <1> SUFFICES ASSUME RouterInv, [Next]_vars PROVE RouterInv' OBVIOUS
  <1>t. TypeOK /\ TypeOK' BY TypeStep DEF RouterInv
  <1>1. CASE UNCHANGED <<singleton, router>>
    BY <1>1, <1>t DEF RouterInv
  <1>2. ASSUME NEW p \in Processes, Restart(p) PROVE RouterInv'
    <2>1. singleton' = [singleton EXCEPT ![p] = NoRouter]
          /\ router' = [c \in Callers |-> IF Home[c] = p THEN NoRouter ELSE router[c]]
      BY <1>2 DEF Restart
    <2>2. singleton'[p] = NoRouter
          /\ \A q \in Processes \ {p} : singleton'[q] = singleton[q]
      BY <2>1, <1>t DEF TypeOK
    <2>3. ASSUME NEW c \in Callers, router'[c] # NoRouter
          PROVE  router'[c] = singleton'[Home[c]]
      <3>1. Home[c] \in Processes \ {p} /\ router'[c] = router[c]
        BY <2>1, <2>3, HomeOf
      <3> QED BY <2>2, <2>3, <3>1 DEF RouterInv
    <2> QED BY <1>t, <2>2, <2>3 DEF RouterInv
  <1>3. ASSUME NEW c \in Callers, GetRouter(c) PROVE RouterInv'
    <2>1. CASE UNCHANGED router
      BY <1>1, <1>3, <2>1 DEF GetRouter
    <2>2. CASE router' = [router EXCEPT ![c] = singleton[Home[c]]]
      <3>1. singleton' = singleton BY <1>3 DEF GetRouter
      <3>2. \A x \in Callers : router'[x] # NoRouter => router'[x] = singleton'[Home[x]]
        BY <2>2, <3>1, <1>t DEF RouterInv, TypeOK
      <3> QED BY <1>t, <3>1, <3>2 DEF RouterInv
    <2> QED BY <1>3, <2>1, <2>2 DEF GetRouter, Give
  <1>4. ASSUME NEW c \in Callers, BuildRouter(c) PROVE RouterInv'
    <2>1. CASE UNCHANGED <<singleton, router>> BY <1>1, <2>1
    <2>2. CASE Missing(c) /\ singleton' = [singleton EXCEPT ![Home[c]] = Build(c)]
               /\ router' = [router EXCEPT ![c] = Build(c)]
      <3>1. Home[c] \in Processes BY HomeOf
      <3>2. singleton'[Home[c]] = Build(c) /\ router'[c] = Build(c)
            /\ (\A q \in Processes \ {Home[c]} : singleton'[q] = singleton[q])
            /\ (\A x \in Callers \ {c} : router'[x] = router[x])
        BY <2>2, <3>1, <1>t DEF TypeOK
      <3>3. Build(c).by = c /\ (c \in Asks => Build(c).guarded) BY DEF Build
      <3>4. \A x \in Callers : Home[x] = Home[c] => router[x] = NoRouter
        BY <2>2 DEF Missing, RouterInv
      <3>5. ASSUME NEW x \in Callers, router'[x] # NoRouter
            PROVE  router'[x] = singleton'[Home[x]]
        <4>1. CASE x = c BY <3>2, <4>1
        <4>2. CASE x # c
          <5>1. router'[x] = router[x] BY <3>2, <4>2
          <5>2. Home[x] \in Processes \ {Home[c]} BY <3>4, <3>5, <5>1, HomeOf
          <5> QED BY <3>2, <3>5, <5>1, <5>2 DEF RouterInv
        <4> QED BY <4>1, <4>2
      <3>6. ASSUME NEW q \in Processes, singleton'[q] # NoRouter
            PROVE  /\ Home[singleton'[q].by] = q
                   /\ singleton'[q].by \in Asks => singleton'[q].guarded
        <4>1. CASE q = Home[c] BY <3>2, <3>3, <4>1
        <4>2. CASE q # Home[c] BY <3>2, <3>6, <4>2 DEF RouterInv
        <4> QED BY <4>1, <4>2
      <3> QED BY <1>t, <3>5, <3>6 DEF RouterInv
    <2>3. CASE ~Missing(c) /\ singleton' = [singleton EXCEPT ![Home[c]] = singleton[Home[c]]]
               /\ router' = [router EXCEPT ![c] = singleton[Home[c]]]
      <3>1. singleton' = singleton BY <2>3, <1>t, HomeOf DEF TypeOK
      <3>2. \A x \in Callers : router'[x] # NoRouter => router'[x] = singleton'[Home[x]]
        BY <2>3, <3>1, <1>t DEF RouterInv, TypeOK
      <3> QED BY <1>t, <3>1, <3>2 DEF RouterInv
    <2> QED BY <1>4, <2>1, <2>2, <2>3 DEF BuildRouter, Give
  <1>5. ASSUME NEW c \in Callers,
               Check(c) \/ Answer(c) \/ AllFail(c) \/ RecordCost(c)
        PROVE  RouterInv'
    BY <1>1, <1>5 DEF Check, Answer, AllFail, RecordCost
  <1>6. CASE NewMonth BY <1>1, <1>6 DEF NewMonth
  <1>7. CASE UNCHANGED vars BY <1>1, <1>7 DEF vars
  <1> QED BY <1>2, <1>3, <1>4, <1>5, <1>6, <1>7 DEF Next

(* A process has one router, and the guard is missing from a caller's only *)
(* if a caller that did not ask for it was first.                          *)
THEOREM RouterIsShared == Spec => []OneRouter
  <1>1. RouterInv => OneRouter
    <2> SUFFICES ASSUME RouterInv, NEW c \in Callers, router[c] # NoRouter
                 PROVE  /\ router[c] = singleton[Home[c]]
                        /\ c \in Asks /\ ~router[c].guarded =>
                             /\ Home[router[c].by] = Home[c]
                             /\ router[c].by \notin Asks
      BY DEF OneRouter
    <2> QED BY HomeOf DEF RouterInv
  <1> QED BY RouterInit, RouterStep, <1>1, PTL DEF Spec

-----------------------------------------------------------------------------
(* Callers that passed the check below the cap and have not booked.        *)
Flying ==
    {c \in Callers : /\ call[c].step \in {"checked", "answered"}
                     /\ Guarded(c) /\ ~call[c].capped}

(* Only a guarded call has anything to book.                               *)
Books == TypeOK /\ \A c \in Callers : call[c].step = "answered" => Guarded(c)

LEMMA BooksInit == Init => Books
  BY TypeInit, IdleCalls DEF Init, Books

LEMMA BooksStep == Books /\ [Next]_vars => Books'
  <1> SUFFICES ASSUME Books, [Next]_vars PROVE Books' OBVIOUS
  <1>t. TypeOK /\ TypeOK' BY TypeStep DEF Books
  <1>i. Idle.step = "idle" BY IdleCalls
  <1>1. CASE NewMonth \/ UNCHANGED vars
    BY <1>1, <1>t DEF NewMonth, vars, Books, Guarded
  <1>2. ASSUME NEW p \in Processes, Restart(p) PROVE Books'
    <2>1. ASSUME NEW c \in Callers, call'[c].step = "answered"
          PROVE  router'[c].guarded
      <3>1. Home[c] # p
        <4>1. Home[c] = p => call'[c] = Idle BY <1>2 DEF Restart
        <4> QED BY <1>i, <2>1, <4>1
      <3>2. call'[c] = call[c] /\ router'[c] = router[c]
        BY <1>2, <3>1 DEF Restart
      <3> QED BY <2>1, <3>2 DEF Books, Guarded
    <2> QED BY <1>t, <2>1 DEF Books, Guarded
  <1>3. ASSUME NEW c \in Callers,
               GetRouter(c) \/ BuildRouter(c) \/ Check(c) \/ Answer(c)
                 \/ AllFail(c) \/ RecordCost(c)
        PROVE  Books'
    <2>1. \A x \in Callers \ {c} : call'[x] = call[x] /\ router'[x] = router[x]
      BY <1>3, <1>t DEF GetRouter, BuildRouter, Check, Answer, AllFail, RecordCost,
                        Go, Give, TypeOK
    <2>2. call'[c].step = "answered" => router'[c].guarded
      <3>1. CASE GetRouter(c)
        <4>1. call'[c] = Idle \/ call'[c] = At("lock", FALSE, 0)
          BY <3>1, <1>t DEF GetRouter, Go, TypeOK
        <4> QED BY <1>i, <4>1 DEF At
      <3>2. CASE BuildRouter(c) \/ AllFail(c) \/ RecordCost(c)
        <4>1. call'[c] = Idle
          BY <3>2, <1>t DEF BuildRouter, AllFail, RecordCost, Go, TypeOK
        <4> QED BY <1>i, <4>1
      <3>3. CASE Check(c)
        <4>1. PICK b : call'[c] = At("checked", b, 0)
          BY <3>3, <1>t DEF Check, Go, TypeOK
        <4> QED BY <4>1 DEF At
      <3>4. CASE Answer(c)
        <4>1. router' = router /\ (call'[c] = Idle \/ Guarded(c))
          BY <3>4, <1>t DEF Answer, Go, TypeOK
        <4> QED BY <1>i, <4>1 DEF Guarded
      <3> QED BY <1>3, <3>1, <3>2, <3>3, <3>4
    <2> QED BY <1>t, <2>1, <2>2 DEF Books, Guarded
  <1> QED BY <1>1, <1>2, <1>3 DEF Next

(* Each of them may still book a call; a check finds room for all.         *)
BookedInv ==
    /\ TypeOK
    /\ spent + MaxCost * Cardinality(Flying)
         <= (Cap - 1) + MaxCost * Cardinality(Callers)

LEMMA FlyingSize ==
  /\ IsFiniteSet(Flying) /\ Cardinality(Flying) \in Nat
  /\ Cardinality(Callers) \in Nat /\ Cardinality(Flying) <= Cardinality(Callers)
  <1>1. IsFiniteSet(Callers) /\ Flying \subseteq Callers
    BY BudgetAssumption DEF Flying
  <1> QED BY <1>1, FS_Subset, FS_CardinalityType

LEMMA Times ==
  ASSUME NEW m \in Nat, NEW n \in Nat, NEW i \in Nat, i <= n
  PROVE  m * i <= m * n /\ m * i \in Nat /\ m * n \in Nat
  OBVIOUS

LEMMA BookedInit == Init => BookedInv
  <1> SUFFICES ASSUME Init PROVE BookedInv OBVIOUS
  <1>1. TypeOK BY TypeInit
  <1>2. spent = 0 BY DEF Init
  <1>3. MaxCost * Cardinality(Flying) <= MaxCost * Cardinality(Callers)
        /\ MaxCost * Cardinality(Flying) \in Nat
        /\ MaxCost * Cardinality(Callers) \in Nat
    BY FlyingSize, Times, BudgetAssumption
  <1>4. Cap - 1 \in Nat BY BudgetAssumption
  <1> QED BY <1>1, <1>2, <1>3, <1>4 DEF BookedInv

(* Fewer in flight, no more booked.                                        *)
LEMMA FewerFly ==
  ASSUME BookedInv, TypeOK', spent' <= spent, Flying' \subseteq Flying
  PROVE  BookedInv'
  <1>1. Cardinality(Flying') <= Cardinality(Flying) /\ Cardinality(Flying') \in Nat
    BY FlyingSize, FS_Subset, FS_CardinalityType
  <1>2. MaxCost * Cardinality(Flying') <= MaxCost * Cardinality(Flying)
        /\ MaxCost * Cardinality(Flying') \in Nat
        /\ MaxCost * Cardinality(Flying) \in Nat
    BY <1>1, FlyingSize, Times, BudgetAssumption
  <1>3. MaxCost * Cardinality(Callers) \in Nat
    BY FlyingSize, Times, BudgetAssumption
  <1>4. spent \in Nat /\ spent' \in Nat /\ Cap \in Nat
    BY BudgetAssumption DEF BookedInv, TypeOK
  <1>5. spent' + MaxCost * Cardinality(Flying')
          <= (Cap - 1) + MaxCost * Cardinality(Callers)
    BY <1>2, <1>3, <1>4 DEF BookedInv
  <1> QED BY <1>5 DEF BookedInv

(* Whenever less than the cap is booked there is room for every caller.    *)
LEMMA RoomForAll ==
  ASSUME TypeOK', spent' < Cap
  PROVE  BookedInv'
  <1>1. /\ IsFiniteSet(Callers) /\ Flying' \subseteq Callers
    BY BudgetAssumption DEF Flying
  <1>2. Cardinality(Flying') \in Nat /\ Cardinality(Callers) \in Nat
        /\ Cardinality(Flying') <= Cardinality(Callers)
    BY <1>1, FS_Subset, FS_CardinalityType
  <1>3. MaxCost * Cardinality(Flying') <= MaxCost * Cardinality(Callers)
        /\ MaxCost * Cardinality(Flying') \in Nat
        /\ MaxCost * Cardinality(Callers) \in Nat
    BY <1>2, Times, BudgetAssumption
  <1>4. spent' \in Nat /\ Cap \in Nat BY BudgetAssumption DEF TypeOK
  <1>5. spent' + MaxCost * Cardinality(Flying')
          <= (Cap - 1) + MaxCost * Cardinality(Callers)
    BY <1>3, <1>4
  <1> QED BY <1>5 DEF BookedInv

LEMMA BookedStep == BookedInv /\ Books /\ [Next]_vars => BookedInv'
  <1> SUFFICES ASSUME BookedInv, Books, [Next]_vars PROVE BookedInv' OBVIOUS
  <1>t. TypeOK /\ TypeOK' BY TypeStep DEF BookedInv
  <1>s. spent \in Nat BY <1>t DEF TypeOK
  <1>i. Idle.step = "idle" BY IdleCalls
  <1>1. CASE NewMonth BY <1>1, <1>t, RoomForAll, BudgetAssumption DEF NewMonth
  <1>2. ASSUME NEW p \in Processes, Restart(p) PROVE BookedInv'
    <2>1. ASSUME NEW c \in Callers, c \in Flying' PROVE c \in Flying
      <3>1. Home[c] # p
        <4>1. Home[c] = p => call'[c] = Idle BY <1>2 DEF Restart
        <4> QED BY <1>i, <2>1, <4>1 DEF Flying
      <3>2. call'[c] = call[c] /\ router'[c] = router[c]
        BY <1>2, <3>1 DEF Restart
      <3> QED BY <2>1, <3>2 DEF Flying, Guarded
    <2>2. Flying' \subseteq Flying BY <2>1 DEF Flying
    <2> QED BY <1>2, <1>s, <1>t, <2>2, FewerFly DEF Restart
  <1>3. ASSUME NEW c \in Callers, GetRouter(c) \/ BuildRouter(c) PROVE BookedInv'
    <2>1. /\ UNCHANGED spent
          /\ call'[c].step \in {"idle", "lock"}
          /\ \A x \in Callers \ {c} : call'[x] = call[x] /\ router'[x] = router[x]
      <3>1. CASE GetRouter(c)
        <4>1. call[c] = Idle /\ UNCHANGED spent BY <3>1 DEF GetRouter
        <4>2. CASE Go(c, At("lock", FALSE, 0)) /\ UNCHANGED router
          <5>1. At("lock", FALSE, 0).step = "lock" BY DEF At
          <5>2. call'[c] = At("lock", FALSE, 0)
                /\ \A x \in Callers \ {c} : call'[x] = call[x]
            BY <4>2, <1>t DEF Go, TypeOK
          <5> QED BY <4>1, <4>2, <5>1, <5>2
        <4>3. CASE Give(c, singleton[Home[c]]) /\ UNCHANGED call
          BY <1>i, <1>t, <4>1, <4>3 DEF Give, TypeOK
        <4> QED BY <3>1, <4>2, <4>3 DEF GetRouter
      <3>2. CASE BuildRouter(c)
        <4>1. Go(c, Idle) /\ UNCHANGED spent BY <3>2 DEF BuildRouter
        <4>2. call'[c] = Idle /\ \A x \in Callers \ {c} : call'[x] = call[x]
          BY <4>1, <1>t DEF Go, TypeOK
        <4>3. \A x \in Callers \ {c} : router'[x] = router[x]
          BY <3>2, <1>t DEF BuildRouter, Give, TypeOK
        <4> QED BY <1>i, <4>1, <4>2, <4>3
      <3> QED BY <1>3, <3>1, <3>2
    <2>2. ASSUME NEW x \in Flying' PROVE x \in Flying
      <3>1. x \in Callers /\ x # c BY <2>1, <2>2 DEF Flying
      <3> QED BY <2>1, <2>2, <3>1 DEF Flying, Guarded
    <2> QED BY <1>s, <1>t, <2>1, <2>2, FewerFly
  <1>4. ASSUME NEW c \in Callers, Check(c) PROVE BookedInv'
    <2>1. CASE spent < Cap BY <1>4, <1>t, <2>1, RoomForAll DEF Check
    <2>2. CASE ~(spent < Cap)
      <3>1. Capped BY <1>s, <2>2, BudgetAssumption DEF Capped
      <3>2. PICK b : b = (Guarded(c) /\ Capped) OBVIOUS
      <3>3. call'[c] = At("checked", b, 0) /\ router' = router /\ spent' = spent
            /\ \A x \in Callers \ {c} : call'[x] = call[x]
        BY <1>4, <1>t, <3>2 DEF Check, Go, TypeOK
      <3>4. call'[c].capped = b BY <3>3 DEF At
      <3>5. ASSUME NEW x \in Flying' PROVE x \in Flying
        <4>1. x \in Callers /\ x # c
          BY <3>1, <3>2, <3>3, <3>4, <3>5 DEF Flying, Guarded
        <4> QED BY <3>3, <3>5, <4>1 DEF Flying, Guarded
      <3> QED BY <1>s, <1>t, <3>3, <3>5, FewerFly
    <2> QED BY <2>1, <2>2
  <1>5. ASSUME NEW c \in Callers, Answer(c) \/ AllFail(c) PROVE BookedInv'
    <2>1. /\ call[c].step = "checked" /\ UNCHANGED <<router, spent>>
          /\ \/ call'[c] = Idle
             \/ \E cost \in 0..MaxCost :
                  /\ Guarded(c)
                  /\ call'[c] = At("answered", call[c].capped, cost)
          /\ \A x \in Callers \ {c} : call'[x] = call[x]
      <3>1. CASE Answer(c)
        BY <1>t, <3>1 DEF Answer, Go, TypeOK
      <3>2. CASE AllFail(c)
        BY <1>t, <3>2 DEF AllFail, Go, TypeOK
      <3> QED BY <1>5, <3>1, <3>2
    <2>2. ASSUME NEW x \in Flying' PROVE x \in Flying
      <3>1. CASE x # c BY <2>1, <2>2, <3>1 DEF Flying, Guarded
      <3>2. CASE x = c
        <4>1. PICK cost \in 0..MaxCost :
                Guarded(c) /\ call'[c] = At("answered", call[c].capped, cost)
          BY <1>i, <2>1, <2>2, <3>2 DEF Flying
        <4>2. call'[c].capped = call[c].capped BY <4>1 DEF At
        <4> QED BY <2>1, <2>2, <3>2, <4>1, <4>2 DEF Flying
      <3> QED BY <3>1, <3>2
    <2> QED BY <1>s, <1>t, <2>1, <2>2, FewerFly
  <1>6. ASSUME NEW c \in Callers, RecordCost(c) PROVE BookedInv'
    <2>1. /\ call[c].step = "answered" /\ router' = router /\ call'[c] = Idle
          /\ spent' = spent + call[c].cost \/ spent' = spent
          /\ \A x \in Callers \ {c} : call'[x] = call[x]
      BY <1>6, <1>t DEF RecordCost, Go, TypeOK
    <2>2. Flying' \subseteq Flying \ {c}
      BY <1>i, <2>1 DEF Flying, Guarded
    <2>3. call[c].cost \in 0..MaxCost /\ call[c].capped => call[c].cost = 0
      BY <1>t DEF TypeOK, Calls
    <2>4. call[c].cost \in 0..MaxCost BY <1>t DEF TypeOK, Calls
    <2>5. CASE spent' = spent
      BY <1>s, <1>t, <2>2, <2>5, FewerFly
    <2>6. CASE spent' = spent + call[c].cost /\ c \notin Flying
      <3>1. CASE call[c].capped
        BY <1>s, <1>t, <2>2, <2>3, <2>4, <2>6, <3>1, FewerFly
      <3>2. CASE ~call[c].capped /\ Guarded(c)
        BY <2>1, <2>6, <3>2 DEF Flying
      <3>3. Guarded(c) BY <2>1 DEF Books
      <3> QED BY <3>1, <3>2, <3>3
    <2>7. CASE spent' = spent + call[c].cost /\ c \in Flying
      <3>1. Cardinality(Flying \ {c}) = Cardinality(Flying) - 1
            /\ IsFiniteSet(Flying \ {c})
        BY <2>7, FlyingSize, FS_RemoveElement
      <3>2. Cardinality(Flying') <= Cardinality(Flying) - 1
            /\ Cardinality(Flying') \in Nat
        BY <2>2, <3>1, FS_Subset, FS_CardinalityType
      <3>3. MaxCost * Cardinality(Flying') <= MaxCost * (Cardinality(Flying) - 1)
        <4>1. Cardinality(Flying) - 1 \in Nat BY <3>2, FlyingSize
        <4> QED BY <3>2, <4>1, Times, BudgetAssumption
      <3>4. MaxCost * (Cardinality(Flying) - 1)
              = MaxCost * Cardinality(Flying) - MaxCost
        BY FlyingSize, BudgetAssumption
      <3>5. MaxCost * Cardinality(Flying) \in Nat
            /\ MaxCost * Cardinality(Flying') \in Nat
            /\ MaxCost * Cardinality(Callers) \in Nat
        BY <3>2, FlyingSize, Times, BudgetAssumption
      <3>6. Cap \in Nat /\ MaxCost \in Nat BY BudgetAssumption
      <3>7. spent' + MaxCost * Cardinality(Flying')
              <= (Cap - 1) + MaxCost * Cardinality(Callers)
        BY <1>s, <2>4, <2>7, <3>3, <3>4, <3>5, <3>6 DEF BookedInv
      <3> QED BY <1>t, <3>7 DEF BookedInv
    <2> QED BY <2>1, <2>5, <2>6, <2>7
  <1>7. CASE UNCHANGED vars
    <2>1. Flying' = Flying /\ spent' = spent BY <1>7 DEF vars, Flying, Guarded
    <2> QED BY <1>s, <1>t, <2>1, FewerFly
  <1> QED BY <1>1, <1>2, <1>3, <1>4, <1>5, <1>6, <1>7 DEF Next

(* The booked cost of a month stays below the cap and one call for each    *)
(* caller, whatever overlaps.                                              *)
THEOREM BookedIsBounded == Spec => [](spent < Cap + MaxCost * Cardinality(Callers))
  <1>1. BookedInv => spent < Cap + MaxCost * Cardinality(Callers)
    <2> SUFFICES ASSUME BookedInv
                 PROVE  spent < Cap + MaxCost * Cardinality(Callers)
      OBVIOUS
    <2>1. MaxCost * Cardinality(Flying) \in Nat
          /\ MaxCost * Cardinality(Callers) \in Nat
      BY FlyingSize, Times, BudgetAssumption
    <2>2. spent \in Nat /\ Cap \in Nat
      BY BudgetAssumption DEF BookedInv, TypeOK
    <2> QED BY <2>1, <2>2 DEF BookedInv
  <1> QED BY BooksInit, BooksStep, BookedInit, BookedStep, <1>1, PTL DEF Spec
-----------------------------------------------------------------------------
(* The units of cost that were answered and are not booked yet: a set with *)
(* one element for each, in place of a sum over the callers.               *)
Pending ==
    {x \in Callers \X (1..MaxCost) :
        call[x[1]].step = "answered" /\ x[2] <= call[x[1]].cost}

(* What was paid is booked, about to be booked, or part of a lost call.    *)
PaidInv == Books /\ paid <= spent + Cardinality(Pending) + MaxCost * lost

LEMMA Units ==
  ASSUME NEW A \in SUBSET Callers, NEW n \in 0..MaxCost
  PROVE  /\ IsFiniteSet(A) /\ Cardinality(A) \in Nat
         /\ IsFiniteSet(A \X (1..n))
         /\ Cardinality(A \X (1..n)) = Cardinality(A) * n
  <1>1. IsFiniteSet(A) /\ Cardinality(A) \in Nat
    BY BudgetAssumption, FS_Subset, FS_CardinalityType
  <1>2. n \in Nat BY BudgetAssumption
  <1>3. IsFiniteSet(1..n) /\ Cardinality(1..n) = n
    BY <1>2, FS_Interval
  <1> QED BY <1>1, <1>3, FS_Product

LEMMA PartOf ==
  ASSUME NEW S, NEW T, NEW U, IsFiniteSet(S), IsFiniteSet(T), U \subseteq S \cup T
  PROVE  /\ IsFiniteSet(U) /\ Cardinality(U) \in Nat
         /\ Cardinality(S) \in Nat /\ Cardinality(T) \in Nat
         /\ Cardinality(U) <= Cardinality(S) + Cardinality(T)
  <1>1. IsFiniteSet(S \cup T) /\ IsFiniteSet(S \cap T)
        /\ Cardinality(S \cup T)
             = Cardinality(S) + Cardinality(T) - Cardinality(S \cap T)
    BY FS_Union, FS_Intersection
  <1>2. IsFiniteSet(U) /\ Cardinality(U) <= Cardinality(S \cup T)
    BY <1>1, FS_Subset
  <1>3. Cardinality(U) \in Nat /\ Cardinality(S) \in Nat
        /\ Cardinality(T) \in Nat /\ Cardinality(S \cap T) \in Nat
        /\ Cardinality(S \cup T) \in Nat
    BY <1>1, <1>2, FS_CardinalityType
  <1> QED BY <1>1, <1>2, <1>3

LEMMA PendingFinite ==
  /\ IsFiniteSet(Pending) /\ Cardinality(Pending) \in Nat
  /\ IsFiniteSet(Pending') /\ Cardinality(Pending') \in Nat
  <1>1. MaxCost \in 0..MaxCost BY BudgetAssumption
  <1>2. IsFiniteSet(Callers \X (1..MaxCost)) BY <1>1, Units
  <1>3. Pending \subseteq Callers \X (1..MaxCost)
        /\ Pending' \subseteq Callers \X (1..MaxCost)
    BY DEF Pending
  <1> QED BY <1>2, <1>3, FS_Subset, FS_CardinalityType

(* A cost that leaves Pending is booked, or its calls are counted as lost. *)
LEMMA Leave ==
  ASSUME PaidInv, Books', paid' = paid,
         NEW A \in SUBSET Callers, NEW n \in 0..MaxCost,
         Pending \subseteq Pending' \cup (A \X (1..n)),
         \/ lost' = lost + Cardinality(A) /\ spent' = spent
         \/ lost' = lost /\ spent' = spent + Cardinality(A) * n
  PROVE  PaidInv'
  <1> DEFINE k == Cardinality(A)
             p == Cardinality(Pending)
             q == Cardinality(Pending')
  <1>1. k \in Nat /\ IsFiniteSet(A \X (1..n)) /\ Cardinality(A \X (1..n)) = k * n
    BY Units
  <1>2. p \in Nat /\ q \in Nat /\ p <= q + k * n
    BY <1>1, PendingFinite, PartOf
  <1>3. n \in Nat /\ MaxCost \in Nat /\ n <= MaxCost /\ lost \in Nat
        /\ spent \in Nat /\ paid \in Nat
    BY BudgetAssumption DEF PaidInv, Books, TypeOK
  <1>4. k * n \in Nat /\ k * MaxCost \in Nat /\ k * n <= k * MaxCost
    BY <1>1, <1>3, Times
  <1>5. MaxCost * lost \in Nat /\ MaxCost * (lost + k) = MaxCost * lost + k * MaxCost
    BY <1>1, <1>3
  <1>6. paid <= spent + p + MaxCost * lost BY DEF PaidInv
  <1> HIDE DEF k, p, q
  <1>7. CASE lost' = lost + k /\ spent' = spent
    <2>1. MaxCost * lost' = MaxCost * lost + k * MaxCost BY <1>5, <1>7
    <2>2. paid' <= spent' + q + MaxCost * lost'
      BY <1>2, <1>3, <1>4, <1>5, <1>6, <1>7, <2>1
    <2> QED BY <2>2 DEF PaidInv, q
  <1>8. CASE lost' = lost /\ spent' = spent + k * n
    <2>1. MaxCost * lost' = MaxCost * lost BY <1>8
    <2>2. paid' <= spent' + q + MaxCost * lost'
      BY <1>2, <1>3, <1>4, <1>5, <1>6, <1>8, <2>1
    <2> QED BY <2>2 DEF PaidInv, q
  <1> QED BY <1>7, <1>8 DEF k

(* A guarded call pays what it reports, which is pending from then on, and *)
(* what it hides, for which it is counted as lost.                         *)
LEMMA Pay ==
  ASSUME PaidInv, Books', NEW c \in Callers,
         NEW cost \in 0..MaxCost, NEW hidden \in 0..MaxCost,
         Charge(c, cost + hidden), Lose(Gap(c, hidden)), spent' = spent,
         Guarded(c) => /\ Pending \cup ({c} \X (1..cost)) \subseteq Pending'
                       /\ Pending \cap ({c} \X (1..cost)) = {},
         Pending \subseteq Pending'
  PROVE  PaidInv'
  <1> DEFINE p == Cardinality(Pending)
             q == Cardinality(Pending')
  <1>1. p \in Nat /\ q \in Nat /\ p <= q
    BY PendingFinite, FS_Subset
  <1>2. MaxCost \in Nat /\ lost \in Nat /\ spent \in Nat /\ paid \in Nat
        /\ cost \in Nat /\ hidden \in Nat /\ hidden <= MaxCost
        /\ MaxCost * lost \in Nat /\ MaxCost * (lost + 1) = MaxCost * lost + MaxCost
    BY BudgetAssumption DEF PaidInv, Books, TypeOK
  <1>3. paid <= spent + p + MaxCost * lost BY DEF PaidInv
  <1>4. CASE ~Guarded(c)
    <2>1. paid' = paid /\ lost' = lost + 0 BY <1>4 DEF Charge, Lose, Gap
    <2>2. lost' = lost BY <1>2, <2>1
    <2>3. MaxCost * lost' = MaxCost * lost BY <2>2
    <2> HIDE DEF p, q
    <2>4. paid' <= spent' + q + MaxCost * lost'
      BY <1>1, <1>2, <1>3, <2>1, <2>3
    <2> QED BY <2>4 DEF PaidInv, q
  <1>5. CASE Guarded(c)
    <2>1. p + cost <= q
      <3>1. {c} \in SUBSET Callers OBVIOUS
      <3>2. Cardinality({c}) = 1 BY FS_Singleton
      <3>3. IsFiniteSet({c} \X (1..cost))
            /\ Cardinality({c} \X (1..cost)) = Cardinality({c}) * cost
        BY <3>1, Units
      <3>4. Cardinality({c} \X (1..cost)) = cost BY <1>2, <3>2, <3>3
      <3>5. Cardinality(Pending \cap ({c} \X (1..cost))) = 0
        BY <1>5, FS_EmptySet
      <3>6. IsFiniteSet(Pending \cup ({c} \X (1..cost)))
            /\ Cardinality(Pending \cup ({c} \X (1..cost))) = p + cost
        <4> DEFINE U == {c} \X (1..cost)
        <4>1. IsFiniteSet(U) /\ Cardinality(U) = cost
              /\ Cardinality(Pending \cap U) = 0
          BY <3>3, <3>4, <3>5
        <4> HIDE DEF U
        <4>2. IsFiniteSet(Pending) BY PendingFinite
        <4>3. IsFiniteSet(Pending \cup U)
              /\ Cardinality(Pending \cup U)
                   = Cardinality(Pending) + Cardinality(U) - Cardinality(Pending \cap U)
          BY <4>1, <4>2, FS_Union
        <4>4. Cardinality(Pending \cup U) = p + cost
          BY <1>1, <1>2, <4>1, <4>3
        <4> QED BY <4>3, <4>4 DEF U
      <3>7. Cardinality(Pending \cup ({c} \X (1..cost))) <= q
        BY <1>5, PendingFinite, FS_Subset
      <3> QED BY <1>1, <1>2, <3>6, <3>7
    <2>2. paid' = paid + (cost + hidden) BY <1>5 DEF Charge
    <2>3. lost' = lost + (IF hidden > 0 THEN 1 ELSE 0)
      BY <1>5 DEF Lose, Gap
    <2>4. MaxCost * lost + hidden <= MaxCost * lost' /\ MaxCost * lost' \in Nat
      <3>1. CASE hidden > 0
        <4>1. MaxCost * lost' = MaxCost * lost + MaxCost BY <1>2, <2>3, <3>1
        <4> QED BY <1>2, <4>1
      <3>2. CASE hidden = 0
        <4>1. lost' = lost BY <1>2, <2>3, <3>2
        <4>2. MaxCost * lost' = MaxCost * lost BY <4>1
        <4> QED BY <1>2, <3>2, <4>2
      <3> QED BY <1>2, <3>1, <3>2
    <2> HIDE DEF p, q
    <2>5. paid' <= spent' + q + MaxCost * lost'
      BY <1>1, <1>2, <1>3, <2>1, <2>2, <2>4
    <2> QED BY <2>5 DEF PaidInv, q
  <1> QED BY <1>4, <1>5

LEMMA PaidInit == Init => PaidInv
  <1> SUFFICES ASSUME Init PROVE PaidInv OBVIOUS
  <1>1. Books BY BooksInit
  <1>2. paid = 0 /\ spent = 0 /\ lost = 0 BY DEF Init
  <1>3. MaxCost * lost = 0 BY <1>2, BudgetAssumption
  <1> QED BY <1>1, <1>2, <1>3, PendingFinite DEF PaidInv

LEMMA PaidStep == PaidInv /\ [Next]_vars => PaidInv'
  <1> SUFFICES ASSUME PaidInv, [Next]_vars PROVE PaidInv' OBVIOUS
  <1>b. Books /\ Books' /\ TypeOK /\ TypeOK'
    BY BooksStep, TypeStep DEF PaidInv, Books
  <1>i. Idle.step = "idle" BY IdleCalls
  <1>n. spent \in Nat /\ paid \in Nat /\ lost \in Nat /\ MaxCost \in Nat
        /\ MaxCost * lost \in Nat
    BY <1>b, BudgetAssumption DEF TypeOK
  <1>e. /\ {} \in SUBSET Callers /\ 0 \in 0..MaxCost
        /\ Cardinality({}) = 0 /\ lost = lost + Cardinality({})
    BY <1>n, FS_EmptySet
  <1>1. CASE NewMonth
    <2>1. paid' = 0 /\ spent' = 0 /\ lost' = 0 BY <1>1 DEF NewMonth
    <2>2. MaxCost * lost' = 0 BY <1>n, <2>1
    <2> QED BY <1>b, <2>1, <2>2, PendingFinite DEF PaidInv
  <1>2. ASSUME NEW p \in Processes, Restart(p) PROVE PaidInv'
    <2> DEFINE A == {c \in Callers : Home[c] = p /\ call[c].step = "answered"}
    <2>1. paid' = paid /\ spent' = spent /\ lost' = lost + Cardinality(A)
      BY <1>2 DEF Restart, Lose
    <2>2. MaxCost \in 0..MaxCost BY <1>n
    <2>3. ASSUME NEW x \in Pending
          PROVE  x \in Pending' \cup (A \X (1..MaxCost))
      <3>1. x \in Callers \X (1..MaxCost) /\ x[1] \in Callers
            /\ call[x[1]].step = "answered"
        BY <2>3 DEF Pending
      <3>2. CASE Home[x[1]] = p BY <3>1, <3>2
      <3>3. CASE Home[x[1]] # p
        <4>1. call'[x[1]] = call[x[1]] BY <1>2, <3>1, <3>3 DEF Restart
        <4> QED BY <2>3, <4>1 DEF Pending
      <3> QED BY <3>2, <3>3
    <2>4. A \in SUBSET Callers OBVIOUS
    <2>5. Pending \subseteq Pending' \cup (A \X (1..MaxCost)) BY <2>3
    <2> HIDE DEF A
    <2> QED BY <1>b, <2>1, <2>2, <2>4, <2>5, Leave
  <1>3. ASSUME NEW c \in Callers, GetRouter(c) \/ BuildRouter(c) \/ Check(c)
        PROVE  PaidInv'
    <2>1. /\ paid' = paid /\ spent' = spent /\ lost' = lost
          /\ call[c].step # "answered"
          /\ \A x \in Callers \ {c} : call'[x] = call[x]
      BY <1>3, <1>i, <1>b DEF GetRouter, BuildRouter, Check, Go, TypeOK
    <2>2. Pending \subseteq Pending' \cup ({} \X (1..0))
      BY <2>1 DEF Pending
    <2> QED BY <1>b, <1>e, <2>1, <2>2, Leave
  <1>4. ASSUME NEW c \in Callers, Answer(c) PROVE PaidInv'
    <2>1. PICK cost \in 0..MaxCost, hidden \in 0..MaxCost :
            /\ Lose(Gap(c, hidden)) /\ Charge(c, cost + hidden)
            /\ Go(c, IF Guarded(c) THEN At("answered", call[c].capped, cost)
                                   ELSE Idle)
      BY <1>4 DEF Answer
    <2>2. call[c].step = "checked" /\ spent' = spent BY <1>4 DEF Answer
    <2>3. \A x \in Callers \ {c} : call'[x] = call[x]
      BY <1>b, <2>1 DEF Go, TypeOK
    <2>4. Pending \subseteq Pending'
      <3>1. \A x \in Pending : x[1] \in Callers \ {c}
        BY <2>2 DEF Pending
      <3> QED BY <2>3, <3>1 DEF Pending
    <2>5. ASSUME Guarded(c)
          PROVE  /\ Pending \cup ({c} \X (1..cost)) \subseteq Pending'
                 /\ Pending \cap ({c} \X (1..cost)) = {}
      <3>1. call'[c] = At("answered", call[c].capped, cost)
        BY <1>b, <2>1, <2>5 DEF Go, TypeOK
      <3>2. call'[c].step = "answered" /\ call'[c].cost = cost
        BY <3>1 DEF At
      <3>3. ASSUME NEW x \in {c} \X (1..cost)
            PROVE  x \in Pending' /\ x \notin Pending
        <4>1. x[1] = c /\ x[2] \in 1..cost /\ x \in Callers \X (1..MaxCost)
          BY <1>n, <3>3
        <4>2. x \notin Pending BY <2>2, <4>1 DEF Pending
        <4>3. x[2] <= cost BY <4>1
        <4> QED BY <3>2, <4>1, <4>2, <4>3 DEF Pending
      <3> QED BY <2>4, <3>3
    <2> QED BY <1>b, <2>1, <2>2, <2>4, <2>5, Pay
  <1>5. ASSUME NEW c \in Callers, AllFail(c) PROVE PaidInv'
    <2>1. PICK hidden \in 0..MaxCost : Lose(Gap(c, hidden)) /\ Charge(c, hidden)
      BY <1>5 DEF AllFail
    <2>2. call[c].step = "checked" /\ spent' = spent BY <1>5 DEF AllFail
    <2>3. \A x \in Callers \ {c} : call'[x] = call[x]
      BY <1>5, <1>b DEF AllFail, Go, TypeOK
    <2>4. Pending \subseteq Pending'
      <3>1. \A x \in Pending : x[1] \in Callers \ {c}
        BY <2>2 DEF Pending
      <3> QED BY <2>3, <3>1 DEF Pending
    <2>5. Charge(c, 0 + hidden)
      <3>1. 0 + hidden = hidden BY <1>n
      <3> QED BY <2>1, <3>1
    <2>6. {c} \X (1..0) = {} OBVIOUS
    <2> QED BY <1>b, <1>e, <2>1, <2>2, <2>4, <2>5, <2>6, Pay
  <1>6. ASSUME NEW c \in Callers, RecordCost(c) PROVE PaidInv'
    <2>1. /\ paid' = paid /\ call[c].step = "answered"
          /\ \/ spent' = spent + call[c].cost /\ lost' = lost
             \/ spent' = spent /\ lost' = lost + 1
          /\ \A x \in Callers \ {c} : call'[x] = call[x]
      BY <1>6, <1>b DEF RecordCost, Go, Lose, TypeOK
    <2>2. call[c].cost \in 0..MaxCost BY <1>b DEF TypeOK, Calls
    <2>3. ASSUME NEW x \in Pending
          PROVE  x \in Pending' \cup ({c} \X (1..call[c].cost))
      <3>1. x \in Callers \X (1..MaxCost) /\ x[2] \in 1..MaxCost
            /\ x[2] <= call[x[1]].cost
        BY <2>3 DEF Pending
      <3>2. CASE x[1] = c
        <4>1. x[2] \in 1..call[c].cost BY <1>n, <2>2, <3>1, <3>2
        <4> QED BY <3>1, <3>2, <4>1
      <3>3. CASE x[1] # c BY <2>1, <2>3, <3>1, <3>3 DEF Pending
      <3> QED BY <3>2, <3>3
    <2>4. Cardinality({c}) = 1 /\ {c} \in SUBSET Callers BY FS_Singleton
    <2>5. spent' = spent + call[c].cost
            => spent' = spent + Cardinality({c}) * call[c].cost
      <3>1. 1 * call[c].cost = call[c].cost BY <1>n, <2>2
      <3> QED BY <2>4, <3>1
    <2>6. \/ lost' = lost + Cardinality({c}) /\ spent' = spent
          \/ lost' = lost /\ spent' = spent + Cardinality({c}) * call[c].cost
      BY <2>1, <2>4, <2>5
    <2>7. Pending \subseteq Pending' \cup ({c} \X (1..call[c].cost)) BY <2>3
    <2> QED BY <1>b, <2>1, <2>2, <2>4, <2>6, <2>7, Leave
  <1>7. CASE UNCHANGED vars
    <2>1. paid' = paid /\ spent' = spent /\ lost' = lost /\ call' = call
      BY <1>7 DEF vars
    <2>2. Pending \subseteq Pending' \cup ({} \X (1..0)) BY <2>1 DEF Pending
    <2> QED BY <1>b, <1>e, <2>1, <2>2, Leave
  <1> QED BY <1>1, <1>2, <1>3, <1>4, <1>5, <1>6, <1>7 DEF Next

(* What is pending belongs to callers in flight: a capped call has no cost.*)
LEMMA PendingBound ==
  ASSUME Books PROVE Cardinality(Pending) <= MaxCost * Cardinality(Flying)
  <1>1. ASSUME NEW x \in Pending PROVE x \in Flying \X (1..MaxCost)
    <2>1. x \in Callers \X (1..MaxCost) /\ x[1] \in Callers /\ x[2] \in 1..MaxCost
          /\ call[x[1]].step = "answered" /\ x[2] <= call[x[1]].cost
      BY <1>1 DEF Pending
    <2>2. call[x[1]].capped => call[x[1]].cost = 0
      BY <2>1 DEF Books, TypeOK
    <2>3. ~call[x[1]].capped BY <2>1, <2>2, BudgetAssumption
    <2>4. Guarded(x[1]) BY <2>1 DEF Books
    <2> QED BY <2>1, <2>3, <2>4 DEF Flying
  <1>2. Flying \in SUBSET Callers /\ MaxCost \in 0..MaxCost
    BY BudgetAssumption DEF Flying
  <1>3. IsFiniteSet(Flying \X (1..MaxCost))
        /\ Cardinality(Flying \X (1..MaxCost)) = Cardinality(Flying) * MaxCost
    BY <1>2, Units
  <1>4. Cardinality(Pending) <= Cardinality(Flying) * MaxCost
    BY <1>1, <1>3, FS_Subset
  <1>5. Cardinality(Flying) * MaxCost = MaxCost * Cardinality(Flying)
    BY FlyingSize, BudgetAssumption
  <1> QED BY <1>4, <1>5

(* The month's guarded calls cost less than the cap, one call for each     *)
(* caller and one for each call that was not booked in full.               *)
THEOREM PaidIsBounded == Spec => []CapHolds
  <1>1. PaidInv /\ BookedInv => CapHolds
    <2> SUFFICES ASSUME PaidInv, BookedInv PROVE CapHolds OBVIOUS
    <2>1. Cardinality(Pending) <= MaxCost * Cardinality(Flying)
      BY PendingBound DEF PaidInv
    <2>2. paid <= spent + Cardinality(Pending) + MaxCost * lost
          /\ spent + MaxCost * Cardinality(Flying)
               <= (Cap - 1) + MaxCost * Cardinality(Callers)
      BY DEF PaidInv, BookedInv
    <2>3. paid \in Nat /\ spent \in Nat /\ lost \in Nat /\ Cap \in Nat
          /\ MaxCost \in Nat /\ MaxCost * lost \in Nat
      BY BudgetAssumption DEF PaidInv, Books, TypeOK
    <2>4. Cardinality(Callers) \in Nat /\ Cardinality(Pending) \in Nat
          /\ MaxCost * Cardinality(Flying) \in Nat
          /\ MaxCost * Cardinality(Callers) \in Nat
      BY FlyingSize, PendingFinite, Times, BudgetAssumption
    <2>5. MaxCost * (Cardinality(Callers) + lost)
            = MaxCost * Cardinality(Callers) + MaxCost * lost
      BY <2>3, <2>4
    <2>6. paid < Cap + (MaxCost * Cardinality(Callers) + MaxCost * lost)
      BY <2>1, <2>2, <2>3, <2>4
    <2> QED BY <2>5, <2>6 DEF CapHolds
  <1> QED BY BooksInit, BooksStep, BookedInit, BookedStep, PaidInit, PaidStep,
             <1>1, PTL DEF Spec
=============================================================================
