-------------------------- MODULE OrderRounds_proofs --------------------------
(***************************************************************************)
(* Proofs about OrderRounds, for any stocks, holdings, targets, limits and *)
(* numbers of retries and crashes.                                         *)
(***************************************************************************)
EXTENDS OrderRounds, FiniteSetTheorems, TLAPS

Holds == pc \in {"place", "register", "wait", "cancel", "confirm", "record"}
Placed == pc \in {"register", "wait", "cancel", "confirm", "record"}

(* The hand: a code, then its order; the tracker and the news only while   *)
(* the order is waited for, the volume read only after.                    *)
HandInv ==
    /\ IF Holds THEN cur \in Codes ELSE cur = None
    /\ IF Placed THEN order \in Orders /\ book[order].code = cur ELSE order = None
    /\ pc # "wait" => tracker = Off
    /\ pc \notin {"register", "wait"} => news = NoNews
    /\ pc \notin {"cancel", "confirm", "record"} => got = 0

(* Where the codes are: no code is in two places, and one that has a fill  *)
(* is in none.                                                             *)
PlaceInv ==
    /\ pc \in {"start", "plan"} => round = 0 /\ fills = Nothing /\ buys = {} /\ todo = {}
    /\ round = 0 => /\ failed = {} /\ skipped = {} /\ todo \cap buys = {} /\ cur \notin buys
                    /\ pc # "done" /\ \A c \in buys : fills[c] = 0
    /\ todo \cap failed = {} /\ skipped \cap (todo \cup failed) = {}
    /\ cur \notin todo \cup failed \cup skipped
    /\ \A c \in Codes : c \in todo \cup failed \cup skipped \cup {cur} => fills[c] = 0
    /\ round > 0 =>
         \A c \in buys : c \in todo \cup failed \cup skipped \cup {cur} \/ fills[c] > 0
    /\ pc = "done" => todo = {} /\ pending = failed

(* The lots of the order in hand, open, under way or heard of, are those   *)
(* of the plan at most; what was heard of was traded.                      *)
LotsInv ==
    /\ pc \in {"register", "wait"} =>
         /\ book[order].left + news.lots + tracker.filled <= plan[cur]
         /\ news.lots + tracker.filled <= bought[cur] + sold[cur]
    /\ pc \in {"cancel", "confirm", "record"} =>
         got <= plan[cur] /\ got <= bought[cur] + sold[cur]

IInv == TypeOK /\ HandInv /\ PlaceInv /\ LotsInv /\ FillsAreTrades /\ FillsWithinPlan
        /\ StraysAreDangling

-----------------------------------------------------------------------------
LEMMA InitIInv == Init => IInv
BY RoundsAssumption
   DEF Init, IInv, TypeOK, HandInv, PlaceInv, LotsInv, FillsAreTrades, FillsWithinPlan,
       StraysAreDangling, Holds, Placed, Nothing, Unused, NoNews, Off, Fresh, Live,
       BookEntry, Attempts, Labels

(* What every action leaves alone.                                         *)
LEMMA StepStutter == ASSUME IInv, UNCHANGED vars PROVE IInv'
BY DEF IInv, TypeOK, HandInv, PlaceInv, LotsInv, FillsAreTrades, FillsWithinPlan,
       StraysAreDangling, Holds, Placed, Live, InCharge, vars, exchange, run, work, hand,
       tracking, result

LEMMA StepTrade == ASSUME IInv, NEW o \in Orders, Trade(o) PROVE IInv'
<1> USE RoundsAssumption DEF IInv, Trade, run, work, hand, tracking, result
<1>1. book[o] \in BookEntry /\ book[o].code \in Codes \cup {None}
      BY DEF TypeOK, BookEntry
<1>2. TypeOK'
      BY <1>1 DEF TypeOK, BookEntry
<1>3. HandInv'
      BY <1>1 DEF HandInv, Holds, Placed, InHand, TypeOK, BookEntry
<1>4. PlaceInv'
      BY DEF PlaceInv
<1>5. \A c \in Codes : bought[c] + sold[c] <= bought'[c] + sold'[c]
      BY <1>1 DEF TypeOK
<1>6. LotsInv'
      BY <1>1, <1>5 DEF LotsInv, HandInv, Holds, Placed, InHand, TypeOK, BookEntry
<1>7. FillsAreTrades' /\ FillsWithinPlan'
      BY <1>2, <1>5 DEF FillsAreTrades, FillsWithinPlan, TypeOK
<1>8. StraysAreDangling'
      BY <1>1 DEF StraysAreDangling, Live, InCharge, TypeOK, BookEntry
<1> QED BY <1>2, <1>3, <1>4, <1>6, <1>7, <1>8

LEMMA StepEndOrder == ASSUME IInv, NEW o \in Orders, EndOrder(o) PROVE IInv'
<1> USE RoundsAssumption DEF IInv, EndOrder, run, work, hand, tracking, result
<1>1. book[o] \in BookEntry
      BY DEF TypeOK
<1>2. TypeOK'
      BY <1>1 DEF TypeOK, BookEntry
<1>3. HandInv'
      BY <1>1 DEF HandInv, Holds, Placed, InHand, TypeOK, BookEntry
<1>4. PlaceInv'
      BY DEF PlaceInv
<1>5. LotsInv'
      BY <1>1 DEF LotsInv, HandInv, Holds, Placed, InHand, TypeOK, BookEntry
<1>6. FillsAreTrades' /\ FillsWithinPlan'
      BY DEF FillsAreTrades, FillsWithinPlan
<1>7. StraysAreDangling'
      BY <1>1 DEF StraysAreDangling, Live, InCharge, TypeOK, BookEntry
<1> QED BY <1>2, <1>3, <1>4, <1>5, <1>6, <1>7

LEMMA StepCallback == ASSUME IInv, Callback PROVE IInv'
<1> USE RoundsAssumption DEF IInv, exchange, work, hand, tracking, result
<1>0. cur \in Codes => plan[cur] \in Nat
      BY DEF TypeOK
<1>1. CASE OnTrade
  <2> USE <1>1 DEF OnTrade, TradedVolume
  <2>1. TypeOK'
        BY DEF TypeOK
  <2>2. pc = "wait" \/ tracker' = tracker
        BY DEF HandInv, Off
  <2>3. news # NoNews /\ UNCHANGED <<pc, cur, order, book, got>>
        BY DEF NoNews
  <2>4. HandInv'
        BY <2>2, <2>3 DEF HandInv, Holds, Placed
  <2>5. PlaceInv'
        BY DEF PlaceInv
  <2>6. LotsInv'
        BY <1>0 DEF LotsInv, HandInv, Holds, Placed, Off, NoNews, TypeOK, BookEntry
  <2>7. FillsAreTrades' /\ FillsWithinPlan' /\ StraysAreDangling'
        BY DEF FillsAreTrades, FillsWithinPlan, StraysAreDangling, Live, InCharge
  <2> QED BY <2>1, <2>4, <2>5, <2>6, <2>7
<1>2. CASE OnFinal
  <2> USE <1>2 DEF OnFinal
  <2>1. TypeOK'
        BY DEF TypeOK
  <2>2. pc = "wait" \/ tracker' = tracker
        BY DEF HandInv, Off
  <2>3. news # NoNews /\ UNCHANGED <<pc, cur, order, book, got>>
        BY DEF NoNews
  <2>4. HandInv'
        BY <2>2, <2>3 DEF HandInv, Holds, Placed
  <2>5. PlaceInv'
        BY DEF PlaceInv
  <2>6. LotsInv'
        BY DEF LotsInv, TypeOK
  <2>7. FillsAreTrades' /\ FillsWithinPlan' /\ StraysAreDangling'
        BY DEF FillsAreTrades, FillsWithinPlan, StraysAreDangling, Live, InCharge
  <2> QED BY <2>1, <2>4, <2>5, <2>6, <2>7
<1> QED BY <1>1, <1>2 DEF Callback

LEMMA StepMakePlan == ASSUME IInv, MakePlan PROVE IInv'
<1> USE RoundsAssumption DEF Goto, IInv, MakePlan, exchange, tracking, result, hand
<1>1. PICK usable \in [Codes -> Lots] :
        plan' = [c \in Codes |->
          IF Position(c) > Target[c] THEN Least(Position(c) - Target[c], usable[c])
                                     ELSE Target[c] - Position(c)]
      OBVIOUS
<1>2. \A c \in Codes : Position(c) \in Int /\ Target[c] \in Nat /\ usable[c] \in Nat
  <2> SUFFICES ASSUME NEW c \in Codes
               PROVE  Position(c) \in Int /\ Target[c] \in Nat /\ usable[c] \in Nat
      OBVIOUS
  <2>1. Holding[c] \in Nat /\ Target[c] \in Nat /\ usable[c] \in Nat
        OBVIOUS
  <2>2. bought[c] \in Nat /\ sold[c] \in Nat
        BY DEF TypeOK
  <2> QED BY <2>1, <2>2 DEF Position
<1>3. plan' \in [Codes -> Nat]
      BY <1>1, <1>2 DEF Least
<1>4. TypeOK'
      BY <1>3 DEF TypeOK, Labels
<1>5. HandInv' /\ LotsInv' /\ FillsAreTrades'
      BY DEF HandInv, LotsInv, FillsAreTrades, Holds, Placed
<1>6. buys' \cap todo' = {}
      BY <1>2
<1>7. PlaceInv'
  <2>1. cur = None /\ UNCHANGED <<round, failed, skipped, fills, cur>> /\ pc' = "next"
        BY DEF HandInv, Holds
  <2>2. fills = Nothing /\ round = 0 /\ failed = {} /\ skipped = {}
        BY DEF PlaceInv
  <2>3. \A c \in Codes : fills[c] = 0
        BY <2>2 DEF Nothing
  <2>4. cur \notin buys' /\ cur \notin todo' /\ buys' \subseteq Codes
        BY <2>1
  <2> QED BY <1>6, <2>1, <2>2, <2>3, <2>4 DEF PlaceInv
<1>8. FillsWithinPlan'
      BY <1>3 DEF FillsWithinPlan, PlaceInv, Nothing
<1>9. StraysAreDangling'
      BY DEF StraysAreDangling, Live, InCharge
<1> QED BY <1>4, <1>5, <1>7, <1>8, <1>9

LEMMA StepTake == ASSUME IInv, NEW c \in Codes, Take(c) PROVE IInv'
<1> USE RoundsAssumption DEF Goto, IInv, Take, exchange, tracking, StillFailed
<1>1. TypeOK'
      BY DEF TypeOK, Labels
<1>2. HandInv' /\ LotsInv'
      BY DEF HandInv, LotsInv, Holds, Placed
<1>3. PlaceInv'
      BY DEF PlaceInv, HandInv, Holds, TypeOK
<1>4. FillsAreTrades' /\ FillsWithinPlan' /\ StraysAreDangling'
      BY DEF FillsAreTrades, FillsWithinPlan, StraysAreDangling, Live, InCharge
<1> QED BY <1>1, <1>2, <1>3, <1>4

LEMMA StepNotPlaced == ASSUME IInv, NotPlaced PROVE IInv'
<1> USE RoundsAssumption DEF Goto, IInv, NotPlaced, exchange, work, result, Unfilled
<1>0. cur \in Codes
      BY DEF HandInv, Holds
<1>1. rec[cur] \in Attempts
      BY <1>0 DEF TypeOK
<1>2. TypeOK'
      BY <1>0, <1>1 DEF TypeOK, Labels, Attempts
<1>3. HandInv' /\ LotsInv'
      BY DEF HandInv, LotsInv, Holds, Placed
<1>4. PlaceInv'
      BY <1>0 DEF PlaceInv, TypeOK
<1>5. FillsAreTrades' /\ FillsWithinPlan' /\ StraysAreDangling'
      BY DEF FillsAreTrades, FillsWithinPlan, StraysAreDangling, Live, InCharge
<1> QED BY <1>2, <1>3, <1>4, <1>5

LEMMA StepPlace == ASSUME IInv, NEW o \in Orders, Place(o) PROVE IInv'
<1> USE RoundsAssumption DEF Goto, IInv, Place, work, result
<1>0. cur \in Codes /\ plan[cur] \in Nat /\ o # None
      BY DEF HandInv, Holds, TypeOK
<1>1. book' = [book EXCEPT ![o] = book'[o]] /\ book'[o] \in BookEntry
      /\ book'[o].code = cur /\ book'[o].left = plan[cur]
      BY <1>0 DEF TypeOK, BookEntry
<1>2. rec' \in [Codes -> Attempts] /\ total' \in 0..MaxOrders
      BY <1>0 DEF TypeOK, Attempts, CanPlace
<1>3. TypeOK'
      BY <1>0, <1>1, <1>2 DEF TypeOK, Labels
<1>4. HandInv'
      BY <1>0, <1>1 DEF HandInv, Holds, Placed
<1>5. PlaceInv'
      BY DEF PlaceInv
<1>6. news = NoNews /\ tracker = Off
      BY DEF HandInv
<1>7. LotsInv'
      BY <1>0, <1>1, <1>6 DEF LotsInv, TypeOK, NoNews, Off
<1>8. FillsAreTrades' /\ FillsWithinPlan'
      BY DEF FillsAreTrades, FillsWithinPlan
<1>9. StraysAreDangling'
      BY <1>1 DEF StraysAreDangling, Live, InCharge, TypeOK
<1> QED BY <1>3, <1>4, <1>5, <1>7, <1>8, <1>9

(* Steps of the main thread that touch neither the codes' places nor their *)
(* fills.                                                                  *)
Waits == \/ CleanUp \/ Register \/ Wake \/ Cancel \/ Confirm

LEMMA StepWaits == ASSUME IInv, Waits PROVE IInv'
<1> USE RoundsAssumption DEF Goto, IInv, exchange, work, hand, tracking, result
<1>1. CASE CleanUp
  <2> USE <1>1 DEF CleanUp
  <2>1. TypeOK'
        BY DEF TypeOK, Labels, Live
  <2>2. HandInv' /\ LotsInv' /\ PlaceInv'
        BY DEF HandInv, LotsInv, PlaceInv, Holds, Placed
  <2>3. FillsAreTrades' /\ FillsWithinPlan' /\ StraysAreDangling'
        BY DEF FillsAreTrades, FillsWithinPlan, StraysAreDangling, Live, InCharge
  <2> QED BY <2>1, <2>2, <2>3
<1>2. CASE Register
  <2> USE <1>2 DEF Register
  <2>1. tracker = Off /\ tracker' = [on |-> TRUE, filled |-> 0, done |-> FALSE]
        BY DEF HandInv, Off
  <2>2. TypeOK'
        BY <2>1 DEF TypeOK, Labels
  <2>3. HandInv' /\ PlaceInv'
        BY DEF HandInv, PlaceInv, Holds, Placed
  <2>4. LotsInv'
        BY <2>1 DEF LotsInv, Off
  <2>5. FillsAreTrades' /\ FillsWithinPlan' /\ StraysAreDangling'
        BY DEF FillsAreTrades, FillsWithinPlan, StraysAreDangling, Live, InCharge
  <2> QED BY <2>2, <2>3, <2>4, <2>5
<1>3. CASE Wake
  <2> USE <1>3 DEF Wake, Complete
  <2>1. cur \in Codes /\ order \in Orders /\ plan[cur] \in Nat
        /\ bought[cur] \in Nat /\ sold[cur] \in Nat
        /\ book[order].left \in Nat /\ news.lots \in Nat /\ tracker.filled \in Nat
        BY DEF HandInv, Holds, Placed, TypeOK, BookEntry
  <2>2. TypeOK'
        BY <2>1 DEF TypeOK, Labels, Off, NoNews
  <2>3. HandInv' /\ PlaceInv'
        BY DEF HandInv, PlaceInv, Holds, Placed
  <2>4. LotsInv'
        BY <2>1 DEF LotsInv
  <2>5. pc' = "record" => book[order].left = 0
        BY <2>1 DEF LotsInv
  <2>6. StraysAreDangling'
        BY <2>1, <2>5 DEF StraysAreDangling, Live, InCharge
  <2>7. FillsAreTrades' /\ FillsWithinPlan'
        BY DEF FillsAreTrades, FillsWithinPlan
  <2> QED BY <2>2, <2>3, <2>4, <2>6, <2>7
<1>4. CASE Cancel
  <2> USE <1>4 DEF Cancel
  <2>1. TypeOK'
        BY DEF TypeOK, Labels, Live
  <2>2. HandInv' /\ LotsInv' /\ PlaceInv'
        BY DEF HandInv, LotsInv, PlaceInv, Holds, Placed
  <2>3. FillsAreTrades' /\ FillsWithinPlan' /\ StraysAreDangling'
        BY DEF FillsAreTrades, FillsWithinPlan, StraysAreDangling, Live, InCharge
  <2> QED BY <2>1, <2>2, <2>3
<1>5. CASE Confirm
  <2> USE <1>5 DEF Confirm
  <2>1. order \in Orders
        BY DEF HandInv, Placed
  <2>2. TypeOK'
        BY <2>1 DEF TypeOK, Labels
  <2>3. HandInv' /\ LotsInv' /\ PlaceInv'
        BY DEF HandInv, LotsInv, PlaceInv, Holds, Placed
  <2>4. FillsAreTrades' /\ FillsWithinPlan' /\ StraysAreDangling'
        BY DEF FillsAreTrades, FillsWithinPlan, StraysAreDangling, Live, InCharge
  <2> QED BY <2>2, <2>3, <2>4
<1> QED BY <1>1, <1>2, <1>3, <1>4, <1>5 DEF Waits

LEMMA StepRecord == ASSUME IInv, Record PROVE IInv'
<1> USE RoundsAssumption
        DEF Goto, IInv, Record, exchange, work, NothingFilled, Unfilled
<1>1. /\ cur \in Codes /\ got \in Nat /\ rec[cur] \in Attempts
      /\ got <= plan[cur] /\ got <= bought[cur] + sold[cur]
      BY DEF HandInv, Holds, TypeOK, LotsInv
<1>2. fills[cur] = 0 /\ fills' = [fills EXCEPT ![cur] = got]
  <2>1. fills[cur] = 0
        BY <1>1 DEF PlaceInv
  <2>2. fills' = [fills EXCEPT ![cur] = fills[cur] + got]
        OBVIOUS
  <2>3. fills[cur] + got = got
        BY <1>1, <2>1
  <2> QED BY <2>1, <2>2, <2>3
<1>3. rec' \in [Codes -> Attempts]
      BY <1>1 DEF TypeOK, Attempts
<1>4. TypeOK'
      BY <1>1, <1>2, <1>3 DEF TypeOK, Labels
<1>5. HandInv' /\ LotsInv'
      BY DEF HandInv, LotsInv, Holds, Placed
<1>6. fills \in [Codes -> Nat] /\ failed' \subseteq Codes /\ todo \subseteq Codes
      /\ skipped \subseteq Codes /\ buys \subseteq Codes
      BY <1>4 DEF TypeOK
<1>7. PlaceInv'
  <2>1. UNCHANGED <<round, todo, buys, skipped>> /\ cur' = None /\ pc' = "next"
        OBVIOUS
  <2>2. \A c \in Codes \ {cur} : fills'[c] = fills[c]
        BY <1>2, <1>6
  <2>3. fills'[cur] = got /\ (got > 0 => failed' = failed)
        BY <1>1, <1>2, <1>6
  <2>4. round = 0 => /\ failed' = {} /\ skipped = {} /\ todo \cap buys = {}
                     /\ \A c \in buys : fills'[c] = 0
        BY <1>6, <2>2 DEF PlaceInv
  <2>5. todo \cap failed' = {} /\ skipped \cap (todo \cup failed') = {}
        BY DEF PlaceInv
  <2>6. cur \notin todo /\ cur \notin skipped /\ (got > 0 => cur \notin failed')
        BY <2>3 DEF PlaceInv
  <2>7. ASSUME NEW c \in todo \cup failed' \cup skipped
        PROVE  fills'[c] = 0
    <3>1. CASE c = cur
          BY <1>1, <2>3, <2>6, <3>1
    <3>2. CASE c # cur
          BY <1>6, <2>2, <3>2 DEF PlaceInv
    <3> QED BY <3>1, <3>2
  <2>8. ASSUME round > 0, NEW c \in buys
        PROVE  c \in todo \cup failed' \cup skipped \/ fills'[c] > 0
    <3>1. CASE c = cur
          BY <1>1, <2>3, <2>8, <3>1 DEF TypeOK
    <3>2. CASE c # cur
          BY <1>6, <2>2, <2>8, <3>2 DEF PlaceInv
    <3> QED BY <3>1, <3>2
  <2> QED BY <1>6, <2>1, <2>4, <2>5, <2>7, <2>8 DEF PlaceInv
<1>8. FillsAreTrades' /\ FillsWithinPlan'
      BY <1>1, <1>2, <1>6 DEF FillsAreTrades, FillsWithinPlan, TypeOK
<1>9. StraysAreDangling'
      BY DEF StraysAreDangling, Live, InCharge
<1> QED BY <1>4, <1>5, <1>7, <1>8, <1>9

LEMMA StepNextRound == ASSUME IInv, NextRound PROVE IInv'
<1> USE RoundsAssumption DEF Goto, IInv, NextRound, exchange, tracking, hand
<1>1. TypeOK'
      BY DEF TypeOK, Labels
<1>2. HandInv' /\ LotsInv'
      BY DEF HandInv, LotsInv, Holds, Placed
<1>3. cur = None /\ round \in Nat /\ None \notin buys
      BY DEF HandInv, Holds, TypeOK
<1>4. PlaceInv'
      BY <1>1, <1>3 DEF PlaceInv, TypeOK
<1>5. FillsAreTrades' /\ FillsWithinPlan' /\ StraysAreDangling'
      BY DEF FillsAreTrades, FillsWithinPlan, StraysAreDangling, Live, InCharge
<1> QED BY <1>1, <1>2, <1>4, <1>5

LEMMA StepCrash == ASSUME IInv, Crash PROVE IInv'
<1> USE RoundsAssumption DEF Goto, IInv, Crash, exchange
<1>1. TypeOK'
  <2>1. Nothing \in [Codes -> Nat] /\ Fresh \in Attempts
        BY DEF Nothing, Fresh, Attempts
  <2>2. rec' \in [Codes -> Attempts] /\ total' \in 0..MaxOrders
        BY <2>1
  <2>3. Off \in [on : BOOLEAN, filled : Nat, done : BOOLEAN]
        /\ NoNews \in [lots : Nat, final : BOOLEAN]
        BY DEF Off, NoNews
  <2>4. crashes' \in 0..MaxCrashes
    <3>1. crashes \in 0..MaxCrashes /\ crashes < MaxCrashes /\ crashes' = crashes + 1
          BY DEF TypeOK
    <3>2. MaxCrashes \in Nat
          OBVIOUS
    <3> HIDE DEF IInv, Crash
    <3> QED BY <3>1, <3>2
  <2>5. dangling' \subseteq Orders
        BY DEF TypeOK, Live
  <2> QED BY <2>1, <2>2, <2>3, <2>4, <2>5 DEF TypeOK, Labels
<1>2. HandInv' /\ LotsInv'
      BY DEF HandInv, LotsInv, Holds, Placed
<1>3. PlaceInv'
      BY DEF PlaceInv, Nothing
<1>4. FillsAreTrades' /\ FillsWithinPlan'
      BY DEF FillsAreTrades, FillsWithinPlan, Nothing, TypeOK
<1>5. StraysAreDangling'
      BY DEF StraysAreDangling, Live, InCharge
<1> QED BY <1>1, <1>2, <1>3, <1>4, <1>5

LEMMA StepIInv == IInv /\ [Next]_vars => IInv'
<1> SUFFICES ASSUME IInv, [Next]_vars PROVE IInv'
    OBVIOUS
<1>1. CASE Market
      BY <1>1, StepTrade, StepEndOrder DEF Market
<1>2. CASE Callback
      BY <1>2, StepCallback
<1>3. CASE Main
      BY <1>3, StepMakePlan, StepTake, StepNotPlaced, StepPlace, StepWaits, StepRecord,
         StepNextRound DEF Main, Waits
<1>4. CASE Crash
      BY <1>4, StepCrash
<1>5. CASE UNCHANGED vars
      BY <1>5, StepStutter
<1> QED BY <1>1, <1>2, <1>3, <1>4, <1>5 DEF Next

LEMMA Invariance == Spec => []IInv
<1>1. Init => IInv
      BY InitIInv
<1>2. IInv /\ [Next]_vars => IInv'
      BY StepIInv
<1> QED BY <1>1, <1>2, PTL DEF Spec

-----------------------------------------------------------------------------
(* Every variable keeps its type; no run places more orders than           *)
(* DAILY_MAX_ORDERS, nor more for one stock than DAILY_MAX_PER_STOCK.      *)
THEOREM TypeCorrect == Spec => []TypeOK
<1>1. IInv => TypeOK
      BY DEF IInv
<1> QED BY <1>1, Invariance, PTL

(* Whatever callbacks are lost or late, execute_rebalance reports no lot   *)
(* that was not traded.                                                    *)
THEOREM FillsAreTradesCorrect == Spec => []FillsAreTrades
<1>1. IInv => FillsAreTrades
      BY DEF IInv
<1> QED BY <1>1, Invariance, PTL

(* Over all the rounds of retries, what is reported of a stock stays       *)
(* within what was planned.                                                *)
THEOREM FillsWithinPlanCorrect == Spec => []FillsWithinPlan
<1>1. IInv => FillsWithinPlan
      BY DEF IInv
<1> QED BY <1>1, Invariance, PTL

(* An open order that is not in hand was given up unconfirmed or belongs   *)
(* to an earlier run.                                                      *)
THEOREM StraysAreDanglingCorrect == Spec => []StraysAreDangling
<1>1. IInv => StraysAreDangling
      BY DEF IInv
<1> QED BY <1>1, Invariance, PTL

(* When the rebalance ends every buy is filled, skipped or pending, and    *)
(* only one of them.                                                       *)
THEOREM BuysAccountedCorrect == Spec => []BuysAccounted
<1>1. IInv => BuysAccounted
  <2> SUFFICES ASSUME IInv, pc = "done", NEW c \in buys
               PROVE  \/ fills[c] > 0 /\ c \notin skipped \cup pending
                      \/ fills[c] = 0 /\ c \in skipped \ pending
                      \/ fills[c] = 0 /\ c \in pending \ skipped
      BY DEF BuysAccounted
  <2>1. c \in Codes /\ fills[c] \in Nat /\ round > 0 /\ cur = None /\ c # None
        BY RoundsAssumption DEF IInv, TypeOK, PlaceInv, HandInv, Holds
  <2>2. todo = {} /\ pending = failed /\ skipped \cap failed = {}
        BY DEF IInv, PlaceInv
  <2>3. c \in failed \cup skipped => fills[c] = 0
        BY <2>1 DEF IInv, PlaceInv
  <2>4. c \in failed \cup skipped \/ fills[c] > 0
        BY <2>1, <2>2 DEF IInv, PlaceInv
  <2> QED BY <2>1, <2>2, <2>3, <2>4
<1> QED BY <1>1, Invariance, PTL

-----------------------------------------------------------------------------
(* What the day's orders can cost, however many runs it takes.             *)

OrdersOf(c) == {o \in Orders : book[o].code = c}
Used == {o \in Orders : book[o] # Unused}

(* The limits of OrderTracker hold for each run.                           *)
OrdersLimited ==
    /\ Cardinality(Used) <= MaxOrders * (crashes + 1)
    /\ \A c \in Codes : Cardinality(OrdersOf(c)) <= MaxPerStock * (crashes + 1)

(* Lots sold and lots on offer are lots that were held when the day began. *)
NeverShort == \A c \in Codes : sold[c] + Frozen(c) <= Holding[c]

(* The lots bought and bid for stay within the target for each order that  *)
(* the limits allow.                                                       *)
BuysLimited ==
    \A c \in Codes :
        bought[c] + Cardinality(OpenLots(c, "buy"))
          <= Target[c] * (MaxPerStock * (crashes + 1))

(* An order has a code and a side for good.                                *)
BookInv ==
    \A o \in Orders :
        book[o] # Unused => book[o].code \in Codes /\ book[o].side \in {"buy", "sell"}

CountInv ==
    /\ IsFiniteSet(Used) /\ Cardinality(Used) <= MaxOrders * crashes + total
    /\ \A c \in Codes :
         /\ IsFiniteSet(OrdersOf(c))
         /\ Cardinality(OrdersOf(c)) <= MaxPerStock * crashes + rec[c].attempts

OrdersInv == IInv /\ BookInv /\ CountInv

LEMMA AddedOne ==
    ASSUME NEW S, NEW x, NEW T, IsFiniteSet(S), x \notin S, T = S \cup {x}
    PROVE  IsFiniteSet(T) /\ Cardinality(T) = Cardinality(S) + 1
BY FS_AddElement

LEMMA UnusedCode == Unused.code = None /\ Unused.code \notin Codes
BY RoundsAssumption DEF Unused

LEMMA InitOrders == Init => OrdersInv
<1> SUFFICES ASSUME Init PROVE BookInv /\ CountInv
    BY InitIInv DEF OrdersInv
<1>1. \A o \in Orders : book[o] = Unused
      BY DEF Init
<1>2. Used = {}
      BY <1>1 DEF Used
<1>3. \A c \in Codes : OrdersOf(c) = {}
  <2> SUFFICES ASSUME NEW c \in Codes, NEW o \in Orders, book[o].code = c PROVE FALSE
      BY DEF OrdersOf
  <2> QED BY <1>1, UnusedCode
<1>4. IsFiniteSet({}) /\ Cardinality({}) = 0
      BY FS_EmptySet
<1>5. crashes = 0 /\ total = 0 /\ \A c \in Codes : rec[c].attempts = 0
      BY DEF Init, Fresh
<1>6. MaxOrders * 0 = 0 /\ MaxPerStock * 0 = 0
      BY RoundsAssumption
<1>7. CountInv
      BY <1>2, <1>3, <1>4, <1>5, <1>6 DEF CountInv
<1> QED BY <1>1, <1>7 DEF BookInv

(* A limit of n for each of k runs, and of n more for the next.            *)
LEMMA NextRun ==
    ASSUME NEW n \in Nat, NEW k \in Nat
    PROVE  n * k \in Nat /\ n * (k + 1) = n * k + n
OBVIOUS

(* Steps that leave the codes of the orders alone and forget no attempt.   *)
LEMMA CountKept ==
    ASSUME OrdersInv, BookInv', total' = total, crashes' = crashes,
           \A o \in Orders : (book'[o] = Unused <=> book[o] = Unused)
                             /\ book'[o].code = book[o].code,
           \A c \in Codes : rec'[c].attempts = rec[c].attempts
    PROVE  CountInv'
<1>1. Used' = Used /\ \A c \in Codes : OrdersOf(c)' = OrdersOf(c)
      BY DEF Used, OrdersOf
<1> QED BY <1>1 DEF OrdersInv, CountInv

LEMMA CountPlace == ASSUME OrdersInv, NEW o \in Orders, Place(o) PROVE BookInv' /\ CountInv'
<1> USE RoundsAssumption DEF OrdersInv
<1>1. /\ cur \in Codes /\ book[o] = Unused /\ book'[o].code = cur
      /\ book'[o].side \in {"buy", "sell"}
      /\ \A q \in Orders \ {o} : book'[q] = book[q]
      BY DEF IInv, HandInv, Holds, TypeOK, Place
<1>2. BookInv'
      BY <1>1 DEF BookInv
<1>3. Used' = Used \cup {o} /\ o \notin Used
      BY <1>1, UnusedCode DEF Used
<1>4. /\ total' = total + 1 /\ crashes' = crashes
      /\ \A c \in Codes :
           rec'[c].attempts = IF c = cur THEN rec[c].attempts + 1 ELSE rec[c].attempts
      BY <1>1 DEF Place, IInv, TypeOK, Attempts
<1>5. total \in Nat /\ crashes \in Nat
      /\ MaxOrders * crashes \in Nat /\ MaxPerStock * crashes \in Nat
      BY NextRun DEF IInv, TypeOK
<1>6. IsFiniteSet(Used') /\ Cardinality(Used') = Cardinality(Used) + 1
      BY <1>3, AddedOne DEF CountInv
<1>7. Cardinality(Used) \in Nat
      BY FS_CardinalityType DEF CountInv
<1>8. Cardinality(Used') <= MaxOrders * crashes' + total'
      BY <1>4, <1>5, <1>6, <1>7 DEF CountInv
<1>9. ASSUME NEW c \in Codes
      PROVE  /\ IsFiniteSet(OrdersOf(c)')
             /\ Cardinality(OrdersOf(c)') <= MaxPerStock * crashes' + rec'[c].attempts
  <2>1. /\ IsFiniteSet(OrdersOf(c)) /\ Cardinality(OrdersOf(c)) \in Nat
        /\ Cardinality(OrdersOf(c)) <= MaxPerStock * crashes + rec[c].attempts
        /\ rec[c].attempts \in Nat
        BY FS_CardinalityType DEF CountInv, IInv, TypeOK, Attempts
  <2>2. CASE c = cur
    <3>0. \A q \in Orders : book'[q].code = c <=> q = o \/ book[q].code = c
          BY <1>1, <2>2
    <3>1. OrdersOf(c)' = OrdersOf(c) \cup {o} /\ o \notin OrdersOf(c)
          BY <1>1, <3>0, UnusedCode DEF OrdersOf
    <3>2. IsFiniteSet(OrdersOf(c)') /\ Cardinality(OrdersOf(c)') = Cardinality(OrdersOf(c)) + 1
      <4> HIDE DEF OrdersInv
      <4> QED BY <2>1, <3>1, AddedOne
    <3> QED BY <1>4, <1>5, <2>1, <2>2, <3>2
  <2>3. CASE c # cur
    <3>1. OrdersOf(c)' = OrdersOf(c)
          BY <1>1, <2>3, UnusedCode DEF OrdersOf
    <3> QED BY <1>4, <2>1, <2>3, <3>1
  <2> QED BY <2>2, <2>3
<1> QED BY <1>2, <1>6, <1>8, <1>9 DEF CountInv

LEMMA CountCrash == ASSUME OrdersInv, Crash PROVE BookInv' /\ CountInv'
<1> USE RoundsAssumption DEF OrdersInv
<1>1. /\ book' = book /\ crashes' = crashes + 1 /\ crashes \in Nat
      /\ total' = 0 /\ total \in Nat /\ total <= MaxOrders
      BY DEF Crash, exchange, IInv, TypeOK
<1>2. \A c \in Codes : rec'[c].attempts = 0 /\ rec[c].attempts \in Nat
                       /\ rec[c].attempts <= MaxPerStock
      BY DEF Crash, Fresh, IInv, TypeOK, Attempts
<1>3. Used' = Used /\ \A c \in Codes : OrdersOf(c)' = OrdersOf(c)
      BY <1>1 DEF Used, OrdersOf
<1>4. /\ MaxOrders * crashes' = MaxOrders * crashes + MaxOrders
      /\ MaxPerStock * crashes' = MaxPerStock * crashes + MaxPerStock
      /\ MaxOrders * crashes \in Nat /\ MaxPerStock * crashes \in Nat
      BY <1>1, NextRun
<1>5. IsFiniteSet(Used') /\ Cardinality(Used') <= MaxOrders * crashes' + total'
  <2>1. Cardinality(Used) \in Nat /\ Cardinality(Used) <= MaxOrders * crashes + total
        BY FS_CardinalityType DEF CountInv
  <2> QED BY <1>1, <1>3, <1>4, <2>1 DEF CountInv
<1>6. ASSUME NEW c \in Codes
      PROVE  /\ IsFiniteSet(OrdersOf(c)')
             /\ Cardinality(OrdersOf(c)') <= MaxPerStock * crashes' + rec'[c].attempts
  <2>1. /\ IsFiniteSet(OrdersOf(c)) /\ Cardinality(OrdersOf(c)) \in Nat
        /\ Cardinality(OrdersOf(c)) <= MaxPerStock * crashes + rec[c].attempts
        BY FS_CardinalityType DEF CountInv
  <2> QED BY <1>2, <1>3, <1>4, <2>1
<1> QED BY <1>1, <1>5, <1>6 DEF BookInv, CountInv

LEMMA StepOrders == OrdersInv /\ [Next]_vars => OrdersInv'
<1> SUFFICES ASSUME OrdersInv, [Next]_vars PROVE BookInv' /\ CountInv'
    BY StepIInv DEF OrdersInv
<1>1. ASSUME NEW o \in Orders, Place(o) PROVE BookInv' /\ CountInv'
      BY <1>1, CountPlace
<1>2. CASE Crash
      BY <1>2, CountCrash
<1>3. ASSUME NEW o \in Orders, Trade(o) \/ EndOrder(o) PROVE BookInv' /\ CountInv'
  <2>1. UNCHANGED <<total, crashes, rec>> /\ book[o] # Unused
        /\ \E n \in Nat : book' = [book EXCEPT ![o].left = n]
    <3>1. book[o].left \in Nat
          BY DEF OrdersInv, IInv, TypeOK, BookEntry
    <3> QED BY <1>3, <3>1 DEF Trade, EndOrder, run, tracking, Unused
  <2>2. book \in [Orders -> BookEntry]
        BY DEF OrdersInv, IInv, TypeOK
  <2>3. \A q \in Orders : book'[q].code = book[q].code /\ book'[q].side = book[q].side
                          /\ (q # o => book'[q] = book[q])
        BY <2>1, <2>2 DEF BookEntry
  <2>4. book[o].code \in Codes /\ book'[o] # Unused
        BY <2>1, <2>3, UnusedCode DEF OrdersInv, BookInv
  <2>5. BookInv'
        BY <2>1, <2>3, <2>4 DEF OrdersInv, BookInv
  <2> QED BY <2>1, <2>3, <2>4, <2>5, CountKept
<1>4. ASSUME book' = book, total' = total, crashes' = crashes,
             \A c \in Codes : rec'[c].attempts = rec[c].attempts
      PROVE  BookInv' /\ CountInv'
      BY <1>4, CountKept DEF OrdersInv, BookInv
<1>5. CASE NotPlaced \/ Record
      BY <1>4, <1>5 DEF NotPlaced, Record, exchange, result, work, OrdersInv, IInv, TypeOK, Attempts
<1>6. CASE Callback \/ UNCHANGED vars
      BY <1>4, <1>6 DEF Callback, OnTrade, OnFinal, exchange, tracking, vars, run
<1>7. CASE CleanUp \/ MakePlan \/ Register \/ Wake \/ Cancel \/ Confirm \/ NextRound
      BY <1>4, <1>7 DEF CleanUp, MakePlan, Register, Wake, Cancel, Confirm, NextRound,
         exchange, tracking
<1>8. ASSUME NEW c \in Codes, Take(c) PROVE BookInv' /\ CountInv'
      BY <1>4, <1>8 DEF Take, exchange, tracking
<1> QED BY <1>1, <1>2, <1>3, <1>5, <1>6, <1>7, <1>8 DEF Next, Market, Main

LEMMA TheOrders == Spec => []OrdersInv
<1>1. Init => OrdersInv
      BY InitOrders
<1>2. OrdersInv /\ [Next]_vars => OrdersInv'
      BY StepOrders
<1> QED BY <1>1, <1>2, PTL DEF Spec

(* DAILY_MAX_ORDERS and DAILY_MAX_PER_STOCK are counted in the memory of a *)
(* run: a day that is started anew k times can place k + 1 times as many   *)
(* orders, and no more.                                                    *)
THEOREM OrdersLimitedCorrect == Spec => []OrdersLimited
<1>1. OrdersInv => OrdersLimited
  <2> SUFFICES ASSUME OrdersInv PROVE OrdersLimited
      OBVIOUS
  <2>1. /\ crashes \in Nat /\ total \in Nat /\ total <= MaxOrders
        /\ MaxOrders * crashes \in Nat /\ MaxPerStock * crashes \in Nat
        /\ MaxOrders * (crashes + 1) = MaxOrders * crashes + MaxOrders
        /\ MaxPerStock * (crashes + 1) = MaxPerStock * crashes + MaxPerStock
        BY RoundsAssumption, NextRun DEF OrdersInv, IInv, TypeOK
  <2>2. Cardinality(Used) \in Nat /\ Cardinality(Used) <= MaxOrders * crashes + total
        BY FS_CardinalityType DEF OrdersInv, CountInv
  <2>3. Cardinality(Used) <= MaxOrders * (crashes + 1)
        BY <2>1, <2>2, RoundsAssumption
  <2>4. ASSUME NEW c \in Codes
        PROVE  Cardinality(OrdersOf(c)) <= MaxPerStock * (crashes + 1)
    <3>1. /\ Cardinality(OrdersOf(c)) \in Nat
          /\ Cardinality(OrdersOf(c)) <= MaxPerStock * crashes + rec[c].attempts
          BY FS_CardinalityType DEF OrdersInv, CountInv
    <3>2. rec[c].attempts \in Nat /\ rec[c].attempts <= MaxPerStock
          BY RoundsAssumption DEF OrdersInv, IInv, TypeOK, Attempts
    <3> QED BY <2>1, <3>1, <3>2, RoundsAssumption
  <2> QED BY <2>3, <2>4 DEF OrdersLimited
<1> QED BY <1>1, TheOrders, PTL

-----------------------------------------------------------------------------
(* The lots an order has open.                                             *)

LEMMA InLots ==
    ASSUME NEW c, NEW s, NEW u
    PROVE  /\ u \in OpenLots(c, s) <=>
                \E o \in Orders : /\ book[o].code = c /\ book[o].side = s
                                  /\ u \in {o} \X (1..book[o].left)
           /\ u \in OpenLots(c, s)' <=>
                \E o \in Orders : /\ book'[o].code = c /\ book'[o].side = s
                                  /\ u \in {o} \X (1..book'[o].left)
BY DEF OpenLots

LEMMA FirstLots ==
    ASSUME NEW n \in Nat
    PROVE  IsFiniteSet(1..n) /\ Cardinality(1..n) = n
<1>1. IsFiniteSet(1..n) /\ Cardinality(1..n) = IF 1 > n THEN 0 ELSE n - 1 + 1
      BY FS_Interval
<1> QED BY <1>1

LEMMA WithinBoth ==
    ASSUME NEW S, NEW T, NEW U, IsFiniteSet(S), IsFiniteSet(T), U \subseteq S \cup T
    PROVE  IsFiniteSet(U) /\ Cardinality(U) <= Cardinality(S) + Cardinality(T)
<1>1. IsFiniteSet(S \cup T) /\ IsFiniteSet(S \cap T)
      /\ Cardinality(S \cup T) = Cardinality(S) + Cardinality(T) - Cardinality(S \cap T)
      BY FS_Union, FS_Intersection
<1>2. IsFiniteSet(U) /\ Cardinality(U) <= Cardinality(S \cup T)
      BY <1>1, FS_Subset
<1>3. /\ Cardinality(U) \in Nat /\ Cardinality(S) \in Nat /\ Cardinality(T) \in Nat
      /\ Cardinality(S \cap T) \in Nat /\ Cardinality(S \cup T) \in Nat
      BY <1>1, <1>2, FS_CardinalityType
<1> QED BY <1>1, <1>2, <1>3

(* One lot fewer in an order that trades, and none else has changed.       *)
LEMMA LotsTraded ==
    ASSUME OrdersInv, NEW o \in Orders, Trade(o), NEW c \in Codes, NEW s,
           IsFiniteSet(OpenLots(c, s))
    PROVE  /\ IsFiniteSet(OpenLots(c, s)')
           /\ book[o].code = c /\ book[o].side = s =>
                Cardinality(OpenLots(c, s)) = Cardinality(OpenLots(c, s)') + 1
           /\ ~(book[o].code = c /\ book[o].side = s) => OpenLots(c, s)' = OpenLots(c, s)
<1>1. book \in [Orders -> BookEntry] /\ book[o].left \in Nat /\ book[o].left > 0
      BY DEF OrdersInv, IInv, TypeOK, BookEntry, Trade
<1>2. /\ \A q \in Orders : book'[q].code = book[q].code /\ book'[q].side = book[q].side
      /\ \A q \in Orders \ {o} : book'[q] = book[q]
      /\ book'[o].left = book[o].left - 1
      BY <1>1 DEF Trade, BookEntry
<1>3. CASE book[o].code = c /\ book[o].side = s
  <2> DEFINE last == <<o, book[o].left>>
  <2>1. last \in {o} \X (1..book[o].left)
        BY <1>1
  <2>2. last \in OpenLots(c, s)
        BY <1>3, <2>1, InLots
  <2>3. ASSUME NEW u PROVE u \in OpenLots(c, s)' <=> u \in OpenLots(c, s) \ {last}
    <3>1. ASSUME NEW q \in Orders, u \in {q} \X (1..book'[q].left)
          PROVE  u \in {q} \X (1..book[q].left) /\ u # last
          BY <1>1, <1>2, <3>1
    <3>2. ASSUME NEW q \in Orders, u \in {q} \X (1..book[q].left), u # last
          PROVE  u \in {q} \X (1..book'[q].left)
          BY <1>1, <1>2, <3>2
    <3> HIDE DEF last
    <3> QED BY <1>2, <3>1, <3>2, InLots
  <2>4. OpenLots(c, s)' = OpenLots(c, s) \ {last}
        BY <2>3
  <2>5. /\ IsFiniteSet(OpenLots(c, s) \ {last})
        /\ Cardinality(OpenLots(c, s) \ {last}) = Cardinality(OpenLots(c, s)) - 1
        BY <2>2, FS_RemoveElement
  <2>6. Cardinality(OpenLots(c, s)) \in Nat
        BY FS_CardinalityType
  <2> HIDE DEF last
  <2> QED BY <1>3, <2>4, <2>5, <2>6
<1>4. CASE ~(book[o].code = c /\ book[o].side = s)
  <2>1. ASSUME NEW u PROVE u \in OpenLots(c, s)' <=> u \in OpenLots(c, s)
        BY <1>2, <1>4, InLots
  <2>2. OpenLots(c, s)' = OpenLots(c, s)
        BY <2>1
  <2> QED BY <1>4, <2>2
<1> QED BY <1>3, <1>4

(* An order that ends takes its open lots with it.                         *)
LEMMA LotsEnded ==
    ASSUME OrdersInv, NEW o \in Orders, EndOrder(o), NEW c \in Codes, NEW s,
           IsFiniteSet(OpenLots(c, s))
    PROVE  /\ IsFiniteSet(OpenLots(c, s)')
           /\ Cardinality(OpenLots(c, s)') <= Cardinality(OpenLots(c, s))
<1>1. book \in [Orders -> BookEntry] /\ book[o].left \in Nat
      BY DEF OrdersInv, IInv, TypeOK, BookEntry
<1>2. /\ \A q \in Orders : book'[q].code = book[q].code /\ book'[q].side = book[q].side
      /\ \A q \in Orders \ {o} : book'[q] = book[q]
      /\ book'[o].left = 0
      BY <1>1 DEF EndOrder, BookEntry
<1>3. ASSUME NEW u, u \in OpenLots(c, s)' PROVE u \in OpenLots(c, s)
  <2>1. PICK q \in Orders : /\ book'[q].code = c /\ book'[q].side = s
                            /\ u \in {q} \X (1..book'[q].left)
        BY <1>3, InLots
  <2>2. q # o
        BY <1>2, <2>1
  <2> QED BY <1>2, <2>1, <2>2, InLots
<1>4. OpenLots(c, s)' \subseteq OpenLots(c, s)
      BY <1>3
<1> QED BY <1>4, FS_Subset

(* A new order offers its size.                                            *)
LEMMA LotsPlaced ==
    ASSUME OrdersInv, NEW o \in Orders, Place(o), NEW c \in Codes, NEW s \in {"buy", "sell"},
           IsFiniteSet(OpenLots(c, s))
    PROVE  /\ IsFiniteSet(OpenLots(c, s)')
           /\ c = cur /\ s = (IF round = 0 THEN "sell" ELSE "buy") =>
                Cardinality(OpenLots(c, s)') <= Cardinality(OpenLots(c, s)) + plan[c]
           /\ ~(c = cur /\ s = (IF round = 0 THEN "sell" ELSE "buy")) =>
                OpenLots(c, s)' = OpenLots(c, s)
<1>1. /\ book[o] = Unused /\ cur \in Codes /\ plan[cur] \in Nat
      /\ book'[o].code = cur /\ book'[o].left = plan[cur]
      /\ book'[o].side = (IF round = 0 THEN "sell" ELSE "buy")
      /\ \A q \in Orders \ {o} : book'[q] = book[q]
      BY DEF OrdersInv, IInv, HandInv, Holds, TypeOK, Place
<1>2. CASE c = cur /\ s = (IF round = 0 THEN "sell" ELSE "buy")
  <2> DEFINE New == {o} \X (1..plan[c])
  <2>1. ASSUME NEW u, u \in OpenLots(c, s)' PROVE u \in OpenLots(c, s) \cup New
    <3>1. PICK q \in Orders : /\ book'[q].code = c /\ book'[q].side = s
                              /\ u \in {q} \X (1..book'[q].left)
          BY <2>1, InLots
    <3>2. CASE q = o
          BY <1>1, <1>2, <3>1, <3>2
    <3>3. CASE q # o
          BY <1>1, <3>1, <3>3, InLots
    <3> QED BY <3>2, <3>3
  <2>2. IsFiniteSet(New) /\ Cardinality(New) = plan[c]
    <3>1. plan[c] \in Nat
          BY <1>1, <1>2
    <3>2. IsFiniteSet(1..plan[c]) /\ Cardinality(1..plan[c]) = plan[c]
          BY <3>1, FirstLots
    <3>3. IsFiniteSet({o}) /\ Cardinality({o}) = 1
          BY FS_Singleton
    <3>4. IsFiniteSet(New) /\ Cardinality(New) = Cardinality({o}) * Cardinality(1..plan[c])
          BY <3>2, <3>3, FS_Product
    <3> QED BY <3>1, <3>2, <3>3, <3>4
  <2>3. OpenLots(c, s)' \subseteq OpenLots(c, s) \cup New
        BY <2>1
  <2> HIDE DEF New
  <2>4. /\ IsFiniteSet(OpenLots(c, s)')
        /\ Cardinality(OpenLots(c, s)') <= Cardinality(OpenLots(c, s)) + Cardinality(New)
        BY <2>2, <2>3, WithinBoth
  <2> QED BY <1>2, <2>2, <2>4
<1>3. CASE ~(c = cur /\ s = (IF round = 0 THEN "sell" ELSE "buy"))
  <2>1. ~(book[o].code = c) /\ ~(book'[o].code = c /\ book'[o].side = s)
        BY <1>1, <1>3, UnusedCode
  <2>2. ASSUME NEW u PROVE u \in OpenLots(c, s)' <=> u \in OpenLots(c, s)
        BY <1>1, <2>1, InLots
  <2>3. OpenLots(c, s)' = OpenLots(c, s)
        BY <2>2
  <2> QED BY <1>3, <2>3
<1> QED BY <1>2, <1>3

-----------------------------------------------------------------------------
(* What is sold and what is bid for.                                       *)

(* The lots this run is still going to offer.                              *)
Reserved(c) ==
    IF round = 0 /\ (c \in todo \/ (pc = "place" /\ c = cur)) THEN plan[c] ELSE 0

OfferInv ==
    \A c \in Codes :
        /\ IsFiniteSet(OpenLots(c, "sell"))
        /\ sold[c] + Frozen(c) + Reserved(c) <= Holding[c]

BidInv ==
    \A c \in Codes :
        /\ IsFiniteSet(OpenLots(c, "buy"))
        /\ bought[c] + Cardinality(OpenLots(c, "buy")) <= Target[c] * Cardinality(OrdersOf(c))

(* After the first round only planned buys are ordered, and no plan to buy *)
(* exceeds the target.                                                     *)
BuysInv ==
    /\ \A c \in buys : plan[c] <= Target[c]
    /\ round > 0 => todo \cup failed \subseteq buys /\ cur \in buys \cup {None}

TradeInv == OrdersInv /\ OfferInv /\ BidInv /\ BuysInv

LEMMA TradeTypes ==
    ASSUME TradeInv, NEW c \in Codes
    PROVE  /\ sold[c] \in Nat /\ bought[c] \in Nat /\ plan[c] \in Nat /\ Reserved(c) \in Nat
           /\ Holding[c] \in Nat /\ Target[c] \in Nat /\ round \in Nat
           /\ Frozen(c) \in Nat /\ Cardinality(OpenLots(c, "buy")) \in Nat
           /\ IsFiniteSet(OrdersOf(c)) /\ Cardinality(OrdersOf(c)) \in Nat
           /\ Target[c] * Cardinality(OrdersOf(c)) \in Nat
<1>1. /\ sold[c] \in Nat /\ bought[c] \in Nat /\ plan[c] \in Nat /\ round \in Nat
      BY DEF TradeInv, OrdersInv, IInv, TypeOK
<1>2. Reserved(c) \in Nat
      BY <1>1 DEF Reserved
<1>3. Holding[c] \in Nat /\ Target[c] \in Nat
      BY RoundsAssumption
<1>4. Frozen(c) \in Nat /\ Cardinality(OpenLots(c, "buy")) \in Nat
      BY FS_CardinalityType DEF TradeInv, OfferInv, BidInv, Frozen
<1>5. IsFiniteSet(OrdersOf(c)) /\ Cardinality(OrdersOf(c)) \in Nat
      BY FS_CardinalityType DEF TradeInv, OrdersInv, CountInv
<1>6. Target[c] * Cardinality(OrdersOf(c)) \in Nat
      BY <1>3, <1>5, NextRun
<1> QED BY <1>1, <1>2, <1>3, <1>4, <1>5, <1>6

LEMMA InitTrade == Init => TradeInv
<1> SUFFICES ASSUME Init PROVE TradeInv
    OBVIOUS
<1>1. OrdersInv
      BY InitOrders
<1>2. ASSUME NEW c \in Codes, NEW s PROVE OpenLots(c, s) = {}
  <2>1. \A o \in Orders : book[o] = Unused
        BY DEF Init
  <2> QED BY <2>1, UnusedCode, InLots
<1>3. IsFiniteSet({}) /\ Cardinality({}) = 0
      BY FS_EmptySet
<1>4. \A c \in Codes : sold[c] = 0 /\ bought[c] = 0 /\ Reserved(c) = 0
      BY DEF Init, Nothing, Reserved
<1>5. \A c \in Codes : Holding[c] \in Nat /\ Target[c] \in Nat
      BY RoundsAssumption
<1>6. OfferInv
  <2> SUFFICES ASSUME NEW c \in Codes
               PROVE  /\ IsFiniteSet(OpenLots(c, "sell"))
                      /\ sold[c] + Frozen(c) + Reserved(c) <= Holding[c]
      BY DEF OfferInv
  <2>1. IsFiniteSet(OpenLots(c, "sell")) /\ Frozen(c) = 0
        BY <1>2, <1>3 DEF Frozen
  <2> QED BY <1>4, <1>5, <2>1
<1>7. ASSUME NEW c \in Codes
      PROVE  Cardinality(OrdersOf(c)) \in Nat /\ Target[c] * Cardinality(OrdersOf(c)) \in Nat
      BY <1>1, <1>5, NextRun, FS_CardinalityType DEF OrdersInv, CountInv
<1>8. BidInv
  <2> SUFFICES ASSUME NEW c \in Codes
               PROVE  /\ IsFiniteSet(OpenLots(c, "buy"))
                      /\ bought[c] + Cardinality(OpenLots(c, "buy"))
                           <= Target[c] * Cardinality(OrdersOf(c))
      BY DEF BidInv
  <2>1. IsFiniteSet(OpenLots(c, "buy")) /\ Cardinality(OpenLots(c, "buy")) = 0
        BY <1>2, <1>3
  <2> QED BY <1>4, <1>7, <2>1
<1>9. BuysInv
      BY DEF Init, BuysInv
<1> QED BY <1>1, <1>6, <1>8, <1>9 DEF TradeInv

(* A step of the run that changes no order and reserves no more.           *)
LEMMA TradeKept ==
    ASSUME TradeInv, book' = book, bought' = bought, sold' = sold,
           \A c \in Codes : Reserved(c)' \in Nat /\ Reserved(c)' <= Reserved(c)
    PROVE  OfferInv' /\ BidInv'
<1>1. \A c \in Codes : /\ OrdersOf(c)' = OrdersOf(c) /\ Frozen(c)' = Frozen(c)
                       /\ \A s : OpenLots(c, s)' = OpenLots(c, s)
      BY DEF OrdersOf, OpenLots, Frozen
<1>2. ASSUME NEW c \in Codes
      PROVE  sold'[c] + Frozen(c)' + Reserved(c)' <= Holding[c]
  <2>1. sold[c] + Frozen(c) + Reserved(c) <= Holding[c]
        BY DEF TradeInv, OfferInv
  <2>2. sold[c] \in Nat /\ Frozen(c) \in Nat /\ Reserved(c) \in Nat /\ Holding[c] \in Nat
        BY TradeTypes
  <2> QED BY <1>1, <2>1, <2>2
<1>3. OfferInv'
      BY <1>1, <1>2 DEF TradeInv, OfferInv
<1>4. BidInv'
      BY <1>1 DEF TradeInv, BidInv
<1> QED BY <1>3, <1>4

LEMMA TradeStep ==
    ASSUME TradeInv, OrdersInv', NEW o \in Orders, Trade(o) \/ EndOrder(o)
    PROVE  TradeInv'
<1>1. UNCHANGED <<round, todo, pc, cur, plan, buys, failed>>
      BY DEF Trade, EndOrder, run, work, hand
<1>2. book[o].code \in Codes /\ book[o].side \in {"buy", "sell"}
  <2>1. book[o] # Unused
        BY DEF Trade, EndOrder, Unused
  <2> QED BY <2>1 DEF TradeInv, OrdersInv, BookInv
<1>3. \A c \in Codes : OrdersOf(c)' = OrdersOf(c)
  <2>1. book \in [Orders -> BookEntry]
        BY DEF TradeInv, OrdersInv, IInv, TypeOK
  <2>2. \A q \in Orders : book'[q].code = book[q].code
        BY <2>1 DEF Trade, EndOrder, BookEntry
  <2> QED BY <2>2 DEF OrdersOf
<1>4. ASSUME NEW c \in Codes
      PROVE  /\ IsFiniteSet(OpenLots(c, "sell")') /\ IsFiniteSet(OpenLots(c, "buy")')
             /\ sold'[c] + Frozen(c)' <= sold[c] + Frozen(c)
             /\ bought'[c] + Cardinality(OpenLots(c, "buy")')
                  <= bought[c] + Cardinality(OpenLots(c, "buy"))
             /\ sold'[c] \in Nat /\ bought'[c] \in Nat
             /\ Frozen(c)' \in Nat /\ Cardinality(OpenLots(c, "buy")') \in Nat
  <2>1. IsFiniteSet(OpenLots(c, "sell")) /\ IsFiniteSet(OpenLots(c, "buy"))
        BY DEF TradeInv, OfferInv, BidInv
  <2>2. IsFiniteSet(OpenLots(c, "sell")') /\ IsFiniteSet(OpenLots(c, "buy")')
        BY <2>1, LotsTraded, LotsEnded DEF TradeInv
  <2>3. /\ Cardinality(OpenLots(c, "sell")') \in Nat /\ Cardinality(OpenLots(c, "buy")') \in Nat
        /\ Cardinality(OpenLots(c, "sell")) \in Nat /\ Cardinality(OpenLots(c, "buy")) \in Nat
        BY <2>1, <2>2, FS_CardinalityType
  <2>4. sold \in [Codes -> Nat] /\ bought \in [Codes -> Nat]
        BY DEF TradeInv, OrdersInv, IInv, TypeOK
  <2>5. CASE Trade(o)
    <3>1. /\ book[o].side = "buy" => bought' = [bought EXCEPT ![book[o].code] = @ + 1] /\ sold' = sold
          /\ book[o].side # "buy" => sold' = [sold EXCEPT ![book[o].code] = @ + 1] /\ bought' = bought
          BY <2>5 DEF Trade
    <3>2. /\ book[o].code = c /\ book[o].side = "sell" =>
               Cardinality(OpenLots(c, "sell")) = Cardinality(OpenLots(c, "sell")') + 1
          /\ ~(book[o].code = c /\ book[o].side = "sell") => OpenLots(c, "sell")' = OpenLots(c, "sell")
          BY <2>1, <2>5, LotsTraded DEF TradeInv
    <3>3. /\ book[o].code = c /\ book[o].side = "buy" =>
               Cardinality(OpenLots(c, "buy")) = Cardinality(OpenLots(c, "buy")') + 1
          /\ ~(book[o].code = c /\ book[o].side = "buy") => OpenLots(c, "buy")' = OpenLots(c, "buy")
          BY <2>1, <2>5, LotsTraded DEF TradeInv
    <3>4. sold'[c] = IF book[o].code = c /\ book[o].side = "sell" THEN sold[c] + 1 ELSE sold[c]
          BY <1>2, <2>4, <3>1
    <3>5. bought'[c] = IF book[o].code = c /\ book[o].side = "buy" THEN bought[c] + 1 ELSE bought[c]
          BY <1>2, <2>4, <3>1
    <3>6. sold[c] \in Nat /\ bought[c] \in Nat
          BY <2>4
    <3> QED BY <2>2, <2>3, <3>2, <3>3, <3>4, <3>5, <3>6 DEF Frozen
  <2>6. CASE EndOrder(o)
    <3>1. sold' = sold /\ bought' = bought /\ sold[c] \in Nat /\ bought[c] \in Nat
          BY <2>4, <2>6 DEF EndOrder
    <3>2. /\ Cardinality(OpenLots(c, "sell")') <= Cardinality(OpenLots(c, "sell"))
          /\ Cardinality(OpenLots(c, "buy")') <= Cardinality(OpenLots(c, "buy"))
          BY <2>1, <2>6, LotsEnded DEF TradeInv
    <3> QED BY <2>2, <2>3, <3>1, <3>2 DEF Frozen
  <2> QED BY <2>5, <2>6
<1>5. OfferInv'
  <2> SUFFICES ASSUME NEW c \in Codes
               PROVE  sold'[c] + Frozen(c)' + Reserved(c)' <= Holding[c]
      BY <1>4 DEF OfferInv
  <2>1. Reserved(c)' = Reserved(c)
        BY <1>1 DEF Reserved
  <2>2. sold[c] + Frozen(c) + Reserved(c) <= Holding[c]
        BY DEF TradeInv, OfferInv
  <2> QED BY <1>4, <2>1, <2>2, TradeTypes
<1>6. BidInv'
  <2> SUFFICES ASSUME NEW c \in Codes
               PROVE  bought'[c] + Cardinality(OpenLots(c, "buy")')
                        <= Target[c] * Cardinality(OrdersOf(c)')
      BY <1>4 DEF BidInv
  <2>1. bought[c] + Cardinality(OpenLots(c, "buy")) <= Target[c] * Cardinality(OrdersOf(c))
        BY DEF TradeInv, BidInv
  <2>2. OrdersOf(c)' = OrdersOf(c)
        BY <1>3
  <2> QED BY <1>4, <2>1, <2>2, TradeTypes
<1>7. BuysInv'
      BY <1>1 DEF TradeInv, BuysInv
<1> QED BY <1>5, <1>6, <1>7 DEF TradeInv

LEMMA PlaceStep ==
    ASSUME TradeInv, OrdersInv', NEW o \in Orders, Place(o)
    PROVE  TradeInv'
<1>1. /\ cur \in Codes /\ book[o] = Unused /\ book'[o].code = cur
      /\ \A q \in Orders \ {o} : book'[q] = book[q]
      BY DEF TradeInv, OrdersInv, IInv, HandInv, Holds, TypeOK, Place
<1>2. /\ UNCHANGED <<bought, sold, round, todo, plan, buys, cur>>
      /\ pc = "place" /\ pc' = "register" /\ failed' = failed
      BY DEF Place, work, Goto
<1>3. cur \notin todo
      BY DEF TradeInv, OrdersInv, IInv, PlaceInv
<1>4. OfferInv'
  <2> SUFFICES ASSUME NEW c \in Codes
               PROVE  /\ IsFiniteSet(OpenLots(c, "sell")')
                      /\ sold'[c] + Frozen(c)' + Reserved(c)' <= Holding[c]
      BY DEF OfferInv
  <2>1. /\ IsFiniteSet(OpenLots(c, "sell"))
        /\ sold[c] + Frozen(c) + Reserved(c) <= Holding[c]
        BY DEF TradeInv, OfferInv
  <2>2. IsFiniteSet(OpenLots(c, "sell")') /\ Frozen(c)' \in Nat
        BY <2>1, LotsPlaced, FS_CardinalityType DEF TradeInv, Frozen
  <2>3. CASE c = cur /\ round = 0
    <3>1. Cardinality(OpenLots(c, "sell")') <= Cardinality(OpenLots(c, "sell")) + plan[c]
          BY <2>1, <2>3, LotsPlaced DEF TradeInv
    <3>2. Frozen(c)' <= Frozen(c) + plan[c]
          BY <3>1 DEF Frozen
    <3>3. Reserved(c) = plan[c] /\ Reserved(c)' = 0
          BY <1>2, <1>3, <2>3 DEF Reserved
    <3> QED BY <1>2, <2>1, <2>2, <3>2, <3>3, TradeTypes
  <2>4. CASE ~(c = cur /\ round = 0)
    <3>1. OpenLots(c, "sell")' = OpenLots(c, "sell")
          BY <2>1, <2>4, LotsPlaced DEF TradeInv
    <3>2. Frozen(c)' = Frozen(c)
          BY <3>1 DEF Frozen
    <3>3. Reserved(c)' = Reserved(c)
          BY <1>2, <2>4 DEF Reserved
    <3> QED BY <1>2, <2>1, <2>2, <3>2, <3>3
  <2> QED BY <2>3, <2>4
<1>5. BidInv'
  <2> SUFFICES ASSUME NEW c \in Codes
               PROVE  /\ IsFiniteSet(OpenLots(c, "buy")')
                      /\ bought'[c] + Cardinality(OpenLots(c, "buy")')
                           <= Target[c] * Cardinality(OrdersOf(c)')
      BY DEF BidInv
  <2>1. /\ IsFiniteSet(OpenLots(c, "buy"))
        /\ bought[c] + Cardinality(OpenLots(c, "buy")) <= Target[c] * Cardinality(OrdersOf(c))
        BY DEF TradeInv, BidInv
  <2>2. /\ IsFiniteSet(OpenLots(c, "buy")')
        /\ Cardinality(OpenLots(c, "buy")') \in Nat
        BY <2>1, LotsPlaced, FS_CardinalityType DEF TradeInv
  <2>3. CASE c = cur
    <3>1. \A q \in Orders : book'[q].code = c <=> q = o \/ book[q].code = c
          BY <1>1, <2>3
    <3>2. OrdersOf(c)' = OrdersOf(c) \cup {o} /\ o \notin OrdersOf(c)
          BY <1>1, <3>1, UnusedCode DEF OrdersOf
    <3>3. Cardinality(OrdersOf(c)') = Cardinality(OrdersOf(c)) + 1
          BY <3>2, TradeTypes, AddedOne
    <3>4. Target[c] * Cardinality(OrdersOf(c)')
            = Target[c] * Cardinality(OrdersOf(c)) + Target[c]
          BY <3>3, TradeTypes, NextRun
    <3>5. CASE round = 0
      <4>1. OpenLots(c, "buy")' = OpenLots(c, "buy")
            BY <2>1, <3>5, LotsPlaced DEF TradeInv
      <4> QED BY <1>2, <2>1, <2>2, <3>4, <4>1, TradeTypes
    <3>6. CASE round # 0
      <4>1. Cardinality(OpenLots(c, "buy")') <= Cardinality(OpenLots(c, "buy")) + plan[c]
            BY <2>1, <2>3, <3>6, LotsPlaced DEF TradeInv
      <4>2. plan[c] <= Target[c]
            BY <2>3, <3>6, RoundsAssumption, TradeTypes DEF TradeInv, BuysInv
      <4> QED BY <1>2, <2>1, <2>2, <3>4, <4>1, <4>2, TradeTypes
    <3> QED BY <3>5, <3>6
  <2>4. CASE c # cur
    <3>1. OpenLots(c, "buy")' = OpenLots(c, "buy")
          BY <2>1, <2>4, LotsPlaced DEF TradeInv
    <3>2. OrdersOf(c)' = OrdersOf(c)
          BY <1>1, <2>4, UnusedCode DEF OrdersOf
    <3> QED BY <1>2, <2>1, <3>1, <3>2
  <2> QED BY <2>3, <2>4
<1>6. BuysInv'
      BY <1>2 DEF TradeInv, BuysInv
<1> QED BY <1>4, <1>5, <1>6 DEF TradeInv

(* The plan reserves what may still be sold, and bids for what is missing. *)
LEMMA PlanStep ==
    ASSUME TradeInv, OrdersInv', MakePlan
    PROVE  TradeInv'
<1>1. PICK usable \in [Codes -> Lots] :
        /\ \A c \in Codes : usable[c] + sold[c] + Frozen(c) = Holding[c]
        /\ plan' = [c \in Codes |->
             IF Position(c) > Target[c] THEN Least(Position(c) - Target[c], usable[c])
                                        ELSE Target[c] - Position(c)]
      BY DEF MakePlan
<1>2. /\ UNCHANGED <<book, bought, sold, round, cur, failed>> /\ pc' = "next"
      /\ buys' = {c \in Codes : Position(c) < Target[c]}
      /\ todo' = {c \in Codes : Position(c) > Target[c] /\ plan'[c] > 0}
      BY DEF MakePlan, exchange, hand, Goto
<1>3. round = 0
      BY DEF MakePlan, TradeInv, OrdersInv, IInv, PlaceInv
<1>4. ASSUME NEW c \in Codes
      PROVE  /\ Position(c) \in Nat /\ usable[c] \in Nat
             /\ sold[c] + Frozen(c) + usable[c] <= Holding[c]
  <2>1. sold[c] + Frozen(c) + Reserved(c) <= Holding[c]
        BY DEF TradeInv, OfferInv
  <2>2. usable[c] \in Nat
        BY RoundsAssumption
  <2>3. Position(c) \in Nat
        BY <2>1, TradeTypes DEF Position
  <2>4. usable[c] + sold[c] + Frozen(c) = Holding[c]
        BY <1>1
  <2> QED BY <2>2, <2>3, <2>4, TradeTypes
<1>5. ASSUME NEW c \in Codes
      PROVE  /\ c \in todo' => plan'[c] \in Nat /\ plan'[c] <= usable[c]
             /\ c \in buys' => plan'[c] <= Target[c]
      BY <1>1, <1>2, <1>4, TradeTypes DEF Least
<1>6. \A c \in Codes : /\ OrdersOf(c)' = OrdersOf(c) /\ Frozen(c)' = Frozen(c)
                       /\ \A s : OpenLots(c, s)' = OpenLots(c, s)
      BY <1>2 DEF OrdersOf, OpenLots, Frozen
<1>7. OfferInv'
  <2> SUFFICES ASSUME NEW c \in Codes
               PROVE  sold'[c] + Frozen(c)' + Reserved(c)' <= Holding[c]
      BY <1>6 DEF OfferInv, TradeInv
  <2>1. Reserved(c)' \in Nat /\ Reserved(c)' <= usable[c]
        BY <1>2, <1>4, <1>5 DEF Reserved
  <2> QED BY <1>2, <1>4, <1>6, <2>1, TradeTypes
<1>8. BidInv'
      BY <1>2, <1>6 DEF TradeInv, BidInv
<1>9. BuysInv'
      BY <1>2, <1>3, <1>5 DEF BuysInv
<1> QED BY <1>7, <1>8, <1>9 DEF TradeInv

(* Steps that leave the lists and the plan alone.                          *)
LEMMA RunStep ==
    ASSUME TradeInv, OrdersInv',
           UNCHANGED <<book, bought, sold, round, plan, buys, todo, failed, cur>>,
           pc # "place", pc' # "place"
    PROVE  TradeInv'
<1>1. \A c \in Codes : Reserved(c)' = Reserved(c) /\ Reserved(c) \in Nat
      BY TradeTypes DEF Reserved
<1>2. OfferInv' /\ BidInv'
      BY <1>1, TradeKept
<1>3. BuysInv'
      BY DEF TradeInv, BuysInv
<1> QED BY <1>2, <1>3 DEF TradeInv

LEMMA ListStep ==
    ASSUME TradeInv, OrdersInv',
           NotPlaced \/ Record \/ NextRound \/ Crash \/ \E c \in Codes : Take(c)
    PROVE  TradeInv'
<1> USE DEF Goto
<1>1. /\ \A c \in Codes : plan[c] \in Nat /\ Reserved(c) \in Nat
      /\ round \in Nat /\ todo \subseteq Codes /\ None \notin Codes
      BY TradeTypes, RoundsAssumption DEF TradeInv, OrdersInv, IInv, TypeOK
<1>2. cur \in todo \cup failed => FALSE
      BY DEF TradeInv, OrdersInv, IInv, PlaceInv
<1>3. IF Holds THEN cur \in Codes ELSE cur = None
      BY DEF TradeInv, OrdersInv, IInv, HandInv
<1>4. CASE NotPlaced
  <2>1. /\ UNCHANGED <<book, bought, sold, round, plan, buys, todo>>
        /\ pc = "place" /\ pc' = "next" /\ cur' = None /\ failed' = Unfilled(cur)
        BY <1>4 DEF NotPlaced, exchange, work
  <2>2. \A c \in Codes : Reserved(c)' \in Nat /\ Reserved(c)' <= Reserved(c)
        BY <1>1, <2>1 DEF Reserved
  <2>3. BuysInv'
        BY <1>1, <1>3, <2>1 DEF TradeInv, BuysInv, Unfilled, Holds
  <2> QED BY <2>1, <2>2, <2>3, TradeKept DEF TradeInv
<1>5. CASE Record
  <2>1. /\ UNCHANGED <<book, bought, sold, round, plan, buys, todo>>
        /\ pc = "record" /\ pc' = "next" /\ cur' = None /\ failed' \in {failed, Unfilled(cur)}
        BY <1>5 DEF Record, exchange, work
  <2>2. \A c \in Codes : Reserved(c)' \in Nat /\ Reserved(c)' <= Reserved(c)
        BY <1>1, <2>1 DEF Reserved
  <2>3. BuysInv'
        BY <1>1, <1>3, <2>1 DEF TradeInv, BuysInv, Unfilled, Holds
  <2> QED BY <2>1, <2>2, <2>3, TradeKept DEF TradeInv
<1>6. CASE NextRound
  <2>1. /\ UNCHANGED <<book, bought, sold, plan, buys, cur>> /\ pc = "next" /\ todo = {}
        /\ pc' \in {"next", "done"} /\ cur = None
        /\ \/ round' = round + 1 /\ failed' = {}
              /\ todo' = (IF round = 0 THEN buys ELSE failed)
           \/ UNCHANGED <<round, todo, failed>>
        BY <1>3, <1>6 DEF NextRound, exchange, hand, Holds
  <2>2. \A c \in Codes : Reserved(c)' = 0
        BY <1>1, <2>1 DEF Reserved
  <2>3. \A c \in Codes : Reserved(c)' \in Nat /\ Reserved(c)' <= Reserved(c)
        BY <1>1, <2>2
  <2>4. BuysInv'
        BY <1>1, <2>1 DEF TradeInv, BuysInv
  <2> QED BY <2>1, <2>3, <2>4, TradeKept DEF TradeInv
<1>7. CASE Crash
  <2>1. /\ UNCHANGED <<book, bought, sold>>
        /\ round' = 0 /\ todo' = {} /\ buys' = {} /\ pc' = "start"
        BY <1>7 DEF Crash, exchange
  <2>2. \A c \in Codes : Reserved(c)' = 0
        BY <2>1 DEF Reserved
  <2>3. \A c \in Codes : Reserved(c)' \in Nat /\ Reserved(c)' <= Reserved(c)
        BY <1>1, <2>2
  <2>4. BuysInv'
        BY <2>1 DEF BuysInv
  <2> QED BY <2>1, <2>3, <2>4, TradeKept DEF TradeInv
<1>8. ASSUME NEW c \in Codes, Take(c) PROVE TradeInv'
  <2>1. /\ UNCHANGED <<book, bought, sold, round, plan, buys>>
        /\ pc = "next" /\ c \in todo /\ todo' = todo \ {c} /\ cur = None
        /\ \/ cur' = c /\ pc' = "place" /\ failed' = failed
           \/ cur' = cur /\ pc' = pc /\ failed' = failed
           \/ round > 1 /\ cur' = cur /\ pc' = pc /\ failed' = failed \cup {c}
        BY <1>3, <1>8 DEF Take, exchange, StillFailed, Holds
  <2>2. \A d \in Codes : Reserved(d)' \in Nat /\ Reserved(d)' <= Reserved(d)
        BY <1>1, <2>1 DEF Reserved
  <2>3. BuysInv'
        BY <1>1, <2>1 DEF TradeInv, BuysInv
  <2> QED BY <2>1, <2>2, <2>3, TradeKept DEF TradeInv
<1> QED BY <1>4, <1>5, <1>6, <1>7, <1>8

LEMMA StepTrades == TradeInv /\ [Next]_vars => TradeInv'
<1> SUFFICES ASSUME TradeInv, [Next]_vars PROVE TradeInv'
    OBVIOUS
<1>1. OrdersInv'
      BY StepOrders DEF TradeInv
<1>2. CASE Market
      BY <1>1, <1>2, TradeStep DEF Market
<1>3. CASE Callback
  <2>1. news # NoNews /\ UNCHANGED <<book, bought, sold, round, plan, buys, todo, failed, cur, pc>>
        BY <1>3 DEF Callback, OnTrade, OnFinal, exchange, work, hand, NoNews
  <2>2. pc # "place"
        BY <2>1 DEF TradeInv, OrdersInv, IInv, HandInv
  <2> QED BY <1>1, <2>1, <2>2, RunStep
<1>4. CASE CleanUp \/ Register \/ Wake \/ Cancel \/ Confirm
  <2>1. /\ UNCHANGED <<book, bought, sold, round, plan, buys, todo, failed, cur>>
        /\ pc # "place" /\ pc' # "place"
        BY <1>4 DEF CleanUp, Register, Wake, Cancel, Confirm, exchange, work, hand, Goto
  <2> QED BY <1>1, <2>1, RunStep
<1>5. CASE UNCHANGED vars
  <2>1. UNCHANGED <<book, bought, sold, round, plan, buys, todo, failed, cur, pc>>
        BY <1>5 DEF vars, exchange, run, work, hand
  <2>2. \A c \in Codes : Reserved(c)' = Reserved(c) /\ Reserved(c) \in Nat
        BY <2>1, TradeTypes DEF Reserved
  <2>3. BuysInv'
        BY <2>1 DEF TradeInv, BuysInv
  <2> QED BY <1>1, <2>1, <2>2, <2>3, TradeKept DEF TradeInv
<1>6. CASE MakePlan
      BY <1>1, <1>6, PlanStep
<1>7. ASSUME NEW o \in Orders, Place(o) PROVE TradeInv'
      BY <1>1, <1>7, PlaceStep
<1>8. CASE NotPlaced \/ Record \/ NextRound \/ Crash \/ \E c \in Codes : Take(c)
      BY <1>1, <1>8, ListStep
<1> QED BY <1>2, <1>3, <1>4, <1>5, <1>6, <1>7, <1>8 DEF Next, Main

LEMMA Trades == Spec => []TradeInv
<1>1. Init => TradeInv
      BY InitTrade
<1>2. TradeInv /\ [Next]_vars => TradeInv'
      BY StepTrades
<1> QED BY <1>1, <1>2, PTL DEF Spec

(* A stock is never sold short: whatever orders an earlier run left open   *)
(* and however late their trades come, what is sold and what is on offer   *)
(* was held when the day began.                                            *)
THEOREM NeverShortCorrect == Spec => []NeverShort
<1>1. TradeInv => NeverShort
  <2> SUFFICES ASSUME TradeInv, NEW c \in Codes PROVE sold[c] + Frozen(c) <= Holding[c]
      BY DEF NeverShort
  <2>1. sold[c] + Frozen(c) + Reserved(c) <= Holding[c]
        BY DEF TradeInv, OfferInv
  <2> QED BY <2>1, TradeTypes
<1> QED BY <1>1, Trades, PTL

LEMMA Scale ==
    ASSUME NEW t \in Nat, NEW m \in Nat, NEW n \in Nat, m <= n
    PROVE  t * m \in Nat /\ t * n \in Nat /\ t * m <= t * n
<1>1. n - m \in Nat /\ n = m + (n - m)
      OBVIOUS
<1>2. t * n = t * m + t * (n - m) /\ t * (n - m) \in Nat
      BY <1>1
<1> QED BY <1>2

(* Lost callbacks and retries can buy more than the target.  How much more *)
(* is bounded: no order bids for more than the target, and the number of   *)
(* orders for a stock is limited in each run.                              *)
THEOREM BuysLimitedCorrect == Spec => []BuysLimited
<1>1. TradeInv /\ OrdersLimited => BuysLimited
  <2> SUFFICES ASSUME TradeInv, OrdersLimited, NEW c \in Codes
               PROVE  bought[c] + Cardinality(OpenLots(c, "buy"))
                        <= Target[c] * (MaxPerStock * (crashes + 1))
      BY DEF BuysLimited
  <2> DEFINE k == Cardinality(OrdersOf(c))
             n == MaxPerStock * (crashes + 1)
  <2>1. bought[c] + Cardinality(OpenLots(c, "buy")) <= Target[c] * k
        BY DEF TradeInv, BidInv
  <2>2. crashes + 1 \in Nat /\ k <= n
        BY RoundsAssumption DEF TradeInv, OrdersInv, IInv, TypeOK, OrdersLimited
  <2>3. n \in Nat
        BY <2>2, RoundsAssumption, NextRun
  <2> HIDE DEF n
  <2>4. k \in Nat /\ Target[c] \in Nat
        BY TradeTypes
  <2> HIDE DEF k
  <2>5. Target[c] * k \in Nat /\ Target[c] * n \in Nat /\ Target[c] * k <= Target[c] * n
        BY <2>2, <2>3, <2>4, Scale
  <2>6. bought[c] + Cardinality(OpenLots(c, "buy")) \in Nat
        BY TradeTypes
  <2> QED BY <2>1, <2>5, <2>6 DEF n
<1> QED BY <1>1, Trades, OrdersLimitedCorrect, PTL
=============================================================================
