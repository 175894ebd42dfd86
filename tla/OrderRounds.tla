----------------------------- MODULE OrderRounds -----------------------------
(***************************************************************************)
(* One day's rebalance through QMTExecutionAdapter.execute_rebalance: the  *)
(* main thread places one order at a time, waits, cancels and retries; the *)
(* exchange fills and ends orders when it likes; the callback thread of    *)
(* miniQMT hands the news of an order to the collector, which forgets what *)
(* concerns an order that is not registered.                               *)
(*                                                                         *)
(* Quantities are lots.  A run that dies, or is left by an exception, is   *)
(* run again and knows nothing of the one before.                          *)
(***************************************************************************)
EXTENDS Integers, FiniteSets

CONSTANTS
    Codes,        \* the stocks held or wanted
    Lots,         \* quantities that occur
    Holding,      \* lots held when the day begins
    Target,       \* lots wanted
    Orders,       \* order ids, given out in order; bound: none without a free id
    None,         \* no code, no order
    MaxOrders,    \* DAILY_MAX_ORDERS
    MaxPerStock,  \* DAILY_MAX_PER_STOCK
    Retries,      \* MAX_RETRY_ROUNDS
    MaxCrashes    \* bound: runs that die or raise

ASSUME RoundsAssumption ==
    /\ Lots \subseteq Nat /\ Orders \subseteq Nat
    /\ Holding \in [Codes -> Lots] /\ Target \in [Codes -> Lots]
    /\ None \notin Codes /\ None \notin Orders
    /\ MaxOrders \in Nat /\ MaxPerStock \in Nat \ {0}
    /\ Retries \in Nat /\ MaxCrashes \in Nat

VARIABLES
    (* the exchange *)
    book,       \* every order: code, side, type, size and lots still open
    asked,      \* orders whose cancellation was accepted
    bought, sold,  \* lots traded per code
    news,       \* callbacks under way for the order in hand
    (* the run *)
    pc, round,  \* round 0 sells, 1 buys, later ones retry the buys
    plan,       \* lots to trade of each code
    buys,       \* codes to buy
    todo,       \* codes still to do in this round
    failed,     \* buys for the next round: buy_failed, still_failed
    cur, order, \* code and order in hand
    tracker,    \* the _WaitTracker of that order
    got,        \* its filled volume, as read after the wait
    rec, total, \* OrderTracker: attempts and status per code, orders in all
    fills, skipped, pending,  \* what execute_rebalance returns
    crashes,
    dangling    \* ghost: orders given up before they were seen to end

exchange == <<book, asked, bought, sold>>
tracking == <<rec, total>>
result   == <<fills, skipped, pending>>
work     == <<round, plan, buys, todo>>
hand     == <<cur, order, got>>
run      == <<pc, work, failed, hand, tracker, tracking, result>>
vars     == <<exchange, news, run, crashes, dangling>>

Unused == [code |-> None, side |-> "none", market |-> FALSE, size |-> 0, left |-> 0]
NoNews == [lots |-> 0, final |-> FALSE]
Off    == [on |-> FALSE, filled |-> 0, done |-> FALSE]
Fresh  == [attempts |-> 0, status |-> "idle"]

Live == {o \in Orders : book[o].left > 0}

Nothing == [c \in Codes |-> 0]

Init ==
    /\ book = [o \in Orders |-> Unused] /\ asked = {}
    /\ bought = Nothing /\ sold = Nothing
    /\ pc = "start" /\ round = 0
    /\ plan = Nothing /\ buys = {} /\ todo = {} /\ failed = {}
    /\ cur = None /\ order = None /\ got = 0 /\ tracker = Off /\ news = NoNews
    /\ rec = [c \in Codes |-> Fresh] /\ total = 0
    /\ fills = Nothing /\ skipped = {} /\ pending = {}
    /\ crashes = 0 /\ dangling = {}

-----------------------------------------------------------------------------
(* The exchange.                                                           *)

InHand(o) == o = order /\ pc \in {"register", "wait"}

(* A lot is traded; with the last one the order is filled (status 56).     *)
Trade(o) ==
    /\ book[o].left > 0
    /\ book' = [book EXCEPT ![o].left = @ - 1]
    /\ IF book[o].side = "buy"
       THEN bought' = [bought EXCEPT ![book[o].code] = @ + 1] /\ UNCHANGED sold
       ELSE sold' = [sold EXCEPT ![book[o].code] = @ + 1] /\ UNCHANGED bought
    /\ news' = IF InHand(o)
               THEN [lots |-> news.lots + 1, final |-> book[o].left = 1]
               ELSE news
    /\ UNCHANGED <<asked, run, crashes, dangling>>

(* The order ends otherwise: cancelled as asked, the rest of a market      *)
(* order, or rejected.                                                     *)
EndOrder(o) ==
    /\ book[o].left > 0
    /\ o \in asked \/ book[o].market \/ book[o].left = book[o].size
    /\ book' = [book EXCEPT ![o].left = 0]
    /\ news' = IF InHand(o) THEN [news EXCEPT !.final = TRUE] ELSE news
    /\ UNCHANGED <<asked, bought, sold, run, crashes, dangling>>

-----------------------------------------------------------------------------
(* The callback thread.                                                    *)

(* Faulty: the report's cumulative volume is taken for the volume of the   *)
(* trade.                                                                  *)
TradedVolume_Cumulative == tracker.filled + 1

TradedVolume == 1

(* on_trade; trades are reported in any order with the order's end.        *)
OnTrade ==
    /\ news.lots > 0
    /\ news' = [news EXCEPT !.lots = @ - 1]
    /\ LET filled == tracker.filled + TradedVolume IN
       tracker' = IF tracker.on
                  THEN [on |-> TRUE, filled |-> filled,
                        done |-> tracker.done \/ filled >= plan[cur]]
                  ELSE tracker
    /\ UNCHANGED <<exchange, pc, work, failed, hand, tracking, result, crashes,
                   dangling>>

(* on_order with a final status, on_error.                                 *)
OnFinal ==
    /\ news.final
    /\ news' = [news EXCEPT !.final = FALSE]
    /\ tracker' = IF tracker.on THEN [tracker EXCEPT !.done = TRUE] ELSE tracker
    /\ UNCHANGED <<exchange, pc, work, failed, hand, tracking, result, crashes,
                   dangling>>

-----------------------------------------------------------------------------
(* execute_rebalance.                                                      *)

Goto(label) == pc' = label

(* _cleanup_pending_orders: asks to cancel what is still open, as far as   *)
(* it gets, and does not wait for the answer.                              *)
CleanUp ==
    /\ pc = "start"
    /\ \E cancelled \in SUBSET Live : asked' = asked \cup cancelled
    /\ Goto("plan")
    /\ UNCHANGED <<book, bought, sold, news, work, failed, hand, tracker, tracking,
                   result, crashes, dangling>>

Position(c) == Holding[c] + bought[c] - sold[c]

(* The lots still open, each by the number it has in its order.            *)
OpenLots(c, side) ==
    UNION {{o} \X (1..book[o].left) :
             o \in {q \in Orders : book[q].code = c /\ book[q].side = side}}

Frozen(c) == Cardinality(OpenLots(c, "sell"))

Least(m, n) == IF m < n THEN m ELSE n

(* Positions and what of them may be sold today: neither what was bought   *)
(* today (T+1) nor what an open order has frozen.                          *)
MakePlan ==
    /\ pc = "plan"
    /\ \E usable \in [Codes -> Lots] :
         /\ \A c \in Codes : usable[c] + sold[c] + Frozen(c) = Holding[c]
         /\ plan' = [c \in Codes |->
              IF Position(c) > Target[c] THEN Least(Position(c) - Target[c], usable[c])
                                         ELSE Target[c] - Position(c)]
    /\ buys' = {c \in Codes : Position(c) < Target[c]}
    /\ todo' = {c \in Codes : Position(c) > Target[c] /\ plan'[c] > 0}
    /\ Goto("next")
    /\ UNCHANGED <<exchange, news, round, failed, hand, tracker, tracking, result,
                   crashes, dangling>>

(* Faulty: a retry that lacks cash forgets its code.                       *)
StillFailed_Forgets(c) == failed

StillFailed(c) == failed \cup {c}

(* A buy is skipped at the daily limit, by price protection or for want of *)
(* cash; a retry at the limit or for want of cash goes to the next round.  *)
Take(c) ==
    /\ pc = "next" /\ c \in todo
    /\ todo' = todo \ {c}
    /\ \/ /\ round > 0 => total < MaxOrders
          /\ cur' = c /\ Goto("place")
          /\ UNCHANGED <<failed, skipped>>
       \/ /\ round = 1
          /\ skipped' = skipped \cup {c}
          /\ UNCHANGED <<cur, pc, failed>>
       \/ /\ round > 1
          /\ failed' = StillFailed(c)
          /\ UNCHANGED <<cur, pc, skipped>>
    /\ UNCHANGED <<exchange, news, round, plan, buys, order, got, tracker, tracking,
                   fills, pending, crashes, dangling>>

(* can_place_order.                                                        *)
CanPlace_AnyAttempt(c) ==
    total < MaxOrders /\ rec[c].status \notin {"filled", "pending"}

CanPlace(c) ==
    /\ total < MaxOrders
    /\ rec[c].attempts < MaxPerStock
    /\ rec[c].status \notin {"filled", "pending"}

(* _safe_place_and_wait returned None: a buy waits for the next round.     *)
Unfilled(c) == IF round = 0 THEN failed ELSE failed \cup {c}

NotPlaced ==
    /\ pc = "place"
    /\ rec' = IF CanPlace(cur) /\ rec[cur].attempts > 0
              THEN [rec EXCEPT ![cur].status = "failed"] ELSE rec
    /\ failed' = Unfilled(cur)
    /\ cur' = None
    /\ Goto("next")
    /\ UNCHANGED <<exchange, news, work, order, got, tracker, total, result, crashes,
                   dangling>>

(* place_order returned an id, record_order noted it.  The second retry is *)
(* a market order.                                                         *)
Place(o) ==
    /\ pc = "place" /\ CanPlace(cur)
    /\ book[o] = Unused /\ \A q \in Orders : q < o => book[q] # Unused
    /\ book' = [book EXCEPT ![o] =
                  [code |-> cur, side |-> IF round = 0 THEN "sell" ELSE "buy",
                   market |-> round > 2, size |-> plan[cur], left |-> plan[cur]]]
    /\ order' = o
    /\ rec' = [rec EXCEPT ![cur] = [attempts |-> @.attempts + 1, status |-> "pending"]]
    /\ total' = total + 1
    /\ Goto("register")
    /\ UNCHANGED <<asked, bought, sold, news, work, failed, cur, got, tracker, result,
                   crashes, dangling>>

Register ==
    /\ pc = "register"
    /\ tracker' = [Off EXCEPT !.on = TRUE]
    /\ Goto("wait")
    /\ UNCHANGED <<exchange, news, work, failed, hand, tracking, result, crashes, dangling>>

TimedOut_Never == FALSE

TimedOut == TRUE

(* Faulty: an order that has traded at all is left open.                   *)
Complete_Partly(filled) == filled > 0

Complete(filled) == filled >= plan[cur]

(* The event was set, or the wait timed out.  News that comes after this   *)
(* finds a tracker nobody reads.                                           *)
Wake ==
    /\ pc = "wait"
    /\ tracker.done \/ TimedOut
    /\ got' = tracker.filled
    /\ Goto(IF Complete(tracker.filled) THEN "record" ELSE "cancel")
    /\ tracker' = Off /\ news' = NoNews
    /\ UNCHANGED <<exchange, work, failed, cur, order, tracking, result, crashes, dangling>>

(* _cancel_and_confirm; the broker may refuse.                             *)
Cancel ==
    /\ pc = "cancel"
    /\ \/ asked' = asked \cup ({order} \cap Live)
       \/ UNCHANGED asked
    /\ Goto("confirm")
    /\ UNCHANGED <<book, bought, sold, news, work, failed, hand, tracker, tracking,
                   result, crashes, dangling>>

(* A poll of query_orders finds the order ended, or thirty seconds pass:   *)
(* the caller does not look at the difference.                             *)
Confirm ==
    /\ pc = "confirm"
    /\ \/ order \notin Live /\ UNCHANGED dangling
       \/ dangling' = dangling \cup {order}
    /\ Goto("record")
    /\ UNCHANGED <<exchange, news, work, failed, hand, tracker, tracking, result, crashes>>

(* Faulty: a partial fill is retried, for the whole quantity.              *)
NothingFilled_Retries(filled) == filled < plan[cur]

NothingFilled(filled) == filled = 0

(* record_fill closes the code, however little was filled.                 *)
Record ==
    /\ pc = "record"
    /\ fills' = [fills EXCEPT ![cur] = @ + got]
    /\ rec' = [rec EXCEPT ![cur].status =
                 IF NothingFilled(got) THEN "cancelled" ELSE "filled"]
    /\ failed' = IF NothingFilled(got) THEN Unfilled(cur) ELSE failed
    /\ cur' = None /\ order' = None /\ got' = 0
    /\ Goto("next")
    /\ UNCHANGED <<exchange, news, work, tracker, total, skipped, pending, crashes,
                   dangling>>

(* The next round; the buys that failed to the last become PendingOrders.  *)
NextRound ==
    /\ pc = "next" /\ todo = {}
    /\ IF round = 0 \/ (round <= Retries /\ failed # {})
       THEN /\ round' = round + 1
            /\ todo' = IF round = 0 THEN buys ELSE failed
            /\ failed' = {}
            /\ UNCHANGED <<pc, pending>>
       ELSE /\ pending' = failed
            /\ Goto("done")
            /\ UNCHANGED <<round, todo, failed>>
    /\ UNCHANGED <<exchange, news, plan, buys, hand, tracker, tracking, fills, skipped,
                   crashes, dangling>>

(* The process dies or place_order raises; the day's run is started anew.  *)
Crash ==
    /\ pc \notin {"start", "done"} /\ crashes < MaxCrashes
    /\ crashes' = crashes + 1
    /\ Goto("start") /\ round' = 0
    /\ plan' = Nothing /\ buys' = {} /\ todo' = {} /\ failed' = {}
    /\ cur' = None /\ order' = None /\ got' = 0 /\ tracker' = Off /\ news' = NoNews
    /\ rec' = [c \in Codes |-> Fresh] /\ total' = 0
    /\ fills' = Nothing /\ skipped' = {} /\ pending' = {}
    /\ dangling' = dangling \cup Live
    /\ UNCHANGED exchange

-----------------------------------------------------------------------------
Market == \E o \in Orders : Trade(o) \/ EndOrder(o)

Callback == OnTrade \/ OnFinal

Main ==
    \/ CleanUp \/ MakePlan \/ NotPlaced \/ Register \/ Wake \/ Cancel \/ Confirm
    \/ Record \/ NextRound
    \/ \E c \in Codes : Take(c)
    \/ \E o \in Orders : Place(o)

Next == Market \/ Callback \/ Main \/ Crash

Spec == Init /\ [][Next]_vars

(* Every wait of the main thread has a time limit.                         *)
FairSpec == Spec /\ WF_vars(Main)

-----------------------------------------------------------------------------
(* Properties                                                              *)

Labels == {"start", "plan", "next", "place", "register", "wait", "cancel",
           "confirm", "record", "done"}

BookEntry == [code : Codes \cup {None}, side : {"none", "buy", "sell"},
              market : BOOLEAN, size : Nat, left : Nat]
Attempts  == [attempts : 0..MaxPerStock,
              status : {"idle", "pending", "filled", "cancelled", "failed"}]

(* Types; the daily limits hold within a run.                              *)
TypeOK ==
    /\ book \in [Orders -> BookEntry] /\ asked \subseteq Orders
    /\ bought \in [Codes -> Nat] /\ sold \in [Codes -> Nat]
    /\ news \in [lots : Nat, final : BOOLEAN]
    /\ tracker \in [on : BOOLEAN, filled : Nat, done : BOOLEAN]
    /\ pc \in Labels /\ round \in Nat /\ got \in Nat
    /\ plan \in [Codes -> Nat]
    /\ buys \subseteq Codes /\ todo \subseteq Codes /\ failed \subseteq Codes
    /\ cur \in Codes \cup {None} /\ order \in Orders \cup {None}
    /\ rec \in [Codes -> Attempts] /\ total \in 0..MaxOrders
    /\ fills \in [Codes -> Nat]
    /\ skipped \subseteq Codes /\ pending \subseteq Codes
    /\ crashes \in 0..MaxCrashes /\ dangling \subseteq Orders

(* No fill is reported, and so written to trade_log, that was not traded:  *)
(* callbacks that are late, dropped or out of order only lose lots.        *)
FillsAreTrades == \A c \in Codes : fills[c] <= bought[c] + sold[c]

(* However many orders a code has had, what is reported of it is within    *)
(* the quantity planned: a code with a fill is not ordered again.  What is *)
(* bought beyond the plan is what the collector did not hear of.           *)
FillsWithinPlan == \A c \in Codes : fills[c] <= plan[c]

(* An order that is still open but no longer in hand is one whose cancel   *)
(* was not confirmed, or that an earlier run left.                         *)
InCharge == pc \in {"register", "wait", "cancel", "confirm"}

StraysAreDangling ==
    \A o \in Live : o \in dangling \/ (o = order /\ InCharge)

(* Every buy ends in exactly one of the three lists.                       *)
BuysAccounted ==
    pc = "done" =>
        \A c \in buys :
            \/ fills[c] > 0 /\ c \notin skipped \cup pending
            \/ fills[c] = 0 /\ c \in skipped \ pending
            \/ fills[c] = 0 /\ c \in pending \ skipped

(* The rebalance comes to its end whatever the exchange does.              *)
Terminates == <>(pc = "done")
=============================================================================
