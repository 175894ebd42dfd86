------------------------------ MODULE RiskTick ------------------------------
(***************************************************************************)
(* The two Celery tasks that raise alerts: realtime_risk_tick, each minute *)
(* of the session, and meta_monitor_tick, every five.                      *)
(*                                                                         *)
(* realtime_risk_tick evaluates its rules, sends P0 results at once,       *)
(* buffers P1 results in the memory of its worker, writes one sell plan    *)
(* per actionable P0 result in a single transaction, and on a five minute  *)
(* boundary sends the buffer.  Each alert has a transaction of its own.    *)
(*                                                                         *)
(* meta_monitor_tick sends its alerts in one transaction, through DingTalk,*)
(* else email, else the log.                                               *)
(***************************************************************************)
EXTENDS AlertDedup

CONSTANTS
    P0, P1, Meta,  \* the dedup keys of P0 results, P1 results, meta alerts
    FiveMinutes,   \* the minutes between two flushes and two meta ticks
    Lasting,       \* results every evaluation of their rules finds
    Nobody         \* no key

ASSUME TickAssumption ==
    /\ Keys = P0 \cup P1 \cup Meta
    /\ P0 \cap P1 = {} /\ P0 \cap Meta = {} /\ P1 \cap Meta = {}
    /\ Lasting \subseteq Keys
    /\ Nobody \notin Keys
    /\ FiveMinutes \in Nat \ {0}

VARIABLES
    minute,    \* minutes past the boundary
    due,       \* tasks beat has sent for this minute
    phase,     \* where the task of each worker is
    boundary,  \* whether its tick started on a boundary
    todo,      \* alerts it has still to send
    buffer,    \* the dispatcher's P1 buffer in its memory
    hits,      \* P0 results without a plan yet
    written,   \* l4_plans_persisted: plans its transaction holds
    aborted,   \* whether that transaction has failed a statement
    escalate,  \* meta alert DingTalk did not deliver
    planned    \* of these, the plans its commit has put in the table

tickVars == <<minute, due, phase, boundary, todo, buffer, hits, written,
              aborted, escalate, planned>>
riskVars == <<dedupVars, tickVars>>

Workers == Senders

RiskInit ==
    /\ DedupInit
    /\ minute = 0 /\ due = {"tick", "meta"}
    /\ phase = [w \in Workers |-> "idle"]
    /\ boundary = [w \in Workers |-> FALSE]
    /\ todo = [w \in Workers |-> {}]
    /\ buffer = [w \in Workers |-> {}]
    /\ hits = [w \in Workers |-> {}]
    /\ written = [w \in Workers |-> {}]
    /\ aborted = [w \in Workers |-> FALSE]
    /\ escalate = [w \in Workers |-> Nobody]
    /\ planned = [w \in Workers |-> {}]

GoTo(w, p) == phase' = [phase EXCEPT ![w] = p]

Found_Any(keys) == SUBSET Keys

(* The results an evaluation may find among those of some rules.           *)
Found(keys) == {fired \in SUBSET keys : Lasting \cap keys \subseteq fired}

-----------------------------------------------------------------------------
(* Sending, common to both tasks.                                          *)

(* A worker makes its calls one after another.                             *)
Ready(w) == call[w] = Idle

(* The window of the next alert.  A hit ends the call, and keeps the row   *)
(* locked in the transaction of the meta task.                             *)
StartSend(w) ==
    /\ phase[w] \in {"alerts", "flush", "meta"}
    /\ phase[w] # "meta" => held[w] = {}
    /\ escalate[w] = Nobody
    /\ \E k \in todo[w] :
         /\ \/ Suppress(w, k) /\ (phase[w] = "meta" <=> k \in held'[w])
            \/ Miss(w, k)
         /\ todo' = [todo EXCEPT ![w] = @ \ {k}]
    /\ UNCHANGED <<minute, due, phase, boundary, buffer, hits, written,
                   aborted, escalate, planned>>

(* No connection, or a failed statement: the alert is logged and left out. *)
(* The same ends the meta task.                                            *)
GiveUp(w) ==
    /\ phase[w] \in {"alerts", "flush"}
    /\ held[w] = {} /\ Ready(w)
    /\ \E k \in todo[w] : todo' = [todo EXCEPT ![w] = @ \ {k}]
    /\ Undo(w)
    /\ UNCHANGED <<minute, due, phase, boundary, buffer, hits, written,
                   aborted, escalate, planned>>

Write(w) == OpenWindow(w) /\ UNCHANGED tickVars

DidSend(w) == PostSent(w) /\ UNCHANGED tickVars

(* A failed post, and a missing webhook, make the meta monitor escalate;   *)
(* alerts that are disabled do not.                                        *)
NotSent(w) ==
    /\ \/ /\ PostFailed(w) \/ PostSkipped(w)
          /\ escalate' = [escalate EXCEPT ![w] =
                            IF phase[w] = "meta" THEN call[w].key ELSE Nobody]
       \/ PostSkipped(w) /\ UNCHANGED escalate
    /\ UNCHANGED <<minute, due, phase, boundary, todo, buffer, hits, written,
                   aborted, planned>>

(* send_with_dedup's finally, when the connection is its own.              *)
EndSend(w) ==
    /\ phase[w] \in {"alerts", "flush"}
    /\ Commit(w)
    /\ UNCHANGED tickVars

-----------------------------------------------------------------------------
(* realtime_risk_tick                                                      *)

(* One message of a minute is taken by one worker.  P1 rules are evaluated *)
(* on the boundary; what they find joins the buffer before anything is     *)
(* sent.  Every P0 result is actionable.                                   *)
StartTick(w) ==
    /\ phase[w] = "idle" /\ "tick" \in due
    /\ due' = due \ {"tick"}
    /\ boundary' = [boundary EXCEPT ![w] = minute = 0]
    /\ \E fired \in Found(P0), slow \in Found(P1) :
         /\ todo' = [todo EXCEPT ![w] = fired]
         /\ hits' = [hits EXCEPT ![w] = fired]
         /\ buffer' = [buffer EXCEPT ![w] = IF minute = 0 THEN @ \cup slow ELSE @]
    /\ GoTo(w, "alerts")
    /\ UNCHANGED <<dedupVars, minute, written, aborted, escalate, planned>>

AlertsDone(w) ==
    /\ phase[w] = "alerts" /\ todo[w] = {} /\ Ready(w) /\ held[w] = {}
    /\ GoTo(w, "plans")
    /\ UNCHANGED <<dedupVars, minute, due, boundary, todo, buffer, hits, written,
                   aborted, escalate, planned>>

(* generate_plan and persist_plan_with_audit.  The first fails alone; a    *)
(* failed statement fails every later one of the transaction.              *)
PersistPlan(w, k) ==
    /\ phase[w] = "plans" /\ k \in hits[w]
    /\ hits' = [hits EXCEPT ![w] = @ \ {k}]
    /\ \/ /\ ~aborted[w]
          /\ written' = [written EXCEPT ![w] = @ \cup {k}]
          /\ UNCHANGED <<dedupVars, aborted>>
       \/ /\ aborted[w]
          /\ UNCHANGED <<dedupVars, written, aborted>>
       \/ /\ ~aborted[w]
          /\ Undo(w)
          /\ \/ UNCHANGED aborted
             \/ aborted' = [aborted EXCEPT ![w] = TRUE]
          /\ UNCHANGED written
    /\ UNCHANGED <<minute, due, phase, boundary, todo, buffer, escalate, planned>>

Flushed_Late(w) == IF minute = 0 THEN buffer[w] ELSE {}

(* On a boundary dispatcher.flush empties the buffer.                      *)
Flushed(w) == IF boundary[w] THEN buffer[w] ELSE {}

(* commit of a failed transaction is a rollback, and raises nothing.  Then *)
(* the buffer is flushed, and its alerts are sent.                         *)
CommitPlans(w) ==
    /\ phase[w] = "plans" /\ hits[w] = {}
    /\ planned' = [planned EXCEPT ![w] = IF aborted[w] THEN {} ELSE written[w]]
    /\ GoTo(w, "flush")
    /\ todo' = [todo EXCEPT ![w] = Flushed(w)]
    /\ buffer' = [buffer EXCEPT ![w] = @ \ Flushed(w)]
    /\ UNCHANGED <<dedupVars, minute, due, boundary, hits, written, aborted,
                   escalate>>

Forget(w) ==
    /\ GoTo(w, "idle")
    /\ todo' = [todo EXCEPT ![w] = {}]
    /\ hits' = [hits EXCEPT ![w] = {}]
    /\ written' = [written EXCEPT ![w] = {}]
    /\ aborted' = [aborted EXCEPT ![w] = FALSE]
    /\ boundary' = [boundary EXCEPT ![w] = FALSE]
    /\ escalate' = [escalate EXCEPT ![w] = Nobody]
    /\ planned' = [planned EXCEPT ![w] = {}]

EndTick(w) ==
    /\ phase[w] = "flush" /\ todo[w] = {} /\ Ready(w) /\ held[w] = {}
    /\ Forget(w)
    /\ UNCHANGED <<dedupVars, minute, due, buffer>>

-----------------------------------------------------------------------------
(* meta_monitor_tick                                                       *)

StartMeta(w) ==
    /\ phase[w] = "idle" /\ "meta" \in due
    /\ due' = due \ {"meta"}
    /\ \E fired \in Found(Meta) : todo' = [todo EXCEPT ![w] = fired]
    /\ GoTo(w, "meta")
    /\ UNCHANGED <<dedupVars, minute, boundary, buffer, hits, written, aborted,
                   escalate, planned>>

Escalate_Quiet(w) ==
    /\ phase[w] = "meta" /\ escalate[w] # Nobody
    /\ escalate' = [escalate EXCEPT ![w] = Nobody]
    /\ UNCHANGED <<dedupVars, minute, due, phase, boundary, todo, buffer, hits,
                   written, aborted, planned>>

(* send_email_alert, and the log if that is not sent either.               *)
Escalate(w) ==
    /\ phase[w] = "meta" /\ escalate[w] # Nobody
    /\ TellElsewhere(w, escalate[w])
    /\ escalate' = [escalate EXCEPT ![w] = Nobody]
    /\ UNCHANGED <<minute, due, phase, boundary, todo, buffer, hits, written,
                   aborted, planned>>

EndMeta(w) ==
    /\ phase[w] = "meta" /\ todo[w] = {} /\ Ready(w) /\ escalate[w] = Nobody
    /\ IF held[w] = {} THEN UNCHANGED dedupVars ELSE Commit(w)
    /\ Forget(w)
    /\ UNCHANGED <<minute, due, buffer>>

-----------------------------------------------------------------------------
(* An exception ends the task; a dead worker loses its memory too.         *)
TaskEnds(w) ==
    /\ phase[w] # "idle"
    /\ Undo(w)
    /\ Forget(w)
    /\ \/ UNCHANGED buffer
       \/ buffer' = [buffer EXCEPT ![w] = {}]
    /\ UNCHANGED <<minute, due>>

(* Beat sends a tick each minute; one that was not taken has expired.  An  *)
(* escalation is part of the call that failed.                             *)
Clock ==
    /\ Minute
    /\ \A w \in Workers : escalate[w] = Nobody
    /\ minute' = (minute + 1) % FiveMinutes
    /\ due' = {"tick"} \cup (IF minute' = 0 THEN {"meta"} ELSE due \cap {"meta"})
    /\ UNCHANGED <<phase, boundary, todo, buffer, hits, written, aborted,
                   escalate, planned>>

RunStep(w) ==
    \/ StartSend(w) \/ Write(w) \/ DidSend(w) \/ EndSend(w)
    \/ AlertsDone(w) \/ (\E k \in hits[w] : PersistPlan(w, k))
    \/ CommitPlans(w) \/ EndTick(w) \/ Escalate(w) \/ EndMeta(w)

RiskNext ==
    \/ Clock
    \/ \E w \in Workers : \/ StartTick(w) \/ StartMeta(w) \/ RunStep(w)
                          \/ NotSent(w) \/ GiveUp(w) \/ TaskEnds(w)

RiskSpec == RiskInit /\ [][RiskNext]_riskVars

(* Time passes, a task goes on, and a worker that is free again and again  *)
(* takes a tick.                                                           *)
FairRiskSpec ==
    /\ RiskSpec
    /\ WF_riskVars(Clock)
    /\ \A w \in Workers : WF_riskVars(RunStep(w)) /\ SF_riskVars(StartTick(w))

-----------------------------------------------------------------------------
(* Properties                                                              *)

(* Types.                                                                  *)
RiskTypeOK ==
    /\ DedupTypeOK
    /\ minute \in 0..(FiveMinutes - 1) /\ due \subseteq {"tick", "meta"}
    /\ phase \in [Workers -> {"idle", "alerts", "plans", "flush", "meta"}]
    /\ boundary \in [Workers -> BOOLEAN] /\ aborted \in [Workers -> BOOLEAN]
    /\ todo \in [Workers -> SUBSET Keys] /\ buffer \in [Workers -> SUBSET P1]
    /\ hits \in [Workers -> SUBSET P0] /\ written \in [Workers -> SUBSET P0]
    /\ escalate \in [Workers -> Meta \cup {Nobody}]
    /\ planned \in [Workers -> SUBSET P0]

(* A meta alert never silently vanishes: while its window silences it, it  *)
(* was told in that window, on one channel or another, unless alerts are   *)
(* disabled.                                                               *)
MetaNeverVanishes ==
    \A k \in Meta :
        row[k].left > 0 =>
            since[k] + row[k].left <= Window[k] \/ row[k].muted

(* One bad plan does not block the others: the plans a tick counts as      *)
(* persisted are in the table once it has committed.                       *)
OneBadPlanBlocksNone ==
    \A w \in Workers : phase[w] = "flush" => written[w] \subseteq planned[w]

(* A P0 result that every evaluation finds is told again and again: a      *)
(* failed post costs a window, not the alert.                              *)
LastingIsTold == \A k \in Lasting \cap P0 : []<>(since[k] = 0)

(* So is a P1 result, if a worker takes a tick on a boundary again and     *)
(* again: what a tick leaves in the buffer, a later one sends.             *)
BufferIsSent ==
    []<>(\E w \in Workers : phase[w] = "plans" /\ boundary[w]) =>
        \A k \in Lasting \cap P1 : []<>(since[k] = 0)
=============================================================================
