---------------------------- MODULE EventPipeline ----------------------------
(***************************************************************************)
(* The whole path of a fill event: the outbox publisher and the risk       *)
(* consumer trade_event_risk_consumer_tick, run by Celery workers that do  *)
(* one task at a time (--pool=solo --concurrency=1).                       *)
(*                                                                         *)
(* A message is the n-th copy of an event in the stream qm:fill:executed.  *)
(* The consumer reads with XREADGROUP ... BLOCK 0 and id ">": it gets only *)
(* messages never delivered to its group, and waits in Redis until there   *)
(* is one.                                                                 *)
(***************************************************************************)
EXTENDS Outbox

CONSTANTS
    Consumers,    \* processes that run the consumer tick
    ReadCount,    \* count of XREADGROUP
    MaxFailures   \* bound: evaluations that raise, and consumers that die

ASSUME PipelineAssumption == ReadCount \in Nat \ {0} /\ MaxFailures \in Nat

VARIABLES
    phase,       \* what the consumer tick of a process is doing
    inhand,      \* messages it has read and not handled
    delivered,   \* messages the group has delivered
    evaluated,   \* messages that triggered the risk engine
    acked,       \* messages acknowledged
    failures,    \* evaluations that raised and consumers that died
    died         \* history variable: those of them that died

consumerVars == <<phase, inhand, delivered, evaluated, acked, failures, died>>
pipelineVars == <<outboxVars, consumerVars>>

Processes == Publishers \cup Consumers

Stream == UNION {{<<e, n>> : n \in 1..sent[e]} : e \in Events}

PipelineInit ==
    /\ Init
    /\ phase = [w \in Processes |-> "idle"]
    /\ inhand = [w \in Processes |-> {}]
    /\ delivered = {} /\ evaluated = {} /\ acked = {}
    /\ failures = 0 /\ died = 0

-----------------------------------------------------------------------------
(* A process that waits or works in one task runs no other.                *)
Free(w) ==
    /\ phase[w] = "idle"
    /\ w \in Publishers => batch[w] = {}

StartTick(w) ==
    /\ Free(w)
    /\ phase' = [phase EXCEPT ![w] = "reading"]
    /\ UNCHANGED <<outboxVars, inhand, delivered, evaluated, acked, failures, died>>

(* What id ">" stands for.                                                 *)
New == Stream \ delivered

Read(w) ==
    /\ phase[w] = "reading"
    /\ \E messages \in SUBSET New \ {{}} :
         /\ Cardinality(messages) <= ReadCount
         /\ messages = New \/ Cardinality(messages) = ReadCount
         /\ inhand' = [inhand EXCEPT ![w] = messages]
         /\ delivered' = delivered \cup messages
    /\ phase' = [phase EXCEPT ![w] = "working"]
    /\ UNCHANGED <<outboxVars, evaluated, acked, failures, died>>

AckAfter_Always(evaluates) == TRUE

(* ack_fill_event comes after _process_fill_event in the same try.         *)
AckAfter(evaluates) == evaluates

AfterRaise_Nothing(w, m) == {}

(* The try is inside the loop: an exception only skips to the next one.    *)
AfterRaise(w, m) == inhand[w] \ {m}

(* One message: evaluated and acknowledged; or one of the two calls raises. *)
HandleMessage(w, m) ==
    /\ phase[w] = "working" /\ m \in inhand[w]
    /\ \/ /\ inhand' = [inhand EXCEPT ![w] = @ \ {m}]
          /\ evaluated' = evaluated \cup {m}
          /\ acked' = acked \cup {m}
          /\ UNCHANGED failures
       \/ /\ failures < MaxFailures
          /\ failures' = failures + 1
          /\ inhand' = [inhand EXCEPT ![w] = AfterRaise(w, m)]
          /\ \/ /\ acked' = IF AckAfter(FALSE) THEN acked \cup {m} ELSE acked
                /\ UNCHANGED evaluated
             \/ /\ evaluated' = evaluated \cup {m}
                /\ UNCHANGED acked
    /\ UNCHANGED <<outboxVars, phase, delivered, died>>

EndTick(w) ==
    /\ phase[w] = "working" /\ inhand[w] = {}
    /\ phase' = [phase EXCEPT ![w] = "idle"]
    /\ UNCHANGED <<outboxVars, inhand, delivered, evaluated, acked, failures, died>>

(* The worker dies or is restarted.                                        *)
ConsumerDies(w) ==
    /\ phase[w] # "idle" /\ failures < MaxFailures
    /\ failures' = failures + 1 /\ died' = died + 1
    /\ phase' = [phase EXCEPT ![w] = "idle"]
    /\ inhand' = [inhand EXCEPT ![w] = {}]
    /\ UNCHANGED <<outboxVars, delivered, evaluated, acked>>

-----------------------------------------------------------------------------
ConsumeStep(w) ==
    \/ Read(w) \/ EndTick(w)
    \/ \E m \in inhand[w] : HandleMessage(w, m)

PollWhenFree(w) == Free(w) /\ Poll(w) /\ UNCHANGED consumerVars

PublishTick(w) == PublishStep(w) /\ UNCHANGED consumerVars

PipelineNext ==
    \/ Produce /\ UNCHANGED consumerVars
    \/ \E w \in Publishers : \/ PollWhenFree(w) \/ PublishTick(w)
                             \/ Fault(w) /\ UNCHANGED consumerVars
    \/ \E w \in Consumers : StartTick(w) \/ ConsumeStep(w) \/ ConsumerDies(w)

PipelineSpec == PipelineInit /\ [][PipelineNext]_pipelineVars

(* A tick that runs goes on; beat sends the publisher every 30 seconds and *)
(* the consumer tick every 10, whatever happened to the last.              *)
FairPipelineSpec ==
    /\ PipelineSpec
    /\ \A w \in Publishers : /\ WF_pipelineVars(PublishTick(w))
                             /\ SF_pipelineVars(PollWhenFree(w))
    /\ \A w \in Consumers : /\ WF_pipelineVars(ConsumeStep(w))
                            /\ SF_pipelineVars(StartTick(w))

-----------------------------------------------------------------------------
(* Properties                                                              *)

(* Nothing is acknowledged that the risk engine has not seen.              *)
AckedIsEvaluated == acked \subseteq evaluated

InHand == UNION {inhand[w] : w \in Processes}

(* Messages the group has delivered that nobody evaluates any more.        *)
Dropped == delivered \ (evaluated \cup InHand)

(* The tick is fail-soft per message: an evaluation that raises costs its  *)
(* own message and none of those read with it, which would not be read     *)
(* again.  Only a consumer that dies costs more, its read at most.         *)
LossIsBounded == Cardinality(Dropped) <= (failures - died) + ReadCount * died

(* With consumer and publisher on workers of their own, and no evaluation  *)
(* that fails, a committed fill is evaluated or was given up unsent.       *)
EveryFillEvaluated ==
    \A e \in Events :
        stage[e] = "committed" ~>
            \/ \E n \in 1..sent[e] : <<e, n>> \in evaluated
            \/ outbox[e] = [retries |-> MaxRetries, published |-> TRUE]

-----------------------------------------------------------------------------
(* A statement of the source that the code does not keep.                  *)

(* consume_fill_events: block_ms = 0 is a read that does not block.  So    *)
(* the tick does not keep its worker while rows wait to be published.      *)
ReadIsNonBlocking ==
    \A w \in Consumers :
        (phase[w] = "reading" /\ Unpublished # {}) ~> phase[w] # "reading"
=============================================================================
