------------------------ MODULE EventPipeline_proofs ------------------------
(***************************************************************************)
(* Proofs about EventPipeline, for any events, publishers and consumers,   *)
(* the two overlapping or not, and any number of failures.                 *)
(***************************************************************************)
EXTENDS EventPipeline, Outbox_proofs, FiniteSetTheorems, TLAPS

(* What a consumer has in hand nobody else has, and nobody has evaluated.  *)
HandsApart ==
    \A w \in Processes :
        /\ inhand[w] \cap evaluated = {}
        /\ \A v \in Processes \ {w} : inhand[v] \cap inhand[w] = {}

(* What makes HandsApart inductive: everything in hand or evaluated was    *)
(* delivered, and ">" delivers nothing twice.                              *)
DeliveryInv ==
    /\ inhand = [w \in Processes |-> inhand[w]]
    /\ \A w \in Processes : inhand[w] \subseteq delivered
    /\ evaluated \subseteq delivered
    /\ acked \subseteq evaluated
    /\ HandsApart

LEMMA InitDelivery == PipelineInit => DeliveryInv
BY DEF PipelineInit, DeliveryInv, HandsApart

LEMMA StepRead == ASSUME DeliveryInv, NEW w \in Processes, Read(w) PROVE DeliveryInv'
<1>1. PICK messages \in SUBSET New :
        /\ inhand' = [inhand EXCEPT ![w] = messages]
        /\ delivered' = delivered \cup messages
      BY DEF Read
<1>2. messages \cap delivered = {} /\ UNCHANGED <<evaluated, acked>>
      BY <1>1 DEF New, Read
<1>3. \A v \in Processes : inhand'[v] = IF v = w THEN messages ELSE inhand[v]
      BY <1>1 DEF DeliveryInv
<1>4. inhand' = [v \in Processes |-> inhand'[v]]
      BY <1>1 DEF DeliveryInv
<1>5. HandsApart'
      BY <1>2, <1>3 DEF DeliveryInv, HandsApart
<1> QED BY <1>1, <1>2, <1>3, <1>4, <1>5 DEF DeliveryInv

LEMMA StepHandle ==
    ASSUME DeliveryInv, NEW w \in Processes, NEW m \in inhand[w], HandleMessage(w, m)
    PROVE  DeliveryInv'
<1>1. /\ inhand' = [inhand EXCEPT ![w] = inhand[w] \ {m}] /\ UNCHANGED delivered
      /\ \/ evaluated' = evaluated \cup {m} /\ acked' = acked \cup {m}
         \/ evaluated' = evaluated /\ acked' = acked
         \/ evaluated' = evaluated \cup {m} /\ acked' = acked
      BY DEF HandleMessage, AckAfter, AfterRaise
<1>2. \A v \in Processes : inhand'[v] = IF v = w THEN inhand[w] \ {m} ELSE inhand[v]
      BY <1>1 DEF DeliveryInv
<1>3. inhand' = [v \in Processes |-> inhand'[v]]
      BY <1>1 DEF DeliveryInv
<1>4. HandsApart'
      BY <1>1, <1>2 DEF DeliveryInv, HandsApart
<1>5. m \in delivered
      BY DEF DeliveryInv
<1> QED BY <1>1, <1>2, <1>3, <1>4, <1>5 DEF DeliveryInv

LEMMA StepDies == ASSUME DeliveryInv, NEW w \in Processes, ConsumerDies(w) PROVE DeliveryInv'
<1>1. \A v \in Processes : inhand'[v] = IF v = w THEN {} ELSE inhand[v]
      BY DEF ConsumerDies, DeliveryInv
<1>2. inhand' = [v \in Processes |-> inhand'[v]]
      BY DEF ConsumerDies, DeliveryInv
<1> QED BY <1>1, <1>2 DEF ConsumerDies, DeliveryInv, HandsApart

LEMMA StepDelivery == DeliveryInv /\ [PipelineNext]_pipelineVars => DeliveryInv'
<1> SUFFICES ASSUME DeliveryInv, [PipelineNext]_pipelineVars PROVE DeliveryInv'
    OBVIOUS
<1>1. CASE UNCHANGED <<inhand, delivered, evaluated, acked>>
      BY <1>1 DEF DeliveryInv, HandsApart
<1>2. ASSUME NEW w \in Consumers, StartTick(w) \/ ConsumeStep(w) \/ ConsumerDies(w)
      PROVE  DeliveryInv'
  <2>1. w \in Processes
        BY DEF Processes
  <2>2. CASE StartTick(w) \/ EndTick(w)
        BY <1>1, <2>2 DEF StartTick, EndTick
  <2> QED BY <1>2, <2>1, <2>2, StepRead, StepHandle, StepDies DEF ConsumeStep
<1> QED BY <1>1, <1>2 DEF PipelineNext, PollWhenFree, PublishTick, pipelineVars, consumerVars

LEMMA Delivery == PipelineSpec => []DeliveryInv
BY InitDelivery, StepDelivery, PTL DEF PipelineSpec

(* Nothing is acknowledged that the risk engine has not seen.              *)
THEOREM AckedIsEvaluatedCorrect == PipelineSpec => []AckedIsEvaluated
<1>1. DeliveryInv => AckedIsEvaluated
      BY DEF DeliveryInv, AckedIsEvaluated
<1> QED BY <1>1, Delivery, PTL

-----------------------------------------------------------------------------
(* The publisher keeps its invariant, and a stream only grows.             *)
PipelineTypeOK ==
    /\ TypeOK
    /\ phase \in [Processes -> {"idle", "reading", "working"}]
    /\ inhand \in [Processes -> SUBSET Stream]
    /\ delivered \subseteq Stream /\ evaluated \subseteq delivered
    /\ acked \subseteq delivered
    /\ failures \in 0..MaxFailures /\ died \in 0..failures

PipelineInv == IInv /\ DeliveryInv /\ PipelineTypeOK

LEMMA OutboxStep == [PipelineNext]_pipelineVars => [Next]_outboxVars
BY DEF PipelineNext, pipelineVars, Next, PollWhenFree, PublishTick, StartTick,
       ConsumeStep, Read, EndTick, HandleMessage, ConsumerDies

LEMMA SentGrows ==
    ASSUME TypeOK, [Next]_outboxVars, NEW e \in Events
    PROVE  sent[e] \in Nat /\ sent'[e] \in Nat /\ sent[e] <= sent'[e]
<1>1. \/ UNCHANGED sent
      \/ \E f \in Events : sent' = [sent EXCEPT ![f] = @ + 1]
      BY DEF Next, Produce, PublishStep, Enqueue, EndBusinessTx, Poll, PublishRow,
             FailRow, Commit, Fault, outboxVars, streams
<1>2. sent \in [Events -> Nat]
      BY DEF TypeOK
<1> QED BY <1>1, <1>2

LEMMA StreamGrows == ASSUME TypeOK, [Next]_outboxVars PROVE Stream \subseteq Stream'
<1> SUFFICES ASSUME NEW m \in Stream PROVE m \in Stream'
    OBVIOUS
<1>1. PICK e \in Events : m \in {<<e, n>> : n \in 1..sent[e]}
      BY DEF Stream
<1>2. PICK n \in 1..sent[e] : m = <<e, n>>
      BY <1>1
<1>3. n \in 1..sent'[e]
      BY SentGrows
<1> QED BY <1>2, <1>3 DEF Stream

LEMMA InitPipeline == PipelineInit => PipelineInv
BY InitIInv, InitDelivery, PipelineAssumption
   DEF PipelineInit, PipelineInv, PipelineTypeOK, IInv

LEMMA StepPipeline == PipelineInv /\ [PipelineNext]_pipelineVars => PipelineInv'
<1> SUFFICES ASSUME PipelineInv, [PipelineNext]_pipelineVars PROVE PipelineInv'
    OBVIOUS
<1>1. IInv' /\ DeliveryInv' /\ TypeOK' /\ Stream \subseteq Stream'
      BY OutboxStep, StepIInv, StepDelivery, StreamGrows DEF PipelineInv, IInv
<1>2. evaluated' \subseteq delivered' /\ acked' \subseteq delivered'
      BY <1>1 DEF DeliveryInv
<1> DEFINE Rest == /\ phase' \in [Processes -> {"idle", "reading", "working"}]
                   /\ failures' \in 0..MaxFailures /\ died' \in 0..failures'
                   /\ delivered' \subseteq Stream'
<1>3. Rest
  <2> USE <1>1, PipelineAssumption DEF PipelineInv, PipelineTypeOK
  <2>1. CASE UNCHANGED consumerVars
        BY <2>1 DEF consumerVars
  <2>2. ASSUME NEW w \in Consumers, StartTick(w) \/ EndTick(w) PROVE Rest
        BY <2>2 DEF StartTick, EndTick
  <2>3. ASSUME NEW w \in Consumers, Read(w) PROVE Rest
        BY <2>3 DEF Read, New, outboxVars
  <2>4. ASSUME NEW w \in Consumers, NEW m \in inhand[w], HandleMessage(w, m) PROVE Rest
    <3>1. UNCHANGED <<phase, delivered, died>>
          BY <2>4 DEF HandleMessage
    <3>2. failures' = failures \/ (failures < MaxFailures /\ failures' = failures + 1)
          BY <2>4 DEF HandleMessage
    <3>3. failures' \in 0..MaxFailures /\ died \in 0..failures'
          BY <3>2
    <3> QED BY <3>1, <3>3
  <2>5. ASSUME NEW w \in Consumers, ConsumerDies(w) PROVE Rest
    <3>1. phase' = [phase EXCEPT ![w] = "idle"] /\ UNCHANGED delivered
          BY <2>5 DEF ConsumerDies
    <3>2. failures < MaxFailures /\ failures' = failures + 1 /\ died' = died + 1
          BY <2>5 DEF ConsumerDies
    <3>3. failures' \in 0..MaxFailures /\ died' \in 0..failures'
          BY <3>2
    <3> QED BY <3>1, <3>3
  <2> QED BY <2>1, <2>2, <2>3, <2>4, <2>5
          DEF PipelineNext, PollWhenFree, PublishTick, ConsumeStep, pipelineVars
<1>4. inhand' \in [Processes -> SUBSET Stream']
      BY <1>1, <1>3 DEF DeliveryInv
<1> QED BY <1>1, <1>2, <1>3, <1>4 DEF PipelineInv, PipelineTypeOK

(* The types of the whole path hold, and what is in hand, delivered,       *)
(* evaluated or acknowledged is a copy that is in the stream.              *)
THEOREM PipelineTypes == PipelineSpec => []PipelineTypeOK
<1>1. PipelineInv => PipelineTypeOK
      BY DEF PipelineInv
<1> QED BY <1>1, InitPipeline, StepPipeline, PTL DEF PipelineSpec
-----------------------------------------------------------------------------
(* The pipeline as an outbox: consumers only read what publishers wrote.   *)

(* The publishers of the whole path behave as the outbox alone: a consumer *)
(* that keeps a worker busy takes behaviours away and adds none.           *)
THEOREM PipelineIsOutbox == PipelineSpec => Spec
<1>1. PipelineInit => Init
      BY DEF PipelineInit
<1> QED BY <1>1, OutboxStep, PTL DEF PipelineSpec, Spec

(* So the outbox keeps its promise, and every further copy is explained,   *)
(* with consumers on the same workers too.                                 *)
THEOREM PipelineKeepsPromise ==
    PipelineSpec => KeepsPromise /\ []DuplicatesExplained /\ []NoZombieRow
BY PipelineIsOutbox, PromiseKept, DuplicatesExplainedCorrect, NoZombieRowCorrect, PTL

-----------------------------------------------------------------------------
(* From the business transaction to the risk engine.                       *)

Evaluations(e) == {n \in Nat : <<e, n>> \in evaluated}

(* Only fills of committed transactions trigger the risk engine, and one   *)
(* of them triggers it once, and once more for each copy whose sending     *)
(* left no record.                                                         *)
EvaluationsExplained ==
    \A e \in Events :
        /\ IsFiniteSet(Evaluations(e))
        /\ Cardinality(Evaluations(e)) <= wasted[e] + 1
        /\ Evaluations(e) # {} => stage[e] = "committed"

(* What is in a stream was sent, and what was sent was committed.          *)
LEMMA InStream ==
    ASSUME PipelineInv, NEW e, NEW n, <<e, n>> \in Stream
    PROVE  e \in Events /\ n \in 1..sent[e]
<1>1. PICK f \in Events : <<e, n>> \in {<<f, k>> : k \in 1..sent[f]}
      BY DEF Stream
<1>2. PICK k \in 1..sent[f] : <<e, n>> = <<f, k>>
      BY <1>1
<1> QED BY <1>2

LEMMA UpTo ==
    ASSUME NEW n \in Nat
    PROVE  IsFiniteSet(1..n) /\ Cardinality(1..n) = n
<1>1. IsFiniteSet(1..n) /\ Cardinality(1..n) = IF 1 > n THEN 0 ELSE n - 1 + 1
      BY FS_Interval
<1> QED BY <1>1

(* The risk engine's work is explained by the outbox alone.                *)
THEOREM EvaluationsExplainedCorrect == PipelineSpec => []EvaluationsExplained
<1>1. PipelineInv /\ DuplicatesExplained => EvaluationsExplained
  <2> SUFFICES ASSUME PipelineInv, DuplicatesExplained, NEW e \in Events
               PROVE  /\ IsFiniteSet(Evaluations(e))
                      /\ Cardinality(Evaluations(e)) <= wasted[e] + 1
                      /\ Evaluations(e) # {} => stage[e] = "committed"
      BY DEF EvaluationsExplained
  <2>1. sent[e] \in Nat /\ wasted[e] \in Nat /\ sent[e] <= wasted[e] + 1
        BY DEF PipelineInv, IInv, TypeOK, DuplicatesExplained
  <2>2. \A n \in Evaluations(e) : n \in 1..sent[e]
    <3>1. evaluated \subseteq Stream
          BY DEF PipelineInv, PipelineTypeOK
    <3> QED BY <3>1, InStream DEF Evaluations
  <2>3. IsFiniteSet(1..sent[e]) /\ Cardinality(1..sent[e]) = sent[e]
        BY <2>1, UpTo
  <2>4. IsFiniteSet(Evaluations(e)) /\ Cardinality(Evaluations(e)) <= sent[e]
    <3>1. Evaluations(e) \in SUBSET (1..sent[e])
          BY <2>2
    <3> QED BY <2>3, <3>1, FS_Subset
  <2>5. Cardinality(Evaluations(e)) \in Nat
        BY <2>4, FS_CardinalityType
  <2>6. Evaluations(e) # {} => sent[e] > 0
        BY <2>1, <2>2
  <2>7. sent[e] > 0 => stage[e] = "committed"
        BY DEF PipelineInv, IInv, CountInv, BatchInv
  <2> QED BY <2>1, <2>4, <2>5, <2>6, <2>7
<1> QED BY <1>1, InitPipeline, StepPipeline, PipelineKeepsPromise, PTL DEF PipelineSpec

-----------------------------------------------------------------------------
(* What ">" never delivers again.                                          *)

(* One message for an evaluation that raised, a read for a death.          *)
Cost == (failures - died) + ReadCount * died

(* A consumer that is not working has nothing in hand; one that works has  *)
(* at most what one read returned.  Each failure drops no more than that.  *)
DropInv ==
    /\ PipelineInv
    /\ IsFiniteSet(Stream)
    /\ \A w \in Processes :
         /\ phase[w] # "working" => inhand[w] = {}
         /\ IsFiniteSet(inhand[w]) /\ Cardinality(inhand[w]) <= ReadCount
    /\ Cardinality(Dropped) <= Cost

LEMMA InitDrop == PipelineInit => DropInv
<1> SUFFICES ASSUME PipelineInit PROVE DropInv
    OBVIOUS
<1>1. PipelineInv
      BY InitPipeline
<1>2. Stream = {} /\ Dropped = {}
      BY DEF PipelineInit, Init, Stream, Dropped
<1>3. \A w \in Processes : inhand[w] = {}
      BY DEF PipelineInit
<1>4. failures = 0 /\ died = 0
      BY DEF PipelineInit
<1>5. ReadCount \in Nat /\ 0 <= Cost
      BY <1>4, PipelineAssumption DEF Cost
<1>6. IsFiniteSet({}) /\ Cardinality({}) = 0
      BY FS_EmptySet
<1> QED BY <1>1, <1>2, <1>3, <1>5, <1>6, PipelineAssumption DEF DropInv

(* A publisher adds one copy at a time.                                    *)
LEMMA StreamStaysFinite ==
    ASSUME TypeOK, IsFiniteSet(Stream), [Next]_outboxVars
    PROVE  IsFiniteSet(Stream')
<1>1. CASE UNCHANGED sent
  <2>1. Stream' = Stream
        BY <1>1 DEF Stream
  <2> QED BY <2>1
<1>2. ASSUME NEW f \in Events, sent' = [sent EXCEPT ![f] = @ + 1]
      PROVE  IsFiniteSet(Stream')
  <2>1. \A e \in Events : sent[e] \in Nat /\ sent'[e] = IF e = f THEN sent[e] + 1 ELSE sent[e]
        BY <1>2 DEF TypeOK
  <2>2. ASSUME NEW m \in Stream' PROVE m \in Stream \cup {<<f, sent[f] + 1>>}
    <3>1. PICK e \in Events : m \in {<<e, n>> : n \in 1..sent'[e]}
          BY <2>2 DEF Stream
    <3>2. PICK n \in 1..sent'[e] : m = <<e, n>>
          BY <3>1
    <3>3. n \in 1..sent[e] \/ (e = f /\ n = sent[f] + 1)
          BY <2>1, <3>2
    <3>4. n \in 1..sent[e] => m \in Stream
          BY <3>2 DEF Stream
    <3> QED BY <3>2, <3>3, <3>4
  <2>3. IsFiniteSet(Stream \cup {<<f, sent[f] + 1>>})
        BY FS_AddElement
  <2>4. Stream' \subseteq Stream \cup {<<f, sent[f] + 1>>}
        BY <2>2
  <2> QED BY <2>3, <2>4, FS_Subset
<1>3. \/ UNCHANGED sent
      \/ \E f \in Events : sent' = [sent EXCEPT ![f] = @ + 1]
      BY DEF Next, Produce, PublishStep, Enqueue, EndBusinessTx, Poll, PublishRow,
             FailRow, Commit, Fault, outboxVars, streams
<1> QED BY <1>1, <1>2, <1>3

LEMMA DroppedFinite ==
    ASSUME PipelineTypeOK, IsFiniteSet(Stream)
    PROVE  IsFiniteSet(Dropped) /\ Cardinality(Dropped) \in Nat
<1>1. Dropped \subseteq Stream
      BY DEF PipelineTypeOK, Dropped
<1> QED BY <1>1, FS_Subset, FS_CardinalityType

(* The cost of a step's failures.                                          *)
Raised == UNCHANGED died /\ failures' = failures + 1

Died == died' = died + 1 /\ failures' = failures + 1

LEMMA CostGrows ==
    ASSUME PipelineInv
    PROVE  /\ Cost \in Nat /\ ReadCount \in Nat
           /\ UNCHANGED <<failures, died>> => Cost' = Cost
           /\ Raised => Cost' = Cost + 1
           /\ Died => Cost' = Cost + ReadCount
<1>1. failures \in Nat /\ died \in 0..failures /\ ReadCount \in Nat
      BY PipelineAssumption DEF PipelineInv, PipelineTypeOK
<1>2. /\ ReadCount * died \in Nat
      /\ ReadCount * (died + 1) = ReadCount * died + ReadCount
      BY <1>1
<1>3. Cost \in Nat
      BY <1>1, <1>2 DEF Cost
<1>4. UNCHANGED <<failures, died>> => Cost' = Cost
      BY DEF Cost
<1>5. Raised => Cost' = Cost + 1
      BY <1>1, <1>2 DEF Cost, Raised
<1>6. ASSUME Died PROVE Cost' = Cost + ReadCount
  <2>1. ReadCount * died' = ReadCount * died + ReadCount /\ failures' - died' = failures - died
        BY <1>1, <1>2, <1>6 DEF Died
  <2> QED BY <1>1, <1>2, <2>1 DEF Cost
<1> QED BY <1>1, <1>3, <1>4, <1>5, <1>6

LEMMA NoneDropped ==
    ASSUME DropInv, Dropped' \subseteq Dropped,
           UNCHANGED <<failures, died>> \/ Raised
    PROVE  Cardinality(Dropped') <= Cost'
<1>1. IsFiniteSet(Dropped) /\ Cardinality(Dropped) \in Nat
      BY DroppedFinite DEF DropInv, PipelineInv
<1>2. IsFiniteSet(Dropped') /\ Cardinality(Dropped') <= Cardinality(Dropped)
      BY <1>1, FS_Subset
<1>3. Cardinality(Dropped') \in Nat
      BY <1>2, FS_CardinalityType
<1>4. Cost \in Nat /\ (Cost' = Cost \/ Cost' = Cost + 1)
      BY CostGrows DEF DropInv
<1>5. Cardinality(Dropped) <= Cost
      BY DEF DropInv
<1> QED BY <1>1, <1>2, <1>3, <1>4, <1>5

LEMMA SomeDropped ==
    ASSUME DropInv, NEW S, IsFiniteSet(S), Dropped' \subseteq Dropped \cup S,
           \/ Raised /\ Cardinality(S) <= 1
           \/ Died /\ Cardinality(S) <= ReadCount
    PROVE  Cardinality(Dropped') <= Cost'
<1>1. IsFiniteSet(Dropped) /\ Cardinality(Dropped) \in Nat /\ Cardinality(S) \in Nat
      BY DroppedFinite, FS_CardinalityType DEF DropInv, PipelineInv
<1>2. /\ IsFiniteSet(Dropped \cup S) /\ IsFiniteSet(Dropped \cap S)
      /\ Cardinality(Dropped \cup S)
           = Cardinality(Dropped) + Cardinality(S) - Cardinality(Dropped \cap S)
      BY <1>1, FS_Union, FS_Intersection
<1>3. IsFiniteSet(Dropped') /\ Cardinality(Dropped') <= Cardinality(Dropped \cup S)
      BY <1>2, FS_Subset
<1>4. /\ Cardinality(Dropped') \in Nat /\ Cardinality(Dropped \cup S) \in Nat
      /\ Cardinality(Dropped \cap S) \in Nat
      BY <1>2, <1>3, FS_CardinalityType
<1>5. /\ Cost \in Nat /\ ReadCount \in Nat
      /\ \/ Cost' = Cost + 1 /\ Cardinality(S) <= 1
         \/ Cost' = Cost + ReadCount /\ Cardinality(S) <= ReadCount
      BY CostGrows DEF DropInv
<1>6. Cardinality(Dropped) <= Cost
      BY DEF DropInv
<1> QED BY <1>1, <1>2, <1>3, <1>4, <1>5, <1>6

(* The three steps that touch what is in hand.                             *)
LEMMA ReadDrop ==
    ASSUME DropInv, NEW w \in Processes, Read(w)
    PROVE  /\ Dropped' \subseteq Dropped /\ UNCHANGED <<failures, died>>
           /\ IsFiniteSet(inhand'[w]) /\ Cardinality(inhand'[w]) <= ReadCount
           /\ phase'[w] = "working"
           /\ \A v \in Processes \ {w} : inhand'[v] = inhand[v] /\ phase'[v] = phase[v]
<1>1. PICK messages \in SUBSET New :
        /\ Cardinality(messages) <= ReadCount
        /\ inhand' = [inhand EXCEPT ![w] = messages]
        /\ delivered' = delivered \cup messages
      BY DEF Read
<1>2. /\ phase[w] = "reading" /\ phase' = [phase EXCEPT ![w] = "working"]
      /\ UNCHANGED <<evaluated, failures, died>>
      BY DEF Read
<1>3. inhand[w] = {} /\ IsFiniteSet(Stream)
      BY <1>2 DEF DropInv
<1>4. /\ inhand'[w] = messages
      /\ \A v \in Processes \ {w} : inhand'[v] = inhand[v]
      BY <1>1 DEF DropInv, PipelineInv, DeliveryInv
<1>5. IsFiniteSet(messages)
  <2>1. messages \subseteq Stream
        BY DEF New
  <2> QED BY <1>3, <2>1, FS_Subset
<1>6. phase'[w] = "working" /\ \A v \in Processes \ {w} : phase'[v] = phase[v]
      BY <1>2 DEF DropInv, PipelineInv, PipelineTypeOK
<1>7. ASSUME NEW m \in Dropped' PROVE m \in Dropped
  <2>1. m \in delivered \cup messages /\ m \notin evaluated
        /\ \A v \in Processes : m \notin inhand'[v]
        BY <1>1, <1>2, <1>7 DEF Dropped, InHand
  <2>2. m \notin messages /\ \A v \in Processes : m \notin inhand[v]
        BY <1>3, <1>4, <2>1
  <2> QED BY <2>1, <2>2 DEF Dropped, InHand
<1> QED BY <1>1, <1>2, <1>4, <1>5, <1>6, <1>7

LEMMA HandleDrop ==
    ASSUME DropInv, NEW w \in Processes, NEW m \in inhand[w], HandleMessage(w, m)
    PROVE  /\ \/ Dropped' \subseteq Dropped /\ (UNCHANGED <<failures, died>> \/ Raised)
              \/ Dropped' \subseteq Dropped \cup {m} /\ Raised
           /\ inhand'[w] = inhand[w] \ {m} /\ phase[w] = "working" /\ phase' = phase
           /\ \A v \in Processes \ {w} : inhand'[v] = inhand[v]
<1>1. /\ phase[w] = "working" /\ UNCHANGED <<phase, delivered>>
      /\ inhand' = [inhand EXCEPT ![w] = inhand[w] \ {m}]
      /\ \/ evaluated' = evaluated \cup {m} /\ (UNCHANGED <<failures, died>> \/ Raised)
         \/ evaluated' = evaluated /\ Raised
      BY DEF HandleMessage, AfterRaise, Raised
<1>2. /\ inhand'[w] = inhand[w] \ {m}
      /\ \A v \in Processes \ {w} : inhand'[v] = inhand[v]
      BY <1>1 DEF DropInv, PipelineInv, DeliveryInv
<1>3. ASSUME NEW x \in Dropped', x # m PROVE x \in Dropped
  <2>1. x \in delivered /\ x \notin evaluated /\ \A v \in Processes : x \notin inhand[v]
        BY <1>1, <1>2, <1>3 DEF Dropped, InHand
  <2> QED BY <2>1 DEF Dropped, InHand
<1>4. evaluated' = evaluated \cup {m} => m \notin Dropped'
      BY DEF Dropped
<1> QED BY <1>1, <1>2, <1>3, <1>4

LEMMA DiesDrop ==
    ASSUME DropInv, NEW w \in Processes, ConsumerDies(w)
    PROVE  /\ Dropped' \subseteq Dropped \cup inhand[w] /\ Died
           /\ inhand'[w] = {}
           /\ \A v \in Processes \ {w} : inhand'[v] = inhand[v] /\ phase'[v] = phase[v]
<1>1. /\ phase' = [phase EXCEPT ![w] = "idle"] /\ inhand' = [inhand EXCEPT ![w] = {}]
      /\ Died /\ UNCHANGED <<delivered, evaluated>>
      BY DEF ConsumerDies, Died
<1>2. /\ inhand'[w] = {}
      /\ \A v \in Processes \ {w} : inhand'[v] = inhand[v] /\ phase'[v] = phase[v]
      BY <1>1 DEF DropInv, PipelineInv, DeliveryInv, PipelineTypeOK
<1>3. ASSUME NEW x \in Dropped', x \notin inhand[w] PROVE x \in Dropped
  <2>1. x \in delivered /\ x \notin evaluated /\ \A v \in Processes : x \notin inhand[v]
        BY <1>1, <1>2, <1>3 DEF Dropped, InHand
  <2> QED BY <2>1 DEF Dropped, InHand
<1> QED BY <1>1, <1>2, <1>3

LEMMA StepDrop == DropInv /\ [PipelineNext]_pipelineVars => DropInv'
<1> SUFFICES ASSUME DropInv, [PipelineNext]_pipelineVars PROVE DropInv'
    OBVIOUS
<1>1. PipelineInv /\ PipelineInv'
      BY StepPipeline DEF DropInv
<1>2. IsFiniteSet(Stream')
      BY <1>1, OutboxStep, StreamStaysFinite DEF DropInv, PipelineInv, IInv
<1> DEFINE Hands == \A w \in Processes :
                /\ phase'[w] # "working" => inhand'[w] = {}
                /\ IsFiniteSet(inhand'[w]) /\ Cardinality(inhand'[w]) <= ReadCount
           Rest == Hands /\ Cardinality(Dropped') <= Cost'
<1>3. CASE UNCHANGED consumerVars
  <2>1. UNCHANGED <<phase, inhand, delivered, evaluated, failures, died>>
        BY <1>3 DEF consumerVars
  <2>2. Hands
        BY <2>1 DEF DropInv
  <2>3. Dropped' = Dropped
        BY <2>1 DEF Dropped, InHand
  <2>4. Rest
        BY <1>1, <2>1, <2>2, <2>3, NoneDropped
  <2> QED BY <1>1, <1>2, <2>4 DEF DropInv
<1>4. ASSUME NEW w \in Consumers, StartTick(w) \/ EndTick(w) PROVE DropInv'
  <2>1. UNCHANGED <<inhand, delivered, evaluated, failures, died>> /\ w \in Processes
        BY <1>4 DEF StartTick, EndTick, Processes
  <2>2. inhand[w] = {}
    <3>1. phase[w] = "idle" \/ inhand[w] = {}
          BY <1>4 DEF StartTick, EndTick, Free
    <3> QED BY <2>1, <3>1 DEF DropInv
  <2>3. \A v \in Processes \ {w} : phase'[v] = phase[v]
        BY <1>1, <1>4 DEF StartTick, EndTick, PipelineInv, PipelineTypeOK
  <2>4. Hands
        BY <2>1, <2>2, <2>3 DEF DropInv
  <2>5. Dropped' = Dropped
        BY <2>1 DEF Dropped, InHand
  <2>6. Rest
        BY <1>1, <2>1, <2>4, <2>5, NoneDropped
  <2> QED BY <1>1, <1>2, <2>6 DEF DropInv
<1>5. ASSUME NEW w \in Consumers, Read(w) PROVE DropInv'
  <2>1. w \in Processes
        BY DEF Processes
  <2>2. Hands
        BY <1>5, <2>1, ReadDrop DEF DropInv
  <2>3. Rest
        BY <1>1, <1>5, <2>1, <2>2, ReadDrop, NoneDropped
  <2> QED BY <1>1, <1>2, <2>3 DEF DropInv
<1>6. ASSUME NEW w \in Consumers, NEW m \in inhand[w], HandleMessage(w, m) PROVE DropInv'
  <2>1. w \in Processes
        BY DEF Processes
  <2>2. IsFiniteSet(inhand[w] \ {m}) /\ Cardinality(inhand[w] \ {m}) <= ReadCount
    <3>1. IsFiniteSet(inhand[w]) /\ Cardinality(inhand[w]) <= ReadCount
          BY <2>1 DEF DropInv
    <3>2. /\ IsFiniteSet(inhand[w] \ {m})
          /\ Cardinality(inhand[w] \ {m}) = Cardinality(inhand[w]) - 1
          BY <3>1, FS_RemoveElement
    <3>3. Cardinality(inhand[w]) \in Nat
          BY <3>1, FS_CardinalityType
    <3> QED BY <3>1, <3>2, <3>3, PipelineAssumption
  <2>3. Hands
        BY <1>6, <2>1, <2>2, HandleDrop DEF DropInv
  <2>4. IsFiniteSet({m}) /\ Cardinality({m}) <= 1
    <3>1. IsFiniteSet({m}) /\ Cardinality({m}) = 1
          BY FS_Singleton
    <3> QED BY <3>1
  <2>5. Cardinality(Dropped') <= Cost'
        BY <1>1, <1>6, <2>1, <2>4, HandleDrop, NoneDropped, SomeDropped
  <2> QED BY <1>1, <1>2, <2>3, <2>5 DEF DropInv
<1>7. ASSUME NEW w \in Consumers, ConsumerDies(w) PROVE DropInv'
  <2>1. w \in Processes
        BY DEF Processes
  <2>2. IsFiniteSet({}) /\ Cardinality({}) <= ReadCount
        BY FS_EmptySet, PipelineAssumption
  <2>3. Hands
        BY <1>7, <2>1, <2>2, DiesDrop DEF DropInv
  <2>4. IsFiniteSet(inhand[w]) /\ Cardinality(inhand[w]) <= ReadCount
        BY <2>1 DEF DropInv
  <2>5. Cardinality(Dropped') <= Cost'
        BY <1>1, <1>7, <2>1, <2>4, DiesDrop, SomeDropped
  <2> QED BY <1>1, <1>2, <2>3, <2>5 DEF DropInv
<1> QED BY <1>3, <1>4, <1>5, <1>6, <1>7
        DEF PipelineNext, PollWhenFree, PublishTick, ConsumeStep, pipelineVars

(* The consumer never asks for its pending entries again, so what it read  *)
(* and did not evaluate is dropped: the message itself for an evaluation   *)
(* that raised, one read at most for a consumer that died, and no others.  *)
THEOREM LossIsBoundedCorrect == PipelineSpec => []LossIsBounded
<1>1. DropInv => LossIsBounded
      BY DEF DropInv, LossIsBounded, Cost
<1> QED BY <1>1, InitDrop, StepDrop, PTL DEF PipelineSpec

(* And no step of any consumer evaluates it, or takes it in hand again:    *)
(* the group's pending entries are read by nobody.                         *)
THEOREM LostForGood == PipelineSpec => [][Dropped \subseteq Dropped']_pipelineVars
<1>1. ASSUME DeliveryInv, [PipelineNext]_pipelineVars PROVE Dropped \subseteq Dropped'
  <2> SUFFICES ASSUME NEW m \in Dropped PROVE m \in Dropped'
      OBVIOUS
  <2>1. /\ m \in delivered /\ m \notin evaluated
        /\ \A v \in Processes : m \notin inhand[v]
        BY DEF Dropped, InHand
  <2>2. CASE UNCHANGED <<inhand, delivered, evaluated>>
        BY <2>2 DEF Dropped, InHand
  <2>3. ASSUME NEW w \in Consumers, StartTick(w) \/ ConsumeStep(w) \/ ConsumerDies(w)
        PROVE  m \in Dropped'
    <3>1. w \in Processes
          BY DEF Processes
    <3>2. CASE StartTick(w) \/ EndTick(w)
          BY <2>2, <3>2 DEF StartTick, EndTick
    <3>3. CASE Read(w)
      <4>1. PICK messages \in SUBSET New :
              /\ inhand' = [inhand EXCEPT ![w] = messages]
              /\ delivered' = delivered \cup messages /\ evaluated' = evaluated
            BY <3>3 DEF Read
      <4>2. m \notin messages
            BY <2>1 DEF New
      <4>3. \A v \in Processes : m \notin inhand'[v]
            BY <1>1, <2>1, <4>1, <4>2 DEF DeliveryInv
      <4> QED BY <2>1, <4>1, <4>3 DEF Dropped, InHand
    <3>4. ASSUME NEW x \in inhand[w], HandleMessage(w, x) PROVE m \in Dropped'
      <4>1. /\ inhand' = [inhand EXCEPT ![w] = inhand[w] \ {x}]
            /\ delivered' = delivered /\ evaluated' \subseteq evaluated \cup {x}
            BY <3>4 DEF HandleMessage, AfterRaise
      <4>2. m # x
            BY <2>1, <3>1
      <4>3. \A v \in Processes : m \notin inhand'[v]
            BY <1>1, <2>1, <4>1 DEF DeliveryInv
      <4> QED BY <2>1, <4>1, <4>2, <4>3 DEF Dropped, InHand
    <3>5. CASE ConsumerDies(w)
      <4>1. /\ inhand' = [inhand EXCEPT ![w] = {}]
            /\ delivered' = delivered /\ evaluated' = evaluated
            BY <3>5 DEF ConsumerDies
      <4>2. \A v \in Processes : m \notin inhand'[v]
            BY <1>1, <2>1, <4>1 DEF DeliveryInv
      <4> QED BY <2>1, <4>1, <4>2 DEF Dropped, InHand
    <3> QED BY <2>3, <3>2, <3>3, <3>4, <3>5 DEF ConsumeStep
  <2> QED BY <1>1, <2>2, <2>3
          DEF PipelineNext, PollWhenFree, PublishTick, pipelineVars, consumerVars
<1> QED BY <1>1, Delivery, PTL DEF PipelineSpec
=============================================================================
