---------------------------- MODULE Outbox_proofs ----------------------------
(***************************************************************************)
(* Proofs about Outbox, for any set of events, any number of publishers    *)
(* that run at the same time, any batch size, retry limit and number of    *)
(* failed transactions.                                                    *)
(***************************************************************************)
EXTENDS Outbox, TLAPS

(* A locked row is committed, unpublished and in one batch only.           *)
BatchInv ==
    \A w \in Publishers :
        /\ todo[w] \subseteq batch[w]
        /\ \A e \in batch[w] : stage[e] = "committed" /\ ~outbox[e].published
        /\ \A v \in Publishers : v # w => batch[v] \cap batch[w] = {}

(* What the open transaction has written of each row it has handled.       *)
Sent(e) ==
    draft[e].published /\ draft[e].retries = outbox[e].retries
Failed(e) ==
    /\ draft[e].retries = outbox[e].retries + 1
    /\ draft[e].published <=> draft[e].retries = MaxRetries

DraftInv ==
    /\ \A e \in fresh : \E w \in Publishers : e \in batch[w] \ todo[w]
    /\ \A w \in Publishers : \A e \in batch[w] \ todo[w] :
         IF e \in fresh THEN Sent(e) ELSE Failed(e)

(* Every accepted copy is recorded by the committed row, belongs to an     *)
(* open transaction, or is wasted.                                         *)
Recorded(e) == outbox[e].published /\ outbox[e].retries < MaxRetries

CountInv ==
    \A e \in Events :
        /\ sent[e] = IF e \in fresh \/ Recorded(e) THEN wasted[e] + 1 ELSE wasted[e]
        /\ stage[e] # "committed" => sent[e] = 0 /\ outbox[e] = NewRow

IInv == TypeOK /\ NoZombieRow /\ BatchInv /\ DraftInv /\ CountInv

-----------------------------------------------------------------------------
LEMMA InitIInv == Init => IInv
BY OutboxAssumption
   DEF Init, IInv, TypeOK, NoZombieRow, BatchInv, DraftInv, CountInv, RowType,
       NewRow, Recorded

(* A row being handled is not yet sent by this transaction nor recorded.   *)
LEMMA Handled ==
    ASSUME IInv, NEW w \in Publishers, NEW e \in todo[w]
    PROVE  /\ e \in Events /\ e \in batch[w] /\ e \notin fresh /\ ~Recorded(e)
           /\ stage[e] = "committed" /\ ~outbox[e].published
           /\ outbox[e].retries \in 0..(MaxRetries - 1)
           /\ sent[e] = wasted[e] /\ sent[e] \in Nat
<1> USE OutboxAssumption DEF IInv
<1>1. e \in Events /\ e \in batch[w]
      BY DEF TypeOK, BatchInv
<1>2. stage[e] = "committed" /\ ~outbox[e].published /\ ~Recorded(e)
      BY <1>1 DEF BatchInv, Recorded
<1>3. e \notin fresh
      BY <1>1 DEF DraftInv, BatchInv
<1>4. outbox[e].retries \in 0..(MaxRetries - 1)
      BY <1>1, <1>2 DEF TypeOK, RowType, NoZombieRow
<1> QED BY <1>1, <1>2, <1>3, <1>4 DEF CountInv, TypeOK

LEMMA StepProduce ==
    ASSUME IInv, NEW e \in Events, Enqueue(e) \/ EndBusinessTx(e)
    PROVE  IInv'
<1> USE DEF IInv, Enqueue, EndBusinessTx, work, streams, ghosts
<1>1. TypeOK'
      BY DEF TypeOK
<1>2. NoZombieRow'
      BY DEF NoZombieRow
<1>3. BatchInv'
      BY DEF BatchInv, TypeOK
<1>4. DraftInv'
      BY DEF DraftInv, Sent, Failed
<1>5. CountInv'
      BY DEF CountInv, Recorded, TypeOK
<1> QED BY <1>1, <1>2, <1>3, <1>4, <1>5

LEMMA StepPoll == ASSUME IInv, NEW w \in Publishers, Poll(w) PROVE IInv'
<1> USE DEF IInv
<1>1. PICK rowset \in SUBSET (Unpublished \ Locked) :
        /\ batch' = [batch EXCEPT ![w] = rowset]
        /\ todo' = [todo EXCEPT ![w] = rowset]
      BY DEF Poll
<1>2. /\ UNCHANGED <<rows, draft, streams, ghosts, faults>> /\ batch[w] = {}
      BY DEF Poll
<1>3. \A e \in rowset :
        /\ e \in Events /\ stage[e] = "committed" /\ ~outbox[e].published
        /\ \A v \in Publishers : e \notin batch[v]
      BY DEF Unpublished, Locked
<1>4. TypeOK'
      BY <1>1, <1>2, <1>3 DEF TypeOK, rows, streams, ghosts
<1>5. NoZombieRow'
      BY <1>2 DEF NoZombieRow, rows
<1>6. BatchInv'
      BY <1>1, <1>2, <1>3 DEF BatchInv, TypeOK, rows
<1>7. DraftInv'
  <2>1. \A v \in Publishers : (batch[v] \ todo[v])' = batch[v] \ todo[v]
        BY <1>1, <1>2 DEF TypeOK
  <2> QED BY <1>2, <2>1 DEF DraftInv, Sent, Failed, rows, ghosts
<1>8. CountInv'
      BY <1>2 DEF CountInv, Recorded, rows, streams, ghosts
<1> QED BY <1>4, <1>5, <1>6, <1>7, <1>8

LEMMA StepPublishRow ==
    ASSUME IInv, NEW w \in Publishers, NEW e \in Events, PublishRow(w, e)
    PROVE  IInv'
<1> USE DEF IInv, PublishRow, NextRow, rows
<1>1. /\ e \in batch[w] /\ e \notin fresh /\ ~Recorded(e) /\ stage[e] = "committed"
      /\ outbox[e].retries \in 0..(MaxRetries - 1) /\ sent[e] = wasted[e]
      BY Handled
<1>2. [retries |-> outbox[e].retries, published |-> TRUE] \in RowType
      BY <1>1, OutboxAssumption DEF RowType
<1>3. TypeOK'
      BY <1>2 DEF TypeOK
<1>4. NoZombieRow' /\ BatchInv'
      BY DEF NoZombieRow, BatchInv, TypeOK
<1>5. DraftInv'
  <2>1. \A v \in Publishers :
          (batch[v] \ todo[v])' = IF v = w THEN (batch[v] \ todo[v]) \cup {e}
                                  ELSE batch[v] \ todo[v]
        BY <1>1 DEF TypeOK, BatchInv
  <2>2. Sent(e)'
        BY DEF Sent, TypeOK
  <2>3. \A f \in Events \ {e} : draft'[f] = draft[f] /\ (f \in fresh' <=> f \in fresh)
        BY DEF TypeOK
  <2>4. \A v \in Publishers : batch[v] \subseteq Events
        BY DEF TypeOK
  <2> QED BY <1>1, <2>1, <2>2, <2>3, <2>4 DEF DraftInv, Sent, Failed
<1>6. CountInv'
      BY <1>1 DEF CountInv, Recorded, TypeOK
<1> QED BY <1>3, <1>4, <1>5, <1>6

LEMMA StepFailRow ==
    ASSUME IInv, NEW w \in Publishers, NEW e \in Events, FailRow(w, e)
    PROVE  IInv'
<1> USE DEF IInv, FailRow, NextRow, rows
<1>1. /\ e \in batch[w] /\ e \notin fresh /\ ~Recorded(e) /\ stage[e] = "committed"
      /\ outbox[e].retries \in 0..(MaxRetries - 1) /\ sent[e] = wasted[e]
      BY Handled
<1> DEFINE failed == [retries |-> outbox[e].retries + 1, published |-> Exhausted(e)]
<1>2. /\ failed \in RowType
      /\ failed.published <=> failed.retries = MaxRetries
  <2>1. Exhausted(e) \in BOOLEAN /\ (Exhausted(e) <=> outbox[e].retries + 1 = MaxRetries)
        BY <1>1, OutboxAssumption DEF Exhausted
  <2>2. outbox[e].retries + 1 \in 0..MaxRetries
        BY <1>1, OutboxAssumption
  <2> QED BY <2>1, <2>2 DEF RowType
<1>3. draft' = [draft EXCEPT ![e] = failed]
      OBVIOUS
<1>4. TypeOK'
      BY <1>2, <1>3 DEF TypeOK
<1>5. NoZombieRow' /\ BatchInv'
      BY DEF NoZombieRow, BatchInv, TypeOK
<1>6. DraftInv'
  <2>1. \A v \in Publishers :
          (batch[v] \ todo[v])' = IF v = w THEN (batch[v] \ todo[v]) \cup {e}
                                  ELSE batch[v] \ todo[v]
        BY <1>1 DEF TypeOK, BatchInv
  <2>2. Failed(e)'
    <3>1. draft'[e] = failed
          BY <1>3 DEF TypeOK
    <3> QED BY <1>2, <3>1 DEF Failed
  <2>3. \A f \in Events \ {e} : draft'[f] = draft[f]
        BY <1>3 DEF TypeOK
  <2>4. \A v \in Publishers : batch[v] \subseteq Events
        BY DEF TypeOK
  <2> HIDE DEF failed
  <2> QED BY <1>1, <2>1, <2>2, <2>3, <2>4 DEF DraftInv, Sent, Failed
<1>7. CountInv'
      BY <1>1 DEF CountInv, Recorded, TypeOK
<1> QED BY <1>4, <1>5, <1>6, <1>7

(* What a commit records of one row of its batch.                          *)
LEMMA Commits ==
    ASSUME IInv, NEW w \in Publishers, Commit(w), NEW e \in Events, e \in batch[w]
    PROVE  /\ outbox'[e] = draft[e] /\ e \notin fresh'
           /\ IF e \in fresh THEN Sent(e) ELSE Failed(e)
           /\ stage[e] = "committed" /\ outbox[e].retries < MaxRetries
<1>1. outbox'[e] = draft[e] /\ e \notin fresh'
      BY DEF Commit
<1>2. IF e \in fresh THEN Sent(e) ELSE Failed(e)
      BY DEF Commit, IInv, DraftInv
<1>3. stage[e] = "committed" /\ outbox[e].retries < MaxRetries
      BY DEF IInv, BatchInv, NoZombieRow
<1> QED BY <1>1, <1>2, <1>3

LEMMA StepCommit == ASSUME IInv, NEW w \in Publishers, Commit(w) PROVE IInv'
<1> USE DEF IInv
<1>1. /\ outbox' = [e \in Events |-> IF e \in batch[w] THEN draft[e] ELSE outbox[e]]
      /\ batch' = [batch EXCEPT ![w] = {}] /\ fresh' = fresh \ batch[w]
      /\ UNCHANGED <<stage, older, todo, draft, sent, dead, wasted, faults>>
      /\ todo[w] = {}
      BY DEF Commit, streams
<1>2. TypeOK'
      BY <1>1 DEF TypeOK
<1>3. NoZombieRow'
  <2>1. ASSUME NEW e \in Events PROVE (~outbox[e].published => outbox[e].retries < MaxRetries)'
    <3>1. CASE e \in batch[w]
          BY <1>1, <3>1, Commits, OutboxAssumption DEF Sent, Failed, TypeOK, RowType
    <3>2. CASE e \notin batch[w]
          BY <1>1, <3>2 DEF NoZombieRow
    <3> QED BY <3>1, <3>2
  <2> QED BY <2>1 DEF NoZombieRow
<1>4. BatchInv'
      BY <1>1 DEF BatchInv, TypeOK
<1>5. DraftInv'
  <2>1. ASSUME NEW v \in Publishers, NEW e \in batch'[v]
        PROVE  v # w /\ e \in batch[v] /\ e \notin batch[w] /\ outbox'[e] = outbox[e]
        BY <1>1 DEF BatchInv, TypeOK
  <2>2. ASSUME NEW e \in fresh'
        PROVE  \E v \in Publishers : e \in batch'[v] \ todo'[v]
        BY <1>1 DEF DraftInv, TypeOK
  <2>3. ASSUME NEW v \in Publishers, NEW e \in batch'[v] \ todo'[v]
        PROVE  IF e \in fresh' THEN Sent(e)' ELSE Failed(e)'
        BY <1>1, <2>1 DEF DraftInv, Sent, Failed
  <2> QED BY <2>2, <2>3 DEF DraftInv
<1>6. CountInv'
  <2> SUFFICES ASSUME NEW e \in Events
               PROVE  (/\ sent[e] = IF e \in fresh \/ Recorded(e)
                                    THEN wasted[e] + 1 ELSE wasted[e]
                       /\ stage[e] # "committed" => sent[e] = 0 /\ outbox[e] = NewRow)'
      BY DEF CountInv
  <2>1. CASE e \in batch[w]
    <3>1. ~Recorded(e)
          BY <2>1 DEF BatchInv, Recorded
    <3>2. Recorded(e)' <=> e \in fresh
          BY <2>1, Commits, OutboxAssumption DEF Recorded, Sent, Failed, TypeOK, RowType
    <3> QED BY <1>1, <2>1, <3>1, <3>2, Commits DEF CountInv
  <2>2. CASE e \notin batch[w]
    <3>1. outbox'[e] = outbox[e] /\ (e \in fresh' <=> e \in fresh)
          BY <1>1, <2>2
    <3> QED BY <1>1, <3>1 DEF CountInv, Recorded
  <2> QED BY <2>1, <2>2
<1> QED BY <1>2, <1>3, <1>4, <1>5, <1>6

LEMMA StepFault == ASSUME IInv, NEW w \in Publishers, Fault(w) PROVE IInv'
<1> USE DEF IInv
<1>1. /\ batch' = [batch EXCEPT ![w] = {}] /\ todo' = [todo EXCEPT ![w] = {}]
      /\ fresh' = fresh \ batch[w]
      /\ wasted' = [e \in Events |->
                      IF e \in fresh \cap batch[w] THEN wasted[e] + 1 ELSE wasted[e]]
      /\ UNCHANGED <<stage, older, outbox, draft, sent, dead>>
      /\ faults' = faults + 1 /\ faults < MaxFaults
      BY DEF Fault, rows, streams
<1>2. TypeOK'
      BY <1>1, OutboxAssumption DEF TypeOK
<1>3. NoZombieRow' /\ BatchInv'
      BY <1>1 DEF NoZombieRow, BatchInv, TypeOK
<1>4. DraftInv'
  <2>1. ASSUME NEW e \in fresh'
        PROVE  \E v \in Publishers : e \in batch'[v] \ todo'[v]
        BY <1>1 DEF DraftInv, TypeOK
  <2>2. ASSUME NEW v \in Publishers, NEW e \in batch'[v] \ todo'[v]
        PROVE  v # w /\ e \in batch[v] \ todo[v] /\ (e \in fresh' <=> e \in fresh)
        BY <1>1 DEF BatchInv, TypeOK
  <2> QED BY <1>1, <2>1, <2>2 DEF DraftInv, Sent, Failed
<1>5. CountInv'
  <2>1. ASSUME NEW e \in batch[w] PROVE ~Recorded(e)
        BY DEF BatchInv, Recorded
  <2> QED BY <1>1, <2>1 DEF CountInv, Recorded, TypeOK
<1> QED BY <1>2, <1>3, <1>4, <1>5

LEMMA StepIInv == IInv /\ [Next]_outboxVars => IInv'
<1> SUFFICES ASSUME IInv, [Next]_outboxVars PROVE IInv'
    OBVIOUS
<1>1. CASE UNCHANGED outboxVars
      BY <1>1 DEF outboxVars, rows, work, streams, ghosts, IInv, TypeOK, NoZombieRow,
                  BatchInv, DraftInv, CountInv, Sent, Failed, Recorded
<1>2. CASE Next
      BY <1>2, StepProduce, StepPoll, StepPublishRow, StepFailRow, StepCommit, StepFault
         DEF Next, Produce, PublishStep
<1> QED BY <1>1, <1>2

LEMMA Invariance == Spec => []IInv
<1> QED BY InitIInv, StepIInv, PTL DEF Spec

(* Every variable keeps its type, the retry counter its limit.             *)
THEOREM TypeCorrect == Spec => []TypeOK
<1>1. IInv => TypeOK
      BY DEF IInv
<1> QED BY <1>1, Invariance, PTL

(* A row that is unpublished has a retry left.                             *)
THEOREM NoZombieRowCorrect == Spec => []NoZombieRow
<1>1. IInv => NoZombieRow
      BY DEF IInv
<1> QED BY <1>1, Invariance, PTL

(* Copies of an event beyond the first come from failed transactions and   *)
(* lost answers only, however many publishers run at the same time.        *)
THEOREM DuplicatesExplainedCorrect == Spec => []DuplicatesExplained
<1>1. IInv => DuplicatesExplained
      BY DEF IInv, CountInv, DuplicatesExplained, TypeOK
<1> QED BY <1>1, Invariance, PTL

-----------------------------------------------------------------------------
(* Refinement of OutboxPromise.                                            *)

Committed == {e \in Events : stage[e] = "committed"}
Settled   == {e \in Events : outbox[e].published}
Abandoned == {e \in Events : outbox[e].published /\ outbox[e].retries = MaxRetries}

promiseVars == <<Committed, sent, Settled, Abandoned>>

LEMMA SendIsSend ==
    ASSUME IInv, NEW w \in Publishers, NEW e \in Events, e \in todo[w], UNCHANGED rows,
           UNCHANGED sent \/ sent' = [sent EXCEPT ![e] = @ + 1]
    PROVE  Promise!Send(e) \/ UNCHANGED promiseVars
<1>1. e \in Committed \ Settled
      BY Handled DEF Committed, Settled
<1> QED BY <1>1 DEF rows, Promise!Send, promiseVars, Committed, Settled, Abandoned

(* The rows a commit marks, and those among them it gives up.              *)
Marks(w)   == {e \in batch[w] : draft[e].published}
GivesUp(w) == {e \in Marks(w) : draft[e].retries = MaxRetries}

LEMMA CommitIsSettle ==
    ASSUME IInv, NEW w \in Publishers, Commit(w)
    PROVE  Promise!Settle(Marks(w), GivesUp(w)) /\ Marks(w) \in SUBSET Events
<1> USE DEF Marks, GivesUp
<1>1. /\ outbox' = [e \in Events |-> IF e \in batch[w] THEN draft[e] ELSE outbox[e]]
      /\ UNCHANGED <<stage, sent>> /\ batch[w] \subseteq Events
      BY DEF Commit, streams, IInv, TypeOK
<1>2. Marks(w) \subseteq Committed \ Settled
      BY <1>1 DEF IInv, BatchInv, Committed, Settled
<1>3. ASSUME NEW e \in Marks(w) \ GivesUp(w) PROVE sent[e] > 0
  <2>1. e \in fresh
        BY <1>1, Commits DEF Failed
  <2> QED BY <1>1, <2>1 DEF IInv, CountInv, TypeOK
<1>4. Settled' = Settled \cup Marks(w) /\ Abandoned' = Abandoned \cup GivesUp(w)
      BY <1>1 DEF IInv, BatchInv, Settled, Abandoned
<1> QED BY <1>1, <1>2, <1>3, <1>4 DEF Promise!Settle, Committed, Settled, Abandoned

(* The publisher keeps the outbox's promise: nothing is sent before the    *)
(* business transaction committed nor after the row was marked, and a row  *)
(* is marked only if its event was sent or given up.                       *)
THEOREM PromiseKept == Spec => KeepsPromise
<1>1. Init => Promise!Init
      BY DEF Init, NewRow, Promise!Init
<1>2. ASSUME IInv, [Next]_outboxVars
      PROVE  Promise!Next \/ UNCHANGED promiseVars
  <2>1. ASSUME NEW e \in Events, Enqueue(e) PROVE UNCHANGED promiseVars
        BY <1>2, <2>1 DEF Enqueue, streams, promiseVars, Committed, Settled, Abandoned,
                          IInv, TypeOK
  <2>2. ASSUME NEW e \in Events, EndBusinessTx(e)
        PROVE  Promise!Record(e) \/ UNCHANGED promiseVars
    <3>1. /\ stage[e] = "open" /\ UNCHANGED <<outbox, sent>>
          /\ \E outcome \in {"committed", "aborted"} :
               stage' = [stage EXCEPT ![e] = outcome]
          BY <2>2 DEF EndBusinessTx, streams
    <3>2. stage \in [Events -> {"none", "open", "committed", "aborted"}]
          BY <1>2 DEF IInv, TypeOK
    <3>3. CASE stage' = [stage EXCEPT ![e] = "committed"]
          BY <3>1, <3>2, <3>3 DEF Promise!Record
    <3>4. CASE stage' = [stage EXCEPT ![e] = "aborted"]
          BY <3>1, <3>2, <3>4 DEF promiseVars, Committed, Settled, Abandoned
    <3> QED BY <3>1, <3>3, <3>4
  <2>3. ASSUME NEW w \in Publishers, Poll(w) PROVE UNCHANGED promiseVars
        BY <2>3 DEF Poll, rows, streams, promiseVars, Committed, Settled, Abandoned
  <2>4. ASSUME NEW w \in Publishers, NEW e \in Events, PublishRow(w, e) \/ FailRow(w, e)
        PROVE  Promise!Send(e) \/ UNCHANGED promiseVars
        BY <1>2, <2>4, SendIsSend DEF PublishRow, FailRow, NextRow
  <2>5. ASSUME NEW w \in Publishers, Fault(w) PROVE UNCHANGED promiseVars
        BY <2>5 DEF Fault, rows, streams, promiseVars, Committed, Settled, Abandoned
  <2>6. ASSUME NEW w \in Publishers, Commit(w)
        PROVE  \E marks, gives \in SUBSET Events : Promise!Settle(marks, gives)
    <3>1. GivesUp(w) \in SUBSET Events
          BY <1>2, <2>6, CommitIsSettle DEF GivesUp
    <3>2. Promise!Settle(Marks(w), GivesUp(w)) /\ Marks(w) \in SUBSET Events
          BY <1>2, <2>6, CommitIsSettle
    <3> QED BY <3>1, <3>2, ZenonT(60) DEF Promise!Settle
  <2>7. CASE UNCHANGED outboxVars
        BY <2>7 DEF outboxVars, rows, streams, promiseVars, Committed, Settled, Abandoned
  <2> QED BY <1>2, <2>1, <2>2, <2>3, <2>4, <2>5, <2>6, <2>7
          DEF Next, Produce, PublishStep, Promise!Next
<1>3. (Promise!Next \/ UNCHANGED promiseVars) <=> [Promise!Next]_(Promise!vars)
      BY DEF promiseVars, Promise!vars, Committed, Settled, Abandoned
<1>4. IInv /\ [Next]_outboxVars => [Promise!Next]_(Promise!vars)
      BY <1>2, <1>3
<1> QED BY <1>1, <1>4, Invariance, PTL DEF Spec, KeepsPromise, Promise!Spec
=============================================================================
