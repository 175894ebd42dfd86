------------------------------- MODULE Outbox -------------------------------
(***************************************************************************)
(* The transactional outbox: OutboxWriter.enqueue inserts an event row in  *)
(* the caller's business transaction, OutboxPublisher.publish_batch scans  *)
(* the committed rows and appends them to Redis streams.                   *)
(*                                                                         *)
(* A batch is one transaction that holds the row locks of its rows (FOR    *)
(* UPDATE SKIP LOCKED) and commits once, at its end; an append reaches     *)
(* Redis at once and no rollback takes it back.                            *)
(***************************************************************************)
EXTENDS Naturals, FiniteSets

CONSTANTS
    Events,      \* event ids, each enqueued by a transaction of its own
    Publishers,  \* processes that run outbox_publisher_tick
    BatchSize,   \* DEFAULT_BATCH_SIZE
    MaxRetries,  \* DEFAULT_MAX_RETRIES
    MaxFaults    \* bound: publisher transactions that fail

ASSUME OutboxAssumption ==
    /\ BatchSize \in Nat \ {0}
    /\ MaxRetries \in Nat \ {0}
    /\ MaxFaults \in Nat

VARIABLES
    stage,       \* the business transaction of each event
    older,       \* events with a smaller created_at
    outbox,      \* committed columns retries and published_at of each row
    draft,       \* the columns the row's publisher has written
    batch,       \* rows each publisher has locked
    todo,        \* rows of its batch it has not handled
    sent,        \* copies of each event in its stream
    dead,        \* copies of each event in the dead letter stream
    fresh,       \* events sent by a transaction still open
    wasted,      \* copies whose sending left no record in the row
    faults

rows    == <<stage, older, outbox>>
work    == <<batch, todo, draft>>
streams == <<sent, dead>>
ghosts  == <<fresh, wasted>>
outboxVars == <<rows, work, streams, ghosts, faults>>

NewRow == [retries |-> 0, published |-> FALSE]

Init ==
    /\ stage = [e \in Events |-> "none"]
    /\ older = [e \in Events |-> {}]
    /\ outbox = [e \in Events |-> NewRow]
    /\ draft = [e \in Events |-> NewRow]
    /\ batch = [w \in Publishers |-> {}]
    /\ todo = [w \in Publishers |-> {}]
    /\ sent = [e \in Events |-> 0]
    /\ dead = [e \in Events |-> 0]
    /\ fresh = {}
    /\ wasted = [e \in Events |-> 0]
    /\ faults = 0

-----------------------------------------------------------------------------
(* The producer.  created_at defaults to NOW(), the time the transaction   *)
(* began, not the time its row becomes visible.                            *)

Enqueue(e) ==
    /\ stage[e] = "none"
    /\ stage' = [stage EXCEPT ![e] = "open"]
    /\ older' = [older EXCEPT ![e] = {f \in Events : stage[f] # "none"}]
    /\ UNCHANGED <<outbox, work, streams, ghosts, faults>>

EndBusinessTx(e) ==
    /\ stage[e] = "open"
    /\ \E outcome \in {"committed", "aborted"} :
         stage' = [stage EXCEPT ![e] = outcome]
    /\ UNCHANGED <<older, outbox, work, streams, ghosts, faults>>

-----------------------------------------------------------------------------
(* The publisher.                                                          *)

Locked_Never == {}

Locked == UNION {batch[w] : w \in Publishers}

Unpublished_Dirty ==
    {e \in Events : stage[e] \in {"open", "committed"} /\ ~outbox[e].published}
Unpublished_FirstTry ==
    {e \in Events : stage[e] = "committed" /\ outbox[e] = NewRow}

Unpublished == {e \in Events : stage[e] = "committed" /\ ~outbox[e].published}

(* ORDER BY created_at LIMIT n: no row left out is older than one taken.   *)
IsBatch(rowset, found) ==
    /\ rowset \subseteq found
    /\ rowset = found \/ Cardinality(rowset) = BatchSize
    /\ Cardinality(rowset) <= BatchSize
    /\ \A e \in rowset, f \in found \ rowset : f \notin older[e]

(* An empty scan returns at once and changes nothing: it is left out.      *)
Poll(w) ==
    /\ batch[w] = {}
    /\ \E rowset \in SUBSET (Unpublished \ Locked) \ {{}} :
         /\ IsBatch(rowset, Unpublished \ Locked)
         /\ batch' = [batch EXCEPT ![w] = rowset]
         /\ todo' = [todo EXCEPT ![w] = rowset]
    /\ UNCHANGED <<rows, draft, streams, ghosts, faults>>

NextRow(w, e) ==
    /\ e \in todo[w]
    /\ older[e] \cap todo[w] = {}
    /\ todo' = [todo EXCEPT ![w] = @ \ {e}]
    /\ UNCHANGED batch

(* XADD returned a message id.                                             *)
PublishRow(w, e) ==
    /\ NextRow(w, e)
    /\ sent' = [sent EXCEPT ![e] = @ + 1]
    /\ draft' = [draft EXCEPT ![e] =
                   [retries |-> outbox[e].retries, published |-> TRUE]]
    /\ fresh' = fresh \cup {e}
    /\ UNCHANGED <<rows, dead, wasted, faults>>

Exhausted_OneMore(e) == outbox[e].retries + 1 > MaxRetries

Exhausted(e) == outbox[e].retries + 1 >= MaxRetries

(* publish_sync returned None, or raised: the append was refused, or it    *)
(* was made and the answer lost.  The last retry ends in the dead letter   *)
(* stream, whose own failure changes nothing else.                         *)
FailRow(w, e) ==
    /\ NextRow(w, e)
    /\ \/ UNCHANGED <<sent, wasted>>
       \/ /\ sent' = [sent EXCEPT ![e] = @ + 1]
          /\ wasted' = [wasted EXCEPT ![e] = @ + 1]
    /\ draft' = [draft EXCEPT ![e] =
                   [retries |-> outbox[e].retries + 1, published |-> Exhausted(e)]]
    /\ \/ UNCHANGED dead
       \/ Exhausted(e) /\ dead' = [dead EXCEPT ![e] = @ + 1]
    /\ UNCHANGED <<rows, fresh, faults>>

Commit(w) ==
    /\ batch[w] # {} /\ todo[w] = {}
    /\ outbox' = [e \in Events |-> IF e \in batch[w] THEN draft[e] ELSE outbox[e]]
    /\ batch' = [batch EXCEPT ![w] = {}]
    /\ fresh' = fresh \ batch[w]
    /\ UNCHANGED <<stage, older, todo, draft, streams, wasted, faults>>

(* An exception, a lost connection or a dead worker: the transaction is    *)
(* rolled back, its appends stay.                                          *)
Fault(w) ==
    /\ batch[w] # {}
    /\ faults < MaxFaults
    /\ faults' = faults + 1
    /\ batch' = [batch EXCEPT ![w] = {}]
    /\ todo' = [todo EXCEPT ![w] = {}]
    /\ fresh' = fresh \ batch[w]
    /\ wasted' = [e \in Events |->
                    IF e \in fresh \cap batch[w] THEN wasted[e] + 1 ELSE wasted[e]]
    /\ UNCHANGED <<rows, draft, streams>>

-----------------------------------------------------------------------------
Produce == \E e \in Events : Enqueue(e) \/ EndBusinessTx(e)

PublishStep(w) ==
    \/ \E e \in Events : PublishRow(w, e) \/ FailRow(w, e)
    \/ Commit(w)

Next ==
    \/ Produce
    \/ \E w \in Publishers : Poll(w) \/ PublishStep(w) \/ Fault(w)

Spec == Init /\ [][Next]_outboxVars

-----------------------------------------------------------------------------
(* Properties                                                              *)

RowType == [retries : 0..MaxRetries, published : BOOLEAN]

(* Types; retries stays within max_retries.                                *)
TypeOK ==
    /\ stage \in [Events -> {"none", "open", "committed", "aborted"}]
    /\ older \in [Events -> SUBSET Events]
    /\ outbox \in [Events -> RowType] /\ draft \in [Events -> RowType]
    /\ batch \in [Publishers -> SUBSET Events]
    /\ todo \in [Publishers -> SUBSET Events]
    /\ sent \in [Events -> Nat] /\ dead \in [Events -> Nat]
    /\ fresh \in SUBSET Events /\ wasted \in [Events -> Nat]
    /\ faults \in 0..MaxFaults

(* A consumer sees an event twice only if a publisher's transaction was    *)
(* rolled back after the append or Redis' answer was lost: two publishers  *)
(* that run at the same time never both send a row.                        *)
DuplicatesExplained == \A e \in Events : sent[e] <= wasted[e] + 1

(* A row that is still unpublished has a retry left, so the publisher that *)
(* takes it next either records progress or ends it: no zombie rows.       *)
NoZombieRow ==
    \A e \in Events : ~outbox[e].published => outbox[e].retries < MaxRetries

(* The outbox keeps the promise of OutboxPromise: nothing is sent for a    *)
(* business transaction that has not committed, nothing is sent once the   *)
(* row is marked, and a row is marked only if sent or given up.            *)
Promise == INSTANCE OutboxPromise
    WITH committed <- {e \in Events : stage[e] = "committed"},
         copies    <- sent,
         settled   <- {e \in Events : outbox[e].published},
         abandoned <- {e \in Events : outbox[e].published
                                        /\ outbox[e].retries = MaxRetries}
KeepsPromise == Promise!Spec

(* Every committed event is published or given up in the end.              *)
EveryEventSettled ==
    \A e \in Events : stage[e] = "committed" ~> outbox[e].published
=============================================================================
