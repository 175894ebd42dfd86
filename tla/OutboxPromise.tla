---------------------------- MODULE OutboxPromise ----------------------------
(***************************************************************************)
(* What the event outbox promises its producers and consumers: an event is *)
(* sent only after its business transaction committed, it is sent until it *)
(* is settled and never after, and it is settled only if a copy of it was  *)
(* sent or the publisher gave it up.                                       *)
(***************************************************************************)
EXTENDS Naturals

CONSTANT Events

VARIABLES
    committed,   \* events whose business transaction committed
    copies,      \* how often each event was sent
    settled,     \* events the publisher will not look at again
    abandoned    \* the settled events that were given up

vars == <<committed, copies, settled, abandoned>>

Init ==
    /\ committed = {} /\ settled = {} /\ abandoned = {}
    /\ copies = [e \in Events |-> 0]

Record(e) ==
    /\ e \notin committed
    /\ committed' = committed \cup {e}
    /\ UNCHANGED <<copies, settled, abandoned>>

Send(e) ==
    /\ e \in committed \ settled
    /\ copies' = [copies EXCEPT ![e] = @ + 1]
    /\ UNCHANGED <<committed, settled, abandoned>>

(* One commit of a publisher settles a batch.                              *)
Settle(batch, given) ==
    /\ batch \subseteq committed \ settled
    /\ given \subseteq batch
    /\ \A e \in batch \ given : copies[e] > 0
    /\ settled' = settled \cup batch
    /\ abandoned' = abandoned \cup given
    /\ UNCHANGED <<committed, copies>>

Next ==
    \/ \E e \in Events : Record(e) \/ Send(e)
    \/ \E batch, given \in SUBSET Events : Settle(batch, given)

Spec == Init /\ [][Next]_vars
=============================================================================
