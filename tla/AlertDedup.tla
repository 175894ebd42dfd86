----------------------------- MODULE AlertDedup -----------------------------
(***************************************************************************)
(* send_with_dedup: a DingTalk alert that is sent once per key and window, *)
(* whichever process sends it, by means of the table alert_dedup.          *)
(*                                                                         *)
(* A call reads the row of its key without a lock.  If the window is open  *)
(* it counts the hit and sends nothing.  If not, it opens a new window,    *)
(* which locks the row, posts the alert and records whether that worked.   *)
(* The transaction ends with the call when the call opened the connection, *)
(* and with the caller's transaction when the caller passed its own.       *)
(*                                                                         *)
(* Times are in minutes from now: left until a window ends, since the last *)
(* time an alert was told.                                                 *)
(***************************************************************************)
EXTENDS Naturals

CONSTANTS
    Keys,      \* dedup keys
    Senders,   \* processes that call send_with_dedup
    Window,    \* suppress_minutes of each key
    Lag,       \* bound: minutes between the clock a call reads and its end
    MaxFaults  \* bound: failed posts, alerts not sent, transactions undone

ASSUME WindowAssumption ==
    /\ Window \in [Keys -> Nat]
    /\ Lag \in Nat
    /\ \A k \in Keys : Window[k] > Lag
    /\ MaxFaults \in Nat

VARIABLES
    row,       \* committed row: minutes left, last_push_ok, and whether the
               \* window was opened by a call that did not have to post
    draft,     \* the row as its lock holder has written it
    held,      \* rows locked by each sender's transaction
    call,      \* the call a sender is in
    since,     \* minutes since a message of the key was told, up to Window
    excused,   \* keys whose window was overwritten or undone
    faults

dedupVars == <<row, draft, held, call, since, excused, faults>>

Idle == [step |-> "idle"]

NoRow == [left |-> 0, ok |-> "null", muted |-> FALSE]

DedupInit ==
    /\ row = [k \in Keys |-> NoRow]
    /\ draft = [k \in Keys |-> NoRow]
    /\ held = [s \in Senders |-> {}]
    /\ call = [s \in Senders |-> Idle]
    /\ since = Window
    /\ excused = {}
    /\ faults = 0

Fault == faults < MaxFaults /\ faults' = faults + 1

Tell(k) == since' = [since EXCEPT ![k] = 0]

-----------------------------------------------------------------------------
(* The row of a key as a sender's own transaction sees it.                 *)
Seen(s, k) == IF k \in held[s] THEN draft[k] ELSE row[k]

Open_RetriesFailed(s, k) == Seen(s, k).left > 0 /\ Seen(s, k).ok # "no"

Open(s, k) == Seen(s, k).left > 0

LockedByOther_Never(s, k) == FALSE

LockedByOther(s, k) == \E z \in Senders \ {s} : k \in held[z]

Lock(s, k, r) ==
    /\ ~LockedByOther(s, k)
    /\ held' = [held EXCEPT ![s] = @ \cup {k}]
    /\ draft' = [draft EXCEPT ![k] = r]

Suppress_Extends(s, k) ==
    /\ call[s] = Idle
    /\ Open(s, k)
    /\ ~LockedByOther(s, k) /\ UNCHANGED <<held, draft>>
    /\ row' = [row EXCEPT ![k].left = Window[k]]
    /\ UNCHANGED <<call, since, excused, faults>>

(* SELECT suppress_until: a hit counts in the row, and the call returns.   *)
(* On a connection of the caller's it leaves the row locked.               *)
Suppress(s, k) ==
    /\ call[s] = Idle
    /\ Open(s, k)
    /\ \/ ~LockedByOther(s, k) /\ UNCHANGED <<held, draft>>
       \/ Lock(s, k, Seen(s, k))
    /\ UNCHANGED <<row, call, since, excused, faults>>

Miss(s, k) ==
    /\ call[s] = Idle
    /\ ~Open(s, k)
    /\ call' = [call EXCEPT ![s] = [step |-> "open", key |-> k, age |-> 0]]
    /\ UNCHANGED <<row, draft, held, since, excused, faults>>

(* INSERT ... ON CONFLICT DO UPDATE waits for the row's lock and then      *)
(* writes, whatever the row has become.  The window starts at the time the *)
(* call read, and last_push_ok keeps its old value for now.                *)
OpenWindow(s) ==
    /\ call[s].step = "open"
    /\ LET k == call[s].key IN
         /\ Lock(s, k, [left |-> Window[k] - call[s].age,
                        ok |-> Seen(s, k).ok, muted |-> FALSE])
         /\ excused' = IF Open(s, k) THEN excused \cup {k} ELSE excused
    /\ call' = [call EXCEPT ![s].step = "post"]
    /\ UNCHANGED <<row, since, faults>>

EndCall(s) == call' = [call EXCEPT ![s] = Idle]

PostSent(s) ==
    /\ call[s].step = "post"
    /\ Tell(call[s].key)
    /\ draft' = [draft EXCEPT ![call[s].key].ok = "yes"]
    /\ EndCall(s)
    /\ UNCHANGED <<row, held, excused, faults>>

PostFailed_Unrecorded(s) ==
    /\ call[s].step = "post"
    /\ Fault
    /\ EndCall(s)
    /\ UNCHANGED <<row, draft, held, since, excused>>

(* Three attempts failed, or the answers were lost: HTTPError, after the   *)
(* failure has been recorded.                                              *)
PostFailed(s) ==
    /\ call[s].step = "post"
    /\ Fault
    /\ \/ Tell(call[s].key)
       \/ UNCHANGED since
    /\ draft' = [draft EXCEPT ![call[s].key].ok = "no"]
    /\ EndCall(s)
    /\ UNCHANGED <<row, held, excused>>

(* Alerts are disabled, or no webhook is configured: the window is taken   *)
(* all the same.                                                           *)
PostSkipped(s) ==
    /\ call[s].step = "post"
    /\ Fault
    /\ draft' = [draft EXCEPT ![call[s].key].muted = TRUE]
    /\ EndCall(s)
    /\ UNCHANGED <<row, held, since, excused>>

(* A caller that passed its connection tells the alert another way before  *)
(* it commits, in the time that calls have.                                *)
TellElsewhere(s, k) ==
    /\ call[s] = Idle
    /\ k \in held[s] /\ draft[k].left + Lag >= Window[k]
    /\ Tell(k)
    /\ UNCHANGED <<row, draft, held, call, excused, faults>>

Unlock(s) ==
    /\ held' = [held EXCEPT ![s] = {}]
    /\ draft' = [k \in Keys |-> IF k \in held[s] THEN NoRow ELSE draft[k]]

Commit(s) ==
    /\ call[s] = Idle
    /\ held[s] # {}
    /\ row' = [k \in Keys |-> IF k \in held[s] THEN draft[k] ELSE row[k]]
    /\ Unlock(s)
    /\ UNCHANGED <<call, since, excused, faults>>

(* The process dies, or the database fails: what was told stays told.      *)
Undo(s) ==
    /\ Fault
    /\ excused' = excused \cup
                    {k \in held[s] : draft[k] # row[k] /\ since[k] < Window[k]}
    /\ Unlock(s)
    /\ EndCall(s)
    /\ UNCHANGED <<row, since>>

Older(r) == [r EXCEPT !.left = IF @ = 0 THEN 0 ELSE @ - 1]

(* Time passes; Lag bounds how long a call may take.                       *)
Minute ==
    /\ \A s \in Senders : call[s] # Idle => call[s].age < Lag
    /\ row' = [k \in Keys |-> Older(row[k])]
    /\ draft' = [k \in Keys |-> Older(draft[k])]
    /\ since' = [k \in Keys |-> IF since[k] < Window[k] THEN since[k] + 1
                                                        ELSE since[k]]
    /\ excused' = {k \in excused : since'[k] < Window[k]}
    /\ call' = [s \in Senders |-> IF call[s] = Idle THEN Idle
                                  ELSE [call[s] EXCEPT !.age = @ + 1]]
    /\ UNCHANGED <<held, faults>>

Post(s) == PostSent(s) \/ PostFailed(s) \/ PostSkipped(s)

DedupNext ==
    \/ Minute
    \/ \E s \in Senders :
         \/ \E k \in Keys : \/ Suppress(s, k) \/ Miss(s, k)
                            \/ TellElsewhere(s, k)
         \/ OpenWindow(s) \/ Post(s) \/ Commit(s) \/ Undo(s)

DedupSpec == DedupInit /\ [][DedupNext]_dedupVars

-----------------------------------------------------------------------------
(* Properties                                                              *)

Rows == [left : Nat, ok : {"null", "yes", "no"}, muted : BOOLEAN]

Calls == {Idle} \cup [step : {"open", "post"}, key : Keys, age : 0..Lag]

(* Types; a row has one lock holder, and a call that posts is that.        *)
DedupTypeOK ==
    /\ row \in [Keys -> Rows] /\ draft \in [Keys -> Rows]
    /\ held \in [Senders -> SUBSET Keys]
    /\ call \in [Senders -> Calls]
    /\ since \in [Keys -> Nat] /\ \A k \in Keys : since[k] <= Window[k]
    /\ excused \subseteq Keys /\ faults \in 0..MaxFaults
    /\ \A s \in Senders :
         /\ call[s] # Idle /\ call[s].step = "post" => call[s].key \in held[s]
         /\ \A z \in Senders \ {s} : held[s] \cap held[z] = {}

(* A call about to post knows that nobody was told in the last Window      *)
(* minutes, less the time a call may take.  The only ways around it: two   *)
(* calls overlapped and the later one overwrote a window it had not seen,  *)
(* or a transaction was undone after its alert was sent.                   *)
NoRepeatInWindow ==
    \A s \in Senders :
        call[s] # Idle /\ call[s].step = "post" =>
            LET k == call[s].key IN
                since[k] + Lag >= Window[k] \/ k \in excused

(* A window that silences a key is backed by a message told in it, by a    *)
(* failure that last_push_ok shows to the meta monitor, or by a process    *)
(* that has no alerts to send.                                             *)
SilenceIsBacked ==
    \A k \in Keys :
        row[k].left > 0 => \/ since[k] + row[k].left <= Window[k]
                           \/ row[k].ok = "no" \/ row[k].muted
=============================================================================
