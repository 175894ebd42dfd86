--------------------------- MODULE RiskTick_proofs ---------------------------
(***************************************************************************)
(* Proofs about AlertDedup and RiskTick: types, the two promises of the    *)
(* suppression window, that the tasks use the table as AlertDedup says,    *)
(* and that a meta alert never vanishes.                                   *)
(***************************************************************************)
EXTENDS RiskTick, TLAPS

-----------------------------------------------------------------------------
(* AlertDedup                                                              *)

LEMMA DedupTypeInit == DedupInit => DedupTypeOK
  BY WindowAssumption, SMT DEF DedupInit, DedupTypeOK, NoRow, Rows, Calls, Idle

LEMMA IdleHasNoOther ==
  ASSUME NEW c \in Calls
  PROVE  /\ c = Idle <=> c.step = "idle"
         /\ c.step \in {"idle", "open", "post"}
         /\ c # Idle => c.key \in Keys /\ c.age \in 0..Lag
  BY DEF Calls, Idle

(* A sender that locks a row nobody else has locked stays the only one.    *)
LEMMA LockAlone ==
  ASSUME DedupTypeOK, NEW s \in Senders, NEW k \in Keys, NEW r \in Rows,
         Lock(s, k, r)
  PROVE  /\ held' \in [Senders -> SUBSET Keys] /\ draft' \in [Keys -> Rows]
         /\ k \in held'[s]
         /\ \A x \in Senders : held[x] \subseteq held'[x]
         /\ \A x \in Senders : \A z \in Senders \ {x} : held'[x] \cap held'[z] = {}
  <1>1. held' \in [Senders -> SUBSET Keys] /\ draft' \in [Keys -> Rows]
    BY DEF DedupTypeOK, Lock
  <1>2. k \in held'[s] /\ \A x \in Senders : held[x] \subseteq held'[x]
    BY DEF DedupTypeOK, Lock
  <1>3. ASSUME NEW x \in Senders, NEW z \in Senders \ {x}
        PROVE  held'[x] \cap held'[z] = {}
    <2>1. held[x] \cap held[z] = {} BY DEF DedupTypeOK
    <2>2. \A y \in Senders \ {s} : k \notin held[y] BY DEF Lock, LockedByOther
    <2>3. \A y \in Senders \ {s} : held'[y] = held[y] BY DEF DedupTypeOK, Lock
    <2>4. held'[s] = held[s] \cup {k} BY DEF DedupTypeOK, Lock
    <2> QED BY <2>1, <2>2, <2>3, <2>4
  <1> QED BY <1>1, <1>2, <1>3

LEMMA SeenIsARow ==
  ASSUME DedupTypeOK, NEW s \in Senders, NEW k \in Keys
  PROVE  Seen(s, k) \in Rows
  BY DEF DedupTypeOK, Seen

(* Locks only shrink when a transaction ends.                              *)
LEMMA UnlockTypes ==
  ASSUME DedupTypeOK, NEW s \in Senders, Unlock(s)
  PROVE  /\ held' \in [Senders -> SUBSET Keys] /\ draft' \in [Keys -> Rows]
         /\ held'[s] = {}
         /\ \A z \in Senders \ {s} : held'[z] = held[z]
         /\ \A x \in Senders : \A z \in Senders \ {x} : held'[x] \cap held'[z] = {}
  <1>1. NoRow \in Rows BY DEF NoRow, Rows
  <1>2. held' = [held EXCEPT ![s] = {}]
        /\ draft' = [k \in Keys |-> IF k \in held[s] THEN NoRow ELSE draft[k]]
    BY DEF Unlock
  <1> QED BY <1>1, <1>2, SMT DEF DedupTypeOK

LEMMA OlderIsARow ==
  ASSUME NEW r \in Rows
  PROVE  /\ Older(r) \in Rows
         /\ Older(r).left = IF r.left = 0 THEN 0 ELSE r.left - 1
         /\ Older(r).ok = r.ok /\ Older(r).muted = r.muted
  BY DEF Older, Rows

LEMMA DedupTypeStep == DedupTypeOK /\ [DedupNext]_dedupVars => DedupTypeOK'
  <1> SUFFICES ASSUME DedupTypeOK, [DedupNext]_dedupVars PROVE DedupTypeOK' OBVIOUS
  <1> USE WindowAssumption
  <1>1. CASE Minute
    <2>1. row' \in [Keys -> Rows] /\ draft' \in [Keys -> Rows]
      BY <1>1, OlderIsARow DEF Minute, DedupTypeOK
    <2>2. held' = held /\ faults' = faults BY <1>1 DEF Minute
    <2>3. since' \in [Keys -> Nat] /\ \A k \in Keys : since'[k] <= Window[k]
      BY <1>1, SMT DEF Minute, DedupTypeOK
    <2>4. excused' \subseteq Keys BY <1>1 DEF Minute, DedupTypeOK
    <2>5. ASSUME NEW s \in Senders
          PROVE  /\ call'[s] \in Calls
                 /\ call'[s] = Idle <=> call[s] = Idle
                 /\ call[s] # Idle =>
                      call'[s].step = call[s].step /\ call'[s].key = call[s].key
      <3>1. CASE call[s] = Idle
        BY <1>1, <3>1 DEF Minute, DedupTypeOK, Calls
      <3>2. CASE call[s] # Idle
        <4>1. call[s] \in [step : {"open", "post"}, key : Keys, age : 0..Lag]
          BY <3>2 DEF DedupTypeOK, Calls
        <4>2. call[s].age < Lag BY <1>1, <3>2 DEF Minute
        <4>3. call'[s] = [call[s] EXCEPT !.age = @ + 1] BY <1>1, <3>2 DEF Minute
        <4>4. call'[s] \in [step : {"open", "post"}, key : Keys, age : 0..Lag]
              /\ call'[s].step = call[s].step /\ call'[s].key = call[s].key
          BY <4>1, <4>2, <4>3, SMT
        <4>5. call'[s].step # "idle" BY <4>4
        <4>6. call'[s] # Idle BY <4>5 DEF Idle
        <4> QED BY <3>2, <4>4, <4>6 DEF Calls
      <3> QED BY <3>1, <3>2
    <2>6. call' \in [Senders -> Calls] BY <1>1, <2>5 DEF Minute
    <2> QED BY <2>1, <2>2, <2>3, <2>4, <2>5, <2>6 DEF DedupTypeOK
  <1>2. ASSUME NEW s \in Senders, NEW k \in Keys, Suppress(s, k) PROVE DedupTypeOK'
    <2>1. CASE UNCHANGED <<held, draft>>
      BY <1>2, <2>1 DEF Suppress, DedupTypeOK
    <2>2. CASE Lock(s, k, Seen(s, k))
      BY <1>2, <2>2, LockAlone, SeenIsARow DEF Suppress, DedupTypeOK
    <2> QED BY <1>2, <2>1, <2>2 DEF Suppress
  <1>3. ASSUME NEW s \in Senders, NEW k \in Keys, Miss(s, k) PROVE DedupTypeOK'
    <2>1. [step |-> "open", key |-> k, age |-> 0] \in Calls BY SMT DEF Calls
    <2> QED BY <1>3, <2>1 DEF Miss, DedupTypeOK
  <1>4. ASSUME NEW s \in Senders, OpenWindow(s) PROVE DedupTypeOK'
    <2> DEFINE k == call[s].key
               r == [left |-> Window[k] - call[s].age, ok |-> Seen(s, k).ok,
                     muted |-> FALSE]
    <2>1. call[s].step = "open" /\ call[s] # Idle BY <1>4 DEF OpenWindow, Idle
    <2>2. call[s] \in [step : {"open", "post"}, key : Keys, age : 0..Lag]
      BY <2>1 DEF DedupTypeOK, Calls
    <2>3. k \in Keys /\ Seen(s, k) \in Rows BY <2>2, SeenIsARow
    <2>4. r \in Rows BY <2>2, <2>3, SMT DEF Rows
    <2>5. Lock(s, k, r) BY <1>4 DEF OpenWindow
    <2>6. call' = [call EXCEPT ![s].step = "post"] BY <1>4 DEF OpenWindow
    <2>7. call'[s] \in Calls /\ call'[s].key = k
          /\ \A z \in Senders \ {s} : call'[z] = call[z]
      BY <2>2, <2>6 DEF DedupTypeOK, Calls
    <2>8. call' \in [Senders -> Calls] BY <2>6, <2>7 DEF DedupTypeOK
    <2>9. excused' \subseteq Keys BY <1>4, <2>3 DEF OpenWindow, DedupTypeOK
    <2>10. /\ held' \in [Senders -> SUBSET Keys] /\ draft' \in [Keys -> Rows]
           /\ k \in held'[s]
           /\ \A x \in Senders : held[x] \subseteq held'[x]
           /\ \A x \in Senders : \A z \in Senders \ {x} : held'[x] \cap held'[z] = {}
      BY <2>3, <2>4, <2>5, LockAlone
    <2>11. UNCHANGED <<row, since, faults>> BY <1>4 DEF OpenWindow
    <2> HIDE DEF k
    <2> QED BY <2>7, <2>8, <2>9, <2>10, <2>11 DEF DedupTypeOK
  <1>5. ASSUME NEW s \in Senders, Post(s) PROVE DedupTypeOK'
    <2>1. call[s].step = "post" /\ call[s] # Idle
      BY <1>5 DEF Post, PostSent, PostFailed, PostSkipped, Idle
    <2>2. call[s].key \in Keys BY <2>1 DEF DedupTypeOK, Calls
    <2>3. call' = [call EXCEPT ![s] = Idle] /\ UNCHANGED <<row, held, excused>>
      BY <1>5 DEF Post, PostSent, PostFailed, PostSkipped, EndCall
    <2>4. since' \in [Keys -> Nat] /\ \A k \in Keys : since'[k] <= Window[k]
      BY <1>5, <2>2, SMT DEF Post, PostSent, PostFailed, PostSkipped, Tell, DedupTypeOK
    <2>5. draft' \in [Keys -> Rows]
      <3>1. ASSUME NEW r \in Rows
            PROVE  /\ [r EXCEPT !.ok = "yes"] \in Rows
                   /\ [r EXCEPT !.ok = "no"] \in Rows
                   /\ [r EXCEPT !.muted = TRUE] \in Rows
        BY DEF Rows
      <3>2. \/ draft' = [draft EXCEPT ![call[s].key] = [@ EXCEPT !.ok = "yes"]]
            \/ draft' = [draft EXCEPT ![call[s].key] = [@ EXCEPT !.ok = "no"]]
            \/ draft' = [draft EXCEPT ![call[s].key] = [@ EXCEPT !.muted = TRUE]]
        BY <1>5 DEF Post, PostSent, PostFailed, PostSkipped
      <3> QED BY <2>2, <3>1, <3>2 DEF DedupTypeOK
    <2>6. faults' \in 0..MaxFaults
      BY <1>5, SMT DEF Post, PostSent, PostFailed, PostSkipped, Fault, DedupTypeOK
    <2>7. Idle \in Calls BY DEF Calls
    <2> QED BY <2>3, <2>4, <2>5, <2>6, <2>7 DEF DedupTypeOK
  <1>6. ASSUME NEW s \in Senders, NEW k \in Keys, TellElsewhere(s, k)
        PROVE  DedupTypeOK'
    <2>1. since' \in [Keys -> Nat] /\ \A x \in Keys : since'[x] <= Window[x]
      BY <1>6, SMT DEF TellElsewhere, Tell, DedupTypeOK
    <2> QED BY <1>6, <2>1 DEF TellElsewhere, DedupTypeOK
  <1>7. ASSUME NEW s \in Senders, Commit(s) PROVE DedupTypeOK'
    <2>1. row' \in [Keys -> Rows] BY <1>7 DEF Commit, DedupTypeOK
    <2>2. call[s] = Idle /\ Unlock(s) /\ UNCHANGED <<call, since, excused, faults>>
      BY <1>7 DEF Commit
    <2> QED BY <2>1, <2>2, UnlockTypes DEF DedupTypeOK
  <1>8. ASSUME NEW s \in Senders, Undo(s) PROVE DedupTypeOK'
    <2>1. Unlock(s) /\ UNCHANGED <<row, since>> /\ call' = [call EXCEPT ![s] = Idle]
      BY <1>8 DEF Undo, EndCall
    <2>2. faults' \in 0..MaxFaults BY <1>8, SMT DEF Undo, Fault, DedupTypeOK
    <2>3. excused' \subseteq Keys BY <1>8 DEF Undo, DedupTypeOK
    <2>4. Idle \in Calls BY DEF Calls
    <2>5. call' \in [Senders -> Calls] BY <2>1, <2>4 DEF DedupTypeOK
    <2>6. /\ held' \in [Senders -> SUBSET Keys] /\ draft' \in [Keys -> Rows]
          /\ held'[s] = {}
          /\ \A z \in Senders \ {s} : held'[z] = held[z]
          /\ \A x \in Senders : \A z \in Senders \ {x} : held'[x] \cap held'[z] = {}
      BY <2>1, UnlockTypes
    <2> QED BY <2>1, <2>2, <2>3, <2>5, <2>6 DEF DedupTypeOK
  <1>9. CASE UNCHANGED dedupVars
    BY <1>9 DEF dedupVars, DedupTypeOK
  <1> QED
    BY <1>1, <1>2, <1>3, <1>4, <1>5, <1>6, <1>7, <1>8, <1>9 DEF DedupNext

(* Types, for every set of keys and senders and every window.              *)
THEOREM DedupTypes == DedupSpec => []DedupTypeOK
  BY DedupTypeInit, DedupTypeStep, PTL DEF DedupSpec

-----------------------------------------------------------------------------
(* The two promises of the window.                                         *)

Posting(s) == call[s] # Idle /\ call[s].step = "post"

Held(k) == \E s \in Senders : k \in held[s]

(* Nobody was told in the last Window minutes, or the window was lost.     *)
Quiet(k) == since[k] + Lag >= Window[k] \/ k \in excused

(* The window a message was told in lasts, up to Lag, as long as it should;*)
(* it is in the draft while the row is locked, else in the row.            *)
Lasts(k, r) == r.left + since[k] + Lag >= Window[k]

Remembered(k) ==
    \/ Quiet(k)
    \/ Held(k) /\ Lasts(k, draft[k])
    \/ ~Held(k) /\ Lasts(k, row[k])

(* What a call that posts knows of its key.                                *)
Due(s) ==
    /\ Quiet(call[s].key)
    /\ draft[call[s].key].left + call[s].age >= Window[call[s].key]

WindowInv ==
    /\ DedupTypeOK
    /\ \A s \in Senders : Posting(s) => Due(s)
    /\ \A k \in Keys : Remembered(k)

(* A window in a row, or in the draft of a call that has posted, is backed.*)
Backed(k, r) ==
    r.left > 0 => \/ since[k] + r.left <= Window[k]
                  \/ r.ok = "no" \/ r.muted

SilenceInv ==
    /\ DedupTypeOK
    /\ \A k \in Keys : row[k].left <= Window[k] /\ draft[k].left <= Window[k]
    /\ \A k \in Keys : Backed(k, row[k])
    /\ \A s \in Senders : \A k \in held[s] :
         (Posting(s) /\ call[s].key = k) \/ Backed(k, draft[k])

(* What a key is, unless a step is about it.                               *)
LEMMA PostingHolds ==
  ASSUME DedupTypeOK, NEW s \in Senders, Posting(s)
  PROVE  /\ call[s].key \in Keys /\ call[s].key \in held[s]
         /\ call[s].age \in 0..Lag
         /\ call[s] \in [step : {"open", "post"}, key : Keys, age : 0..Lag]
  BY DEF Posting, DedupTypeOK, Calls

LEMMA OneHolder ==
  ASSUME DedupTypeOK, NEW s \in Senders, NEW z \in Senders, NEW k,
         k \in held[s], k \in held[z]
  PROVE  s = z
  BY DEF DedupTypeOK

LEMMA WindowInit == DedupInit => WindowInv
  <1> SUFFICES ASSUME DedupInit PROVE WindowInv OBVIOUS
  <1>1. DedupTypeOK BY DedupTypeInit
  <1>2. \A s \in Senders : ~Posting(s) BY DEF DedupInit, Posting
  <1>3. ASSUME NEW k \in Keys PROVE Quiet(k)
    <2>1. since[k] = Window[k] BY DEF DedupInit
    <2>2. Window[k] \in Nat /\ Lag \in Nat BY WindowAssumption
    <2> QED BY <2>1, <2>2 DEF Quiet
  <1> QED BY <1>1, <1>2, <1>3 DEF WindowInv, Remembered

(* A minute later: what was quiet is quiet, what lasts lasts.              *)
LEMMA MinuteLater ==
  ASSUME DedupTypeOK, Minute, NEW k \in Keys
  PROVE  /\ since'[k] \in Nat /\ since'[k] <= Window[k]
         /\ since[k] <= since'[k] /\ since'[k] <= since[k] + 1
         /\ Quiet(k) => Quiet(k)'
         /\ since[k] < Window[k] => since'[k] = since[k] + 1
         /\ since[k] = Window[k] => Quiet(k)'
         /\ row'[k] = Older(row[k]) /\ draft'[k] = Older(draft[k])
         /\ row[k] \in Rows /\ draft[k] \in Rows
  <1> USE WindowAssumption
  <1>1. since[k] \in Nat /\ since[k] <= Window[k] /\ Window[k] \in Nat
        /\ row[k] \in Rows /\ draft[k] \in Rows
    BY DEF DedupTypeOK
  <1>2. since'[k] = IF since[k] < Window[k] THEN since[k] + 1 ELSE since[k]
    BY DEF Minute
  <1>3. k \in excused => k \in excused' \/ since'[k] >= Window[k]
    BY <1>1, <1>2, SMT DEF Minute
  <1>4. row'[k] = Older(row[k]) /\ draft'[k] = Older(draft[k]) BY DEF Minute
  <1>5. Quiet(k) => Quiet(k)' BY <1>1, <1>2, <1>3, SMT DEF Quiet
  <1>6. since[k] = Window[k] => Quiet(k)' BY <1>1, <1>2, SMT DEF Quiet
  <1> QED BY <1>1, <1>2, <1>4, <1>5, <1>6, SMT

LEMMA MinuteCalls ==
  ASSUME DedupTypeOK, Minute, NEW s \in Senders
  PROVE  /\ held'[s] = held[s]
         /\ Posting(s)' => /\ Posting(s) /\ call'[s].key = call[s].key
                           /\ call'[s].age = call[s].age + 1
         /\ Posting(s) => Posting(s)' /\ call'[s].key = call[s].key
  <1>1. CASE call[s] = Idle
    BY <1>1 DEF Minute, Posting, DedupTypeOK
  <1>2. CASE call[s] # Idle
    <2>1. call[s] \in [step : {"open", "post"}, key : Keys, age : 0..Lag]
      BY <1>2 DEF DedupTypeOK, Calls
    <2>2. call'[s] = [call[s] EXCEPT !.age = @ + 1]
      BY <1>2 DEF Minute
    <2>3. call'[s].step = call[s].step /\ call'[s].key = call[s].key
          /\ call'[s].age = call[s].age + 1
      BY <2>1, <2>2, WindowAssumption
    <2>4. call'[s] # Idle BY <2>1, <2>3 DEF Idle
    <2> QED BY <1>2, <2>3, <2>4 DEF Minute, Posting
  <1> QED BY <1>1, <1>2

LEMMA WindowStep == WindowInv /\ [DedupNext]_dedupVars => WindowInv'
  <1> SUFFICES ASSUME WindowInv, [DedupNext]_dedupVars PROVE WindowInv' OBVIOUS
  <1> USE WindowAssumption
  <1>t. DedupTypeOK /\ DedupTypeOK' BY DedupTypeStep DEF WindowInv
  <1>n. \A k \in Keys : /\ since[k] \in Nat /\ since'[k] \in Nat
                        /\ Window[k] \in Nat /\ Window[k] > Lag /\ Lag \in Nat
                        /\ row[k].left \in Nat /\ draft[k].left \in Nat
                        /\ row'[k].left \in Nat /\ draft'[k].left \in Nat
    BY <1>t DEF DedupTypeOK, Rows
  <1>q. ASSUME UNCHANGED <<since, excused>>
        PROVE  \A k \in Keys : Quiet(k) => Quiet(k)'
    BY <1>q DEF Quiet
  (* Enough about the keys, when time stands still: whoever posts was      *)
  (* posting, nobody is told, and windows are where they were.             *)
  <1>1. CASE Minute
    <2>1. ASSUME NEW s \in Senders, Posting(s)' PROVE Due(s)'
      <3>0. PICK k : k = call[s].key OBVIOUS
      <3>1. Posting(s) /\ call'[s].key = k /\ call'[s].age = call[s].age + 1
        BY <1>1, <1>t, <2>1, <3>0, MinuteCalls
      <3>2. k \in Keys /\ call[s].age \in 0..Lag
        BY <1>t, <3>0, <3>1, PostingHolds
      <3>3. Quiet(k) /\ draft[k].left + call[s].age >= Window[k]
        BY <3>0, <3>1 DEF WindowInv, Due, Quiet
      <3>4. Quiet(k)' /\ draft'[k] = Older(draft[k]) /\ draft[k] \in Rows
        BY <1>1, <1>t, <3>2, <3>3, MinuteLater
      <3>5. draft'[k].left >= draft[k].left - 1
        BY <1>n, <3>2, <3>4, OlderIsARow, SMT
      <3>6. draft'[k].left + (call[s].age + 1) >= Window[k]
        BY <1>n, <3>2, <3>3, <3>5, SMT
      <3> QED BY <3>1, <3>4, <3>6 DEF Due, Quiet
    <2>2. ASSUME NEW k \in Keys PROVE Remembered(k)'
      <3>1. CASE Quiet(k) BY <1>1, <1>t, <3>1, MinuteLater DEF Remembered
      <3>2. CASE since[k] = Window[k]
        BY <1>1, <1>t, <3>2, MinuteLater DEF Remembered
      <3>3. CASE ~Quiet(k) /\ since[k] # Window[k]
        <4>0. since[k] <= Window[k] /\ since[k] # Window[k]
              /\ since[k] \in Nat /\ Window[k] \in Nat
          BY <1>t, <3>3 DEF DedupTypeOK
        <4>1. since'[k] = since[k] + 1
          <5>1. since[k] < Window[k] BY <4>0
          <5> QED BY <1>1, <1>t, <5>1, MinuteLater
        <4>2. ASSUME NEW r \in Rows, Lasts(k, r)
              PROVE  Older(r).left + since'[k] + Lag >= Window[k]
          BY <1>n, <4>1, <4>2, OlderIsARow, SMT DEF Lasts, Rows
        <4>3. Held(k)' <=> Held(k) BY <1>1 DEF Minute, Held
        <4>4. row'[k] = Older(row[k]) /\ draft'[k] = Older(draft[k])
              /\ row[k] \in Rows /\ draft[k] \in Rows
          BY <1>1, <1>t, MinuteLater
        <4>5. Remembered(k) BY DEF WindowInv
        <4> QED BY <3>3, <4>2, <4>3, <4>4, <4>5 DEF Remembered, Lasts
      <3> QED BY <3>1, <3>2, <3>3
    <2> QED BY <1>t, <2>1, <2>2 DEF WindowInv
  <1>2. ASSUME NEW s \in Senders, NEW k \in Keys, Suppress(s, k) PROVE WindowInv'
    <2>1. call[s] = Idle /\ UNCHANGED <<row, call, since, excused, faults>>
      BY <1>2 DEF Suppress
    <2>2. CASE UNCHANGED <<held, draft>>
      <3>1. UNCHANGED dedupVars BY <2>1, <2>2 DEF dedupVars
      <3> QED BY <3>1 DEF dedupVars, WindowInv, DedupTypeOK, Posting, Due,
                          Quiet, Remembered, Held, Lasts
    <2>3. CASE Lock(s, k, Seen(s, k))
      <3>1. draft' = [draft EXCEPT ![k] = Seen(s, k)]
            /\ held' = [held EXCEPT ![s] = @ \cup {k}]
            /\ \A z \in Senders \ {s} : k \notin held[z]
        BY <2>3 DEF Lock, LockedByOther
      <3>2. draft'[k] = IF Held(k) THEN draft[k] ELSE row[k]
        BY <3>1, <1>t DEF Seen, Held, DedupTypeOK
      <3>3. Held(k)' BY <3>1, <1>t DEF Held, DedupTypeOK
      <3>4. \A x \in Keys \ {k} : draft'[x] = draft[x] /\ (Held(x)' <=> Held(x))
        BY <3>1, <1>t DEF Held, DedupTypeOK
      <3>5. \A x \in Keys : Remembered(x)'
        BY <2>1, <3>2, <3>3, <3>4, <1>q DEF WindowInv, Remembered, Lasts
      <3>6. ASSUME NEW z \in Senders, Posting(z)'
            PROVE  /\ Posting(z) /\ call'[z].key # k
                   /\ call'[z].key = call[z].key /\ call[z].key \in Keys
        <4>1. Posting(z) /\ z # s BY <2>1, <3>6 DEF Posting
        <4> QED BY <1>t, <2>1, <3>1, <4>1, PostingHolds
      <3> QED BY <1>t, <1>q, <2>1, <3>4, <3>5, <3>6 DEF WindowInv, Due, Quiet
    <2> QED BY <1>2, <2>2, <2>3 DEF Suppress
  <1>3. ASSUME NEW s \in Senders, NEW k \in Keys, Miss(s, k) PROVE WindowInv'
    <2>1. call' = [call EXCEPT ![s] = [step |-> "open", key |-> k, age |-> 0]]
          /\ UNCHANGED <<row, draft, held, since, excused, faults>>
      BY <1>3 DEF Miss
    <2>2. \A z \in Senders : Posting(z)' => Posting(z) /\ call'[z] = call[z]
      BY <2>1, <1>t DEF Posting, DedupTypeOK
    <2> QED BY <1>t, <1>q, <2>1, <2>2, PostingHolds
            DEF WindowInv, Due, Quiet, Remembered, Held, Lasts
  <1>4. ASSUME NEW s \in Senders, OpenWindow(s) PROVE WindowInv'
    <2>0. PICK k : k = call[s].key OBVIOUS
    <2>1. call[s].step = "open" /\ call[s] # Idle BY <1>4 DEF OpenWindow, Idle
    <2>2. call[s] \in [step : {"open", "post"}, key : Keys, age : 0..Lag]
      BY <2>1, <1>t DEF DedupTypeOK, Calls
    <2>3. k \in Keys /\ call[s].age \in 0..Lag BY <2>0, <2>2
    <2>4. /\ \A z \in Senders \ {s} : k \notin held[z]
          /\ held' = [held EXCEPT ![s] = @ \cup {k}]
          /\ draft' = [draft EXCEPT ![k] = [left |-> Window[k] - call[s].age,
                                           ok |-> Seen(s, k).ok, muted |-> FALSE]]
          /\ excused' = IF Open(s, k) THEN excused \cup {k} ELSE excused
          /\ call' = [call EXCEPT ![s].step = "post"]
          /\ UNCHANGED <<row, since, faults>>
      BY <1>4, <2>0 DEF OpenWindow, Lock, LockedByOther
    <2>5. Quiet(k)'
      <3>1. CASE Open(s, k) BY <2>4, <3>1 DEF Quiet
      <3>2. CASE ~Open(s, k)
        <4>1. Seen(s, k).left = 0
          BY <1>n, <2>3, <3>2, SMT DEF Open, Seen
        <4>2. Held(k) <=> k \in held[s] BY <2>4 DEF Held
        <4>3. Lasts(k, Seen(s, k)) \/ Quiet(k)
          BY <2>3, <4>2 DEF WindowInv, Remembered, Seen
        <4>4. since[k] + Lag >= Window[k] \/ k \in excused
          BY <1>n, <2>3, <4>1, <4>3, SMT DEF Lasts, Quiet
        <4> QED BY <2>4, <4>4 DEF Quiet
      <3> QED BY <3>1, <3>2
    <2>6. \A x \in Keys : Quiet(x) => Quiet(x)' BY <2>4 DEF Quiet
    <2>7. \A x \in Keys \ {k} : draft'[x] = draft[x] /\ (Held(x)' <=> Held(x))
      BY <2>4, <1>t DEF Held, DedupTypeOK
    <2>8. \A x \in Keys : Remembered(x)'
      BY <2>4, <2>5, <2>6, <2>7 DEF WindowInv, Remembered, Lasts
    <2>9. ASSUME NEW z \in Senders, Posting(z)' PROVE Due(z)'
      <3>1. CASE z = s
        <4>1. call'[s].key = k /\ call'[s].age = call[s].age
          BY <2>0, <2>2, <2>4, <1>t DEF DedupTypeOK
        <4>2. draft'[k].left = Window[k] - call[s].age
          BY <2>3, <2>4, <1>t DEF DedupTypeOK
        <4>3. draft'[k].left + call[s].age >= Window[k]
          BY <1>n, <2>3, <4>2, SMT
        <4> QED BY <2>5, <3>1, <4>1, <4>3 DEF Due, Quiet
      <3>2. CASE z # s
        <4>1. call'[z] = call[z] /\ Posting(z)
          BY <2>4, <2>9, <3>2, <1>t DEF Posting, DedupTypeOK
        <4>2. call[z].key \in Keys \ {k} BY <2>4, <3>2, <4>1, <1>t, PostingHolds
        <4>3. Due(z) BY <4>1 DEF WindowInv
        <4>4. draft'[call[z].key] = draft[call[z].key] BY <2>7, <4>2
        <4> QED BY <2>6, <4>1, <4>2, <4>3, <4>4 DEF Due, Quiet
      <3> QED BY <3>1, <3>2
    <2> QED BY <1>t, <2>8, <2>9 DEF WindowInv
  <1>5. ASSUME NEW s \in Senders, Post(s) PROVE WindowInv'
    <2>0. PICK k : k = call[s].key OBVIOUS
    <2>1. Posting(s) BY <1>5 DEF Post, PostSent, PostFailed, PostSkipped, Posting, Idle
    <2>2. k \in Keys /\ k \in held[s] /\ call[s].age \in 0..Lag
      BY <2>0, <2>1, <1>t, PostingHolds
    <2>3. call' = [call EXCEPT ![s] = Idle] /\ UNCHANGED <<row, held, excused>>
      BY <1>5 DEF Post, PostSent, PostFailed, PostSkipped, EndCall
    <2>4. \A x \in Keys \ {k} : since'[x] = since[x] /\ draft'[x] = draft[x]
      BY <1>5, <2>0, <1>t DEF Post, PostSent, PostFailed, PostSkipped, Tell,
                              DedupTypeOK
    <2>5. /\ draft'[k].left = draft[k].left
          /\ since'[k] = since[k] \/ since'[k] = 0
      BY <1>5, <2>0, <2>2, <1>t DEF Post, PostSent, PostFailed, PostSkipped, Tell,
                              DedupTypeOK, Rows
    <2>6. draft[k].left + call[s].age >= Window[k]
      BY <2>0, <2>1 DEF WindowInv, Due
    <2>7. Lasts(k, draft[k])'
      BY <1>n, <2>2, <2>5, <2>6, SMT DEF Lasts
    <2>8. Held(k)' BY <2>2, <2>3 DEF Held
    <2>9. ASSUME NEW x \in Keys PROVE Remembered(x)'
      <3>1. CASE x = k BY <2>7, <2>8, <3>1 DEF Remembered
      <3>2. CASE x # k
        BY <2>3, <2>4, <3>2 DEF WindowInv, Remembered, Quiet, Held, Lasts
      <3> QED BY <3>1, <3>2
    <2>10. ASSUME NEW z \in Senders, Posting(z)' PROVE Due(z)'
      <3>1. z # s /\ call'[z] = call[z] /\ Posting(z)
        BY <2>3, <2>10, <1>t DEF Posting, DedupTypeOK
      <3>2. call[z].key \in Keys \ {k}
        BY <2>2, <3>1, <1>t, PostingHolds, OneHolder
      <3> QED BY <2>3, <2>4, <3>1, <3>2 DEF WindowInv, Due, Quiet
    <2> QED BY <1>t, <2>9, <2>10 DEF WindowInv
  <1>6. ASSUME NEW s \in Senders, NEW k \in Keys, TellElsewhere(s, k)
        PROVE  WindowInv'
    <2>1. call[s] = Idle /\ k \in held[s] /\ draft[k].left + Lag >= Window[k]
          /\ since' = [since EXCEPT ![k] = 0]
          /\ UNCHANGED <<row, draft, held, call, excused, faults>>
      BY <1>6 DEF TellElsewhere, Tell
    <2>2. since'[k] = 0 /\ \A x \in Keys \ {k} : since'[x] = since[x]
      BY <2>1, <1>t DEF DedupTypeOK
    <2>3. Lasts(k, draft[k])' /\ Held(k)'
      BY <1>n, <2>1, <2>2, SMT DEF Lasts, Held
    <2>4. ASSUME NEW x \in Keys PROVE Remembered(x)'
      <3>1. CASE x = k BY <2>3, <3>1 DEF Remembered
      <3>2. CASE x # k
        BY <2>1, <2>2, <3>2 DEF WindowInv, Remembered, Quiet, Held, Lasts
      <3> QED BY <3>1, <3>2
    <2>5. ASSUME NEW z \in Senders, Posting(z)'
          PROVE  Posting(z) /\ call'[z] = call[z] /\ call[z].key \in Keys \ {k}
      <3>1. Posting(z) /\ call'[z] = call[z] /\ z # s
        BY <2>1, <2>5 DEF Posting
      <3> QED BY <2>1, <3>1, <1>t, PostingHolds, OneHolder
    <2> QED BY <1>t, <2>1, <2>2, <2>4, <2>5 DEF WindowInv, Due, Quiet
  <1>7. ASSUME NEW s \in Senders, Commit(s) PROVE WindowInv'
    <2>1. /\ call[s] = Idle
          /\ row' = [k \in Keys |-> IF k \in held[s] THEN draft[k] ELSE row[k]]
          /\ Unlock(s)
          /\ UNCHANGED <<call, since, excused, faults>>
      BY <1>7 DEF Commit
    <2>2. held'[s] = {} /\ \A z \in Senders \ {s} : held'[z] = held[z]
      BY <2>1, <1>t, UnlockTypes
    <2>3. \A x \in Keys : x \notin held[s] => draft'[x] = draft[x]
      BY <2>1 DEF Unlock
    <2>4. ASSUME NEW x \in Keys PROVE Remembered(x)'
      <3>1. CASE x \in held[s]
        <4>1. Held(x) /\ row'[x] = draft[x] BY <2>1, <3>1 DEF Held
        <4>2. ~Held(x)' BY <2>2, <3>1, <1>t, OneHolder DEF Held
        <4> QED BY <2>1, <4>1, <4>2, <1>q DEF WindowInv, Remembered, Lasts
      <3>2. CASE x \notin held[s]
        <4>1. Held(x)' <=> Held(x) BY <2>2, <3>2 DEF Held
        <4> QED BY <2>1, <2>3, <3>2, <4>1, <1>q DEF WindowInv, Remembered, Lasts
      <3> QED BY <3>1, <3>2
    <2>5. ASSUME NEW z \in Senders, Posting(z)'
          PROVE  /\ Posting(z) /\ call'[z] = call[z] /\ call[z].key \in Keys
                 /\ draft'[call[z].key] = draft[call[z].key]
      <3>1. Posting(z) /\ call'[z] = call[z] /\ z # s
        BY <2>1, <2>5 DEF Posting
      <3>2. call[z].key \in Keys /\ call[z].key \notin held[s]
        BY <3>1, <1>t, PostingHolds, OneHolder
      <3> QED BY <2>3, <3>1, <3>2
    <2> QED BY <1>t, <1>q, <2>1, <2>4, <2>5 DEF WindowInv, Due, Quiet
  <1>8. ASSUME NEW s \in Senders, Undo(s) PROVE WindowInv'
    <2>1. /\ Unlock(s) /\ call' = [call EXCEPT ![s] = Idle]
          /\ excused' = excused \cup
                {k \in held[s] : draft[k] # row[k] /\ since[k] < Window[k]}
          /\ UNCHANGED <<row, since>>
      BY <1>8 DEF Undo, EndCall
    <2>2. held'[s] = {} /\ \A z \in Senders \ {s} : held'[z] = held[z]
      BY <2>1, <1>t, UnlockTypes
    <2>3. \A x \in Keys : x \notin held[s] => draft'[x] = draft[x]
      BY <2>1 DEF Unlock
    <2>4. \A x \in Keys : Quiet(x) => Quiet(x)' BY <2>1 DEF Quiet
    <2>5. ASSUME NEW x \in Keys PROVE Remembered(x)'
      <3>1. CASE x \in held[s]
        <4>1. Held(x) BY <3>1 DEF Held
        <4>2. ~Held(x)' BY <2>2, <3>1, <1>t, OneHolder DEF Held
        <4>3. CASE draft[x] = row[x]
          BY <2>1, <2>4, <4>1, <4>2, <4>3 DEF WindowInv, Remembered, Lasts
        <4>4. CASE draft[x] # row[x]
          <5>1. x \in excused' \/ since[x] + Lag >= Window[x]
            BY <1>n, <2>1, <3>1, <4>4, SMT
          <5> QED BY <2>1, <5>1 DEF Remembered, Quiet
        <4> QED BY <4>3, <4>4
      <3>2. CASE x \notin held[s]
        <4>1. Held(x)' <=> Held(x) BY <2>2, <3>2 DEF Held
        <4> QED BY <2>1, <2>3, <2>4, <3>2, <4>1 DEF WindowInv, Remembered, Lasts
      <3> QED BY <3>1, <3>2
    <2>6. ASSUME NEW z \in Senders, Posting(z)'
          PROVE  /\ Posting(z) /\ call'[z] = call[z] /\ call[z].key \in Keys
                 /\ draft'[call[z].key] = draft[call[z].key]
      <3>1. Posting(z) /\ call'[z] = call[z] /\ z # s
        BY <2>1, <2>6, <1>t DEF Posting, DedupTypeOK
      <3>2. call[z].key \in Keys /\ call[z].key \notin held[s]
        BY <3>1, <1>t, PostingHolds, OneHolder
      <3> QED BY <2>3, <3>1, <3>2
    <2> QED BY <1>t, <2>4, <2>5, <2>6 DEF WindowInv, Due, Quiet
  <1>9. CASE UNCHANGED dedupVars
    BY <1>9 DEF dedupVars, WindowInv, DedupTypeOK, Posting, Due, Quiet, Remembered,
                Held, Lasts
  <1> QED
    BY <1>1, <1>2, <1>3, <1>4, <1>5, <1>6, <1>7, <1>8, <1>9 DEF DedupNext

(* No message is repeated within its window, but for the ways named.       *)
THEOREM NoRepeat == DedupSpec => []NoRepeatInWindow
  <1>1. WindowInv => NoRepeatInWindow
    BY DEF WindowInv, NoRepeatInWindow, Posting, Due, Quiet
  <1> QED BY WindowInit, WindowStep, <1>1, PTL DEF DedupSpec

-----------------------------------------------------------------------------
LEMMA SilenceInit == DedupInit => SilenceInv
  <1> SUFFICES ASSUME DedupInit PROVE SilenceInv OBVIOUS
  <1>1. DedupTypeOK BY DedupTypeInit
  <1>2. \A s \in Senders : held[s] = {} BY DEF DedupInit
  <1>3. \A k \in Keys : row[k].left = 0 /\ draft[k].left = 0
    BY DEF DedupInit, NoRow
  <1>4. \A k \in Keys : Window[k] \in Nat BY WindowAssumption
  <1> QED BY <1>1, <1>2, <1>3, <1>4 DEF SilenceInv, Backed

(* A backed window is backed a minute later.                               *)
LEMMA MinuteBacked ==
  ASSUME DedupTypeOK, Minute, NEW k \in Keys, NEW r \in Rows,
         r.left <= Window[k], Backed(k, r)
  PROVE  /\ Older(r).left <= Window[k]
         /\ Older(r).left > 0 => \/ since'[k] + Older(r).left <= Window[k]
                                 \/ Older(r).ok = "no" \/ Older(r).muted
  <1>1. since[k] \in Nat /\ since'[k] \in Nat /\ since'[k] <= since[k] + 1
        /\ Window[k] \in Nat
    BY MinuteLater, WindowAssumption DEF DedupTypeOK
  <1>2. Older(r).ok = r.ok /\ Older(r).muted = r.muted
        /\ Older(r).left = IF r.left = 0 THEN 0 ELSE r.left - 1
    BY OlderIsARow
  <1>3. r.left \in Nat BY DEF Rows
  <1>4. Older(r).left <= Window[k] BY <1>1, <1>2, <1>3
  <1>5. CASE r.ok = "no" \/ r.muted BY <1>2, <1>4, <1>5
  <1>6. CASE ~(r.ok = "no" \/ r.muted)
    <2>1. r.left > 0 => since[k] + r.left <= Window[k] BY <1>6 DEF Backed
    <2>2. Older(r).left > 0 => since'[k] + Older(r).left <= Window[k]
      BY <1>1, <1>2, <1>3, <2>1
    <2> QED BY <1>4, <2>2
  <1> QED BY <1>5, <1>6

LEMMA SilenceStep == SilenceInv /\ [DedupNext]_dedupVars => SilenceInv'
  <1> SUFFICES ASSUME SilenceInv, [DedupNext]_dedupVars PROVE SilenceInv' OBVIOUS
  <1>t. DedupTypeOK /\ DedupTypeOK' BY DedupTypeStep DEF SilenceInv
  <1>w. \A k \in Keys : Window[k] \in Nat /\ Window[k] > Lag /\ Lag \in Nat
    BY WindowAssumption
  <1>r. \A k \in Keys : row[k] \in Rows /\ draft[k] \in Rows /\ since[k] \in Nat
    BY <1>t DEF DedupTypeOK
  <1>1. CASE Minute
    <2>1. ASSUME NEW k \in Keys
          PROVE  /\ row'[k] = Older(row[k]) /\ draft'[k] = Older(draft[k])
                 /\ row[k].left <= Window[k] /\ draft[k].left <= Window[k]
                 /\ Backed(k, row[k])
      BY <1>1, <1>t, MinuteLater DEF SilenceInv
    <2>2. ASSUME NEW k \in Keys
          PROVE  /\ row'[k].left <= Window[k] /\ draft'[k].left <= Window[k]
                 /\ Backed(k, row[k])'
      <3>1. row'[k].left <= Window[k] /\ Backed(k, row[k])'
        BY <1>1, <1>t, <1>r, <2>1, MinuteBacked DEF Backed
      <3>2. draft'[k].left <= Window[k]
        BY <1>w, <1>r, <2>1, OlderIsARow, SMT DEF Rows
      <3> QED BY <3>1, <3>2
    <2>3. ASSUME NEW s \in Senders, NEW k \in held'[s]
          PROVE  (Posting(s) /\ call[s].key = k)' \/ Backed(k, draft[k])'
      <3>1. k \in held[s] /\ k \in Keys
        BY <1>1, <1>t, <2>3, MinuteCalls DEF DedupTypeOK
      <3>2. CASE Posting(s) /\ call[s].key = k
        BY <1>1, <1>t, <3>2, MinuteCalls
      <3>3. CASE Backed(k, draft[k])
        BY <1>1, <1>t, <1>r, <2>1, <3>1, <3>3, MinuteBacked DEF Backed
      <3> QED BY <3>1, <3>2, <3>3 DEF SilenceInv
    <2> QED BY <1>t, <2>2, <2>3 DEF SilenceInv
  <1>2. ASSUME NEW s \in Senders, NEW k \in Keys, Suppress(s, k) PROVE SilenceInv'
    <2>1. call[s] = Idle /\ UNCHANGED <<row, call, since, excused, faults>>
      BY <1>2 DEF Suppress
    <2>2. CASE UNCHANGED <<held, draft>>
      BY <1>t, <2>1, <2>2 DEF SilenceInv, Posting, Backed
    <2>3. CASE Lock(s, k, Seen(s, k))
      <3>1. draft' = [draft EXCEPT ![k] = Seen(s, k)]
            /\ held' = [held EXCEPT ![s] = @ \cup {k}]
        BY <2>3 DEF Lock
      <3>2. draft'[k] = Seen(s, k) /\ \A x \in Keys \ {k} : draft'[x] = draft[x]
        BY <3>1, <1>t DEF DedupTypeOK
      <3>3. Backed(k, Seen(s, k)) /\ Seen(s, k).left <= Window[k]
        BY <2>1, <1>t DEF Seen, SilenceInv, Posting, DedupTypeOK
      <3>4. ASSUME NEW z \in Senders, NEW x \in held'[z]
            PROVE  (Posting(z) /\ call[z].key = x)' \/ Backed(x, draft[x])'
        <4>1. x \in Keys BY <1>t, <3>4 DEF DedupTypeOK
        <4>2. CASE x = k BY <2>1, <3>2, <3>3, <4>2 DEF Backed
        <4>3. CASE x # k
          <5>1. x \in held[z] BY <3>1, <3>4, <4>3, <1>t DEF DedupTypeOK
          <5> QED BY <2>1, <3>2, <4>1, <4>3, <5>1 DEF SilenceInv, Posting, Backed
        <4> QED BY <4>2, <4>3
      <3>5. \A x \in Keys : /\ row'[x].left <= Window[x] /\ draft'[x].left <= Window[x]
                            /\ Backed(x, row[x])'
        BY <2>1, <3>2, <3>3 DEF SilenceInv, Backed
      <3> QED BY <1>t, <3>4, <3>5 DEF SilenceInv
    <2> QED BY <1>2, <2>2, <2>3 DEF Suppress
  <1>3. ASSUME NEW s \in Senders, NEW k \in Keys, Miss(s, k) PROVE SilenceInv'
    <2>1. call[s] = Idle /\ UNCHANGED <<row, draft, held, since>>
          /\ \A z \in Senders \ {s} : call'[z] = call[z]
      BY <1>3, <1>t DEF Miss, DedupTypeOK
    <2> QED BY <1>t, <2>1 DEF SilenceInv, Posting, Backed
  <1>4. ASSUME NEW s \in Senders, OpenWindow(s) PROVE SilenceInv'
    <2>0. PICK k : k = call[s].key OBVIOUS
    <2>1. call[s].step = "open" /\ call[s] # Idle BY <1>4 DEF OpenWindow, Idle
    <2>2. call[s] \in [step : {"open", "post"}, key : Keys, age : 0..Lag]
      BY <2>1, <1>t DEF DedupTypeOK, Calls
    <2>3. k \in Keys /\ call[s].age \in 0..Lag BY <2>0, <2>2
    <2>4. /\ held' = [held EXCEPT ![s] = @ \cup {k}]
          /\ draft' = [draft EXCEPT ![k] = [left |-> Window[k] - call[s].age,
                                           ok |-> Seen(s, k).ok, muted |-> FALSE]]
          /\ call' = [call EXCEPT ![s].step = "post"]
          /\ UNCHANGED <<row, since>>
      BY <1>4, <2>0 DEF OpenWindow, Lock
    <2>5. call'[s].key = k /\ Posting(s)'
      <3>1. call'[s].key = k /\ call'[s].step = "post"
        BY <2>0, <2>2, <2>4, <1>t DEF DedupTypeOK
      <3> QED BY <3>1 DEF Posting, Idle
    <2>6. draft'[k].left <= Window[k]
      <3>1. draft'[k].left = Window[k] - call[s].age
        BY <2>3, <2>4, <1>t DEF DedupTypeOK
      <3> QED BY <1>w, <2>3, <3>1
    <2>7. \A x \in Keys \ {k} : draft'[x] = draft[x]
      BY <2>4, <1>t DEF DedupTypeOK
    <2>8. ASSUME NEW z \in Senders, NEW x \in held'[z]
          PROVE  (Posting(z) /\ call[z].key = x)' \/ Backed(x, draft[x])'
      <3>1. CASE z = s /\ x = k BY <2>5, <3>1
      <3>2. CASE z = s /\ x # k
        <4>1. x \in held[s] /\ x \in Keys BY <2>4, <2>8, <3>2, <1>t DEF DedupTypeOK
        <4>2. ~Posting(s) BY <2>1 DEF Posting
        <4> QED BY <2>4, <2>7, <3>2, <4>1, <4>2 DEF SilenceInv, Backed
      <3>3. CASE z # s
        <4>1. x \in held[z] /\ x \in held'[z] /\ k \in held'[s] /\ x \in Keys
          BY <2>4, <2>8, <3>3, <1>t DEF DedupTypeOK
        <4>2. x # k BY <3>3, <4>1, <1>t DEF DedupTypeOK
        <4>3. call'[z] = call[z] BY <2>4, <3>3, <1>t DEF DedupTypeOK
        <4> QED BY <2>4, <2>7, <4>1, <4>2, <4>3 DEF SilenceInv, Posting, Backed
      <3> QED BY <3>1, <3>2, <3>3
    <2>9. \A x \in Keys : /\ row'[x].left <= Window[x] /\ draft'[x].left <= Window[x]
                          /\ Backed(x, row[x])'
      BY <2>4, <2>6, <2>7 DEF SilenceInv, Backed
    <2> QED BY <1>t, <2>8, <2>9 DEF SilenceInv
  <1>5. ASSUME NEW s \in Senders, Post(s) PROVE SilenceInv'
    <2>0. PICK k : k = call[s].key OBVIOUS
    <2>1. Posting(s)
      BY <1>5 DEF Post, PostSent, PostFailed, PostSkipped, Posting, Idle
    <2>2. k \in Keys /\ k \in held[s] BY <2>0, <2>1, <1>t, PostingHolds
    <2>3. call' = [call EXCEPT ![s] = Idle] /\ UNCHANGED <<row, held>>
      BY <1>5 DEF Post, PostSent, PostFailed, PostSkipped, EndCall
    <2>4. \A x \in Keys \ {k} : since'[x] = since[x] /\ draft'[x] = draft[x]
      BY <1>5, <2>0, <1>t DEF Post, PostSent, PostFailed, PostSkipped, Tell,
                              DedupTypeOK
    <2>5. /\ draft'[k].left = draft[k].left
          /\ since'[k] = since[k] \/ since'[k] = 0
          /\ since'[k] = 0 \/ draft'[k].ok = "no" \/ draft'[k].muted
      BY <1>5, <2>0, <2>2, <1>t DEF Post, PostSent, PostFailed, PostSkipped, Tell,
                                    DedupTypeOK, Rows
    <2>6. draft[k].left <= Window[k] /\ row[k].left <= Window[k]
          /\ draft[k].left \in Nat /\ row[k].left \in Nat
      BY <2>2, <1>r DEF SilenceInv, Rows
    <2>7. Backed(k, draft[k])'
      <3>1. CASE since'[k] = 0 BY <2>5, <2>6, <3>1 DEF Backed
      <3>2. CASE draft'[k].ok = "no" \/ draft'[k].muted BY <3>2 DEF Backed
      <3> QED BY <2>5, <3>1, <3>2
    <2>8. Backed(k, row[k])'
      <3>1. CASE since'[k] = 0 BY <2>3, <2>6, <3>1 DEF Backed
      <3>2. CASE since'[k] = since[k] BY <2>2, <2>3, <3>2 DEF SilenceInv, Backed
      <3> QED BY <2>5, <3>1, <3>2
    <2>9. \A x \in Keys : /\ row'[x].left <= Window[x] /\ draft'[x].left <= Window[x]
                          /\ Backed(x, row[x])'
      <3>1. \A x \in Keys \ {k} : Backed(x, row[x])'
        BY <2>3, <2>4 DEF SilenceInv, Backed
      <3> QED BY <2>3, <2>4, <2>5, <2>6, <2>8, <3>1 DEF SilenceInv
    <2>10. ASSUME NEW z \in Senders, NEW x \in held'[z]
           PROVE  (Posting(z) /\ call[z].key = x)' \/ Backed(x, draft[x])'
      <3>1. CASE x = k BY <2>7, <3>1
      <3>2. CASE x # k
        <4>1. x \in held[z] /\ x \in Keys BY <2>3, <2>10, <1>t DEF DedupTypeOK
        <4>2. CASE z = s
          BY <2>0, <2>4, <3>2, <4>1, <4>2 DEF SilenceInv, Backed
        <4>3. CASE z # s
          <5>1. call'[z] = call[z] BY <2>3, <4>3, <1>t DEF DedupTypeOK
          <5> QED BY <2>4, <3>2, <4>1, <5>1 DEF SilenceInv, Posting, Backed
        <4> QED BY <4>2, <4>3
      <3> QED BY <3>1, <3>2
    <2> QED BY <1>t, <2>9, <2>10 DEF SilenceInv
  <1>6. ASSUME NEW s \in Senders, NEW k \in Keys, TellElsewhere(s, k)
        PROVE  SilenceInv'
    <2>1. since' = [since EXCEPT ![k] = 0]
          /\ UNCHANGED <<row, draft, held, call, excused, faults>>
      BY <1>6 DEF TellElsewhere, Tell
    <2>2. since'[k] = 0 /\ \A x \in Keys \ {k} : since'[x] = since[x]
      BY <2>1, <1>t DEF DedupTypeOK
    <2>3. draft[k].left <= Window[k] /\ row[k].left <= Window[k]
          /\ draft[k].left \in Nat /\ row[k].left \in Nat
      BY <1>r DEF SilenceInv, Rows
    <2>4. Backed(k, row[k])' /\ Backed(k, draft[k])'
      BY <2>1, <2>2, <2>3 DEF Backed
    <2>5. \A x \in Keys : Backed(x, row[x])'
      BY <2>1, <2>2, <2>4 DEF SilenceInv, Backed
    <2>6. ASSUME NEW z \in Senders, NEW x \in held'[z]
          PROVE  (Posting(z) /\ call[z].key = x)' \/ Backed(x, draft[x])'
      <3>1. x \in held[z] /\ x \in Keys BY <2>1, <2>6, <1>t DEF DedupTypeOK
      <3>2. CASE x = k BY <2>4, <3>2
      <3>3. CASE x # k
        BY <2>1, <2>2, <3>1, <3>3 DEF SilenceInv, Posting, Backed
      <3> QED BY <3>2, <3>3
    <2> QED BY <1>t, <2>1, <2>5, <2>6 DEF SilenceInv
  <1>7. ASSUME NEW s \in Senders, Commit(s) \/ Undo(s) PROVE SilenceInv'
    <2>1. Unlock(s) /\ UNCHANGED since BY <1>7 DEF Commit, Undo
    <2>2. held'[s] = {} /\ \A z \in Senders \ {s} : held'[z] = held[z]
      BY <2>1, <1>t, UnlockTypes
    <2>3. \A x \in Keys : draft'[x] = IF x \in held[s] THEN NoRow ELSE draft[x]
      BY <2>1 DEF Unlock
    <2>4. \A z \in Senders \ {s} : call'[z] = call[z]
      BY <1>7, <1>t DEF Commit, Undo, EndCall, DedupTypeOK
    <2>5. ASSUME NEW x \in Keys
          PROVE  row'[x] = row[x] \/ (x \in held[s] /\ row'[x] = draft[x] /\ ~Posting(s))
      <3>1. CASE Commit(s) BY <3>1 DEF Commit, Posting
      <3>2. CASE Undo(s) BY <3>2 DEF Undo
      <3> QED BY <1>7, <3>1, <3>2
    <2>6. ASSUME NEW x \in Keys
          PROVE  /\ row'[x].left <= Window[x] /\ draft'[x].left <= Window[x]
                 /\ Backed(x, row[x])'
      <3>1. draft'[x].left <= Window[x]
        BY <1>w, <2>3 DEF NoRow, SilenceInv
      <3>2. row'[x].left <= Window[x] BY <2>5 DEF SilenceInv
      <3>0. since'[x] = since[x] BY <2>1
      <3>3. CASE row'[x] = row[x]
        <4>1. Backed(x, row[x]) BY DEF SilenceInv
        <4>2. Backed(x, row'[x]) BY <3>3, <4>1
        <4> QED BY <3>0, <3>1, <3>2, <4>2 DEF Backed
      <3>4. CASE x \in held[s] /\ row'[x] = draft[x] /\ ~Posting(s)
        <4>1. Backed(x, draft[x]) BY <3>4 DEF SilenceInv
        <4>2. Backed(x, row'[x]) BY <3>4, <4>1
        <4> QED BY <3>0, <3>1, <3>2, <4>2 DEF Backed
      <3> QED BY <2>5, <3>1, <3>2, <3>3, <3>4
    <2>7. ASSUME NEW z \in Senders, NEW x \in held'[z]
          PROVE  (Posting(z) /\ call[z].key = x)' \/ Backed(x, draft[x])'
      <3>1. z # s /\ x \in held[z] /\ x \in Keys
        BY <2>2, <2>7, <1>t DEF DedupTypeOK
      <3>2. x \notin held[s] BY <3>1, <1>t, OneHolder
      <3> QED BY <2>1, <2>3, <2>4, <3>1, <3>2 DEF SilenceInv, Posting, Backed
    <2> QED BY <1>t, <2>6, <2>7 DEF SilenceInv
  <1>8. CASE UNCHANGED dedupVars
    BY <1>t, <1>8 DEF dedupVars, SilenceInv, Posting, Backed
  <1> QED
    BY <1>1, <1>2, <1>3, <1>4, <1>5, <1>6, <1>7, <1>8 DEF DedupNext

(* A window that silences is backed by a message, a recorded failure, or a *)
(* process that has alerts off.                                            *)
THEOREM Silence == DedupSpec => []SilenceIsBacked
  <1>1. SilenceInv => SilenceIsBacked BY DEF SilenceInv, SilenceIsBacked, Backed
  <1> QED BY SilenceInit, SilenceStep, <1>1, PTL DEF DedupSpec

-----------------------------------------------------------------------------
(* RiskTick                                                                *)

KeysOf(w) == IF phase[w] = "meta" THEN Meta ELSE P0 \cup P1

(* A worker's alerts, locks and call are about keys of its task; it has no *)
(* transaction open outside of them, and it escalates between two calls.   *)
WorkerInv(w) ==
    /\ phase[w] \in {"idle", "plans"} => held[w] = {} /\ call[w] = Idle
    /\ todo[w] \subseteq KeysOf(w)
    /\ held[w] \subseteq KeysOf(w)
    /\ call[w] # Idle => call[w].key \in KeysOf(w)
    /\ escalate[w] # Nobody =>
         /\ phase[w] = "meta" /\ call[w] = Idle
         /\ escalate[w] \in held[w]

TickInv == RiskTypeOK /\ \A w \in Workers : WorkerInv(w)

MetaTold(k, r) ==
    r.left > 0 => since[k] + r.left <= Window[k] \/ r.muted

(* A draft may be in debt while its alert is being sent or escalated.      *)
MetaDraft(w, k) ==
    \/ Posting(w) /\ call[w].key = k
    \/ escalate[w] = k
    \/ MetaTold(k, draft[k])

MetaInv ==
    /\ TickInv
    /\ \A k \in Meta : row[k].left <= Window[k] /\ draft[k].left <= Window[k]
    /\ \A k \in Meta : MetaTold(k, row[k])
    /\ \A w \in Workers : \A k \in Meta \cap held[w] :
         MetaDraft(w, k)

(* What the calls of AlertDedup change, worker by worker.                  *)
LEMMA CallsAreLocal ==
  ASSUME DedupTypeOK, NEW w \in Senders, NEW k \in Keys
  PROVE  /\ Suppress(w, k) =>
              /\ call[w] = Idle /\ call' = call
              /\ held'[w] = held[w] \/ held'[w] = held[w] \cup {k}
              /\ \A x \in Senders \ {w} : held'[x] = held[x]
         /\ Miss(w, k) =>
              /\ call[w] = Idle /\ held' = held
              /\ call'[w] # Idle /\ call'[w].key = k
              /\ \A x \in Senders \ {w} : call'[x] = call[x]
         /\ TellElsewhere(w, k) => call' = call /\ held' = held
  <1>1. ASSUME Suppress(w, k)
        PROVE  /\ call[w] = Idle /\ call' = call
               /\ held'[w] = held[w] \/ held'[w] = held[w] \cup {k}
               /\ \A x \in Senders \ {w} : held'[x] = held[x]
    BY <1>1 DEF Suppress, Lock, DedupTypeOK
  <1>2. ASSUME Miss(w, k)
        PROVE  /\ call[w] = Idle /\ held' = held
               /\ call'[w] # Idle /\ call'[w].key = k
               /\ \A x \in Senders \ {w} : call'[x] = call[x]
    <2>1. call' = [call EXCEPT ![w] = [step |-> "open", key |-> k, age |-> 0]]
      BY <1>2 DEF Miss
    <2>2. call'[w] = [step |-> "open", key |-> k, age |-> 0]
      BY <2>1 DEF DedupTypeOK
    <2>3. call'[w].step = "open" /\ call'[w].key = k BY <2>2
    <2>4. call'[w] # Idle BY <2>3 DEF Idle
    <2> QED BY <1>2, <2>1, <2>3, <2>4 DEF Miss, DedupTypeOK
  <1>3. ASSUME TellElsewhere(w, k) PROVE call' = call /\ held' = held
    BY <1>3 DEF TellElsewhere
  <1> QED BY <1>1, <1>2, <1>3

LEMMA StepsAreLocal ==
  ASSUME DedupTypeOK, NEW w \in Senders
  PROVE  /\ OpenWindow(w) =>
              /\ call[w] # Idle /\ call'[w] # Idle /\ call'[w].key = call[w].key
              /\ held'[w] = held[w] \cup {call[w].key}
              /\ \A x \in Senders \ {w} : call'[x] = call[x] /\ held'[x] = held[x]
         /\ Post(w) =>
              /\ call[w] # Idle /\ call'[w] = Idle /\ held' = held
              /\ call[w].key \in held[w]
              /\ \A x \in Senders \ {w} : call'[x] = call[x]
         /\ Commit(w) \/ Undo(w) =>
              /\ call'[w] = Idle /\ held'[w] = {}
              /\ \A x \in Senders \ {w} : call'[x] = call[x] /\ held'[x] = held[x]
  <1>1. ASSUME OpenWindow(w)
        PROVE  /\ call[w] # Idle /\ call'[w] # Idle /\ call'[w].key = call[w].key
               /\ held'[w] = held[w] \cup {call[w].key}
               /\ \A x \in Senders \ {w} : call'[x] = call[x] /\ held'[x] = held[x]
    <2>1. call[w].step = "open" /\ call[w] # Idle BY <1>1 DEF OpenWindow, Idle
    <2>2. call[w] \in [step : {"open", "post"}, key : Keys, age : 0..Lag]
      BY <2>1 DEF DedupTypeOK, Calls
    <2>3. call' = [call EXCEPT ![w].step = "post"]
          /\ held' = [held EXCEPT ![w] = @ \cup {call[w].key}]
      BY <1>1 DEF OpenWindow, Lock
    <2>4. call'[w].step = "post" /\ call'[w].key = call[w].key
      BY <2>2, <2>3 DEF DedupTypeOK
    <2>5. call'[w] # Idle BY <2>4 DEF Idle
    <2> QED BY <2>1, <2>3, <2>4, <2>5 DEF DedupTypeOK
  <1>2. ASSUME Post(w)
        PROVE  /\ call[w] # Idle /\ call'[w] = Idle /\ held' = held
               /\ call[w].key \in held[w]
               /\ \A x \in Senders \ {w} : call'[x] = call[x]
    <2>1. Posting(w) /\ held' = held /\ call' = [call EXCEPT ![w] = Idle]
      BY <1>2 DEF Post, PostSent, PostFailed, PostSkipped, EndCall, Posting, Idle
    <2> QED BY <2>1, PostingHolds DEF DedupTypeOK, Posting
  <1>3. ASSUME Commit(w) \/ Undo(w)
        PROVE  /\ call'[w] = Idle /\ held'[w] = {}
               /\ \A x \in Senders \ {w} : call'[x] = call[x] /\ held'[x] = held[x]
    <2>1. Unlock(w) BY <1>3 DEF Commit, Undo
    <2>2. held'[w] = {} /\ \A x \in Senders \ {w} : held'[x] = held[x]
      BY <2>1, UnlockTypes
    <2>3. call'[w] = Idle /\ \A x \in Senders \ {w} : call'[x] = call[x]
      BY <1>3 DEF Commit, Undo, EndCall, DedupTypeOK
    <2> QED BY <2>2, <2>3
  <1> QED BY <1>1, <1>2, <1>3

LEMMA KeysOfTasks ==
  P0 \subseteq Keys /\ P1 \subseteq Keys /\ Meta \subseteq Keys /\ Nobody \notin Keys
  BY TickAssumption

(* Every step of the tasks is a step of AlertDedup, or leaves it alone.    *)
LEMMA TaskStepsAreDedup ==
  ASSUME TickInv, [RiskNext]_riskVars
  PROVE  [DedupNext]_dedupVars
  <1> USE DEF Workers
  <1>1. CASE Clock BY <1>1 DEF Clock, DedupNext
  <1>2. CASE UNCHANGED riskVars BY <1>2 DEF riskVars, dedupVars
  <1>3. ASSUME NEW w \in Workers, StartTick(w) \/ StartMeta(w) \/ AlertsDone(w)
                 \/ CommitPlans(w) \/ EndTick(w)
        PROVE  [DedupNext]_dedupVars
    BY <1>3 DEF StartTick, StartMeta, AlertsDone, CommitPlans, EndTick
  <1>4. ASSUME NEW w \in Workers, StartSend(w) PROVE DedupNext
    <2>1. PICK k \in todo[w] : Suppress(w, k) \/ Miss(w, k) BY <1>4 DEF StartSend
    <2>2. k \in Keys BY <2>1 DEF TickInv, RiskTypeOK
    <2> QED BY <2>1, <2>2 DEF DedupNext
  <1>5. ASSUME NEW w \in Workers,
               Write(w) \/ DidSend(w) \/ NotSent(w) \/ EndSend(w) \/ GiveUp(w)
                 \/ TaskEnds(w)
        PROVE  DedupNext
    BY <1>5 DEF Write, DidSend, NotSent, EndSend, GiveUp, TaskEnds, DedupNext, Post
  <1>6. ASSUME NEW w \in Workers, NEW k \in hits[w], PersistPlan(w, k)
        PROVE  [DedupNext]_dedupVars
    BY <1>6 DEF PersistPlan, DedupNext
  <1>7. ASSUME NEW w \in Workers, Escalate(w) PROVE DedupNext
    <2>1. escalate[w] \in Keys
      BY <1>7, KeysOfTasks DEF Escalate, TickInv, RiskTypeOK
    <2> QED BY <1>7, <2>1 DEF Escalate, DedupNext
  <1>8. ASSUME NEW w \in Workers, EndMeta(w) PROVE [DedupNext]_dedupVars
    BY <1>8 DEF EndMeta, DedupNext
  <1> QED
    BY <1>1, <1>2, <1>3, <1>4, <1>5, <1>6, <1>7, <1>8 DEF RiskNext, RunStep

LEMMA TickInit == RiskInit => TickInv
  <1> SUFFICES ASSUME RiskInit PROVE TickInv OBVIOUS
  <1>1. DedupTypeOK BY DedupTypeInit DEF RiskInit
  <1>2. 0 \in 0..(FiveMinutes - 1) BY TickAssumption, SMT
  <1>3. RiskTypeOK BY <1>1, <1>2 DEF RiskInit, RiskTypeOK
  <1>4. ASSUME NEW w \in Workers PROVE WorkerInv(w)
    BY <1>4 DEF RiskInit, DedupInit, WorkerInv, Workers
  <1> QED BY <1>3, <1>4 DEF TickInv

LEMMA OtherWorkers ==
  ASSUME TickInv, NEW x \in Workers,
         call'[x] = call[x], held'[x] = held[x], phase'[x] = phase[x],
         todo'[x] = todo[x], escalate'[x] = escalate[x]
  PROVE  WorkerInv(x)'
  BY DEF TickInv, WorkerInv, KeysOf

(* A task that is over leaves nothing behind but the buffer.               *)
LEMMA ForgetHolds ==
  ASSUME TickInv, NEW w \in Workers, Forget(w)
  PROVE  /\ phase' \in [Workers -> {"idle", "alerts", "plans", "flush", "meta"}]
         /\ boundary' \in [Workers -> BOOLEAN] /\ aborted' \in [Workers -> BOOLEAN]
         /\ todo' \in [Workers -> SUBSET Keys]
         /\ hits' \in [Workers -> SUBSET P0] /\ written' \in [Workers -> SUBSET P0]
         /\ escalate' \in [Workers -> Meta \cup {Nobody}]
         /\ planned' \in [Workers -> SUBSET P0]
         /\ phase'[w] = "idle" /\ todo'[w] = {} /\ escalate'[w] = Nobody
         /\ \A x \in Workers \ {w} : /\ phase'[x] = phase[x] /\ todo'[x] = todo[x]
                                     /\ escalate'[x] = escalate[x]
  <1> USE DEF TickInv, RiskTypeOK, Forget
  <1>1. phase' \in [Workers -> {"idle", "alerts", "plans", "flush", "meta"}]
        /\ phase'[w] = "idle" /\ \A x \in Workers \ {w} : phase'[x] = phase[x]
    BY DEF GoTo
  <1>2. boundary' \in [Workers -> BOOLEAN] /\ aborted' \in [Workers -> BOOLEAN]
    OBVIOUS
  <1>3. todo' \in [Workers -> SUBSET Keys] /\ todo'[w] = {}
        /\ \A x \in Workers \ {w} : todo'[x] = todo[x]
    OBVIOUS
  <1>4. hits' \in [Workers -> SUBSET P0] /\ written' \in [Workers -> SUBSET P0]
        /\ planned' \in [Workers -> SUBSET P0]
    OBVIOUS
  <1>5. escalate' \in [Workers -> Meta \cup {Nobody}] /\ escalate'[w] = Nobody
        /\ \A x \in Workers \ {w} : escalate'[x] = escalate[x]
    OBVIOUS
  <1> QED BY <1>1, <1>2, <1>3, <1>4, <1>5

LEMMA TickStep == TickInv /\ [RiskNext]_riskVars => TickInv'
  <1> SUFFICES ASSUME TickInv, [RiskNext]_riskVars PROVE TickInv' OBVIOUS
  <1> USE DEF Workers
  <1>t. DedupTypeOK BY DEF TickInv, RiskTypeOK
  <1>d. DedupTypeOK' BY <1>t, TaskStepsAreDedup, DedupTypeStep
  <1>1. CASE Clock
    <2>1. minute' \in 0..(FiveMinutes - 1) /\ due' \subseteq {"tick", "meta"}
      BY <1>1, TickAssumption, SMT DEF Clock, TickInv, RiskTypeOK
    <2>2. RiskTypeOK' BY <1>1, <1>d, <2>1 DEF Clock, TickInv, RiskTypeOK
    <2>3. ASSUME NEW w \in Workers PROVE WorkerInv(w)'
      <3>1. held'[w] = held[w] /\ phase'[w] = phase[w] /\ todo'[w] = todo[w]
            /\ escalate'[w] = escalate[w] /\ escalate[w] = Nobody
        BY <1>1 DEF Clock, Minute
      <3>2. CASE call[w] = Idle
        <4>1. call'[w] = Idle BY <1>1, <3>2 DEF Clock, Minute
        <4> QED BY <3>1, <3>2, <4>1, OtherWorkers
      <3>3. CASE call[w] # Idle
        <4>1. call[w] \in [step : {"open", "post"}, key : Keys, age : 0..Lag]
          BY <3>3, <1>t DEF DedupTypeOK, Calls
        <4>2. call'[w] = [call[w] EXCEPT !.age = @ + 1]
          BY <1>1, <3>3 DEF Clock, Minute
        <4>3. call'[w].key = call[w].key BY <4>1, <4>2
        <4> QED BY <3>1, <3>3, <4>3 DEF TickInv, WorkerInv, KeysOf
      <3> QED BY <3>2, <3>3
    <2> QED BY <2>2, <2>3 DEF TickInv
  <1>2. ASSUME NEW w \in Workers, StartTick(w) PROVE TickInv'
    <2>1. PICK fired \in SUBSET P0, slow \in SUBSET P1 :
            /\ todo' = [todo EXCEPT ![w] = fired]
            /\ hits' = [hits EXCEPT ![w] = fired]
            /\ buffer' = [buffer EXCEPT ![w] = IF minute = 0 THEN @ \cup slow ELSE @]
      BY <1>2 DEF StartTick, Found
    <2>2. todo' \in [Workers -> SUBSET Keys] /\ hits' \in [Workers -> SUBSET P0]
          /\ buffer' \in [Workers -> SUBSET P1]
      BY <2>1, KeysOfTasks DEF TickInv, RiskTypeOK
    <2>3. RiskTypeOK'
      BY <1>2, <1>d, <2>2 DEF StartTick, GoTo, TickInv, RiskTypeOK
    <2>4. ASSUME NEW x \in Workers \ {w} PROVE WorkerInv(x)'
      BY <1>2, <2>1, OtherWorkers DEF StartTick, GoTo, dedupVars, TickInv, RiskTypeOK
    <2>5. WorkerInv(w)'
      <3>1. held'[w] = {} /\ call'[w] = Idle /\ escalate'[w] = Nobody
        BY <1>2 DEF StartTick, dedupVars, TickInv, WorkerInv
      <3>2. phase'[w] = "alerts" /\ todo'[w] \subseteq P0
        BY <1>2, <2>1 DEF StartTick, GoTo, TickInv, RiskTypeOK
      <3> QED BY <3>1, <3>2 DEF WorkerInv, KeysOf
    <2> QED BY <2>3, <2>4, <2>5 DEF TickInv
  <1>3. ASSUME NEW w \in Workers, StartMeta(w) PROVE TickInv'
    <2>1. PICK fired \in SUBSET Meta : todo' = [todo EXCEPT ![w] = fired]
      BY <1>3 DEF StartMeta, Found
    <2>2. todo' \in [Workers -> SUBSET Keys]
      BY <2>1, KeysOfTasks DEF TickInv, RiskTypeOK
    <2>3. RiskTypeOK'
      BY <1>3, <1>d, <2>2 DEF StartMeta, GoTo, TickInv, RiskTypeOK
    <2>4. ASSUME NEW x \in Workers \ {w} PROVE WorkerInv(x)'
      BY <1>3, <2>1, OtherWorkers DEF StartMeta, GoTo, dedupVars, TickInv, RiskTypeOK
    <2>5. WorkerInv(w)'
      <3>1. held'[w] = {} /\ call'[w] = Idle /\ escalate'[w] = Nobody
        BY <1>3 DEF StartMeta, dedupVars, TickInv, WorkerInv
      <3>2. phase'[w] = "meta" /\ todo'[w] \subseteq Meta
        BY <1>3, <2>1 DEF StartMeta, GoTo, TickInv, RiskTypeOK
      <3> QED BY <3>1, <3>2 DEF WorkerInv, KeysOf
    <2> QED BY <2>3, <2>4, <2>5 DEF TickInv
  <1>4. ASSUME NEW w \in Workers, StartSend(w) PROVE TickInv'
    <2>1. PICK k \in todo[w] :
            /\ \/ Suppress(w, k) /\ (phase[w] = "meta" <=> k \in held'[w])
               \/ Miss(w, k)
            /\ todo' = [todo EXCEPT ![w] = @ \ {k}]
      BY <1>4 DEF StartSend
    <2>2. k \in Keys /\ k \in KeysOf(w)
      BY <2>1 DEF TickInv, RiskTypeOK, WorkerInv
    <2>3. UNCHANGED <<minute, due, phase, boundary, buffer, hits, written,
                      aborted, escalate, planned>>
          /\ phase[w] \in {"alerts", "flush", "meta"} /\ escalate[w] = Nobody
      BY <1>4 DEF StartSend
    <2>4. RiskTypeOK' BY <1>d, <2>1, <2>3 DEF TickInv, RiskTypeOK
    <2>5. ASSUME NEW x \in Workers \ {w} PROVE WorkerInv(x)'
      <3>1. call'[x] = call[x] /\ held'[x] = held[x]
        BY <1>t, <2>1, <2>2, CallsAreLocal
      <3>2. todo'[x] = todo[x] BY <2>1 DEF TickInv, RiskTypeOK
      <3> QED BY <2>3, <3>1, <3>2, OtherWorkers
    <2>6. WorkerInv(w)'
      <3>1. held'[w] \subseteq KeysOf(w)
        BY <1>t, <2>1, <2>2, CallsAreLocal DEF TickInv, WorkerInv
      <3>2. call'[w] # Idle => call'[w].key = k
        BY <1>t, <2>1, <2>2, CallsAreLocal
      <3>3. todo'[w] \subseteq KeysOf(w)
        BY <2>1 DEF TickInv, RiskTypeOK, WorkerInv
      <3> QED BY <2>2, <2>3, <3>1, <3>2, <3>3 DEF WorkerInv, KeysOf
    <2> QED BY <2>4, <2>5, <2>6 DEF TickInv
  <1>5. ASSUME NEW w \in Workers, Write(w) \/ DidSend(w) \/ EndSend(w)
        PROVE  TickInv'
    <2>1. UNCHANGED tickVars BY <1>5 DEF Write, DidSend, EndSend
    <2>2. OpenWindow(w) \/ Post(w) \/ (Commit(w) /\ phase[w] \in {"alerts", "flush"})
      BY <1>5 DEF Write, DidSend, EndSend, Post
    <2>3. RiskTypeOK' BY <1>d, <2>1 DEF tickVars, TickInv, RiskTypeOK
    <2>4. ASSUME NEW x \in Workers \ {w} PROVE WorkerInv(x)'
      BY <1>t, <2>1, <2>2, StepsAreLocal, OtherWorkers DEF tickVars
    <2>5. WorkerInv(w)'
      <3>1. CASE OpenWindow(w)
        <4>1. call[w] # Idle /\ call'[w].key = call[w].key
              /\ held'[w] = held[w] \cup {call[w].key}
          BY <1>t, <3>1, StepsAreLocal
        <4> QED BY <2>1, <4>1 DEF tickVars, TickInv, WorkerInv, KeysOf
      <3>2. CASE Post(w)
        <4>1. call[w] # Idle /\ call'[w] = Idle /\ held' = held
          BY <1>t, <3>2, StepsAreLocal
        <4> QED BY <2>1, <4>1 DEF tickVars, TickInv, WorkerInv, KeysOf
      <3>3. CASE Commit(w) /\ phase[w] \in {"alerts", "flush"}
        <4>1. call'[w] = Idle /\ held'[w] = {} BY <1>t, <3>3, StepsAreLocal
        <4>2. escalate[w] = Nobody BY <3>3 DEF TickInv, WorkerInv
        <4> QED BY <2>1, <3>3, <4>1, <4>2 DEF tickVars, TickInv, WorkerInv, KeysOf
      <3> QED BY <2>2, <3>1, <3>2, <3>3
    <2> QED BY <2>3, <2>4, <2>5 DEF TickInv
  <1>6. ASSUME NEW w \in Workers, NotSent(w) PROVE TickInv'
    <2>1. Post(w) BY <1>6 DEF NotSent, Post
    <2>2. call[w] # Idle /\ call'[w] = Idle /\ held' = held
          /\ call[w].key \in held[w]
          /\ \A x \in Workers \ {w} : call'[x] = call[x]
      BY <1>t, <2>1, StepsAreLocal
    <2>3. \/ escalate' = [escalate EXCEPT ![w] =
                            IF phase[w] = "meta" THEN call[w].key ELSE Nobody]
          \/ escalate' = escalate
      BY <1>6 DEF NotSent
    <2>4. phase[w] = "meta" => call[w].key \in Meta
      BY <2>2 DEF TickInv, WorkerInv, KeysOf
    <2>5. UNCHANGED <<minute, due, phase, boundary, todo, buffer, hits, written,
                      aborted, planned>>
      BY <1>6 DEF NotSent
    <2>6. escalate' \in [Workers -> Meta \cup {Nobody}]
      BY <2>3, <2>4 DEF TickInv, RiskTypeOK
    <2>7. RiskTypeOK' BY <1>d, <2>5, <2>6 DEF TickInv, RiskTypeOK
    <2>8. ASSUME NEW x \in Workers \ {w} PROVE WorkerInv(x)'
      <3>1. escalate'[x] = escalate[x] BY <2>3 DEF TickInv, RiskTypeOK
      <3> QED BY <2>2, <2>5, <3>1, OtherWorkers
    <2>9. WorkerInv(w)'
      <3>1. escalate[w] = Nobody BY <2>2 DEF TickInv, WorkerInv
      <3>2. escalate'[w] # Nobody => phase[w] = "meta" /\ escalate'[w] = call[w].key
        BY <2>3, <3>1 DEF TickInv, RiskTypeOK
      <3> QED BY <2>2, <2>5, <3>2 DEF TickInv, WorkerInv, KeysOf
    <2> QED BY <2>7, <2>8, <2>9 DEF TickInv
  <1>7. ASSUME NEW w \in Workers, GiveUp(w) PROVE TickInv'
    <2>1. Undo(w) /\ phase[w] \in {"alerts", "flush"}
          /\ UNCHANGED <<minute, due, phase, boundary, buffer, hits, written,
                         aborted, escalate, planned>>
      BY <1>7 DEF GiveUp
    <2>2. PICK k \in todo[w] : todo' = [todo EXCEPT ![w] = @ \ {k}]
      BY <1>7 DEF GiveUp
    <2>3. todo' \in [Workers -> SUBSET Keys] /\ todo'[w] \subseteq todo[w]
          /\ \A x \in Workers \ {w} : todo'[x] = todo[x]
      BY <2>2 DEF TickInv, RiskTypeOK
    <2>4. call'[w] = Idle /\ held'[w] = {}
          /\ \A x \in Workers \ {w} : call'[x] = call[x] /\ held'[x] = held[x]
      BY <1>t, <2>1, StepsAreLocal
    <2>5. RiskTypeOK' BY <1>d, <2>1, <2>3 DEF TickInv, RiskTypeOK
    <2>6. \A x \in Workers \ {w} : WorkerInv(x)'
      BY <2>1, <2>3, <2>4, OtherWorkers
    <2>7. escalate[w] = Nobody BY <2>1 DEF TickInv, WorkerInv
    <2>8. WorkerInv(w)' BY <2>1, <2>3, <2>4, <2>7 DEF TickInv, WorkerInv, KeysOf
    <2> QED BY <2>5, <2>6, <2>8 DEF TickInv
  <1>8. ASSUME NEW w \in Workers, AlertsDone(w) \/ CommitPlans(w) PROVE TickInv'
    <2>1. /\ UNCHANGED <<dedupVars, minute, due, boundary, hits, written, aborted,
                         escalate>>
          /\ held[w] = {} /\ call[w] = Idle
          /\ \/ phase' = [phase EXCEPT ![w] = "plans"]
             \/ phase' = [phase EXCEPT ![w] = "flush"]
          /\ phase[w] \in {"alerts", "plans"}
      BY <1>8 DEF AlertsDone, CommitPlans, GoTo, Ready, TickInv, WorkerInv
    <2>2. /\ planned' \in [Workers -> SUBSET P0]
          /\ buffer' \in [Workers -> SUBSET P1]
      BY <1>8 DEF AlertsDone, CommitPlans, TickInv, RiskTypeOK
    <2>3. Flushed(w) \subseteq P1 BY DEF Flushed, TickInv, RiskTypeOK
    <2>4. /\ todo' \in [Workers -> SUBSET Keys]
          /\ todo'[w] \subseteq todo[w] \cup P1
          /\ \A x \in Workers \ {w} : todo'[x] = todo[x]
      BY <1>8, <2>3, KeysOfTasks
         DEF AlertsDone, CommitPlans, TickInv, RiskTypeOK
    <2>5. RiskTypeOK' BY <1>d, <2>1, <2>2, <2>4 DEF TickInv, RiskTypeOK
    <2>6. ASSUME NEW x \in Workers \ {w} PROVE WorkerInv(x)'
      <3>1. phase'[x] = phase[x] BY <2>1 DEF TickInv, RiskTypeOK
      <3> QED BY <2>1, <2>4, <3>1, OtherWorkers DEF dedupVars
    <2>7. WorkerInv(w)'
      <3>1. phase'[w] \in {"plans", "flush"} BY <2>1 DEF TickInv, RiskTypeOK
      <3>2. todo[w] \subseteq P0 \cup P1 BY <2>1 DEF TickInv, WorkerInv, KeysOf
      <3>3. escalate[w] = Nobody BY <2>1 DEF TickInv, WorkerInv
      <3> QED BY <2>1, <2>4, <3>1, <3>2, <3>3 DEF dedupVars, WorkerInv, KeysOf
    <2> QED BY <2>5, <2>6, <2>7 DEF TickInv
  <1>9. ASSUME NEW w \in Workers, NEW k \in hits[w], PersistPlan(w, k)
        PROVE  TickInv'
    <2>1. /\ hits' = [hits EXCEPT ![w] = @ \ {k}]
          /\ written' = written \/ written' = [written EXCEPT ![w] = @ \cup {k}]
          /\ aborted' = aborted \/ aborted' = [aborted EXCEPT ![w] = TRUE]
          /\ UNCHANGED dedupVars \/ Undo(w)
          /\ phase[w] = "plans"
          /\ UNCHANGED <<minute, due, phase, boundary, todo, buffer, escalate, planned>>
      BY <1>9 DEF PersistPlan
    <2>2. k \in P0 BY DEF TickInv, RiskTypeOK
    <2>3. hits' \in [Workers -> SUBSET P0] /\ written' \in [Workers -> SUBSET P0]
          /\ aborted' \in [Workers -> BOOLEAN]
      <3>1. hits' \in [Workers -> SUBSET P0] BY <2>1 DEF TickInv, RiskTypeOK
      <3>2. written' \in [Workers -> SUBSET P0]
        BY <2>1, <2>2 DEF TickInv, RiskTypeOK
      <3>3. aborted' \in [Workers -> BOOLEAN] BY <2>1 DEF TickInv, RiskTypeOK
      <3> QED BY <3>1, <3>2, <3>3
    <2>4. RiskTypeOK' BY <1>d, <2>1, <2>3 DEF TickInv, RiskTypeOK
    <2>5. call'[w] = Idle /\ held'[w] = {}
          /\ \A x \in Workers \ {w} : call'[x] = call[x] /\ held'[x] = held[x]
      <3>1. CASE UNCHANGED dedupVars
        BY <2>1, <3>1 DEF dedupVars, TickInv, WorkerInv
      <3>2. CASE Undo(w) BY <1>t, <3>2, StepsAreLocal
      <3> QED BY <2>1, <3>1, <3>2
    <2>6. \A x \in Workers \ {w} : WorkerInv(x)' BY <2>1, <2>5, OtherWorkers
    <2>7. escalate[w] = Nobody BY <2>1 DEF TickInv, WorkerInv
    <2>8. WorkerInv(w)' BY <2>1, <2>5, <2>7 DEF TickInv, WorkerInv, KeysOf
    <2> QED BY <2>4, <2>6, <2>8 DEF TickInv
  <1>10. ASSUME NEW w \in Workers, Escalate(w) PROVE TickInv'
    <2>1. /\ TellElsewhere(w, escalate[w])
          /\ escalate' = [escalate EXCEPT ![w] = Nobody]
          /\ UNCHANGED <<minute, due, phase, boundary, todo, buffer, hits, written,
                         aborted, planned>>
      BY <1>10 DEF Escalate
    <2>2. call' = call /\ held' = held BY <2>1 DEF TellElsewhere
    <2>3. /\ escalate' \in [Workers -> Meta \cup {Nobody}] /\ escalate'[w] = Nobody
          /\ \A x \in Workers \ {w} : escalate'[x] = escalate[x]
      BY <2>1 DEF TickInv, RiskTypeOK
    <2>4. RiskTypeOK' BY <1>d, <2>1, <2>3 DEF TickInv, RiskTypeOK
    <2>5. \A x \in Workers \ {w} : WorkerInv(x)'
      BY <2>1, <2>2, <2>3, OtherWorkers
    <2>6. WorkerInv(w)' BY <2>1, <2>2, <2>3 DEF TickInv, WorkerInv, KeysOf
    <2> QED BY <2>4, <2>5, <2>6 DEF TickInv
  <1>11. ASSUME NEW w \in Workers, EndTick(w) \/ EndMeta(w) \/ TaskEnds(w)
         PROVE  TickInv'
    <2>1. Forget(w) /\ UNCHANGED <<minute, due>>
      BY <1>11 DEF EndTick, EndMeta, TaskEnds
    <2>2. buffer' \in [Workers -> SUBSET P1]
      BY <1>11 DEF EndTick, EndMeta, TaskEnds, TickInv, RiskTypeOK
    <2>3. RiskTypeOK'
      BY <1>d, <2>1, <2>2, ForgetHolds DEF TickInv, RiskTypeOK
    <2>4. call'[w] = Idle /\ held'[w] = {}
          /\ \A x \in Workers \ {w} : call'[x] = call[x] /\ held'[x] = held[x]
      <3>1. CASE Commit(w) \/ Undo(w) BY <1>t, <3>1, StepsAreLocal
      <3>2. CASE UNCHANGED dedupVars /\ held[w] = {} /\ call[w] = Idle
        BY <3>2 DEF dedupVars
      <3> QED BY <1>11, <3>1, <3>2 DEF EndTick, EndMeta, TaskEnds, Ready
    <2>5. \A x \in Workers \ {w} : WorkerInv(x)'
      BY <2>1, <2>4, ForgetHolds, OtherWorkers
    <2>6. WorkerInv(w)' BY <2>1, <2>4, ForgetHolds DEF WorkerInv, KeysOf
    <2> QED BY <2>3, <2>5, <2>6 DEF TickInv
  <1>12. CASE UNCHANGED riskVars
    BY <1>12, <1>d DEF riskVars, dedupVars, tickVars, TickInv, RiskTypeOK,
                       WorkerInv, KeysOf
  <1> QED
    BY <1>1, <1>2, <1>3, <1>4, <1>5, <1>6, <1>7, <1>8, <1>9, <1>10, <1>11, <1>12
       DEF RiskNext, RunStep

(* The types of the tasks' state.                                          *)
THEOREM TickTypes == RiskSpec => []RiskTypeOK
  <1>1. TickInv => RiskTypeOK BY DEF TickInv
  <1> QED BY TickInit, TickStep, <1>1, PTL DEF RiskSpec

(* The tasks use the table as AlertDedup says, so that both promises of    *)
(* its window hold of them.                                                *)
THEOREM TasksAreDedup == RiskSpec => DedupSpec
  <1>1. RiskInit => DedupInit BY DEF RiskInit
  <1>2. TickInv /\ [RiskNext]_riskVars => [DedupNext]_dedupVars
    BY TaskStepsAreDedup
  <1> QED BY TickInit, TickStep, <1>1, <1>2, PTL DEF RiskSpec, DedupSpec

(* What send_with_dedup promises, the two tasks keep: on the connection    *)
(* that they share with their plans, and with a meta alert that is told on *)
(* another channel, no alert repeats in its window, and what a window      *)
(* silences was told, recorded as failed, or muted.                        *)
THEOREM TasksKeepWindows ==
    RiskSpec => [](NoRepeatInWindow /\ SilenceIsBacked)
BY TasksAreDedup, NoRepeat, Silence, PTL

-----------------------------------------------------------------------------
LEMMA MetaInit == RiskInit => MetaInv
  <1> SUFFICES ASSUME RiskInit PROVE MetaInv OBVIOUS
  <1>1. TickInv BY TickInit
  <1>2. \A k \in Meta : row[k].left = 0 /\ draft[k].left = 0 /\ Window[k] \in Nat
    BY KeysOfTasks, WindowAssumption DEF RiskInit, DedupInit, NoRow
  <1>3. \A w \in Workers : held[w] = {} BY DEF RiskInit, DedupInit, Workers
  <1> QED BY <1>1, <1>2, <1>3 DEF MetaInv, MetaTold

LEMMA MinuteTold ==
  ASSUME DedupTypeOK, Minute, NEW k \in Keys, NEW r \in Rows,
         r.left <= Window[k], MetaTold(k, r)
  PROVE  /\ Older(r).left <= Window[k]
         /\ Older(r).left > 0 =>
              since'[k] + Older(r).left <= Window[k] \/ Older(r).muted
  <1>1. since[k] \in Nat /\ since'[k] \in Nat /\ since'[k] <= since[k] + 1
        /\ Window[k] \in Nat
    BY MinuteLater, WindowAssumption DEF DedupTypeOK
  <1>2. Older(r).muted = r.muted
        /\ Older(r).left = IF r.left = 0 THEN 0 ELSE r.left - 1
    BY OlderIsARow
  <1>3. r.left \in Nat BY DEF Rows
  <1>4. Older(r).left <= Window[k] BY <1>1, <1>2, <1>3
  <1>5. CASE r.muted BY <1>2, <1>4, <1>5
  <1>6. CASE ~r.muted
    <2>1. r.left > 0 => since[k] + r.left <= Window[k] BY <1>6 DEF MetaTold
    <2>2. Older(r).left > 0 => since'[k] + Older(r).left <= Window[k]
      BY <1>1, <1>2, <1>3, <2>1
    <2> QED BY <1>4, <2>2
  <1> QED BY <1>5, <1>6

(* Nothing of a meta key changes: its row, its draft, its holder's call.   *)
LEMMA MetaUntouched ==
  ASSUME MetaInv, TickInv', UNCHANGED <<row, draft, held, call, since, escalate>>
  PROVE  MetaInv'
  BY DEF MetaInv, MetaTold, MetaDraft, Posting

(* A transaction that ends without meta keys, or without a commit.         *)
LEMMA MetaOutside ==
  ASSUME MetaInv, TickInv', NEW w \in Workers,
         Undo(w) \/ (Commit(w) /\ phase[w] # "meta"),
         \A x \in Workers \ {w} : escalate'[x] = escalate[x]
  PROVE  MetaInv'
  <1> USE DEF Workers
  <1>t. DedupTypeOK /\ TickInv BY DEF MetaInv, TickInv, RiskTypeOK
  <1>1. Unlock(w) /\ since' = since BY DEF Undo, Commit
  <1>2. /\ call'[w] = Idle /\ held'[w] = {}
        /\ \A x \in Workers \ {w} : call'[x] = call[x] /\ held'[x] = held[x]
    BY <1>t, StepsAreLocal
  <1>3. ASSUME NEW k \in Meta PROVE row'[k] = row[k]
    <2>1. CASE Undo(w) BY <2>1 DEF Undo
    <2>2. CASE Commit(w) /\ phase[w] # "meta"
      <3>1. held[w] \subseteq P0 \cup P1 BY <1>t, <2>2 DEF TickInv, WorkerInv, KeysOf
      <3>2. k \notin held[w] /\ k \in Keys BY <3>1, TickAssumption
      <3> QED BY <2>2, <3>2 DEF Commit
    <2> QED BY <2>1, <2>2
  <1>4. \A k \in Keys : draft'[k] = IF k \in held[w] THEN NoRow ELSE draft[k]
    BY <1>1 DEF Unlock
  <1>5. ASSUME NEW k \in Meta
        PROVE  /\ row'[k].left <= Window[k] /\ draft'[k].left <= Window[k]
               /\ MetaTold(k, row[k])'
    <2>1. row'[k].left <= Window[k] BY <1>3 DEF MetaInv
    <2>2. draft'[k].left <= Window[k]
      BY <1>4, KeysOfTasks, WindowAssumption DEF NoRow, MetaInv
    <2>3. MetaTold(k, row[k]) BY DEF MetaInv
    <2>4. MetaTold(k, row'[k]) BY <1>3, <2>3
    <2> QED BY <1>1, <2>1, <2>2, <2>4 DEF MetaTold
  <1>6. ASSUME NEW x \in Workers, NEW k \in Meta \cap held'[x]
        PROVE  MetaDraft(x, k)'
    <2>1. x # w /\ k \in held[x] /\ k \in Keys BY <1>2, KeysOfTasks
    <2>2. k \notin held[w] BY <1>t, <2>1, OneHolder
    <2>3. draft'[k] = draft[k] BY <1>4, <2>1, <2>2
    <2>4. MetaDraft(x, k) BY <2>1 DEF MetaInv
    <2> QED BY <1>1, <1>2, <2>1, <2>3, <2>4 DEF MetaDraft, MetaTold, Posting
  <1> QED BY <1>5, <1>6 DEF MetaInv

LEMMA MetaStep == MetaInv /\ [RiskNext]_riskVars => MetaInv'
  <1> SUFFICES ASSUME MetaInv, [RiskNext]_riskVars PROVE MetaInv' OBVIOUS
  <1> USE DEF Workers
  <1>t. TickInv /\ TickInv' BY TickStep DEF MetaInv
  <1>d. DedupTypeOK /\ DedupTypeOK' BY <1>t DEF TickInv, RiskTypeOK
  <1>k. \A k \in Meta : k \in Keys /\ k \notin P0 /\ k \notin P1
    BY TickAssumption
  <1>w. \A k \in Meta : Window[k] \in Nat /\ Window[k] > Lag /\ Lag \in Nat
    BY <1>k, WindowAssumption
  <1>r. \A k \in Meta : row[k] \in Rows /\ draft[k] \in Rows /\ since[k] \in Nat
    BY <1>d, <1>k DEF DedupTypeOK
  <1>1. CASE Clock
    <2>0. Minute /\ escalate' = escalate BY <1>1 DEF Clock
    <2>1. ASSUME NEW k \in Meta
          PROVE  /\ row'[k] = Older(row[k]) /\ draft'[k] = Older(draft[k])
                 /\ row[k].left <= Window[k] /\ draft[k].left <= Window[k]
                 /\ MetaTold(k, row[k])
      BY <1>d, <1>k, <2>0, MinuteLater DEF MetaInv
    <2>2. ASSUME NEW k \in Meta
          PROVE  /\ row'[k].left <= Window[k] /\ draft'[k].left <= Window[k]
                 /\ MetaTold(k, row[k])'
      <3>1. row'[k].left <= Window[k] /\ MetaTold(k, row[k])'
        BY <1>d, <1>k, <1>r, <2>0, <2>1, MinuteTold DEF MetaTold
      <3>2. draft'[k].left <= Window[k]
        BY <1>w, <1>r, <2>1, OlderIsARow, SMT DEF Rows
      <3> QED BY <3>1, <3>2
    <2>3. ASSUME NEW w \in Workers, NEW k \in Meta \cap held'[w]
          PROVE  MetaDraft(w, k)'
      <3>1. k \in held[w] BY <1>d, <2>0, <2>3, MinuteCalls
      <3>2. MetaDraft(w, k) BY <3>1 DEF MetaInv
      <3>3. CASE Posting(w) /\ call[w].key = k
        BY <1>d, <2>0, <3>3, MinuteCalls DEF MetaDraft
      <3>4. CASE escalate[w] = k BY <2>0, <3>4 DEF MetaDraft
      <3>5. CASE MetaTold(k, draft[k])
        BY <1>d, <1>k, <1>r, <2>0, <2>1, <3>5, MinuteTold DEF MetaTold, MetaDraft
      <3> QED BY <3>2, <3>3, <3>4, <3>5 DEF MetaDraft
    <2> QED BY <1>t, <2>2, <2>3 DEF MetaInv
  <1>2. ASSUME NEW w \in Workers,
               StartTick(w) \/ StartMeta(w) \/ AlertsDone(w) \/ CommitPlans(w)
        PROVE  MetaInv'
    BY <1>2, <1>t, MetaUntouched
       DEF StartTick, StartMeta, AlertsDone, CommitPlans, dedupVars
  <1>3. ASSUME NEW w \in Workers, StartSend(w) PROVE MetaInv'
    <2>1. PICK k \in todo[w] :
            \/ Suppress(w, k) /\ (phase[w] = "meta" <=> k \in held'[w])
            \/ Miss(w, k)
      BY <1>3 DEF StartSend
    <2>2. k \in Keys BY <1>t, <2>1 DEF TickInv, RiskTypeOK
    <2>3. escalate[w] = Nobody /\ escalate' = escalate BY <1>3 DEF StartSend
    <2>4. CASE Miss(w, k)
      <3>1. UNCHANGED <<row, draft, held, since>> /\ call[w] = Idle
            /\ \A x \in Workers \ {w} : call'[x] = call[x]
        BY <1>d, <2>4 DEF Miss, DedupTypeOK
      <3>2. ASSUME NEW x \in Workers, NEW m \in Meta \cap held'[x]
            PROVE  MetaDraft(x, m)'
        <4>1. MetaDraft(x, m) BY <3>1 DEF MetaInv
        <4> QED BY <2>3, <3>1, <4>1 DEF MetaDraft, Posting, MetaTold
      <3> QED BY <1>t, <3>1, <3>2 DEF MetaInv, MetaTold
    <2>5. CASE Suppress(w, k)
      <3>1. call[w] = Idle /\ UNCHANGED <<row, call, since>>
        BY <2>5 DEF Suppress
      <3>2. CASE UNCHANGED <<held, draft>>
        BY <1>t, <2>3, <3>1, <3>2, MetaUntouched
      <3>3. CASE Lock(w, k, Seen(w, k))
        <4>1. draft' = [draft EXCEPT ![k] = Seen(w, k)]
              /\ held' = [held EXCEPT ![w] = @ \cup {k}]
          BY <3>3 DEF Lock
        <4>2. draft'[k] = Seen(w, k) /\ \A x \in Keys \ {k} : draft'[x] = draft[x]
          BY <2>2, <4>1, <1>d DEF DedupTypeOK
        <4>3. k \in Meta => MetaTold(k, Seen(w, k)) /\ Seen(w, k).left <= Window[k]
          <5>1. CASE k \in Meta /\ k \in held[w]
            <6>1. MetaDraft(w, k) BY <5>1 DEF MetaInv
            <6>2. MetaTold(k, draft[k])
              BY <2>2, <2>3, <3>1, <6>1, KeysOfTasks DEF MetaDraft, Posting
            <6> QED BY <5>1, <6>2 DEF Seen, MetaInv
          <5>2. CASE k \in Meta /\ k \notin held[w] BY <5>2 DEF Seen, MetaInv
          <5> QED BY <5>1, <5>2
        <4>4. ASSUME NEW x \in Workers, NEW m \in Meta \cap held'[x]
              PROVE  MetaDraft(x, m)'
          <5>1. CASE m = k
            BY <3>1, <4>2, <4>3, <4>4, <5>1 DEF MetaDraft, MetaTold
          <5>2. CASE m # k
            <6>1. m \in held[x] BY <1>d, <4>1, <4>4, <5>2 DEF DedupTypeOK
            <6>2. MetaDraft(x, m) BY <6>1 DEF MetaInv
            <6> QED BY <1>k, <2>3, <3>1, <4>2, <5>2, <6>2
                    DEF MetaDraft, Posting, MetaTold
          <5> QED BY <5>1, <5>2
        <4>5. ASSUME NEW m \in Meta
              PROVE  /\ row'[m].left <= Window[m] /\ draft'[m].left <= Window[m]
                     /\ MetaTold(m, row[m])'
          <5>1. draft'[m].left <= Window[m] BY <1>k, <4>2, <4>3 DEF MetaInv
          <5> QED BY <3>1, <5>1 DEF MetaInv, MetaTold
        <4> QED BY <1>t, <4>4, <4>5 DEF MetaInv
      <3> QED BY <2>5, <3>2, <3>3 DEF Suppress
    <2> QED BY <2>1, <2>4, <2>5
  <1>4. ASSUME NEW w \in Workers, Write(w) PROVE MetaInv'
    <2>0. PICK k : k = call[w].key OBVIOUS
    <2>a. OpenWindow(w) /\ escalate' = escalate BY <1>4 DEF Write, tickVars
    <2>1. call[w].step = "open" /\ call[w] # Idle BY <2>a DEF OpenWindow, Idle
    <2>2. call[w] \in [step : {"open", "post"}, key : Keys, age : 0..Lag]
      BY <2>1, <1>d DEF DedupTypeOK, Calls
    <2>3. k \in Keys /\ call[w].age \in 0..Lag BY <2>0, <2>2
    <2>4. /\ held' = [held EXCEPT ![w] = @ \cup {k}]
          /\ draft' = [draft EXCEPT ![k] = [left |-> Window[k] - call[w].age,
                                           ok |-> Seen(w, k).ok, muted |-> FALSE]]
          /\ call' = [call EXCEPT ![w].step = "post"]
          /\ UNCHANGED <<row, since>>
      BY <2>a, <2>0 DEF OpenWindow, Lock
    <2>5. call'[w].key = k /\ Posting(w)'
      <3>1. call'[w].key = k /\ call'[w].step = "post"
        BY <2>0, <2>2, <2>4, <1>d DEF DedupTypeOK
      <3> QED BY <3>1 DEF Posting, Idle
    <2>6. draft'[k].left <= Window[k]
      <3>1. draft'[k].left = Window[k] - call[w].age
        BY <2>3, <2>4, <1>d DEF DedupTypeOK
      <3>2. Window[k] \in Nat /\ Lag \in Nat BY <2>3, WindowAssumption
      <3> QED BY <2>3, <3>1, <3>2
    <2>7. \A x \in Keys \ {k} : draft'[x] = draft[x]
      BY <2>4, <1>d DEF DedupTypeOK
    <2>8. ASSUME NEW x \in Workers, NEW m \in Meta \cap held'[x]
          PROVE  MetaDraft(x, m)'
      <3>1. CASE x = w /\ m = k BY <2>5, <3>1 DEF MetaDraft
      <3>2. CASE x = w /\ m # k
        <4>1. m \in held[w] BY <1>d, <2>4, <2>8, <3>2 DEF DedupTypeOK
        <4>2. ~Posting(w) BY <2>1 DEF Posting
        <4>3. MetaDraft(w, m) BY <4>1 DEF MetaInv
        <4>4. escalate[w] = m \/ MetaTold(m, draft[m])
          BY <4>2, <4>3 DEF MetaDraft
        <4> QED BY <1>k, <2>a, <2>4, <2>7, <3>2, <4>4 DEF MetaDraft, MetaTold
      <3>3. CASE x # w
        <4>1. m \in held[x] /\ k \in held'[w]
          BY <1>d, <2>4, <2>8, <3>3 DEF DedupTypeOK
        <4>2. m # k BY <1>d, <2>8, <3>3, <4>1 DEF DedupTypeOK
        <4>3. call'[x] = call[x] BY <1>d, <2>4, <3>3 DEF DedupTypeOK
        <4>4. MetaDraft(x, m) BY <4>1 DEF MetaInv
        <4> QED BY <1>k, <2>a, <2>4, <2>7, <4>2, <4>3, <4>4
                DEF MetaDraft, MetaTold, Posting
      <3> QED BY <3>1, <3>2, <3>3
    <2>9. ASSUME NEW m \in Meta
          PROVE  /\ row'[m].left <= Window[m] /\ draft'[m].left <= Window[m]
                 /\ MetaTold(m, row[m])'
      <3>1. draft'[m].left <= Window[m] BY <1>k, <2>6, <2>7 DEF MetaInv
      <3> QED BY <2>4, <3>1 DEF MetaInv, MetaTold
    <2> QED BY <1>t, <2>8, <2>9 DEF MetaInv
  <1>5. ASSUME NEW w \in Workers, DidSend(w) \/ NotSent(w) PROVE MetaInv'
    <2>0. PICK k : k = call[w].key OBVIOUS
    <2>a. Post(w) BY <1>5 DEF DidSend, NotSent, Post
    <2>1. Posting(w)
      BY <2>a DEF Post, PostSent, PostFailed, PostSkipped, Posting, Idle
    <2>2. k \in Keys /\ k \in held[w] BY <1>d, <2>0, <2>1, PostingHolds
    <2>3. call' = [call EXCEPT ![w] = Idle] /\ UNCHANGED <<row, held>>
      BY <2>a DEF Post, PostSent, PostFailed, PostSkipped, EndCall
    <2>4. \A x \in Keys \ {k} : since'[x] = since[x] /\ draft'[x] = draft[x]
      BY <2>a, <2>0, <1>d DEF Post, PostSent, PostFailed, PostSkipped, Tell,
                              DedupTypeOK
    <2>5. escalate[w] = Nobody
      BY <1>t, <2>1 DEF TickInv, WorkerInv, Posting
    <2>6. \A x \in Workers \ {w} : escalate'[x] = escalate[x]
      BY <1>5, <1>t DEF DidSend, NotSent, tickVars, TickInv, RiskTypeOK
    <2>7. k \in Meta => phase[w] = "meta"
      BY <1>t, <1>k, <2>2 DEF TickInv, WorkerInv, KeysOf
    <2>8. /\ draft'[k].left = draft[k].left
          /\ since'[k] = since[k] \/ since'[k] = 0
      BY <2>a, <2>0, <2>2, <1>d DEF Post, PostSent, PostFailed, PostSkipped, Tell,
                                    DedupTypeOK, Rows
    <2>9. k \in Meta => since'[k] = 0 \/ draft'[k].muted \/ escalate'[w] = k
      <3>1. CASE PostSent(w)
        BY <2>0, <2>2, <3>1, <1>d DEF PostSent, Tell, DedupTypeOK
      <3>2. CASE PostSkipped(w)
        BY <2>0, <2>2, <3>2, <1>d DEF PostSkipped, DedupTypeOK, Rows
      <3>3. CASE escalate' = [escalate EXCEPT ![w] =
                                IF phase[w] = "meta" THEN call[w].key ELSE Nobody]
        BY <2>0, <2>7, <3>3, <1>t DEF TickInv, RiskTypeOK
      <3> QED BY <1>5, <3>1, <3>2, <3>3 DEF DidSend, NotSent
    <2>10. ASSUME k \in Meta
           PROVE  draft[k].left <= Window[k] /\ row[k].left <= Window[k]
                  /\ draft[k].left \in Nat /\ row[k].left \in Nat
      BY <2>10, <1>r DEF MetaInv, Rows
    <2>11. ASSUME k \in Meta PROVE MetaDraft(w, k)' /\ MetaTold(k, row[k])'
      <3>1. MetaDraft(w, k)'
        <4>1. CASE since'[k] = 0
          BY <2>8, <2>10, <2>11, <4>1 DEF MetaDraft, MetaTold
        <4>2. CASE draft'[k].muted BY <4>2 DEF MetaDraft, MetaTold
        <4>3. CASE escalate'[w] = k BY <4>3 DEF MetaDraft
        <4> QED BY <2>9, <2>11, <4>1, <4>2, <4>3
      <3>2. MetaTold(k, row[k])'
        <4>1. CASE since'[k] = 0
          BY <2>3, <2>10, <2>11, <4>1 DEF MetaTold
        <4>2. CASE since'[k] = since[k]
          <5>1. MetaTold(k, row[k]) BY <2>11 DEF MetaInv
          <5> QED BY <2>3, <4>2, <5>1 DEF MetaTold
        <4> QED BY <2>8, <4>1, <4>2
      <3> QED BY <3>1, <3>2
    <2>12. ASSUME NEW m \in Meta
           PROVE  /\ row'[m].left <= Window[m] /\ draft'[m].left <= Window[m]
                  /\ MetaTold(m, row[m])'
      <3>1. CASE m = k BY <2>3, <2>8, <2>10, <2>11, <2>12, <3>1
      <3>2. CASE m # k
        <4>1. draft'[m] = draft[m] /\ since'[m] = since[m] /\ row'[m] = row[m]
          BY <1>k, <2>3, <2>4, <3>2
        <4>2. MetaTold(m, row[m]) /\ row[m].left <= Window[m]
              /\ draft[m].left <= Window[m]
          BY DEF MetaInv
        <4>3. MetaTold(m, row[m])' BY <4>1, <4>2 DEF MetaTold
        <4> QED BY <4>1, <4>2, <4>3
      <3> QED BY <3>1, <3>2
    <2>13. ASSUME NEW x \in Workers, NEW m \in Meta \cap held'[x]
           PROVE  MetaDraft(x, m)'
      <3>0. m \in held[x] BY <2>3
      <3>1. CASE m = k
        <4>1. x = w BY <1>d, <2>2, <3>0, <3>1, OneHolder
        <4> QED BY <2>11, <3>1, <4>1
      <3>2. CASE m # k
        <4>1. draft'[m] = draft[m] /\ since'[m] = since[m] BY <1>k, <2>4, <3>2
        <4>2. MetaDraft(x, m) BY <3>0 DEF MetaInv
        <4>3. CASE x = w
          <5>1. MetaTold(m, draft[m])
            BY <2>0, <2>5, <3>2, <4>2, <4>3, <1>k, KeysOfTasks DEF MetaDraft
          <5> QED BY <4>1, <5>1 DEF MetaDraft, MetaTold
        <4>4. CASE x # w
          <5>1. call'[x] = call[x] BY <1>d, <2>3, <4>4 DEF DedupTypeOK
          <5> QED BY <2>6, <4>1, <4>2, <4>4, <5>1 DEF MetaDraft, MetaTold, Posting
        <4> QED BY <4>3, <4>4
      <3> QED BY <3>1, <3>2
    <2> QED BY <1>t, <2>12, <2>13 DEF MetaInv
  <1>6. ASSUME NEW w \in Workers, EndSend(w) \/ GiveUp(w) \/ TaskEnds(w)
        PROVE  MetaInv'
    <2>1. Undo(w) \/ (Commit(w) /\ phase[w] # "meta")
      BY <1>6 DEF EndSend, GiveUp, TaskEnds
    <2>2. \A x \in Workers \ {w} : escalate'[x] = escalate[x]
      <3>1. CASE EndSend(w) \/ GiveUp(w) BY <3>1 DEF EndSend, GiveUp, tickVars
      <3>2. CASE TaskEnds(w) BY <1>t, <3>2, ForgetHolds DEF TaskEnds
      <3> QED BY <1>6, <3>1, <3>2
    <2> QED BY <1>t, <2>1, <2>2, MetaOutside
  <1>7. ASSUME NEW w \in Workers, NEW k \in hits[w], PersistPlan(w, k)
        PROVE  MetaInv'
    <2>1. escalate' = escalate /\ (UNCHANGED dedupVars \/ Undo(w))
      BY <1>7 DEF PersistPlan
    <2> QED BY <1>t, <2>1, MetaUntouched, MetaOutside DEF dedupVars
  <1>8. ASSUME NEW w \in Workers, Escalate(w) PROVE MetaInv'
    <2>0. PICK k : k = escalate[w] OBVIOUS
    <2>1. since' = [since EXCEPT ![k] = 0] /\ k # Nobody
          /\ escalate' = [escalate EXCEPT ![w] = Nobody]
          /\ UNCHANGED <<row, draft, held, call>>
      BY <1>8, <2>0 DEF Escalate, TellElsewhere, Tell
    <2>2. k \in Meta /\ k \in held[w]
      BY <1>t, <2>0, <2>1 DEF TickInv, RiskTypeOK, WorkerInv
    <2>3. since'[k] = 0 /\ \A x \in Keys \ {k} : since'[x] = since[x]
      BY <1>k, <2>1, <2>2, <1>d DEF DedupTypeOK
    <2>4. draft[k].left <= Window[k] /\ row[k].left <= Window[k]
          /\ draft[k].left \in Nat /\ row[k].left \in Nat
      BY <1>r, <2>2 DEF MetaInv, Rows
    <2>5. MetaTold(k, draft[k])' /\ MetaTold(k, row[k])'
      BY <2>1, <2>3, <2>4 DEF MetaTold
    <2>6. ASSUME NEW m \in Meta PROVE MetaTold(m, row[m])'
      <3>1. CASE m = k BY <2>5, <3>1
      <3>2. CASE m # k
        <4>1. since'[m] = since[m] /\ row'[m] = row[m] BY <1>k, <2>1, <2>3, <3>2
        <4>2. MetaTold(m, row[m]) BY DEF MetaInv
        <4> QED BY <4>1, <4>2 DEF MetaTold
      <3> QED BY <3>1, <3>2
    <2>7. ASSUME NEW x \in Workers, NEW m \in Meta \cap held'[x]
          PROVE  MetaDraft(x, m)'
      <3>0. m \in held[x] BY <2>1
      <3>1. CASE m = k BY <2>5, <3>1 DEF MetaDraft
      <3>2. CASE m # k
        <4>1. since'[m] = since[m] BY <1>k, <2>3, <3>2
        <4>2. MetaDraft(x, m) BY <3>0 DEF MetaInv
        <4>3. escalate[x] = m => escalate'[x] = m
          BY <2>0, <2>1, <3>2, <1>t DEF TickInv, RiskTypeOK
        <4> QED BY <2>1, <4>1, <4>2, <4>3 DEF MetaDraft, MetaTold, Posting
      <3> QED BY <3>1, <3>2
    <2> QED BY <1>t, <2>1, <2>6, <2>7 DEF MetaInv
  <1>9. ASSUME NEW w \in Workers, EndTick(w) PROVE MetaInv'
    <2>1. UNCHANGED dedupVars /\ held[w] = {} /\ Forget(w) BY <1>9 DEF EndTick
    <2>2. \A x \in Workers \ {w} : escalate'[x] = escalate[x]
      BY <1>t, <2>1, ForgetHolds
    <2>3. ASSUME NEW x \in Workers, NEW m \in Meta \cap held'[x]
          PROVE  MetaDraft(x, m)'
      <3>1. m \in held[x] /\ x # w BY <2>1 DEF dedupVars
      <3>2. MetaDraft(x, m) BY <3>1 DEF MetaInv
      <3> QED BY <2>1, <2>2, <3>1, <3>2 DEF dedupVars, MetaDraft, MetaTold, Posting
    <2> QED BY <1>t, <2>1, <2>3 DEF dedupVars, MetaInv, MetaTold
  <1>10. ASSUME NEW w \in Workers, EndMeta(w) PROVE MetaInv'
    <2>1. call[w] = Idle /\ escalate[w] = Nobody /\ Forget(w)
          /\ (IF held[w] = {} THEN UNCHANGED dedupVars ELSE Commit(w))
      BY <1>10 DEF EndMeta, Ready
    <2>2. \A x \in Workers \ {w} : escalate'[x] = escalate[x]
      BY <1>t, <2>1, ForgetHolds
    <2>3. /\ since' = since /\ held'[w] = {}
          /\ \A x \in Workers \ {w} : held'[x] = held[x] /\ call'[x] = call[x]
          /\ \A k \in Keys : /\ row'[k] = IF k \in held[w] THEN draft[k] ELSE row[k]
                             /\ k \notin held[w] => draft'[k] = draft[k]
                             /\ draft'[k] = draft[k] \/ draft'[k] = NoRow
      <3>1. CASE held[w] = {} BY <2>1, <3>1 DEF dedupVars
      <3>2. CASE Commit(w)
        <4>1. Unlock(w) /\ since' = since BY <3>2 DEF Commit
        <4>2. \A k \in Keys : row'[k] = IF k \in held[w] THEN draft[k] ELSE row[k]
          BY <3>2 DEF Commit
        <4> QED BY <1>d, <3>2, <4>1, <4>2, StepsAreLocal DEF Unlock
      <3> QED BY <2>1, <3>1, <3>2
    <2>4. ASSUME NEW m \in Meta, m \in held[w] PROVE MetaTold(m, draft[m])
      <3>1. MetaDraft(w, m) BY <2>4 DEF MetaInv
      <3> QED BY <1>k, <2>1, <3>1, KeysOfTasks DEF MetaDraft, Posting
    <2>5. ASSUME NEW m \in Meta
          PROVE  /\ row'[m].left <= Window[m] /\ draft'[m].left <= Window[m]
                 /\ MetaTold(m, row[m])'
      <3>1. row[m].left <= Window[m] /\ draft[m].left <= Window[m]
            /\ MetaTold(m, row[m])
        BY DEF MetaInv
      <3>2. draft'[m].left <= Window[m] BY <1>k, <1>w, <2>3, <3>1 DEF NoRow
      <3>3. MetaTold(m, row'[m]) /\ row'[m].left <= Window[m]
        <4>1. CASE m \in held[w]
          BY <1>k, <2>3, <2>4, <3>1, <4>1
        <4>2. CASE m \notin held[w] BY <1>k, <2>3, <3>1, <4>2
        <4> QED BY <4>1, <4>2
      <3> QED BY <2>3, <3>2, <3>3 DEF MetaTold
    <2>6. ASSUME NEW x \in Workers, NEW m \in Meta \cap held'[x]
          PROVE  MetaDraft(x, m)'
      <3>1. m \in held[x] /\ x # w BY <2>3
      <3>2. m \notin held[w] BY <1>d, <3>1, OneHolder
      <3>3. draft'[m] = draft[m] BY <1>k, <2>3, <3>2
      <3>4. MetaDraft(x, m) BY <3>1 DEF MetaInv
      <3> QED BY <2>2, <2>3, <3>1, <3>3, <3>4 DEF MetaDraft, MetaTold, Posting
    <2> QED BY <1>t, <2>5, <2>6 DEF MetaInv
  <1>11. CASE UNCHANGED riskVars
    BY <1>11, <1>t, MetaUntouched DEF riskVars, dedupVars, tickVars
  <1> QED
    BY <1>1, <1>2, <1>3, <1>4, <1>5, <1>6, <1>7, <1>8, <1>9, <1>10, <1>11
       DEF RiskNext, RunStep

(* A meta alert that is silenced was told, unless alerts are off.          *)
THEOREM MetaIsTold == RiskSpec => []MetaNeverVanishes
  <1>1. MetaInv => MetaNeverVanishes
    BY DEF MetaInv, MetaNeverVanishes, MetaTold
  <1> QED BY MetaInit, MetaStep, <1>1, PTL DEF RiskSpec
=============================================================================
