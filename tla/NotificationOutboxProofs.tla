----------------------- MODULE NotificationOutboxProofs ----------------------
(***************************************************************************)
(* Proofs about NotificationOutbox, for any number of channels, senders,   *)
(* changes, crashes and lost answers: its type invariant, that claims are  *)
(* exclusive, that every duplicate is explained by a crash or a lost       *)
(* answer, and that the outbox implements AtLeastOnce.                     *)
(***************************************************************************)
EXTENDS NotificationOutbox, TLAPS

(* A message is part of what is left to send.                              *)
LEMMA BatchLeft ==
    \A s \in Senders : Batch(s) \subseteq left[s]
  BY DEF Batch

(* The next channel is a channel, and a sender there has nothing claimed.  *)
LEMMA NextChannelType ==
    ASSUME TypeOK, NEW s \in Senders, NextChannel(s)
    PROVE  /\ pc' \in [Senders -> {"idle", "claim", "send", "purge"}]
           /\ channel' \in [Senders -> Channels]
           /\ \A t \in Senders : t # s => pc'[t] = pc[t]
           /\ pc'[s] # "send"
  BY OutboxAssumption DEF TypeOK, NextChannel, Channels

(* Every action keeps the types.                                           *)
LEMMA TypeStep ==
    ASSUME TypeOK, [Next]_vars
    PROVE  TypeOK'
  <1> USE OutboxAssumption
  <1>1. CASE Enqueue
    <2>1. {queued + 1} \X Configured \subseteq Rows
      BY <1>1 DEF Enqueue, TypeOK, Rows, Changes
    <2> QED
      BY <1>1, <2>1 DEF Enqueue, TypeOK, sender, bounds, history, Statuses
  <1>2. CASE Age
    BY <1>2 DEF Age, TypeOK, sender, bounds, history
  <1>3. ASSUME NEW r \in Rows, FallDue(r)
        PROVE  TypeOK'
    BY <1>3 DEF FallDue, TypeOK, sender, bounds, history
  <1>4. ASSUME NEW s \in Senders, Start(s)
        PROVE  TypeOK'
    BY <1>4 DEF Start, TypeOK, bounds, history, Channels
  <1>5. ASSUME NEW s \in Senders, Claim(s)
        PROVE  TypeOK'
    <2>1. Claimable(s) \subseteq Rows
      BY DEF Claimable, TypeOK
    <2>3. CASE Claimable(s) = {}
      BY <1>5, <2>3, NextChannelType DEF Claim, TypeOK, bounds, history
    <2>4. CASE Claimable(s) # {}
      BY <1>5, <2>1, <2>4 DEF Claim, TypeOK, bounds, history
    <2> QED
      BY <2>3, <2>4
  <1>6. ASSUME NEW s \in Senders, Deliver(s)
        PROVE  TypeOK'
    <2>1. Batch(s) \subseteq Rows
      BY BatchLeft DEF TypeOK
    <2> QED
      BY <1>6, <2>1 DEF Deliver, TypeOK, bounds
  <1>7. ASSUME NEW s \in Senders, NEW accepted \in BOOLEAN, DeliverFails(s, accepted)
        PROVE  TypeOK'
    <2>1. Batch(s) \subseteq Rows
      BY BatchLeft DEF TypeOK
    <2>2. \A r \in Rows : Tried(r) \in 0 .. MaxAttempts
      BY DEF Tried, TypeOK
    <2> QED
      BY <1>7, <2>1, <2>2 DEF DeliverFails, TypeOK
  <1>8. ASSUME NEW s \in Senders, Commit(s)
        PROVE  TypeOK'
    <2>1. \A r \in Rows : Outcome(s, r) \in Statuses
      BY DEF Outcome, TypeOK, Statuses
    <2>2. NextChannel(s)
      BY <1>8 DEF Commit
    <2> QED
      BY <1>8, <2>1, <2>2, NextChannelType DEF Commit, TypeOK, bounds, history
  <1>9. ASSUME NEW s \in Senders, Purge(s)
        PROVE  TypeOK'
    BY <1>9 DEF Purge, TypeOK, bounds, history, Statuses
  <1>10. ASSUME NEW s \in Senders, Crash(s)
         PROVE  TypeOK'
    BY <1>10 DEF Crash, TypeOK
  <1>11. CASE UNCHANGED vars
    BY <1>11 DEF TypeOK, vars, sender, bounds, history
  <1> QED
    BY <1>1, <1>2, <1>3, <1>4, <1>5, <1>6, <1>7, <1>8, <1>9, <1>10, <1>11 DEF Next, Step

(* Type correctness of the outbox and its senders.                         *)
THEOREM TypeCorrect == Spec => []TypeOK
  <1>1. Init => TypeOK
    BY OutboxAssumption DEF Init, TypeOK, Statuses, Channels
  <1>2. TypeOK /\ [Next]_vars => TypeOK'
    BY TypeStep
  <1> QED
    BY <1>1, <1>2, PTL DEF Spec
------------------------------------------------------------------------------
(* Only a sending sender holds rows, and each of them in one place.        *)
InOnePlace ==
    \A s \in Senders :
        /\ pc[s] # "send" => Claimed(s) = {}
        /\ left[s] \cap (ok[s] \cup bad[s]) = {}
        /\ ok[s] \cap bad[s] = {}

(* A change not yet queued has no rows.                                    *)
QueuedInOrder ==
    \A r \in Rows : r[1] > queued => status[r] = "none"

(* What a sender counts as sent has been received.                         *)
OkReceived ==
    \A s \in Senders : \A r \in ok[s] : received[r] > 0

(* A pending row's saved attempts are failed tries of its own, and one more
   has failed when it is in a failed message not yet committed. *)
TriesCounted ==
    \A r \in Rows :
        /\ status[r] = "none" => attempts[r] = 0
        /\ status[r] = "pending" =>
             /\ attempts[r] < MaxAttempts
             /\ attempts[r] <= tries[r]
             /\ \A s \in Senders : r \in bad[s] => attempts[r] < tries[r]

OutboxInv == ClaimsExclusive /\ InOnePlace /\ QueuedInOrder /\ OkReceived /\ TriesCounted

(* A batch is claimed by this sender alone and not settled.                *)
LEMMA BatchPending ==
    ASSUME TypeOK, ClaimsExclusive, InOnePlace, NEW s \in Senders, NEW r \in Batch(s)
    PROVE  /\ r \in Rows
           /\ r \in left[s]
           /\ status[r] = "pending"
           /\ \A t \in Senders : r \notin ok[t] /\ r \notin bad[t]
  <1>1. r \in left[s] /\ r \in Claimed(s)
    BY BatchLeft DEF Claimed
  <1>2. \A t \in Senders : t # s => r \notin Claimed(t)
    BY <1>1 DEF ClaimsExclusive
  <1> QED
    BY <1>1, <1>2 DEF ClaimsExclusive, InOnePlace, TypeOK, Claimed

(* Claiming, sending, committing, deleting and crashing keep claims apart. *)
LEMMA ExclusiveStep ==
    ASSUME TypeOK, ClaimsExclusive, InOnePlace, QueuedInOrder, [Next]_vars
    PROVE  ClaimsExclusive' /\ InOnePlace'
  <1> USE OutboxAssumption
  <1>1. CASE Enqueue
    <2>1. \A r \in Rows : status[r] = "pending" => status'[r] = "pending"
      BY <1>1 DEF Enqueue
    <2> QED
      BY <1>1, <2>1 DEF Enqueue, ClaimsExclusive, InOnePlace, Claimed, sender, TypeOK
  <1>2. CASE Age
    BY <1>2 DEF Age, ClaimsExclusive, InOnePlace, Claimed, sender
  <1>3. ASSUME NEW r \in Rows, FallDue(r)
        PROVE  ClaimsExclusive' /\ InOnePlace'
    BY <1>3 DEF FallDue, ClaimsExclusive, InOnePlace, Claimed, sender
  <1>4. ASSUME NEW s \in Senders, Start(s)
        PROVE  ClaimsExclusive' /\ InOnePlace'
    BY <1>4 DEF Start, ClaimsExclusive, InOnePlace, Claimed, TypeOK
  <1>5. ASSUME NEW s \in Senders, Claim(s)
        PROVE  ClaimsExclusive' /\ InOnePlace'
    <2>1. \A t \in Senders : Claimed(t) \cap Claimable(s) = {}
      BY DEF Claimable, Locked
    <2>2. \A r \in Claimable(s) : status[r] = "pending"
      BY DEF Claimable
    <2>3. left[s] = {} /\ ok[s] = {} /\ bad[s] = {}
      BY <1>5 DEF Claim, InOnePlace, Claimed
    <2>4. CASE Claimable(s) = {}
      <3>1. \A t \in Senders : Claimed(t)' = Claimed(t)
        BY <1>5, <2>4 DEF Claim, Claimed
      <3>2. \A t \in Senders : t # s => pc'[t] = pc[t]
        BY <1>5, <2>4, NextChannelType DEF Claim
      <3> QED
        BY <1>5, <2>3, <2>4, <3>1, <3>2 DEF Claim, ClaimsExclusive, InOnePlace, Claimed
    <2>5. CASE Claimable(s) # {}
      <3>1. Claimed(s)' = Claimable(s)
        BY <1>5, <2>3, <2>5 DEF Claim, Claimed, TypeOK
      <3>2. \A t \in Senders : t # s => Claimed(t)' = Claimed(t) /\ pc'[t] = pc[t]
        BY <1>5, <2>5 DEF Claim, Claimed, TypeOK
      <3>3. ClaimsExclusive'
        BY <1>5, <2>1, <2>2, <2>5, <3>1, <3>2 DEF Claim, ClaimsExclusive
      <3>4. InOnePlace'
        BY <1>5, <2>3, <2>5, <3>2 DEF Claim, InOnePlace, TypeOK
      <3> QED
        BY <3>3, <3>4
    <2> QED
      BY <2>4, <2>5
  <1>6. ASSUME NEW s \in Senders, Deliver(s)
        PROVE  ClaimsExclusive' /\ InOnePlace'
    <2>1. Batch(s) \subseteq left[s]
      BY BatchLeft
    <2>2. \A t \in Senders : Claimed(t)' = Claimed(t)
      BY <1>6, <2>1 DEF Deliver, Claimed, TypeOK
    <2> QED
      BY <1>6, <2>1, <2>2 DEF Deliver, ClaimsExclusive, InOnePlace, TypeOK
  <1>7. ASSUME NEW s \in Senders, NEW accepted \in BOOLEAN, DeliverFails(s, accepted)
        PROVE  ClaimsExclusive' /\ InOnePlace'
    <2>1. Batch(s) \subseteq left[s]
      BY BatchLeft
    <2>2. \A t \in Senders : Claimed(t)' = Claimed(t)
      BY <1>7, <2>1 DEF DeliverFails, Claimed, TypeOK
    <2> QED
      BY <1>7, <2>1, <2>2 DEF DeliverFails, ClaimsExclusive, InOnePlace, TypeOK
  <1>8. ASSUME NEW s \in Senders, Commit(s)
        PROVE  ClaimsExclusive' /\ InOnePlace'
    <2>1. Claimed(s)' = {}
      BY <1>8 DEF Commit, Claimed, TypeOK
    <2>2. NextChannel(s)
      BY <1>8 DEF Commit
    <2>3. \A t \in Senders : t # s => Claimed(t)' = Claimed(t) /\ pc'[t] = pc[t]
      BY <1>8, <2>2, NextChannelType DEF Commit, Claimed, TypeOK
    <2>4. \A t \in Senders : t # s => \A r \in Claimed(t) : status'[r] = status[r]
      <3> SUFFICES ASSUME NEW t \in Senders, t # s, NEW r \in Claimed(t)
                   PROVE  status'[r] = status[r]
        OBVIOUS
      <3>1. r \in Rows /\ r \notin ok[s] /\ r \notin bad[s]
        BY DEF ClaimsExclusive, Claimed, TypeOK
      <3> QED
        BY <1>8, <3>1 DEF Commit, Outcome
    <2>5. ClaimsExclusive'
      BY <2>1, <2>3, <2>4 DEF ClaimsExclusive
    <2>6. InOnePlace'
      <3>1. \A t \in Senders : left'[t] = left[t] /\ ok'[t] \subseteq ok[t] /\ bad'[t] \subseteq bad[t]
        BY <1>8 DEF Commit, TypeOK
      <3> QED
        BY <2>1, <2>3, <3>1 DEF InOnePlace
    <2> QED
      BY <2>5, <2>6
  <1>9. ASSUME NEW s \in Senders, Purge(s)
        PROVE  ClaimsExclusive' /\ InOnePlace'
    <2>1. \A t \in Senders : Claimed(t)' = Claimed(t)
      BY <1>9 DEF Purge, Claimed
    <2>2. \A r \in Rows : status[r] = "pending" => status'[r] = "pending"
      BY <1>9 DEF Purge
    <2>3. \A t \in Senders : Claimed(t) \subseteq Rows
      BY DEF Claimed, TypeOK
    <2> QED
      BY <1>9, <2>1, <2>2, <2>3 DEF Purge, ClaimsExclusive, InOnePlace, TypeOK
  <1>10. ASSUME NEW s \in Senders, Crash(s)
         PROVE  ClaimsExclusive' /\ InOnePlace'
    <2>1. Claimed(s)' = {}
      BY <1>10 DEF Crash, Claimed, TypeOK
    <2>2. \A t \in Senders : t # s => Claimed(t)' = Claimed(t)
      BY <1>10 DEF Crash, Claimed, TypeOK
    <2> QED
      BY <1>10, <2>1, <2>2 DEF Crash, ClaimsExclusive, InOnePlace, TypeOK
  <1>11. CASE UNCHANGED vars
    BY <1>11 DEF ClaimsExclusive, InOnePlace, Claimed, vars, sender
  <1> QED
    BY <1>1, <1>2, <1>3, <1>4, <1>5, <1>6, <1>7, <1>8, <1>9, <1>10, <1>11 DEF Next, Step

(* The bookkeeping of attempts and receipts is kept by every action.       *)
LEMMA CountStep ==
    ASSUME TypeOK, OutboxInv, [Next]_vars
    PROVE  QueuedInOrder' /\ OkReceived' /\ TriesCounted'
  <1> USE OutboxAssumption DEF OutboxInv
  <1>1. CASE Enqueue
    <2>1. \A r \in {queued + 1} \X Configured : r \in Rows => status[r] = "none"
      BY DEF QueuedInOrder, TypeOK, Rows, Changes
    <2>2. \A s \in Senders : \A r \in bad[s] : r \in Rows /\ status[r] = "pending"
      BY DEF ClaimsExclusive, Claimed, TypeOK
    <2>3. QueuedInOrder'
      BY <1>1 DEF Enqueue, QueuedInOrder, TypeOK, Rows, Changes
    <2>4. OkReceived'
      BY <1>1 DEF Enqueue, OkReceived, sender, history
    <2>5. TriesCounted'
      BY <1>1, <2>1, <2>2 DEF Enqueue, TriesCounted, sender, history, TypeOK
    <2> QED
      BY <2>3, <2>4, <2>5
  <1>2. CASE Age
    BY <1>2 DEF Age, QueuedInOrder, OkReceived, TriesCounted, sender, history
  <1>3. ASSUME NEW r \in Rows, FallDue(r)
        PROVE  QueuedInOrder' /\ OkReceived' /\ TriesCounted'
    BY <1>3 DEF FallDue, QueuedInOrder, OkReceived, TriesCounted, sender, history
  <1>4. ASSUME NEW s \in Senders, Start(s)
        PROVE  QueuedInOrder' /\ OkReceived' /\ TriesCounted'
    BY <1>4 DEF Start, QueuedInOrder, OkReceived, TriesCounted, history
  <1>5. ASSUME NEW s \in Senders, Claim(s)
        PROVE  QueuedInOrder' /\ OkReceived' /\ TriesCounted'
    BY <1>5 DEF Claim, QueuedInOrder, OkReceived, TriesCounted, history
  <1>6. ASSUME NEW s \in Senders, Deliver(s)
        PROVE  QueuedInOrder' /\ OkReceived' /\ TriesCounted'
    <2>1. \A r \in Rows : received'[r] >= received[r] /\ (r \in Batch(s) => received'[r] > 0)
      BY <1>6 DEF Deliver, TypeOK
    <2>2. OkReceived'
      BY <1>6, <2>1, BatchPending DEF Deliver, OkReceived, TypeOK
    <2> QED
      BY <1>6, <2>2 DEF Deliver, QueuedInOrder, TriesCounted
  <1>7. ASSUME NEW s \in Senders, NEW accepted \in BOOLEAN, DeliverFails(s, accepted)
        PROVE  QueuedInOrder' /\ OkReceived' /\ TriesCounted'
    <2>1. \A r \in Rows : received'[r] >= received[r]
      BY <1>7 DEF DeliverFails, TypeOK
    <2>2. OkReceived'
      BY <1>7, <2>1 DEF DeliverFails, OkReceived, TypeOK
    <2>3. \A r \in Rows : tries'[r] >= tries[r]
      BY <1>7 DEF DeliverFails, Tried, TypeOK
    <2>4. \A r \in Batch(s) : r \in Rows /\ status[r] = "pending"
      BY BatchPending
    <2>5. \A r \in Batch(s) : attempts[r] < tries'[r]
      <3> SUFFICES ASSUME NEW r \in Batch(s) PROVE attempts[r] < tries'[r]
        OBVIOUS
      <3>1. attempts[r] \in Nat /\ tries[r] \in 0 .. MaxAttempts
        BY <2>4 DEF TypeOK
      <3>2. attempts[r] < MaxAttempts /\ attempts[r] <= tries[r]
        BY <2>4 DEF TriesCounted
      <3>3. tries'[r] = Tried(r)
        BY <1>7, <2>4 DEF DeliverFails
      <3> QED
        BY <3>1, <3>2, <3>3 DEF Tried
    <2>6. TriesCounted'
      <3> SUFFICES ASSUME NEW r \in Rows, status[r] = "pending"
                   PROVE  /\ attempts[r] <= tries'[r]
                          /\ \A t \in Senders : r \in bad'[t] => attempts[r] < tries'[r]
        BY <1>7 DEF DeliverFails, TriesCounted
      <3>1. attempts[r] \in Nat /\ tries[r] \in Nat /\ tries'[r] \in Nat
        BY <1>7 DEF TypeOK, DeliverFails, Tried
      <3>2. attempts[r] <= tries[r]
        BY DEF TriesCounted
      <3>3. \A t \in Senders : r \in bad'[t] => r \in bad[t] \/ r \in Batch(s)
        BY <1>7 DEF DeliverFails, TypeOK
      <3> QED
        BY <2>3, <2>5, <3>1, <3>2, <3>3 DEF TriesCounted
    <2> QED
      BY <1>7, <2>2, <2>6 DEF DeliverFails, QueuedInOrder
  <1>8. ASSUME NEW s \in Senders, Commit(s)
        PROVE  QueuedInOrder' /\ OkReceived' /\ TriesCounted'
    <2>1. \A r \in Claimed(s) : r \in Rows /\ status[r] = "pending"
      BY DEF ClaimsExclusive, Claimed, TypeOK
    <2>2. \A r \in Rows : status[r] # "pending" => status'[r] = status[r]
      BY <1>8, <2>1 DEF Commit, Outcome, Claimed
    <2>3. OkReceived'
      BY <1>8 DEF Commit, OkReceived, TypeOK, history
    <2>4. QueuedInOrder'
      BY <1>8, <2>2 DEF Commit, QueuedInOrder
    <2>5. TriesCounted'
      <3> SUFFICES ASSUME NEW r \in Rows
                   PROVE  /\ status'[r] = "none" => attempts'[r] = 0
                          /\ status'[r] = "pending" =>
                               /\ attempts'[r] < MaxAttempts
                               /\ attempts'[r] <= tries'[r]
                               /\ \A t \in Senders : r \in bad'[t] => attempts'[r] < tries'[r]
        BY DEF TriesCounted
      <3>1. attempts[r] \in Nat /\ tries[r] \in Nat /\ tries' = tries
        BY <1>8 DEF TypeOK, Commit, history
      <3>2. CASE r \notin Claimed(s)
        <4>1. status'[r] = status[r] /\ attempts'[r] = attempts[r]
          BY <1>8, <3>2 DEF Commit, Outcome, Claimed
        <4>2. \A t \in Senders : r \in bad'[t] => r \in bad[t]
          BY <1>8 DEF Commit, TypeOK
        <4> QED
          BY <3>1, <4>1, <4>2 DEF TriesCounted
      <3>3. CASE r \in ok[s]
        BY <1>8, <3>3 DEF Commit, Outcome
      <3>4. CASE r \in bad[s]
        <4>1. status[r] = "pending" /\ attempts[r] < tries[r]
          BY <2>1, <3>4 DEF TriesCounted, Claimed
        <4>2. attempts'[r] = attempts[r] + 1
          BY <1>8, <3>4 DEF Commit, Claimed
        <4>3. status'[r] = "none" => FALSE
          BY <1>8, <3>4, <4>1 DEF Commit, Outcome
        <4>4. status'[r] = "pending" => attempts[r] + 1 < MaxAttempts
          BY <1>8, <3>1, <3>4 DEF Commit, Outcome, GivesUp
        <4>5. \A t \in Senders : r \notin bad'[t]
          BY <1>8, <3>4 DEF Commit, ClaimsExclusive, Claimed, TypeOK
        <4> QED
          BY <3>1, <4>1, <4>2, <4>3, <4>4, <4>5
      <3> QED
        BY <1>8, <3>2, <3>3, <3>4 DEF Commit, Claimed
    <2> QED
      BY <2>3, <2>4, <2>5
  <1>9. ASSUME NEW s \in Senders, Purge(s)
        PROVE  QueuedInOrder' /\ OkReceived' /\ TriesCounted'
    BY <1>9 DEF Purge, QueuedInOrder, OkReceived, TriesCounted, history
  <1>10. ASSUME NEW s \in Senders, Crash(s)
         PROVE  QueuedInOrder' /\ OkReceived' /\ TriesCounted'
    <2>1. \A t \in Senders : ok'[t] \subseteq ok[t] /\ bad'[t] \subseteq bad[t]
      BY <1>10 DEF Crash, TypeOK
    <2> QED
      BY <1>10, <2>1 DEF Crash, QueuedInOrder, OkReceived, TriesCounted
  <1>11. CASE UNCHANGED vars
    BY <1>11 DEF QueuedInOrder, OkReceived, TriesCounted, vars, sender, history
  <1> QED
    BY <1>1, <1>2, <1>3, <1>4, <1>5, <1>6, <1>7, <1>8, <1>9, <1>10, <1>11 DEF Next, Step

(* OutboxInv is inductive.                                                 *)
LEMMA OutboxInvariant == Spec => []OutboxInv
  <1>1. Init => OutboxInv
    BY OutboxAssumption DEF Init, OutboxInv, ClaimsExclusive, InOnePlace, QueuedInOrder,
                            OkReceived, TriesCounted, Claimed
  <1>2. TypeOK /\ OutboxInv /\ [Next]_vars => OutboxInv'
    BY ExclusiveStep, CountStep DEF OutboxInv
  <1> QED
    BY <1>1, <1>2, TypeCorrect, PTL DEF Spec

(* Two senders never hold the same message, and nobody settles a message a
   sender holds: send_pending's claim, however many senders overlap. *)
THEOREM SendersNeverShare == Spec => []ClaimsExclusive
  BY OutboxInvariant, PTL DEF OutboxInv

(* Every copy beyond the first was delivered by a sender that stopped before
   its commit, or answered with an error that was not one. *)
THEOREM NoOtherDuplicate == Spec => []DuplicatesExplained
  <1> DEFINE Known(r) == status[r] \in {"sent", "deleted"} \/ \E s \in Senders : r \in ok[s]
             Bound(r) == received[r] <= resent[r] + (IF Known(r) THEN 1 ELSE 0)
  <1>1. Init => DuplicatesExplained
    BY DEF Init, DuplicatesExplained
  <1>2. TypeOK /\ OutboxInv /\ DuplicatesExplained /\ [Next]_vars => DuplicatesExplained'
    <2> SUFFICES ASSUME TypeOK, OutboxInv, DuplicatesExplained, [Next]_vars, NEW r \in Rows
                 PROVE  Bound(r)'
      BY DEF DuplicatesExplained
    <2> USE DEF OutboxInv
    <2>1. received[r] \in Nat /\ resent[r] \in Nat /\ received[r] <= resent[r] + 1
          /\ (~ Known(r) => received[r] <= resent[r])
      BY DEF DuplicatesExplained, TypeOK
    <2>2. ASSUME UNCHANGED <<received, resent>>, Known(r) => Known(r)'
          PROVE  Bound(r)'
      BY <2>1, <2>2
    <2>3. CASE Enqueue
      <3>1. status[r] \in {"sent", "deleted"} => status'[r] = status[r]
        BY <2>3, OutboxAssumption DEF Enqueue, QueuedInOrder, TypeOK, Rows, Changes
      <3>2. Known(r) => Known(r)'
        BY <2>3, <3>1 DEF Enqueue, sender
      <3> QED
        BY <2>2, <2>3, <3>2 DEF Enqueue, history
    <2>4. CASE Age
      BY <2>2, <2>4 DEF Age, sender, history
    <2>5. CASE \E q \in Rows : FallDue(q)
      BY <2>2, <2>5 DEF FallDue, sender, history
    <2>6. ASSUME NEW s \in Senders, Start(s) \/ Claim(s)
          PROVE  Bound(r)'
      BY <2>2, <2>6 DEF Start, Claim, history
    <2>7. ASSUME NEW s \in Senders, Deliver(s)
          PROVE  Bound(r)'
      <3>1. CASE r \in Batch(s)
        <4>1. ~ Known(r)
          BY <3>1, BatchPending
        <4>2. received'[r] = received[r] + 1 /\ resent' = resent
          BY <2>7, <3>1 DEF Deliver
        <4>3. Known(r)'
          BY <2>7, <3>1 DEF Deliver, TypeOK
        <4> QED
          BY <2>1, <4>1, <4>2, <4>3
      <3>2. CASE r \notin Batch(s)
        <4>1. received'[r] = received[r] /\ resent' = resent
          BY <2>7, <3>2 DEF Deliver
        <4>2. Known(r) => Known(r)'
          BY <2>7 DEF Deliver, TypeOK
        <4> QED
          BY <2>1, <4>1, <4>2
      <3> QED
        BY <3>1, <3>2
    <2>8. ASSUME NEW s \in Senders, NEW accepted \in BOOLEAN, DeliverFails(s, accepted)
          PROVE  Bound(r)'
      <3>1. \/ received'[r] = received[r] /\ resent'[r] = resent[r]
            \/ received'[r] = received[r] + 1 /\ resent'[r] = resent[r] + 1
        BY <2>8 DEF DeliverFails
      <3>2. Known(r) => Known(r)'
        BY <2>8 DEF DeliverFails
      <3> QED
        BY <2>1, <3>1, <3>2
    <2>9. ASSUME NEW s \in Senders, Commit(s)
          PROVE  Bound(r)'
      <3>1. status[r] \in {"sent", "deleted"} => status'[r] = status[r]
        BY <2>9 DEF Commit, Outcome, ClaimsExclusive, Claimed
      <3>2. \A t \in Senders : r \in ok[t] => r \in ok'[t] \/ status'[r] = "sent"
        BY <2>9 DEF Commit, Outcome, TypeOK
      <3> QED
        BY <2>2, <2>9, <3>1, <3>2 DEF Commit, history
    <2>10. ASSUME NEW s \in Senders, Purge(s)
           PROVE  Bound(r)'
      BY <2>2, <2>10 DEF Purge, history
    <2>11. ASSUME NEW s \in Senders, Crash(s)
           PROVE  Bound(r)'
      <3>1. CASE r \in ok[s]
        BY <2>1, <2>11, <3>1 DEF Crash
      <3>2. CASE r \notin ok[s]
        BY <2>1, <2>11, <3>2 DEF Crash, TypeOK
      <3> QED
        BY <3>1, <3>2
    <2>12. CASE UNCHANGED vars
      BY <2>2, <2>12 DEF vars, sender, history
    <2> QED
      BY <2>3, <2>4, <2>5, <2>6, <2>7, <2>8, <2>9, <2>10, <2>11, <2>12 DEF Next, Step
  <1> QED
    BY <1>1, <1>2, TypeCorrect, OutboxInvariant, PTL DEF Spec

(* The outbox implements AtLeastOnce: claims, batches, transactions, crashes
   and the clean-up add nothing a receiver could tell from it. *)
THEOREM OutboxImplements == Spec => DeliversAtLeastOnce
  <1> DEFINE fate == [r \in Rows |-> IF status[r] = "pending" THEN "queued" ELSE status[r]]
  <1>1. Init => Promise!Init
    BY DEF Init, Promise!Init
  <1>2. TypeOK /\ OutboxInv /\ [Next]_vars => [Promise!Next]_(Promise!vars)
    <2> SUFFICES ASSUME TypeOK, OutboxInv, [Next]_vars
                 PROVE  Promise!Next \/ UNCHANGED Promise!vars
      OBVIOUS
    <2> USE DEF OutboxInv
    <2>1. CASE Enqueue
      <3> DEFINE new == {queued + 1} \X Configured
      <3>1. new \in SUBSET Rows /\ \A r \in new : status[r] = "none"
        BY <2>1, OutboxAssumption DEF Enqueue, QueuedInOrder, TypeOK, Rows, Changes
      <3>2. PICK M \in SUBSET Rows : M = new
        BY <3>1
      <3>3. Promise!Queue(M)
        BY <2>1, <3>1, <3>2 DEF Enqueue, Promise!Queue, history
      <3> QED
        BY <3>3 DEF Promise!Next
    <2>2. ASSUME UNCHANGED <<status, received, tries>>
          PROVE  UNCHANGED Promise!vars
      BY <2>2 DEF Promise!vars
    <2>3. CASE Age \/ \E r \in Rows : FallDue(r)
      BY <2>2, <2>3 DEF Age, FallDue, history
    <2>4. ASSUME NEW s \in Senders, Start(s) \/ Claim(s) \/ Crash(s)
          PROVE  UNCHANGED Promise!vars
      BY <2>2, <2>4 DEF Start, Claim, Crash, history
    <2>5. ASSUME NEW s \in Senders, Deliver(s)
          PROVE  Promise!Next
      <3>1. Batch(s) \in SUBSET Rows /\ \A r \in Batch(s) : status[r] = "pending"
        BY BatchPending
      <3>2. Promise!Receive(Batch(s))
        BY <2>5, <3>1 DEF Deliver, Promise!Receive
      <3> QED
        BY <3>1, <3>2 DEF Promise!Next
    <2>6. ASSUME NEW s \in Senders, NEW accepted \in BOOLEAN, DeliverFails(s, accepted)
          PROVE  Promise!Next
      <3>1. Batch(s) \in SUBSET Rows /\ \A r \in Batch(s) : status[r] = "pending"
        BY BatchPending
      <3>2. Promise!Fail(Batch(s), accepted)
        BY <2>6, <3>1 DEF DeliverFails, Promise!Fail, Tried
      <3> QED
        BY <3>1, <3>2 DEF Promise!Next
    <2>7. ASSUME NEW s \in Senders, Commit(s)
          PROVE  Promise!Next
      <3> DEFINE gaveUp == {r \in bad[s] : GivesUp(s, r)}
      <3>1. ok[s] \in SUBSET Rows /\ gaveUp \in SUBSET Rows
        BY DEF TypeOK
      <3>2. \A r \in ok[s] \cup gaveUp : status[r] = "pending"
        BY DEF ClaimsExclusive, Claimed
      <3>3. \A r \in ok[s] : received[r] > 0
        BY DEF OkReceived
      <3>4. \A r \in gaveUp : tries[r] = MaxAttempts
        <4> SUFFICES ASSUME NEW r \in gaveUp PROVE tries[r] = MaxAttempts
          OBVIOUS
        <4>1. attempts[r] \in Nat /\ tries[r] \in 0 .. MaxAttempts /\ MaxAttempts \in Nat
          BY <3>1, OutboxAssumption DEF TypeOK
        <4>2. attempts[r] < tries[r]
          BY <3>1, <3>2 DEF TriesCounted
        <4>3. attempts[r] + 1 >= MaxAttempts
          BY DEF GivesUp
        <4> QED
          BY <4>1, <4>2, <4>3
      <3>5. \A r \in Rows : status'[r] = IF r \in ok[s] THEN "sent"
                                         ELSE IF r \in gaveUp THEN "failed" ELSE status[r]
        BY <2>7 DEF Commit, Outcome
      <3>6. fate' = [r \in Rows |-> IF r \in ok[s] THEN "sent"
                                    ELSE IF r \in gaveUp THEN "failed" ELSE fate[r]]
        BY <3>5
      <3>7. UNCHANGED <<received, tries>>
        BY <2>7 DEF Commit, history
      <3>8. PICK F \in SUBSET Rows : F = gaveUp
        BY <3>1
      <3>9. Promise!Settle(ok[s], F)
        BY <3>1, <3>2, <3>3, <3>4, <3>6, <3>7, <3>8 DEF Promise!Settle
      <3> QED
        BY <3>1, <3>9 DEF Promise!Next
    <2>8. ASSUME NEW s \in Senders, Purge(s)
          PROVE  Promise!Next
      <3> DEFINE gone == {r \in old : status[r] \in {"sent", "failed"}}
      <3>1. gone \in SUBSET Rows
        BY DEF TypeOK
      <3>2. PICK M \in SUBSET Rows : M = gone
        BY <3>1
      <3>3. Promise!Delete(M)
        BY <2>8, <3>2 DEF Purge, Promise!Delete, history
      <3> QED
        BY <3>3 DEF Promise!Next
    <2>9. CASE UNCHANGED vars
      BY <2>2, <2>9 DEF vars, history
    <2> QED
      BY <2>1, <2>3, <2>4, <2>5, <2>6, <2>7, <2>8, <2>9 DEF Next, Step
  <1> QED
    BY <1>1, <1>2, TypeCorrect, OutboxInvariant, PTL DEF Spec, DeliversAtLeastOnce, Promise!Spec
==============================================================================
