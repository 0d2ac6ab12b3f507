-------------------------- MODULE NotificationOutbox -------------------------
(***************************************************************************)
(* The notification outbox: one row per level change and channel, written  *)
(* in the transaction that logs the change, and sent later.                *)
(*                                                                         *)
(* A sender is a call of send_pending: the scheduler's tick before its     *)
(* sync, or the rebuild of the board afterwards.  They work under the      *)
(* "background_scheduler" lock, which the database session loses with its  *)
(* connection while the process goes on; two senders can then overlap, and *)
(* what keeps them apart is the claim (FOR UPDATE SKIP LOCKED).  A channel *)
(* is one transaction: its outcomes are saved together at the end, after   *)
(* all its messages have left the process.                                 *)
(***************************************************************************)
EXTENDS Naturals, FiniteSets

CONSTANTS
    NChannels,          \* CHANNELS: webhook, teams, email, in this order
    Configured,         \* the channels whose settings are filled in
    Senders,
    MaxAttempts,        \* MAX_ATTEMPTS
    SummaryThreshold,   \* NOTIFY_SUMMARY_THRESHOLD
    SummaryMaxEvents,   \* SUMMARY_MAX_EVENTS
    MaxChanges,         \* bound: level changes that notify
    MaxCrashes,         \* bound: crashes, or lost connections, of a sender
    MaxUnclear          \* bound: requests accepted whose answer was lost

Channels == 1 .. NChannels
Changes  == 1 .. MaxChanges
Rows     == Changes \X Channels     \* <<change, channel>>, in the order of id

ASSUME OutboxAssumption ==
    /\ NChannels \in Nat \ {0}
    /\ Configured \subseteq Channels
    /\ MaxAttempts \in Nat \ {0}
    /\ SummaryThreshold \in Nat
    /\ SummaryMaxEvents \in Nat \ {0}
    /\ MaxChanges \in Nat
    /\ MaxCrashes \in Nat
    /\ MaxUnclear \in Nat

VARIABLES
    queued,     \* how many changes have been queued
    status,     \* [Rows -> {"none", "pending", "sent", "failed", "deleted"}]
    attempts,   \* [Rows -> Nat] the saved count
    due,        \* rows whose next_attempt_at has come
    old,        \* rows created more than KEEP_DAYS ago
    pc,         \* [Senders -> {"idle", "claim", "send", "purge"}]
    channel,    \* [Senders -> Channels]
    left,       \* [Senders -> SUBSET Rows] claimed, still to be sent
    ok, bad,    \* [Senders -> SUBSET Rows] claimed, and what came of them
    size,       \* [Senders -> Nat] rows per message: more than one in summaries
    crashes, unclear,
    received,   \* history, [Rows -> Nat]: copies the receiver accepted
    resent,     \* history, [Rows -> Nat]: accepted copies the app does not know of
    tries       \* history, [Rows -> 0..MaxAttempts]: failed tries

sender  == <<pc, channel, left, ok, bad, size>>
bounds  == <<crashes, unclear>>
history == <<received, resent, tries>>
vars    == <<queued, status, attempts, due, old, sender, bounds, history>>

Init ==
    /\ queued = 0
    /\ status = [r \in Rows |-> "none"]
    /\ attempts = [r \in Rows |-> 0]
    /\ due = {} /\ old = {}
    /\ pc = [s \in Senders |-> "idle"]
    /\ channel = [s \in Senders |-> 1]
    /\ left = [s \in Senders |-> {}]
    /\ ok = [s \in Senders |-> {}]
    /\ bad = [s \in Senders |-> {}]
    /\ size = [s \in Senders |-> 1]
    /\ crashes = 0 /\ unclear = 0
    /\ received = [r \in Rows |-> 0]
    /\ resent = [r \in Rows |-> 0]
    /\ tries = [r \in Rows |-> 0]
------------------------------------------------------------------------------
(* The rows a sender's open transaction holds locked.                      *)
Claimed(s) == left[s] \cup ok[s] \cup bad[s]
Locked     == UNION {Claimed(s) : s \in Senders}

(* enqueue_change, once the rules have found a message to send: a row per
   configured channel, due at once. *)
Enqueue ==
    /\ queued < MaxChanges
    /\ queued' = queued + 1
    /\ LET new == {queued + 1} \X Configured IN
       /\ status' = [r \in Rows |-> IF r \in new THEN "pending" ELSE status[r]]
       /\ due' = due \cup new
    /\ UNCHANGED <<attempts, old, sender, bounds, history>>

(* A retry's delay passes.                                                 *)
FallDue(r) ==
    /\ status[r] = "pending" /\ r \notin due
    /\ due' = due \cup {r}
    /\ UNCHANGED <<queued, status, attempts, old, sender, bounds, history>>

(* KEEP_DAYS pass: everything queued so far is old.                        *)
Age ==
    LET stored == {r \in Rows : status[r] \in {"pending", "sent", "failed"}} IN
    /\ ~ stored \subseteq old
    /\ old' = old \cup stored
    /\ UNCHANGED <<queued, status, attempts, due, sender, bounds, history>>
------------------------------------------------------------------------------
(* send_pending takes the channels in order, then deletes what is old.     *)
Start(s) ==
    /\ pc[s] = "idle"
    /\ pc' = [pc EXCEPT ![s] = "claim"]
    /\ channel' = [channel EXCEPT ![s] = 1]
    /\ UNCHANGED <<queued, status, attempts, due, old, left, ok, bad, size,
                   bounds, history>>

NextChannel(s) ==
    IF channel[s] < NChannels
    THEN /\ pc' = [pc EXCEPT ![s] = "claim"]
         /\ channel' = [channel EXCEPT ![s] = channel[s] + 1]
    ELSE /\ pc' = [pc EXCEPT ![s] = "purge"]
         /\ channel' = channel

(* A slip in the claim: rows another sender is sending are taken too.      *)
ClaimableUnlocked(s) == {r \in due : r[2] = channel[s] /\ status[r] = "pending"}

(* SELECT ... FOR UPDATE SKIP LOCKED: the channel's pending rows that are
   due and in nobody else's transaction. *)
Claimable(s) ==
    {r \in due \ Locked : r[2] = channel[s] /\ status[r] = "pending"}

Claim(s) ==
    /\ pc[s] = "claim"
    /\ IF Claimable(s) = {}
       THEN NextChannel(s) /\ UNCHANGED <<left, size>>
       ELSE /\ pc' = [pc EXCEPT ![s] = "send"]
            /\ left' = [left EXCEPT ![s] = Claimable(s)]
            /\ size' = [size EXCEPT ![s] =
                          IF Cardinality(Claimable(s)) > SummaryThreshold
                          THEN SummaryMaxEvents ELSE 1]
            /\ channel' = channel
    /\ UNCHANGED <<queued, status, attempts, due, old, ok, bad, bounds, history>>

(* The next message: a summary's rows in the order of id, or one row.      *)
Batch(s) ==
    {r \in left[s] : Cardinality({q \in left[s] : q[1] < r[1]}) < size[s]}

(* deliver() returned: the receiver accepted the message.                  *)
Deliver(s) ==
    /\ pc[s] = "send" /\ left[s] # {}
    /\ left' = [left EXCEPT ![s] = left[s] \ Batch(s)]
    /\ ok' = [ok EXCEPT ![s] = ok[s] \cup Batch(s)]
    /\ received' = [r \in Rows |-> IF r \in Batch(s) THEN received[r] + 1
                                   ELSE received[r]]
    /\ UNCHANGED <<queued, status, attempts, due, old, pc, channel, bad, size,
                   bounds, resent, tries>>

Tried(r) == IF tries[r] < MaxAttempts THEN tries[r] + 1 ELSE tries[r]

(* deliver() raised: refused, or the answer was lost on its way back and
   the receiver has the message after all. *)
DeliverFails(s, accepted) ==
    /\ pc[s] = "send" /\ left[s] # {}
    /\ accepted => unclear < MaxUnclear
    /\ unclear' = IF accepted THEN unclear + 1 ELSE unclear
    /\ left' = [left EXCEPT ![s] = left[s] \ Batch(s)]
    /\ bad' = [bad EXCEPT ![s] = bad[s] \cup Batch(s)]
    /\ tries' = [r \in Rows |-> IF r \in Batch(s) THEN Tried(r) ELSE tries[r]]
    /\ received' = [r \in Rows |-> IF r \in Batch(s) /\ accepted
                                   THEN received[r] + 1 ELSE received[r]]
    /\ resent' = [r \in Rows |-> IF r \in Batch(s) /\ accepted
                                 THEN resent[r] + 1 ELSE resent[r]]
    /\ UNCHANGED <<queued, status, attempts, due, old, pc, channel, ok, size,
                   crashes>>

(* A slip: the whole summary shares the count of its oldest row.           *)
GivesUpTogether(s, r) == \E q \in bad[s] : attempts[q] + 1 >= MaxAttempts

(* Each row counts its own attempts, also in a summary.                    *)
GivesUp(s, r) == attempts[r] + 1 >= MaxAttempts

(* A slip: the limit is looked at before the result of the last try.       *)
OutcomeLastTry(s, r) ==
    IF r \in ok[s] \cup bad[s] /\ GivesUp(s, r) THEN "failed"
    ELSE IF r \in ok[s] THEN "sent"
    ELSE status[r]

(* The rows' outcome: sent; failed once a try too many failed; else due
   again after retry_delay. *)
Outcome(s, r) ==
    IF r \in ok[s] THEN "sent"
    ELSE IF r \in bad[s] /\ GivesUp(s, r) THEN "failed"
    ELSE status[r]

(* A slip: the retry count is not saved.                                   *)
CommitWithoutAttempts(s) ==
    /\ pc[s] = "send" /\ left[s] = {}
    /\ status' = [r \in Rows |-> Outcome(s, r)]
    /\ due' = due \ bad[s]
    /\ ok' = [ok EXCEPT ![s] = {}]
    /\ bad' = [bad EXCEPT ![s] = {}]
    /\ NextChannel(s)
    /\ UNCHANGED <<queued, attempts, old, left, size, bounds, history>>

(* The channel's transaction commits.                                      *)
Commit(s) ==
    /\ pc[s] = "send" /\ left[s] = {}
    /\ status' = [r \in Rows |-> Outcome(s, r)]
    /\ attempts' = [r \in Rows |-> IF r \in Claimed(s) THEN attempts[r] + 1
                                   ELSE attempts[r]]
    /\ due' = due \ bad[s]
    /\ ok' = [ok EXCEPT ![s] = {}]
    /\ bad' = [bad EXCEPT ![s] = {}]
    /\ NextChannel(s)
    /\ UNCHANGED <<queued, old, left, size, bounds, history>>

(* Sent and failed rows older than KEEP_DAYS go; pending ones stay.        *)
Purge(s) ==
    /\ pc[s] = "purge"
    /\ pc' = [pc EXCEPT ![s] = "idle"]
    /\ status' = [r \in Rows |-> IF r \in old /\ status[r] \in {"sent", "failed"}
                                 THEN "deleted" ELSE status[r]]
    /\ UNCHANGED <<queued, attempts, due, old, channel, left, ok, bad, size,
                   bounds, history>>

(* The process dies or its connection breaks: PostgreSQL rolls the open
   transaction back, but what was delivered stays delivered. *)
Crash(s) ==
    /\ pc[s] # "idle"
    /\ crashes < MaxCrashes
    /\ crashes' = crashes + 1
    /\ pc' = [pc EXCEPT ![s] = "idle"]
    /\ left' = [left EXCEPT ![s] = {}]
    /\ ok' = [ok EXCEPT ![s] = {}]
    /\ bad' = [bad EXCEPT ![s] = {}]
    /\ resent' = [r \in Rows |-> IF r \in ok[s] THEN resent[r] + 1 ELSE resent[r]]
    /\ UNCHANGED <<queued, status, attempts, due, old, channel, size, unclear,
                   received, tries>>
------------------------------------------------------------------------------
Step(s) ==
    \/ Start(s) \/ Claim(s) \/ Deliver(s) \/ DeliverFails(s, FALSE)
    \/ Commit(s) \/ Purge(s)

Next ==
    \/ Enqueue \/ Age
    \/ \E r \in Rows : FallDue(r)
    \/ \E s \in Senders : Step(s) \/ DeliverFails(s, TRUE) \/ Crash(s)

Spec == Init /\ [][Next]_vars

(* The loop ticks for ever, a request ends within SEND_TIMEOUT_SECONDS, and
   time passes. *)
Fairness ==
    /\ \A s \in Senders : WF_vars(Step(s))
    /\ \A r \in Rows : WF_vars(FallDue(r))

FairSpec == Spec /\ Fairness
------------------------------------------------------------------------------
Statuses == {"none", "pending", "sent", "failed", "deleted"}

(* Rows and senders keep their types; a sender stays within CHANNELS, and no
   row counts more failed tries than the limit. *)
TypeOK ==
    /\ queued \in 0 .. MaxChanges
    /\ status \in [Rows -> Statuses]
    /\ attempts \in [Rows -> Nat]
    /\ due \in SUBSET Rows
    /\ old \in SUBSET Rows
    /\ pc \in [Senders -> {"idle", "claim", "send", "purge"}]
    /\ channel \in [Senders -> Channels]
    /\ left \in [Senders -> SUBSET Rows]
    /\ ok \in [Senders -> SUBSET Rows]
    /\ bad \in [Senders -> SUBSET Rows]
    /\ size \in [Senders -> Nat]
    /\ crashes \in Nat /\ unclear \in Nat
    /\ received \in [Rows -> Nat]
    /\ resent \in [Rows -> Nat]
    /\ tries \in [Rows -> 0 .. MaxAttempts]

(* Two senders never take the same message (FOR UPDATE SKIP LOCKED), and
   what a sender has taken is not settled by anyone else meanwhile. *)
ClaimsExclusive ==
    /\ \A s, t \in Senders : s # t => Claimed(s) \cap Claimed(t) = {}
    /\ \A s \in Senders : \A r \in Claimed(s) : status[r] = "pending"

(* A receiver gets a message twice only because a sender stopped between
   delivery and commit, or the receiver's own answer was lost: never because
   of a retry, a summary or a second sender. *)
DuplicatesExplained ==
    \A r \in Rows :
        received[r] <= resent[r] +
            (IF status[r] \in {"sent", "deleted"} \/ \E s \in Senders : r \in ok[s]
             THEN 1 ELSE 0)

(* The outbox keeps the promise of AtLeastOnce: sent means received, given
   up means MaxAttempts failed tries of that very message, and neither a
   crash nor the clean-up loses a pending one. *)
Promise == INSTANCE AtLeastOnce WITH
    Messages <- Rows,
    fate <- [r \in Rows |-> IF status[r] = "pending" THEN "queued" ELSE status[r]],
    got <- received,
    tries <- tries
DeliversAtLeastOnce == Promise!Spec

(* Every queued message is sent or given up in the end, whatever crashes,
   fails or overlaps: none stays pending for good. *)
MessagesSettled == \A r \in Rows : []<>(status[r] # "pending")
==============================================================================
