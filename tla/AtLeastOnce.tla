----------------------------- MODULE AtLeastOnce -----------------------------
(***************************************************************************)
(* What the notification outbox promises, with neither senders nor         *)
(* transactions: a queued message stays queued until it is settled; it is  *)
(* settled as sent only once its receiver has it, and given up only after  *)
(* MaxAttempts failed tries of its own; nothing reaches a receiver before  *)
(* it is queued or after it is settled.                                    *)
(***************************************************************************)
EXTENDS Naturals

CONSTANTS Messages, MaxAttempts

VARIABLES
    fate,   \* [Messages -> {"none", "queued", "sent", "failed", "deleted"}]
    got,    \* [Messages -> Nat] how often the receiver has it
    tries   \* [Messages -> 0..MaxAttempts] failed tries, counted up to the limit

vars == <<fate, got, tries>>

Init ==
    /\ fate = [m \in Messages |-> "none"]
    /\ got = [m \in Messages |-> 0]
    /\ tries = [m \in Messages |-> 0]

Queue(M) ==
    /\ \A m \in M : fate[m] = "none"
    /\ fate' = [m \in Messages |-> IF m \in M THEN "queued" ELSE fate[m]]
    /\ UNCHANGED <<got, tries>>

(* One request carries the messages M; the receiver takes all or none.     *)
Receive(M) ==
    /\ \A m \in M : fate[m] = "queued"
    /\ got' = [m \in Messages |-> IF m \in M THEN got[m] + 1 ELSE got[m]]
    /\ UNCHANGED <<fate, tries>>

(* The try looked like a failure; the receiver may have the messages still. *)
Fail(M, received) ==
    /\ \A m \in M : fate[m] = "queued"
    /\ tries' = [m \in Messages |-> IF m \in M /\ tries[m] < MaxAttempts
                                    THEN tries[m] + 1 ELSE tries[m]]
    /\ got' = [m \in Messages |-> IF m \in M /\ received THEN got[m] + 1 ELSE got[m]]
    /\ fate' = fate

Settle(S, F) ==
    /\ \A m \in S \cup F : fate[m] = "queued"
    /\ \A m \in S : got[m] > 0
    /\ \A m \in F : tries[m] = MaxAttempts
    /\ fate' = [m \in Messages |-> IF m \in S THEN "sent"
                                   ELSE IF m \in F THEN "failed" ELSE fate[m]]
    /\ UNCHANGED <<got, tries>>

Delete(M) ==
    /\ \A m \in M : fate[m] \in {"sent", "failed"}
    /\ fate' = [m \in Messages |-> IF m \in M THEN "deleted" ELSE fate[m]]
    /\ UNCHANGED <<got, tries>>

Next ==
    \/ \E M \in SUBSET Messages : Queue(M) \/ Receive(M) \/ Delete(M)
    \/ \E M \in SUBSET Messages, received \in BOOLEAN : Fail(M, received)
    \/ \E S, F \in SUBSET Messages : Settle(S, F)

Spec == Init /\ [][Next]_vars
==============================================================================
