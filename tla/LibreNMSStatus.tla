--------------------------- MODULE LibreNMSStatus ---------------------------
(***************************************************************************)
(* The cached LibreNMS statuses, written by the sync of all devices and by *)
(* the refresh of one device after a push.                                 *)
(*                                                                         *)
(* A request takes a number from librenms_observation_seq, asks LibreNMS,  *)
(* and stores the answer in one transaction.  Pushes run at any time, in   *)
(* any number; syncs one at a time (the "inventory_snapshot_sync" lock).   *)
(* LibreNMS's devices come, change and go meanwhile.  A status is          *)
(* abstracted to the change that set it.                                   *)
(***************************************************************************)
EXTENDS Naturals, Sequences

CONSTANTS
    Devices,      \* devices LibreNMS may have
    Pushes,       \* threads that handle a push
    Sync,         \* the thread that holds the sync lock, none of Pushes
    MaxChanges,   \* bound: changes in LibreNMS
    MaxRequests,  \* bound: numbers taken
    MaxFaults,    \* bound: failed requests, crashes and empty answers
    None

Requests == Pushes \cup {Sync}

ASSUME StatusAssumption ==
    /\ Sync \notin Pushes
    /\ None \notin [seq : Nat, at : Nat]   \* None is no row

VARIABLES
    changes,   \* changes in LibreNMS so far
    there,     \* devices LibreNMS has
    at,        \* [Devices -> Nat] the change that last concerned a device
    base,      \* history: at, as it was when number i was taken, for each i
    status,    \* [Devices -> [seq, at], or None] librenms_device_status
    done,      \* history, [Devices -> Nat]: the highest number whose answer
               \* about the device was used
    pc,        \* [Requests -> {"idle", "asking", "answered"}]
    obs,       \* [Requests -> Nat] the number taken
    target,    \* [Requests -> SUBSET Devices] the devices asked for
    found,     \* [Requests -> SUBSET Devices] those in the answer
    answer,    \* [Requests -> [Devices -> Nat]] their status in it
    faults

remote == <<changes, there, at>>
local  == <<pc, obs, target, found, answer>>
statusVars == <<remote, base, status, done, local, faults>>

StatusInit ==
    /\ changes = 0 /\ there \in SUBSET Devices /\ at = [d \in Devices |-> 0]
    /\ base = <<>>
    /\ status \in [Devices -> {None, [seq |-> 0, at |-> 0]}]   \* 0: observed_seq IS NULL
    /\ done = [d \in Devices |-> 0]
    /\ pc = [r \in Requests |-> "idle"]
    /\ obs = [r \in Requests |-> 0]
    /\ target = [r \in Requests |-> {}]
    /\ found = [r \in Requests |-> {}]
    /\ answer = [r \in Requests |-> at]
    /\ faults = 0
-----------------------------------------------------------------------------
(* A device is added, goes up or down, or is removed.                      *)
Change(d) ==
    /\ changes < MaxChanges
    /\ changes' = changes + 1
    /\ at' = [at EXCEPT ![d] = changes + 1]
    /\ \/ there' = there \cup {d}
       \/ d \in there /\ there' = there \ {d}
    /\ UNCHANGED <<base, status, done, local, faults>>

(* librenms_observation: the number is taken before the request is sent.   *)
Ask(r, ds) ==
    /\ pc[r] = "idle" /\ Len(base) < MaxRequests
    /\ base' = Append(base, at)
    /\ pc' = [pc EXCEPT ![r] = "asking"]
    /\ obs' = [obs EXCEPT ![r] = Len(base) + 1]
    /\ target' = [target EXCEPT ![r] = ds]
    /\ UNCHANGED <<remote, status, done, found, answer, faults>>

(* The number given up, or used: nothing is left of the request.           *)
Over(r) ==
    /\ pc' = [pc EXCEPT ![r] = "idle"]
    /\ obs' = [obs EXCEPT ![r] = 0]
    /\ target' = [target EXCEPT ![r] = {}]
    /\ found' = [found EXCEPT ![r] = {}]
    /\ answer' = [answer EXCEPT ![r] = [d \in Devices |-> 0]]

(* LibreNMS reads the devices at some time before it answers.  A faulty
   answer to a sync is an empty list. *)
Answer(r) ==
    /\ pc[r] = "asking"
    /\ pc' = [pc EXCEPT ![r] = "answered"]
    /\ \/ found' = [found EXCEPT ![r] = target[r] \cap there] /\ UNCHANGED faults
       \/ /\ r = Sync /\ faults < MaxFaults
          /\ faults' = faults + 1
          /\ found' = [found EXCEPT ![r] = {}]
    /\ answer' = [answer EXCEPT ![r] = [d \in Devices |-> IF d \in found'[r] THEN at[d] ELSE 0]]
    /\ UNCHANGED <<remote, base, status, done, obs, target>>

(* The request fails, or its process dies.                                 *)
Fail(r) ==
    /\ pc[r] # "idle" /\ faults < MaxFaults
    /\ faults' = faults + 1
    /\ Over(r)
    /\ UNCHANGED <<remote, base, status, done>>
-----------------------------------------------------------------------------
(* A slip: without WHERE observed_seq < ...                                *)
NewerAlways(d, n) == TRUE

(* WHERE observed_seq IS NULL OR observed_seq < the request's number.      *)
Newer(d, n) == status[d] # None /\ status[d].seq < n

(* What is written for a device in the answer.                             *)
Row(r, d) == [seq |-> obs[r], at |-> answer[r][d]]

(* The answer about these devices has been used.                           *)
Done(r, ds) ==
    done' = [d \in Devices |-> IF d \in ds /\ obs[r] > done[d] THEN obs[r] ELSE done[d]]

(* A slip: INSERT ... ON CONFLICT, as in the sync.                         *)
ReplacedInserting(r, d) == d \in found[r] /\ (status[d] = None \/ Newer(d, obs[r]))

(* The rows a push replaces: only those that are cached.                   *)
Replaced(r, d) == d \in found[r] /\ Newer(d, obs[r])

(* librenms_push_refresh, with its answer; a device LibreNMS does not know
   is left to the next sync. *)
StorePush(r) ==
    /\ r \in Pushes /\ pc[r] = "answered"
    /\ status' = [d \in Devices |-> IF Replaced(r, d) THEN Row(r, d) ELSE status[d]]
    /\ Done(r, {d \in found[r] : status[d] # None})
    /\ Over(r)
    /\ UNCHANGED <<remote, base, faults>>

(* A slip: an empty answer is stored like any other.                       *)
EmptyDatasetStored(r) == FALSE

(* "LibreNMS refresh returned an empty dataset; keeping the existing ..."  *)
EmptyDataset(r) == found[r] = {} /\ \E d \in Devices : status[d] # None

(* A row after the sync: written when the device is in the answer, deleted
   when it is not, unless a newer answer has been stored. *)
Synced(r, d) ==
    IF status[d] # None /\ ~ Newer(d, obs[r]) THEN status[d]
    ELSE IF d \in found[r] THEN Row(r, d) ELSE None

(* sync_librenms, with its answer: the rows, or an error.                  *)
StoreSync ==
    /\ pc[Sync] = "answered"
    /\ IF EmptyDataset(Sync)
       THEN UNCHANGED <<status, done>>
       ELSE /\ status' = [d \in Devices |-> Synced(Sync, d)]
            /\ Done(Sync, Devices)
    /\ Over(Sync)
    /\ UNCHANGED <<remote, base, faults>>
-----------------------------------------------------------------------------
StatusNext ==
    \/ \E d \in Devices : Change(d)
    \/ \E r \in Pushes, d \in Devices : Ask(r, {d})
    \/ Ask(Sync, Devices)
    \/ \E r \in Requests : Answer(r) \/ Fail(r)
    \/ \E r \in Pushes : StorePush(r)
    \/ StoreSync

StatusSpec == StatusInit /\ [][StatusNext]_statusVars
-----------------------------------------------------------------------------
(* Once an answer about a device has been used, its row is no older
   than the device was when that request took its number: a slow sync or
   push cannot overwrite a status from a later request, nor bring a removed
   device back. *)
StatusNotBefore ==
    \A d \in Devices : status[d] # None /\ done[d] > 0 => status[d].at >= base[done[d]][d]

(* A row goes only when LibreNMS no longer had its device at some time since
   the sync took its number; never because an answer was empty. *)
KeepsKnown ==
    \A d \in Devices : status[d] # None /\ status'[d] = None =>
        d \notin there \/ at[d] > base[obs[Sync]][d]

KnownKept == [][KeepsKnown]_statusVars
=============================================================================
