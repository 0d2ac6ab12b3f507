---------------------------- MODULE NautobotSync ----------------------------
(***************************************************************************)
(* The copy of Nautobot's locations and devices, and the syncs that keep   *)
(* it: incremental from a watermark, full after a day, a change of         *)
(* settings, a forced refresh or a change of a location that others are    *)
(* under.                                                                  *)
(*                                                                         *)
(* Nautobot is edited at any moment, also between the two lists a sync     *)
(* fetches.  Time is counted in edits, on one clock.  An object is         *)
(* abstracted to the time of its last edit.  Every location but Root is    *)
(* under Root, and every edit of Root renames it.                          *)
(***************************************************************************)
EXTENDS Integers, FiniteSetsExt

CONSTANTS
    Locations, Devices,
    Root,         \* the location that the others are under
    MaxTime,      \* bound: the clock
    MaxFaults,    \* bound: errors, crashes, changes of settings, empty answers
    None

ASSUME SyncAssumption ==
    /\ Root \in Locations /\ Locations \cap Devices = {}
    /\ MaxTime \in Nat /\ MaxFaults \in Nat
    /\ None \notin Nat \cup [at : Nat, root : Nat, version : Nat]

Objects == Locations \cup Devices
Under   == Locations \ {Root}

VARIABLES
    now,
    alive,    \* objects that Nautobot has
    upd,      \* [Objects -> Nat] last_updated; 0 before the object exists
    version,  \* cache_version(), counted in changes of the settings
    cache,    \* [Objects -> [at, root, version], or None] the two caches
    state,    \* inventory_sync_state of nautobot_inventory
    due,      \* its interval has passed
    reconcile,\* that of nautobot_inventory_reconcile has passed
    pc,       \* the sync: "idle", "locations", "devices", "write"
    sync,     \* [full, started, mark, version]: its variables; blank: the
              \* objects of the lists that come empty; tree: it can read the
              \* stored locations
    got,      \* [Objects -> Nat, or None] what it has fetched
    mid,      \* history: locations edited after their list was fetched
    missed,   \* history: those a watermark passed by
    faults

remote == <<now, alive, upd>>
store  == <<cache, state, due, reconcile, missed>>
local  == <<pc, sync, got, mid>>
vars   == <<remote, version, store, local, faults>>

Nothing == [o \in Objects |-> None]
NoSync  == [full |-> FALSE, started |-> 0, mark |-> None, version |-> None,
            blank |-> {}, tree |-> TRUE]

(* The lists that a token without permission finds empty: none, one, both. *)
Blanks == {{}, Locations, Devices, Objects}

Init ==
    /\ now = 2
    /\ alive \in {s \in SUBSET Objects : s \cap Under # {} => Root \in s}
    /\ upd = [o \in Objects |-> IF o \notin alive THEN 0 ELSE IF o = Root THEN 1 ELSE 2]
    /\ version = 0
    /\ cache = Nothing
    /\ state = [status |-> "none", mark |-> None, version |-> None]
    /\ due = TRUE /\ reconcile = TRUE
    /\ pc = "idle" /\ sync = NoSync /\ got = Nothing
    /\ mid = {} /\ missed = {}
    /\ faults = 0
-----------------------------------------------------------------------------
(* Someone creates or edits an object.                                     *)
Edit(o) ==
    /\ now < MaxTime
    /\ o \in alive \/ upd[o] = 0
    /\ o \in Under => Root \in alive
    /\ now' = now + 1
    /\ alive' = alive \cup {o}
    /\ upd' = [upd EXCEPT ![o] = now + 1]
    /\ mid' = IF pc = "devices" /\ o \in Locations THEN mid \cup {o} ELSE mid
    /\ UNCHANGED <<version, store, pc, sync, got, faults>>

(* Someone deletes one; a location with others under it is protected.      *)
Delete(o) ==
    /\ o \in alive /\ (o = Root => alive \cap Under = {})
    /\ alive' = alive \ {o}
    /\ UNCHANGED <<now, upd, version, store, local, faults>>

(* INVENTORY_SYNC_INTERVAL_SECONDS have passed since the last sync, or 900
   and twice as many since one that is still "running". *)
FallDue ==
    /\ ~ due /\ due' = TRUE
    /\ UNCHANGED <<remote, version, cache, state, reconcile, missed, local, faults>>

(* A day has passed since the last full sync.                              *)
ReconcileFallsDue ==
    /\ ~ reconcile /\ reconcile' = TRUE
    /\ UNCHANGED <<remote, version, cache, state, due, missed, local, faults>>

(* A restart with other settings.                                          *)
SettingsChange ==
    /\ pc = "idle" /\ faults < MaxFaults
    /\ faults' = faults + 1
    /\ version' = version + 1
    /\ UNCHANGED <<remote, store, local>>
-----------------------------------------------------------------------------
cache_version_mismatch(st) == st.version # version

(* A slip: a sync marked "running" is taken to be under way.               *)
state_due_idle == state.status # "running" /\ due

state_due == state.status = "none" \/ due

(* sources_to_sync, for Nautobot.                                          *)
needs_nautobot(force) == force \/ cache_version_mismatch(state) \/ state_due

(* ensure_snapshot under the advisory lock, and the beginning of
   sync_nautobot(force=full): which kind of sync, from where, and "running". *)
Start(force, full) ==
    LET read == IF full THEN [status |-> "none", mark |-> None, version |-> None] ELSE state
    IN  /\ pc = "idle" /\ needs_nautobot(force)
        /\ \E blank \in Blanks, tree \in BOOLEAN :
             /\ IF blank = {} /\ tree THEN faults' = faults
                ELSE faults < MaxFaults /\ faults' = faults + 1
             /\ sync' = [full |-> full \/ cache_version_mismatch(read) \/ read.mark = None \/ reconcile,
                         started |-> now, mark |-> read.mark, version |-> read.version,
                         blank |-> blank, tree |-> tree]
        /\ state' = [status |-> "running", mark |-> read.mark, version |-> read.version]
        /\ due' = FALSE
        /\ pc' = "locations"
        /\ UNCHANGED <<remote, version, cache, reconcile, missed, got, mid>>

(* fetch_all_pages, all of a list or what changed since the watermark.  A
   token that lost a permission gets that list empty. *)
Fetched(os) ==
    [o \in Objects |->
       IF o \in (os \cap alive) \ sync.blank /\ (sync.full \/ upd[o] >= sync.mark)
       THEN upd[o] ELSE got[o]]

FetchLocations ==
    /\ pc = "locations" /\ pc' = "devices"
    /\ got' = Fetched(Locations)
    /\ UNCHANGED <<remote, version, store, sync, mid, faults>>

FetchDevices ==
    /\ pc = "devices" /\ pc' = "write"
    /\ got' = Fetched(Devices)
    /\ UNCHANGED <<remote, version, store, sync, mid, faults>>
-----------------------------------------------------------------------------
Seen == {o \in Objects : got[o] # None}

(* A slip: an empty full sync is stored like any other.                    *)
EmptyDatasetStored == FALSE

(* "Full inventory reconcile returned an empty dataset; keeping ..."       *)
EmptyDataset == sync.full /\ Seen = {} /\ \E o \in Objects : cache[o] # None

(* A slip: the watermark is when the sync ended.                           *)
WatermarkNow(observed) == now

(* The newest last_updated in the answers, and a microsecond; for a full
   sync at least its start. *)
Watermark(observed) ==
    LET newer == observed # {} /\ (sync.mark = None \/ Max(observed) > sync.mark)
        mark  == IF newer THEN Max(observed) + 1 ELSE sync.mark
    IN  IF sync.full THEN Max({sync.started} \cup ({mark} \ {None})) ELSE mark

(* normalize_locations: the parent is as fetched, or as stored if that can
   be read. *)
RootAt ==
    IF got[Root] # None THEN got[Root]
    ELSE IF sync.tree /\ cache[Root] # None THEN cache[Root].at ELSE 0

(* Rows as write_locations and write_devices leave them.                   *)
WrittenLocation(o) ==
    [at |-> got[o], root |-> IF o \in Under THEN RootAt ELSE 0, version |-> version]
WrittenDevice(o) == [at |-> got[o], root |-> 0, version |-> version]

(* The caches after the sync: a full one deletes them first.               *)
Rewritten ==
    [o \in Objects |->
       IF o \notin Seen THEN IF sync.full THEN None ELSE cache[o]
       ELSE IF o \in Locations THEN WrittenLocation(o) ELSE WrittenDevice(o)]

(* A synced location that stored ones are under has changed.  When the
   stored tree cannot be read it is taken to be empty. *)
tree_change ==
    /\ sync.tree
    /\ Root \in Seen /\ cache[Root] # None /\ cache[Root].at # got[Root]
    /\ \E o \in Under : cache[o] # None

(* KeyError: stored locations are under a synced one that is not stored.   *)
RootNotStored ==
    /\ sync.tree /\ ~ sync.full /\ Root \in Seen /\ cache[Root] = None
    /\ \E o \in Under : cache[o] # None

(* An object as Nautobot has it now.                                       *)
Current(o) == [at |-> upd[o], root |-> IF o \in Under THEN upd[Root] ELSE 0, version |-> version]

(* What this sync's watermark passes by: what was edited between its lists,
   what is in a list that came empty beside one that did not (or in a first
   sync), and the parents it could not read. *)
PassedBy ==
    mid \cup (IF sync.full \/ Seen # {} THEN sync.blank \cap alive ELSE {})
        \cup (IF sync.tree THEN {} ELSE Under)

End == pc' = "idle" /\ sync' = NoSync /\ got' = Nothing /\ mid' = {}

(* The end of sync_nautobot, in one transaction.  stack_changed: a virtual
   chassis was edited; chassis are outside this module. *)
Commit(stack_changed) ==
    /\ pc = "write" /\ ~ EmptyDataset /\ ~ RootNotStored
    /\ stack_changed => ~ sync.full
    /\ cache' = Rewritten
    /\ state' = [status |-> "idle", mark |-> Watermark({got[o] : o \in Seen}), version |-> version]
    /\ due' = FALSE
    /\ reconcile' = IF sync.full THEN FALSE ELSE reconcile \/ tree_change \/ stack_changed
    /\ missed' = {o \in missed \cup PassedBy : cache'[o] # Current(o)}
    /\ End
    /\ UNCHANGED <<remote, version, faults>>

(* The except branch: the sync ends with what it read at its start.        *)
Failed ==
    /\ state' = [status |-> "error", mark |-> sync.mark, version |-> sync.version]
    /\ due' = FALSE
    /\ End
    /\ UNCHANGED <<remote, version, cache, reconcile, missed>>

(* An exception of sync_nautobot's own, or a request or a statement that
   fails. *)
Error ==
    /\ pc # "idle"
    /\ \/ pc = "write" /\ (EmptyDataset \/ RootNotStored) /\ UNCHANGED faults
       \/ faults < MaxFaults /\ faults' = faults + 1
    /\ Failed

(* The process dies; PostgreSQL releases its lock.                         *)
Crash ==
    /\ pc # "idle" /\ faults < MaxFaults
    /\ faults' = faults + 1
    /\ End
    /\ UNCHANGED <<remote, version, store>>
-----------------------------------------------------------------------------
(* The scheduler and page requests; the board's "update now", which is
   incremental or full. *)
Scheduled == Start(FALSE, FALSE)
Forced    == Start(TRUE, FALSE) \/ Start(TRUE, TRUE)

Step == FetchLocations \/ FetchDevices \/ Error \/ \E stack \in BOOLEAN : Commit(stack)

Next ==
    \/ \E o \in Objects : Edit(o) \/ Delete(o)
    \/ FallDue \/ ReconcileFallsDue \/ SettingsChange
    \/ Scheduled \/ Forced
    \/ Step \/ Crash

Spec == Init /\ [][Next]_vars

(* The scheduler goes on, a sync that lives goes on, and time passes.      *)
Fairness ==
    /\ WF_vars(Scheduled) /\ WF_vars(Step)
    /\ WF_vars(FallDue) /\ WF_vars(ReconcileFallsDue)

FairSpec == Spec /\ Fairness
-----------------------------------------------------------------------------
NextFull == state.mark = None \/ cache_version_mismatch(state) \/ reconcile

(* An object that Nautobot has and the cache has not, or not as it is, comes
   with the next sync that completes: it was edited at or after the
   watermark, or the sync is full, or it is under a location of which one of
   these is true.  The exceptions are PassedBy's, until the daily full sync:
   a location edited between the two lists of a sync, a list that came empty
   while the other one, or the sync's being full, moved the watermark, and
   parents that could not be read. *)
NotSkipped ==
    \A o \in alive : cache[o] # Current(o) =>
        \/ NextFull
        \/ \E p \in {o} \cup (IF o \in Under THEN {Root} ELSE {}) :
             p \in missed \/ (cache[p] # Current(p) /\ upd[p] >= state.mark)

(* A sync drops an object only when Nautobot has deleted it, never because
   its answers were all empty.  The code does not ask for more: one list that
   comes empty beside the other drops what it had (inventory_service.py:1705,
   "not raw_locations and not raw_devices"). *)
LiveKept ==
    [][\A o \in Objects : cache[o] # None /\ cache'[o] = None =>
         o \notin alive \/ (o \in sync.blank /\ sync.blank # Objects)]_vars

(* "A location with others under it renamed, retyped or moved [...]: the next
   sync is a full one": when an incremental sync has such a location in its
   answers, it ends with the full one due. *)
RenameMakesFull ==
    [][LET ended   == pc = "write" /\ pc' = "idle" /\ faults' = faults /\ ~ sync.full
           renamed == /\ Root \in Seen
                      /\ \E o \in Under \ Seen : cache[o] # None /\ cache[o].root # got[Root]
       IN  ended /\ renamed => reconcile']_vars

Same == \A o \in Objects : cache[o] = IF o \in alive THEN Current(o) ELSE None

(* Once Nautobot and the settings no longer change, the caches come to be
   what Nautobot has and stay so, deletions and missed edits included,
   whatever failed or died; unless nothing is left in Nautobot. *)
CacheSettles == <>[](alive = {} \/ Same)
=============================================================================
