---------------------------- MODULE BoardRebuild ----------------------------
(***************************************************************************)
(* How the stored alert board is kept up to date by several worker         *)
(* processes: the scheduler's tick, the rebuild threads a LibreNMS push, a *)
(* webhook alert or an operator's change starts, and the page requests     *)
(* that build a missing board themselves.                                  *)
(*                                                                         *)
(* What the processes share is PostgreSQL (the device rows with their      *)
(* push_seq, the sync-state rows "received", "rebuilt", "requested", two   *)
(* advisory locks) and the response cache holding the stored board.  The   *)
(* board's content is abstracted to what it was built from.                *)
(***************************************************************************)
EXTENDS Naturals, FiniteSets

CONSTANTS
    Devices,           \* devices LibreNMS pushes refreshes for
    Hooks,             \* requests to the Alertmanager / generic webhook
    Changes,           \* cases, acknowledgements, maintenance windows, AP changes
    Tickers,           \* one scheduler thread per worker process
    Rebuilders,        \* threads of rebuild_after_push
    Requests,          \* page requests asking for the board
    Syncers,           \* background syncs a page request started
    Rounds,            \* rebuilds per rebuild thread (5 in the code)
    MaxPushes,         \* bound: pushes that update a row
    MaxSyncs,          \* bound: inventory syncs that commit
    MaxAborts,         \* bound: exceptions and crashes
    BuildWaitExpires,  \* can a build outlast BOARD_BUILD_WAIT_SECONDS?
    ReadsMayFail,      \* can a database read of a build fail (and be logged)?
    None

ASSUME ConstantsAssumption ==
    /\ Rounds \in Nat \ {0}
    /\ MaxPushes \in Nat
    /\ MaxSyncs \in Nat
    /\ MaxAborts \in Nat
    /\ BuildWaitExpires \in BOOLEAN
    /\ ReadsMayFail \in BOOLEAN
    /\ None \notin Nat         \* it is no version

(* A thread has one role, and None is no thread. *)
ASSUME ThreadsAssumption ==
    /\ Tickers \cap Rebuilders = {}
    /\ (Tickers \cup Rebuilders) \cap (Requests \cup Syncers) = {}
    /\ Requests \cap Syncers = {}
    /\ None \notin Tickers \cup Rebuilders \cup Requests \cup Syncers

Schedulers == Tickers \cup Rebuilders       \* work under "background_scheduler"
Builders   == Schedulers \cup Requests      \* may build the board
Threads    == Builders \cup Syncers

VARIABLES
    push,            \* [Devices -> Nat] the refresh a device's row holds
    mark,            \* [Devices -> Nat] its push_seq column, 0 for NULL
    pushSeq,         \* the sequence librenms_push_seq
    pushing,         \* devices whose push handler has yet to ask for a rebuild
    hook, hookAt,    \* each webhook request: how far it is, and its timestamp
    received,        \* RECEIVED_STATE.last_completed_at, 0 for no row
    hookRebuilt,     \* REBUILT_STATE.last_completed_at
    change, changeAt,\* each operator's change: how far it is, and its timestamp
    requested,       \* CHANGE_REQUESTED_STATE.last_completed_at
    changeRebuilt,   \* CHANGE_REBUILT_STATE.last_completed_at
    clock,           \* the last value iso_utc_now() gave
    version,         \* last_succeeded_at of the inventory syncs; 0: none yet
    cache,           \* the stored board, or None
    recorded,        \* what completed builds have put into the alert history
    schedLock,       \* holder of the "background_scheduler" advisory lock
    buildLock,       \* holder of "alert_board_build"
    syncLock,        \* holder of "inventory_snapshot_sync"
    pc,              \* each thread's place
    seen,            \* what was pending when the thread looked
    built,           \* what the thread's build has read so far
    label,           \* the snapshot version read before the build
    force,           \* build even with nothing pending
    round,           \* rebuilds this thread has done
    served,          \* the board a request answered, or None
    aborts           \* exceptions and crashes so far

sources == <<push, mark, pushSeq, pushing, hook, hookAt, received, hookRebuilt,
             change, changeAt, requested, changeRebuilt, clock>>
locks   == <<schedLock, buildLock, syncLock>>
locals  == <<pc, seen, built, label, force, round, served>>
vars    == <<sources, version, cache, recorded, locks, locals, aborts>>

Saved  == {c \in Changes : change[c] # "idle"}
Stored == {h \in Hooks : hook[h] \in {"stored", "done"}}

Content == [push : [Devices -> Nat], hooks : SUBSET Hooks,
            changes : SUBSET Changes, version : Nat]
NothingSeen  == [push |-> {}, hook |-> 0, change |-> 0]
EmptyContent == [push |-> [d \in Devices |-> 0], hooks |-> {}, changes |-> {},
                 version |-> 0]

Init ==
    /\ push = [d \in Devices |-> 0] /\ mark = push
    /\ pushSeq = 0 /\ pushing = {}
    /\ hook = [h \in Hooks |-> "idle"] /\ hookAt = [h \in Hooks |-> 0]
    /\ received = 0 /\ hookRebuilt = 0
    /\ change = [c \in Changes |-> "idle"] /\ changeAt = [c \in Changes |-> 0]
    /\ requested = 0 /\ changeRebuilt = 0
    /\ clock = 0 /\ version \in {0, 1}
    /\ cache = None /\ recorded = EmptyContent
    /\ schedLock = None /\ buildLock = None /\ syncLock = None
    /\ pc = [t \in Threads |-> "idle"]
    /\ seen = [t \in Threads |-> NothingSeen]
    /\ built = [t \in Threads |-> EmptyContent]
    /\ label = [t \in Threads |-> 0]
    /\ force = [t \in Threads |-> FALSE]
    /\ round = [t \in Threads |-> 0]
    /\ served = [t \in Threads |-> None]
    /\ aborts = 0

-----------------------------------------------------------------------------
(* What changes the board, and asks for it to be rebuilt.                  *)

(* rebuild_after_push starts a thread of its own. *)
Spawn(always) ==
    \E r \in Rebuilders :
        /\ pc[r] = "idle"
        /\ pc' = [pc EXCEPT ![r] = "start"]
        /\ force' = [force EXCEPT ![r] = always]
        /\ round' = [round EXCEPT ![r] = 0]
        /\ UNCHANGED <<seen, built, label, served>>

(* board_changed starts one only where a scheduler runs. *)
SpawnIfStarted == IF Tickers # {} THEN Spawn(TRUE) ELSE UNCHANGED locals

(* librenms_push_refresh: the row and its push_seq, in one transaction; only
   for a device a sync has already cached. *)
PushStore(d) ==
    /\ version > 0 /\ pushSeq < MaxPushes /\ d \notin pushing
    /\ pushSeq' = pushSeq + 1
    /\ push' = [push EXCEPT ![d] = pushSeq + 1]
    /\ mark' = [mark EXCEPT ![d] = pushSeq + 1]
    /\ pushing' = pushing \cup {d}
    /\ UNCHANGED <<hook, hookAt, received, hookRebuilt, change, changeAt,
                   requested, changeRebuilt, clock>>
    /\ UNCHANGED <<version, cache, recorded, locks, locals, aborts>>

(* The push handler drops the stored board and starts a rebuild thread. *)
PushNotify(d) ==
    /\ d \in pushing
    /\ pushing' = pushing \ {d}
    /\ cache' = None
    /\ Spawn(FALSE)
    /\ UNCHANGED <<push, mark, pushSeq, hook, hookAt, received, hookRebuilt,
                   change, changeAt, requested, changeRebuilt, clock>>
    /\ UNCHANGED <<version, recorded, locks, aborts>>

(* webhooks.store takes its timestamp inside the transaction ... *)
HookStamp(h) ==
    /\ hook[h] = "idle"
    /\ clock' = clock + 1
    /\ hook' = [hook EXCEPT ![h] = "stamped"]
    /\ hookAt' = [hookAt EXCEPT ![h] = clock + 1]
    /\ UNCHANGED <<push, mark, pushSeq, pushing, received, hookRebuilt, change,
                   changeAt, requested, changeRebuilt>>
    /\ UNCHANGED <<version, cache, recorded, locks, locals, aborts>>

(* ... which commits later: the last to commit decides RECEIVED_STATE. *)
HookCommit(h) ==
    /\ hook[h] = "stamped"
    /\ hook' = [hook EXCEPT ![h] = "stored"]
    /\ received' = hookAt[h]
    /\ UNCHANGED <<push, mark, pushSeq, pushing, hookAt, hookRebuilt, change,
                   changeAt, requested, changeRebuilt, clock>>
    /\ UNCHANGED <<version, cache, recorded, locks, locals, aborts>>

HookNotify(h) ==
    /\ hook[h] = "stored"
    /\ hook' = [hook EXCEPT ![h] = "done"]
    /\ cache' = None
    /\ Spawn(TRUE)
    /\ UNCHANGED <<push, mark, pushSeq, pushing, hookAt, received, hookRebuilt,
                   change, changeAt, requested, changeRebuilt, clock>>
    /\ UNCHANGED <<version, recorded, locks, aborts>>

(* A case, acknowledgement, window or access point change is committed. *)
ChangeSave(c) ==
    /\ change[c] = "idle"
    /\ change' = [change EXCEPT ![c] = "saved"]
    /\ UNCHANGED <<push, mark, pushSeq, pushing, hook, hookAt, received,
                   hookRebuilt, changeAt, requested, changeRebuilt, clock>>
    /\ UNCHANGED <<version, cache, recorded, locks, locals, aborts>>

(* board_changed drops the stored board and takes the request's timestamp. *)
ChangeDrop(c) ==
    /\ change[c] = "saved"
    /\ cache' = None
    /\ clock' = clock + 1
    /\ change' = [change EXCEPT ![c] = "stamped"]
    /\ changeAt' = [changeAt EXCEPT ![c] = clock + 1]
    /\ UNCHANGED <<push, mark, pushSeq, pushing, hook, hookAt, received,
                   hookRebuilt, requested, changeRebuilt>>
    /\ UNCHANGED <<version, recorded, locks, locals, aborts>>

(* request_change_rebuild commits it. *)
ChangeRequest(c) ==
    /\ change[c] = "stamped"
    /\ change' = [change EXCEPT ![c] = "requested"]
    /\ requested' = changeAt[c]
    /\ UNCHANGED <<push, mark, pushSeq, pushing, hook, hookAt, received,
                   hookRebuilt, changeAt, changeRebuilt, clock>>
    /\ UNCHANGED <<version, cache, recorded, locks, locals, aborts>>

(* request_change_rebuild failed (logged: its thread still starts), or the
   process died before it. *)
ChangeLost(c) ==
    /\ change[c] \in {"saved", "stamped"} /\ aborts < MaxAborts
    /\ aborts' = aborts + 1
    /\ change' = [change EXCEPT ![c] = "lost"]
    /\ \/ change[c] = "stamped" /\ SpawnIfStarted
       \/ UNCHANGED locals
    /\ UNCHANGED <<push, mark, pushSeq, pushing, hook, hookAt, received,
                   hookRebuilt, changeAt, requested, changeRebuilt, clock>>
    /\ UNCHANGED <<version, cache, recorded, locks>>

ChangeNotify(c) ==
    /\ change[c] = "requested"
    /\ change' = [change EXCEPT ![c] = "done"]
    /\ SpawnIfStarted
    /\ UNCHANGED <<push, mark, pushSeq, pushing, hook, hookAt, received,
                   hookRebuilt, changeAt, requested, changeRebuilt, clock>>
    /\ UNCHANGED <<version, cache, recorded, locks, aborts>>

(* The stored board outlives its timeout (or Redis drops it). *)
CacheExpire ==
    /\ cache # None
    /\ cache' = None
    /\ UNCHANGED <<sources, version, recorded, locks, locals, aborts>>

-----------------------------------------------------------------------------
(* The scheduler's tick and the rebuild threads.                           *)

Free(lock, t) == IF lock = t THEN None ELSE lock

(* A thread that ends leaves nothing of what it read. *)
Forget(t) ==
    /\ pc' = [pc EXCEPT ![t] = "idle"]
    /\ seen' = [seen EXCEPT ![t] = NothingSeen]
    /\ built' = [built EXCEPT ![t] = EmptyContent]
    /\ label' = [label EXCEPT ![t] = 0]
    /\ force' = [force EXCEPT ![t] = FALSE]
    /\ round' = [round EXCEPT ![t] = 0]

(* tick: only one process at a time; another's leaves at once. *)
TickStart(t) ==
    /\ pc[t] = "idle" /\ schedLock = None
    /\ schedLock' = t
    /\ pc' = [pc EXCEPT ![t] = "tick"]
    /\ UNCHANGED <<sources, version, cache, recorded, buildLock, syncLock, seen,
                   built, label, force, round, served, aborts>>

(* ensure_snapshot(wait=True) ran nothing: none is due, or another process
   is syncing. *)
SkipSync(t) ==
    /\ pc[t] = "tick"
    /\ pc' = [pc EXCEPT ![t] = "pending"]
    /\ UNCHANGED <<sources, version, cache, recorded, locks, seen, built, label,
                   force, round, served, aborts>>

(* It ran a sync that failed: that too counts as work. *)
SyncFails(t) ==
    /\ pc[t] = "tick" /\ syncLock = None
    /\ pc' = [pc EXCEPT ![t] = "pending"]
    /\ force' = [force EXCEPT ![t] = TRUE]
    /\ UNCHANGED <<sources, version, cache, recorded, locks, seen, built, label,
                   round, served, aborts>>

(* A sync commits its data and last_succeeded_at in one transaction ... *)
SyncCommit(t) ==
    /\ pc[t] = (IF t \in Tickers THEN "tick" ELSE "idle")
    /\ syncLock = None /\ version < MaxSyncs
    /\ syncLock' = t
    /\ version' = version + 1
    /\ pc' = [pc EXCEPT ![t] = "synced"]
    /\ UNCHANGED <<sources, cache, recorded, schedLock, buildLock, seen, built,
                   label, force, round, served, aborts>>

(* ... and drops the stored board after it. *)
SyncInvalidate(t) ==
    /\ pc[t] = "synced"
    /\ cache' = None
    /\ syncLock' = None
    /\ \/ t \in Tickers /\ pc' = [pc EXCEPT ![t] = "pending"]
                        /\ force' = [force EXCEPT ![t] = TRUE]
       \/ t \in Syncers /\ pc' = [pc EXCEPT ![t] = "idle"] /\ UNCHANGED force
    /\ UNCHANGED <<sources, version, recorded, schedLock, buildLock, seen, built,
                   label, round, served, aborts>>

(* A rebuild thread gets the scheduler's lock, or ends. *)
RebuildStart(t) ==
    /\ pc[t] = "start"
    /\ \/ /\ schedLock = None
          /\ schedLock' = t
          /\ pc' = [pc EXCEPT ![t] = "pending"]
          /\ UNCHANGED <<seen, built, label, force, round>>
       \/ /\ schedLock # None
          /\ Forget(t)
          /\ UNCHANGED schedLock
    /\ UNCHANGED <<sources, version, cache, recorded, buildLock, syncLock, served,
                   aborts>>

PendingWithoutPushes ==
    [push   |-> {},
     hook   |-> IF received > hookRebuilt THEN received ELSE 0,
     change |-> IF requested > changeRebuilt THEN requested ELSE 0]

(* pending_librenms_pushes, pending_webhook_alerts, pending_changes. *)
Pending ==
    [push   |-> {mark[d] : d \in Devices} \ {0},
     hook   |-> IF received > hookRebuilt THEN received ELSE 0,
     change |-> IF requested > changeRebuilt THEN requested ELSE 0]

(* What board() may learn of the snapshot's version: None when unreadable. *)
Snapshots == {version} \cup (IF ReadsMayFail THEN {None} ELSE {})

(* What is pending is read before the build (a failed read is "nothing"),
   then board(rebuild=True) reads the snapshot's version; with nothing to do
   the thread ends. *)
ReadPending(t) ==
    /\ pc[t] = "pending"
    /\ \E s \in {Pending} \cup (IF aborts < MaxAborts THEN {NothingSeen} ELSE {}) :
          /\ aborts' = IF s = Pending THEN aborts ELSE aborts + 1
          /\ IF s # NothingSeen \/ force[t]
                THEN /\ seen' = [seen EXCEPT ![t] = s]
                     /\ \E v \in Snapshots : label' = [label EXCEPT ![t] = v]
                     /\ pc' = [pc EXCEPT ![t] = "lock"]
                     /\ UNCHANGED <<schedLock, built, force, round>>
                ELSE /\ Forget(t)
                     /\ schedLock' = None
    /\ UNCHANGED <<sources, version, cache, recorded, buildLock, syncLock, served>>

-----------------------------------------------------------------------------
(* alerts_service.board: one build at a time, unless the wait expires.     *)

AfterLock(t) == IF t \in Requests THEN "recheck" ELSE "read1"

(* Slips: nobody waits for a build; everybody waits for ever.              *)
BuildsAtOnce(t) == buildLock # None
WaitsForever(t) == FALSE

(* "another build took over 60s; building anyway" *)
WaitExpires(t) == BuildWaitExpires /\ buildLock # None

(* The thread goes on with the lock, or without it after the wait.         *)
LockBuild(t) ==
    /\ pc[t] = "lock"
    /\ \/ buildLock = None /\ buildLock' = t
       \/ WaitExpires(t) /\ buildLock' = buildLock
    /\ pc' = [pc EXCEPT ![t] = AfterLock(t)]
    /\ UNCHANGED <<sources, version, cache, recorded, schedLock, syncLock, seen,
                   built, label, force, round, served, aborts>>

(* build_alert_board_payload reads the locations and the LibreNMS rows ... *)
ReadInventory(t) ==
    /\ pc[t] = "read1"
    /\ \E p \in {push} \cup (IF ReadsMayFail THEN {EmptyContent.push} ELSE {}) :
          built' = [built EXCEPT ![t] = [EmptyContent EXCEPT !.push = p,
                                                             !.version = version]]
    /\ pc' = [pc EXCEPT ![t] = "read2"]
    /\ UNCHANGED <<sources, version, cache, recorded, locks, seen, label, force,
                   round, served, aborts>>

(* ... then cases, acknowledgements, webhook alerts, windows.  A read that
   fails is logged and the build goes on without it. *)
ReadBoardData(t) ==
    /\ pc[t] = "read2"
    /\ \E hs \in {Stored} \cup (IF ReadsMayFail THEN {{}} ELSE {}),
          cs \in {Saved} \cup (IF ReadsMayFail THEN {{}} ELSE {}) :
          built' = [built EXCEPT ![t] = [@ EXCEPT !.hooks = hs, !.changes = cs]]
    /\ pc' = [pc EXCEPT ![t] = "write"]
    /\ UNCHANGED <<sources, version, cache, recorded, locks, seen, label, force,
                   round, served, aborts>>

MaxOf(m, n) == IF m > n THEN m ELSE n

Join(a, b) ==
    [push    |-> [d \in Devices |-> MaxOf(a.push[d], b.push[d])],
     hooks   |-> a.hooks \cup b.hooks,
     changes |-> a.changes \cup b.changes,
     version |-> MaxOf(a.version, b.version)]

(* History is written and the board stored with the version read before it;
   an empty board, of an inventory never synced, is not stored. *)
BuildFinish(t) ==
    /\ pc[t] = "write"
    /\ recorded' = Join(recorded, built[t])
    /\ cache' = IF built[t].version > 0
                THEN [label |-> label[t], content |-> built[t]] ELSE cache
    /\ buildLock' = Free(buildLock, t)
    /\ IF t \in Requests
       THEN /\ served' = [served EXCEPT ![t] = built[t]]
            /\ pc' = [pc EXCEPT ![t] = "idle"]
       ELSE /\ pc' = [pc EXCEPT ![t] = "ack"]
            /\ UNCHANGED served
    /\ built' = [built EXCEPT ![t] = EmptyContent]
    /\ UNCHANGED <<sources, version, schedLock, syncLock, seen, label, force,
                   round, aborts>>

(* ack_librenms_pushes clears exactly the sequence numbers it was given. *)
AllMarksCleared(t) == [d \in Devices |-> 0]

ClearedMarks(t) ==
    [d \in Devices |-> IF mark[d] \in seen[t].push THEN 0 ELSE mark[d]]

(* ack_changes writes the time read before the build; None writes nothing. *)
LatestChange(t) == requested

AckedChange(t) == IF seen[t].change # 0 THEN seen[t].change ELSE changeRebuilt

(* Only what was seen before the build is acknowledged, each kind in a
   transaction of its own; a webhook or change one that fails is logged. *)
Ack(t) ==
    /\ pc[t] = "ack"
    /\ \E kinds \in SUBSET {"hook", "change"} :
          /\ aborts' = IF kinds = {"hook", "change"} THEN aborts ELSE aborts + 1
          /\ aborts' <= MaxAborts
          /\ hookRebuilt' = IF "hook" \in kinds /\ seen[t].hook # 0
                            THEN seen[t].hook ELSE hookRebuilt
          /\ changeRebuilt' = IF "change" \in kinds THEN AckedChange(t)
                              ELSE changeRebuilt
    /\ mark' = ClearedMarks(t)
    /\ IF t \in Rebuilders /\ round[t] + 1 < Rounds
       THEN /\ round' = [round EXCEPT ![t] = @ + 1]
            /\ force' = [force EXCEPT ![t] = FALSE]
            /\ seen' = [seen EXCEPT ![t] = NothingSeen]
            /\ pc' = [pc EXCEPT ![t] = "pending"]
            /\ UNCHANGED <<schedLock, built, label>>
       ELSE /\ Forget(t)
            /\ schedLock' = None
    /\ UNCHANGED <<push, pushSeq, pushing, hook, hookAt, received, change,
                   changeAt, requested, clock>>
    /\ UNCHANGED <<version, cache, recorded, buildLock, syncLock, served>>

-----------------------------------------------------------------------------
(* A page request: the stored board, or it builds one.                     *)

RequestStart(t) ==
    /\ pc[t] = "idle"
    /\ \E v \in Snapshots : label' = [label EXCEPT ![t] = v]
    /\ served' = [served EXCEPT ![t] = None]
    /\ pc' = [pc EXCEPT ![t] = "check"]
    /\ UNCHANGED <<sources, version, cache, recorded, locks, seen, built, force,
                   round, aborts>>

AnyStored(t) == cache # None

(* _board_current: an unknown version on either side counts as current. *)
Current(t) ==
    /\ cache # None
    /\ None \in {label[t], cache.label} \/ cache.label = label[t]

(* The stored board, at once or stored while this request waited. *)
Serve(t) ==
    /\ pc[t] \in {"check", "lock", "recheck"} /\ Current(t)
    /\ served' = [served EXCEPT ![t] = cache.content]
    /\ pc' = [pc EXCEPT ![t] = "idle"]
    /\ buildLock' = Free(buildLock, t)
    /\ UNCHANGED <<sources, version, cache, recorded, schedLock, syncLock, seen,
                   built, label, force, round, aborts>>

Miss(t) ==
    /\ pc[t] \in {"check", "recheck"} /\ ~ Current(t)
    /\ pc' = [pc EXCEPT ![t] = IF pc[t] = "check" THEN "lock" ELSE "read1"]
    /\ UNCHANGED <<sources, version, cache, recorded, locks, seen, built, label,
                   force, round, served, aborts>>

(* An exception, or the process dies: PostgreSQL frees its locks. *)
Abort(t) ==
    /\ pc[t] # "idle" /\ aborts < MaxAborts
    /\ aborts' = aborts + 1
    /\ schedLock' = Free(schedLock, t)
    /\ buildLock' = Free(buildLock, t)
    /\ syncLock' = Free(syncLock, t)
    /\ Forget(t)
    /\ UNCHANGED <<sources, version, cache, recorded, served>>

-----------------------------------------------------------------------------
SourceStep ==
    \/ \E d \in Devices : PushStore(d) \/ PushNotify(d)
    \/ \E h \in Hooks : HookStamp(h) \/ HookCommit(h) \/ HookNotify(h)
    \/ \E c \in Changes : \/ ChangeSave(c) \/ ChangeDrop(c) \/ ChangeRequest(c)
                          \/ ChangeLost(c) \/ ChangeNotify(c)
    \/ CacheExpire

TickStep(t)    == TickStart(t) \/ SkipSync(t) \/ SyncFails(t)
BuildStep(t)   == LockBuild(t) \/ ReadInventory(t) \/ ReadBoardData(t) \/ BuildFinish(t)
RebuildStep(t) == ReadPending(t) \/ BuildStep(t) \/ Ack(t)
AnswerStep(t)  == Serve(t) \/ Miss(t) \/ BuildStep(t)

Next ==
    \/ SourceStep
    \/ \E t \in Tickers : TickStep(t) \/ RebuildStep(t)
    \/ \E t \in Tickers \cup Syncers : SyncCommit(t) \/ SyncInvalidate(t)
    \/ \E t \in Rebuilders : RebuildStart(t) \/ RebuildStep(t)
    \/ \E t \in Requests : RequestStart(t) \/ AnswerStep(t)
    \/ \E t \in Threads : Abort(t)

Spec == Init /\ [][Next]_vars

(* Every process's loop keeps ticking and a started thread keeps running;
   pushes, changes, page requests and syncs of page requests need not come. *)
Fairness ==
    /\ \A t \in Tickers : WF_vars(TickStep(t) \/ RebuildStep(t) \/ SyncInvalidate(t))
    /\ \A t \in Rebuilders : WF_vars(RebuildStart(t) \/ RebuildStep(t))
    /\ \A t \in Requests : WF_vars(AnswerStep(t))
    /\ \A t \in Syncers : WF_vars(SyncInvalidate(t))

FairSpec == Spec /\ Fairness

-----------------------------------------------------------------------------
(* Properties.                                                             *)

Places == {"idle", "start", "tick", "synced", "pending", "check", "lock",
           "recheck", "read1", "read2", "write", "ack"}
Sights == [push : SUBSET Nat, hook : Nat, change : Nat]
Boards == [label : Nat \cup {None}, content : Content]

SourcesOK ==
    /\ push \in [Devices -> Nat] /\ mark \in [Devices -> Nat]
    /\ pushSeq \in Nat /\ pushing \subseteq Devices
    /\ hook \in [Hooks -> {"idle", "stamped", "stored", "done"}]
    /\ hookAt \in [Hooks -> Nat]
    /\ received \in Nat /\ hookRebuilt \in Nat
    /\ change \in [Changes -> {"idle", "saved", "stamped", "requested", "done", "lost"}]
    /\ changeAt \in [Changes -> Nat]
    /\ requested \in Nat /\ changeRebuilt \in Nat
    /\ clock \in Nat

SharedOK ==
    /\ version \in Nat /\ aborts \in Nat
    /\ cache \in Boards \cup {None}
    /\ recorded \in Content
    /\ schedLock \in Schedulers \cup {None}
    /\ buildLock \in Builders \cup {None}
    /\ syncLock \in Threads \cup {None}

LocalsOK ==
    /\ pc \in [Threads -> Places]
    /\ seen \in [Threads -> Sights]
    /\ built \in [Threads -> Content]
    /\ label \in [Threads -> Nat \cup {None}]
    /\ force \in [Threads -> BOOLEAN]
    /\ round \in [Threads -> Nat]
    /\ served \in [Threads -> Content \cup {None}]

(* The state's shape: every variable keeps its type. *)
TypeOK == SourcesOK /\ SharedOK /\ LocalsOK

(* A LibreNMS refresh is in a completed build or its row still asks for one:
   a push arriving during a build is never acknowledged with it
   (ack_librenms_pushes clears exactly the sequence numbers read before it). *)
PushNotForgotten ==
    \A d \in Devices : recorded.push[d] >= push[d] \/ mark[d] = push[d]

(* The stored board shows a device's last refresh or the refresh is still to
   be built: what a page gets is never silently out of date for good. *)
StoredBoardOwed ==
    cache # None =>
        \A d \in Devices : cache.content.push[d] >= push[d] \/ mark[d] = push[d]

(* ack_changes: every change requested up to the acknowledged time is in a
   completed build. *)
ChangeAckCovered ==
    \A c \in Changes :
        changeAt[c] \in 1 .. changeRebuilt => c \in recorded.changes

(* "A board built before a sync committed is never served after it": the
   answered board has at least the version read at the request's start. *)
ServedFresh ==
    \A t \in Requests :
        served[t] # None /\ label[t] # None => served[t].version >= label[t]

Quiet == \A t \in Threads : pc[t] = "idle"

(* mark_rebuilt / RECEIVED_STATE: once everything is quiet, a webhook request
   is in a completed build or still pending. *)
HookNotForgotten ==
    Quiet => \A h \in Hooks :
        hook[h] = "done" => h \in recorded.hooks \/ received > hookRebuilt

(* Every refresh gets into a build, whatever its own rebuild thread met: no
   device stays behind its newest push for good. *)
PushesRecorded == \A d \in Devices : []<>(recorded.push[d] >= push[d])

(* Every page request is answered (or its thread dies): nobody waits for good. *)
RequestsAnswered == \A t \in Requests : []<>(pc[t] = "idle")
=============================================================================
