----------------------------- MODULE SiteLevels ------------------------------
(***************************************************************************)
(* The sites' stored alert levels, the log of their changes and the        *)
(* messages a change queues: record_site_level_changes at the end of every *)
(* board build.                                                            *)
(*                                                                         *)
(* A build first observes the sites, and records what it saw later, in one *)
(* transaction that locks the rows in site order.  Two builds run at once  *)
(* when the first outlasts BOARD_BUILD_WAIT_SECONDS.  Meanwhile the        *)
(* network fails and recovers, operators open and end maintenance windows, *)
(* edit criticality fields and tiers, and change settings.                 *)
(***************************************************************************)
EXTENDS AlertLevels, Sequences

CONSTANTS
    NSites,           \* sites, numbered in the order their rows are locked
    Devices,          \* devices at every site
    Builders,         \* threads that build the board
    Crits,            \* values of the criticality field; "" for not set
    PercentPairs,     \* values of ALERT_MEDIUM_PERCENT, ALERT_CRITICAL_PERCENT
    Events,           \* what may happen to a site in this instance
    MaxEvents,        \* bound: events of the world
    None

Sites == 1 .. NSites
Tiers == DOMAIN MinLevel
NoSites == [s \in Sites |-> None]

(* The levels a build may see, and a row of site_alert_levels.             *)
Levels == DEVICE_LEVELS \cup {"ok", "no_data", "maintenance"}
Keys   == OwnLevels \X [Devices -> OwnLevels]
Rows   == [level : Levels, crit : Keys, down : SUBSET Devices]

ASSUME SiteLevelsAssumption ==
    /\ NSites \in Nat \ {0}
    /\ "" \in Crits /\ Crits \subseteq OwnLevels
    /\ "plain" \in Tiers
    /\ None \notin Builders /\ None \notin Rows
    /\ Events \subseteq {"device", "window", "device window", "edit", "tier",
                         "setting", "unreadable", "delete"}

VARIABLES
    site,      \* [Sites -> record] what is true of the site now
    pct,       \* the thresholds in force
    events,    \* [Sites -> Nat] events at the site so far
    row,       \* [Sites -> site_alert_levels row, or None]
    log,       \* [Sites -> Seq of <<from, to>>] site_level_changes
    outbox,    \* [Sites -> kind of the site's newest notification_outbox row]
    told,      \* history, [Sites -> Seq of kinds] the messages ever queued
    hushed,    \* history, [Sites -> BOOLEAN] since the last message a change
               \* was not to be notified, or the message's row was deleted
    lock,      \* [Sites -> the builder whose transaction holds the row, or None]
    pc,        \* [Builders -> {"idle", "lock", "record"}]
    seen,      \* [Builders -> [Sites -> what the build observed, or None]]
    previous,  \* [Builders -> [Sites -> row read under the lock, or None]]
    turn       \* [Builders -> the next site to lock]

world == <<site, pct, events>>
store == <<row, log, outbox, told, hushed>>
local == <<pc, seen, previous, turn>>
vars  == <<world, store, lock, local>>

Init ==
    /\ site = [s \in Sites |->
                 [down |-> {}, crit |-> [d \in Devices |-> ""],
                  override |-> [d \in Devices |-> ""], tier |-> "plain",
                  window |-> FALSE, frozen |-> {}]]
    /\ pct \in PercentPairs
    /\ events = [s \in Sites |-> 0]
    /\ row = [s \in Sites |-> None]
    /\ log = [s \in Sites |-> <<>>]
    /\ outbox = [s \in Sites |-> "none"]
    /\ told = [s \in Sites |-> <<>>]
    /\ hushed = [s \in Sites |-> FALSE]
    /\ lock = [s \in Sites |-> None]
    /\ pc = [b \in Builders |-> "idle"]
    /\ seen = [b \in Builders |-> NoSites]
    /\ previous = [b \in Builders |-> NoSites]
    /\ turn = [b \in Builders |-> 1]
------------------------------------------------------------------------------
(* The world: at each site up to MaxEvents events of the allowed kinds.    *)
Happens(kind, s, new) ==
    /\ kind \in Events
    /\ events[s] < MaxEvents
    /\ events' = [events EXCEPT ![s] = @ + 1]
    /\ site' = [site EXCEPT ![s] = new]
    /\ UNCHANGED <<pct, store, lock, local>>

DeviceChange(s, d) ==
    Happens("device", s, [site[s] EXCEPT !.down = IF d \in @ THEN @ \ {d} ELSE @ \cup {d}])
WindowChange(s) ==
    Happens("window", s, [site[s] EXCEPT !.window = ~ @])
DeviceWindowChange(s, d) ==
    Happens("device window", s,
            [site[s] EXCEPT !.frozen = IF d \in @ THEN @ \ {d} ELSE @ \cup {d}])
Edit(s, d, level) ==
    /\ level # site[s].crit[d]
    /\ Happens("edit", s, [site[s] EXCEPT !.crit[d] = level])
TierChange(s, tier) ==
    /\ tier # site[s].tier
    /\ Happens("tier", s, [site[s] EXCEPT !.tier = tier])

(* The processes restart with other thresholds; builds under way are lost. *)
SettingChange(p) ==
    /\ "setting" \in Events /\ p # pct
    /\ \A s \in Sites : events[s] < MaxEvents
    /\ events' = [s \in Sites |-> events[s] + 1]
    /\ pct' = p
    /\ lock' = [s \in Sites |-> None]
    /\ pc' = [b \in Builders |-> "idle"]
    /\ seen' = [b \in Builders |-> NoSites]
    /\ previous' = [b \in Builders |-> NoSites]
    /\ turn' = [b \in Builders |-> 1]
    /\ UNCHANGED <<site, store>>

(* send_pending deletes the site's messages after KEEP_DAYS: what the
   receivers were last told is no longer known. *)
DeleteOld(s) ==
    /\ "delete" \in Events /\ outbox[s] # "none"
    /\ outbox' = [outbox EXCEPT ![s] = "none"]
    /\ hushed' = [hushed EXCEPT ![s] = TRUE]
    /\ UNCHANGED <<world, row, log, told, lock, local>>
------------------------------------------------------------------------------
(* What a build sees of a site: devices in maintenance are left out of the
   level and of the down devices; the site is quiet when they would have
   made it worse.  The keys are what can be edited, and the down devices. *)
Observed(s) ==
    LET x       == site[s]
        counted == Devices \ x.frozen
        level   == compute_alert_level(counted, x, pct)
        with    == compute_alert_level(Devices, x, pct) IN
    [level |-> IF x.window THEN "maintenance" ELSE observed_level(counted, x, pct),
     quiet |-> x.frozen # {} /\ Rank(with.level) > Rank(level.level),
     crit  |-> <<TierLevel[x.tier], x.crit>>,
     down  |-> x.down \ x.frozen,
     tier  |-> x.tier]

(* A build reads what it needs.  A site whose devices could not be read is
   left out of what is recorded. *)
Observe(b, readable) ==
    /\ pc[b] = "idle"
    /\ readable # {}
    /\ "unreadable" \notin Events => readable = Sites
    /\ seen' = [seen EXCEPT ![b] = [s \in Sites |-> IF s \in readable THEN Observed(s) ELSE None]]
    /\ pc' = [pc EXCEPT ![b] = "lock"]
    /\ UNCHANGED <<world, store, lock, previous, turn>>

(* A slip: each build locks the rows in an order of its own.               *)
LockTargetUnordered(b) ==
    IF b = CHOOSE c \in Builders : TRUE THEN NSites + 1 - turn[b] ELSE turn[b]

(* lock_site_levels takes the rows in site order.                          *)
LockTarget(b) == turn[b]

(* A slip: plain SELECT, without FOR UPDATE.                               *)
MayLockAlways(s) == TRUE

(* FOR UPDATE waits for a row another transaction holds.                   *)
MayLock(s) == lock[s] = None

(* SELECT ... ORDER BY site_id, row by row, each as last committed.  A site
   without a row has nothing to lock. *)
LockRow(b) ==
    LET s == LockTarget(b) IN
    /\ pc[b] = "lock" /\ turn[b] <= NSites
    /\ turn' = [turn EXCEPT ![b] = turn[b] + 1]
    /\ IF seen[b][s] = None \/ row[s] = None
       THEN UNCHANGED <<previous, lock>>
       ELSE /\ MayLock(s)
            /\ lock' = [lock EXCEPT ![s] = b]
            /\ previous' = [previous EXCEPT ![b][s] = row[s]]
    /\ UNCHANGED <<world, store, pc, seen>>

Locked(b) ==
    /\ pc[b] = "lock" /\ turn[b] > NSites
    /\ pc' = [pc EXCEPT ![b] = "record"]
    /\ UNCHANGED <<world, store, lock, seen, previous, turn>>

(* Only the criticality changed, the same devices down: not notified.      *)
Edited(before, now) == before.crit # now.crit /\ before.down = now.down

(* A slip: the alarm sent under another minimum is forgotten.              *)
MessageByMinimum(s, from, now) == event_kind(from, now.level, now.tier)

(* enqueue_change: what the change tells the receivers, if anything.  The
   end of an alarm sent under another tier's minimum is a recovery too. *)
Message(s, from, now) ==
    LET kind == event_kind(from, now.level, now.tier)
        owed == dropped_below_minimum(from, now.level, now.tier) /\ outbox[s] = "alarm" IN
    IF kind = "none" /\ owed THEN "recovery" ELSE kind

(* The message the change queues, "none" for an edit and for a recovery
   that is only the start of device maintenance.  The sites are those the
   messages are for, NOTIFY_TENANTS naming a tenant of theirs or nobody, and
   a channel is configured: otherwise enqueue_change queues nothing. *)
Sent(s, before, now) ==
    LET message == Message(s, before.level, now) IN
    IF Edited(before, now) \/ (now.quiet /\ message = "recovery") THEN "none" ELSE message

(* Receivers are not told of this on purpose: an edit, planned work.       *)
Hushed(s, before, now) ==
    \/ Message(s, before.level, now) # Sent(s, before, now)
    \/ now.level = "maintenance" /\ Rank(before.level) > 0

(* The part of the transaction for one site the build observed: a first
   level is only stored; a change is logged and its message queued. *)
Changed(b, s) ==
    /\ seen[b][s] # None /\ previous[b][s] # None
    /\ previous[b][s].level # seen[b][s].level

Queues(b, s) ==
    IF Changed(b, s) THEN Sent(s, previous[b][s], seen[b][s]) ELSE "none"

Stored(b, s) ==
    LET now == seen[b][s] IN
    IF now = None \/ (previous[b][s] = None /\ row[s] # None) THEN row[s]
    ELSE [level |-> now.level, crit |-> now.crit, down |-> now.down]

(* The transaction is over: its locks are gone, and so is what it read.    *)
Finish(b) ==
    /\ lock' = [s \in Sites |-> IF lock[s] = b THEN None ELSE lock[s]]
    /\ pc' = [pc EXCEPT ![b] = "idle"]
    /\ seen' = [seen EXCEPT ![b] = NoSites]
    /\ previous' = [previous EXCEPT ![b] = NoSites]
    /\ turn' = [turn EXCEPT ![b] = 1]

(* The transaction commits: rows, log and messages together, locks gone.   *)
Record(b) ==
    /\ pc[b] = "record"
    /\ row' = [s \in Sites |-> Stored(b, s)]
    /\ log' = [s \in Sites |->
                 IF Changed(b, s)
                 THEN Append(log[s], <<previous[b][s].level, seen[b][s].level>>) ELSE log[s]]
    /\ outbox' = [s \in Sites |-> IF Queues(b, s) = "none" THEN outbox[s] ELSE Queues(b, s)]
    /\ told' = [s \in Sites |-> IF Queues(b, s) = "none" THEN told[s]
                                ELSE Append(told[s], Queues(b, s))]
    /\ hushed' = [s \in Sites |->
                    IF seen[b][s] = None THEN hushed[s]
                    ELSE IF row[s] = None THEN Rank(seen[b][s].level) > 0
                    ELSE IF ~ Changed(b, s) THEN hushed[s]
                    ELSE IF Queues(b, s) # "none" THEN FALSE
                    ELSE hushed[s] \/ Hushed(s, previous[b][s], seen[b][s])]
    /\ Finish(b)
    /\ UNCHANGED world

(* The transaction fails: it is rolled back and the failure logged.        *)
RecordFails(b) ==
    /\ "unreadable" \in Events
    /\ pc[b] \in {"lock", "record"}
    /\ Finish(b)
    /\ UNCHANGED <<world, store>>
------------------------------------------------------------------------------
World ==
    \E s \in Sites :
        \/ WindowChange(s) \/ DeleteOld(s)
        \/ \E d \in Devices : DeviceChange(s, d) \/ DeviceWindowChange(s, d)
        \/ \E d \in Devices, level \in Crits : Edit(s, d, level)
        \/ \E tier \in Tiers : TierChange(s, tier)

Build(b) ==
    \/ \E readable \in SUBSET Sites : Observe(b, readable)
    \/ LockRow(b) \/ Locked(b) \/ Record(b)

Next ==
    \/ World
    \/ \E p \in PercentPairs : SettingChange(p)
    \/ \E b \in Builders : Build(b) \/ RecordFails(b)

Spec == Init /\ [][Next]_vars

(* A build that has begun goes on, and PostgreSQL gives a row to those who
   wait for it in turn. *)
FairSpec ==
    Spec /\ \A b \in Builders : SF_vars(LockRow(b)) /\ WF_vars(Locked(b) \/ Record(b))
------------------------------------------------------------------------------
(* The log of a site's changes is a chain that ends at the stored level,
   however builds overlap, fail or leave the site out: no change is logged
   against a level another build has already replaced. *)
ChangesChain ==
    \A s \in Sites :
        /\ \A i \in DOMAIN log[s] :
             /\ log[s][i][1] # log[s][i][2]
             /\ i > 1 => log[s][i][1] = log[s][i - 1][2]
        /\ log[s] # <<>> => log[s][Len(log[s])][2] = row[s].level

Alarmed(s) == told[s] # <<>> /\ told[s][Len(told[s])] = "alarm"

(* What the receivers were last told agrees with the stored level: a
   Critical site's last message is an alarm, an OK site's is not, unless a
   change in between was planned work or an edit or the message was deleted;
   also when the site's tier, and so its minimum, changed after the alarm.
   It allows what the code does against its documents: a changed threshold
   is told like a failure (SettingNotSent), and an edit keeps the end of
   maintenance quiet (MaintenanceEndSent). *)
MessageMatchesLevel ==
    \A s \in Sites : row[s] # None /\ ~ hushed[s] =>
        /\ row[s].level = "critical" => Alarmed(s)
        /\ row[s].level \in {"ok", "no_data"} => ~ Alarmed(s)

(* docs/alert-board.md:151: "When a site's level changes but its down devices
   are the same as at the last board build (a criticality field, a tier or a
   setting was changed), the change is in the activity feed but not
   notified."  Stated for a site without maintenance. *)
SettingNotSent ==
    [][\A s \in Sites :
         /\ row[s] # None /\ row'[s].level # row[s].level
         /\ row'[s].down = row[s].down
         => told'[s] = told[s]]_vars

(* docs/notifications.md:17, of a site that goes into planned maintenance:
   "if it is still in alarm when the maintenance ends, that is sent then". *)
MaintenanceEndSent ==
    [][\A s \in Sites :
         /\ log[s] # <<>> /\ log[s][Len(log[s])] = <<"critical", "maintenance">>
         /\ row'[s].level = "critical"
         => told'[s] = Append(told[s], "alarm")]_vars

(* lock_site_levels: two builds running at once do not deadlock.           *)
BuildsFinish == \A b \in Builders : []<>(pc[b] = "idle")
==============================================================================
