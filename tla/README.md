# Nautobot-maps: a TLA+ model

This directory models the API of Nautobot-maps (`src/api/app`): the program that
reads the inventory from Nautobot and the device status from LibreNMS, computes
an alert level per site, keeps the history of alerts and notifies. The modules
are checked with TLC on small instances; the theorems are proved with TLAPS for
every value of the constants. File names below are relative to `src/api/app`.

## 1. The system

Several worker processes serve HTTP requests. Each also runs a scheduler thread,
and starts more threads for rebuilds and syncs. They share a PostgreSQL database
(rows, sequences, advisory locks) and a response cache (Redis or local). There is
no other communication: every coordination problem of the program is a question
about transactions, advisory locks and the cache.

| Component | State | Operations | Hard because |
|---|---|---|---|
| Board cache and rebuilds (`services/scheduler.py`, `alerts_service.board`, `clients/caching.py`) | the stored board and its snapshot version, pending marks (`push_seq`, the `received`/`rebuilt` and `requested`/`rebuilt` rows), two advisory locks | tick, rebuild thread, page request, push, webhook, operator's change, sync | a build takes long and everything it read may change; threads lose locks and die |
| Alert level (`alerts_service.compute_alert_level`) | none | a pure function of a site's devices, fields, overrides, tier, thresholds | early returns, boundaries, access points that count differently |
| Site level log and messages (`record_site_level_changes`, `notify_service.enqueue_change`) | `site_alert_levels`, `site_level_changes`, rows of the outbox | record what a build observed | overlapping builds; which changes are news and which are edits or planned work |
| Alert lifecycle (`upsert_alert_lifecycle_for_site`, `acknowledge`) | `alert_instances`, their events and cases | open, refresh, resolve, acknowledge, add a case, prune | builds and operators write the same rows; stale observations |
| Notification outbox (`notify_service.send_pending`) | `notification_outbox` | claim, deliver, retry, give up, clean up | delivery and commit are not atomic; senders may overlap |
| Inventory sync (`services/inventory_service.py`) | cached locations, devices, LibreNMS status, sync states with watermarks | incremental and full sync, push refresh | the remote data changes between two requests; slow answers; crashes while "running" |
| Device states (`next_device_state`, `came_up_at`, `write_device_states`) | `device_states` | since when down, alert delay, flapping | boundaries of time windows; three sources that take over from one another |
| Inbound webhooks (`services/webhooks_service.py`) | device alerts of other tools | store, refresh, remove, expire | lost "resolved" messages, order of commits |
| Maintenance windows (`services/maintenance_service.py`) | windows of sites and devices | plan, end, cancel; read what is active | activity depends on time; a stored board must not outlive it; two operators at once |
| Wireless controllers (`services/wireless_service.py`) | access points and their switches | poll, match | partial failures of several controllers |
| Availability (`services/availability_service.py`, `prune_alert_history`) | none (reads the history) | downtime of a period, incidents export, retention | touching and nested intervals; history deleted while it is reported |
| API tokens (`services/token_service.py`, `services/auth_service.py`, `session/__init__.py`) | `api_tokens` | create, use, revoke, purge; refuse a request | the answer and the commit; races of use, purge and revocation |
| Status links (`services/status_link_service.py`, `v1/routes/status.py`) | `status_links` | make, replace, open | two first requests; a link replaced under way |
| Scopes; data contract; migrations; exports, metrics, health, guide, MCP; HTTP server and settings; frontend; the predecessor `src/nautobot_maps` | little, or none of their own | see `PROJECT.json` | |

How they interact: a push, a webhook alert or an operator's change drops the
stored board, leaves a mark in the database and starts a rebuild thread. The
tick runs the due syncs, rebuilds when anything changed or is pending, and
sends the outbox. A build reads the inventory, then the board's tables; it
writes the alert lifecycle site by site, then the level changes with their
messages, and stores the board. A page request takes the stored board or builds
one itself.

What makes each component correct: nothing that changed is forgotten and no
reader gets a board older than it may; the level is the worst the rules give;
the log of levels is consistent and the messages match it; a device has one open
alert and history is not rewritten; each message reaches its receiver or is
given up after its own tries, whatever crashes; a device is down since it went
down, alarmed after the delay and flapping until it is steady; a board shows the
maintenance there is; the availability report is exact; a token or a link that
was answered as gone is refused and one that was shown works.

## 2. Modules

### BoardRebuild (and BoardRebuildProofs, MCBoardRebuild, MCScheduler)

State: the pushes and their `push_seq` marks; the webhook and change requests
with their timestamps and the rows that say what was requested and rebuilt; the
inventory's version (`last_succeeded_at`); the stored board with its label;
`recorded`, what completed builds have put into the history; the three advisory
locks; and each thread's place and locals. A board is abstracted to what it was
built from. `pc` follows the code: `tick` → (sync) → `pending` → `lock` → `read1`
→ `read2` → `write` → `ack` for ticks and rebuild threads, `check` → `lock` →
`recheck` → … for page requests.

`PushStore`/`PushNotify`, `HookStamp`/`HookCommit`/`HookNotify` and
`ChangeSave`/`ChangeDrop`/`ChangeRequest`/`ChangeNotify` are the handlers, cut
where they commit or where time passes between taking a timestamp and
committing it. `ReadInventory` and `ReadBoardData` are the two groups of reads
of `build_alert_board_payload`. `Ack` writes the three acknowledgements in one
step: each is a transaction of its own in the code, and a failed one is the
choice of `kinds`. `Abort` is an exception or a crash anywhere: PostgreSQL frees
the advisory locks with the connection. `WaitExpires`, the second way through
`LockBuild`, is a build that outlasted `BOARD_BUILD_WAIT_SECONDS`; `ReadsMayFail` lets a logged read failure happen.

### AtLeastOnce, NotificationOutbox (and NotificationOutboxProofs, MCScheduler)

`AtLeastOnce` is the promise: a queued message stays queued until it is settled;
sent means the receiver has it; given up means `MaxAttempts` failed tries of that
very message. `NotificationOutbox` is the code: one row per change and channel, a
sender takes the channels in order, claims the due rows (`FOR UPDATE SKIP
LOCKED`), sends them singly or as summaries, and commits the outcomes of the
channel together. Senders work under the scheduler's lock, but the lock belongs
to a database session: when that connection breaks the process goes on and a
second sender may start, so the model lets senders overlap. `Crash` rolls the
transaction back; what was delivered stays delivered. `received`, `resent` and
`tries` are history variables.

### AlertLevels, SiteFailures (and SiteLevelsProofs)

`device_level`, `_wired_level`, `compute_alert_level`, the level the feed sees,
and `event_kind`, as operators. `SiteFailures` drives them with a site whose
devices fail, recover, come and go in any order.

### SiteLevels (and SiteLevelsProofs, MCSiteLevels, MCSiteChanges, MCBuildsLive)

Extends AlertLevels. A build observes the sites (`Observed`: level, quiet flag,
the two fingerprints of `site_level_keys`), locks the rows in site order, and
commits rows, log and messages in one transaction. Events of the world: failures,
windows of sites and of devices, edits of the criticality field, tier changes, a
restart with other thresholds, and the deletion of old messages.
`told` and `hushed` are history variables.

Left out: `NOTIFY_TENANTS` and an instance without a channel. Every site is one the
messages are for (`enqueue_change` returns before it queues anything for another),
and a channel is configured; without one nothing is queued, and there is nothing to
say about messages.

MCSiteChanges is one site of two devices, for two promises of the documents about
messages that the code does not keep (findings 3 and 4).

### AlertLifecycle (and AlertLifecycleProofs, MCAlertLifecycle, MCBuildsLive)

The alert instances of one site under READ COMMITTED, statement by statement. A
transaction's uncommitted rows and row locks are its `draft`; a statement sees
`View`, waits for `Holders`, and an insert waits for another transaction's insert
or update of the same key (`Rivals`). `DeadlockAbort` is PostgreSQL ending one of
the transactions that wait for each other. `Observe` reads the devices; `Begin`,
later, the open alerts and the windows, and takes `checked_at`: these lie apart in
the code and are one step here (what is lost is a build that reads no open alert,
where one is opened before its `checked_at`; it then writes nothing). `Told` says whether the source tells when a device
changed (Nautobot's `last_updated`, a webhook's time, the end of flapping); else
the build's own `checked_at` is used.

Left out: level, reason, names, events and `last_seen_down_at` of a row; cases;
pruning (see Availability); a site-wide window (such a build writes nothing) and unreadable windows
(likewise); the alert delay (a device within it is one the build does not see
down). The id of a rolled-back insert is used again, in PostgreSQL it is skipped.

### LibreNMSStatus (and DevicesProofs, MCDevices)

`librenms_device_status` with its `observed_seq`. A request takes a number
(`Ask`), is answered with the devices as they are at some later time (`Answer`)
and stored (`StoreSync`, `StorePush`); pushes overlap each other and the sync,
syncs exclude each other by the `inventory_snapshot_sync` lock. Each store is one
step: its statements each touch a row once, under the row's lock. A status is the
change of LibreNMS that set it. `base` and `done` are history variables: what a
device was when a number was taken, and the highest number used for it.

### NautobotSync (and NautobotSyncProofs, MCNautobotSync)

The location and device caches, the rows of `inventory_sync_state` and one sync at
a time under the lock: `Start` (what is due, full or incremental, "running"),
`FetchLocations`, `FetchDevices`, then `Commit`, `Error` or `Crash`. Nautobot is
edited between any two steps. An object is its last edit; a row also keeps the
version of the settings and the edit of its parent location it was made with, so
that a renamed parent makes the rows under it stale. Time is counted in edits:
Nautobot's clock and the server's are one, and an edit is visible as soon as it
has its time. `mid` and `missed` are history variables: `missed` is what a watermark
passed by (`PassedBy`), the exceptions of `NotSkipped`. A list may come empty, or both
(a token that lost a permission, `sync.blank`), and the stored locations may be
unreadable, which `read_location_tree` answers with none (`sync.tree`): a rename is
then not seen, and the locations fetched get no parent's name from the store.

Left out: cables, circuits, tenants and links (replaced or kept whole in the same
transaction), paging (a list is read at one moment), the cooldown of forced syncs
(callers without one may start at any time), and virtual chassis, whose change is
`Commit`'s free choice.

### WebhookAlerts, DeviceStates (and DevicesProofs, MCDevices)

`WebhookAlerts` is `webhook_device_alerts` for one device: `store` deletes what has
expired, stores or refreshes what fires and removes what is resolved;
`read_index` gives the device the earliest of the current ones. `DeviceStates` is
one device on the board. It is down by Nautobot, LibreNMS or a webhook, in this
order (`Observed`). A build reads the sources, `device_states`, the open alerts
and the windows (`BuildRead`), and later works out `next_device_state`, holds the
device back (`Pending`), counts it, and writes alert and state (`BuildWrite`). The
reads may fail, and so may either write alone: the alert's failure is logged, and the
state is then written on a new connection. `pending_device` and `flapping_device` are the map's own queries
over the same rows. Builds come one after the other; overlapping ones are in
AlertLifecycle.

Left out: the wireless controllers as a fourth source, muted devices, the
clean-up of rows of devices no build has seen for weeks, names and matching.

### WindowRows, MaintenanceWindows, Intervals, Availability (and MaintenanceProofs, MCMaintenance)

`WindowRows` is the table of windows: what may be planned, `state`, `read_active`,
the next change, the history. `MaintenanceWindows` has the requests, which take
their time before the transaction that locks the rows (`EndStart`, `EndCommit`)
and drop the board after it (`Changed`), and the board, which a build stores for
`cache_seconds`, until the next window starts or ends. The cache is external: a
timeout of 0 never expires.

`Availability` writes incidents, levels and windows as the clock runs, deletes
what is older than the retention (`PruneIncidents`, `PruneChanges`), and works out
the report from the rows left: `read_incidents`, `read_critical`, `down`, `outages`,
and `counted` for the export, with the interval operators of `Intervals` (`union`,
`subtract`, `clip`, `seconds`). Lists are sets there, since each function sorts or
merges what it is given; only what `union` returns is in order. `read_critical`'s
walk over the log is written as what each change in it lasts: until the next one,
or the end. The reference
(`Down`) asks of every tick, from all that was ever written, whether the site was
down and not in maintenance.

### Access (and AccessProofs, MCSiteLevels)

Requests with their user, resolved once (`Begin`), the last use written on a
session of its own (`Touch`), the statements of one transaction each
(`Create`, `Revoke`, `Purge`, `EnsureRead` to `EnsureReRead`, `Replace`), the commit
before the answer (`Commit`, which may fail, then `Send`), and the status page
(`ReadLink`, `Page`). Rows written and not committed make others wait (`Held...`).
`shown`, `revokedTold`, `linkTold`, `replaced` and `closedTold` are history variables:
what clients have been answered. A token's secret is its id.

Left out: scopes, cross-site requests, which proxies are trusted, and the copies
of the same checks in the older routes. Validation of a request's fields is the
choice of `Asked`.

### Composites

MCScheduler, MCBuildsLive, MCMaintenance and MCDevices each run two modules and
MCSiteLevels three, chosen initially by `part`: the others' variables stay as they
began. The parts never meet; a run checks all. MCSiteLevels, MCMaintenance and
MCDevices extend all of theirs, so that a run checks the very properties the theorems
state; MCScheduler extends NotificationOutbox beside an instance of BoardRebuild, and
MCBuildsLive has an instance of SiteLevels: they name the instances' properties again.
Some modules name their specifications for it: SiteFailures
`FailuresSpec`, Access `AccessSpec`, Availability `ReportSpec` and LibreNMSStatus
`StatusSpec`. The fairness in MCScheduler is each module's own, in its part. In
MCSiteLevels the builders of one part and the handlers of another are the same model
values, and so are two devices and the tenants: each part is symmetric in its own, so
one permutation serves all. MCMaintenance's two modules share the rows of windows and
the clock, so its invariants are evaluated in both parts.

## 3. Runs

| Run | Result | What it shows |
|---|---|---|
| BoardSafe | pass | A push, a change and two syncs against a tick, a rebuild thread and a page request, with one crash: nothing is acknowledged before it is built, stored boards that miss a refresh are still owed a rebuild, pages are never older than the sync they could know of. |
| BoardHookRace | violation | Finding 1. |
| Scheduler | pass | Two parts. Two overlapping senders with retries, summaries, a crash and a lost answer; refinement of AtLeastOnce; every message settles. Builds that may outlast the wait: every refresh reaches a build and every page request is answered. |
| Site | pass | Three parts. The level against a reference definition under every combination of fields, overrides, tiers and thresholds. Two overlapping builds: the log is a chain and the last message fits the stored level. Two requests at a time, three in all, on tokens and status links, with one failing commit or statement, with and without a sign-in proxy: what was answered as gone is refused, what was shown works. |
| SettingChange | violation | Finding 3. |
| MaintenanceEnd | violation | Finding 4. |
| Lifecycle | pass | Two builds and an operator on two devices, one transaction failing: one open alert, ends after starts, acknowledgements only on open alerts, ended and frozen alerts untouched. |
| BuildsLive | pass | Two parts. Two builds that may be stale, wait for each other and deadlock, with and without told times: alerts and devices agree in the end. Two builds locking two sites' rows both finish. |
| Nautobot | pass | Edits and deletions during incremental, full and forced syncs, with one fault (an error, a crash, other settings, an empty list or two, an unreadable tree): the next sync brings what the last did not, nothing Nautobot has is dropped but a list that came empty alone, the caches become what Nautobot has. |
| NautobotRename | violation | Finding 2. |
| Maintenance | pass | Two parts. Two requests plan and end windows while boards are built and expire: a stored board shows the maintenance there is, a window ends once. Incidents, levels, windows and retention: the report is exact, the export adds up to it, the maintenance history agrees. |
| Devices | pass | Two parts. Two pushes and a sync answered in any order, one failing or empty: no older answer replaces a newer one or brings a removed device back; nothing LibreNMS has is dropped. One device with three sources, a window and builds that may fail: since when it is down, when it alarms, when it flaps, and that board and map agree. |

### Bounds

* One device, change, tick, rebuild thread, page request and sync is enough for
  every pair of roles to race; two rounds of a rebuild thread let it pick up what
  arrived during its first; two syncs give a build a commit to run across. The
  proofs remove these bounds for the safety properties.
* The outbox has two channels, of which one is configured (an unconfigured one is
  passed over), two changes and a summary threshold of one, so both single
  messages and a summary of rows with different numbers of tries occur; two tries
  are the limit, so the first and the last try are different. All of it is proved
  without bounds.
* Site: five devices, a core and an access point among them, put the thresholds
  of 25, 50, 75 and 100 percent on, above and below reachable shares. Four events
  allow a failure, a window or edit, its end and a recovery; two builds are enough
  for one stale observation. SettingChange and MaintenanceEnd need one builder, two
  devices (half of them down is Medium or Critical, by the threshold) and three or
  four events.
* Lifecycle: two builds, one operator, two events; two clock values tell "before"
  from "after"; four alerts are as many as those builds can open (the run checks
  for deadlock, and would stop where an id were missing). Lifecycle takes every
  time from `checked_at` and lets one transaction fail; BuildsLive has builders
  whose source tells the time, does not, or does for one of them, without an
  operator.
* Devices, the statuses: three requests are a sync with a push to each side of it;
  two changes let a device go and come back. Nautobot: a parent location, one under
  it and a device, with two edits after the first state, in which the parent is the
  older, and one fault; NautobotRename needs no fault and four edits.
* Devices, the states: five ticks with windows and expiries of two and three, and
  three changes to flap, let flapping begin and end and an alert expire and fire
  again; four events are a failure by one source, a second one, and two recoveries.
* Maintenance: two windows of a site or a device, two ticks to a second, so a
  change can fall inside one; the clock stops at two, when the shorter window is
  over and the longer one still runs. In the report's part two devices, two incidents or
  level changes, two windows and four ticks with a retention of two let intervals
  touch, nest and be cut, and rows fall out. A batch holds all rows due; with
  more rows than a batch see "met while modelling".
* Site, access: three requests are a use, a change and another request to see it; two
  tokens of one name, so that a purged name is taken again; two link ids. There the run may stop, all requests
  made and the clock at its bound, so Site does not check for deadlock.
* Symmetry is used in safety runs only.

### Fairness

Ticks come for ever and a started thread goes on (weak fairness of each thread's
next step): the scheduler's loop catches every exception, and a request has a
timeout. Pushes, changes, page requests and crashes have none. In the outbox and
NautobotSync also time passes (`FallDue`, `ReconcileFallsDue`); there the
scheduler's start and a living sync's steps are weakly fair, forced syncs are not. Row locks are granted in turn by PostgreSQL's lock queue,
so waiting for one is strongly fair in SiteLevels and AlertLifecycle; there
`DeadlockAbort` is weakly fair (`deadlock_timeout`). The safety runs
state no fairness.

## 4. Findings

1. **BoardHookRace.** `webhooks_service.store` takes its time before its
   transaction commits, and the last to commit decides `RECEIVED_STATE`. A
   request that commits after a newer one was rebuilt leaves nothing pending; if
   its own rebuild loses the lock, no tick rebuilds for it, although the module's
   comment says such a rebuild "isn't lost".
2. **NautobotRename.** The watermark is the newest `last_updated` of both lists. A
   location created after the locations were fetched is passed by when a device in
   the second list was edited later. Once a location under it is stored and it is
   itself edited, `tree_change` looks it up in the stored tree, where it is not:
   `KeyError`. The sync ends in "error" with its watermark unchanged, and so do the
   next ones until the daily full sync, although the comment says "the next sync is
   a full one".
3. **SettingChange.** `docs/alert-board.md:151`: a change of level with the same
   devices down ("a criticality field, a tier or a setting was changed") is "not
   notified". `record_site_level_changes` asks for another criticality fingerprint
   besides the same devices, and the thresholds `ALERT_MEDIUM_PERCENT` and
   `ALERT_CRITICAL_PERCENT` are not in `site_level_keys`: the first build after a
   restart with other thresholds sends an alarm, or a recovery, for a site at which
   nothing changed.
4. **MaintenanceEnd.** `docs/notifications.md:17`, of planned maintenance: "if it is
   still in alarm when the maintenance ends, that is sent then". When a criticality
   field or the tier is edited between the last build of the window and the first
   after it, the change from maintenance to Critical counts as an edit and nothing
   is sent, then or later.

`MessageMatchesLevel`, which the Site run checks and `MessagesMatch` proves, allows
both: it takes a threshold's message as one that fits the new level, and asks
nothing of a site whose last change was an edit's (`hushed`).

Met while modelling, without a run of their own:

* A build that cannot read the LibreNMS rows logs it and goes on; its rebuild
  acknowledges refreshes it was not built from ("clear exactly the refreshes it
  was built from"). With `ReadsMayFail = TRUE` TLC finds `PushNotForgotten`
  violated.
* An edit passed by a watermark (finding 2) is otherwise only late: the daily full
  sync brings it. `NotSkipped` names the case.
* A first sync that finds Nautobot empty (a token without permissions) stores its
  start as the watermark: objects older than that come with the daily full sync.
  A full sync of which only one list is empty deletes that list's cache: the guard
  asks for both. `LiveKept` and `NotSkipped` name the case.
* A sync that cannot read the stored locations goes on without them: it misses a
  rename of a location that others are under and stores rows without their parent's
  name, until the daily full sync. `NotSkipped` names the case.
* When everything is deleted in Nautobot, or in LibreNMS, the guard keeps the
  caches for ever.
* "A higher one is a newer answer" (`librenms_observation`) is not quite so: the
  request with the lower number may be answered later. What holds is
  `StatusNotBefore`: a status is no older than the device was when the highest
  number used was taken.
* `request_change_rebuild` has the race of finding 1: a delayed request overwrites
  a newer one's time.
* A board whose snapshot version could not be read is stored without one and
  counts as current for every later version, until its cache time ends.
* A build that outlasts the wait may store an older board over a newer one, whose
  refreshes are already acknowledged (`StoredBoardOwed` is checked without it).
* A stale build logs a level change back, and the next build logs it again: the
  log stays a chain, but "nor log the same change twice" does not hold.
* After `KEEP_DAYS` the row that says an alarm was sent is gone; its end below
  another tier's minimum then sends nothing.
* `refresh_open_alert` has no condition on the status and may touch the level and
  reason of an alert resolved while it waited; a case may be added to an alert
  that has just ended, its row not being locked.
* Retention deletes in batches with `LIMIT` and no order, each its own transaction.
  With more level changes due than a batch holds, a later one may go first: a
  report between two batches takes the site's level at its start from the older
  one left. With `Batch = 1` TLC finds `ReportExact` violated.
* Two builds that overlap write `device_states` each from what it read; the later
  write may be the older observation, until the next build.
* The downtime of an alert is counted from its start as read; a start that moved
  earlier meanwhile is not counted.

## 5. Proofs

Every theorem holds for all values of the constants, so for any number of
threads, devices, sites, requests and events; the bounds of the runs (`Max...`)
are arbitrary naturals in them. Every inductive invariant was first checked by
TLC on the module's run.

### BoardRebuildProofs

* `TypeCorrect`: `Spec => []TypeOK`.
* `PushesKept`: `~ ReadsMayFail /\ Spec => []PushNotForgotten`, also with builds
  that outlast the wait. The property is not inductive: that an acknowledgement
  is safe depends on what the thread saw before its build being in the build.
  `PushInv` adds that a row's mark is empty or its last refresh's number
  (`PushMarks`), and for each thread (`PushThread`) that it saw no number the
  sequence has yet to give, and that a refresh whose number it saw is in its
  build, or after the build in the history.
* `ChangesCovered`: `~ ReadsMayFail /\ Spec => []ChangeAckCovered`, along the same
  argument with times in place of numbers (`ChangeInv`): a change with a time was
  saved before it, so who sees the time builds from the change.
* `AnswersFresh`: `~ ReadsMayFail /\ Spec => []ServedFresh`. `FreshInv`: a thread
  reads its label no later than the inventory its board is built from, so no
  board is older than its label.
* `BoardOwed`: `~ ReadsMayFail /\ ~ BuildWaitExpires /\ Spec => []StoredBoardOwed`.
  `OwedInv` adds to `PushInv` that one thread at a time reads and stores (`Held`),
  that what a build has read of a device is its last refresh or is still marked
  (`BuiltOwed`), and that what a thread is about to acknowledge is in the stored
  board and in every build under way (`AckOwed`).

Without `~ ReadsMayFail` `PushNotForgotten` is false, and without
`~ BuildWaitExpires` so is `StoredBoardOwed`: see "met while modelling". The
proofs first sort all actions into a source's, a build's and those that touch
neither (`StepKinds`).

### NotificationOutboxProofs

* `TypeCorrect`, and `SendersNeverShare`: `Spec => []ClaimsExclusive`.
* `NoOtherDuplicate`: `Spec => []DuplicatesExplained`.
* `OutboxImplements`: `Spec => DeliversAtLeastOnce`, the refinement.

They rest on `OutboxInv`: the claims are exclusive and of pending rows; a claimed
row is in one of `left`, `ok` and `bad`; rows beyond the queue are untouched; what
counts as delivered was received; and the saved attempts are covered by failed
tries (`TriesCounted`), which is why giving up means `MaxAttempts` failures of that
row, also in summaries and across crashes.

### SiteLevelsProofs

* `TypeCorrect`: `Spec => []TypeOK`.
* `LogIsChain`: `Spec => []ChangesChain`. It needs what the row locks are for:
  a build's `previous` is the row, from its lock to its commit (`LockedIsRead`),
  and a site without a row has no history (`NoRowNoHistory`).
* `MessagesMatch`: `Spec => []MessageMatchesLevel`. `ToldLevel` strengthens it: the
  newest row of the outbox is the last message, an unhushed Critical site is
  alarmed and one whose level ranks nothing is not. The step is `MessageTells`: which
  changes of level `event_kind` makes a message of.
* `LevelWorst`: `FailuresSpec => []LevelIsWorst`.

`LevelWorst`'s invariant is only that the site's devices are finitely many and that only
they fail (`FailuresCounted`); the work is in the lemmas about `AlertLevels`: what
`Worse` and `worst_of` do to ranks (`WorseRank`, `WorstOfRank`), that the wired
devices' level is the worst of their own and of the share that is down
(`WiredRank`), and that no early return of `compute_alert_level` hides a worse
level (`LevelRank`).

### AlertLifecycleProofs

* `TypeCorrect`: `Spec => []TypeOK`.
* `OneOpen`: `Spec => []OneOpenAlert`; `OutagesSound`: `Spec => []EndAfterStart`;
  `HistoryNeverChanges`, `AckLands` and `WindowsFreeze`: the action properties
  `HistoryKept`, `AckOnOpen` and `FrozenKept`.

All five rest on `LifecycleInv`. A committed table with one open alert says
nothing of two uncommitted inserts, so `OneMayBeOpen` counts the open alerts of all
drafts as well. A row is in one draft at a time (`Exclusive`), and what a draft
makes of it may follow it (`DraftsSucceed`: same device, no later start, an end is
final). `Building` says what a build still knows at each place of what it read
earlier: the row it found is still the device's, and has started no later.

### AccessProofs

* `TypesKept` and `TouchedOnce`: `AccessSpec => []TypeInv`, `AccessSpec => UsedOnce`. `TypeInv`
  adds to the types that every request is well-formed for its kind and place.
* `SecretsWork`: `AccessSpec => []ShownWorks`; `RevokedStayOut`: `AccessSpec => RevokedRefused`.
  `TokensInv`: a token that has stopped working never works again, so what a purge
  read as such may be deleted after any delay, and an answer that is yet to be sent
  is of what is committed.
* `LinksOpen`: `AccessSpec => []LinkKept`; `PagesOwn`: `AccessSpec => PageOwn`. `LinksInv`: a
  tenant has one id and no id is two tenants', also counting what transactions
  have written and not committed (`LinksDistinct`); an id that is gone stays gone
  (`Gone`); and a link about to be answered is the tenant's, will be when its request
  commits, or was replaced since (`Answers`).

### DevicesProofs

* `NeverBefore`: `StatusSpec => []StatusNotBefore`; `KnownStay`:
  `StatusSpec => KnownKept`.

`StatusInv`: a later number saw every device no older (`NumbersInOrder`); an answer
is of no earlier moment than its number (`AnswersAfter`); a row is of the highest
number used for its device or a later one, and a sync under way has a higher
number than the sync that deleted a row (`RowsCurrent`), which is why an older push
cannot insert it again after the check.

* `NeverDownShorter`, `AlarmsJustified`, `FlapsUntilSteady`, `MapCountsAlike` and
  `FiresAnew`: `Spec` of DeviceStates implies `SinceKept`, `AlarmJustified`,
  `FlappingEnds`, `MapAgrees` and, with `Late < Ttl`, `HookStartsAnew`, at any times
  and settings. The code stores whatever start a tool says; one that says a start from
  before the time in which its alert expires carries on from there.

`StatesInv` has the types; that what a build read of the row and the alert is what
they are until it writes (`BuildCurrent`: builds come one after the other); and that
webhook alerts' starts are bounded below (`HookType`), so that of infinitely many there
is an earliest. The work is `NextStateIs`, what
`next_device_state` makes of a stored state: down since no later than before, only
recent changes, flapping only with one of them, and steady only when none was left.
That `_recent` keeps just the recent changes of a list of any length (`AfterKeeps`)
is an induction, done over the least number at which it would fail (`UpTo`).

### NautobotSyncProofs

* `NextSyncBrings`: `Spec => []NotSkipped`; `DropsOnlyDeleted`: `Spec => LiveKept`.

`SyncInv` says what a sync knows of an object of a list it has fetched
(`AnswersHold`): it got it as it is; or it was edited after all that was fetched, so
the next watermark does not pass it; or it is of the kind of finding 2 (`mid`); or an
incremental sync left it out because it is older than the watermark. `Owed` splits
what is stale into the object's own edit and its parent location's, since either may
be the one the next sync brings; `MissedStale` keeps an object missed only as long as
it is stale. `missed` takes in what a commit's watermark passes by (`PassedBy`): edits
between the lists, a list that came empty alone, and what is under a parent that could
not be read. `DropsOnlyDeleted` excepts the one list that came empty beside the other.

### MaintenanceProofs

* `WindowsEndOnce`: `Spec => EndedOnce`. Windows end after they start and are ended
  before they end (`RowsInTime`); a request looks at the rows again under their locks.
* `BoardShowsWindows`: `Spec => []WindowsShown`. The property speaks of now; the
  invariant of every moment until the next change. What a build has read stays the
  active windows until the next start or end it read (`BuildLasts`), and what the
  stored board shows until a second before it expires (`BoardLasts`), unless a
  request changed the windows since, in which case it has yet to drop the board
  or the rebuild it asked for is not acknowledged. The lemmas under it are
  that what is active stays so until the next change read (`ReadLasts`) and that a
  board expires at most a second after it (`ExpiresInTime`).

The availability report:

* The lemmas about `Intervals`, for any intervals. `union` lists what covers the
  same ticks, in order, none empty, none touching (`UnionIs`), and there is one
  such list (`ApartUnique`), whose members are the runs of what it covers
  (`RunsAre`); `subtract` leaves the ticks of its first argument that are not of
  its second (`SubtractIs`); `clip` those in the period (`ClipIs`). The folds are
  over lists of any length: the induction is over their places, with the set of
  places reached so far (`UpTo`), from the well-foundedness of the naturals.
* `ReportInvariant`: no incident is missing that was not over before the history
  a report may ask for (`IncidentsKept`), and windows end once and in time.
* `ExportIsReport`: `ReportSpec => []ExportAddsUp`. Both lists are apart and cover
  the same ticks, so they are the same.
* `ReportIsExact`: `ReportSpec /\ []OneBatch => []ReportExact`. `LogInv` adds that
  the log is in order of time and a chain from a level to the next (`LevelLog`),
  and that retention takes it from its beginning (`ChangesKept`): so the last
  change kept before a tick is the last there was, and if none is kept, none
  that mattered is gone. `OneBatch` says that a batch holds the level changes
  due; without it `ChangesKept` and the property are false (section 4).
* `HistoryAgrees`: `ReportSpec => []HistoryCovers`.

### Assumptions on the constants

Numbers are naturals, sets that stand for different things are disjoint, and `None`
is no value of the set it is added to. Beyond that:

* `AlertLevelsAssumption`, `SiteLevelsAssumption`: the levels of tiers, minima and
  access points, and of the fields Nautobot has, are levels the code knows: `config.py`
  validates the settings, and the sync ignores other values.
* `WindowAssumption`: there are finitely many sites and devices; a window is longer
  than nothing. `ReportAssumption`: there are finitely many reported devices, and a
  batch of the retention takes at least one row.
* `StatusAssumption`: a sync is not a push. `AccessAssumption`: days are whole numbers.
* `SyncAssumption`: locations and devices are different objects.
* `ConstantsAssumption`, `ThreadsAssumption`, `OutboxAssumption`: a thread has one
  role; there is a round, a channel and a try.

### Only model-checked

* Every liveness property: fairness and ENABLED are beyond the prover.
* `HookNotForgotten`, `RenameMakesFull`, `SettingNotSent` and `MaintenanceEndSent`, which
  are false (section 4).

## 6. Plan

1. Cases in AlertLifecycle; the wireless controllers' partial failures; cables,
   circuits and virtual chassis in NautobotSync.
2. The log and the incidents of Availability are written by actions of its own;
   SiteLevels and AlertLifecycle could be shown to write such rows, by refinement.

## 7. Not modelled, and why

Reads and renderings (map, search, exports, metrics, health, guide, MCP, the
status page's content) and the frontend keep no state the rest depends on. The data contract and
the parsing of settings are data without control. HTTP, SMTP and SQL syntax are
abstracted to their outcomes. The predecessor application (`src/nautobot_maps`) is the same logic in an
older form, and the frontend is in the repository twice (`src/web`,
`src/frontend`): together they are most of its lines, and a model of either would
repeat this one or have nothing to check. Within the API the data contract, the
exports and the parsing and matching of names are the largest parts left out. `PROJECT.json` lists each part with its reason.
