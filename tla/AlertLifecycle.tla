--------------------------- MODULE AlertLifecycle ---------------------------
(***************************************************************************)
(* The alert instances of one site: opened, refreshed and resolved by the  *)
(* board builds, and acknowledged by operators.  What a row or its events  *)
(* say (level, reason, names) is left out.                                 *)
(*                                                                         *)
(* A build observes the devices, takes its checked_at later, and writes in *)
(* one transaction, statement by statement, under PostgreSQL's READ        *)
(* COMMITTED: a statement sees what is committed and its own transaction's *)
(* rows, and waits for a row another open transaction has changed or       *)
(* locked.  Several builds and operators may be at it at once.             *)
(***************************************************************************)
EXTENDS Naturals, FiniteSets

CONSTANTS
    NDevices,    \* devices of the site, numbered in inventory order
    Builders,    \* threads that build the board
    Operators,   \* requests that acknowledge or un-acknowledge
    NAlerts,     \* bound: alert instances ever opened
    MaxClock,    \* bound: the clock
    MaxEvents,   \* bound: failures, recoveries and windows
    Told,        \* may the source tell when a device changed? a set of BOOLEAN
    MaxFailures  \* bound: transactions that fail

Devices == 1 .. NDevices
Ids     == 1 .. NAlerts
Times   == 0 .. MaxClock
Txns    == Builders \cup Operators

ASSUME LifecycleAssumption ==
    /\ NDevices \in Nat \ {0} /\ NAlerts \in Nat /\ MaxClock \in Nat
    /\ MaxEvents \in Nat /\ MaxFailures \in Nat
    /\ Told \subseteq BOOLEAN
    /\ Builders \cap Operators = {}

VARIABLES
    clock,     \* now
    down,      \* devices that are down
    since,     \* [Devices -> Times] when a device last changed
    windows,   \* devices in maintenance
    events,    \* failures, recoveries and windows so far
    failures,  \* transactions that failed so far
    alert,     \* [Ids -> the committed row of alert_instances]
    draft,     \* [Txns -> [ids it changed or locked -> row]] uncommitted
    pc,        \* where each request or build is
    obs,       \* [Builders -> what the build observed]
    todo,      \* [Txns -> devices still to write, or ids still to lock]
    cur        \* [Builders -> the id found, 0 for none]

world == <<clock, down, since, windows, events>>
table == <<alert, draft>>
local == <<pc, obs, todo, cur>>
vars  == <<world, failures, table, local>>

Nothing == [i \in {} |-> 0]
NoRow   == [status |-> "none", device |-> 0, started |-> 0,
            resolved |-> 0, downtime |-> 0, acked |-> FALSE]
NoObs   == [down |-> {}, windows |-> {}, known |-> FALSE,
            since |-> [d \in Devices |-> 0], at |-> 0]

Init ==
    /\ clock = 0 /\ down = {} /\ since = [d \in Devices |-> 0]
    /\ windows = {} /\ events = 0 /\ failures = 0
    /\ alert = [i \in Ids |-> NoRow]
    /\ draft = [t \in Txns |-> Nothing]
    /\ pc = [t \in Txns |-> "idle"]
    /\ obs = [b \in Builders |-> NoObs]
    /\ todo = [t \in Txns |-> {}]
    /\ cur = [b \in Builders |-> 0]
-----------------------------------------------------------------------------
(* The world.                                                              *)
Tick ==
    /\ clock < MaxClock
    /\ clock' = clock + 1
    /\ UNCHANGED <<down, since, windows, events, failures, table, local>>

DeviceChange(d) ==
    /\ events < MaxEvents
    /\ events' = events + 1
    /\ down' = IF d \in down THEN down \ {d} ELSE down \cup {d}
    /\ since' = [since EXCEPT ![d] = clock]
    /\ UNCHANGED <<clock, windows, failures, table, local>>

WindowChange(d) ==
    /\ events < MaxEvents
    /\ events' = events + 1
    /\ windows' = IF d \in windows THEN windows \ {d} ELSE windows \cup {d}
    /\ UNCHANGED <<clock, down, since, failures, table, local>>
-----------------------------------------------------------------------------
(* Rows as a transaction sees them, and the rows it has to wait for.       *)
View(t, i) == IF i \in DOMAIN draft[t] THEN draft[t][i] ELSE alert[i]

OpenFor(t, d) == {i \in Ids : View(t, i).status = "open" /\ View(t, i).device = d}

Holders(t, i) == {u \in Txns \ {t} : i \in DOMAIN draft[u]}

Write(t, i, row) ==
    draft' = [draft EXCEPT ![t] =
                [j \in DOMAIN draft[t] \cup {i} |-> IF j = i THEN row ELSE draft[t][j]]]

(* A slip: no unique index; only committed open alerts conflict.           *)
RivalsCommitted(t, d) == {}

(* Rows of the device another open transaction has open, or is closing: an
   insert under the unique index waits for it. *)
Rivals(t, d) ==
    {i \in Ids : \E u \in Holders(t, i) :
        draft[u][i].device = d /\ "open" \in {draft[u][i].status, alert[i].status}}

(* The transaction is over: nothing it read or locked is left.             *)
End(t) ==
    /\ pc' = [pc EXCEPT ![t] = "idle"]
    /\ todo' = [todo EXCEPT ![t] = {}]
    /\ cur' = [b \in Builders |-> IF b = t THEN 0 ELSE cur[b]]
    /\ obs' = [b \in Builders |-> IF b = t THEN NoObs ELSE obs[b]]
    /\ draft' = [draft EXCEPT ![t] = Nothing]

Goto(t, place) == pc' = [pc EXCEPT ![t] = place]
-----------------------------------------------------------------------------
(* A board build.                                                          *)

(* The build reads the devices first.  known: the source tells when a device
   changed (Nautobot, a webhook, the end of flapping); else that is
   checked_at. *)
Observe(b, known) ==
    /\ pc[b] = "idle"
    /\ obs' = [obs EXCEPT ![b] =
                 [NoObs EXCEPT !.down = down, !.known = known,
                               !.since = IF known THEN since ELSE @]]
    /\ Goto(b, "observed")
    /\ UNCHANGED <<world, failures, table, todo, cur>>

(* A slip: only devices down are a reason to write.                        *)
needs_write_down(b, frozen) == obs[b].down \ frozen # {}

(* Something to open or refresh, or an open alert, to resolve.             *)
needs_write(b, frozen) ==
    obs[b].down \ frozen # {} \/ \E i \in Ids : alert[i].status = "open"

(* Later it reads, over one connection, the open alerts and the active
   windows; checked_at is taken when the site's turn comes.  With nothing
   down and nothing open there is nothing to write. *)
Begin(b) ==
    /\ pc[b] = "observed"
    /\ IF needs_write(b, windows)
       THEN /\ obs' = [obs EXCEPT ![b].windows = windows, ![b].at = clock]
            /\ todo' = [todo EXCEPT ![b] = obs[b].down \ windows]
            /\ Goto(b, "look")
            /\ UNCHANGED <<draft, cur>>
       ELSE End(b)
    /\ UNCHANGED <<world, failures, alert>>

Device(b) == CHOOSE d \in todo[b] : \A e \in todo[b] : d <= e

(* down_since: never later than checked_at.                                *)
down_since(b, d) == IF obs[b].known THEN obs[b].since[d] ELSE obs[b].at

NextDevice(b) ==
    /\ todo' = [todo EXCEPT ![b] = @ \ {Device(b)}]
    /\ cur' = [cur EXCEPT ![b] = 0]
    /\ Goto(b, "look")

(* latest_open_alert; looked up again after a conflict, and then a device
   without an open alert is left to the next build. *)
LookUp(b) ==
    /\ pc[b] \in {"look", "again"} /\ todo[b] # {}
    /\ \/ \E i \in OpenFor(b, Device(b)) :
            /\ cur' = [cur EXCEPT ![b] = i]
            /\ Goto(b, "refresh")
            /\ UNCHANGED todo
       \/ /\ OpenFor(b, Device(b)) = {} /\ pc[b] = "look"
          /\ Goto(b, "insert")
          /\ UNCHANGED <<todo, cur>>
       \/ OpenFor(b, Device(b)) = {} /\ pc[b] = "again" /\ NextDevice(b)
    /\ UNCHANGED <<world, failures, table, obs>>

(* open_alert_instance: ON CONFLICT (alert_key) WHERE open DO NOTHING.     *)
OpenAlert(b) ==
    /\ pc[b] = "insert" /\ Rivals(b, Device(b)) = {}
    /\ IF \E i \in Ids : alert[i].status = "open" /\ alert[i].device = Device(b)
       THEN Goto(b, "again") /\ UNCHANGED <<draft, todo, cur>>
       ELSE \E i \in Ids :
              /\ alert[i].status = "none" /\ Holders(b, i) = {} /\ i \notin DOMAIN draft[b]
              /\ \A j \in 1 .. i - 1 :
                    alert[j].status # "none" \/ Holders(b, j) # {} \/ j \in DOMAIN draft[b]
              /\ Write(b, i, [NoRow EXCEPT !.status = "open", !.device = Device(b),
                                           !.started = down_since(b, Device(b))])
              /\ NextDevice(b)
    /\ UNCHANGED <<world, failures, alert, obs>>

(* A slip: the outage's start is overwritten.                              *)
StartOverwritten(before, found) == found

(* LEAST(down_started_at, ...)                                             *)
Start(before, found) == IF found < before THEN found ELSE before

(* refresh_open_alert: UPDATE ... WHERE id, whatever its status is by then. *)
Refresh(b) ==
    LET row == View(b, cur[b]) IN
    /\ pc[b] = "refresh" /\ Holders(b, cur[b]) = {}
    /\ Write(b, cur[b], [row EXCEPT !.started = Start(@, down_since(b, Device(b)))])
    /\ NextDevice(b)
    /\ UNCHANGED <<world, failures, alert, obs>>

(* A slip: devices in maintenance are not kept.                            *)
KeptDown(b) == obs[b].down \ obs[b].windows

(* open_alert_keys: the devices down, and those in maintenance.            *)
Kept(b) == obs[b].down \cup obs[b].windows

(* open_alerts_of_site, without the alerts that stay open.                 *)
ReadOpen(b) ==
    /\ pc[b] = "look" /\ todo[b] = {}
    /\ todo' = [todo EXCEPT ![b] =
                  {<<i, View(b, i).started>> :
                     i \in {j \in Ids : /\ View(b, j).status = "open"
                                        /\ View(b, j).device \notin Kept(b)}}]
    /\ Goto(b, "resolve")
    /\ UNCHANGED <<world, failures, table, obs, cur>>

(* When it ended: when the device came back up if the source tells and that
   is not before the outage's start as read, else checked_at. *)
resolved_at(b, d, started) ==
    IF obs[b].known /\ obs[b].since[d] >= started THEN obs[b].since[d] ELSE obs[b].at

(* A slip: without AND down_started_at <= resolved_at.                     *)
MayResolveOpen(row, at) == row.status = "open"

MayResolve(row, at) == row.status = "open" /\ row.started <= at

elapsed(started, at) == IF at > started THEN at - started ELSE 0

(* resolve_alert_instance: the row as it is once nobody holds it; the
   downtime is counted from the start as it was read. *)
Resolve(b) ==
    /\ pc[b] = "resolve"
    /\ \E x \in todo[b] :
         LET row == View(b, x[1])
             at  == resolved_at(b, row.device, x[2]) IN
         /\ Holders(b, x[1]) = {}
         /\ todo' = [todo EXCEPT ![b] = @ \ {x}]
         /\ IF MayResolve(row, at)
            THEN Write(b, x[1], [row EXCEPT
                                   !.status = "resolved", !.resolved = at,
                                   !.downtime = @ + elapsed(x[2], at)])
            ELSE UNCHANGED draft
    /\ UNCHANGED <<world, failures, alert, pc, obs, cur>>

Commit(t) ==
    /\ alert' = [i \in Ids |-> View(t, i)]
    /\ End(t)

CommitBuild(b) ==
    /\ pc[b] = "resolve" /\ todo[b] = {}
    /\ Commit(b)
    /\ UNCHANGED <<world, failures>>
-----------------------------------------------------------------------------
(* Acknowledging: all or nothing, on alerts locked while they are open.    *)

(* lock_open_alerts_of_site finds the open alerts ...                      *)
AckStart(o) ==
    /\ pc[o] = "idle"
    /\ todo' = [todo EXCEPT ![o] = {i \in Ids : alert[i].status = "open"}]
    /\ Goto(o, "lock")
    /\ UNCHANGED <<world, failures, table, obs, cur>>

NextId(o) == CHOOSE i \in todo[o] : \A j \in todo[o] : i <= j

(* A slip: SELECT without FOR UPDATE.                                      *)
StillOpenUnlocked(i) == TRUE

(* After the wait for its lock a row is looked at again.                   *)
StillOpen(i) == alert[i].status = "open"

(* ... and locks them in the order of id.                                  *)
AckLock(o) ==
    LET i == NextId(o) IN
    /\ pc[o] = "lock" /\ todo[o] # {}
    /\ Holders(o, i) = {}
    /\ todo' = [todo EXCEPT ![o] = @ \ {i}]
    /\ IF StillOpen(i) THEN Write(o, i, alert[i]) ELSE UNCHANGED draft
    /\ UNCHANGED <<world, failures, alert, pc, obs, cur>>

(* acknowledge, or with clear un-acknowledge, the wanted devices: nothing
   when one of them has no open alert. *)
AckCommit(o, wanted, clear) ==
    /\ pc[o] = "lock" /\ todo[o] = {}
    /\ IF wanted \subseteq {draft[o][i].device : i \in DOMAIN draft[o]}
       THEN alert' = [i \in Ids |->
                        IF i \in DOMAIN draft[o] /\ alert[i].device \in wanted
                        THEN [alert[i] EXCEPT !.acked = ~ clear] ELSE alert[i]]
       ELSE UNCHANGED alert
    /\ End(o)
    /\ UNCHANGED <<world, failures>>
-----------------------------------------------------------------------------
(* A transaction waits for the holders of the row it wants next.           *)
WaitsFor(t) ==
    CASE pc[t] = "refresh" -> Holders(t, cur[t])
      [] pc[t] = "insert"  -> UNION {Holders(t, i) : i \in Rivals(t, Device(t))}
      [] pc[t] = "resolve" /\ \A x \in todo[t] : Holders(t, x[1]) # {} ->
            UNION {Holders(t, x[1]) : x \in todo[t]}
      [] pc[t] = "lock" /\ todo[t] # {} -> Holders(t, NextId(t))
      [] OTHER -> {}

(* PostgreSQL ends one of the transactions that wait for each other.       *)
DeadlockAbort(t) ==
    /\ \E S \in SUBSET Txns : t \in S /\ \A u \in S : WaitsFor(u) \cap S # {}
    /\ End(t)
    /\ UNCHANGED <<world, failures, alert>>

(* A statement fails or the process dies: the transaction is rolled back.  *)
Fail(t) ==
    /\ pc[t] # "idle" /\ failures < MaxFailures
    /\ failures' = failures + 1
    /\ End(t)
    /\ UNCHANGED <<world, alert>>
-----------------------------------------------------------------------------
Build(b) ==
    \/ Begin(b) \/ LookUp(b) \/ OpenAlert(b) \/ Refresh(b) \/ ReadOpen(b)
    \/ Resolve(b) \/ CommitBuild(b)

Acknowledge(o) ==
    \/ AckLock(o)
    \/ \E wanted \in SUBSET Devices, clear \in BOOLEAN : AckCommit(o, wanted, clear)

Next ==
    \/ Tick
    \/ \E d \in Devices : DeviceChange(d) \/ WindowChange(d)
    \/ \E b \in Builders : Build(b) \/ \E known \in Told : Observe(b, known)
    \/ \E o \in Operators : AckStart(o) \/ Acknowledge(o)
    \/ \E t \in Txns : DeadlockAbort(t) \/ Fail(t)

Spec == Init /\ [][Next]_vars

(* Builds come again and again, a request or build that has begun goes on,
   and PostgreSQL gives a row to those who wait for it in turn. *)
FairSpec ==
    /\ Spec
    /\ \A b \in Builders : WF_vars(\E known \in Told : Observe(b, known)) /\ SF_vars(Build(b))
    /\ \A o \in Operators : SF_vars(Acknowledge(o))
    /\ \A t \in Txns : WF_vars(DeadlockAbort(t))
-----------------------------------------------------------------------------
OpenAlerts(d) == {i \in Ids : alert[i].status = "open" /\ alert[i].device = d}

(* A device has at most one open alert, however builds that both found none
   overlap, fail or wait for each other. *)
OneOpenAlert == \A d \in Devices : Cardinality(OpenAlerts(d)) <= 1

(* An outage ends no earlier than it began, and its downtime is never more
   than that: also when a build that saw the device up before another one
   saw it down is the last to write. *)
EndAfterStart ==
    \A i \in Ids : alert[i].status = "resolved" =>
        /\ alert[i].started <= alert[i].resolved
        /\ alert[i].downtime <= alert[i].resolved - alert[i].started

(* An acknowledgement is only ever set or removed on an alert that is open,
   by an operator: "never lands on an alarm that just ended", and no build
   writing an older copy of the row undoes it. *)
AckOnOpen ==
    [][\A i \in Ids : alert'[i].acked # alert[i].acked =>
         /\ alert[i].status = "open" /\ alert'[i].status = "open"
         /\ \E o \in Operators : pc[o] = "lock" /\ pc'[o] = "idle"]_vars

(* An alert ends once: its end and downtime stay, and it is never open
   again; down_started_at only ever moves earlier. *)
HistoryKept ==
    [][\A i \in Ids : alert[i].status # "none" =>
         /\ alert'[i].started <= alert[i].started
         /\ alert[i].status = "resolved" =>
              /\ alert'[i].status = "resolved"
              /\ alert'[i].resolved = alert[i].resolved
              /\ alert'[i].downtime = alert[i].downtime]_vars

(* A build that saw a device in maintenance leaves its open alert as it is. *)
FrozenKept ==
    [][\A b \in Builders : pc[b] = "resolve" /\ pc'[b] = "idle" =>
         \A i \in Ids : alert[i].device \in obs[b].windows => alert'[i] = alert[i]]_vars

(* Outside maintenance a device's open alert and its state agree in the end,
   whatever stale builds wrote or waited for. *)
AlertsSettle ==
    \A d \in Devices :
        <>[](d \notin windows) => <>[](OpenAlerts(d) # {} <=> d \in down)
=============================================================================
