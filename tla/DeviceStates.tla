---------------------------- MODULE DeviceStates ----------------------------
(***************************************************************************)
(* One device as the board builds see it: down by Nautobot, LibreNMS or a  *)
(* webhook, since when, held back by the alert delay, or flapping.  A      *)
(* build reads what the sources and device_states say, and later writes    *)
(* the alert and the device's new state.                                   *)
(*                                                                         *)
(* Builds come one after the other (the build lock).  The alert is only    *)
(* open or not here; how it ends, and builds that overlap, are in          *)
(* AlertLifecycle.                                                         *)
(***************************************************************************)
EXTENDS WebhookAlerts, Sequences

CONSTANTS
    FlapWindow,   \* FLAP_WINDOW
    FlapChanges,  \* FLAP_CHANGES, 0 for no flapping
    Delay,        \* ALERT_DELAY_SECONDS, 0 for none
    Late,         \* how long before now a tool may say an alert began
    MaxClock,     \* bound: the clock
    MaxEvents,    \* bound: what the sources report
    MaxFailures   \* bound: reads and writes of device_states that fail

ASSUME DeviceAssumption ==
    /\ FlapWindow \in Nat \ {0} /\ FlapChanges \in Nat /\ Delay \in Nat
    /\ Late \in Nat /\ MaxClock \in Nat /\ MaxEvents \in Nat /\ MaxFailures \in Nat

VARIABLES
    nautobot,   \* [down, edited]: the status and last_updated
    librenms,   \* is it down by LibreNMS?
    window,     \* is it in a maintenance window?
    row,        \* its device_states row: {} or {[...]}
    alert,      \* its open alert: {} or {down_started_at}
    build,      \* what the running build read: {} or {[...]}
    shown,      \* how the last build counted it, when it wrote all it should
    events, failures

world == <<clock, nautobot, librenms, hook, window, events>>
vars  == <<world, row, alert, build, shown, failures>>

Init ==
    /\ clock = 0 /\ hook = [k \in Keys |-> {}]
    /\ nautobot = [down |-> FALSE, edited |-> 0] /\ librenms = FALSE
    /\ window = FALSE /\ row = {} /\ alert = {} /\ build = {}
    /\ shown = "up" /\ events = 0 /\ failures = 0
-----------------------------------------------------------------------------
Tick ==
    /\ clock < MaxClock
    /\ clock' = clock + 1
    /\ UNCHANGED <<nautobot, librenms, hook, window, events, row, alert, build, shown,
                   failures>>

Happens ==
    /\ events < MaxEvents
    /\ events' = events + 1
    /\ UNCHANGED <<clock, row, alert, build, shown, failures>>

(* Any edit in Nautobot moves last_updated.                                *)
NautobotEdit(down) ==
    /\ Happens
    /\ nautobot' = [down |-> down, edited |-> clock]
    /\ UNCHANGED <<librenms, hook, window>>

LibrenmsChange ==
    /\ Happens
    /\ librenms' = ~ librenms
    /\ UNCHANGED <<nautobot, hook, window>>

WebhookReceived(down, up, started) ==
    /\ Happens
    /\ down \cup up # {} /\ down \cap up = {}
    /\ store(down, up, started)
    /\ UNCHANGED <<nautobot, librenms, window>>

WindowChange ==
    /\ Happens
    /\ window' = ~ window
    /\ UNCHANGED <<nautobot, librenms, hook>>
-----------------------------------------------------------------------------
(* The sources in turn, each only when those before it have it up.         *)
Observed ==
    CASE nautobot.down -> [down |-> TRUE, source |-> "nautobot", since |-> {}]
      [] ~ nautobot.down /\ librenms -> [down |-> TRUE, source |-> "librenms", since |-> {}]
      [] ~ nautobot.down /\ ~ librenms /\ Current # {} ->
           [down |-> TRUE, source |-> "webhook", since |-> {EarliestStart}]
      [] OTHER -> [down |-> FALSE, source |-> "", since |-> {}]

(* A build reads the sources, the stored state (known, unless that fails),
   the open alerts and the active windows. *)
BuildRead(known) ==
    /\ build = {}
    /\ failures' = IF known THEN failures ELSE failures + 1
    /\ failures' <= MaxFailures
    /\ build' = {[obs |-> Observed, edited |-> nautobot.edited, window |-> window,
                  known |-> known, stored |-> row, alarmed |-> alert # {}]}
    /\ UNCHANGED <<world, row, alert, shown>>

(* _down_since: when the tool says, Nautobot's last edit, or now.          *)
_down_since(b) ==
    CASE b.obs.source = "webhook"  -> Min(b.obs.since \cup {clock})
      [] b.obs.source = "nautobot" -> Min({b.edited, clock})
      [] OTHER -> clock

(* A slip: since when it is down as the source has it now.                 *)
SinceNow(b) == _down_since(b)

(* Also as it was stored while it was down.                                *)
DownSince(b) ==
    Min({_down_since(b)} \cup {s.since : s \in {r \in b.stored : r.state = "down"}})

(* came_up_at: Nautobot's last edit when Nautobot had it down and the edit is
   after the outage began, else now. *)
came_up_at(b) ==
    IF \E s \in b.stored : s.state = "down" /\ s.source = "nautobot"
                           /\ s.since < b.edited /\ b.edited <= clock
    THEN b.edited ELSE clock

(* The changes after a time, in their order.                               *)
After(changes, time) ==
    LET kept[n \in 0 .. Len(changes)] ==
          IF n = 0 THEN <<>>
          ELSE IF changes[n] > time THEN Append(kept[n - 1], changes[n]) ELSE kept[n - 1]
    IN  kept[Len(changes)]

(* A slip: a change at the very edge still counts.                         *)
RecentEdge(changes) == After(changes, clock - FlapWindow - 1)

_recent(changes) == After(changes, clock - FlapWindow)

(* A slip: over as soon as there are fewer changes than it takes.          *)
FlappingWhileMany(flapping, changes) ==
    IF Len(changes) >= FlapChanges THEN IF flapping = {} THEN {clock} ELSE flapping ELSE {}

(* Flapping begins with enough changes and ends when none is left.         *)
FlappingSince(flapping, changes) ==
    CASE Len(changes) >= FlapChanges -> IF flapping = {} THEN {clock} ELSE flapping
      [] changes = <<>> -> {}
      [] OTHER -> flapping

(* next_device_state: {} when it is up and steady.                         *)
next_device_state(b) ==
    LET before   == UNION {{s.state} : s \in b.stored} \cup (IF b.stored = {} THEN {"up"} ELSE {})
        state    == IF b.obs.down THEN "down" ELSE "up"
        upSince  == {s.since : s \in {r \in b.stored : r.state = "up"}}
        since    == IF b.obs.down THEN DownSince(b)
                    ELSE IF upSince # {} THEN Min(upSince) ELSE came_up_at(b)
        stored   == IF b.stored = {} THEN <<>> ELSE (CHOOSE s \in b.stored : TRUE).changes
        changes  == IF FlapChanges = 0 THEN <<>>
                    ELSE _recent(IF state \in before THEN stored ELSE Append(stored, since))
        flapping == IF FlapChanges = 0 THEN {}
                    ELSE FlappingSince(UNION {s.flapping : s \in b.stored}, changes)
    IN  IF state = "up" /\ changes = <<>> /\ flapping = {} THEN {}
        ELSE {[state |-> state, since |-> since, changes |-> changes, flapping |-> flapping,
               source |-> b.obs.source]}

(* A device flapping counts as down outside maintenance, also while it is up. *)
Flaps(b, next) == ~ b.window /\ \E r \in next : r.flapping # {}

(* When it went down: a flapping device's first change in the window while it
   is up. *)
first_seen_down_at(b, r) ==
    IF b.obs.down THEN r.since
    ELSE IF r.changes # <<>> THEN Head(r.changes) ELSE Min(r.flapping)

(* A slip: held back by the time it is down alone.                         *)
PendingAlarmed(b, r) == b.obs.down /\ clock - first_seen_down_at(b, r) < Delay

(* Down for less than the delay, not flapping and not alarmed: as if up.   *)
Pending(b, r) ==
    /\ b.obs.down /\ r.flapping = {} /\ ~ b.alarmed
    /\ clock - first_seen_down_at(b, r) < Delay

Counted(b, next) ==
    CASE b.window -> "maintenance"
      [] ~ b.window /\ \E r \in next : Pending(b, r) -> "pending"
      [] ~ b.window /\ ~ (\E r \in next : Pending(b, r)) /\ (b.obs.down \/ Flaps(b, next)) -> "down"
      [] OTHER -> "up"

(* The site's turn: the alert is opened, refreshed or resolved, nothing of it
   in maintenance or when that fails (not wrote); at the end the state is
   written, on a new connection if need be, unless that fails (not ok). *)
BuildWrite(wrote, ok) ==
    \E b \in build :
      LET next == IF b.known THEN next_device_state(b) ELSE {}
          as   == IF b.known THEN Counted(b, next)
                  ELSE IF b.window THEN "maintenance" ELSE IF b.obs.down THEN "down" ELSE "up"
          start == IF b.known THEN {first_seen_down_at(b, r) : r \in next} ELSE {_down_since(b)}
      IN
      /\ failures' = IF wrote /\ ok THEN failures ELSE failures + 1
      /\ failures' <= MaxFailures
      /\ alert' = CASE as = "maintenance" \/ ~ wrote -> alert
                    [] as = "down" /\ wrote -> {Min(alert \cup start)}
                    [] OTHER -> {}
      /\ row' = IF ok /\ b.known THEN next ELSE row
      /\ shown' = IF wrote /\ ok /\ b.known THEN as ELSE "unknown"
      /\ build' = {}
      /\ UNCHANGED world
-----------------------------------------------------------------------------
Next ==
    \/ Tick
    \/ \E down \in BOOLEAN : NautobotEdit(down)
    \/ LibrenmsChange \/ WindowChange
    \/ \E down, up \in SUBSET Keys, started \in clock - Late .. clock :
         WebhookReceived(down, up, started)
    \/ \E known \in BOOLEAN : BuildRead(known)
    \/ \E wrote, ok \in BOOLEAN : BuildWrite(wrote, ok)

Spec == Init /\ [][Next]_vars
-----------------------------------------------------------------------------
(* How the map, which reads the states itself, counts the device: held back,
   or flapping. *)
pending_device(at) ==
    Delay > 0 /\ \E r \in row : r.state = "down" /\ r.since > at - Delay /\ alert = {}

flapping_device(at) ==
    \E r \in row : r.flapping # {} /\ \E i \in DOMAIN r.changes : r.changes[i] > at - FlapWindow

(* While a device stays down it never looks down for a shorter time: whichever
   source reports it, edits it or takes over from another, since only ever
   moves earlier, and so does the start of its open alert. *)
SinceKept ==
    [][/\ \A r \in row, n \in row' : r.state = "down" /\ n.state = "down" => n.since <= r.since
       /\ \A a \in alert, n \in alert' : n <= a]_vars

(* The delay and the flapping rule hold back or count a device only as they
   should: an alert opens with a device down for at least the delay or
   flapping (or with the states unreadable), and an open alert is never taken
   back while the device is down or flapping. *)
AlarmJustified ==
    [][\A b \in build : build' = {} /\ b.known /\ failures' = failures =>
         /\ alert = {} /\ alert' # {} =>
              \E n \in row' : n.flapping # {} \/ (n.state = "down" /\ clock - n.since >= Delay)
         /\ alert # {} /\ alert' = {} => \A n \in row' : n.state = "up" /\ n.flapping = {}]_vars

(* Flapping lasts until a whole window has passed without a change.        *)
FlappingEnds ==
    [][\A r \in row : r.flapping # {} /\ (\A n \in row' : n.flapping = {}) =>
         \A i \in DOMAIN r.changes : r.changes[i] <= clock - FlapWindow]_vars

(* The map and the board agree: right after a build wrote both, what the map's
   queries call held back or flapping is what the board did. *)
MapAgrees ==
    [][\A b \in build : build' = {} /\ shown' \in {"up", "down", "pending"} =>
         /\ pending_device(clock)' <=> shown' = "pending"
         /\ flapping_device(clock)' <=> \E n \in row' : n.flapping # {}]_vars

(* A lost "resolved" is forgotten after its time: an alert that fires again
   later "starts anew", after the old one was last heard of (when its tool says
   no start from before that). *)
HookStartsAnew ==
    [][\A k \in Keys : \A r \in hook[k], n \in hook'[k] :
         r.updated <= cutoff /\ n.updated = clock => n.started > r.updated]_vars
=============================================================================
