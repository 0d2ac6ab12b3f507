---------------------------- MODULE Availability ----------------------------
(***************************************************************************)
(* The availability report of one site: how long it was down in a period,  *)
(* worked out from the alert history or from the log of its levels, less   *)
(* the time in maintenance.                                                *)
(*                                                                         *)
(* The rows are written as the clock runs: by board builds (incidents,     *)
(* levels), by operators (windows) and by the daily retention, which       *)
(* deletes what is older than the report may ask for.  Whoever is asked    *)
(* for a report answers from the rows left; the properties compare that    *)
(* with all that was ever written, tick by tick.                           *)
(***************************************************************************)
EXTENDS WindowRows, Intervals

CONSTANTS
    ReportSite,     \* the reported site
    ReportDevices,  \* its devices
    ReportClock,    \* bound: the clock
    NIncidents,     \* bound: incidents ever
    NChanges,       \* bound: level changes ever
    Retention,      \* ALERT_HISTORY_RETENTION_DAYS, in ticks; 0 keeps all
    Batch           \* RETENTION_BATCH_SIZE, at least 1

ASSUME ReportAssumption ==
    /\ WholeSite \notin ReportDevices /\ IsFiniteSet(ReportDevices)
    /\ NChanges \in Nat /\ Retention \in Nat /\ Batch \in Nat \ {0}

VARIABLES
    basis,      \* AVAILABILITY_BASIS
    incident,   \* every incident: [device, down, up], up = {} while open
    change,     \* every level change: [from, to, at]
    first,      \* the site's row of levels: {} or {[level, seen]}
    keptI,      \* the incidents retention has left
    keptC       \* the level changes retention has left

reportVars == <<window, clock, basis, incident, change, first, keptI, keptC>>

ReportInit ==
    /\ window = <<>> /\ clock = 0
    /\ basis \in {"any_down", "critical"}
    /\ incident = <<>> /\ change = <<>> /\ first = {}
    /\ keptI = {} /\ keptC = {}
-----------------------------------------------------------------------------
(* What writes the rows.                                                   *)
ReportTick ==
    /\ clock < ReportClock
    /\ clock' = clock + 1
    /\ UNCHANGED <<window, basis, incident, change, first, keptI, keptC>>

(* An incident opens: the source may tell that it began earlier.           *)
Opens(d, since) ==
    /\ basis = "any_down" /\ Len(incident) < NIncidents
    /\ \A i \in DOMAIN incident : incident[i].device = d => incident[i].up # {}
    /\ incident' = Append(incident, [device |-> d, down |-> since, up |-> {}])
    /\ keptI' = keptI \cup {Len(incident) + 1}
    /\ UNCHANGED <<window, clock, basis, change, first, keptC>>

Resolves(i) ==
    /\ incident[i].up = {}
    /\ incident' = [incident EXCEPT ![i].up = {clock}]
    /\ UNCHANGED <<window, clock, basis, change, first, keptI, keptC>>

(* A site's first level is not a change.                                   *)
FirstLevel(level) ==
    /\ basis = "critical" /\ first = {}
    /\ first' = {[level |-> level, seen |-> clock]}
    /\ UNCHANGED <<window, clock, basis, incident, change, keptI, keptC>>

LevelChanges(level) ==
    \E f \in first :
      /\ level # f.level /\ Len(change) < NChanges
      /\ first' = {[f EXCEPT !.level = level]}
      /\ change' = Append(change, [from |-> f.level, to |-> level, at |-> clock])
      /\ keptC' = keptC \cup {Len(change) + 1}
      /\ UNCHANGED <<window, clock, basis, incident, keptI>>

Plans(device, starts, ends) ==
    /\ Len(window) < NWindows
    /\ Plannable({ReportSite}, {device} \ {WholeSite}, starts, ends, clock)
    /\ window' = Append(window, NewWindow(ReportSite, device, starts, ends))
    /\ UNCHANGED <<clock, basis, incident, change, first, keptI, keptC>>

EndsWindow(i) ==
    /\ state(window[i], clock) \in {"active", "upcoming"}
    /\ window' = [window EXCEPT ![i].ended = {clock}]
    /\ UNCHANGED <<clock, basis, incident, change, first, keptI, keptC>>

(* A slip: incidents go by when they began.                                *)
OldIncidentsBegun == {i \in keptI : incident[i].down < clock - Retention}

(* Resolved longer ago than the retention.                                 *)
OldIncidents == {i \in keptI : \E u \in incident[i].up : u < clock - Retention}

OldChanges == {i \in keptC : change[i].at < clock - Retention}

(* The rows one batch may take: LIMIT without an order.                    *)
Batches(old) ==
    IF Cardinality(old) <= Batch THEN {old} ELSE {rows \in SUBSET old : Cardinality(rows) = Batch}

(* prune_alert_history: each batch is a transaction of its own.            *)
PruneIncidents ==
    /\ Retention > 0 /\ OldIncidents # {}
    /\ \E rows \in Batches(OldIncidents) : keptI' = keptI \ rows
    /\ UNCHANGED <<window, clock, basis, incident, change, first, keptC>>

PruneChanges ==
    /\ Retention > 0 /\ OldChanges # {}
    /\ \E rows \in Batches(OldChanges) : keptC' = keptC \ rows
    /\ UNCHANGED <<window, clock, basis, incident, change, first, keptI>>

ReportNext ==
    \/ ReportTick
    \/ \E d \in ReportDevices, since \in clock - 1 .. clock : since >= 0 /\ Opens(d, since)
    \/ \E i \in DOMAIN incident : Resolves(i)
    \/ \E level \in {"critical", "ok"} : FirstLevel(level) \/ LevelChanges(level)
    \/ \E device \in ReportDevices \cup {WholeSite}, starts \in Starts, ends \in Ends :
          Plans(device, starts, ends)
    \/ \E i \in Windows : EndsWindow(i)
    \/ PruneIncidents \/ PruneChanges

ReportSpec == ReportInit /\ [][ReportNext]_reportVars
-----------------------------------------------------------------------------
(* The report for start .. end, asked for now.                             *)

(* A slip: a window ended early counts to its planned end.                 *)
WindowSpanPlanned(w) == <<w.starts, w.ends>>

WindowSpan(w) == <<w.starts, Min({w.ends} \cup w.ended)>>

(* read_maintenance, of the site (WholeSite) or of a device.               *)
read_maintenance(device, start, end) ==
    {WindowSpan(window[i]) :
        i \in {j \in Windows :
                 /\ window[j].device = device
                 /\ window[j].starts < end /\ window[j].ends > start
                 /\ \A e \in window[j].ended : e > window[j].starts}}

(* An incident's down time, until now while it is open.                    *)
_down_span(i) == <<incident[i].down, Min({clock} \cup incident[i].up)>>

(* read_incidents: the incidents down at any point in the period.          *)
read_incidents(start, end) ==
    {i \in keptI : /\ incident[i].up = {} \/ \E u \in incident[i].up : u > start
                   /\ incident[i].down < end
                   /\ _down_span(i)[2] > _down_span(i)[1]}

(* The level at the start: what the last earlier change set, else what the
   first later one came from; with none, the site's level. *)
LevelBefore(f, start) ==
    LET before == {i \in keptC : change[i].at <= start}
    IN  CASE before # {} -> change[Max(before)].to
          [] before = {} /\ keptC # {} -> change[Min(keptC)].from
          [] OTHER -> f.level

(* read_critical: from the level at the start, not before the site was first
   seen, and each change in the period until the next one. *)
read_critical(start, end) ==
    LET during == {i \in keptC : change[i].at > start /\ change[i].at < end}
        since(f) == IF \E i \in keptC : change[i].at <= start THEN start
                    ELSE Min({Max({f.seen, start}), end})
        until(i) == Min({end} \cup {change[j].at : j \in {k \in during : k > i}})
    IN  UNION {{<<change[i].at, until(i)>> : i \in {j \in during : change[j].to = "critical"}}
               \cup (IF LevelBefore(f, start) = "critical" THEN {<<since(f), until(0)>>} ELSE {})
               : f \in first}

(* report: the site's down time, less its maintenance; each device's less
   that device's. *)
down(start, end) ==
    LET incidents == read_incidents(start, end)
        spans(d)  == {_down_span(i) : i \in {j \in incidents : incident[j].device = d}}
        of(d)     == subtract(spans(d), read_maintenance(d, start, end))
        found     == IF basis = "any_down" THEN UNION {of(d) : d \in ReportDevices}
                     ELSE read_critical(start, end)
    IN  subtract(clip(found, start, end), read_maintenance(WholeSite, start, end))

(* _set_downtime: devices down together are one outage.                    *)
outages(start, end) == union(down(start, end))

(* A slip: the export leaves the site's windows in.                        *)
HolesDevice(device, start, end) == read_maintenance(device, start, end)

Holes(device, start, end) ==
    read_maintenance(device, start, end) \cup read_maintenance(WholeSite, start, end)

(* _incident_stream: what each incident counts for.                        *)
counted(i, start, end) ==
    subtract(clip({_down_span(i)}, start, end), Holes(incident[i].device, start, end))

(* kept_from: when the history kept begins.                                *)
kept_from == IF Retention = 0 THEN 0 ELSE clock - Retention

(* The periods a report may be asked for, cut at now.                      *)
Periods ==
    {p \in (0 .. clock) \X (0 .. clock) : p[1] < p[2] /\ p[1] < clock /\ p[1] >= kept_from}
-----------------------------------------------------------------------------
(* What is true, tick by tick, of all that was ever written.               *)
Covered(device, t) ==
    \E i \in Windows : /\ window[i].device = device
                       /\ window[i].starts <= t /\ t < window[i].ends
                       /\ \A e \in window[i].ended : t < e

DeviceDown(d, t) ==
    \E i \in DOMAIN incident :
        incident[i].device = d /\ incident[i].down <= t /\ \A u \in incident[i].up : t < u

LevelAt(t) ==
    LET changes == {i \in DOMAIN change : change[i].at <= t} IN
    IF changes # {} THEN change[Max(changes)].to
    ELSE IF change # <<>> THEN change[1].from ELSE (CHOOSE f \in first : TRUE).level

Down(t) ==
    /\ ~ Covered(WholeSite, t)
    /\ IF basis = "any_down" THEN \E d \in ReportDevices : DeviceDown(d, t) /\ ~ Covered(d, t)
       ELSE \E f \in first : f.seen <= t /\ LevelAt(t) = "critical"

(* The report's outages are exactly the runs of ticks at which the site was
   down and not in maintenance: however incidents and windows overlap, touch
   or are cut by the period, whatever retention has deleted meanwhile and
   whatever was planned or ended afterwards. *)
ReportExact ==
    \A p \in Periods :
        LET ticks == {t \in p[1] .. p[2] - 1 : Down(t)}
            runs  == {r \in (p[1] .. p[2]) \X (p[1] .. p[2]) :
                        /\ r[1] < r[2]
                        /\ \A t \in r[1] .. r[2] - 1 : t \in ticks
                        /\ r[1] - 1 \notin ticks /\ r[2] \notin ticks}
        IN  Range(outages(p[1], p[2])) = runs

(* "so the incidents export adds up to the figures": together the incidents
   count for exactly the report's down time. *)
ExportAddsUp ==
    basis = "any_down" =>
        \A p \in Periods :
            union(UNION {counted(i, p[1], p[2]) : i \in read_incidents(p[1], p[2])})
              = outages(p[1], p[2])

(* The maintenance history and the report agree: what a window takes out of a
   period's down time ran by the history, which lists it; a window listed
   that takes nothing out was cancelled, ran for no time, or is yet to come. *)
HistoryCovers ==
    \A p \in Periods :
        LET out(i) == seconds(clip({WindowSpan(window[i])}, p[1], p[2]))
            in     == {i \in Windows : WindowSpan(window[i]) \in
                         read_maintenance(window[i].device, p[1], p[2]) /\ out(i) > 0}
        IN  /\ in \subseteq history(p[1], p[2])
            /\ \A i \in in : out(i) <= history_minutes(window[i], clock)
            /\ \A i \in history(p[1], p[2]) \ in : history_minutes(window[i], clock) = 0
=============================================================================
