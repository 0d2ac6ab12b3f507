----------------------------- MODULE WindowRows -----------------------------
(***************************************************************************)
(* The rows of maintenance_windows and what is read from them.  A window   *)
(* covers a site (device = WholeSite) or one device of it from starts to   *)
(* ends; ended is when it was ended or cancelled, {} for not.  What a      *)
(* window says (reason, by whom, the batch) is left out.                   *)
(***************************************************************************)
EXTENDS Integers, Sequences, FiniteSetsExt

CONSTANTS
    Sites,        \* sites of the board
    Devices,      \* devices that can be put in maintenance on their own
    WholeSite,    \* the empty device_id
    MaxDuration,  \* the longest window
    NWindows,     \* bound: windows ever planned
    Starts, Ends  \* the times windows are planned from and to

ASSUME WindowAssumption ==
    /\ WholeSite \notin Devices /\ MaxDuration \in Nat \ {0}
    /\ IsFiniteSet(Sites) /\ IsFiniteSet(Devices)
    /\ Starts \subseteq Nat /\ Ends \subseteq Nat

VARIABLES
    window,   \* maintenance_windows, in the order of id
    clock     \* now

Windows == DOMAIN window

NewWindow(site, device, starts, ends) ==
    [site |-> site, device |-> device, starts |-> starts, ends |-> ends, ended |-> {}]

(* create: the times a request may ask for, and for what: some sites, or some
   devices of one site. *)
Plannable(sites, devices, starts, ends, now) ==
    /\ sites # {} /\ (devices = {} \/ Cardinality(sites) = 1)
    /\ ends > starts /\ ends > now
    /\ ends - starts <= MaxDuration

Targets(sites, devices) ==
    IF devices = {} THEN sites \X {WholeSite} ELSE sites \X devices

state(w, at) ==
    CASE \E e \in w.ended : e < w.starts -> "cancelled"
      [] \E e \in w.ended : e >= w.starts -> "ended"
      [] w.ended = {} /\ at < w.starts -> "upcoming"
      [] w.ended = {} /\ at >= w.starts /\ at < w.ends -> "active"
      [] OTHER -> "ended"

(* read_active: what is in maintenance and until when, the one ending last
   when several cover the same. *)
read_active(at) ==
    LET active == {i \in Windows : window[i].ended = {} /\ window[i].starts <= at
                                                        /\ window[i].ends > at}
        target(i) == <<window[i].site, window[i].device>>
    IN  {<<target(i), Max({window[j].ends : j \in {k \in active : target(k) = target(i)}})>> :
            i \in active}

(* ... and when the next window starts or ends: a set of at most one time. *)
next_change(at) ==
    LET times == {t \in UNION {{window[i].starts, window[i].ends} :
                                  i \in {j \in Windows : window[j].ended = {}}} : t > at}
    IN  IF times = {} THEN {} ELSE {Min(times)}

(* The history of a period: what ran in it, or was planned for it and
   cancelled. *)
history(start, end) ==
    {i \in Windows :
        /\ window[i].starts < end /\ window[i].ends > start
        /\ \/ window[i].ended = {}
           \/ \E e \in window[i].ended : e > start \/ e < window[i].starts}

(* How long it ran by then.                                                *)
history_minutes(w, at) ==
    LET stop == Min({at} \cup (IF w.ended = {} THEN {w.ends} ELSE w.ended))
    IN  Max({0, stop - w.starts})
=============================================================================
