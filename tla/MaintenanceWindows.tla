------------------------- MODULE MaintenanceWindows -------------------------
(***************************************************************************)
(* Planning and ending maintenance windows, and the stored board that      *)
(* shows them.  A request takes its time before its transaction, and the   *)
(* transaction that ends windows locks them (SELECT ... FOR UPDATE).  A    *)
(* build reads the windows and later stores a board that lives until the   *)
(* next window starts or ends, or until a request drops it.                *)
(*                                                                         *)
(* One build at a time holds the build lock; builds that overlap all the   *)
(* same, lost marks and crashes are in BoardRebuild.                       *)
(***************************************************************************)
EXTENDS WindowRows, SequencesExt

CONSTANTS
    Operators,    \* requests that plan or end windows
    MaxClock,     \* bound: the clock, in ticks
    Second,       \* ticks in a second, the grain of the cache's timeouts
    CacheTtl,     \* CACHE_TTL + BOARD_TTL_SLACK_SECONDS, in seconds
    MaxChanges    \* bound: changes of the board asked for

ASSUME MaintenanceAssumption ==
    /\ Second \in Nat \ {0} /\ CacheTtl \in Nat \ {0} /\ MaxClock \in Nat

VARIABLES
    pc,         \* [Operators -> where the request is]
    req,        \* [Operators -> what it asked for]
    board,      \* the stored board: {} or {[shown, known, expires]}
    build,      \* the build that holds the lock: {} or {[...]}
    requested,  \* changes of the board asked for (board_change_requested)
    rebuilt     \* the last one a rebuild took in (board_change_rebuilt)

vars == <<window, clock, pc, req, board, build, requested, rebuilt>>

NoRequest == [at |-> 0, ids |-> {}, many |-> FALSE]

Init ==
    /\ window = <<>> /\ clock = 0
    /\ pc = [o \in Operators |-> "idle"]
    /\ req = [o \in Operators |-> NoRequest]
    /\ board = {} /\ build = {}
    /\ requested = 0 /\ rebuilt = 0

Tick ==
    /\ clock < MaxClock
    /\ clock' = clock + 1
    /\ UNCHANGED <<window, pc, req, board, build, requested, rebuilt>>

Goto(o, place) == pc' = [pc EXCEPT ![o] = place]
-----------------------------------------------------------------------------
(* Requests.                                                               *)

(* create: every row in one statement.                                     *)
Create(o, sites, devices, starts, ends) ==
    LET targets == Targets(sites, devices) IN
    /\ pc[o] = "idle"
    /\ Plannable(sites, devices, starts, ends, clock)
    /\ Len(window) + Cardinality(targets) <= NWindows
    /\ window' = window \o SetToSeq({NewWindow(t[1], t[2], starts, ends) : t \in targets})
    /\ Goto(o, "changed")
    /\ UNCHANGED <<clock, req, board, build, requested, rebuilt>>

(* end_many (many), or end for one window: the time it ends them at is taken
   before the transaction. *)
EndStart(o, ids, many) ==
    /\ pc[o] = "idle" /\ ids # {} /\ (many \/ Cardinality(ids) = 1)
    /\ req' = [req EXCEPT ![o] = [at |-> clock, ids |-> ids, many |-> many]]
    /\ Goto(o, "end")
    /\ UNCHANGED <<window, clock, board, build, requested, rebuilt>>

(* A slip: looks at the planned end only.                                  *)
OpenUntilEnd(w, at) == at < w.ends

OpenAt(w, at) == state(w, at) \in {"active", "upcoming"}

(* Who drops the board: end_many when it changed something, end always.    *)
Tells(r, changed) == ~ r.many \/ changed # {}

(* The rows are locked in the order of id and looked at as they are then.  *)
EndCommit(o) ==
    LET changed == {i \in req[o].ids : OpenAt(window[i], req[o].at)} IN
    /\ pc[o] = "end"
    /\ window' = [i \in Windows |->
                    IF i \in changed THEN [window[i] EXCEPT !.ended = {req[o].at}]
                                     ELSE window[i]]
    /\ Goto(o, IF Tells(req[o], changed) THEN "changed" ELSE "idle")
    /\ req' = [req EXCEPT ![o] = NoRequest]
    /\ UNCHANGED <<clock, board, build, requested, rebuilt>>

(* _maintenance_changed: the stored board is dropped and a rebuild asked for. *)
Changed(o) ==
    /\ pc[o] = "changed" /\ requested < MaxChanges
    /\ board' = {}
    /\ requested' = requested + 1
    /\ Goto(o, "idle")
    /\ UNCHANGED <<window, clock, req, build, rebuilt>>
-----------------------------------------------------------------------------
(* Builds.                                                                 *)
Stored == {b \in board : clock < b.expires}

(* A page builds when nothing is stored; a rebuild takes in the changes asked
   for so far. *)
BuildStart(rebuild) ==
    /\ build = {} /\ (rebuild \/ Stored = {})
    /\ build' = {[place |-> "read", pending |-> IF rebuild THEN requested ELSE 0,
                  shown |-> {}, known |-> FALSE, next |-> {}]}
    /\ UNCHANGED <<window, clock, pc, req, board, requested, rebuilt>>

(* The windows active now and the next change of them; when they cannot be
   read the build goes on without. *)
ReadWindows(ok) ==
    \E b \in build :
      /\ b.place = "read"
      /\ build' = {[b EXCEPT !.place = "store", !.known = ok,
                             !.shown = IF ok THEN read_active(clock) ELSE {},
                             !.next  = IF ok THEN next_change(clock) ELSE {}]}
      /\ UNCHANGED <<window, clock, pc, req, board, requested, rebuilt>>

(* A slip: to the whole second below, so to never in the last one.         *)
SecondsBelow(next, now) ==
    IF next = {} THEN CacheTtl
    ELSE Min({CacheTtl} \cup {IF t > now THEN (t - now) \div Second ELSE 0 : t \in next})

(* Until the next change and at most the default; at least 1, as a timeout of
   0 means the cache never drops it. *)
cache_seconds(next, now) ==
    IF next = {} THEN CacheTtl
    ELSE Max({1, Min({CacheTtl} \cup
                {IF t > now THEN (t - now) \div Second + 1 ELSE 1 : t \in next})})

(* The cache: a timeout of 0 is for ever.                                  *)
ExpiresAt(timeout) == IF timeout = 0 THEN MaxClock + Second + 1 ELSE clock + timeout * Second

(* caching.set, the lock released, and a rebuild acknowledges what it took in. *)
StoreBoard ==
    \E b \in build :
      /\ b.place = "store"
      /\ board' = {[shown |-> b.shown, known |-> b.known,
                    expires |-> ExpiresAt(cache_seconds(b.next, clock))]}
      /\ build' = {}
      /\ rebuilt' = Max({rebuilt, b.pending})
      /\ UNCHANGED <<window, clock, pc, req, requested>>
-----------------------------------------------------------------------------
Request(o) == EndCommit(o) \/ Changed(o)

Next ==
    \/ Tick
    \/ \E o \in Operators :
         \/ \E sites \in SUBSET Sites, devices \in SUBSET Devices, starts \in Starts, ends \in Ends :
              Create(o, sites, devices, starts, ends)
         \/ \E ids \in SUBSET Windows, many \in BOOLEAN : EndStart(o, ids, many)
         \/ Request(o)
    \/ \E rebuild \in BOOLEAN : BuildStart(rebuild)
    \/ \E ok \in BOOLEAN : ReadWindows(ok)
    \/ StoreBoard

Spec == Init /\ [][Next]_vars
-----------------------------------------------------------------------------
(* A stored board that could read the windows shows the maintenance there is
   now, or else a request that changed it has still to drop the board or its
   rebuild is pending, or the board expires within a second: whatever starts,
   ends, is planned or ended while it is built or stored. *)
WindowsShown ==
    \A b \in Stored :
        \/ ~ b.known \/ b.shown = read_active(clock)
        \/ \E o \in Operators : pc[o] = "changed"
        \/ requested > rebuilt
        \/ b.expires <= clock + Second

(* A window ends once, and before its planned end: the second of two requests
   that end it changes nothing, "ended_at is never after ends_at" (the listing
   relies on it to find the windows that are over), and nothing else of a
   window ever changes. *)
EndedOnce ==
    [][\A i \in Windows :
         /\ window'[i] # window[i] => window[i].ended = {}
         /\ \A e \in window'[i].ended : e < window[i].ends
         /\ [window'[i] EXCEPT !.ended = {}] = [window[i] EXCEPT !.ended = {}]]_vars
=============================================================================
