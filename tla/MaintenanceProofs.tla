--------------------------- MODULE MaintenanceProofs ---------------------------
(***************************************************************************)
(* Proofs about MaintenanceWindows and Availability, for any sites,        *)
(* devices, requests and times.  A window ends once and before its planned *)
(* end, and a stored board shows the maintenance there is.  The interval   *)
(* operators do what their names say; the availability report is exact,    *)
(* the incidents export adds up to it, and the maintenance history agrees  *)
(* with what it leaves out.                                                *)
(***************************************************************************)
EXTENDS MaintenanceWindows, Availability, FiniteSetTheorems, SequenceTheorems, WellFoundedInduction, TLAPS

Targeted == Devices \cup {WholeSite}

Row == [site : Sites, device : Targeted, starts : Nat, ends : Nat, ended : SUBSET Nat]

Asked == [at : Nat, ids : SUBSET Nat, many : BOOLEAN]

Places == {"idle", "end", "changed"}

(* What a build holds; it has taken in no change that was not asked for.   *)
BuildType(b) ==
    /\ b = [place |-> b.place, pending |-> b.pending, shown |-> b.shown,
            known |-> b.known, next |-> b.next]
    /\ b.place \in {"read", "store"}
    /\ b.pending \in Nat /\ b.pending <= requested
    /\ b.next = {} \/ \E n \in Nat : b.next = {n}

TypeOK ==
    /\ window \in Seq(Row) /\ clock \in Nat
    /\ pc \in [Operators -> Places] /\ req \in [Operators -> Asked]
    /\ \A o \in Operators : req[o].ids \subseteq Windows
    /\ requested \in Nat /\ rebuilt \in Nat /\ rebuilt <= requested
    /\ \A b \in board : b.expires \in Nat
    /\ \A b \in build : BuildType(b)

(* A window is planned to end after it starts, and ends once, before that.  *)
EndsInTime(w) ==
    w.starts < w.ends /\ (\A e \in w.ended : e < w.ends) /\ \A d, e \in w.ended : d = e

RowsInTime == \A i \in Windows : EndsInTime(window[i])

(* A request has changed windows and not dropped the board yet.            *)
Untold == \E o \in Operators : pc[o] = "changed"

(* What a build has read of the windows stays true until the next change of
   one, whatever time passes; or a request has told otherwise since, and this
   build's rebuild will not be taken for its answer. *)
BuildLasts ==
    \A b \in build :
        b.place = "store" /\ b.known /\ ~ Untold
            /\ (requested <= rebuilt \/ requested <= b.pending) =>
          \A t \in Nat : clock <= t /\ (\A n \in b.next : t < n) => read_active(t) = b.shown

(* What the stored board shows stays true until a second before it expires;
   or a request has told otherwise, or is about to. *)
BoardLasts ==
    \A b \in board :
        b.known /\ ~ Untold /\ requested <= rebuilt =>
          \A t \in Nat : clock <= t /\ t + Second < b.expires => read_active(t) = b.shown

WindowsInv == TypeOK /\ RowsInTime /\ BuildLasts /\ BoardLasts
-----------------------------------------------------------------------------
(* A nonempty set of numbers has a least one: Min chooses it.              *)
LEMMA MinIsChosen ==
    ASSUME NEW S \in SUBSET Nat, S # {}
    PROVE  Min(S) \in S /\ \A n \in S : Min(S) <= n
<1>1. PICK m \in S : \A n \in S : ~ (<<n, m>> \in OpToRel(<, Nat))
  BY NatLessThanWellFounded, WFMin, Zenon
<1>2. \A n \in S : ~ (n < m)
  BY <1>1, Zenon DEF OpToRel
<1>3. \A n \in S : m <= n
  BY <1>2
<1> QED
  BY <1>3 DEF Min

(* The greater and the lesser of two numbers.                              *)
LEMMA OfTwo ==
    ASSUME NEW m \in Nat, NEW n \in Nat
    PROVE  /\ Max({m, n}) \in {m, n} /\ Max({m, n}) >= m /\ Max({m, n}) >= n
           /\ Min({m, n}) \in {m, n} /\ Min({m, n}) <= m /\ Min({m, n}) <= n
<1>1. \E x \in {m, n} : \A y \in {m, n} : x >= y
  OBVIOUS
<1>2. \E x \in {m, n} : \A y \in {m, n} : x <= y
  OBVIOUS
<1>3. Max({m, n}) \in {m, n} /\ \A y \in {m, n} : Max({m, n}) >= y
  BY <1>1 DEF Max
<1>4. Min({m, n}) \in {m, n} /\ \A y \in {m, n} : Min({m, n}) <= y
  BY <1>2 DEF Min
<1> QED
  BY <1>3, <1>4

(* A finite set is what SetToSeq lists.                                    *)
LEMMA SetToSeqType ==
    ASSUME NEW S, IsFiniteSet(S)
    PROVE  SetToSeq(S) \in Seq(S)
<1>1. Cardinality(S) \in Nat /\ ExistsBijection(1 .. Cardinality(S), S)
  BY FS_CardinalityType
<1>2. PICK f \in [1 .. Cardinality(S) -> S] : IsInjective(f)
  BY <1>1 DEF ExistsBijection, Bijection, Injection, IsInjective
<1>3. SetToSeq(S) \in [1 .. Cardinality(S) -> S]
  BY <1>2 DEF SetToSeq
<1> QED
  BY <1>1, <1>3

(* The rows a request plans are finitely many.                             *)
Planned(sites, devices, starts, ends) ==
    {NewWindow(t[1], t[2], starts, ends) : t \in Targets(sites, devices)}

LEMMA PlannedType ==
    ASSUME NEW sites \in SUBSET Sites, NEW devices \in SUBSET Devices,
           NEW starts \in Nat, NEW ends \in Nat
    PROVE  LET rows == Planned(sites, devices, starts, ends) IN
           /\ SetToSeq(rows) \in Seq(rows) /\ rows \subseteq Row
           /\ \A w \in rows : w.starts = starts /\ w.ends = ends /\ w.ended = {}
<1> DEFINE targets == Targets(sites, devices)
           rows    == {NewWindow(t[1], t[2], starts, ends) : t \in targets}
           f       == [t \in targets |-> NewWindow(t[1], t[2], starts, ends)]
<1>1. targets \subseteq Sites \X Targeted
  BY DEF Targets, Targeted
<1>2. IsFiniteSet(targets)
  <2>1. IsFiniteSet(Sites) /\ IsFiniteSet(Targeted)
    BY WindowAssumption, FS_AddElement DEF Targeted
  <2>2. IsFiniteSet(Sites \X Targeted)
    BY <2>1, FS_Product
  <2> QED
    BY <1>1, <2>2, FS_Subset
<1>3. IsFiniteSet(rows)
  <2>1. f \in Surjection(targets, rows)
    BY DEF Surjection
  <2> QED
    BY <1>2, <2>1, FS_Surjection DEF ExistsSurjection
<1>4. rows \subseteq Row
  BY <1>1 DEF NewWindow, Row
<1>5. \A w \in rows : w.starts = starts /\ w.ends = ends /\ w.ended = {}
  BY DEF NewWindow
<1>6. SetToSeq(rows) \in Seq(rows)
  BY <1>3, SetToSeqType
<1> QED
  BY <1>4, <1>5, <1>6 DEF Planned
-----------------------------------------------------------------------------
(* Windows are numbered from 1, and each has the type of a row.            *)
LEMMA RowType ==
    ASSUME TypeOK
    PROVE  /\ Windows = 1 .. Len(window) /\ Len(window) \in Nat
           /\ \A i \in Windows : window[i] \in Row
<1>1. window \in Seq(Row)
  BY DEF TypeOK
<1>2. Windows = 1 .. Len(window) /\ Len(window) \in Nat
  BY <1>1 DEF Windows
<1> QED
  BY <1>1, <1>2

(* What is in maintenance stays as it is until a window starts or ends.    *)
Active(at) == {i \in Windows : window[i].ended = {} /\ window[i].starts <= at
                                                   /\ window[i].ends > at}

LEMMA SameActive ==
    ASSUME NEW s, NEW t, Active(s) = Active(t)
    PROVE  read_active(s) = read_active(t)
BY DEF read_active, Active

(* What is read of the windows stays true until their next change.         *)
LEMMA ReadLasts ==
    ASSUME TypeOK
    PROVE  LET next == next_change(clock) IN
           /\ next = {} \/ \E n \in Nat : next = {n}
           /\ \A t \in Nat : clock <= t /\ (\A n \in next : t < n) =>
                read_active(t) = read_active(clock)
<1> DEFINE next  == next_change(clock)
           times == {t \in UNION {{window[i].starts, window[i].ends} :
                                      i \in {j \in Windows : window[j].ended = {}}} : t > clock}
<1>1. clock \in Nat /\ \A i \in Windows : window[i].starts \in Nat /\ window[i].ends \in Nat
  <2>1. clock \in Nat /\ \A i \in Windows : window[i] \in Row
    BY RowType DEF TypeOK
  <2> QED
    BY <2>1 DEF Row
<1>2. times \in SUBSET Nat
  BY <1>1
<1>3. \A i \in Windows : window[i].ended = {} =>
        /\ window[i].starts > clock => window[i].starts \in times
        /\ window[i].ends > clock => window[i].ends \in times
  OBVIOUS
<1>4. next = IF times = {} THEN {} ELSE {Min(times)}
  BY DEF next_change
<1> HIDE DEF times
<1>5. times # {} => Min(times) \in Nat /\ \A u \in times : Min(times) <= u
  BY <1>2, MinIsChosen
<1>6. next = {} \/ \E n \in Nat : next = {n}
  BY <1>4, <1>5
<1>7. ASSUME NEW t \in Nat, clock <= t, \A n \in next : t < n
      PROVE  read_active(t) = read_active(clock)
  <2>1. \A u \in times : t < u
    BY <1>2, <1>4, <1>5, <1>7
  <2>2. \A i \in Windows : window[i].ended = {} =>
          /\ window[i].starts <= t <=> window[i].starts <= clock
          /\ window[i].ends > t <=> window[i].ends > clock
    BY <1>1, <1>3, <1>7, <2>1
  <2>3. Active(t) = Active(clock)
    BY <2>2 DEF Active
  <2> QED
    BY <2>3, SameActive
<1> QED
  BY <1>6, <1>7

(* A board expires at most a second after the next change.                 *)
LEMMA ExpiresInTime ==
    ASSUME clock \in Nat, NEW next, next = {} \/ \E n \in Nat : next = {n}
    PROVE  LET e == ExpiresAt(cache_seconds(next, clock)) IN
           /\ e \in Nat
           /\ \A t \in Nat : clock <= t /\ t + Second < e => \A n \in next : t < n
<1> DEFINE secs == cache_seconds(next, clock)
<1>0. Second \in Nat \ {0} /\ CacheTtl \in Nat \ {0} /\ MaxClock \in Nat
  BY MaintenanceAssumption
<1>1. CASE next = {}
  <2>1. secs = CacheTtl
    BY <1>1 DEF cache_seconds
  <2> QED
    BY <1>0, <1>1, <2>1 DEF ExpiresAt
<1>2. ASSUME NEW n \in Nat, next = {n}
      PROVE  /\ ExpiresAt(secs) \in Nat
             /\ \A t \in Nat : clock <= t /\ t + Second < ExpiresAt(secs) => t < n
  <2> DEFINE until == IF n > clock THEN (n - clock) \div Second + 1 ELSE 1
             most  == Min({CacheTtl, until})
  <2>1. until \in Nat /\ until >= 1 /\ (n <= clock => until = 1)
        /\ (n > clock => until * Second <= n - clock + Second)
    BY <1>0
  <2>2. {CacheTtl} \cup {IF u > clock THEN (u - clock) \div Second + 1 ELSE 1 : u \in next}
          = {CacheTtl, until}
    BY <1>2
  <2>3. secs = Max({1, most})
    BY <1>2, <2>2 DEF cache_seconds
  <2> HIDE DEF until
  <2>4. most \in Nat /\ most >= 1 /\ most <= until
    BY <1>0, <2>1, OfTwo
  <2> HIDE DEF most
  <2>5. secs \in Nat /\ secs >= 1 /\ secs <= until
    BY <2>1, <2>3, <2>4, OfTwo
  <2> HIDE DEF secs
  <2>6. ExpiresAt(secs) = clock + secs * Second
    BY <2>5 DEF ExpiresAt
  <2>7. secs * Second \in Nat /\ secs * Second <= until * Second
    BY <1>0, <2>1, <2>5
  <2>8. ExpiresAt(secs) \in Nat
    BY <2>6, <2>7
  <2>9. n <= clock => ExpiresAt(secs) <= clock + Second
    BY <1>0, <2>1, <2>6, <2>7
  <2>10. n > clock => ExpiresAt(secs) <= n + Second
    BY <1>0, <2>1, <2>6, <2>7
  <2> QED
    BY <1>0, <2>8, <2>9, <2>10
<1> QED
  BY <1>1, <1>2
-----------------------------------------------------------------------------
(* What EndedOnce says of a step.                                          *)
EndsOnce ==
    \A i \in Windows :
        /\ window'[i] # window[i] => window[i].ended = {}
        /\ \A e \in window'[i].ended : e < window[i].ends
        /\ [window'[i] EXCEPT !.ended = {}] = [window[i] EXCEPT !.ended = {}]

(* What a step makes of the windows.                                       *)
RowsKept ==
    /\ window' \in Seq(Row) /\ RowsInTime'
    /\ Windows \subseteq Windows' /\ EndsOnce

(* Most steps leave them.                                                  *)
LEMMA WindowsStay ==
    ASSUME TypeOK, RowsInTime, window' = window
    PROVE  RowsKept /\ \A t : read_active(t)' = read_active(t)
<1>1. Windows' = Windows
  BY DEF Windows
<1>2. \A t : read_active(t)' = read_active(t)
  BY DEF read_active, Windows
<1>3. RowsInTime' /\ EndsOnce
  BY <1>1 DEF RowsInTime, EndsInTime, EndsOnce
<1> QED
  BY <1>1, <1>2, <1>3 DEF RowsKept, TypeOK

(* Planned windows come after those there are.                             *)
LEMMA CreateKeepsRows ==
    ASSUME TypeOK, RowsInTime, NEW o \in Operators, NEW sites \in SUBSET Sites,
           NEW devices \in SUBSET Devices, NEW starts \in Starts, NEW ends \in Ends,
           Create(o, sites, devices, starts, ends)
    PROVE  RowsKept
<1> DEFINE rows    == Planned(sites, devices, starts, ends)
           planned == SetToSeq(rows)
<1>1. starts \in Nat /\ ends \in Nat /\ starts < ends
  BY WindowAssumption DEF Create, Plannable
<1>2. /\ planned \in Seq(rows) /\ rows \subseteq Row
      /\ \A w \in rows : w.starts = starts /\ w.ends = ends /\ w.ended = {}
  BY <1>1, PlannedType
<1>3. window' = window \o planned
  BY DEF Create, Planned
<1> HIDE DEF rows, planned
<1>4. window \in Seq(Row) /\ planned \in Seq(Row)
  BY <1>2 DEF TypeOK
<1>5. /\ window' \in Seq(Row) /\ Len(window') = Len(window) + Len(planned)
      /\ \A i \in 1 .. Len(window) : window'[i] = window[i]
      /\ \A i \in 1 .. Len(planned) : window'[i + Len(window)] = planned[i]
  BY <1>3, <1>4
<1>6. Windows = 1 .. Len(window) /\ Windows' = 1 .. Len(window')
      /\ Len(window) \in Nat /\ Len(planned) \in Nat
  BY <1>4, <1>5 DEF Windows
<1>7. \A i \in 1 .. Len(planned) : EndsInTime(planned[i])
  BY <1>1, <1>2 DEF EndsInTime
<1>8. ASSUME NEW i \in Windows'
      PROVE  EndsInTime(window'[i])
  <2>1. CASE i \in Windows
    BY <1>5, <1>6, <2>1 DEF RowsInTime
  <2>2. CASE i \notin Windows
    <3>1. i - Len(window) \in 1 .. Len(planned) /\ i = (i - Len(window)) + Len(window)
      BY <1>5, <1>6, <2>2
    <3>2. window'[i] = planned[i - Len(window)]
      BY <1>5, <3>1
    <3> QED
      BY <1>7, <3>1, <3>2
  <2> QED
    BY <2>1, <2>2
<1>9. EndsOnce
  BY <1>5, <1>6 DEF EndsOnce, RowsInTime, EndsInTime
<1>10. Windows \subseteq Windows'
  BY <1>5, <1>6
<1>11. RowsInTime'
  BY <1>8 DEF RowsInTime, EndsInTime
<1> QED
  BY <1>5, <1>9, <1>10, <1>11 DEF RowsKept

(* An open window is ended before its planned end.                         *)
LEMMA OpenIsEndable ==
    ASSUME NEW w \in Row, EndsInTime(w), NEW at \in Nat, OpenAt(w, at)
    PROVE  w.ended = {} /\ at < w.ends
<1>1. w.starts \in Nat /\ w.ends \in Nat /\ w.ended \in SUBSET Nat /\ w.starts < w.ends
  BY DEF Row, EndsInTime
<1>2. w.ended = {}
  <2> SUFFICES ASSUME w.ended # {} PROVE FALSE
    OBVIOUS
  <2>1. PICK e \in w.ended : e \in Nat
    BY <1>1
  <2>2. (\E x \in w.ended : x < w.starts) \/ (\E x \in w.ended : x >= w.starts)
    BY <1>1, <2>1
  <2>3. state(w, at) \in {"cancelled", "ended"}
    BY <2>2 DEF state
  <2> QED
    BY <2>3 DEF OpenAt
<1>3. at < w.ends
  <2> SUFFICES ASSUME at >= w.ends PROVE FALSE
    BY <1>1
  <2>1. state(w, at) = "ended"
    BY <1>1, <1>2 DEF state
  <2> QED
    BY <2>1 DEF OpenAt
<1> QED
  BY <1>2, <1>3

(* Ended windows keep the rest of their rows.                              *)
LEMMA EndKeepsRows ==
    ASSUME TypeOK, RowsInTime, NEW o \in Operators, EndCommit(o)
    PROVE  RowsKept
<1> DEFINE at      == req[o].at
           changed == {i \in req[o].ids : OpenAt(window[i], at)}
<1>1. Windows = 1 .. Len(window) /\ Len(window) \in Nat /\ \A i \in Windows : window[i] \in Row
  BY RowType
<1>2. at \in Nat /\ req[o].ids \subseteq Windows
  BY DEF TypeOK, Asked
<1>3. window' = [i \in Windows |-> IF i \in changed THEN [window[i] EXCEPT !.ended = {at}]
                                                  ELSE window[i]]
  BY DEF EndCommit
<1>4. \A i \in changed : i \in Windows /\ window[i].ended = {} /\ at < window[i].ends
  <2> SUFFICES ASSUME NEW i \in changed
               PROVE  i \in Windows /\ window[i].ended = {} /\ at < window[i].ends
    OBVIOUS
  <2>1. i \in Windows /\ window[i] \in Row /\ EndsInTime(window[i]) /\ OpenAt(window[i], at)
    BY <1>1, <1>2 DEF RowsInTime
  <2> QED
    BY <1>2, <2>1, OpenIsEndable
<1> HIDE DEF changed, at
<1>5. \A i \in Windows :
        /\ i \in changed => window'[i] = [window[i] EXCEPT !.ended = {at}]
        /\ i \notin changed => window'[i] = window[i]
  BY <1>3
<1>6. ASSUME NEW i \in Windows
      PROVE  /\ window'[i] \in Row /\ EndsInTime(window'[i])
             /\ window'[i] # window[i] => window[i].ended = {}
             /\ window'[i].ends = window[i].ends
             /\ [window'[i] EXCEPT !.ended = {}] = [window[i] EXCEPT !.ended = {}]
  <2>1. window[i] \in Row /\ EndsInTime(window[i])
    BY <1>1 DEF RowsInTime
  <2>2. CASE i \in changed
    <3> DEFINE w == window[i]
    <3>1. w \in Row /\ w.starts < w.ends /\ w.ended = {} /\ at < w.ends
      BY <1>4, <2>1, <2>2 DEF EndsInTime
    <3>2. window'[i] = [w EXCEPT !.ended = {at}]
      BY <1>5, <2>2
    <3> HIDE DEF w
    <3>3. /\ window'[i] \in Row /\ window'[i].starts = w.starts /\ window'[i].ends = w.ends
          /\ window'[i].ended = {at}
          /\ [window'[i] EXCEPT !.ended = {}] = [w EXCEPT !.ended = {}]
      BY <1>2, <3>1, <3>2 DEF Row
    <3>4. EndsInTime(window'[i])
      BY <3>1, <3>3 DEF EndsInTime
    <3> QED
      BY <3>1, <3>3, <3>4 DEF w
  <2>3. CASE i \notin changed
    BY <1>5, <2>1, <2>3
  <2> QED
    BY <2>2, <2>3
<1>7. Windows' = Windows
  BY <1>3 DEF Windows
<1>8. window' \in [1 .. Len(window) -> Row]
  BY <1>1, <1>3, <1>6
<1>9. window' \in Seq(Row)
  BY <1>1, <1>8
<1>10. RowsInTime'
  BY <1>6, <1>7 DEF RowsInTime, EndsInTime
<1>11. EndsOnce
  BY <1>6 DEF EndsOnce, EndsInTime
<1> QED
  BY <1>7, <1>9, <1>10, <1>11 DEF RowsKept
-----------------------------------------------------------------------------
(* Time passes, and requests come and go that change no window: what a build
   or the board shows stays true. *)
Quiet ==
    /\ UNCHANGED <<window, board, build, requested, rebuilt>>
    /\ clock' \in Nat /\ clock <= clock'
    /\ Untold => Untold'

LEMMA QuietKeeps ==
    ASSUME WindowsInv, Quiet
    PROVE  BuildLasts' /\ BoardLasts'
<1>1. window' = window /\ board' = board /\ build' = build /\ requested' = requested
      /\ rebuilt' = rebuilt /\ clock' \in Nat /\ clock <= clock' /\ clock \in Nat
  BY DEF Quiet, WindowsInv, TypeOK
<1>2. \A t : read_active(t)' = read_active(t)
  BY <1>1, WindowsStay DEF WindowsInv
<1>3. ~ Untold' => ~ Untold
  BY DEF Quiet
<1>4. \A t \in Nat : clock' <= t => clock <= t
  BY <1>1
<1>5. BuildLasts'
  BY <1>1, <1>2, <1>3, <1>4 DEF WindowsInv, BuildLasts
<1>6. BoardLasts'
  BY <1>1, <1>2, <1>3, <1>4 DEF WindowsInv, BoardLasts
<1> QED
  BY <1>5, <1>6

(* Nothing is asked of the board while a request is about to drop it.      *)
LEMMA UntoldKeeps ==
    ASSUME Untold'
    PROVE  BuildLasts' /\ BoardLasts'
BY DEF BuildLasts, BoardLasts

(* Where a request goes.                                                   *)
LEMMA PlaceEffect ==
    ASSUME TypeOK, NEW o \in Operators, NEW place \in Places, Goto(o, place)
    PROVE  /\ pc' \in [Operators -> Places] /\ pc'[o] = place
           /\ \A q \in Operators \ {o} : pc'[q] = pc[q]
           /\ pc[o] # "changed" => (Untold => Untold')
           /\ place = "changed" => Untold'
<1>1. pc' \in [Operators -> Places] /\ pc'[o] = place /\ \A q \in Operators \ {o} : pc'[q] = pc[q]
  BY DEF TypeOK, Goto
<1> QED
  BY <1>1 DEF Untold

(* The types of builds are kept while the requests are no fewer.           *)
LEMMA BuildsKeepType ==
    ASSUME TypeOK, build' = build, requested' \in Nat, requested <= requested'
    PROVE  \A b \in build' : BuildType(b)'
<1> SUFFICES ASSUME NEW b \in build PROVE BuildType(b)'
  OBVIOUS
<1>1. BuildType(b)
  BY DEF TypeOK
<1>2. b.pending <= requested'
  BY <1>1 DEF BuildType, TypeOK
<1> QED
  BY <1>1, <1>2 DEF BuildType

(* Time passes.                                                            *)
LEMMA TickKeeps ==
    ASSUME WindowsInv, Tick
    PROVE  WindowsInv' /\ EndsOnce
<1>1. RowsKept
  BY WindowsStay DEF WindowsInv, Tick
<1>2. Quiet
  BY DEF WindowsInv, TypeOK, Tick, Quiet, Untold
<1>3. \A b \in build' : BuildType(b)'
  BY BuildsKeepType DEF WindowsInv, TypeOK, Tick
<1>4. TypeOK'
  BY <1>1, <1>3 DEF WindowsInv, TypeOK, Tick, Windows
<1> QED
  BY <1>1, <1>2, <1>4, QuietKeeps DEF WindowsInv, RowsKept

(* A request plans windows, and has still to drop the board.               *)
LEMMA CreateKeeps ==
    ASSUME WindowsInv, NEW o \in Operators, NEW sites \in SUBSET Sites,
           NEW devices \in SUBSET Devices, NEW starts \in Starts, NEW ends \in Ends,
           Create(o, sites, devices, starts, ends)
    PROVE  WindowsInv' /\ EndsOnce
<1>1. RowsKept
  BY CreateKeepsRows DEF WindowsInv
<1>2. Goto(o, "changed") /\ UNCHANGED <<clock, req, board, build, requested, rebuilt>>
  BY DEF Create
<1>3. pc' \in [Operators -> Places] /\ Untold'
  BY <1>2, PlaceEffect DEF WindowsInv, Places
<1>4. \A b \in build' : BuildType(b)'
  BY <1>2, BuildsKeepType DEF WindowsInv, TypeOK
<1>5. \A q \in Operators : req'[q].ids \subseteq Windows'
  BY <1>1, <1>2 DEF WindowsInv, TypeOK, RowsKept
<1>6. TypeOK'
  BY <1>1, <1>2, <1>3, <1>4, <1>5 DEF WindowsInv, TypeOK, RowsKept
<1> QED
  BY <1>1, <1>3, <1>6, UntoldKeeps DEF WindowsInv, RowsKept

(* A request takes the time it ends windows at.                            *)
LEMMA EndStartKeeps ==
    ASSUME WindowsInv, NEW o \in Operators, NEW ids \in SUBSET Windows, NEW many \in BOOLEAN,
           EndStart(o, ids, many)
    PROVE  WindowsInv' /\ EndsOnce
<1>1. RowsKept
  BY WindowsStay DEF WindowsInv, EndStart
<1>2. Goto(o, "end") /\ UNCHANGED <<window, clock, board, build, requested, rebuilt>>
      /\ pc[o] = "idle"
  BY DEF EndStart
<1>3. pc' \in [Operators -> Places] /\ (Untold => Untold')
  BY <1>2, PlaceEffect DEF WindowsInv, Places
<1>4. Quiet
  BY <1>2, <1>3 DEF WindowsInv, TypeOK, Quiet
<1>5. \A b \in build' : BuildType(b)'
  BY <1>2, BuildsKeepType DEF WindowsInv, TypeOK
<1>6. Windows' = Windows /\ ids \subseteq Nat
  BY <1>2, RowType DEF Windows, WindowsInv
<1>7. req' \in [Operators -> Asked] /\ \A q \in Operators : req'[q].ids \subseteq Windows
  BY <1>6 DEF WindowsInv, TypeOK, EndStart, Asked
<1>8. TypeOK'
  BY <1>1, <1>2, <1>3, <1>5, <1>6, <1>7 DEF WindowsInv, TypeOK, RowsKept
<1> QED
  BY <1>1, <1>4, <1>8, QuietKeeps DEF WindowsInv, RowsKept

(* It ends those still open; if there are none the board may stay.         *)
LEMMA EndCommitKeeps ==
    ASSUME WindowsInv, NEW o \in Operators, EndCommit(o)
    PROVE  WindowsInv' /\ EndsOnce
<1> DEFINE changed == {i \in req[o].ids : OpenAt(window[i], req[o].at)}
           place   == IF Tells(req[o], changed) THEN "changed" ELSE "idle"
<1>1. RowsKept
  BY EndKeepsRows DEF WindowsInv
<1>2. Goto(o, place) /\ UNCHANGED <<clock, board, build, requested, rebuilt>>
      /\ pc[o] = "end" /\ req' = [req EXCEPT ![o] = NoRequest]
  BY DEF EndCommit
<1>3. place \in Places
  BY DEF Places
<1>4. /\ pc' \in [Operators -> Places] /\ (Untold => Untold')
      /\ place = "changed" => Untold'
  BY <1>2, <1>3, PlaceEffect DEF WindowsInv
<1>5. \A b \in build' : BuildType(b)'
  BY <1>2, BuildsKeepType DEF WindowsInv, TypeOK
<1>6. req' \in [Operators -> Asked] /\ \A q \in Operators : req'[q].ids \subseteq Windows'
  BY <1>1, <1>2 DEF WindowsInv, TypeOK, Asked, NoRequest, RowsKept
<1>7. TypeOK'
  BY <1>1, <1>2, <1>4, <1>5, <1>6 DEF WindowsInv, TypeOK, RowsKept
<1>8. BuildLasts' /\ BoardLasts'
  <2>1. CASE Tells(req[o], changed)
    BY <1>4, <2>1, UntoldKeeps
  <2>2. CASE ~ Tells(req[o], changed)
    <3>1. changed = {}
      BY <2>2 DEF Tells
    <3>2. window' = [i \in Windows |-> window[i]]
      BY <3>1 DEF EndCommit
    <3>3. window \in [1 .. Len(window) -> Row] /\ Windows = 1 .. Len(window)
      BY DEF WindowsInv, TypeOK, Windows
    <3>4. window' = window
      BY <3>2, <3>3
    <3>5. Quiet
      BY <1>2, <1>4, <3>4 DEF WindowsInv, TypeOK, Quiet
    <3> QED
      BY <3>5, QuietKeeps
  <2> QED
    BY <2>1, <2>2
<1> QED
  BY <1>1, <1>7, <1>8 DEF WindowsInv, RowsKept
(* The board is dropped, and what a build has read is not what was asked for. *)
LEMMA ChangedKeeps ==
    ASSUME WindowsInv, NEW o \in Operators, Changed(o)
    PROVE  WindowsInv' /\ EndsOnce
<1>1. RowsKept
  BY WindowsStay DEF WindowsInv, Changed
<1>2. /\ Goto(o, "idle") /\ board' = {} /\ requested' = requested + 1
      /\ UNCHANGED <<window, clock, req, build, rebuilt>>
  BY DEF Changed
<1>3. pc' \in [Operators -> Places]
  BY <1>2, PlaceEffect DEF WindowsInv, Places
<1>4. \A b \in build' : BuildType(b)'
  BY <1>2, BuildsKeepType DEF WindowsInv, TypeOK
<1>5. TypeOK'
  BY <1>1, <1>2, <1>3, <1>4 DEF WindowsInv, TypeOK, RowsKept, Windows
<1>6. \A b \in build : b.pending \in Nat /\ b.pending < requested'
  BY <1>2 DEF WindowsInv, TypeOK, BuildType
<1>7. BuildLasts'
  BY <1>2, <1>6 DEF WindowsInv, TypeOK, BuildLasts
<1>8. BoardLasts'
  BY <1>2 DEF BoardLasts
<1> QED
  BY <1>1, <1>5, <1>7, <1>8 DEF WindowsInv, RowsKept

(* The builds' steps leave the windows and the requests.                   *)
BuildSteps == UNCHANGED <<window, clock, pc, req, requested>>

LEMMA BuildStepsKeep ==
    ASSUME WindowsInv, BuildSteps, rebuilt' \in Nat, rebuilt' <= requested,
           \A b \in board' : b.expires \in Nat, \A b \in build' : BuildType(b)
    PROVE  TypeOK' /\ RowsInTime' /\ EndsOnce /\ (Untold' <=> Untold)
           /\ \A t : read_active(t)' = read_active(t)
<1>1. RowsKept /\ \A t : read_active(t)' = read_active(t)
  BY WindowsStay DEF WindowsInv, BuildSteps
<1>2. \A b \in build' : BuildType(b)'
  BY DEF BuildSteps, BuildType
<1>3. TypeOK'
  BY <1>1, <1>2 DEF WindowsInv, TypeOK, BuildSteps, Windows
<1>4. Untold' <=> Untold
  BY DEF Untold, BuildSteps
<1> QED
  BY <1>1, <1>3, <1>4 DEF RowsKept

(* A build begins.                                                         *)
LEMMA BuildStartKeeps ==
    ASSUME WindowsInv, NEW rebuild \in BOOLEAN, BuildStart(rebuild)
    PROVE  WindowsInv' /\ EndsOnce
<1>1. BuildSteps /\ board' = board /\ rebuilt' = rebuilt
  BY DEF BuildStart, BuildSteps
<1>2. \A b \in build' : BuildType(b) /\ b.place = "read"
  BY DEF BuildStart, BuildType, WindowsInv, TypeOK
<1>3. TypeOK' /\ RowsInTime' /\ EndsOnce /\ (Untold' <=> Untold)
      /\ \A t : read_active(t)' = read_active(t)
  BY <1>1, <1>2, BuildStepsKeep DEF WindowsInv, TypeOK
<1>4. BuildLasts'
  BY <1>2 DEF BuildLasts
<1>5. BoardLasts'
  BY <1>1, <1>3 DEF BoardLasts, WindowsInv, BuildSteps
<1> QED
  BY <1>3, <1>4, <1>5 DEF WindowsInv

(* A build reads the windows, and knows what lasts until their next change. *)
LEMMA ReadWindowsKeeps ==
    ASSUME WindowsInv, NEW ok \in BOOLEAN, ReadWindows(ok)
    PROVE  WindowsInv' /\ EndsOnce
<1>1. BuildSteps /\ board' = board /\ rebuilt' = rebuilt
  BY DEF ReadWindows, BuildSteps
<1>2. PICK b \in build :
        build' = {[b EXCEPT !.place = "store", !.known = ok,
                            !.shown = IF ok THEN read_active(clock) ELSE {},
                            !.next  = IF ok THEN next_change(clock) ELSE {}]}
  BY DEF ReadWindows
<1>3. BuildType(b)
  BY DEF WindowsInv, TypeOK
<1>4. /\ next_change(clock) = {} \/ \E n \in Nat : next_change(clock) = {n}
      /\ \A t \in Nat : clock <= t /\ (\A n \in next_change(clock) : t < n) =>
           read_active(t) = read_active(clock)
  BY ReadLasts DEF WindowsInv
<1>5. ASSUME NEW c \in build'
      PROVE  /\ BuildType(c) /\ c.known = ok
             /\ ok => c.shown = read_active(clock) /\ c.next = next_change(clock)
  <2>1. c = [place |-> "store", pending |-> b.pending,
             shown |-> IF ok THEN read_active(clock) ELSE {}, known |-> ok,
             next |-> IF ok THEN next_change(clock) ELSE {}]
    BY <1>2, <1>3, <1>5 DEF BuildType
  <2>2. c.next = {} \/ \E n \in Nat : c.next = {n}
    BY <1>4, <2>1
  <2> QED
    BY <1>3, <2>1, <2>2 DEF BuildType
<1>6. TypeOK' /\ RowsInTime' /\ EndsOnce /\ (Untold' <=> Untold)
      /\ \A t : read_active(t)' = read_active(t)
  BY <1>1, <1>5, BuildStepsKeep DEF WindowsInv, TypeOK
<1>7. BuildLasts'
  BY <1>1, <1>4, <1>5, <1>6 DEF BuildLasts, BuildSteps
<1>8. BoardLasts'
  BY <1>1, <1>6 DEF BoardLasts, WindowsInv, BuildSteps
<1> QED
  BY <1>6, <1>7, <1>8 DEF WindowsInv

(* A board is stored until a second after that change, at the latest.      *)
LEMMA StoreBoardKeeps ==
    ASSUME WindowsInv, StoreBoard
    PROVE  WindowsInv' /\ EndsOnce
<1>1. PICK b \in build :
        /\ b.place = "store"
        /\ board' = {[shown |-> b.shown, known |-> b.known,
                      expires |-> ExpiresAt(cache_seconds(b.next, clock))]}
        /\ build' = {} /\ rebuilt' = Max({rebuilt, b.pending}) /\ BuildSteps
  BY DEF StoreBoard, BuildSteps
<1>2. BuildType(b) /\ clock \in Nat /\ rebuilt \in Nat /\ requested \in Nat /\ rebuilt <= requested
  BY DEF WindowsInv, TypeOK
<1>3. b.pending \in Nat /\ b.pending <= requested
      /\ (b.next = {} \/ \E n \in Nat : b.next = {n})
  BY <1>2 DEF BuildType
<1>4. rebuilt' \in Nat /\ rebuilt' <= requested
      /\ (requested <= rebuilt' => requested <= rebuilt \/ requested <= b.pending)
  BY <1>1, <1>2, <1>3, OfTwo
<1> DEFINE e == ExpiresAt(cache_seconds(b.next, clock))
<1>5. e \in Nat /\ \A t \in Nat : clock <= t /\ t + Second < e => \A n \in b.next : t < n
  BY <1>2, <1>3, ExpiresInTime
<1>6. board' = {[shown |-> b.shown, known |-> b.known, expires |-> e]}
  BY <1>1
<1> HIDE DEF e
<1>7. TypeOK' /\ RowsInTime' /\ EndsOnce /\ (Untold' <=> Untold)
      /\ \A t : read_active(t)' = read_active(t)
  <2>1. \A c \in board' : c.expires \in Nat
    BY <1>5, <1>6
  <2>2. BuildSteps /\ \A c \in build' : BuildType(c)
    BY <1>1
  <2> QED
    BY <1>4, <2>1, <2>2, BuildStepsKeep, Zenon
<1>8. BuildLasts'
  BY <1>1 DEF BuildLasts
<1>9. BoardLasts'
  <2>1. b.known /\ ~ Untold /\ (requested <= rebuilt \/ requested <= b.pending) =>
          \A t \in Nat : clock <= t /\ (\A n \in b.next : t < n) => read_active(t) = b.shown
    BY <1>1 DEF WindowsInv, BuildLasts
  <2>2. b.known /\ ~ Untold' /\ requested <= rebuilt' =>
          \A t \in Nat : clock <= t /\ t + Second < e => read_active(t)' = b.shown
    BY <1>4, <1>5, <1>7, <2>1
  <2>3. \A c \in board' : c.known = b.known /\ c.shown = b.shown /\ c.expires = e
    BY <1>6
  <2>4. clock' = clock /\ requested' = requested
    BY <1>1 DEF BuildSteps
  <2> QED
    BY <2>2, <2>3, <2>4 DEF BoardLasts
<1> QED
  BY <1>7, <1>8, <1>9 DEF WindowsInv

(* Initially nothing is planned.                                           *)
LEMMA InitHolds == Init => WindowsInv
<1> SUFFICES ASSUME Init PROVE WindowsInv
  OBVIOUS
<1>1. window = <<>> /\ Windows = {}
  BY DEF Init, Windows
<1>2. TypeOK
  BY <1>1 DEF Init, TypeOK, Places, Asked, NoRequest
<1> QED
  BY <1>1, <1>2 DEF Init, WindowsInv, RowsInTime, BuildLasts, BoardLasts

(* Every step keeps WindowsInv, and ends a window as EndedOnce says.       *)
LEMMA NextKeeps ==
    ASSUME WindowsInv, [Next]_vars
    PROVE  WindowsInv' /\ (UNCHANGED vars \/ EndsOnce)
<1>1. CASE Tick
  BY <1>1, TickKeeps
<1>2. ASSUME NEW o \in Operators, NEW sites \in SUBSET Sites, NEW devices \in SUBSET Devices,
             NEW starts \in Starts, NEW ends \in Ends, Create(o, sites, devices, starts, ends)
      PROVE  WindowsInv' /\ EndsOnce
  BY <1>2, CreateKeeps
<1>3. ASSUME NEW o \in Operators, NEW ids \in SUBSET Windows, NEW many \in BOOLEAN,
             EndStart(o, ids, many)
      PROVE  WindowsInv' /\ EndsOnce
  BY <1>3, EndStartKeeps
<1>4. ASSUME NEW o \in Operators, Request(o)
      PROVE  WindowsInv' /\ EndsOnce
  BY <1>4, EndCommitKeeps, ChangedKeeps DEF Request
<1>5. ASSUME NEW rebuild \in BOOLEAN, BuildStart(rebuild) \/ ReadWindows(rebuild)
      PROVE  WindowsInv' /\ EndsOnce
  BY <1>5, BuildStartKeeps, ReadWindowsKeeps
<1>6. CASE StoreBoard
  BY <1>6, StoreBoardKeeps
<1>7. CASE UNCHANGED vars
  <2>1. Quiet /\ RowsKept
    BY <1>7, WindowsStay DEF vars, Quiet, Untold, WindowsInv, TypeOK
  <2>2. \A b \in build' : BuildType(b)'
    BY <1>7, BuildsKeepType DEF vars, WindowsInv, TypeOK
  <2>3. TypeOK'
    BY <1>7, <2>1, <2>2 DEF vars, WindowsInv, TypeOK, Windows
  <2> QED
    BY <1>7, <2>1, <2>3, QuietKeeps DEF WindowsInv, RowsKept
<1> QED
  BY <1>1, <1>2, <1>3, <1>4, <1>5, <1>6, <1>7 DEF Next

(* Every reachable state satisfies WindowsInv.                             *)
LEMMA InvariantHolds == Spec => []WindowsInv
<1>1. WindowsInv /\ [Next]_vars => WindowsInv'
  BY NextKeeps
<1> QED
  BY <1>1, InitHolds, PTL DEF Spec
-----------------------------------------------------------------------------
(* A stored board shows the maintenance there is, unless a request has still
   to drop it, its rebuild is pending, or it expires within a second. *)
THEOREM BoardShowsWindows == Spec => []WindowsShown
<1>1. WindowsInv => WindowsShown
  <2> SUFFICES ASSUME WindowsInv, NEW b \in Stored, b.known, ~ Untold, ~ (requested > rebuilt),
                      ~ (b.expires <= clock + Second)
               PROVE  b.shown = read_active(clock)
    BY DEF WindowsShown, Untold
  <2>1. b \in board /\ b.expires \in Nat /\ clock \in Nat /\ requested \in Nat /\ rebuilt \in Nat
    BY DEF Stored, WindowsInv, TypeOK
  <2>2. Second \in Nat
    BY MaintenanceAssumption
  <2>3. \A t \in Nat : clock <= t /\ t + Second < b.expires => read_active(t) = b.shown
    BY <2>1 DEF WindowsInv, BoardLasts
  <2> QED
    BY <2>1, <2>2, <2>3
<1> QED
  BY <1>1, InvariantHolds, PTL

(* A window ends once and before its planned end, and nothing else of it
   changes, however many requests end it. *)
THEOREM WindowsEndOnce == Spec => EndedOnce
<1>1. WindowsInv /\ [Next]_vars =>
        [\A i \in Windows :
           /\ window'[i] # window[i] => window[i].ended = {}
           /\ \A e \in window'[i].ended : e < window[i].ends
           /\ [window'[i] EXCEPT !.ended = {}] = [window[i] EXCEPT !.ended = {}]]_vars
  BY NextKeeps DEF EndsOnce
<1> QED
  BY <1>1, InvariantHolds, PTL DEF Spec, EndedOnce
-----------------------------------------------------------------------------
(* Counting up to n, each number in S after the one before it.             *)
LEMMA UpTo ==
    ASSUME NEW n \in Nat, NEW S, 0 \in S, \A i \in 1 .. n : i - 1 \in S => i \in S
    PROVE  0 .. n \subseteq S
<1> SUFFICES ASSUME (0 .. n) \ S # {} PROVE FALSE
  OBVIOUS
<1>1. (0 .. n) \ S \in SUBSET Nat
  OBVIOUS
<1>2. PICK m \in (0 .. n) \ S : \A k \in (0 .. n) \ S : ~ (<<k, m>> \in OpToRel(<, Nat))
  BY <1>1, NatLessThanWellFounded, WFMin, Zenon
<1>3. \A k \in (0 .. n) \ S : ~ (k < m)
  BY <1>1, <1>2, Zenon DEF OpToRel
<1>4. m \in 1 .. n /\ m - 1 \in 0 .. n /\ m - 1 < m
  <2>1. m \in 0 .. n /\ m \notin S
    BY <1>2
  <2>2. m # 0
    BY <2>1
  <2> QED
    BY <2>1, <2>2
<1>5. m - 1 \in S
  BY <1>3, <1>4
<1> QED
  BY <1>2, <1>4, <1>5

(* The last of a set of the first numbers.                                 *)
LEMMA LastOf ==
    ASSUME NEW n \in Nat, NEW s \in SUBSET (1 .. n), s # {}
    PROVE  Max(s) \in s /\ \A x \in s : x <= Max(s)
<1> DEFINE T == {n - x : x \in s}
<1>1. T \in SUBSET Nat /\ T # {}
  <2>1. PICK x \in s : TRUE
    OBVIOUS
  <2>2. n - x \in T
    OBVIOUS
  <2> QED
    BY <2>2
<1>2. PICK m \in T : \A k \in T : ~ (<<k, m>> \in OpToRel(<, Nat))
  BY <1>1, NatLessThanWellFounded, WFMin, Zenon
<1>3. \A k \in T : ~ (k < m)
  BY <1>1, <1>2, Zenon DEF OpToRel
<1>4. PICK x \in s : m = n - x
  BY <1>2
<1>5. \A y \in s : x >= y
  <2> SUFFICES ASSUME NEW y \in s PROVE x >= y
    OBVIOUS
  <2>1. n - y \in T
    OBVIOUS
  <2>2. ~ (n - y < m)
    BY <1>3, <2>1
  <2> QED
    BY <1>4, <2>2
<1>6. Max(s) \in s /\ \A y \in s : Max(s) >= y
  BY <1>5 DEF Max
<1> QED
  BY <1>6

(* A fold over the first k: f is what it makes of each set of them.        *)
Folds(f, k, V, base, step) ==
    /\ f \in [SUBSET (1 .. k) -> V]
    /\ \A s \in SUBSET (1 .. k) :
         f[s] = IF s = {} THEN base ELSE step[<<f[s \ {Max(s)}], Max(s)>>]

(* Over the first numbers there is a fold: the last of them at each step.  *)
LEMMA FoldExists ==
    ASSUME NEW n \in Nat, NEW V, NEW base \in V, NEW step \in [V \X (1 .. n) -> V]
    PROVE  \E f : Folds(f, n, V, base, step)
<1> DEFINE S == {k \in 0 .. n : \E f : Folds(f, k, V, base, step)}
<1>1. 0 \in S
  <2> DEFINE f == [s \in SUBSET (1 .. 0) |-> base]
  <2>1. Folds(f, 0, V, base, step)
    BY DEF Folds
  <2> QED
    BY <2>1
<1>2. ASSUME NEW k \in 1 .. n, k - 1 \in S
      PROVE  k \in S
  <2>1. PICK f : Folds(f, k - 1, V, base, step)
    BY <1>2
  <2>2. /\ f \in [SUBSET (1 .. (k - 1)) -> V]
        /\ \A s \in SUBSET (1 .. (k - 1)) :
             f[s] = IF s = {} THEN base ELSE step[<<f[s \ {Max(s)}], Max(s)>>]
    BY <2>1 DEF Folds
  <2> DEFINE g == [s \in SUBSET (1 .. k) |-> IF k \in s THEN step[<<f[s \ {k}], k>>] ELSE f[s]]
  <2>3. ASSUME NEW s \in SUBSET (1 .. k), k \in s
        PROVE  /\ Max(s) = k /\ s \ {k} \in SUBSET (1 .. (k - 1)) /\ s # {}
               /\ g[s] = step[<<f[s \ {k}], k>>] /\ g[s \ {k}] = f[s \ {k}]
    <3>1. Max(s) \in s /\ k <= Max(s) /\ s # {}
      BY <2>3, LastOf
    <3>2. Max(s) = k
      <4>1. Max(s) \in 1 .. k
        BY <3>1
      <4> QED
        BY <3>1, <4>1
    <3>3. s \ {k} \in SUBSET (1 .. (k - 1)) /\ s \ {k} \in SUBSET (1 .. k) /\ k \notin s \ {k}
      OBVIOUS
    <3> QED
      BY <2>3, <3>1, <3>2, <3>3
  <2>4. ASSUME NEW s \in SUBSET (1 .. k), k \notin s
        PROVE  /\ s \in SUBSET (1 .. (k - 1)) /\ g[s] = f[s]
               /\ \A x : s \ {x} \in SUBSET (1 .. (k - 1)) /\ g[s \ {x}] = f[s \ {x}]
    <3>1. s \in SUBSET (1 .. (k - 1))
      BY <2>4
    <3>2. \A x : s \ {x} \in SUBSET (1 .. k) /\ k \notin s \ {x}
      BY <2>4
    <3> QED
      BY <2>4, <3>1, <3>2
  <2>5. g = [s \in SUBSET (1 .. k) |-> g[s]]
    OBVIOUS
  <2> HIDE DEF g
  <2>6. ASSUME NEW s \in SUBSET (1 .. k)
        PROVE  g[s] \in V /\ g[s] = IF s = {} THEN base ELSE step[<<g[s \ {Max(s)}], Max(s)>>]
    <3>1. CASE k \in s
      <4>1. f[s \ {k}] \in V
        BY <2>2, <2>3, <3>1
      <4>2. step[<<f[s \ {k}], k>>] \in V
        BY <4>1
      <4> QED
        BY <2>3, <3>1, <4>2
    <3>2. CASE k \notin s
      BY <2>2, <2>4, <3>2
    <3> QED
      BY <3>1, <3>2
  <2>7. g \in [SUBSET (1 .. k) -> V]
    BY <2>5, <2>6
  <2>8. Folds(g, k, V, base, step)
    BY <2>6, <2>7 DEF Folds
  <2> QED
    BY <2>8
<1>3. 0 .. n \subseteq S
  <2> HIDE DEF S
  <2> QED
    BY <1>1, <1>2, UpTo
<1>4. n \in S
  <2> HIDE DEF S
  <2> QED
    BY <1>3
<1> QED
  BY <1>4

(* The last of the first k is k.                                           *)
LEMMA LastOfFirst ==
    ASSUME NEW k \in Nat, k # 0
    PROVE  1 .. k # {} /\ Max(1 .. k) = k /\ (1 .. k) \ {k} = 1 .. (k - 1)
<1>1. 1 .. k # {}
  OBVIOUS
<1>2. Max(1 .. k) \in 1 .. k /\ \A x \in 1 .. k : x <= Max(1 .. k)
  <2>1. 1 .. k \in SUBSET (1 .. k)
    OBVIOUS
  <2> QED
    BY <1>1, <2>1, LastOf
<1> QED
  BY <1>1, <1>2

(* Intervals are pairs of times; what they cover leaves the end out.       *)
Interval == Nat \X Nat

(* One interval merged: into the last one when it joins, else after it.    *)
LEMMA MergeIs ==
    ASSUME NEW m \in Seq(Interval), NEW i \in Interval
    PROVE  /\ Merge(m, i) \in Seq(Interval)
           /\ \/ /\ m # <<>> /\ i[1] <= m[Len(m)][2]
                 /\ Len(Merge(m, i)) = Len(m)
                 /\ \A j \in 1 .. Len(m) - 1 : Merge(m, i)[j] = m[j]
                 /\ Merge(m, i)[Len(m)] = <<m[Len(m)][1], Max({m[Len(m)][2], i[2]})>>
              \/ /\ m = <<>> \/ m[Len(m)][2] < i[1]
                 /\ Merge(m, i) = Append(m, i)
<1>1. CASE m # <<>> /\ Joins(Last(m), i)
  <2> DEFINE l == m[Len(m)]
             x == <<l[1], Max({l[2], i[2]})>>
             f == SubSeq(m, 1, Len(m) - 1)
  <2>1. Len(m) \in Nat /\ Len(m) # 0 /\ l \in Interval
    BY <1>1
  <2>2. l[2] \in Nat /\ i[2] \in Nat /\ l[1] \in Nat
    BY <2>1 DEF Interval
  <2>3. Max({l[2], i[2]}) \in Nat
    BY <2>2, OfTwo
  <2>4. x \in Interval
    BY <2>2, <2>3 DEF Interval
  <2>5. f \in Seq(Interval) /\ Len(f) = Len(m) - 1 /\ \A j \in 1 .. Len(m) - 1 : f[j] = m[j]
    <3>1. /\ Len(m) - 1 \in 0 .. Len(m) /\ Len(m) - 1 \in Nat
          /\ \A j \in 1 .. Len(m) - 1 : j \in 1 .. Len(m) /\ m[j] \in Interval
      BY <2>1
    <3>2. f = [j \in 1 .. Len(m) - 1 |-> m[j]]
      BY <2>1, <3>1
    <3> HIDE DEF f
    <3>3. f \in [1 .. Len(m) - 1 -> Interval]
      BY <3>1, <3>2
    <3> QED
      BY <3>1, <3>2, <3>3, IsASeq, LenProperties
  <2>6. Merge(m, i) = Append(f, x) /\ i[1] <= l[2]
    BY <1>1 DEF Merge, Joins, Last, Front
  <2> HIDE DEF f, x, l
  <2>7. /\ Append(f, x) \in Seq(Interval) /\ Len(Append(f, x)) = Len(m)
        /\ \A j \in 1 .. Len(m) - 1 : Append(f, x)[j] = m[j]
        /\ Append(f, x)[Len(m)] = x
    BY <2>1, <2>4, <2>5, AppendProperties
  <2> QED
    BY <1>1, <2>6, <2>7 DEF x, l
<1>2. CASE ~ (m # <<>> /\ Joins(Last(m), i))
  <2>1. Merge(m, i) = Append(m, i)
    BY <1>2 DEF Merge
  <2>2. m = <<>> \/ m[Len(m)][2] < i[1]
    <3>1. CASE m # <<>>
      <4>1. m[Len(m)] \in Interval
        BY <3>1
      <4>2. m[Len(m)][2] \in Nat /\ i[1] \in Nat
        BY <4>1 DEF Interval
      <4> QED
        BY <1>2, <3>1, <4>2 DEF Joins, Last
    <3> QED
      BY <3>1
  <2> QED
    BY <2>1, <2>2
<1> QED
  BY <1>1, <1>2

(* A fold of Merge is its steps.                                           *)
LEMMA MergeSteps ==
    ASSUME NEW s \in Seq(Interval)
    PROVE  \E g : /\ g[0] = <<>> /\ FoldLeft(Merge, <<>>, s) = g[Len(s)]
                  /\ \A k \in 1 .. Len(s) : g[k] = Merge(g[k - 1], s[k])
<1> DEFINE n == Len(s)
           Is(f) == f = [x \in SUBSET DOMAIN s |->
                           IF x = {} THEN <<>> ELSE Merge(f[x \ {Max(x)}], s[Max(x)])]
           step == [p \in Seq(Interval) \X (1 .. n) |-> Merge(p[1], s[p[2]])]
<1>1. n \in Nat /\ DOMAIN s = 1 .. n /\ \A k \in 1 .. n : s[k] \in Interval
  OBVIOUS
<1>2. \A m \in Seq(Interval), i \in Interval : Merge(m, i) \in Seq(Interval)
  BY MergeIs
<1>3. step \in [Seq(Interval) \X (1 .. n) -> Seq(Interval)]
  BY <1>1, <1>2
<1>4. <<>> \in Seq(Interval)
  OBVIOUS
<1>5. PICK f : Folds(f, n, Seq(Interval), <<>>, step)
  <2> HIDE DEF step, n
  <2> QED
    BY <1>1, <1>3, <1>4, FoldExists
<1>6. \E h : Is(h)
  <2>1. /\ f \in [SUBSET (1 .. n) -> Seq(Interval)]
        /\ \A x \in SUBSET (1 .. n) :
             f[x] = IF x = {} THEN <<>> ELSE step[<<f[x \ {Max(x)}], Max(x)>>]
    BY <1>5 DEF Folds
  <2>2. ASSUME NEW x \in SUBSET (1 .. n)
        PROVE  f[x] = IF x = {} THEN <<>> ELSE Merge(f[x \ {Max(x)}], s[Max(x)])
    <3>1. CASE x = {}
      BY <2>1, <3>1
    <3>2. CASE x # {}
      <4>1. Max(x) \in 1 .. n /\ x \ {Max(x)} \in SUBSET (1 .. n)
        BY <1>1, <3>2, LastOf
      <4>2. f[x \ {Max(x)}] \in Seq(Interval)
        BY <2>1, <4>1
      <4>3. step[<<f[x \ {Max(x)}], Max(x)>>] = Merge(f[x \ {Max(x)}], s[Max(x)])
        BY <4>1, <4>2
      <4> HIDE DEF step
      <4> QED
        BY <2>1, <3>2, <4>3
    <3> QED
      BY <3>1, <3>2
  <2>3. f = [x \in SUBSET (1 .. n) |-> f[x]]
    BY <2>1
  <2>4. Is(f)
    BY <1>1, <2>2, <2>3, Zenon
  <2> QED
    BY <2>4
<1>7. PICK h : Is(h) /\ FoldLeft(Merge, <<>>, s) = h[DOMAIN s]
  BY <1>6 DEF FoldLeft, MapThenFoldSet
<1> DEFINE g == [k \in 0 .. n |-> h[1 .. k]]
<1>8. \A x \in SUBSET (1 .. n) : h[x] = IF x = {} THEN <<>> ELSE Merge(h[x \ {Max(x)}], s[Max(x)])
  BY <1>1, <1>7
<1>9. g[0] = <<>> /\ g[n] = h[DOMAIN s]
  <2>1. 1 .. 0 = {} /\ {} \in SUBSET (1 .. n) /\ 0 \in 0 .. n /\ n \in 0 .. n
    BY <1>1
  <2> QED
    BY <1>1, <1>8, <2>1
<1>10. ASSUME NEW k \in 1 .. n
       PROVE  g[k] = Merge(g[k - 1], s[k])
  <2>1. 1 .. k # {} /\ Max(1 .. k) = k /\ (1 .. k) \ {k} = 1 .. (k - 1)
    BY <1>1, LastOfFirst
  <2>2. 1 .. k \in SUBSET (1 .. n) /\ k \in 0 .. n /\ k - 1 \in 0 .. n
    BY <1>1
  <2> HIDE DEF n
  <2> QED
    BY <1>8, <2>1, <2>2
<1> QED
  BY <1>7, <1>9, <1>10

(* Is the tick in one of the intervals?                                    *)
Covers(intervals, t) == \E i \in intervals : i[1] <= t /\ t < i[2]

(* In order, none empty, and apart.                                        *)
Apart(m) ==
    /\ m \in Seq(Interval)
    /\ \A j \in 1 .. Len(m) : m[j][1] < m[j][2]
    /\ \A j, k \in 1 .. Len(m) : j < k => m[j][2] < m[k][1]

(* Merging one that starts no earlier keeps them apart and adds its ticks. *)
LEMMA MergeKeeps ==
    ASSUME NEW m, Apart(m), NEW i \in Interval, i[1] < i[2],
           \A j \in 1 .. Len(m) : m[j][1] <= i[1]
    PROVE  LET n == Merge(m, i) IN
           /\ Apart(n)
           /\ \A j \in 1 .. Len(n) : n[j][1] <= i[1]
           /\ \A t \in Nat : Covers(Range(n), t) <=> Covers(Range(m), t) \/ (i[1] <= t /\ t < i[2])
<1> DEFINE n == Merge(m, i)
           p == Len(m)
<1>1. /\ m \in Seq(Interval) /\ p \in Nat /\ n \in Seq(Interval) /\ Len(n) \in Nat
      /\ \A j \in 1 .. p : m[j] \in Interval /\ m[j][1] \in Nat /\ m[j][2] \in Nat
      /\ i[1] \in Nat /\ i[2] \in Nat
  <2>1. m \in Seq(Interval)
    BY DEF Apart
  <2>2. n \in Seq(Interval)
    BY <2>1, MergeIs
  <2> HIDE DEF n
  <2>3. \A x \in Interval : x[1] \in Nat /\ x[2] \in Nat
    BY DEF Interval
  <2> QED
    BY <2>1, <2>2, <2>3
<1>2. /\ \A j \in 1 .. p : m[j][1] < m[j][2]
      /\ \A j, k \in 1 .. p : j < k => m[j][2] < m[k][1]
  BY DEF Apart
<1>3. \A t : /\ Covers(Range(n), t) <=> \E j \in 1 .. Len(n) : n[j][1] <= t /\ t < n[j][2]
             /\ Covers(Range(m), t) <=> \E j \in 1 .. p : m[j][1] <= t /\ t < m[j][2]
  BY <1>1 DEF Covers, Range
<1>4. CASE /\ m # <<>> /\ i[1] <= m[p][2] /\ Len(n) = p
           /\ \A j \in 1 .. p - 1 : n[j] = m[j]
           /\ n[p] = <<m[p][1], Max({m[p][2], i[2]})>>
  <2> DEFINE e == Max({m[p][2], i[2]})
  <2>1. p \in 1 .. p /\ \A j \in 1 .. p : j = p \/ j \in 1 .. p - 1
    BY <1>1, <1>4
  <2>2. e \in Nat /\ e >= m[p][2] /\ e >= i[2] /\ e \in {m[p][2], i[2]}
    BY <1>1, <2>1, OfTwo
  <2>3. n[p][1] = m[p][1] /\ n[p][2] = e
    BY <1>4
  <2> HIDE DEF e, n, p
  <2>4. Apart(n)
    <3>1. \A j \in 1 .. Len(n) : n[j][1] < n[j][2]
      BY <1>1, <1>2, <1>4, <2>1, <2>2, <2>3
    <3>2. ASSUME NEW j \in 1 .. p, NEW k \in 1 .. p, j < k
          PROVE  n[j][2] < n[k][1]
      <4>1. j \in 1 .. p - 1 /\ n[j] = m[j] /\ n[k][1] = m[k][1]
        <5>1. j \in 1 .. p - 1
          BY <1>1, <3>2
        <5>2. n[j] = m[j]
          BY <1>4, <5>1
        <5>3. k = p \/ k \in 1 .. p - 1
          BY <2>1
        <5>4. n[k][1] = m[k][1]
          BY <1>4, <2>3, <5>3
        <5> QED
          BY <5>1, <5>2, <5>4
      <4> QED
        BY <1>2, <3>2, <4>1
    <3> QED
      BY <1>1, <1>4, <3>1, <3>2 DEF Apart
  <2>5. \A j \in 1 .. Len(n) : n[j][1] <= i[1]
    BY <1>4, <2>1, <2>3 DEF p
  <2>6. ASSUME NEW t \in Nat
        PROVE  (\E j \in 1 .. Len(n) : n[j][1] <= t /\ t < n[j][2])
               <=> (\E j \in 1 .. p : m[j][1] <= t /\ t < m[j][2]) \/ (i[1] <= t /\ t < i[2])
    <3>1. (n[p][1] <= t /\ t < n[p][2])
          <=> (m[p][1] <= t /\ t < m[p][2]) \/ (i[1] <= t /\ t < i[2])
      BY <1>1, <1>4, <2>1, <2>2, <2>3 DEF p
    <3> QED
      BY <1>4, <2>1, <3>1
  <2> QED
    BY <1>3, <2>4, <2>5, <2>6 DEF n, p
<1>5. CASE /\ m = <<>> \/ m[p][2] < i[1]
           /\ n = Append(m, i)
  <2>1. /\ Len(n) = p + 1 /\ n[p + 1] = i /\ \A j \in 1 .. p : n[j] = m[j]
        /\ \A j \in 1 .. p + 1 : j = p + 1 \/ j \in 1 .. p
    BY <1>1, <1>5
  <2>2. \A j \in 1 .. p : m[j][2] < i[1]
    <3> SUFFICES ASSUME NEW j \in 1 .. p PROVE m[j][2] < i[1]
      OBVIOUS
    <3>1. p \in 1 .. p /\ m # <<>>
      BY <1>1
    <3>2. CASE j = p
      BY <1>5, <3>1, <3>2
    <3>3. CASE j < p
      BY <1>1, <1>2, <1>5, <3>1, <3>3
    <3> QED
      BY <1>1, <3>2, <3>3
  <2> HIDE DEF n, p
  <2>3. Apart(n)
    <3>1. \A j \in 1 .. Len(n) : n[j][1] < n[j][2]
      BY <1>2, <2>1
    <3>2. ASSUME NEW j \in 1 .. Len(n), NEW k \in 1 .. Len(n), j < k
          PROVE  n[j][2] < n[k][1]
      BY <1>1, <1>2, <2>1, <2>2, <3>2
    <3> QED
      BY <1>1, <3>1, <3>2 DEF Apart
  <2>4. \A j \in 1 .. Len(n) : n[j][1] <= i[1]
    BY <1>1, <2>1 DEF p
  <2>5. \A t \in Nat : (\E j \in 1 .. Len(n) : n[j][1] <= t /\ t < n[j][2])
               <=> (\E j \in 1 .. p : m[j][1] <= t /\ t < m[j][2]) \/ (i[1] <= t /\ t < i[2])
    <3>1. \A t \in Nat : (n[p + 1][1] <= t /\ t < n[p + 1][2]) <=> (i[1] <= t /\ t < i[2])
      BY <2>1
    <3>2. p + 1 \in 1 .. Len(n) /\ \A j \in 1 .. p : j \in 1 .. Len(n)
      BY <1>1, <2>1 DEF p
    <3> QED
      BY <2>1, <3>1, <3>2
  <2> QED
    BY <1>3, <2>3, <2>4, <2>5 DEF n, p
<1> QED
  BY <1>1, <1>4, <1>5, MergeIs

(* A nonempty set of intervals has a first.                                *)
LEMMA FirstInterval ==
    ASSUME NEW S \in SUBSET Interval, S # {}
    PROVE  \E x \in S : \A y \in S \ {x} : Precedes(x, y)
<1> DEFINE starts == {i[1] : i \in S}
<1>1. starts \in SUBSET Nat /\ starts # {}
  BY DEF Interval
<1>2. PICK a \in starts : \A n \in starts : a <= n
  <2> HIDE DEF starts
  <2> QED
    BY <1>1, MinIsChosen
<1> DEFINE ends == {i[2] : i \in {j \in S : j[1] = a}}
<1>3. ends \in SUBSET Nat /\ ends # {}
  <2>1. PICK i \in S : i[1] = a
    BY <1>2
  <2>2. i[2] \in ends
    BY <2>1
  <2> QED
    BY <2>2 DEF Interval
<1>4. PICK b \in ends : \A n \in ends : b <= n
  <2> HIDE DEF ends
  <2> QED
    BY <1>3, MinIsChosen
<1>5. PICK x \in S : x[1] = a /\ x[2] = b
  BY <1>4
<1>6. ASSUME NEW y \in S, y # x
      PROVE  Precedes(x, y)
  <2>1. y = <<y[1], y[2]>> /\ x = <<x[1], x[2]>> /\ y[1] \in Nat /\ y[2] \in Nat /\ a \in Nat /\ b \in Nat
    BY <1>5 DEF Interval
  <2>2. a <= y[1]
    BY <1>2
  <2>3. CASE y[1] = a
    <3>1. b <= y[2]
      BY <1>4, <2>3
    <3>2. y[2] # b
      BY <1>5, <1>6, <2>1, <2>3
    <3> QED
      BY <1>5, <2>1, <2>3, <3>1, <3>2 DEF Precedes
  <2>4. CASE y[1] # a
    BY <1>5, <2>1, <2>2, <2>4 DEF Precedes
  <2> QED
    BY <2>3, <2>4
<1> QED
  BY <1>6

(* In the order of their start, all of them.                               *)
InOrder(s, S) ==
    /\ s \in [1 .. Cardinality(S) -> S] /\ Range(s) = S
    /\ \A m, n \in DOMAIN s : m < n => Precedes(s[m], s[n])

(* Finitely many intervals can be sorted.                                  *)
LEMMA SortedExists ==
    ASSUME NEW S \in SUBSET Interval, IsFiniteSet(S)
    PROVE  \E s : InOrder(s, S)
<1> DEFINE N == Cardinality(S)
           K == {k \in 0 .. N : \A T \in SUBSET S : Cardinality(T) = k => \E s : InOrder(s, T)}
<1>1. N \in Nat /\ \A T \in SUBSET S : IsFiniteSet(T) /\ Cardinality(T) \in Nat
  BY FS_CardinalityType, FS_Subset
<1>2. 0 \in K
  <2>1. ASSUME NEW T \in SUBSET S, Cardinality(T) = 0
        PROVE  \E s : InOrder(s, T)
    <3>1. T = {}
      BY <1>1, <2>1, FS_EmptySet
    <3> DEFINE s == [j \in 1 .. 0 |-> 0]
    <3>2. s \in [1 .. 0 -> {}] /\ Range(s) = {} /\ DOMAIN s = {}
      BY DEF Range
    <3>3. InOrder(s, T)
      BY <2>1, <3>1, <3>2 DEF InOrder
    <3> QED
      BY <3>3
  <2> QED
    BY <1>1, <2>1
<1>3. ASSUME NEW k \in 1 .. N, k - 1 \in K
      PROVE  k \in K
  <2>1. ASSUME NEW T \in SUBSET S, Cardinality(T) = k
        PROVE  \E s : InOrder(s, T)
    <3>1. IsFiniteSet(T) /\ T # {}
      BY <1>1, <2>1, FS_EmptySet
    <3>2. PICK x \in T : \A y \in T \ {x} : Precedes(x, y)
      BY <3>1, FirstInterval
    <3>3. Cardinality(T \ {x}) = k - 1
      BY <2>1, <3>1, FS_RemoveElement
    <3>4. PICK r : InOrder(r, T \ {x})
      BY <1>3, <3>3
    <3>5. /\ r \in [1 .. (k - 1) -> T \ {x}] /\ Range(r) = T \ {x}
          /\ \A m, n \in 1 .. (k - 1) : m < n => Precedes(r[m], r[n])
      BY <3>3, <3>4 DEF InOrder
    <3> DEFINE s == [j \in 1 .. k |-> IF j = 1 THEN x ELSE r[j - 1]]
    <3>6. \A j \in 1 .. k : s[j] = IF j = 1 THEN x ELSE r[j - 1]
      OBVIOUS
    <3>7. \A j \in 1 .. k : j # 1 => j - 1 \in 1 .. (k - 1)
      OBVIOUS
    <3>8. DOMAIN s = 1 .. k /\ s = [j \in 1 .. k |-> s[j]]
      OBVIOUS
    <3> HIDE DEF s
    <3>9. s \in [1 .. k -> T]
      BY <3>5, <3>6, <3>7, <3>8
    <3>10. Range(s) = T
      <4>1. ASSUME NEW y \in T
            PROVE  \E j \in 1 .. k : s[j] = y
        <5>1. CASE y = x
          BY <3>6, <5>1
        <5>2. CASE y # x
          <6>1. PICK j \in 1 .. (k - 1) : r[j] = y
            BY <3>5, <5>2 DEF Range
          <6>2. j + 1 \in 1 .. k /\ j + 1 # 1 /\ (j + 1) - 1 = j
            BY <6>1
          <6> QED
            BY <3>6, <6>1, <6>2
        <5> QED
          BY <5>1, <5>2
      <4> QED
        BY <3>8, <3>9, <4>1 DEF Range
    <3>11. ASSUME NEW m \in 1 .. k, NEW n \in 1 .. k, m < n
           PROVE  Precedes(s[m], s[n])
      <4>1. n # 1 /\ n - 1 \in 1 .. (k - 1) /\ s[n] = r[n - 1] /\ r[n - 1] \in T \ {x}
        BY <3>5, <3>6, <3>7, <3>11
      <4>2. CASE m = 1
        BY <3>2, <3>6, <4>1, <4>2
      <4>3. CASE m # 1
        <5>1. m - 1 \in 1 .. (k - 1) /\ s[m] = r[m - 1] /\ m - 1 < n - 1
          BY <3>6, <3>7, <3>11, <4>3
        <5> QED
          BY <3>5, <4>1, <5>1
      <4> QED
        BY <4>2, <4>3
    <3>12. InOrder(s, T)
      BY <2>1, <3>8, <3>9, <3>10, <3>11 DEF InOrder
    <3> QED
      BY <3>12
  <2> QED
    BY <1>1, <2>1
<1>4. 0 .. N \subseteq K
  <2> HIDE DEF K, N
  <2> QED
    BY <1>1, <1>2, <1>3, UpTo
<1>5. N \in K
  <2> HIDE DEF K
  <2> QED
    BY <1>1, <1>4
<1> QED
  BY <1>5

(* sorted lists a finite set of intervals in order.                        *)
LEMMA SortedIs ==
    ASSUME NEW S \in SUBSET Interval, IsFiniteSet(S)
    PROVE  InOrder(sorted(S), S) /\ sorted(S) \in Seq(Interval) /\ Len(sorted(S)) = Cardinality(S)
<1>1. Cardinality(S) \in Nat
  BY FS_CardinalityType
<1>2. \E s \in [1 .. Cardinality(S) -> S] :
        Range(s) = S /\ \A m, n \in DOMAIN s : m < n => Precedes(s[m], s[n])
  BY SortedExists DEF InOrder
<1>3. InOrder(sorted(S), S)
  BY <1>2 DEF sorted, InOrder
<1> QED
  BY <1>1, <1>3, IsASeq DEF InOrder

(* union: the same ticks, apart.                                           *)
LEMMA UnionIs ==
    ASSUME NEW S \in SUBSET Interval, IsFiniteSet(S)
    PROVE  Apart(union(S)) /\ \A t \in Nat : Covers(Range(union(S)), t) <=> Covers(S, t)
<1> DEFINE S0 == {i \in S : i[2] > i[1]}
           s  == sorted(S0)
           n  == Len(s)
<1>1. S0 \in SUBSET Interval /\ IsFiniteSet(S0)
  BY FS_Subset
<1>2. InOrder(s, S0) /\ s \in Seq(Interval) /\ n \in Nat /\ DOMAIN s = 1 .. n
  <2> HIDE DEF S0
  <2> QED
    BY <1>1, SortedIs
<1>3. /\ \A j \in 1 .. n : s[j] \in Interval /\ s[j][1] < s[j][2] /\ s[j][1] \in Nat
      /\ \A j, k \in 1 .. n : j < k => s[j][1] <= s[k][1]
  <2>1. \A j \in 1 .. n : s[j] \in S0
    BY <1>2 DEF InOrder
  <2>2. \A x \in S0 : x \in Interval /\ x[1] < x[2] /\ x[1] \in Nat /\ x[2] \in Nat
    BY DEF Interval
  <2>3. \A j, k \in 1 .. n : j < k => Precedes(s[j], s[k])
    BY <1>2 DEF InOrder
  <2> HIDE DEF S0, s, n
  <2> QED
    BY <2>1, <2>2, <2>3 DEF Precedes
<1>4. \A t : Covers(S, t) /\ t \in Nat <=> t \in Nat /\ \E j \in 1 .. n : s[j][1] <= t /\ t < s[j][2]
  <2>1. \A x : x \in S0 <=> \E j \in 1 .. n : s[j] = x
    BY <1>2 DEF InOrder, Range
  <2>2. ASSUME NEW t \in Nat, NEW i \in S, i[1] <= t, t < i[2]
        PROVE  i \in S0
    BY <2>2 DEF Interval
  <2>3. \A x \in S0 : x \in S
    OBVIOUS
  <2> HIDE DEF S0, s, n
  <2> QED
    BY <2>1, <2>2, <2>3 DEF Covers
<1> HIDE DEF S0, s, n
<1>5. PICK g : /\ g[0] = <<>> /\ FoldLeft(Merge, <<>>, s) = g[n]
               /\ \A k \in 1 .. n : g[k] = Merge(g[k - 1], s[k])
  BY <1>2, MergeSteps DEF n
<1> DEFINE Good(k) ==
             /\ Apart(g[k])
             /\ k # 0 => \A j \in 1 .. Len(g[k]) : g[k][j][1] <= s[k][1]
             /\ k = 0 => g[k] = <<>>
             /\ \A t \in Nat : Covers(Range(g[k]), t) <=>
                                 \E j \in 1 .. k : s[j][1] <= t /\ t < s[j][2]
           K == {k \in 0 .. n : Good(k)}
<1>6. 0 \in K
  <2>1. Apart(<<>>)
    BY DEF Apart
  <2>2. \A t : ~ Covers(Range(<<>>), t)
    BY DEF Covers, Range
  <2>3. Good(0)
    BY <1>5, <2>1, <2>2
  <2> QED
    BY <1>2, <2>3
<1>7. ASSUME NEW k \in 1 .. n, k - 1 \in K
      PROVE  k \in K
  <2>1. Good(k - 1) /\ k - 1 \in Nat
    BY <1>7
  <2> DEFINE m == g[k - 1]
             i == s[k]
  <2>2. i \in Interval /\ i[1] < i[2] /\ g[k] = Merge(m, i)
    BY <1>3, <1>5
  <2>3. Apart(m)
    BY <2>1
  <2>4. \A j \in 1 .. Len(m) : m[j][1] <= i[1]
    <3>1. CASE k = 1
      <4>1. Len(m) = 0
        BY <2>1, <3>1
      <4> QED
        BY <4>1
    <3>2. CASE k # 1
      <4>1. k - 1 \in 1 .. n /\ k - 1 # 0 /\ s[k - 1][1] <= i[1] /\ s[k - 1][1] \in Nat /\ i[1] \in Nat
        BY <1>2, <1>3, <3>2
      <4>2. \A j \in 1 .. Len(m) : m[j][1] <= s[k - 1][1]
        BY <2>1, <4>1
      <4>3. \A j \in 1 .. Len(m) : m[j][1] \in Nat
        <5>1. m \in Seq(Interval)
          BY <2>3 DEF Apart
        <5> HIDE DEF m
        <5>2. \A j \in 1 .. Len(m) : m[j] \in Interval
          BY <5>1
        <5> QED
          BY <5>2 DEF Interval
      <4> HIDE DEF m, i
      <4> QED
        BY <4>1, <4>2, <4>3
    <3> QED
      BY <3>1, <3>2
  <2>5. \A t \in Nat : Covers(Range(m), t) <=> \E j \in 1 .. k - 1 : s[j][1] <= t /\ t < s[j][2]
    BY <2>1
  <2> HIDE DEF m, i
  <2>6. /\ Apart(g[k]) /\ \A j \in 1 .. Len(g[k]) : g[k][j][1] <= i[1]
        /\ \A t \in Nat : Covers(Range(g[k]), t) <=> Covers(Range(m), t) \/ (i[1] <= t /\ t < i[2])
    BY <2>2, <2>3, <2>4, MergeKeeps
  <2>7. \A j \in 1 .. k : j = k \/ j \in 1 .. k - 1
    OBVIOUS
  <2>8. \A t \in Nat : Covers(Range(g[k]), t) <=> \E j \in 1 .. k : s[j][1] <= t /\ t < s[j][2]
    BY <2>5, <2>6, <2>7 DEF i
  <2>9. Good(k)
    BY <2>6, <2>8 DEF i
  <2> QED
    BY <2>9
<1>8. 0 .. n \subseteq K
  <2> HIDE DEF K
  <2> QED
    BY <1>2, <1>6, <1>7, UpTo
<1>9. Good(n)
  <2> HIDE DEF Good
  <2> QED
    BY <1>2, <1>8
<1>10. union(S) = g[n]
  BY <1>5 DEF union, s, S0
<1> QED
  BY <1>4, <1>9, <1>10

(* What an interval list covers, by its places.                            *)
LEMMA CoversAt ==
    ASSUME NEW m \in Seq(Interval), NEW t
    PROVE  Covers(Range(m), t) <=> \E j \in 1 .. Len(m) : m[j][1] <= t /\ t < m[j][2]
BY DEF Covers, Range

(* The intervals of a list apart are the runs of what it covers.           *)
LEMMA RunsAre ==
    ASSUME NEW m, Apart(m), NEW r \in Interval, r[1] < r[2]
    PROVE  r \in Range(m) <=>
             /\ \A t \in r[1] .. r[2] - 1 : Covers(Range(m), t)
             /\ ~ Covers(Range(m), r[1] - 1) /\ ~ Covers(Range(m), r[2])
<1>1. /\ m \in Seq(Interval) /\ Len(m) \in Nat
      /\ \A j \in 1 .. Len(m) : m[j] \in Interval /\ m[j][1] \in Nat /\ m[j][2] \in Nat
                                /\ m[j] = <<m[j][1], m[j][2]>> /\ m[j][1] < m[j][2]
      /\ \A j, k \in 1 .. Len(m) : j < k => m[j][2] < m[k][1]
      /\ r[1] \in Nat /\ r[2] \in Nat /\ r = <<r[1], r[2]>>
  <2>1. m \in Seq(Interval)
    BY DEF Apart
  <2>2. \A x \in Interval : x[1] \in Nat /\ x[2] \in Nat /\ x = <<x[1], x[2]>>
    BY DEF Interval
  <2> QED
    BY <2>1, <2>2 DEF Apart
<1>2. \A t : Covers(Range(m), t) <=> \E j \in 1 .. Len(m) : m[j][1] <= t /\ t < m[j][2]
  BY <1>1, CoversAt
<1>3. \A j, k \in 1 .. Len(m) : j = k \/ m[j][2] < m[k][1] \/ m[k][2] < m[j][1]
  BY <1>1
<1>4. ASSUME NEW j \in 1 .. Len(m), m[j] = r
      PROVE  /\ \A t \in r[1] .. r[2] - 1 : Covers(Range(m), t)
             /\ ~ Covers(Range(m), r[1] - 1) /\ ~ Covers(Range(m), r[2])
  <2>1. \A t \in r[1] .. r[2] - 1 : m[j][1] <= t /\ t < m[j][2]
    BY <1>1, <1>4
  <2>2. \A k \in 1 .. Len(m) : ~ (m[k][1] <= r[1] - 1 /\ r[1] - 1 < m[k][2])
    BY <1>1, <1>3, <1>4
  <2>3. \A k \in 1 .. Len(m) : ~ (m[k][1] <= r[2] /\ r[2] < m[k][2])
    BY <1>1, <1>3, <1>4
  <2> QED
    BY <1>2, <2>1, <2>2, <2>3
<1>5. ASSUME \A t \in r[1] .. r[2] - 1 : Covers(Range(m), t),
             ~ Covers(Range(m), r[1] - 1), ~ Covers(Range(m), r[2])
      PROVE  r \in Range(m)
  <2>1. r[1] \in r[1] .. r[2] - 1
    BY <1>1
  <2>2. PICK j \in 1 .. Len(m) : m[j][1] <= r[1] /\ r[1] < m[j][2]
    BY <1>2, <1>5, <2>1
  <2>3. m[j][1] = r[1]
    <3>1. ~ (m[j][1] <= r[1] - 1 /\ r[1] - 1 < m[j][2])
      BY <1>2, <1>5
    <3> QED
      BY <1>1, <2>2, <3>1
  <2>4. m[j][2] <= r[2]
    <3>1. ~ (m[j][1] <= r[2] /\ r[2] < m[j][2])
      BY <1>2, <1>5
    <3> QED
      BY <1>1, <2>3, <3>1
  <2>5. ~ (m[j][2] < r[2])
    <3> SUFFICES ASSUME m[j][2] < r[2] PROVE FALSE
      OBVIOUS
    <3>1. m[j][2] \in r[1] .. r[2] - 1
      BY <1>1, <2>2
    <3>2. PICK k \in 1 .. Len(m) : m[k][1] <= m[j][2] /\ m[j][2] < m[k][2]
      BY <1>2, <1>5, <3>1
    <3>3. j = k \/ m[j][2] < m[k][1] \/ m[k][2] < m[j][1]
      BY <1>3
    <3> QED
      BY <1>1, <3>2, <3>3
  <2>6. m[j] = r
    <3>1. m[j][2] = r[2]
      BY <1>1, <2>4, <2>5
    <3> QED
      BY <1>1, <2>3, <3>1
  <2> QED
    BY <1>1, <2>6 DEF Range
<1>6. r \in Range(m) => \E j \in 1 .. Len(m) : m[j] = r
  BY <1>1 DEF Range
<1> QED
  BY <1>4, <1>5, <1>6

(* Two lists apart with the same intervals are the same.                   *)
LEMMA OrderedUnique ==
    ASSUME NEW m, NEW n, Apart(m), Apart(n), Range(m) = Range(n)
    PROVE  m = n
<1>1. /\ m \in Seq(Interval) /\ Len(m) \in Nat /\ n \in Seq(Interval) /\ Len(n) \in Nat
      /\ \A j \in 1 .. Len(m) : m[j][1] \in Nat
      /\ \A j \in 1 .. Len(n) : n[j][1] \in Nat
  <2>1. m \in Seq(Interval) /\ n \in Seq(Interval)
    BY DEF Apart
  <2> QED
    BY <2>1 DEF Interval
<1>2. /\ \A j, k \in 1 .. Len(m) : j < k => m[j][1] < m[k][1]
      /\ \A j, k \in 1 .. Len(n) : j < k => n[j][1] < n[k][1]
  <2>1. /\ \A j \in 1 .. Len(m) : m[j] \in Interval /\ m[j][1] < m[j][2]
        /\ \A j \in 1 .. Len(n) : n[j] \in Interval /\ n[j][1] < n[j][2]
        /\ \A j, k \in 1 .. Len(m) : j < k => m[j][2] < m[k][1]
        /\ \A j, k \in 1 .. Len(n) : j < k => n[j][2] < n[k][1]
    BY <1>1 DEF Apart
  <2>2. \A x \in Interval : x[1] \in Nat /\ x[2] \in Nat
    BY DEF Interval
  <2> QED
    BY <2>1, <2>2
<1>3. /\ \A j \in 1 .. Len(m) : \E k \in 1 .. Len(n) : m[j] = n[k]
      /\ \A j \in 1 .. Len(n) : \E k \in 1 .. Len(m) : n[j] = m[k]
  <2>1. DOMAIN m = 1 .. Len(m) /\ DOMAIN n = 1 .. Len(n)
    BY <1>1
  <2>2. \A x : x \in Range(m) <=> x \in Range(n)
    OBVIOUS
  <2>3. /\ \A x : x \in Range(m) <=> \E k \in 1 .. Len(m) : x = m[k]
        /\ \A x : x \in Range(n) <=> \E k \in 1 .. Len(n) : x = n[k]
    BY <2>1 DEF Range
  <2> QED
    BY <2>2, <2>3
<1> DEFINE K == {k \in Nat : k <= Len(m) /\ k <= Len(n) => \A j \in 1 .. k : m[j] = n[j]}
<1>4. ASSUME NEW p \in Nat PROVE 0 .. p \subseteq K
  <2>1. 0 \in K
    OBVIOUS
  <2>2. ASSUME NEW k \in 1 .. p, k - 1 \in K
        PROVE  k \in K
    <3> SUFFICES ASSUME k <= Len(m), k <= Len(n) PROVE \A j \in 1 .. k : m[j] = n[j]
      OBVIOUS
    <3>1. \A j \in 1 .. k - 1 : m[j] = n[j]
      BY <1>1, <2>2
    <3>2. k \in 1 .. Len(m) /\ k \in 1 .. Len(n)
      BY <1>1
    <3>3. PICK j \in 1 .. Len(n) : m[k] = n[j]
      BY <1>3, <3>2
    <3>4. PICK i \in 1 .. Len(m) : n[k] = m[i]
      BY <1>3, <3>2
    <3>5. ~ (j < k)
      <4> SUFFICES ASSUME j < k PROVE FALSE
        OBVIOUS
      <4>1. j \in 1 .. k - 1 /\ j \in 1 .. Len(m)
        BY <3>2
      <4>2. m[j] = m[k] /\ m[j][1] < m[k][1]
        BY <1>2, <3>1, <3>2, <3>3, <4>1
      <4> QED
        BY <1>1, <3>2, <4>2
    <3>6. ~ (i < k)
      <4> SUFFICES ASSUME i < k PROVE FALSE
        OBVIOUS
      <4>1. i \in 1 .. k - 1 /\ i \in 1 .. Len(n)
        BY <3>2
      <4>2. n[i] = n[k] /\ n[i][1] < n[k][1]
        BY <1>2, <3>1, <3>2, <3>4, <4>1
      <4> QED
        BY <1>1, <3>2, <4>2
    <3>7. j = k
      <4> SUFFICES ASSUME j > k PROVE FALSE
        BY <3>2, <3>5
      <4>1. n[k][1] < m[k][1]
        BY <1>2, <3>2, <3>3
      <4>2. m[k][1] <= n[k][1]
        <5>1. i = k \/ k < i
          BY <3>2, <3>6
        <5> QED
          BY <1>1, <1>2, <3>2, <3>4, <5>1
      <4> QED
        BY <1>1, <3>2, <4>1, <4>2
    <3> QED
      BY <3>1, <3>2, <3>3, <3>7
  <2> HIDE DEF K
  <2> QED
    BY <2>1, <2>2, UpTo
<1>5. Len(m) = Len(n)
  <2>1. ASSUME Len(m) < Len(n) PROVE FALSE
    <3>1. Len(m) \in 0 .. Len(m) /\ Len(m) + 1 \in 1 .. Len(n)
      BY <1>1, <2>1
    <3>2. Len(m) \in K
      BY <1>1, <1>4, <3>1
    <3>3. PICK k \in 1 .. Len(m) : n[Len(m) + 1] = m[k]
      BY <1>3, <3>1
    <3>4. m[k] = n[k] /\ k \in 1 .. Len(n) /\ k < Len(m) + 1
      BY <1>1, <2>1, <3>2
    <3> QED
      BY <1>1, <1>2, <3>1, <3>3, <3>4
  <2>2. ASSUME Len(n) < Len(m) PROVE FALSE
    <3>1. Len(n) \in 0 .. Len(n) /\ Len(n) + 1 \in 1 .. Len(m)
      BY <1>1, <2>2
    <3>2. Len(n) \in K
      BY <1>1, <1>4, <3>1
    <3>3. PICK k \in 1 .. Len(n) : m[Len(n) + 1] = n[k]
      BY <1>3, <3>1
    <3>4. m[k] = n[k] /\ k \in 1 .. Len(m) /\ k < Len(n) + 1
      BY <1>1, <2>2, <3>2
    <3> QED
      BY <1>1, <1>2, <3>1, <3>3, <3>4
  <2> QED
    BY <1>1, <2>1, <2>2
<1>6. Len(m) \in K
  <2>1. Len(m) \in 0 .. Len(m)
    BY <1>1
  <2> HIDE DEF K
  <2> QED
    BY <1>1, <1>4, <2>1
<1> QED
  <2>1. \A j \in 1 .. Len(m) : m[j] = n[j]
    BY <1>1, <1>5, <1>6
  <2> QED
    BY <1>1, <1>5, <2>1, SeqEqual

(* Two lists apart that cover the same are the same.                       *)
LEMMA ApartUnique ==
    ASSUME NEW m, NEW n, Apart(m), Apart(n),
           \A t \in Nat : Covers(Range(m), t) <=> Covers(Range(n), t)
    PROVE  m = n
<1>1. /\ m \in Seq(Interval) /\ Len(m) \in Nat /\ n \in Seq(Interval) /\ Len(n) \in Nat
      /\ \A j \in 1 .. Len(m) : m[j] \in Interval /\ m[j][1] < m[j][2]
      /\ \A j \in 1 .. Len(n) : n[j] \in Interval /\ n[j][1] < n[j][2]
  BY DEF Apart
<1>2. \A x \in Interval : x[1] \in Nat /\ x[2] \in Nat
  BY DEF Interval
<1>3. \A t \in Int : Covers(Range(m), t) <=> Covers(Range(n), t)
  <2>1. \A t \in Int : Covers(Range(m), t) => t \in Nat
    BY <1>1, <1>2, CoversAt
  <2>2. \A t \in Int : Covers(Range(n), t) => t \in Nat
    BY <1>1, <1>2, CoversAt
  <2> QED
    BY <2>1, <2>2
<1>4. \A r \in Interval : r[1] < r[2] => (r \in Range(m) <=> r \in Range(n))
  <2> SUFFICES ASSUME NEW r \in Interval, r[1] < r[2] PROVE r \in Range(m) <=> r \in Range(n)
    OBVIOUS
  <2>1. r[1] - 1 \in Int /\ r[2] \in Int /\ \A t \in r[1] .. r[2] - 1 : t \in Int
    BY <1>2
  <2> QED
    BY <1>3, <2>1, RunsAre
<1>5. Range(m) = Range(n)
  <2>1. \A x \in Range(m) : x \in Interval /\ x[1] < x[2]
    BY <1>1 DEF Range
  <2>2. \A x \in Range(n) : x \in Interval /\ x[1] < x[2]
    BY <1>1 DEF Range
  <2> QED
    BY <1>4, <2>1, <2>2
<1> QED
  BY <1>1, <1>5, OrderedUnique

(* The images of finitely many are finitely many.                          *)
LEMMA ImageFinite ==
    ASSUME NEW f, IsFiniteSet(DOMAIN f)
    PROVE  IsFiniteSet({f[x] : x \in DOMAIN f})
<1> DEFINE T == {f[x] : x \in DOMAIN f}
           g == [x \in DOMAIN f |-> f[x]]
<1>1. g \in Surjection(DOMAIN f, T)
  BY DEF Surjection
<1> QED
  BY <1>1, FS_Surjection

(* Finite sets of intervals.                                               *)
Pieces == {S \in SUBSET Interval : IsFiniteSet(S)}

(* No interval, or one from a to b.                                        *)
LEMMA FewPieces ==
    /\ {} \in Pieces /\ \A t : ~ Covers({}, t)
    /\ \A a, b \in Nat : {<<a, b>>} \in Pieces /\ \A t : Covers({<<a, b>>}, t) <=> a <= t /\ t < b
<1>1. {} \in Pieces /\ \A t : ~ Covers({}, t)
  BY FS_EmptySet DEF Pieces, Covers
<1>2. ASSUME NEW a \in Nat, NEW b \in Nat
      PROVE  {<<a, b>>} \in Pieces /\ \A t : Covers({<<a, b>>}, t) <=> a <= t /\ t < b
  <2>1. <<a, b>> \in Interval /\ <<a, b>>[1] = a /\ <<a, b>>[2] = b
    BY DEF Interval
  <2>2. IsFiniteSet({<<a, b>>})
    BY FS_Singleton
  <2>3. {<<a, b>>} \in Pieces
    BY <2>1, <2>2 DEF Pieces
  <2>4. \A t : Covers({<<a, b>>}, t) <=> <<a, b>>[1] <= t /\ t < <<a, b>>[2]
    BY DEF Covers
  <2> QED
    BY <2>1, <2>3, <2>4
<1> QED
  BY <1>1, <1>2

(* The pieces of both.                                                     *)
LEMMA BothPieces ==
    ASSUME NEW S \in Pieces, NEW T \in Pieces
    PROVE  S \cup T \in Pieces /\ \A t : Covers(S \cup T, t) <=> Covers(S, t) \/ Covers(T, t)
BY FS_Union DEF Pieces, Covers

(* What a hole leaves of a piece: finitely many, what it does not cover.   *)
LEMMA CutIs ==
    ASSUME NEW p \in Interval, NEW h \in Interval, h[1] < h[2]
    PROVE  /\ cut(p, h) \in Pieces
           /\ \A t \in Nat : Covers(cut(p, h), t) <=>
                               (p[1] <= t /\ t < p[2]) /\ ~ (h[1] <= t /\ t < h[2])
<1>1. p[1] \in Nat /\ p[2] \in Nat /\ h[1] \in Nat /\ h[2] \in Nat /\ p = <<p[1], p[2]>>
  BY DEF Interval
<1> DEFINE left  == IF h[1] > p[1] THEN {<<p[1], h[1]>>} ELSE {}
           right == IF h[2] < p[2] THEN {<<h[2], p[2]>>} ELSE {}
<1>2. cut(p, h) = IF h[2] <= p[1] \/ h[1] >= p[2] THEN {p} ELSE left \cup right
  BY DEF cut
<1>3. left \in Pieces /\ \A t : Covers(left, t) <=> h[1] > p[1] /\ p[1] <= t /\ t < h[1]
  <2>1. CASE h[1] > p[1]
    BY <1>1, <2>1, FewPieces
  <2>2. CASE ~ (h[1] > p[1])
    BY <2>2, FewPieces
  <2> QED
    BY <2>1, <2>2
<1>4. right \in Pieces /\ \A t : Covers(right, t) <=> h[2] < p[2] /\ h[2] <= t /\ t < p[2]
  <2>1. CASE h[2] < p[2]
    BY <1>1, <2>1, FewPieces
  <2>2. CASE ~ (h[2] < p[2])
    BY <2>2, FewPieces
  <2> QED
    BY <2>1, <2>2
<1>5. {p} \in Pieces /\ \A t : Covers({p}, t) <=> p[1] <= t /\ t < p[2]
  BY <1>1, FewPieces
<1> HIDE DEF left, right
<1>6. CASE h[2] <= p[1] \/ h[1] >= p[2]
  BY <1>1, <1>2, <1>5, <1>6
<1>7. CASE ~ (h[2] <= p[1] \/ h[1] >= p[2])
  <2>1. cut(p, h) = left \cup right
    BY <1>2, <1>7
  <2>2. cut(p, h) \in Pieces /\ \A t : Covers(cut(p, h), t) <=> Covers(left, t) \/ Covers(right, t)
    BY <1>3, <1>4, <2>1, BothPieces
  <2> QED
    BY <1>1, <1>3, <1>4, <1>7, <2>2
<1> QED
  BY <1>6, <1>7

(* A hole takes what it covers out of every piece, and nothing else.       *)
LEMMA PunchIs ==
    ASSUME NEW S \in Pieces, NEW h \in Interval, h[1] < h[2]
    PROVE  /\ Punch(S, h) \in Pieces
           /\ \A t \in Nat : Covers(Punch(S, h), t) <=> Covers(S, t) /\ ~ (h[1] <= t /\ t < h[2])
<1> DEFINE f == [p \in S |-> cut(p, h)]
<1>1. /\ S \in SUBSET Interval /\ IsFiniteSet(S)
      /\ \A p \in S : p \in Interval /\ cut(p, h) \subseteq Interval /\ IsFiniteSet(cut(p, h))
  <2>1. S \in SUBSET Interval /\ IsFiniteSet(S)
    BY DEF Pieces
  <2>2. \A p \in S : cut(p, h) \in Pieces
    BY <2>1, CutIs
  <2> QED
    BY <2>1, <2>2 DEF Pieces
<1>2. Punch(S, h) = UNION {cut(p, h) : p \in S}
  BY DEF Punch
<1>3. IsFiniteSet({cut(p, h) : p \in S})
  <2>1. DOMAIN f = S /\ {f[x] : x \in DOMAIN f} = {cut(p, h) : p \in S}
    OBVIOUS
  <2> HIDE DEF f
  <2> QED
    BY <1>1, <2>1, ImageFinite
<1>4. IsFiniteSet(UNION {cut(p, h) : p \in S})
  <2>1. \A T \in {cut(p, h) : p \in S} : IsFiniteSet(T)
    BY <1>1
  <2> QED
    BY <1>3, <2>1, FS_UNION
<1>5. \A t \in Nat : Covers(Punch(S, h), t) <=> \E p \in S : Covers(cut(p, h), t)
  BY <1>2 DEF Covers
<1>6. \A t \in Nat : \A p \in S : Covers(cut(p, h), t) <=>
                               (p[1] <= t /\ t < p[2]) /\ ~ (h[1] <= t /\ t < h[2])
  BY <1>1, CutIs
<1>7. \A t \in Nat : Covers(Punch(S, h), t) <=> Covers(S, t) /\ ~ (h[1] <= t /\ t < h[2])
  BY <1>5, <1>6 DEF Covers
<1> QED
  BY <1>1, <1>2, <1>4, <1>7 DEF Pieces

(* A fold of Punch is its steps.                                           *)
LEMMA PunchSteps ==
    ASSUME NEW base \in Pieces, NEW s \in Seq(Interval), \A j \in 1 .. Len(s) : s[j][1] < s[j][2]
    PROVE  \E g : /\ g[0] = base /\ FoldLeft(Punch, base, s) = g[Len(s)]
                  /\ \A k \in 1 .. Len(s) : g[k] = Punch(g[k - 1], s[k])
<1> DEFINE n == Len(s)
           Is(f) == f = [x \in SUBSET DOMAIN s |->
                           IF x = {} THEN base ELSE Punch(f[x \ {Max(x)}], s[Max(x)])]
           step == [p \in Pieces \X (1 .. n) |-> Punch(p[1], s[p[2]])]
<1>1. /\ n \in Nat /\ DOMAIN s = 1 .. n
      /\ \A k \in 1 .. n : s[k] \in Interval /\ s[k][1] < s[k][2]
  OBVIOUS
<1>2. \A m \in Pieces, k \in 1 .. n : Punch(m, s[k]) \in Pieces
  BY <1>1, PunchIs
<1>3. step \in [Pieces \X (1 .. n) -> Pieces]
  BY <1>2
<1>4. PICK f : Folds(f, n, Pieces, base, step)
  <2> HIDE DEF step, n
  <2> QED
    BY <1>1, <1>3, FoldExists
<1>5. \E h : Is(h)
  <2>1. /\ f \in [SUBSET (1 .. n) -> Pieces]
        /\ \A x \in SUBSET (1 .. n) :
             f[x] = IF x = {} THEN base ELSE step[<<f[x \ {Max(x)}], Max(x)>>]
    BY <1>4 DEF Folds
  <2>2. ASSUME NEW x \in SUBSET (1 .. n)
        PROVE  f[x] = IF x = {} THEN base ELSE Punch(f[x \ {Max(x)}], s[Max(x)])
    <3>1. CASE x = {}
      BY <2>1, <3>1
    <3>2. CASE x # {}
      <4>1. Max(x) \in 1 .. n /\ x \ {Max(x)} \in SUBSET (1 .. n)
        BY <1>1, <3>2, LastOf
      <4>2. f[x \ {Max(x)}] \in Pieces
        BY <2>1, <4>1
      <4>3. step[<<f[x \ {Max(x)}], Max(x)>>] = Punch(f[x \ {Max(x)}], s[Max(x)])
        BY <4>1, <4>2
      <4> HIDE DEF step
      <4> QED
        BY <2>1, <3>2, <4>3
    <3> QED
      BY <3>1, <3>2
  <2>3. f = [x \in SUBSET (1 .. n) |-> f[x]]
    BY <2>1
  <2>4. Is(f)
    BY <1>1, <2>2, <2>3, Zenon
  <2> QED
    BY <2>4
<1>6. PICK h : Is(h) /\ FoldLeft(Punch, base, s) = h[DOMAIN s]
  BY <1>5 DEF FoldLeft, MapThenFoldSet
<1> DEFINE g == [k \in 0 .. n |-> h[1 .. k]]
<1>7. \A x \in SUBSET (1 .. n) : h[x] = IF x = {} THEN base ELSE Punch(h[x \ {Max(x)}], s[Max(x)])
  BY <1>1, <1>6
<1>8. g[0] = base /\ g[n] = h[DOMAIN s]
  <2>1. 1 .. 0 = {} /\ {} \in SUBSET (1 .. n) /\ 0 \in 0 .. n /\ n \in 0 .. n
    BY <1>1
  <2> QED
    BY <1>1, <1>7, <2>1
<1>9. ASSUME NEW k \in 1 .. n
      PROVE  g[k] = Punch(g[k - 1], s[k])
  <2>1. 1 .. k # {} /\ Max(1 .. k) = k /\ (1 .. k) \ {k} = 1 .. (k - 1)
    BY <1>1, LastOfFirst
  <2>2. 1 .. k \in SUBSET (1 .. n) /\ k \in 0 .. n /\ k - 1 \in 0 .. n
    BY <1>1
  <2> HIDE DEF n
  <2> QED
    BY <1>7, <2>1, <2>2
<1> QED
  BY <1>6, <1>8, <1>9

(* subtract: finitely many, what the holes do not cover.                   *)
LEMMA SubtractIs ==
    ASSUME NEW S \in Pieces, NEW H \in Pieces
    PROVE  /\ subtract(S, H) \in Pieces
           /\ \A t \in Nat : Covers(subtract(S, H), t) <=> Covers(S, t) /\ ~ Covers(H, t)
<1> DEFINE base == Range(union(S))
           s    == union(H)
           n    == Len(s)
<1>1. /\ Apart(union(S)) /\ Apart(s)
      /\ \A t \in Nat : Covers(base, t) <=> Covers(S, t)
      /\ \A t \in Nat : Covers(Range(s), t) <=> Covers(H, t)
  BY UnionIs DEF Pieces
<1>2. union(S) \in Seq(Interval) /\ s \in Seq(Interval) /\ n \in Nat /\ \A j \in 1 .. n : s[j][1] < s[j][2]
  BY <1>1 DEF Apart
<1>3. base \in Pieces
  <2> DEFINE m == union(S)
  <2>1. m \in Seq(Interval) /\ DOMAIN m = 1 .. Len(m) /\ Len(m) \in Nat
    BY <1>2
  <2>2. IsFiniteSet(DOMAIN m)
    BY <2>1, FS_Interval
  <2>3. IsFiniteSet(Range(m))
    BY <2>2, ImageFinite DEF Range
  <2> QED
    BY <2>1, <2>3 DEF Pieces, Range
<1>4. \A t \in Nat : Covers(H, t) <=> \E j \in 1 .. n : s[j][1] <= t /\ t < s[j][2]
  BY <1>1, <1>2, CoversAt
<1>5. \A j \in 1 .. n : s[j] \in Interval
  BY <1>2
<1> HIDE DEF base, s, n
<1>6. PICK g : /\ g[0] = base /\ FoldLeft(Punch, base, s) = g[n]
               /\ \A k \in 1 .. n : g[k] = Punch(g[k - 1], s[k])
  BY <1>2, <1>3, PunchSteps DEF n
<1> DEFINE Good(k) ==
             /\ g[k] \in Pieces
             /\ \A t \in Nat : Covers(g[k], t) <=>
                  Covers(base, t) /\ ~ \E j \in 1 .. k : s[j][1] <= t /\ t < s[j][2]
           K == {k \in 0 .. n : Good(k)}
<1>7. 0 \in K
  <2>1. Good(0)
    BY <1>3, <1>6
  <2> QED
    BY <1>2, <2>1
<1>8. ASSUME NEW k \in 1 .. n, k - 1 \in K
      PROVE  k \in K
  <2>1. /\ g[k - 1] \in Pieces
        /\ \A t \in Nat : Covers(g[k - 1], t) <=>
             Covers(base, t) /\ ~ \E j \in 1 .. k - 1 : s[j][1] <= t /\ t < s[j][2]
    BY <1>8
  <2>2. s[k] \in Interval /\ s[k][1] < s[k][2] /\ g[k] = Punch(g[k - 1], s[k])
    BY <1>2, <1>5, <1>6
  <2>3. /\ g[k] \in Pieces
        /\ \A t \in Nat : Covers(g[k], t) <=> Covers(g[k - 1], t) /\ ~ (s[k][1] <= t /\ t < s[k][2])
    BY <2>1, <2>2, PunchIs
  <2>4. \A j : j \in 1 .. k <=> j = k \/ j \in 1 .. k - 1
    OBVIOUS
  <2>5. Good(k)
    BY <2>1, <2>3, <2>4
  <2> QED
    BY <2>5
<1>9. 0 .. n \subseteq K
  <2> HIDE DEF K
  <2> QED
    BY <1>2, <1>7, <1>8, UpTo
<1>10. Good(n)
  <2> HIDE DEF Good
  <2> QED
    BY <1>2, <1>9
<1>11. subtract(S, H) = g[n]
  BY <1>6 DEF subtract, base, s
<1> QED
  BY <1>1, <1>4, <1>10, <1>11

(* clip: what is in the period.                                            *)
LEMMA ClipIs ==
    ASSUME NEW S \in Pieces, NEW a \in Nat, NEW b \in Nat
    PROVE  /\ clip(S, a, b) \in Pieces
           /\ \A t \in Nat : Covers(clip(S, a, b), t) <=> Covers(S, t) /\ a <= t /\ t < b
<1> DEFINE T == {j \in S : j[2] > a /\ j[1] < b}
           f == [i \in T |-> <<Max({i[1], a}), Min({i[2], b})>>]
<1>1. S \in SUBSET Interval /\ IsFiniteSet(S) /\ \A i \in S : i[1] \in Nat /\ i[2] \in Nat
  BY DEF Pieces, Interval
<1>2. \A i \in S : /\ Max({i[1], a}) \in Nat /\ Min({i[2], b}) \in Nat
                   /\ \A t \in Nat : Max({i[1], a}) <= t <=> i[1] <= t /\ a <= t
                   /\ \A t \in Nat : t < Min({i[2], b}) <=> t < i[2] /\ t < b
  <2> SUFFICES ASSUME NEW i \in S
               PROVE  /\ Max({i[1], a}) \in Nat /\ Min({i[2], b}) \in Nat
                      /\ \A t \in Nat : Max({i[1], a}) <= t <=> i[1] <= t /\ a <= t
                      /\ \A t \in Nat : t < Min({i[2], b}) <=> t < i[2] /\ t < b
    OBVIOUS
  <2>1. i[1] \in Nat /\ i[2] \in Nat
    BY <1>1
  <2>2. Max({i[1], a}) \in {i[1], a} /\ Max({i[1], a}) >= i[1] /\ Max({i[1], a}) >= a
    BY <2>1, OfTwo
  <2>3. Min({i[2], b}) \in {i[2], b} /\ Min({i[2], b}) <= i[2] /\ Min({i[2], b}) <= b
    BY <2>1, OfTwo
  <2> QED
    BY <2>1, <2>2, <2>3
<1>3. clip(S, a, b) = {f[x] : x \in DOMAIN f} /\ DOMAIN f = T
  BY DEF clip
<1>4. IsFiniteSet(T)
  BY <1>1, FS_Subset
<1>5. IsFiniteSet(clip(S, a, b))
  <2> HIDE DEF f
  <2> QED
    BY <1>3, <1>4, ImageFinite
<1>6. clip(S, a, b) \subseteq Interval
  <2>1. \A i \in T : i \in S /\ f[i] = <<Max({i[1], a}), Min({i[2], b})>>
    OBVIOUS
  <2>2. \A x, y \in Nat : <<x, y>> \in Interval
    BY DEF Interval
  <2>3. \A i \in S : <<Max({i[1], a}), Min({i[2], b})>> \in Interval
    BY <1>2, <2>2, Zenon
  <2> HIDE DEF f, T
  <2>4. \A i \in T : f[i] \in Interval
    BY <2>1, <2>3
  <2> QED
    BY <1>3, <2>4
<1>7. ASSUME NEW t \in Nat
      PROVE  Covers(clip(S, a, b), t) <=> Covers(S, t) /\ a <= t /\ t < b
  <2>1. Covers(clip(S, a, b), t) <=>
          \E i \in T : Max({i[1], a}) <= t /\ t < Min({i[2], b})
    <3>1. \A i \in T : f[i][1] = Max({i[1], a}) /\ f[i][2] = Min({i[2], b})
      OBVIOUS
    <3>2. Covers(clip(S, a, b), t) <=> \E i \in T : f[i][1] <= t /\ t < f[i][2]
      <4> HIDE DEF f, T
      <4> QED
        BY <1>3 DEF Covers
    <3> HIDE DEF f, T
    <3> QED
      BY <3>1, <3>2
  <2>2. \A i \in S : i[1] <= t /\ t < i[2] /\ a <= t /\ t < b => i \in T
    BY <1>1
  <2>3. \A i \in T : i \in S
    OBVIOUS
  <2> HIDE DEF T
  <2> QED
    BY <1>2, <2>1, <2>2, <2>3 DEF Covers
<1> QED
  BY <1>5, <1>6, <1>7 DEF Pieces
-----------------------------------------------------------------------------
(* What a window of the reported site may cover.                           *)
ReportTargets == ReportDevices \cup {WholeSite}

ReportRow == [site : {ReportSite}, device : ReportTargets, starts : Nat, ends : Nat, ended : SUBSET Nat]

Incident == [device : ReportDevices, down : Nat, up : SUBSET Nat]

Change == [from : {"critical", "ok"}, to : {"critical", "ok"}, at : Nat]

First == [level : {"critical", "ok"}, seen : Nat]

(* The types of the rows a report reads.                                   *)
ReportType ==
    /\ clock \in Nat /\ window \in Seq(ReportRow)
    /\ incident \in Seq(Incident) /\ keptI \subseteq DOMAIN incident
    /\ change \in Seq(Change) /\ keptC \subseteq DOMAIN change
    /\ first \subseteq First

(* An incident retention deleted was over before what a report may ask for. *)
IncidentsKept ==
    \A i \in DOMAIN incident \ keptI :
        Retention > 0 /\ \E u \in incident[i].up : u < clock - Retention

ReportInv == ReportType /\ RowsInTime /\ IncidentsKept

(* The windows are planned for the site and ended in time.                 *)
LEMMA PlansKeeps ==
    ASSUME ReportType, RowsInTime, NEW device \in ReportTargets, NEW starts \in Starts, NEW ends \in Ends,
           Plans(device, starts, ends)
    PROVE  window' \in Seq(ReportRow) /\ RowsInTime'
<1> DEFINE w == NewWindow(ReportSite, device, starts, ends)
<1>1. window \in Seq(ReportRow) /\ window' = Append(window, w) /\ ends > starts
  BY DEF Plans, Plannable, ReportType
<1>2. starts \in Nat /\ ends \in Nat
  BY WindowAssumption
<1>3. /\ w = [site |-> ReportSite, device |-> device, starts |-> starts, ends |-> ends, ended |-> {}]
      /\ w.starts = starts /\ w.ends = ends /\ w.ended = {}
  BY DEF NewWindow
<1>4. w \in ReportRow
  BY <1>2, <1>3 DEF ReportRow
<1>5. EndsInTime(w)
  BY <1>1, <1>2, <1>3 DEF EndsInTime
<1> HIDE DEF w
<1>6. /\ window' \in Seq(ReportRow) /\ Len(window) \in Nat /\ DOMAIN window = 1 .. Len(window)
      /\ DOMAIN window' = 1 .. Len(window) + 1
      /\ \A i \in 1 .. Len(window) : window'[i] = window[i]
      /\ window'[Len(window) + 1] = w
  BY <1>1, <1>4, AppendProperties
<1>7. \A i \in DOMAIN window' : EndsInTime(window'[i])
  <2>1. \A i \in 1 .. Len(window) + 1 : i \in 1 .. Len(window) \/ i = Len(window) + 1
    BY <1>6
  <2> QED
    BY <1>5, <1>6, <2>1 DEF RowsInTime, Windows
<1> QED
  BY <1>6, <1>7 DEF RowsInTime, Windows, EndsInTime

(* A window is ended while it runs or before it starts.                    *)
LEMMA EndsWindowKeeps ==
    ASSUME ReportType, RowsInTime, NEW i \in Windows, EndsWindow(i)
    PROVE  window' \in Seq(ReportRow) /\ RowsInTime'
<1>1. /\ window \in Seq(ReportRow) /\ clock \in Nat /\ i \in DOMAIN window
      /\ window' = [window EXCEPT ![i].ended = {clock}]
  BY DEF EndsWindow, ReportType, Windows
<1> DEFINE w == [window[i] EXCEPT !.ended = {clock}]
<1>2. window[i] \in ReportRow /\ DOMAIN window = 1 .. Len(window) /\ Len(window) \in Nat
  BY <1>1
<1>3. w \in ReportRow /\ w.starts = window[i].starts /\ w.ends = window[i].ends /\ w.ended = {clock}
  BY <1>1, <1>2 DEF ReportRow
<1>4. clock < window[i].ends
  <2>1. /\ window[i].starts \in Nat /\ window[i].ends \in Nat
        /\ \A e \in window[i].ended : e \in Nat
    BY <1>2 DEF ReportRow
  <2>2. window[i].starts < window[i].ends
    BY DEF RowsInTime, EndsInTime
  <2>3. state(window[i], clock) \in {"active", "upcoming"}
    BY DEF EndsWindow
  <2>4. window[i].ended = {}
    <3> SUFFICES ASSUME NEW e \in window[i].ended PROVE FALSE
      OBVIOUS
    <3>1. e < window[i].starts \/ e >= window[i].starts
      BY <2>1
    <3> QED
      BY <2>3, <3>1 DEF state
  <2>5. clock < window[i].starts \/ clock < window[i].ends
    <3> SUFFICES ASSUME ~ (clock < window[i].starts), ~ (clock < window[i].ends) PROVE FALSE
      OBVIOUS
    <3>1. state(window[i], clock) = "ended"
      BY <2>4 DEF state
    <3> QED
      BY <2>3, <3>1
  <2> QED
    BY <1>1, <2>1, <2>2, <2>5
<1>5. window' = [j \in DOMAIN window |-> IF j = i THEN w ELSE window[j]]
  BY <1>1
<1> HIDE DEF w
<1>6. \A j \in DOMAIN window : window[j] \in ReportRow
  BY <1>1
<1>7. window' \in [1 .. Len(window) -> ReportRow]
  BY <1>2, <1>3, <1>5, <1>6
<1>8. window' \in Seq(ReportRow)
  BY <1>2, <1>7, IsASeq
<1>9. \A j \in DOMAIN window : EndsInTime(window'[j])
  BY <1>3, <1>4, <1>5 DEF RowsInTime, EndsInTime, Windows
<1> QED
  BY <1>5, <1>8, <1>9 DEF RowsInTime, Windows, EndsInTime

(* A batch is of the rows due.                                             *)
LEMMA BatchOf ==
    ASSUME NEW old, NEW rows \in Batches(old)
    PROVE  rows \subseteq old
BY DEF Batches

(* A new incident is kept; those there are stay as they are.               *)
LEMMA OpensKeeps ==
    ASSUME ReportType, IncidentsKept, NEW d \in ReportDevices, NEW since \in Nat, Opens(d, since)
    PROVE  /\ incident' \in Seq(Incident) /\ keptI' \subseteq DOMAIN incident'
           /\ IncidentsKept'
<1> DEFINE new == [device |-> d, down |-> since, up |-> {}]
<1>1. /\ incident \in Seq(Incident) /\ keptI \subseteq DOMAIN incident
      /\ incident' = Append(incident, new) /\ keptI' = keptI \cup {Len(incident) + 1} /\ clock' = clock
  BY DEF Opens, ReportType
<1>2. new \in Incident
  BY DEF Incident
<1> HIDE DEF new
<1>3. /\ incident' \in Seq(Incident) /\ Len(incident) \in Nat /\ DOMAIN incident = 1 .. Len(incident)
      /\ DOMAIN incident' = 1 .. Len(incident) + 1
      /\ \A i \in 1 .. Len(incident) : incident'[i] = incident[i]
  BY <1>1, <1>2, AppendProperties
<1>4. keptI' \subseteq DOMAIN incident'
  BY <1>1, <1>3
<1>5. \A i \in DOMAIN incident' \ keptI' : i \in DOMAIN incident \ keptI /\ incident'[i] = incident[i]
  BY <1>1, <1>3
<1> QED
  BY <1>1, <1>3, <1>4, <1>5 DEF IncidentsKept

(* An incident is over now, not in the time retention has left behind.     *)
LEMMA ResolvesKeeps ==
    ASSUME ReportType, IncidentsKept, NEW i \in DOMAIN incident, Resolves(i)
    PROVE  /\ incident' \in Seq(Incident) /\ keptI' \subseteq DOMAIN incident'
           /\ IncidentsKept'
<1>1. /\ incident \in Seq(Incident) /\ keptI \subseteq DOMAIN incident /\ clock \in Nat
      /\ incident' = [incident EXCEPT ![i].up = {clock}] /\ incident[i].up = {}
      /\ keptI' = keptI /\ clock' = clock
  BY DEF Resolves, ReportType
<1> DEFINE new == [incident[i] EXCEPT !.up = {clock}]
<1>2. incident[i] \in Incident /\ DOMAIN incident = 1 .. Len(incident) /\ Len(incident) \in Nat
  BY <1>1
<1>3. new \in Incident
  BY <1>1, <1>2 DEF Incident
<1>4. incident' = [j \in DOMAIN incident |-> IF j = i THEN new ELSE incident[j]]
  BY <1>1
<1> HIDE DEF new
<1>5. \A j \in DOMAIN incident : incident[j] \in Incident
  BY <1>1
<1>6. incident' \in [1 .. Len(incident) -> Incident]
  BY <1>2, <1>3, <1>4, <1>5
<1>7. incident' \in Seq(Incident)
  BY <1>2, <1>6, IsASeq
<1>8. \A j \in DOMAIN incident \ keptI : incident'[j] = incident[j]
  <2>1. i \in keptI
    BY <1>1 DEF IncidentsKept
  <2> QED
    BY <1>4, <2>1
<1> QED
  BY <1>1, <1>4, <1>7, <1>8 DEF IncidentsKept

(* Retention takes incidents resolved before the history it keeps.         *)
LEMMA PruneIncidentsKeeps ==
    ASSUME ReportType, IncidentsKept, PruneIncidents
    PROVE  keptI' \subseteq DOMAIN incident' /\ IncidentsKept'
<1>1. PICK rows \in Batches(OldIncidents) : keptI' = keptI \ rows
  BY DEF PruneIncidents
<1>2. rows \subseteq OldIncidents
  BY <1>1, BatchOf
<1>3. \A i \in rows : \E u \in incident[i].up : u < clock - Retention
  BY <1>2 DEF OldIncidents
<1>4. incident' = incident /\ clock' = clock /\ Retention > 0
  BY DEF PruneIncidents
<1> QED
  BY <1>1, <1>3, <1>4 DEF IncidentsKept, ReportType

(* A change is added to the log and becomes the site's level.              *)
LEMMA LevelChangesKeeps ==
    ASSUME ReportType, NEW level \in {"critical", "ok"}, LevelChanges(level)
    PROVE  /\ change' \in Seq(Change) /\ keptC' \subseteq DOMAIN change'
           /\ first' \subseteq First
           /\ DOMAIN change' = 1 .. Len(change) + 1 /\ Len(change') = Len(change) + 1
           /\ \A i \in 1 .. Len(change) : change'[i] = change[i]
           /\ keptC' = keptC \cup {Len(change) + 1}
           /\ \E f \in first :
                /\ first' = {[f EXCEPT !.level = level]}
                /\ change'[Len(change) + 1] = [from |-> f.level, to |-> level, at |-> clock]
<1>1. PICK f \in first :
        /\ first' = {[f EXCEPT !.level = level]}
        /\ change' = Append(change, [from |-> f.level, to |-> level, at |-> clock])
        /\ keptC' = keptC \cup {Len(change) + 1}
  BY DEF LevelChanges
<1> DEFINE new == [from |-> f.level, to |-> level, at |-> clock]
<1>2. f \in First /\ clock \in Nat /\ change \in Seq(Change) /\ keptC \subseteq DOMAIN change
  BY DEF ReportType
<1>3. new \in Change /\ [f EXCEPT !.level = level] \in First
  BY <1>2 DEF First, Change
<1>4. change' = Append(change, new)
  BY <1>1
<1>5. first' \subseteq First
  BY <1>1, <1>3
<1> HIDE DEF new
<1>7. /\ change' \in Seq(Change) /\ Len(change) \in Nat /\ DOMAIN change = 1 .. Len(change)
      /\ DOMAIN change' = 1 .. Len(change) + 1 /\ Len(change') = Len(change) + 1
      /\ \A i \in 1 .. Len(change) : change'[i] = change[i]
      /\ change'[Len(change) + 1] = new
  BY <1>2, <1>3, <1>4, AppendProperties
<1>8. keptC' \subseteq DOMAIN change'
  BY <1>1, <1>2, <1>7
<1> QED
  BY <1>1, <1>5, <1>7, <1>8 DEF new

(* A site's first level.                                                   *)
LEMMA FirstLevelKeeps ==
    ASSUME ReportType, NEW level \in {"critical", "ok"}, FirstLevel(level)
    PROVE  first' \subseteq First
BY DEF FirstLevel, ReportType, First

(* Retention takes rows from the log.                                      *)
LEMMA PruneChangesKeeps ==
    ASSUME ReportType, PruneChanges
    PROVE  keptC' \subseteq DOMAIN change'
BY DEF PruneChanges, ReportType

(* Every step keeps the rows as they should be.                            *)
LEMMA ReportStep ==
    ASSUME ReportInv, [ReportNext]_reportVars
    PROVE  ReportInv'
<1>1. /\ ReportType /\ RowsInTime /\ IncidentsKept
      /\ clock \in Nat /\ window \in Seq(ReportRow)
      /\ incident \in Seq(Incident) /\ keptI \subseteq DOMAIN incident
      /\ change \in Seq(Change) /\ keptC \subseteq DOMAIN change
      /\ first \subseteq First
  BY DEF ReportInv, ReportType
<1>2. ASSUME UNCHANGED <<window, clock>> PROVE RowsInTime' /\ window' \in Seq(ReportRow)
  BY <1>1, <1>2 DEF RowsInTime, Windows, EndsInTime
<1>3. ASSUME UNCHANGED <<clock, incident, keptI>> PROVE IncidentsKept'
  BY <1>1, <1>3 DEF IncidentsKept
<1>4. CASE ReportTick
  <2>1. clock' = clock + 1 /\ UNCHANGED <<window, incident, change, first, keptI, keptC>>
    BY <1>4 DEF ReportTick
  <2>2. RowsInTime'
    BY <1>1, <2>1 DEF RowsInTime, Windows, EndsInTime
  <2>3. IncidentsKept'
    <3>1. Retention \in Nat
      BY ReportAssumption
    <3>2. \A i \in DOMAIN incident : \A u \in incident[i].up : u \in Nat
      <4>1. \A i \in DOMAIN incident : incident[i] \in Incident
        BY <1>1
      <4> QED
        BY <4>1 DEF Incident
    <3>3. \A u \in Nat : u < clock - Retention => u < clock' - Retention
      BY <1>1, <2>1, <3>1
    <3>4. \A i \in DOMAIN incident \ keptI :
            Retention > 0 /\ \E u \in incident[i].up : u < clock' - Retention
      BY <1>1, <3>2, <3>3 DEF IncidentsKept
    <3> QED
      BY <2>1, <3>4, Zenon DEF IncidentsKept
  <2> QED
    BY <1>1, <2>1, <2>2, <2>3 DEF ReportInv, ReportType
<1>5. ASSUME NEW d \in ReportDevices, NEW since \in clock - 1 .. clock, since >= 0, Opens(d, since)
      PROVE  ReportInv'
  <2>1. since \in Nat
    BY <1>1, <1>5
  <2>2. incident' \in Seq(Incident) /\ keptI' \subseteq DOMAIN incident' /\ IncidentsKept'
    BY <1>1, <1>5, <2>1, OpensKeeps
  <2>3. UNCHANGED <<window, clock, change, first, keptC>>
    BY <1>5 DEF Opens
  <2> QED
    BY <1>1, <1>2, <2>2, <2>3 DEF ReportInv, ReportType
<1>6. ASSUME NEW i \in DOMAIN incident, Resolves(i)
      PROVE  ReportInv'
  <2>1. incident' \in Seq(Incident) /\ keptI' \subseteq DOMAIN incident' /\ IncidentsKept'
    BY <1>1, <1>6, ResolvesKeeps
  <2>2. UNCHANGED <<window, clock, change, first, keptC>>
    BY <1>6 DEF Resolves
  <2> QED
    BY <1>1, <1>2, <2>1, <2>2 DEF ReportInv, ReportType
<1>7. ASSUME NEW level \in {"critical", "ok"}, FirstLevel(level)
      PROVE  ReportInv'
  <2>1. UNCHANGED <<window, clock, incident, change, keptI, keptC>>
    BY <1>7 DEF FirstLevel
  <2> QED
    BY <1>1, <1>2, <1>3, <1>7, <2>1, FirstLevelKeeps DEF ReportInv, ReportType
<1>8. ASSUME NEW level \in {"critical", "ok"}, LevelChanges(level)
      PROVE  ReportInv'
  <2>1. UNCHANGED <<window, clock, incident, keptI>>
    BY <1>8 DEF LevelChanges
  <2>2. /\ change' \in Seq(Change) /\ keptC' \subseteq DOMAIN change'
        /\ first' \subseteq First
    BY <1>1, <1>8, LevelChangesKeeps
  <2> QED
    BY <1>1, <1>2, <1>3, <2>1, <2>2 DEF ReportInv, ReportType
<1>9. ASSUME NEW device \in ReportTargets, NEW starts \in Starts, NEW ends \in Ends,
             Plans(device, starts, ends)
      PROVE  ReportInv'
  <2>1. UNCHANGED <<clock, incident, change, first, keptI, keptC>>
    BY <1>9 DEF Plans
  <2> QED
    BY <1>1, <1>3, <1>9, <2>1, PlansKeeps DEF ReportInv, ReportType
<1>10. ASSUME NEW i \in Windows, EndsWindow(i)
       PROVE  ReportInv'
  <2>1. UNCHANGED <<clock, incident, change, first, keptI, keptC>>
    BY <1>10 DEF EndsWindow
  <2> QED
    BY <1>1, <1>3, <1>10, <2>1, EndsWindowKeeps DEF ReportInv, ReportType
<1>11. CASE PruneIncidents
  <2>1. UNCHANGED <<window, clock, incident, change, first, keptC>>
    BY <1>11 DEF PruneIncidents
  <2> QED
    BY <1>1, <1>2, <1>11, <2>1, PruneIncidentsKeeps DEF ReportInv, ReportType
<1>12. CASE PruneChanges
  <2>1. UNCHANGED <<window, clock, incident, change, first, keptI>>
    BY <1>12 DEF PruneChanges
  <2> QED
    BY <1>1, <1>2, <1>3, <1>12, <2>1, PruneChangesKeeps DEF ReportInv, ReportType
<1>13. CASE UNCHANGED reportVars
  <2>1. UNCHANGED <<window, clock, incident, change, first, keptI, keptC>>
    BY <1>13 DEF reportVars
  <2> QED
    BY <1>1, <1>2, <1>3, <2>1 DEF ReportInv, ReportType
<1> QED
  BY <1>4, <1>5, <1>6, <1>7, <1>8, <1>9, <1>10, <1>11, <1>12, <1>13 DEF ReportNext, ReportTargets

(* The rows a report reads are of their types, windows end once and in
   time, and no incident is missing that was open in the history kept. *)
LEMMA ReportInvariant == ReportSpec => []ReportInv
<1>1. ReportInit => ReportInv
  BY ReportAssumption DEF ReportInit, ReportInv, ReportType, RowsInTime, IncidentsKept, Windows
<1>2. ReportInv /\ [ReportNext]_reportVars => ReportInv'
  BY ReportStep
<1> QED
  BY <1>1, <1>2, PTL DEF ReportSpec
-----------------------------------------------------------------------------
(* Finitely many intervals, or finitely many sets of them.                 *)
LEMMA ImagePieces ==
    ASSUME NEW f, IsFiniteSet(DOMAIN f), \A x \in DOMAIN f : f[x] \in Interval
    PROVE  LET S == {f[x] : x \in DOMAIN f} IN
           S \in Pieces /\ \A t : Covers(S, t) <=> \E x \in DOMAIN f : f[x][1] <= t /\ t < f[x][2]
<1> DEFINE S == {f[x] : x \in DOMAIN f}
<1>1. S \in Pieces
  BY ImageFinite DEF Pieces
<1>2. \A t : Covers(S, t) <=> \E x \in DOMAIN f : f[x][1] <= t /\ t < f[x][2]
  BY DEF Covers
<1> QED
  BY <1>1, <1>2

(* The intervals of finitely many finite sets of them.                     *)
LEMMA UnionPieces ==
    ASSUME NEW f, IsFiniteSet(DOMAIN f), \A x \in DOMAIN f : f[x] \in Pieces
    PROVE  LET S == UNION {f[x] : x \in DOMAIN f} IN
           S \in Pieces /\ \A t : Covers(S, t) <=> \E x \in DOMAIN f : Covers(f[x], t)
<1> DEFINE S == UNION {f[x] : x \in DOMAIN f}
<1>1. IsFiniteSet(S)
  <2>1. \A T \in {f[x] : x \in DOMAIN f} : IsFiniteSet(T)
    BY DEF Pieces
  <2> QED
    BY <2>1, ImageFinite, FS_UNION
<1>2. S \in Pieces
  BY <1>1 DEF Pieces
<1>3. \A t : Covers(S, t) <=> \E x \in DOMAIN f : Covers(f[x], t)
  BY DEF Covers
<1> QED
  BY <1>2, <1>3

(* There are finitely many rows.                                           *)
LEMMA FewRows ==
    ASSUME ReportType
    PROVE  IsFiniteSet(Windows) /\ IsFiniteSet(DOMAIN incident) /\ IsFiniteSet(DOMAIN change)
<1>1. /\ Windows = 1 .. Len(window) /\ Len(window) \in Nat
      /\ DOMAIN incident = 1 .. Len(incident) /\ Len(incident) \in Nat
      /\ DOMAIN change = 1 .. Len(change) /\ Len(change) \in Nat
  BY DEF ReportType, Windows
<1> QED
  BY <1>1, FS_Interval

(* When a window ran, or will.                                             *)
LEMMA WindowSpanIs ==
    ASSUME ReportType, NEW i \in Windows
    PROVE  /\ WindowSpan(window[i]) \in Interval
           /\ WindowSpan(window[i])[1] = window[i].starts
           /\ WindowSpan(window[i])[2] = Min({window[i].ends} \cup window[i].ended)
           /\ window[i].starts \in Nat /\ window[i].ends \in Nat /\ window[i].ended \subseteq Nat
           /\ Min({window[i].ends} \cup window[i].ended) \in {window[i].ends} \cup window[i].ended
           /\ \A t \in Nat : t < Min({window[i].ends} \cup window[i].ended) <=>
                t < window[i].ends /\ \A e \in window[i].ended : t < e
<1> DEFINE w == window[i]
           ends == {w.ends} \cup w.ended
<1>1. w \in ReportRow
  BY DEF ReportType, Windows
<1>2. w.starts \in Nat /\ w.ends \in Nat /\ w.ended \subseteq Nat
  BY <1>1 DEF ReportRow
<1>3. ends \in SUBSET Nat /\ ends # {}
  BY <1>2
<1>4. Min(ends) \in ends /\ \A n \in ends : Min(ends) <= n
  <2> HIDE DEF ends
  <2> QED
    BY <1>3, MinIsChosen
<1>5. Min(ends) \in Nat /\ \A n \in ends : n \in Nat
  BY <1>3, <1>4
<1>6. \A t \in Nat : t < Min(ends) <=> \A n \in ends : t < n
  <2> HIDE DEF ends
  <2> QED
    BY <1>4, <1>5
<1>7. WindowSpan(w) = <<w.starts, Min(ends)>>
  BY DEF WindowSpan
<1>8. \A t : (\A n \in ends : t < n) <=> t < w.ends /\ \A e \in w.ended : t < e
  OBVIOUS
<1>9. WindowSpan(w) \in Interval /\ WindowSpan(w)[1] = w.starts /\ WindowSpan(w)[2] = Min(ends)
  <2> HIDE DEF ends
  <2> QED
    BY <1>2, <1>5, <1>7 DEF Interval
<1> QED
  BY <1>2, <1>4, <1>6, <1>8, <1>9

(* What the report reads of maintenance is what was in maintenance.        *)
LEMMA MaintenanceIs ==
    ASSUME ReportType, NEW device, NEW a \in Nat, NEW b \in Nat
    PROVE  /\ read_maintenance(device, a, b) \in Pieces
           /\ \A t \in Nat : a <= t /\ t < b =>
                (Covers(read_maintenance(device, a, b), t) <=> Covered(device, t))
<1> DEFINE T == {j \in Windows : /\ window[j].device = device
                                 /\ window[j].starts < b /\ window[j].ends > a
                                 /\ \A e \in window[j].ended : e > window[j].starts}
           f == [i \in T |-> WindowSpan(window[i])]
<1>1. IsFiniteSet(T)
  <2>1. T \in SUBSET Windows
    OBVIOUS
  <2> HIDE DEF T
  <2> QED
    BY <2>1, FewRows, FS_Subset
<1>2. read_maintenance(device, a, b) = {f[x] : x \in DOMAIN f} /\ DOMAIN f = T
  BY DEF read_maintenance
<1>3. \A i \in T : i \in Windows /\ f[i] = WindowSpan(window[i])
  OBVIOUS
<1>4. \A i \in T : f[i] \in Interval
  BY <1>3, WindowSpanIs
<1>5. /\ read_maintenance(device, a, b) \in Pieces
      /\ \A t : Covers(read_maintenance(device, a, b), t) <=> \E i \in T : f[i][1] <= t /\ t < f[i][2]
  <2> HIDE DEF f, T
  <2> QED
    BY <1>1, <1>2, <1>4, ImagePieces
<1>6. ASSUME NEW t \in Nat, a <= t, t < b
      PROVE  (\E i \in T : f[i][1] <= t /\ t < f[i][2]) <=> Covered(device, t)
  <2> DEFINE On(i) == /\ window[i].starts <= t /\ t < window[i].ends
                      /\ \A e \in window[i].ended : t < e
  <2>1. \A i \in T : f[i][1] <= t /\ t < f[i][2] <=> On(i)
    <3>1. \A i \in T : /\ f[i][1] = window[i].starts
                       /\ t < f[i][2] <=> t < window[i].ends /\ \A e \in window[i].ended : t < e
      BY <1>3, WindowSpanIs
    <3> HIDE DEF T, f
    <3> QED
      BY <3>1
  <2>2. ASSUME NEW i \in Windows, window[i].device = device, On(i)
        PROVE  i \in T
    <3>1. window[i].starts \in Nat /\ window[i].ends \in Nat /\ window[i].ended \subseteq Nat
      BY WindowSpanIs
    <3> QED
      BY <1>6, <2>2, <3>1
  <2>3. \A i \in T : i \in Windows /\ window[i].device = device
    OBVIOUS
  <2>4. Covered(device, t) <=> \E i \in Windows : window[i].device = device /\ On(i)
    BY DEF Covered
  <2> HIDE DEF On, T, f
  <2> QED
    BY <2>1, <2>2, <2>3, <2>4
<1> QED
  BY <1>5, <1>6

(* An incident's down time.                                                *)
LEMMA DownSpanIs ==
    ASSUME ReportType, NEW i \in DOMAIN incident
    PROVE  /\ _down_span(i) \in Interval /\ _down_span(i)[1] = incident[i].down
           /\ incident[i].down \in Nat /\ incident[i].device \in ReportDevices
           /\ incident[i].up \subseteq Nat
           /\ \A t \in Nat : t < _down_span(i)[2] <=> t < clock /\ \A u \in incident[i].up : t < u
<1> DEFINE ends == {clock} \cup incident[i].up
<1>1. incident[i] \in Incident /\ clock \in Nat
  BY DEF ReportType
<1>2. incident[i].down \in Nat /\ incident[i].device \in ReportDevices /\ incident[i].up \subseteq Nat
  BY <1>1 DEF Incident
<1>3. ends \in SUBSET Nat /\ ends # {}
  BY <1>1, <1>2
<1>4. \A t : (\A n \in ends : t < n) <=> t < clock /\ \A u \in incident[i].up : t < u
  OBVIOUS
<1>5. _down_span(i) = <<incident[i].down, Min(ends)>>
  BY DEF _down_span
<1> HIDE DEF ends
<1>6. Min(ends) \in ends /\ \A n \in ends : Min(ends) <= n
  BY <1>3, MinIsChosen
<1>7. Min(ends) \in Nat /\ \A t \in Nat : t < Min(ends) <=> \A n \in ends : t < n
  <2>1. Min(ends) \in Nat /\ \A n \in ends : n \in Nat
    BY <1>3, <1>6
  <2> QED
    BY <1>6, <2>1
<1>8. _down_span(i) \in Interval /\ _down_span(i)[1] = incident[i].down /\ _down_span(i)[2] = Min(ends)
  BY <1>2, <1>5, <1>7 DEF Interval
<1> QED
  BY <1>2, <1>4, <1>7, <1>8

(* The parts of down.                                                      *)
SpansOf(d, start, end) ==
    {_down_span(i) : i \in {j \in read_incidents(start, end) : incident[j].device = d}}

OutageOf(d, start, end) == subtract(SpansOf(d, start, end), read_maintenance(d, start, end))

(* A device's outages: when one of its incidents was down, outside the
   device's own maintenance. *)
LEMMA OutageOfIs ==
    ASSUME ReportType, NEW d \in ReportDevices, NEW a \in Nat, NEW b \in Nat
    PROVE  /\ OutageOf(d, a, b) \in Pieces
           /\ \A t \in Nat : Covers(OutageOf(d, a, b), t) <=>
                /\ ~ Covers(read_maintenance(d, a, b), t)
                /\ \E i \in read_incidents(a, b) :
                     incident[i].device = d /\ _down_span(i)[1] <= t /\ t < _down_span(i)[2]
<1> DEFINE T == {j \in read_incidents(a, b) : incident[j].device = d}
           f == [i \in T |-> _down_span(i)]
<1>1. T \subseteq DOMAIN incident /\ IsFiniteSet(T)
  <2>1. keptI \subseteq DOMAIN incident
    BY DEF ReportType
  <2>2. T \in SUBSET keptI
    BY DEF read_incidents
  <2> HIDE DEF T
  <2> QED
    BY <2>1, <2>2, FewRows, FS_Subset
<1>2. SpansOf(d, a, b) = {f[x] : x \in DOMAIN f} /\ DOMAIN f = T
  BY DEF SpansOf
<1>3. \A i \in T : f[i] = _down_span(i)
  OBVIOUS
<1>4. \A t : (\E i \in T : _down_span(i)[1] <= t /\ t < _down_span(i)[2]) <=>
               \E i \in read_incidents(a, b) :
                  incident[i].device = d /\ _down_span(i)[1] <= t /\ t < _down_span(i)[2]
  OBVIOUS
<1> HIDE DEF f, T
<1>5. \A i \in T : f[i] \in Interval
  BY <1>1, <1>3, DownSpanIs
<1>6. /\ SpansOf(d, a, b) \in Pieces
      /\ \A t : Covers(SpansOf(d, a, b), t) <=> \E i \in T : f[i][1] <= t /\ t < f[i][2]
  BY <1>1, <1>2, <1>5, ImagePieces
<1>7. read_maintenance(d, a, b) \in Pieces
  BY MaintenanceIs
<1>8. /\ OutageOf(d, a, b) \in Pieces
      /\ \A t \in Nat : Covers(OutageOf(d, a, b), t) <=>
           Covers(SpansOf(d, a, b), t) /\ ~ Covers(read_maintenance(d, a, b), t)
  BY <1>6, <1>7, SubtractIs DEF OutageOf
<1>9. \A t \in Nat : Covers(SpansOf(d, a, b), t) <=>
        \E i \in T : _down_span(i)[1] <= t /\ t < _down_span(i)[2]
  BY <1>3, <1>6
<1> QED
  BY <1>4, <1>8, <1>9

(* The site's down time of any device, less its maintenance.               *)
LEMMA AnyDownIs ==
    ASSUME ReportType, basis = "any_down", NEW a \in Nat, NEW b \in Nat
    PROVE  /\ down(a, b) \in Pieces
           /\ \A t \in Nat : Covers(down(a, b), t) <=>
                /\ a <= t /\ t < b /\ ~ Covers(read_maintenance(WholeSite, a, b), t)
                /\ \E d \in ReportDevices : Covers(OutageOf(d, a, b), t)
<1> DEFINE f == [d \in ReportDevices |-> OutageOf(d, a, b)]
           found == UNION {f[x] : x \in DOMAIN f}
<1>1. down(a, b) = subtract(clip(UNION {OutageOf(d, a, b) : d \in ReportDevices}, a, b),
                            read_maintenance(WholeSite, a, b))
  BY DEF down, OutageOf, SpansOf
<1>2. UNION {OutageOf(d, a, b) : d \in ReportDevices} = found /\ DOMAIN f = ReportDevices
  OBVIOUS
<1>3. \A d \in ReportDevices : f[d] = OutageOf(d, a, b)
  OBVIOUS
<1> HIDE DEF f
<1>4. \A d \in ReportDevices : f[d] \in Pieces
  BY <1>3, OutageOfIs
<1>5. IsFiniteSet(ReportDevices)
  BY ReportAssumption
<1>6. found \in Pieces /\ \A t : Covers(found, t) <=> \E d \in ReportDevices : Covers(f[d], t)
  BY <1>2, <1>4, <1>5, UnionPieces
<1> HIDE DEF found
<1>7. /\ clip(found, a, b) \in Pieces
      /\ \A t \in Nat : Covers(clip(found, a, b), t) <=> Covers(found, t) /\ a <= t /\ t < b
  BY <1>6, ClipIs
<1>8. read_maintenance(WholeSite, a, b) \in Pieces
  BY MaintenanceIs
<1>9. /\ down(a, b) \in Pieces
      /\ \A t \in Nat : Covers(down(a, b), t) <=>
           Covers(clip(found, a, b), t) /\ ~ Covers(read_maintenance(WholeSite, a, b), t)
  <2>1. down(a, b) = subtract(clip(found, a, b), read_maintenance(WholeSite, a, b))
    BY <1>1, <1>2
  <2> QED
    BY <1>7, <1>8, <2>1, SubtractIs
<1>10. \A t : Covers(found, t) <=> \E d \in ReportDevices : Covers(OutageOf(d, a, b), t)
  BY <1>3, <1>6
<1> QED
  BY <1>7, <1>9, <1>10

(* What an incident counts for.                                            *)
LEMMA CountedIs ==
    ASSUME ReportType, NEW i \in DOMAIN incident, NEW a \in Nat, NEW b \in Nat
    PROVE  /\ counted(i, a, b) \in Pieces
           /\ \A t \in Nat : Covers(counted(i, a, b), t) <=>
                /\ a <= t /\ t < b /\ _down_span(i)[1] <= t /\ t < _down_span(i)[2]
                /\ ~ Covers(read_maintenance(incident[i].device, a, b), t)
                /\ ~ Covers(read_maintenance(WholeSite, a, b), t)
<1> DEFINE s == _down_span(i)
           H == Holes(incident[i].device, a, b)
<1>1. s \in Interval /\ s = <<s[1], s[2]>> /\ s[1] \in Nat /\ s[2] \in Nat
  <2>1. _down_span(i) \in Interval
    BY DownSpanIs
  <2> HIDE DEF s
  <2> QED
    BY <2>1 DEF Interval, s
<1> HIDE DEF s
<1>2. {s} \in Pieces /\ \A t : Covers({s}, t) <=> s[1] <= t /\ t < s[2]
  BY <1>1, FewPieces
<1>3. /\ clip({s}, a, b) \in Pieces
      /\ \A t \in Nat : Covers(clip({s}, a, b), t) <=> Covers({s}, t) /\ a <= t /\ t < b
  BY <1>2, ClipIs
<1>4. /\ read_maintenance(incident[i].device, a, b) \in Pieces
      /\ read_maintenance(WholeSite, a, b) \in Pieces
  BY MaintenanceIs
<1>5. H \in Pieces /\ \A t : Covers(H, t) <=> \/ Covers(read_maintenance(incident[i].device, a, b), t)
                                              \/ Covers(read_maintenance(WholeSite, a, b), t)
  BY <1>4, BothPieces DEF Holes
<1> HIDE DEF H
<1>6. counted(i, a, b) = subtract(clip({s}, a, b), H)
  BY DEF counted, s, H
<1>7. /\ counted(i, a, b) \in Pieces
      /\ \A t \in Nat : Covers(counted(i, a, b), t) <=> Covers(clip({s}, a, b), t) /\ ~ Covers(H, t)
  BY <1>3, <1>5, <1>6, SubtractIs
<1> QED
  BY <1>2, <1>3, <1>5, <1>7 DEF s

(* The export's rows together cover what the report's outages cover, so
   they are the same list. *)
LEMMA ExportEqual ==
    ASSUME ReportType, basis = "any_down", NEW a \in Nat, NEW b \in Nat
    PROVE  union(UNION {counted(i, a, b) : i \in read_incidents(a, b)}) = outages(a, b)
<1> DEFINE R == read_incidents(a, b)
           f == [i \in R |-> counted(i, a, b)]
           all == UNION {f[x] : x \in DOMAIN f}
<1>1. R \subseteq DOMAIN incident /\ IsFiniteSet(R)
  <2>1. keptI \subseteq DOMAIN incident
    BY DEF ReportType
  <2>2. R \in SUBSET keptI
    BY DEF read_incidents
  <2> HIDE DEF R
  <2> QED
    BY <2>1, <2>2, FewRows, FS_Subset
<1>2. UNION {counted(i, a, b) : i \in read_incidents(a, b)} = all /\ DOMAIN f = R
  OBVIOUS
<1>3. \A i \in R : f[i] = counted(i, a, b)
  OBVIOUS
<1> HIDE DEF f, R
<1>4. \A i \in R : f[i] \in Pieces
  BY <1>1, <1>3, CountedIs
<1>5. all \in Pieces /\ \A t : Covers(all, t) <=> \E i \in R : Covers(f[i], t)
  BY <1>1, <1>2, <1>4, UnionPieces
<1> HIDE DEF all
<1>6. ASSUME NEW t \in Nat
      PROVE  Covers(all, t) <=> Covers(down(a, b), t)
  <2> DEFINE Site == a <= t /\ t < b /\ ~ Covers(read_maintenance(WholeSite, a, b), t)
             Kept(d) == ~ Covers(read_maintenance(d, a, b), t)
             On(i) == _down_span(i)[1] <= t /\ t < _down_span(i)[2]
  <2>1. Covers(all, t) <=> \E i \in R : Site /\ On(i) /\ Kept(incident[i].device)
    BY <1>1, <1>3, <1>5, CountedIs
  <2>2. Covers(down(a, b), t) <=> Site /\ \E d \in ReportDevices : Covers(OutageOf(d, a, b), t)
    BY AnyDownIs
  <2>3. \A d \in ReportDevices : Covers(OutageOf(d, a, b), t) <=>
           Kept(d) /\ \E i \in R : incident[i].device = d /\ On(i)
    BY OutageOfIs DEF R
  <2>4. \A i \in R : incident[i].device \in ReportDevices
    BY <1>1, DownSpanIs
  <2> HIDE DEF Site, Kept, On
  <2> QED
    BY <2>1, <2>2, <2>3, <2>4
<1>7. down(a, b) \in Pieces
  BY AnyDownIs
<1>8. union(all) = union(down(a, b))
  <2>1. Apart(union(all)) /\ Apart(union(down(a, b)))
    BY <1>5, <1>7, UnionIs DEF Pieces
  <2>2. \A t \in Nat : Covers(Range(union(all)), t) <=> Covers(Range(union(down(a, b))), t)
    BY <1>5, <1>6, <1>7, UnionIs DEF Pieces
  <2> QED
    BY <2>1, <2>2, ApartUnique
<1> QED
  BY <1>2, <1>8 DEF outages

(* "so the incidents export adds up to the figures": what the incidents of
   a period count for is, put together, the list of outages of its report. *)
THEOREM ExportIsReport == ReportSpec => []ExportAddsUp
<1>1. ReportInv => ExportAddsUp
  <2> SUFFICES ASSUME ReportInv, basis = "any_down", NEW p \in Periods
               PROVE  union(UNION {counted(i, p[1], p[2]) : i \in read_incidents(p[1], p[2])})
                        = outages(p[1], p[2])
    BY DEF ExportAddsUp
  <2>1. ReportType /\ clock \in Nat
    BY DEF ReportInv, ReportType
  <2>2. p[1] \in Nat /\ p[2] \in Nat
    BY <2>1 DEF Periods
  <2> QED
    BY <2>1, <2>2, ExportEqual
<1> QED
  BY <1>1, ReportInvariant, PTL
-----------------------------------------------------------------------------
(* The log of levels: in the order of time, each change from the level the
   last one set, none before the site was first seen. *)
LevelLog ==
    /\ \A f, g \in first : f = g
    /\ first = {} => change = <<>>
    /\ \A f \in first :
         /\ f.seen <= clock /\ \A i \in DOMAIN change : f.seen <= change[i].at
         /\ change # <<>> => f.level = change[Len(change)].to
    /\ \A i \in DOMAIN change : change[i].at <= clock
    /\ \A i, j \in DOMAIN change : i < j => change[i].at <= change[j].at
    /\ \A i \in DOMAIN change : i + 1 \in DOMAIN change => change[i + 1].from = change[i].to

(* Retention deleted changes from before what a report may ask for, and with
   each one those before it. *)
ChangesKept ==
    /\ \A i \in DOMAIN change \ keptC : Retention > 0 /\ change[i].at < clock - Retention
    /\ \A i \in keptC, j \in DOMAIN change : i < j => j \in keptC

LogInv == ReportInv /\ LevelLog /\ ChangesKept

(* What the type of the log says of its rows.                              *)
LEMMA ChangeFacts ==
    ASSUME ReportType
    PROVE  /\ change \in Seq(Change) /\ Len(change) \in Nat /\ DOMAIN change = 1 .. Len(change)
           /\ \A i \in DOMAIN change : change[i].at \in Nat
           /\ \A f \in first : f.seen \in Nat
           /\ keptC \subseteq DOMAIN change /\ clock \in Nat /\ Retention \in Nat
<1>1. /\ change \in Seq(Change) /\ first \subseteq First /\ keptC \subseteq DOMAIN change /\ clock \in Nat
  BY DEF ReportType
<1>2. \A i \in DOMAIN change : change[i] \in Change
  BY <1>1
<1> QED
  BY <1>1, <1>2, ReportAssumption DEF Change, First

(* The log is empty when the site is first seen.                           *)
LEMMA FirstLevelLog ==
    ASSUME ReportType, LevelLog, ChangesKept, NEW level \in {"critical", "ok"}, FirstLevel(level)
    PROVE  LevelLog' /\ ChangesKept'
<1>1. /\ first = {} /\ first' = {[level |-> level, seen |-> clock]}
      /\ UNCHANGED <<clock, change, keptC>>
  BY DEF FirstLevel
<1>2. change = <<>> /\ clock \in Nat
  BY <1>1 DEF LevelLog, ReportType
<1>3. DOMAIN change = {}
  BY <1>2
<1>4. \A f \in first' : f.seen = clock
  BY <1>1
<1>5. LevelLog'
  BY <1>1, <1>2, <1>3, <1>4 DEF LevelLog
<1> QED
  BY <1>1, <1>5 DEF ChangesKept

(* A change comes last in the log, from the level the last one set.        *)
LEMMA LevelChangesLog ==
    ASSUME ReportType, LevelLog, ChangesKept, NEW level \in {"critical", "ok"}, LevelChanges(level)
    PROVE  LevelLog' /\ ChangesKept'
<1> DEFINE n == Len(change)
<1>1. /\ DOMAIN change' = 1 .. n + 1 /\ Len(change') = n + 1
      /\ \A i \in 1 .. n : change'[i] = change[i]
      /\ keptC' = keptC \cup {n + 1}
  BY LevelChangesKeeps
<1>2. PICK f \in first : /\ first' = {[f EXCEPT !.level = level]}
                         /\ change'[n + 1] = [from |-> f.level, to |-> level, at |-> clock]
  BY LevelChangesKeeps
<1>3. /\ n \in Nat /\ DOMAIN change = 1 .. n /\ \A i \in 1 .. n : change[i].at \in Nat
      /\ keptC \subseteq 1 .. n /\ clock \in Nat /\ Retention \in Nat /\ f.seen \in Nat
  BY ChangeFacts
<1>4. clock' = clock
  BY DEF LevelChanges
<1>5. /\ f.seen <= clock /\ \A i \in 1 .. n : f.seen <= change[i].at
      /\ n # 0 => f.level = change[n].to
      /\ \A i \in 1 .. n : change[i].at <= clock
      /\ \A i, j \in 1 .. n : i < j => change[i].at <= change[j].at
      /\ \A i \in 1 .. n : i + 1 \in 1 .. n => change[i + 1].from = change[i].to
  <2>1. n # 0 => change # <<>>
    BY <1>3
  <2> QED
    BY <1>3, <2>1 DEF LevelLog
<1>6. \A i \in 1 .. n + 1 : i \in 1 .. n \/ i = n + 1
  BY <1>3
<1>7. /\ change'[n + 1].from = f.level /\ change'[n + 1].to = level /\ change'[n + 1].at = clock
      /\ \A g \in first' : g = [f EXCEPT !.level = level]
  BY <1>2
<1>8. \A g \in first' : g.seen = f.seen /\ g.level = level
  <2>1. f \in First
    BY DEF ReportType
  <2> QED
    BY <1>7, <2>1 DEF First
<1>9. \A i \in 1 .. n + 1 : change'[i].at <= clock /\ f.seen <= change'[i].at
  BY <1>1, <1>3, <1>5, <1>6, <1>7
<1>10. \A i, j \in 1 .. n + 1 : i < j => change'[i].at <= change'[j].at
  <2> SUFFICES ASSUME NEW i \in 1 .. n + 1, NEW j \in 1 .. n + 1, i < j
               PROVE  change'[i].at <= change'[j].at
    OBVIOUS
  <2>1. i \in 1 .. n /\ change'[i] = change[i]
    BY <1>1, <1>3
  <2>2. CASE j = n + 1
    BY <1>5, <1>7, <2>1, <2>2
  <2>3. CASE j \in 1 .. n
    BY <1>1, <1>5, <2>1, <2>3
  <2> QED
    BY <1>6, <2>2, <2>3
<1>11. \A i \in 1 .. n + 1 : i + 1 \in 1 .. n + 1 => change'[i + 1].from = change'[i].to
  <2> SUFFICES ASSUME NEW i \in 1 .. n + 1, i + 1 \in 1 .. n + 1
               PROVE  change'[i + 1].from = change'[i].to
    OBVIOUS
  <2>1. i \in 1 .. n /\ change'[i] = change[i]
    BY <1>1, <1>3
  <2>2. CASE i + 1 = n + 1
    <3>1. i = n /\ n # 0
      <4> HIDE DEF n
      <4> QED
        BY <1>3, <2>1, <2>2
    <3> QED
      BY <1>5, <1>7, <2>1, <3>1
  <2>3. CASE i + 1 \in 1 .. n
    BY <1>1, <1>5, <2>1, <2>3
  <2> QED
    BY <1>6, <2>2, <2>3
<1>12. LevelLog'
  <2>1. /\ \A g, h \in first' : g = h
        /\ first' # {} /\ DOMAIN change' = 1 .. n + 1
        /\ \A g \in first' : g.seen <= clock' /\ g.level = change'[Len(change')].to
        /\ \A g \in first' : \A i \in DOMAIN change' : g.seen <= change'[i].at
        /\ \A i \in DOMAIN change' : change'[i].at <= clock'
    BY <1>1, <1>2, <1>4, <1>5, <1>7, <1>8, <1>9
  <2> HIDE DEF n
  <2> QED
    BY <1>1, <1>10, <1>11, <2>1 DEF LevelLog
<1>13. ChangesKept'
  <2>1. \A i \in DOMAIN change' \ keptC' : i \in DOMAIN change \ keptC /\ change'[i] = change[i]
    BY <1>1, <1>3, <1>6
  <2>2. \A i \in keptC', j \in DOMAIN change' : i < j => j \in keptC'
    <3> SUFFICES ASSUME NEW i \in keptC', NEW j \in 1 .. n, i < j PROVE j \in keptC
      BY <1>1, <1>6
    <3>1. i \in keptC
      BY <1>1, <1>3
    <3> QED
      BY <1>3, <3>1 DEF ChangesKept
  <2> QED
    BY <1>4, <2>1, <2>2 DEF ChangesKept
<1> QED
  BY <1>12, <1>13

(* A batch holds the level changes due.                                    *)
OneBatch == Cardinality(OldChanges) <= Batch

(* Such a batch takes all of them.                                         *)
LEMMA PruneChangesLog ==
    ASSUME OneBatch, ReportType, LevelLog, ChangesKept, PruneChanges
    PROVE  LevelLog' /\ ChangesKept'
<1>1. /\ UNCHANGED <<window, clock, basis, incident, change, first, keptI>> /\ Retention > 0
      /\ \E rows \in Batches(OldChanges) : keptC' = keptC \ rows
  BY DEF PruneChanges
<1>3. keptC' = keptC \ OldChanges
  BY <1>1 DEF Batches, OneBatch
<1>4. LevelLog'
  BY <1>1 DEF LevelLog
<1>5. \A i \in DOMAIN change \ keptC' : change[i].at < clock - Retention
  BY <1>3 DEF ChangesKept, OldChanges
<1>6. ASSUME NEW i \in keptC', NEW j \in DOMAIN change, i < j
      PROVE  j \in keptC'
  <2>1. /\ i \in keptC /\ j \in keptC /\ ~ (change[i].at < clock - Retention)
        /\ i \in DOMAIN change /\ j \in DOMAIN change
    BY <1>3, <1>6, ChangeFacts DEF ChangesKept, OldChanges
  <2>2. change[i].at <= change[j].at
    BY <1>6, <2>1 DEF LevelLog
  <2>3. change[i].at \in Nat /\ change[j].at \in Nat /\ clock \in Nat /\ Retention \in Nat
    BY <2>1, ChangeFacts
  <2>4. ~ (change[j].at < clock - Retention)
    BY <2>1, <2>2, <2>3
  <2> QED
    BY <1>3, <2>1, <2>4 DEF OldChanges
<1> QED
  BY <1>1, <1>4, <1>5, <1>6 DEF ChangesKept

(* Every step keeps the log in order and the end of it whole.              *)
LEMMA LogStep ==
    ASSUME OneBatch, LogInv, [ReportNext]_reportVars
    PROVE  LogInv'
<1>1. ReportInv' /\ ReportType /\ LevelLog /\ ChangesKept
  BY ReportStep DEF LogInv, ReportInv
<1>2. ASSUME UNCHANGED <<clock, change, first, keptC>> PROVE LevelLog' /\ ChangesKept'
  BY <1>1, <1>2 DEF LevelLog, ChangesKept
<1>3. CASE ReportTick
  <2>1. clock' = clock + 1 /\ UNCHANGED <<change, first, keptC>>
    BY <1>3 DEF ReportTick
  <2>2. /\ clock \in Nat /\ Retention \in Nat /\ \A i \in DOMAIN change : change[i].at \in Nat
        /\ \A f \in first : f.seen \in Nat
    BY <1>1, ChangeFacts
  <2>3. LevelLog'
    <3>1. /\ \A f \in first : f.seen <= clock'
          /\ \A i \in DOMAIN change : change[i].at <= clock'
      BY <1>1, <2>1, <2>2 DEF LevelLog
    <3> QED
      BY <1>1, <2>1, <3>1, Zenon DEF LevelLog
  <2>4. \A i \in DOMAIN change \ keptC : Retention > 0 /\ change[i].at < clock' - Retention
    BY <1>1, <2>1, <2>2 DEF ChangesKept
  <2>5. ChangesKept'
    BY <1>1, <2>1, <2>4, Zenon DEF ChangesKept
  <2> QED
    BY <1>1, <2>3, <2>5 DEF LogInv
<1>4. CASE \E d \in ReportDevices, since \in clock - 1 .. clock : since >= 0 /\ Opens(d, since)
  BY <1>1, <1>2, <1>4 DEF Opens, LogInv
<1>5. CASE \E i \in DOMAIN incident : Resolves(i)
  BY <1>1, <1>2, <1>5 DEF Resolves, LogInv
<1>6. CASE \E level \in {"critical", "ok"} : FirstLevel(level) \/ LevelChanges(level)
  BY <1>1, <1>6, FirstLevelLog, LevelChangesLog DEF LogInv
<1>7. CASE \E device \in ReportDevices \cup {WholeSite}, starts \in Starts, ends \in Ends :
             Plans(device, starts, ends)
  BY <1>1, <1>2, <1>7 DEF Plans, LogInv
<1>8. CASE \E i \in Windows : EndsWindow(i)
  BY <1>1, <1>2, <1>8 DEF EndsWindow, LogInv
<1>9. CASE PruneIncidents
  BY <1>1, <1>2, <1>9 DEF PruneIncidents, LogInv
<1>10. CASE PruneChanges
  BY <1>1, <1>10, PruneChangesLog DEF LogInv
<1>11. CASE UNCHANGED reportVars
  BY <1>1, <1>2, <1>11 DEF reportVars, LogInv
<1> QED
  BY <1>3, <1>4, <1>5, <1>6, <1>7, <1>8, <1>9, <1>10, <1>11, Zenon DEF ReportNext

(* As long as a batch holds the changes due, retention leaves the end of
   the log, and all of it that a report may ask for. *)
LEMMA LogInvariant == ReportSpec /\ []OneBatch => []LogInv
<1>1. ReportInit => LevelLog /\ ChangesKept
  BY DEF ReportInit, LevelLog, ChangesKept
<1>2. ReportInit => ReportInv
  BY ReportAssumption DEF ReportInit, ReportInv, ReportType, RowsInTime, IncidentsKept, Windows
<1>3. OneBatch /\ LogInv /\ [ReportNext]_reportVars => LogInv'
  BY LogStep
<1>4. ReportInit => LogInv
  BY <1>1, <1>2 DEF LogInv
<1> QED
  BY <1>3, <1>4, PTL DEF ReportSpec
-----------------------------------------------------------------------------
(* What a period's edges are.                                              *)
LEMMA PeriodIs ==
    ASSUME ReportType, NEW p \in Periods
    PROVE  /\ p[1] \in Nat /\ p[2] \in Nat /\ p[1] < p[2] /\ p[2] <= clock
           /\ Retention > 0 => p[1] >= clock - Retention
<1>1. clock \in Nat /\ Retention \in Nat
  BY ReportAssumption DEF ReportType
<1> QED
  BY <1>1 DEF Periods, kept_from

(* A device's outages are when it was down and not in maintenance.         *)
LEMMA OutageTrue ==
    ASSUME ReportInv, NEW p \in Periods, NEW d \in ReportDevices,
           NEW t \in Nat, p[1] <= t, t < p[2]
    PROVE  Covers(OutageOf(d, p[1], p[2]), t) <=> DeviceDown(d, t) /\ ~ Covered(d, t)
<1> DEFINE a == p[1]
           b == p[2]
<1>1. ReportType /\ IncidentsKept /\ clock \in Nat /\ keptI \subseteq DOMAIN incident
  BY DEF ReportInv, ReportType
<1>2. /\ a \in Nat /\ b \in Nat /\ a < b /\ b <= clock
      /\ Retention > 0 => a >= clock - Retention
  BY <1>1, PeriodIs
<1>3. Covers(read_maintenance(d, a, b), t) <=> Covered(d, t)
  BY <1>1, <1>2, MaintenanceIs
<1>4. Covers(OutageOf(d, a, b), t) <=>
                /\ ~ Covers(read_maintenance(d, a, b), t)
                /\ \E i \in read_incidents(a, b) :
                     incident[i].device = d /\ _down_span(i)[1] <= t /\ t < _down_span(i)[2]
  BY <1>1, <1>2, OutageOfIs
<1>5. ASSUME NEW i \in DOMAIN incident
      PROVE  /\ _down_span(i)[1] = incident[i].down /\ _down_span(i)[2] \in Nat
             /\ incident[i].down \in Nat /\ incident[i].up \subseteq Nat
             /\ t < _down_span(i)[2] <=> \A u \in incident[i].up : t < u
  <2>1. _down_span(i)[2] \in Nat
    BY <1>1, DownSpanIs DEF Interval
  <2>2. t < clock
    BY <1>1, <1>2
  <2> QED
    BY <1>1, <2>1, <2>2, DownSpanIs
<1>6. ASSUME NEW i \in DOMAIN incident, incident[i].down <= t, \A u \in incident[i].up : t < u
      PROVE  i \in read_incidents(a, b)
  <2>1. i \in keptI
    <3> SUFFICES ASSUME i \notin keptI PROVE FALSE
      OBVIOUS
    <3>1. Retention > 0 /\ \E u \in incident[i].up : u < clock - Retention
      BY <1>1 DEF IncidentsKept
    <3>2. PICK u \in incident[i].up : u < clock - Retention
      BY <3>1
    <3>3. u \in Nat /\ t < u /\ a >= clock - Retention /\ Retention \in Nat
      BY <1>2, <1>5, <1>6, <3>1, <3>2, ReportAssumption
    <3> QED
      BY <1>1, <1>2, <3>2, <3>3
  <2>2. incident[i].up = {} \/ \E u \in incident[i].up : u > a
    <3>1. \A u \in incident[i].up : u > a
      BY <1>2, <1>5, <1>6
    <3> QED
      BY <3>1
  <2>3. incident[i].down < b /\ _down_span(i)[2] > _down_span(i)[1]
    BY <1>2, <1>5, <1>6
  <2> QED
    BY <2>1, <2>2, <2>3 DEF read_incidents
<1>7. \A i \in read_incidents(a, b) : i \in DOMAIN incident
  BY <1>1 DEF read_incidents
<1> HIDE DEF a, b
<1>8. (\E i \in read_incidents(a, b) :
         incident[i].device = d /\ _down_span(i)[1] <= t /\ t < _down_span(i)[2]) <=> DeviceDown(d, t)
  BY <1>5, <1>6, <1>7 DEF DeviceDown
<1> QED
  BY <1>3, <1>4, <1>8 DEF a, b

(* The greatest of some of the changes, and the least.                     *)
LEMMA OfChanges ==
    ASSUME ReportType, NEW S \in SUBSET DOMAIN change, S # {}
    PROVE  /\ Max(S) \in S /\ \A i \in S : i <= Max(S)
           /\ Min(S) \in S /\ \A i \in S : Min(S) <= i
<1>1. DOMAIN change = 1 .. Len(change) /\ Len(change) \in Nat
  BY ChangeFacts
<1>2. S \in SUBSET (1 .. Len(change)) /\ S \in SUBSET Nat
  BY <1>1
<1> QED
  BY <1>1, <1>2, LastOf, MinIsChosen

(* The parts of read_critical.                                             *)
During(start, end) == {i \in keptC : change[i].at > start /\ change[i].at < end}

Since(f, start, end) ==
    IF \E i \in keptC : change[i].at <= start THEN start ELSE Min({Max({f.seen, start}), end})

Until(i, start, end) ==
    Min({end} \cup {change[j].at : j \in {k \in During(start, end) : k > i}})

CriticalOf(f, start, end) ==
    {<<change[i].at, Until(i, start, end)>> : i \in {j \in During(start, end) : change[j].to = "critical"}}
    \cup (IF LevelBefore(f, start) = "critical"
          THEN {<<Since(f, start, end), Until(0, start, end)>>} ELSE {})

(* A level lasts until the next change in the period, or its end.          *)
LEMMA UntilIs ==
    ASSUME ReportType, NEW a \in Nat, NEW b \in Nat, NEW i
    PROVE  /\ Until(i, a, b) \in Nat
           /\ \A t \in Nat : t < Until(i, a, b) <=>
                t < b /\ \A j \in During(a, b) : j > i => t < change[j].at
<1> DEFINE S == {b} \cup {change[j].at : j \in {k \in During(a, b) : k > i}}
<1>1. During(a, b) \subseteq DOMAIN change
  BY ChangeFacts DEF During
<1>2. S \in SUBSET Nat /\ S # {}
  BY <1>1, ChangeFacts
<1>3. \A t : (\A n \in S : t < n) <=> t < b /\ \A j \in During(a, b) : j > i => t < change[j].at
  OBVIOUS
<1>4. Until(i, a, b) = Min(S)
  BY DEF Until
<1> HIDE DEF S
<1>5. Min(S) \in S /\ \A n \in S : Min(S) <= n
  BY <1>2, MinIsChosen
<1>6. Min(S) \in Nat /\ \A n \in S : n \in Nat
  BY <1>2, <1>5
<1>7. \A t \in Nat : t < Min(S) <=> \A n \in S : t < n
  BY <1>5, <1>6
<1> QED
  BY <1>3, <1>4, <1>6, <1>7

(* The level at the start counts from the start, or from when the site was
   first seen. *)
LEMMA SinceIs ==
    ASSUME ReportType, NEW f \in first, NEW a \in Nat, NEW b \in Nat
    PROVE  /\ Since(f, a, b) \in Nat
           /\ (\E i \in keptC : change[i].at <= a) => Since(f, a, b) = a
           /\ ~ (\E i \in keptC : change[i].at <= a) =>
                \A t \in Nat : a <= t /\ t < b => (Since(f, a, b) <= t <=> f.seen <= t)
<1>1. f.seen \in Nat
  BY ChangeFacts
<1> DEFINE s == Max({f.seen, a})
<1>2. s \in {f.seen, a} /\ s >= f.seen /\ s >= a /\ s \in Nat
  BY <1>1, OfTwo
<1> HIDE DEF s
<1>3. Min({s, b}) \in {s, b} /\ Min({s, b}) <= s /\ Min({s, b}) <= b /\ Min({s, b}) \in Nat
  BY <1>2, OfTwo
<1>4. Since(f, a, b) = IF \E i \in keptC : change[i].at <= a THEN a ELSE Min({s, b})
  BY DEF Since, s
<1> QED
  BY <1>1, <1>2, <1>3, <1>4

(* What read_critical finds, as ticks: after a change to Critical until
   the next one, and from the start when that was at Critical. *)
LEMMA CriticalOfIs ==
    ASSUME ReportType, NEW f \in first, NEW a \in Nat, NEW b \in Nat
    PROVE  /\ CriticalOf(f, a, b) \in Pieces
           /\ \A t \in Nat : Covers(CriticalOf(f, a, b), t) <=>
                \/ \E i \in During(a, b) : /\ change[i].to = "critical"
                                           /\ change[i].at <= t /\ t < Until(i, a, b)
                \/ /\ LevelBefore(f, a) = "critical"
                   /\ Since(f, a, b) <= t /\ t < Until(0, a, b)
<1> DEFINE T == {j \in During(a, b) : change[j].to = "critical"}
           g == [i \in T |-> <<change[i].at, Until(i, a, b)>>]
           spans == {g[x] : x \in DOMAIN g}
           start == IF LevelBefore(f, a) = "critical"
                    THEN {<<Since(f, a, b), Until(0, a, b)>>} ELSE {}
<1>1. During(a, b) \subseteq DOMAIN change
  BY ChangeFacts DEF During
<1>2. IsFiniteSet(T) /\ T \subseteq DOMAIN change
  <2>1. T \in SUBSET DOMAIN change
    BY <1>1
  <2> HIDE DEF T
  <2> QED
    BY <2>1, FewRows, FS_Subset
<1>3. /\ DOMAIN g = T
      /\ \A i \in T : g[i] = <<change[i].at, Until(i, a, b)>>
      /\ \A i \in T : g[i][1] = change[i].at /\ g[i][2] = Until(i, a, b)
  OBVIOUS
<1>4. CriticalOf(f, a, b) = spans \cup start
  BY DEF CriticalOf
<1>5. start \in Pieces /\ \A t : Covers(start, t) <=>
        LevelBefore(f, a) = "critical" /\ Since(f, a, b) <= t /\ t < Until(0, a, b)
  <2>1. Since(f, a, b) \in Nat /\ Until(0, a, b) \in Nat
    BY SinceIs, UntilIs
  <2> QED
    BY <2>1, FewPieces
<1>6. \A t : (\E i \in T : change[i].at <= t /\ t < Until(i, a, b)) <=>
        \E i \in During(a, b) : /\ change[i].to = "critical"
                                /\ change[i].at <= t /\ t < Until(i, a, b)
  OBVIOUS
<1> HIDE DEF T, g, start
<1>7. \A i \in T : g[i] \in Interval
  <2>1. \A i \in T : change[i].at \in Nat /\ Until(i, a, b) \in Nat
    BY <1>2, ChangeFacts, UntilIs
  <2>2. \A x, y \in Nat : <<x, y>> \in Interval
    BY DEF Interval
  <2> QED
    BY <1>3, <2>1, <2>2
<1>8. spans \in Pieces /\ \A t : Covers(spans, t) <=> \E i \in T : g[i][1] <= t /\ t < g[i][2]
  BY <1>2, <1>3, <1>7, ImagePieces
<1> HIDE DEF spans
<1>9. /\ CriticalOf(f, a, b) \in Pieces
      /\ \A t : Covers(CriticalOf(f, a, b), t) <=> Covers(spans, t) \/ Covers(start, t)
  BY <1>4, <1>5, <1>8, BothPieces
<1> QED
  BY <1>3, <1>5, <1>6, <1>8, <1>9

(* The changes up to a tick of the period.                                 *)
UpToTick(t) == {i \in DOMAIN change : change[i].at <= t}

(* After a change in the period, the level is what the last one set.       *)
LEMMA CriticalLater ==
    ASSUME LogInv, NEW p \in Periods, NEW f \in first, NEW t \in Nat, p[1] <= t, t < p[2],
           NEW i0 \in During(p[1], p[2]), change[i0].at <= t
    PROVE  Covers(CriticalOf(f, p[1], p[2]), t) <=> f.seen <= t /\ LevelAt(t) = "critical"
<1> DEFINE a == p[1]
           b == p[2]
           C == UpToTick(t)
           m == Max(C)
           D == During(a, b)
<1>1. ReportType /\ LevelLog /\ ChangesKept
  BY DEF LogInv, ReportInv
<1>2. /\ a \in Nat /\ b \in Nat /\ a < b /\ b <= clock
      /\ Retention > 0 => a >= clock - Retention
  BY <1>1, PeriodIs
<1>3. /\ DOMAIN change = 1 .. Len(change) /\ Len(change) \in Nat
      /\ \A i \in DOMAIN change : change[i].at \in Nat /\ i \in Nat
      /\ keptC \subseteq DOMAIN change /\ clock \in Nat /\ Retention \in Nat /\ f.seen \in Nat
  BY <1>1, ChangeFacts
<1>4. D \subseteq keptC /\ D \subseteq DOMAIN change /\ \A i \in D : change[i].at > a /\ change[i].at < b
  BY <1>3 DEF During
<1>5. i0 \in D /\ i0 \in C /\ C \subseteq DOMAIN change /\ \A i \in C : change[i].at <= t
  BY <1>4 DEF UpToTick
<1> HIDE DEF C, D, a, b
<1>6. m \in C /\ \A i \in C : i <= m
  BY <1>1, <1>5, OfChanges
<1>7. change[i0].at <= change[m].at
  <2>1. i0 = m \/ i0 < m
    BY <1>3, <1>5, <1>6
  <2> QED
    BY <1>1, <1>3, <1>5, <1>6, <2>1 DEF LevelLog
<1> HIDE DEF m
<1>8. m \in D
  <2>1. m \in keptC
    <3>1. i0 = m \/ i0 < m
      BY <1>3, <1>5, <1>6
    <3> QED
      BY <1>1, <1>4, <1>5, <1>6, <3>1 DEF ChangesKept
  <2>2. change[m].at > a /\ change[m].at < b
    BY <1>2, <1>3, <1>4, <1>5, <1>6, <1>7 DEF a, b
  <2> QED
    BY <2>1, <2>2 DEF D, During
<1>9. \A j \in DOMAIN change : j > m => t < change[j].at
  <2> SUFFICES ASSUME NEW j \in DOMAIN change, j > m PROVE t < change[j].at
    OBVIOUS
  <2>1. j \notin C
    BY <1>3, <1>5, <1>6
  <2> QED
    BY <1>3, <2>1 DEF C, UpToTick
<1>10. LevelAt(t) = change[m].to
  BY <1>5 DEF LevelAt, m, C, UpToTick
<1>11. f.seen <= t
  <2>1. f.seen <= change[m].at /\ change[m].at <= t
    BY <1>1, <1>5, <1>6 DEF LevelLog
  <2> QED
    BY <1>3, <1>5, <1>6, <2>1
<1>12. t < Until(m, a, b)
  <2>1. \A j \in D : j > m => t < change[j].at
    BY <1>4, <1>9
  <2> QED
    BY <1>1, <1>2, <2>1, UntilIs DEF b, D
<1>13. ASSUME NEW i, i \in D \/ i = 0, t < Until(i, a, b), i # 0 => change[i].at <= t
       PROVE  i = m
  <2>1. ~ (m > i)
    <3>1. ~ (t < change[m].at)
      BY <1>3, <1>5, <1>6
    <3> QED
      BY <1>1, <1>2, <1>8, <1>13, <3>1, UntilIs DEF D
  <2>2. i \in Nat /\ m \in Nat /\ m > 0
    BY <1>3, <1>4, <1>5, <1>6, <1>13
  <2>3. i \in C
    BY <1>4, <1>13, <2>1, <2>2 DEF C, UpToTick
  <2> QED
    BY <1>6, <2>1, <2>2, <2>3
<1>14. m # 0 /\ 0 \notin D
  BY <1>3, <1>4, <1>5, <1>6
<1>15. Covers(CriticalOf(f, a, b), t) <=>
                \/ \E i \in D : /\ change[i].to = "critical"
                                /\ change[i].at <= t /\ t < Until(i, a, b)
                \/ /\ LevelBefore(f, a) = "critical"
                   /\ Since(f, a, b) <= t /\ t < Until(0, a, b)
  BY <1>1, <1>2, CriticalOfIs DEF D
<1>16. ~ (t < Until(0, a, b))
  BY <1>13, <1>14
<1>17. \A i \in D : change[i].at <= t /\ t < Until(i, a, b) <=> i = m
  BY <1>5, <1>6, <1>8, <1>12, <1>13
<1>18. Covers(CriticalOf(f, a, b), t) <=> change[m].to = "critical"
  BY <1>8, <1>15, <1>16, <1>17
<1> QED
  BY <1>10, <1>11, <1>18 DEF a, b

(* Before the first change in the period, it is the level at the start.    *)
LEMMA CriticalFirst ==
    ASSUME LogInv, NEW p \in Periods, NEW f \in first, NEW t \in Nat, p[1] <= t, t < p[2],
           \A i \in During(p[1], p[2]) : ~ (change[i].at <= t)
    PROVE  Covers(CriticalOf(f, p[1], p[2]), t) <=> f.seen <= t /\ LevelAt(t) = "critical"
<1> DEFINE a == p[1]
           b == p[2]
           C == UpToTick(t)
           before == {i \in keptC : change[i].at <= a}
<1>1. ReportType /\ LevelLog /\ ChangesKept
  BY DEF LogInv, ReportInv
<1>2. /\ a \in Nat /\ b \in Nat /\ a < b /\ b <= clock
      /\ Retention > 0 => a >= clock - Retention
      /\ a <= t /\ t < b
  BY <1>1, PeriodIs
<1>3. /\ DOMAIN change = 1 .. Len(change) /\ Len(change) \in Nat
      /\ \A i \in DOMAIN change : change[i].at \in Nat /\ i \in Nat
      /\ keptC \subseteq DOMAIN change /\ clock \in Nat /\ Retention \in Nat /\ f.seen \in Nat
  BY <1>1, ChangeFacts
<1>4. \A i \in DOMAIN change : i \in C <=> change[i].at <= t
  BY DEF UpToTick
<1>5. C \subseteq DOMAIN change
  BY DEF UpToTick
<1>6. \A i \in keptC : i \in C <=> i \in before
  <2> SUFFICES ASSUME NEW i \in keptC PROVE change[i].at <= t <=> change[i].at <= a
    BY <1>3, <1>4
  <2>1. change[i].at <= t => ~ (change[i].at > a /\ change[i].at < b)
    BY DEF During
  <2> QED
    BY <1>2, <1>3, <2>1
<1>7. \A i \in DOMAIN change \ keptC : i \in C
  <2> SUFFICES ASSUME NEW i \in DOMAIN change \ keptC PROVE change[i].at <= t
    BY <1>4
  <2>1. Retention > 0 /\ change[i].at < clock - Retention
    BY <1>1 DEF ChangesKept
  <2> QED
    BY <1>2, <1>3, <2>1
<1>8. t < Until(0, a, b)
  <2>1. \A j \in During(a, b) : t < change[j].at
    <3>1. \A j \in During(a, b) : j \in DOMAIN change
      BY <1>3 DEF During
    <3> QED
      BY <1>3, <3>1
  <2> QED
    BY <1>1, <1>2, <2>1, UntilIs
<1>9. Covers(CriticalOf(f, a, b), t) <=> LevelBefore(f, a) = "critical" /\ Since(f, a, b) <= t
  <2>1. \A i \in During(a, b) : ~ (change[i].at <= t)
    OBVIOUS
  <2> HIDE DEF a, b
  <2> QED
    BY <1>1, <1>2, <1>8, <2>1, CriticalOfIs
<1>10. \A i \in DOMAIN change : f.seen <= change[i].at
  BY <1>1 DEF LevelLog
<1>11. /\ LevelAt(t) = IF C # {} THEN change[Max(C)].to
                       ELSE IF change # <<>> THEN change[1].from ELSE (CHOOSE g \in first : TRUE).level
       /\ LevelBefore(f, a) = CASE before # {} -> change[Max(before)].to
                                [] before = {} /\ keptC # {} -> change[Min(keptC)].from
                                [] OTHER -> f.level
  BY DEF LevelAt, LevelBefore, UpToTick
<1>12. /\ before # {} => Since(f, a, b) = a
       /\ before = {} => (Since(f, a, b) <= t <=> f.seen <= t)
  <2>1. before # {} <=> \E i \in keptC : change[i].at <= a
    OBVIOUS
  <2> HIDE DEF before
  <2> QED
    BY <1>1, <1>2, <2>1, SinceIs
<1>13. before \subseteq keptC /\ before \subseteq DOMAIN change /\ \A i \in before : change[i].at <= a
  BY <1>3
<1> HIDE DEF C, before, a, b
<1>14. CASE before # {}
  <2>1. Max(before) \in before /\ \A i \in before : i <= Max(before)
    BY <1>1, <1>13, <1>14, OfChanges
  <2>2. C # {}
    BY <1>6, <1>13, <2>1
  <2>3. Max(C) \in C /\ \A i \in C : i <= Max(C)
    BY <1>1, <1>5, <2>2, OfChanges
  <2>4. Max(before) \in C /\ Max(before) <= Max(C)
    BY <1>6, <1>13, <2>1, <2>3
  <2>5. Max(C) \in before
    <3>1. Max(C) = Max(before) \/ Max(before) < Max(C)
      BY <1>3, <1>5, <1>13, <2>1, <2>3, <2>4
    <3>2. Max(C) \in keptC
      BY <1>1, <1>5, <1>13, <2>1, <2>3, <3>1 DEF ChangesKept
    <3> QED
      BY <1>6, <2>3, <3>2
  <2>6. Max(C) = Max(before)
    BY <1>3, <1>5, <1>13, <2>1, <2>3, <2>4, <2>5
  <2>7. f.seen <= t /\ Since(f, a, b) <= t
    BY <1>2, <1>3, <1>10, <1>12, <1>13, <1>14, <2>1
  <2>8. LevelAt(t) = LevelBefore(f, a)
    BY <1>11, <1>14, <2>2, <2>6
  <2> QED
    BY <1>9, <2>7, <2>8 DEF a, b
<1>15. CASE before = {} /\ keptC # {}
  <2> DEFINE k == Min(keptC)
  <2>1. k \in keptC /\ \A i \in keptC : k <= i
    BY <1>1, <1>3, <1>15, OfChanges
  <2> HIDE DEF k
  <2>2. \A i \in DOMAIN change : i \in C <=> i < k
    <3> SUFFICES ASSUME NEW i \in DOMAIN change PROVE i \in C <=> i < k
      OBVIOUS
    <3>1. CASE i \in keptC
      <4>1. i \notin C /\ k <= i /\ k \in Nat /\ i \in Nat
        BY <1>3, <1>6, <1>15, <2>1, <3>1
      <4> QED
        BY <4>1
    <3>2. CASE i \notin keptC
      <4>1. i \in C /\ ~ (k < i) /\ k # i
        BY <1>1, <1>7, <2>1, <3>2 DEF ChangesKept
      <4> QED
        BY <1>3, <2>1, <4>1
    <3> QED
      BY <3>1, <3>2
  <2>3. LevelBefore(f, a) = change[k].from
    BY <1>11, <1>15 DEF k
  <2>4. LevelAt(t) = change[k].from
    <3>1. k \in 1 .. Len(change)
      BY <1>3, <2>1
    <3>2. CASE k = 1
      <4>1. C = {}
        BY <1>3, <1>5, <2>2, <3>2
      <4>2. change # <<>>
        BY <1>3, <3>1
      <4> QED
        BY <1>11, <3>2, <4>1, <4>2
    <3>3. CASE k # 1
      <4>1. k - 1 \in DOMAIN change /\ k \in DOMAIN change /\ (k - 1) + 1 = k
        BY <1>3, <3>1, <3>3
      <4>2. k - 1 \in C /\ C # {}
        BY <1>3, <2>2, <3>1, <4>1
      <4>3. Max(C) \in C /\ \A i \in C : i <= Max(C)
        BY <1>1, <1>5, <4>2, OfChanges
      <4>4. Max(C) = k - 1
        <5>1. Max(C) \in DOMAIN change /\ Max(C) < k /\ k - 1 <= Max(C)
          BY <1>5, <2>2, <4>2, <4>3
        <5> QED
          BY <1>3, <3>1, <5>1
      <4>5. change[k].from = change[k - 1].to
        BY <1>1, <4>1 DEF LevelLog
      <4> QED
        BY <1>11, <4>2, <4>4, <4>5
    <3> QED
      BY <3>2, <3>3
  <2> QED
    BY <1>9, <1>12, <1>15, <2>3, <2>4 DEF a, b
<1>16. CASE before = {} /\ keptC = {}
  <2>1. C = DOMAIN change
    BY <1>5, <1>7, <1>16
  <2>2. LevelBefore(f, a) = f.level
    BY <1>11, <1>16
  <2>3. LevelAt(t) = f.level
    <3>1. CASE change = <<>>
      <4>1. C = {}
        BY <2>1, <3>1
      <4>2. (CHOOSE g \in first : TRUE) = f
        <5>1. (CHOOSE g \in first : TRUE) \in first
          OBVIOUS
        <5> QED
          BY <1>1, <5>1 DEF LevelLog
      <4> QED
        BY <1>11, <3>1, <4>1, <4>2
    <3>2. CASE change # <<>>
      <4>1. Len(change) # 0 /\ Len(change) \in C
        <5>1. change \in Seq(Change)
          BY <1>1 DEF ReportType
        <5>2. Len(change) # 0
          BY <3>2, <5>1, EmptySeq
        <5> QED
          BY <1>3, <2>1, <5>2
      <4>2. Max(C) \in C /\ \A i \in C : i <= Max(C)
        BY <1>1, <1>5, <4>1, OfChanges
      <4>3. Max(C) = Len(change)
        BY <1>3, <2>1, <4>1, <4>2
      <4> QED
        BY <1>1, <1>11, <3>2, <4>1, <4>3 DEF LevelLog
    <3> QED
      BY <3>1, <3>2
  <2> QED
    BY <1>9, <1>12, <1>16, <2>2, <2>3 DEF a, b
<1> QED
  BY <1>14, <1>15, <1>16

(* The site's time at Critical, less its maintenance.                      *)
LEMMA CriticalIs ==
    ASSUME ReportType, LevelLog, basis # "any_down", NEW a \in Nat, NEW b \in Nat
    PROVE  /\ down(a, b) \in Pieces
           /\ \A t \in Nat : Covers(down(a, b), t) <=>
                /\ a <= t /\ t < b /\ ~ Covers(read_maintenance(WholeSite, a, b), t)
                /\ \E f \in first : Covers(CriticalOf(f, a, b), t)
<1> DEFINE g == [f \in first |-> CriticalOf(f, a, b)]
           found == UNION {g[x] : x \in DOMAIN g}
<1>1. read_critical(a, b) = UNION {CriticalOf(f, a, b) : f \in first}
  BY DEF read_critical, CriticalOf, Until, Since, During
<1>2. down(a, b) = subtract(clip(read_critical(a, b), a, b), read_maintenance(WholeSite, a, b))
  BY DEF down
<1>3. UNION {CriticalOf(f, a, b) : f \in first} = found /\ DOMAIN g = first
  OBVIOUS
<1>4. \A f \in first : g[f] = CriticalOf(f, a, b)
  OBVIOUS
<1> HIDE DEF g
<1>5. \A f \in first : g[f] \in Pieces
  BY <1>4, CriticalOfIs
<1>6. IsFiniteSet(first)
  <2>1. \A f \in first : first = {f}
    BY DEF LevelLog
  <2> QED
    BY <2>1, FS_EmptySet, FS_Singleton
<1>7. found \in Pieces /\ \A t : Covers(found, t) <=> \E f \in first : Covers(g[f], t)
  BY <1>3, <1>5, <1>6, UnionPieces
<1> HIDE DEF found
<1>8. /\ clip(found, a, b) \in Pieces
      /\ \A t \in Nat : Covers(clip(found, a, b), t) <=> Covers(found, t) /\ a <= t /\ t < b
  BY <1>7, ClipIs
<1>9. read_maintenance(WholeSite, a, b) \in Pieces
  BY MaintenanceIs
<1>10. /\ down(a, b) \in Pieces
       /\ \A t \in Nat : Covers(down(a, b), t) <=>
            Covers(clip(found, a, b), t) /\ ~ Covers(read_maintenance(WholeSite, a, b), t)
  <2>1. down(a, b) = subtract(clip(found, a, b), read_maintenance(WholeSite, a, b))
    BY <1>1, <1>2, <1>3
  <2> QED
    BY <1>8, <1>9, <2>1, SubtractIs
<1>11. \A t : Covers(found, t) <=> \E f \in first : Covers(CriticalOf(f, a, b), t)
  BY <1>4, <1>7
<1> QED
  BY <1>8, <1>10, <1>11

(* The report's down time is exactly when the site was down.               *)
LEMMA DownTrue ==
    ASSUME LogInv, NEW p \in Periods
    PROVE  /\ down(p[1], p[2]) \in Pieces
           /\ \A t \in Nat : Covers(down(p[1], p[2]), t) <=> p[1] <= t /\ t < p[2] /\ Down(t)
<1> DEFINE a == p[1]
           b == p[2]
<1>1. ReportInv /\ ReportType /\ LevelLog
  BY DEF LogInv, ReportInv
<1>2. a \in Nat /\ b \in Nat
  BY <1>1, PeriodIs
<1>3. \A t \in Nat : a <= t /\ t < b =>
        (Covers(read_maintenance(WholeSite, a, b), t) <=> Covered(WholeSite, t))
  BY <1>1, <1>2, MaintenanceIs
<1>4. CASE basis = "any_down"
  <2>1. /\ down(a, b) \in Pieces
        /\ \A t \in Nat : Covers(down(a, b), t) <=>
             /\ a <= t /\ t < b /\ ~ Covers(read_maintenance(WholeSite, a, b), t)
             /\ \E d \in ReportDevices : Covers(OutageOf(d, a, b), t)
    BY <1>1, <1>2, <1>4, AnyDownIs
  <2>2. \A t \in Nat : a <= t /\ t < b =>
          \A d \in ReportDevices : Covers(OutageOf(d, a, b), t) <=> DeviceDown(d, t) /\ ~ Covered(d, t)
    BY <1>1, OutageTrue
  <2>3. \A t : Down(t) <=> /\ ~ Covered(WholeSite, t)
                           /\ \E d \in ReportDevices : DeviceDown(d, t) /\ ~ Covered(d, t)
    BY <1>4 DEF Down
  <2> HIDE DEF a, b
  <2> QED
    BY <1>3, <2>1, <2>2, <2>3 DEF a, b
<1>5. CASE basis # "any_down"
  <2>1. /\ down(a, b) \in Pieces
        /\ \A t \in Nat : Covers(down(a, b), t) <=>
             /\ a <= t /\ t < b /\ ~ Covers(read_maintenance(WholeSite, a, b), t)
             /\ \E f \in first : Covers(CriticalOf(f, a, b), t)
    BY <1>1, <1>2, <1>5, CriticalIs
  <2>2. \A t \in Nat : a <= t /\ t < b =>
          \A f \in first : Covers(CriticalOf(f, a, b), t) <=> f.seen <= t /\ LevelAt(t) = "critical"
    <3> SUFFICES ASSUME NEW t \in Nat, a <= t, t < b, NEW f \in first
                 PROVE  Covers(CriticalOf(f, a, b), t) <=> f.seen <= t /\ LevelAt(t) = "critical"
      OBVIOUS
    <3>1. CASE \E i \in During(a, b) : change[i].at <= t
      BY <3>1, CriticalLater
    <3>2. CASE \A i \in During(a, b) : ~ (change[i].at <= t)
      BY <3>2, CriticalFirst
    <3> QED
      BY <3>1, <3>2
  <2>3. \A t : Down(t) <=> /\ ~ Covered(WholeSite, t)
                           /\ \E f \in first : f.seen <= t /\ LevelAt(t) = "critical"
    BY <1>5 DEF Down
  <2> HIDE DEF a, b
  <2> QED
    BY <1>3, <2>1, <2>2, <2>3 DEF a, b
<1> QED
  BY <1>4, <1>5

(* In one state, for one period: the outages are the runs of ticks at
   which the site was down. *)
LEMMA OutagesTrue ==
    ASSUME LogInv, NEW p \in Periods
    PROVE  LET ticks == {t \in p[1] .. p[2] - 1 : Down(t)}
               runs  == {r \in (p[1] .. p[2]) \X (p[1] .. p[2]) :
                        /\ r[1] < r[2]
                        /\ \A t \in r[1] .. r[2] - 1 : t \in ticks
                        /\ r[1] - 1 \notin ticks /\ r[2] \notin ticks}
           IN  Range(outages(p[1], p[2])) = runs
<1> DEFINE a == p[1]
           b == p[2]
           m == outages(a, b)
           ticks == {t \in a .. b - 1 : Down(t)}
           runs  == {r \in (a .. b) \X (a .. b) :
                        /\ r[1] < r[2]
                        /\ \A t \in r[1] .. r[2] - 1 : t \in ticks
                        /\ r[1] - 1 \notin ticks /\ r[2] \notin ticks}
<1>1. a \in Nat /\ b \in Nat
  BY PeriodIs DEF LogInv, ReportInv
<1>2. /\ down(a, b) \in Pieces
      /\ \A t \in Nat : Covers(down(a, b), t) <=> a <= t /\ t < b /\ Down(t)
  BY DownTrue
<1> HIDE DEF a, b
<1>3. Apart(m) /\ \A t \in Nat : Covers(Range(m), t) <=> Covers(down(a, b), t)
  BY <1>2, UnionIs DEF Pieces, outages
<1>4. \A t \in Nat : t \in ticks <=> a <= t /\ t < b /\ Down(t)
  BY <1>1
<1>5. \A t \in ticks : t \in Nat /\ t \in a .. b - 1
  BY <1>1
<1> HIDE DEF m, ticks
<1>6. m \in Seq(Interval) /\ \A j \in 1 .. Len(m) : m[j] \in Interval /\ m[j][1] < m[j][2]
  BY <1>3 DEF Apart
<1>7. \A x \in Interval : x[1] \in Nat /\ x[2] \in Nat /\ x = <<x[1], x[2]>>
  BY DEF Interval
<1>8. \A t \in Int : Covers(Range(m), t) <=> t \in ticks
  <2>1. \A t \in Int : Covers(Range(m), t) => t \in Nat
    BY <1>6, <1>7, CoversAt
  <2> QED
    BY <1>2, <1>3, <1>4, <1>5, <2>1
<1>9. \A r \in Interval : r[1] < r[2] => (r \in Range(m) <=>
             /\ \A t \in r[1] .. r[2] - 1 : t \in ticks
             /\ r[1] - 1 \notin ticks /\ r[2] \notin ticks)
  <2> SUFFICES ASSUME NEW r \in Interval, r[1] < r[2]
               PROVE  r \in Range(m) <=>
                        /\ \A t \in r[1] .. r[2] - 1 : t \in ticks
                        /\ r[1] - 1 \notin ticks /\ r[2] \notin ticks
    OBVIOUS
  <2>1. r[1] - 1 \in Int /\ r[2] \in Int /\ \A t \in r[1] .. r[2] - 1 : t \in Int
    BY <1>7
  <2> QED
    BY <1>3, <1>8, <2>1, RunsAre
<1>10. \A x \in Range(m) : x \in Interval /\ x[1] < x[2]
  BY <1>6 DEF Range
<1>11. ASSUME NEW r \in Interval, r[1] < r[2], \A t \in r[1] .. r[2] - 1 : t \in ticks
       PROVE  r \in (a .. b) \X (a .. b)
  <2>1. r[1] \in Nat /\ r[2] \in Nat /\ r = <<r[1], r[2]>>
    BY <1>7
  <2>2. r[1] \in ticks /\ r[2] - 1 \in ticks
    BY <1>11, <2>1
  <2>3. r[1] \in a .. b /\ r[2] \in a .. b
    BY <1>1, <1>5, <1>11, <2>1, <2>2
  <2> QED
    BY <2>1, <2>3
<1>12. \A r \in (a .. b) \X (a .. b) : r \in Interval
  BY <1>1 DEF Interval
<1>13. Range(m) = runs
  BY <1>9, <1>10, <1>11, <1>12
<1> QED
  BY <1>13 DEF a, b, m, ticks

(* The availability report is exact: its outages are the runs of ticks at
   which the site was down and not in maintenance, for either basis and
   any period that may be asked for, as long as one batch of the retention
   holds the level changes due. (Two batches may take a later change
   first; a report between them takes the site to be at the level of the
   earlier one.) *)
THEOREM ReportIsExact == ReportSpec /\ []OneBatch => []ReportExact
<1>1. LogInv => ReportExact
  BY OutagesTrue DEF ReportExact
<1> QED
  BY <1>1, LogInvariant, PTL
-----------------------------------------------------------------------------
(* The seconds of no interval, and of one.                                 *)
LEMMA SecondsIs ==
    /\ seconds({}) = 0
    /\ \A x \in Interval : seconds({x}) = IF x[1] < x[2] THEN x[2] - x[1] ELSE 0
<1>1. FoldLeft(Longer, 0, <<>>) = 0
  <2> DEFINE Is(f) == f = [z \in SUBSET DOMAIN <<>> |->
                             IF z = {} THEN 0 ELSE Longer(f[z \ {Max(z)}], <<>>[Max(z)])]
             h == [z \in SUBSET {} |-> 0]
  <2>1. DOMAIN <<>> = {} /\ SUBSET {} = {{}}
    OBVIOUS
  <2>2. Is(h)
    BY <2>1
  <2> HIDE DEF h
  <2>3. PICK f : Is(f) /\ FoldLeft(Longer, 0, <<>>) = f[DOMAIN <<>>]
    BY <2>2 DEF FoldLeft, MapThenFoldSet
  <2> QED
    BY <2>1, <2>3
<1>2. ASSUME NEW x \in Interval
      PROVE  FoldLeft(Longer, 0, <<x>>) = x[2] - x[1]
  <2> DEFINE s == <<x>>
             Is(f) == f = [z \in SUBSET DOMAIN s |->
                             IF z = {} THEN 0 ELSE Longer(f[z \ {Max(z)}], s[Max(z)])]
             h == [z \in SUBSET {1} |-> IF z = {} THEN 0 ELSE Longer(0, x)]
  <2>1. DOMAIN s = {1} /\ s[1] = x
    <3>1. DOMAIN s = 1 .. 1 /\ s[1] = x /\ 1 .. 1 = {1}
      OBVIOUS
    <3> HIDE DEF s
    <3> QED
      BY <3>1, Zenon
  <2>2. /\ {1} \ {1} = {} /\ {} \in SUBSET {1} /\ {1} \in SUBSET {1}
        /\ \A z \in SUBSET {1} : z = {} \/ z = {1}
    <3>1. ASSUME NEW z \in SUBSET {1}, z # {}
          PROVE  z = {1}
      BY <3>1
    <3>2. \A z \in SUBSET {1} : z = {} \/ z = {1}
      BY <3>1, Zenon
    <3> HIDE DEF h, s
    <3> QED
      BY <3>2
  <2>3. Max({1}) = 1
    <3>1. \E y \in {1} : \A n \in {1} : y >= n
      OBVIOUS
    <3>2. Max({1}) \in {1}
      BY <3>1 DEF Max
    <3> QED
      BY <3>2
  <2> HIDE DEF s
  <2>4. ASSUME NEW z \in SUBSET {1}
        PROVE  h[z] = IF z = {} THEN 0 ELSE Longer(h[z \ {Max(z)}], s[Max(z)])
    <3>1. CASE z = {}
      BY <3>1
    <3>2. CASE z = {1}
      <4>1. h[{1}] = Longer(0, x) /\ h[{}] = 0
        BY <2>2
      <4> QED
        BY <2>1, <2>2, <2>3, <3>2, <4>1
    <3> QED
      BY <2>2, <3>1, <3>2
  <2>5. h = [z \in SUBSET {1} |->
               IF z = {} THEN 0 ELSE Longer(h[z \ {Max(z)}], s[Max(z)])]
    <3>1. h = [z \in SUBSET {1} |-> h[z]]
      OBVIOUS
    <3> HIDE DEF h
    <3> QED
      BY <2>4, <3>1
  <2> HIDE DEF h
  <2>6. Is(h)
    BY <2>1, <2>5, Zenon
  <2>7. PICK f : Is(f) /\ FoldLeft(Longer, 0, s) = f[DOMAIN s]
    BY <2>6 DEF FoldLeft, MapThenFoldSet
  <2>8. f = [z \in SUBSET {1} |->
                IF z = {} THEN 0 ELSE Longer(f[z \ {Max(z)}], s[Max(z)])]
    BY <2>1, <2>7, Zenon
  <2>9. f[{1}] = Longer(f[{}], x) /\ f[{}] = 0
    <3>1. ASSUME NEW z \in SUBSET {1}
          PROVE  f[z] = IF z = {} THEN 0 ELSE Longer(f[z \ {Max(z)}], s[Max(z)])
      BY <2>8, Zenon
    <3>2. {1} # {}
      OBVIOUS
    <3>3. f[{1}] = Longer(f[{1} \ {Max({1})}], s[Max({1})])
      BY <2>2, <3>1, <3>2, Zenon
    <3>4. f[{}] = 0
      BY <2>2, <3>1, Zenon
    <3>5. Longer(f[{1} \ {Max({1})}], s[Max({1})]) = Longer(f[{}], x)
      BY <2>1, <2>2, <2>3, Zenon
    <3> QED
      BY <3>3, <3>4, <3>5, Zenon
  <2>10. x[1] \in Nat /\ x[2] \in Nat
    BY DEF Interval
  <2>11. FoldLeft(Longer, 0, s) = f[{1}]
    BY <2>1, <2>7, Zenon
  <2>12. f[{1}] = x[2] - x[1]
    BY <2>9, <2>10 DEF Longer
  <2> QED
    BY <2>11, <2>12, Zenon DEF s
<1>3. Apart(<<>>) /\ \A t : ~ Covers(Range(<<>>), t)
  BY DEF Apart, Covers, Range
<1>4. union({}) = <<>>
  <2>1. {} \in SUBSET Interval /\ IsFiniteSet({})
    BY FS_EmptySet
  <2>2. Apart(union({})) /\ \A t \in Nat : Covers(Range(union({})), t) <=> Covers({}, t)
    BY <2>1, UnionIs
  <2> QED
    BY <1>3, <2>2, FewPieces, ApartUnique
<1>5. ASSUME NEW x \in Interval
      PROVE  seconds({x}) = IF x[1] < x[2] THEN x[2] - x[1] ELSE 0
  <2>1. {x} \in SUBSET Interval /\ IsFiniteSet({x}) /\ x[1] \in Nat /\ x[2] \in Nat
    <3>1. IsFiniteSet({x})
      BY FS_Singleton, Zenon
    <3> QED
      BY <3>1 DEF Interval
  <2>2. Apart(union({x})) /\ \A t \in Nat : Covers(Range(union({x})), t) <=> Covers({x}, t)
    BY <2>1, UnionIs
  <2>3. CASE x[1] < x[2]
    <3>1. /\ <<x>> \in Seq(Interval) /\ Len(<<x>>) = 1 /\ <<x>>[1] = x /\ Range(<<x>>) = {x}
          /\ \A j \in 1 .. 1 : j = 1
      BY DEF Range
    <3>2. Apart(<<x>>)
      BY <2>3, <3>1 DEF Apart
    <3>3. union({x}) = <<x>>
      BY <2>2, <3>1, <3>2, ApartUnique
    <3> QED
      BY <1>2, <2>3, <3>3 DEF seconds
  <2>4. CASE ~ (x[1] < x[2])
    <3>1. \A t \in Nat : ~ Covers({x}, t)
      BY <2>1, <2>4 DEF Covers
    <3>2. union({x}) = <<>>
      BY <1>3, <2>2, <3>1, ApartUnique
    <3> QED
      BY <1>1, <2>4, <3>2 DEF seconds
  <2> QED
    BY <2>3, <2>4
<1> QED
  BY <1>1, <1>4, <1>5 DEF seconds

(* What of an interval is in a period.                                     *)
LEMMA ClipOne ==
    ASSUME NEW x \in Interval, NEW a \in Nat, NEW b \in Nat, a < b
    PROVE  LET out == seconds(clip({x}, a, b)) IN
           /\ out \in Nat
           /\ out > 0 <=> x[1] < x[2] /\ x[1] < b /\ a < x[2]
           /\ out > 0 => out <= x[2] - x[1] /\ out <= b - x[1]
<1>1. x[1] \in Nat /\ x[2] \in Nat
  BY DEF Interval
<1> DEFINE y == <<Max({x[1], a}), Min({x[2], b})>>
<1>2. /\ Max({x[1], a}) \in {x[1], a} /\ Max({x[1], a}) >= x[1] /\ Max({x[1], a}) >= a
      /\ Min({x[2], b}) \in {x[2], b} /\ Min({x[2], b}) <= x[2] /\ Min({x[2], b}) <= b
  BY <1>1, OfTwo
<1>3. y \in Interval /\ y[1] = Max({x[1], a}) /\ y[2] = Min({x[2], b}) /\ y[1] \in Nat /\ y[2] \in Nat
  BY <1>1, <1>2 DEF Interval
<1>4. CASE x[2] > a /\ x[1] < b
  <2>1. {j \in {x} : j[2] > a /\ j[1] < b} = {x}
    BY <1>4
  <2>2. clip({x}, a, b) = {y}
    BY <2>1 DEF clip
  <2> HIDE DEF y
  <2>3. seconds(clip({x}, a, b)) = IF y[1] < y[2] THEN y[2] - y[1] ELSE 0
    BY <1>3, <2>2, SecondsIs
  <2> QED
    BY <1>1, <1>2, <1>3, <1>4, <2>3
<1>5. CASE ~ (x[2] > a /\ x[1] < b)
  <2>1. {j \in {x} : j[2] > a /\ j[1] < b} = {}
    BY <1>5
  <2>2. clip({x}, a, b) = {}
    BY <2>1 DEF clip
  <2>3. seconds(clip({x}, a, b)) = 0
    BY <2>2, SecondsIs
  <2> QED
    BY <1>1, <1>5, <2>3
<1> QED
  BY <1>4, <1>5

(* What a window took out of the period, and what the history says of it.  *)
LEMMA HistoryOf ==
    ASSUME ReportType, RowsInTime, NEW i \in Windows, NEW a \in Nat, NEW b \in Nat, a < b, b <= clock
    PROVE  LET w == window[i]
               out == seconds(clip({WindowSpan(w)}, a, b))
               ran == history_minutes(w, clock)
           IN  /\ out \in Nat
               /\ out > 0 => i \in history(a, b) /\ out <= ran
               /\ i \in history(a, b) /\ ~ (out > 0) => ran = 0
               /\ i \in history(a, b) /\ WindowSpan(w) \notin read_maintenance(w.device, a, b) => ran = 0
<1> DEFINE w == window[i]
           span == WindowSpan(w)
           last == Min({w.ends} \cup w.ended)
           out == seconds(clip({span}, a, b))
           ran == history_minutes(w, clock)
           stop == Min({clock} \cup (IF w.ended = {} THEN {w.ends} ELSE w.ended))
<1>1. /\ span \in Interval /\ span[1] = w.starts /\ span[2] = last
      /\ w.starts \in Nat /\ w.ends \in Nat /\ w.ended \subseteq Nat /\ clock \in Nat
      /\ last \in {w.ends} \cup w.ended
      /\ \A t \in Nat : t < last <=> t < w.ends /\ \A e \in w.ended : t < e
  BY WindowSpanIs DEF ReportType
<1>2. w.starts < w.ends /\ (\A e \in w.ended : e < w.ends) /\ \A d, e \in w.ended : d = e
  BY DEF RowsInTime, EndsInTime
<1>3. /\ out \in Nat
      /\ out > 0 <=> span[1] < span[2] /\ span[1] < b /\ a < span[2]
      /\ out > 0 => out <= span[2] - span[1] /\ out <= b - span[1]
  <2> HIDE DEF span
  <2> QED
    BY <1>1, ClipOne
<1>4. i \in history(a, b) <=> /\ w.starts < b /\ w.ends > a
                              /\ w.ended = {} \/ \E e \in w.ended : e > a \/ e < w.starts
  BY DEF history
<1>5. span \notin read_maintenance(w.device, a, b) =>
        ~ (/\ w.starts < b /\ w.ends > a /\ \A e \in w.ended : e > w.starts)
  BY DEF read_maintenance
<1>6. stop \in Nat /\ stop \in {clock} \cup (IF w.ended = {} THEN {w.ends} ELSE w.ended)
      /\ \A n \in {clock} \cup (IF w.ended = {} THEN {w.ends} ELSE w.ended) : stop <= n
  <2> DEFINE S == {clock} \cup (IF w.ended = {} THEN {w.ends} ELSE w.ended)
  <2>1. S \in SUBSET Nat /\ S # {}
    BY <1>1
  <2> HIDE DEF S
  <2>2. Min(S) \in S /\ \A n \in S : Min(S) <= n
    BY <2>1, MinIsChosen
  <2>3. Min(S) \in Nat
    BY <2>1, <2>2
  <2> QED
    BY <2>2, <2>3 DEF S
<1>7. ran = Max({0, stop - w.starts})
  BY DEF history_minutes
<1> HIDE DEF span, last, out, ran, stop, w
<1>8. /\ stop <= w.starts => ran = 0
      /\ stop > w.starts => ran = stop - w.starts
  <2>1. CASE stop > w.starts
    <3>1. stop - w.starts \in Nat /\ 0 \in Nat
      BY <1>1, <1>6, <2>1
    <3>2. ran \in {0, stop - w.starts} /\ ran >= 0 /\ ran >= stop - w.starts
      BY <1>7, <3>1, OfTwo
    <3> QED
      BY <1>1, <1>6, <2>1, <3>1, <3>2
  <2>2. CASE stop <= w.starts
    <3> DEFINE d == stop - w.starts
    <3>1. d \in Int /\ d <= 0
      BY <1>1, <1>6, <2>2
    <3> HIDE DEF d
    <3>2. \E x \in {0, d} : \A y \in {0, d} : x >= y
      BY <3>1
    <3>3. Max({0, d}) \in {0, d} /\ \A y \in {0, d} : Max({0, d}) >= y
      BY <3>2 DEF Max
    <3> QED
      BY <1>1, <1>6, <1>7, <2>2, <3>1, <3>3 DEF d
  <2> QED
    BY <1>1, <1>6, <2>1, <2>2
<1>9. last \in Nat /\ stop <= last /\ (last <= clock => stop = last) /\ (clock <= last => stop = clock)
  <2>1. last \in Nat /\ last <= w.ends /\ \A e \in w.ended : last <= e
    <3>1. last \in Nat
      BY <1>1
    <3>2. ~ (last < last)
      BY <3>1
    <3>3. \A n \in {w.ends} \cup w.ended : n < last => n < n
      BY <1>1
    <3> QED
      BY <1>1, <3>1, <3>3
  <2>2. CASE w.ended = {}
    BY <1>1, <1>6, <2>1, <2>2
  <2>3. CASE w.ended # {}
    <3>1. last \in w.ended
      BY <1>1, <1>2, <2>1, <2>3
    <3>2. stop = clock \/ stop \in w.ended
      BY <1>6, <2>3
    <3>3. stop <= clock /\ stop <= last
      BY <1>6, <2>3, <3>1
    <3> QED
      BY <1>1, <1>6, <2>1, <3>2, <3>3
  <2> QED
    BY <2>2, <2>3
<1>10. last <= w.ends /\ (\A e \in w.ended : last <= e) /\ (last = w.ends \/ last \in w.ended)
  <2>1. ~ (last < last) /\ last \in {w.ends} \cup w.ended
    BY <1>1, <1>9
  <2>2. \A n \in {w.ends} \cup w.ended : n < last => n < n
    BY <1>1
  <2> QED
    BY <1>1, <1>9, <2>1, <2>2
<1>11. ASSUME out > 0
       PROVE  i \in history(a, b) /\ out <= ran
  <2>1. w.starts < last /\ w.starts < b /\ a < last /\ out <= last - w.starts /\ out <= b - w.starts
    BY <1>1, <1>3, <1>11
  <2>2. w.ends > a /\ \A e \in w.ended : e > a
    BY <1>1, <1>9, <1>10, <2>1
  <2>3. i \in history(a, b)
    BY <1>4, <2>1, <2>2
  <2>4. stop > w.starts /\ (stop = last \/ stop = clock)
    BY <1>1, <1>9, <2>1
  <2> QED
    BY <1>1, <1>3, <1>8, <1>9, <2>1, <2>3, <2>4
<1>12. ASSUME i \in history(a, b), ~ (out > 0)
       PROVE  ran = 0
  <2>1. w.starts < b /\ w.ends > a /\ (w.ended = {} \/ \E e \in w.ended : e > a \/ e < w.starts)
    BY <1>4, <1>12
  <2>2. ~ (w.starts < last /\ a < last)
    BY <1>1, <1>3, <1>12, <2>1
  <2>3. last <= w.starts
    <3>1. CASE w.ended = {}
      BY <1>1, <1>2, <1>10, <2>1, <2>2, <3>1
    <3>2. CASE w.ended # {}
      <4>1. last \in w.ended
        BY <1>1, <1>2, <1>10, <3>2
      <4>2. last > a \/ last < w.starts
        BY <1>2, <2>1, <3>2, <4>1
      <4> QED
        BY <1>1, <1>9, <2>2, <4>2
    <3> QED
      BY <3>1, <3>2
  <2> QED
    BY <1>1, <1>6, <1>8, <1>9, <2>3
<1>13. ASSUME i \in history(a, b), span \notin read_maintenance(w.device, a, b)
       PROVE  ran = 0
  <2>1. \E e \in w.ended : ~ (e > w.starts)
    BY <1>4, <1>5, <1>13
  <2>2. last <= w.starts
    BY <1>1, <1>9, <1>10, <2>1
  <2> QED
    BY <1>1, <1>6, <1>8, <1>9, <2>2
<1> QED
  BY <1>3, <1>11, <1>12, <1>13 DEF span, last, out, ran, stop, w

(* The maintenance history and the report agree on what each window took
   out of the period asked about. *)
THEOREM HistoryAgrees == ReportSpec => []HistoryCovers
<1>1. ReportInv => HistoryCovers
  <2> SUFFICES ASSUME ReportInv, NEW p \in Periods
               PROVE  LET out(i) == seconds(clip({WindowSpan(window[i])}, p[1], p[2]))
                          in     == {i \in Windows : WindowSpan(window[i]) \in
                                       read_maintenance(window[i].device, p[1], p[2]) /\ out(i) > 0}
                      IN  /\ in \subseteq history(p[1], p[2])
                          /\ \A i \in in : out(i) <= history_minutes(window[i], clock)
                          /\ \A i \in history(p[1], p[2]) \ in :
                               history_minutes(window[i], clock) = 0
    BY DEF HistoryCovers
  <2> DEFINE out(i) == seconds(clip({WindowSpan(window[i])}, p[1], p[2]))
             ran(i) == history_minutes(window[i], clock)
             took(i) == WindowSpan(window[i]) \in read_maintenance(window[i].device, p[1], p[2])
             in     == {i \in Windows : took(i) /\ out(i) > 0}
             listed == history(p[1], p[2])
  <2>1. /\ ReportType /\ RowsInTime
        /\ p[1] \in Nat /\ p[2] \in Nat /\ p[1] < p[2] /\ p[2] <= clock
    BY PeriodIs DEF ReportInv
  <2>2. ASSUME NEW i \in Windows
        PROVE  /\ out(i) > 0 => i \in listed /\ out(i) <= ran(i)
               /\ i \in listed /\ ~ (out(i) > 0) => ran(i) = 0
               /\ i \in listed /\ ~ took(i) => ran(i) = 0
    BY <2>1, HistoryOf
  <2>3. listed \subseteq Windows
    BY DEF history
  <2> HIDE DEF out, ran, took, listed
  <2>4. in \subseteq listed /\ (\A i \in in : out(i) <= ran(i)) /\ \A i \in listed \ in : ran(i) = 0
    BY <2>2, <2>3
  <2> QED
    BY <2>4 DEF out, ran, took, listed
<1>2. ReportSpec => []ReportInv
  BY ReportInvariant
<1> QED
  BY <1>1, <1>2, PTL
=============================================================================
