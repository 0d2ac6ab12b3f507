------------------------- MODULE AlertLifecycleProofs -------------------------
(***************************************************************************)
(* Proofs about AlertLifecycle, for any number of devices, builds,         *)
(* acknowledgements, alerts and failures: a device has at most one open    *)
(* alert, an outage ends no earlier than it began, its history is kept, an *)
(* acknowledgement lands on open alerts only, and maintenance freezes one. *)
(***************************************************************************)
EXTENDS AlertLifecycle, FiniteSetTheorems, WellFoundedInduction, TLAPS

(* A row of alert_instances.                                               *)
Row == [status : {"none", "open", "resolved"}, device : 0 .. NDevices, started : Nat,
        resolved : Nat, downtime : Nat, acked : BOOLEAN]

Observation == [down : SUBSET Devices, windows : SUBSET Devices, known : BOOLEAN,
                since : [Devices -> Nat], at : Nat]

Places == {"idle", "observed", "look", "again", "insert", "refresh", "resolve", "lock"}

TypeOK ==
    /\ clock \in Nat /\ down \subseteq Devices /\ since \in [Devices -> Nat]
    /\ windows \subseteq Devices
    /\ alert \in [Ids -> Row]
    /\ DOMAIN draft = Txns
    /\ \A t \in Txns : /\ DOMAIN draft[t] \subseteq Ids
                       /\ \A i \in DOMAIN draft[t] : draft[t][i] \in Row
    /\ pc \in [Txns -> Places]
    /\ obs \in [Builders -> Observation]
    /\ DOMAIN todo = Txns
    /\ cur \in [Builders -> Ids \cup {0}]

(* An outage that ended did so no earlier than it began, after no more
   downtime; one that has not has counted none. *)
Sound(row) ==
    /\ row.status # "none" => row.device \in Devices
    /\ row.status # "resolved" => row.downtime = 0
    /\ row.status = "resolved" => /\ row.started <= row.resolved
                                  /\ row.downtime <= row.resolved - row.started

(* What a build may make of a row: it stays the same device's, starts no
   later, its acknowledgement stays, and an end is final. *)
Succeeds(old, new) ==
    /\ new.status # "none" /\ new.acked = old.acked
    /\ old.status # "none" => new.device = old.device /\ new.started <= old.started
    /\ old.status = "resolved" => /\ new.status = "resolved"
                                  /\ new.resolved = old.resolved
                                  /\ new.downtime = old.downtime

TableSound ==
    \A i \in Ids : Sound(alert[i]) /\ (alert[i].status = "none" => alert[i] = NoRow)

DraftsSucceed ==
    \A t \in Txns : \A i \in DOMAIN draft[t] :
        Sound(draft[t][i]) /\ Succeeds(alert[i], draft[t][i])

(* A row is changed or locked by one transaction at a time.                *)
Exclusive ==
    \A t, u \in Txns : t # u => DOMAIN draft[t] \cap DOMAIN draft[u] = {}

(* The alerts of a device that are open, or will be when a transaction that
   is under way commits: never two. *)
MayBeOpen(d) ==
    {i \in Ids : \/ alert[i].status = "open" /\ alert[i].device = d
                 \/ \E t \in Txns : /\ i \in DOMAIN draft[t]
                                    /\ draft[t][i].status = "open"
                                    /\ draft[t][i].device = d}

OneMayBeOpen ==
    \A d \in Devices : \A i, j \in MayBeOpen(d) : i = j

(* What a build knows at each place: a row it has found may have been changed
   since, but is still the device's and has started no later. *)
Building(b) ==
    /\ pc[b] # "lock"
    /\ pc[b] \in {"idle", "observed"} => DOMAIN draft[b] = {}
    /\ pc[b] \in {"look", "again", "insert", "refresh"} =>
         todo[b] \subseteq Devices \ obs[b].windows
    /\ pc[b] \in {"again", "insert", "refresh"} => todo[b] # {}
    /\ pc[b] = "insert" => \A i \in DOMAIN draft[b] :
         ~ (draft[b][i].status = "open" /\ draft[b][i].device = Device(b))
    /\ pc[b] = "refresh" => /\ cur[b] \in Ids
                            /\ View(b, cur[b]).status # "none"
                            /\ View(b, cur[b]).device = Device(b)
    /\ pc[b] = "resolve" => \A x \in todo[b] :
         /\ x \in Ids \X Nat
         /\ View(b, x[1]).status # "none"
         /\ View(b, x[1]).started <= x[2]
         /\ View(b, x[1]).device \notin Kept(b)
    /\ \A i \in DOMAIN draft[b] : draft[b][i].device \notin obs[b].windows

(* An operator has locked open alerts, and has not changed them.           *)
Acknowledging(o) ==
    /\ pc[o] \in {"idle", "lock"}
    /\ pc[o] = "lock" => todo[o] \subseteq Ids
    /\ \A i \in DOMAIN draft[o] : draft[o][i] = alert[i] /\ alert[i].status = "open"

AllBuilding == \A b \in Builders : Building(b)
AllAcknowledging == \A o \in Operators : Acknowledging(o)

LifecycleInv ==
    /\ TypeOK /\ TableSound /\ DraftsSucceed /\ Exclusive /\ OneMayBeOpen
    /\ AllBuilding /\ AllAcknowledging
-----------------------------------------------------------------------------
(* A nonempty set of numbers has a least one: Device and NextId are of the
   set they are chosen from. *)
LEMMA LeastIsChosen ==
    ASSUME NEW S \in SUBSET Nat, S # {}
    PROVE  (CHOOSE m \in S : \A n \in S : m <= n) \in S
<1>1. PICK m \in S : \A n \in S : ~ (<<n, m>> \in OpToRel(<, Nat))
  BY NatLessThanWellFounded, WFMin, Zenon
<1>2. \A n \in S : ~ (n < m)
  BY <1>1, Zenon DEF OpToRel
<1>3. \A n \in S : m <= n
  BY <1>2
<1> QED
  BY <1>3

(* The device a build is at is one of those it has to do.                  *)
LEMMA DeviceIsOwed ==
    ASSUME LifecycleInv, NEW b \in Builders,
           pc[b] \in {"look", "again", "insert", "refresh"}, todo[b] # {}
    PROVE  /\ Device(b) \in todo[b]
           /\ Device(b) \in Devices
           /\ Device(b) \notin obs[b].windows
<1>1. Building(b)
  BY DEF LifecycleInv, AllBuilding
<1>2. todo[b] \subseteq Devices \ obs[b].windows
  BY <1>1 DEF Building
<1>3. todo[b] \in SUBSET Nat
  BY <1>2 DEF Devices
<1>4. Device(b) \in todo[b]
  BY <1>3, LeastIsChosen DEF Device
<1> QED
  BY <1>2, <1>4

(* The alert the next mark is put on is one of those asked for.            *)
LEMMA NextIdIsOwed ==
    ASSUME LifecycleInv, NEW o \in Operators, pc[o] = "lock", todo[o] # {}
    PROVE  NextId(o) \in Ids
<1>1. Acknowledging(o)
  BY DEF LifecycleInv, AllAcknowledging
<1>2. todo[o] \subseteq Ids
  BY <1>1 DEF Acknowledging
<1>3. todo[o] \in SUBSET Nat
  BY <1>2 DEF Ids
<1> QED
  BY <1>2, <1>3, LeastIsChosen DEF NextId

(* What a transaction sees of a row is a row, and holds what rows hold.     *)
LEMMA ViewIsRow ==
    ASSUME LifecycleInv, NEW t \in Txns, NEW i \in Ids
    PROVE  /\ View(t, i) \in Row
           /\ Sound(View(t, i))
           /\ alert[i] \in Row
           /\ View(t, i).status # "none" => Succeeds(alert[i], View(t, i))
           /\ View(t, i).status = "open" => i \in MayBeOpen(View(t, i).device)
<1>1. /\ alert \in [Ids -> Row]
      /\ \A j \in DOMAIN draft[t] : draft[t][j] \in Row
  BY DEF LifecycleInv, TypeOK
<1>2. alert[i] \in Row
  BY <1>1
<1>3. CASE i \in DOMAIN draft[t]
  <2>1. View(t, i) = draft[t][i]
    BY <1>3 DEF View
  <2>2. Sound(draft[t][i]) /\ Succeeds(alert[i], draft[t][i])
    BY <1>3 DEF LifecycleInv, DraftsSucceed
  <2> QED
    BY <1>1, <1>2, <1>3, <2>1, <2>2 DEF MayBeOpen
<1>4. CASE i \notin DOMAIN draft[t]
  <2>1. View(t, i) = alert[i]
    BY <1>4 DEF View
  <2>2. Sound(alert[i])
    BY DEF LifecycleInv, TableSound
  <2>3. alert[i].status # "none" => Succeeds(alert[i], alert[i])
    BY <1>2 DEF Succeeds, Row
  <2> QED
    BY <1>2, <2>1, <2>2, <2>3 DEF MayBeOpen
<1> QED
  BY <1>3, <1>4
-----------------------------------------------------------------------------
(* A committed row goes on: it stays the device's and starts no later.      *)
GoesOn(old, new) ==
    old.status # "none" => /\ new.status # "none"
                           /\ new.device = old.device
                           /\ new.started <= old.started

(* A build is not disturbed by what another transaction does, commits of it
   included: it has read rows before, and locks none it only read. *)
LEMMA BystanderBuilds ==
    ASSUME LifecycleInv, NEW b \in Builders,
           pc'[b] = pc[b], todo'[b] = todo[b], obs'[b] = obs[b], cur'[b] = cur[b],
           draft'[b] = draft[b], alert' \in [Ids -> Row],
           \A i \in Ids : GoesOn(alert[i], alert'[i])
    PROVE  Building(b)'
<1>1. Building(b)
  BY DEF LifecycleInv, AllBuilding
<1>2. alert \in [Ids -> Row] /\ DOMAIN draft[b] \subseteq Ids
  BY DEF LifecycleInv, TypeOK, Txns
<1>3. \A i \in Ids : GoesOn(View(b, i), View(b, i)')
  <2> SUFFICES ASSUME NEW i \in Ids PROVE GoesOn(View(b, i), View(b, i)')
    OBVIOUS
  <2>1. CASE i \in DOMAIN draft[b]
    <3>1. View(b, i) = draft[b][i] /\ View(b, i)' = draft[b][i]
      BY <2>1 DEF View
    <3>2. draft[b][i] \in Row
      BY <2>1 DEF LifecycleInv, TypeOK, Txns
    <3> QED
      BY <3>1, <3>2 DEF GoesOn, Row
  <2>2. CASE i \notin DOMAIN draft[b]
    <3>1. View(b, i) = alert[i] /\ View(b, i)' = alert'[i]
      BY <2>2 DEF View
    <3> QED
      BY <3>1
  <2> QED
    BY <2>1, <2>2
<1>4. Device(b)' = Device(b) /\ Kept(b)' = Kept(b)
  BY DEF Device, Kept
<1>5. /\ (pc[b] # "lock")'
      /\ (pc[b] \in {"idle", "observed"} => DOMAIN draft[b] = {})'
      /\ (pc[b] \in {"look", "again", "insert", "refresh"} =>
            todo[b] \subseteq Devices \ obs[b].windows)'
      /\ (pc[b] \in {"again", "insert", "refresh"} => todo[b] # {})'
      /\ (\A i \in DOMAIN draft[b] : draft[b][i].device \notin obs[b].windows)'
  BY <1>1 DEF Building
<1>6. (pc[b] = "insert" => \A i \in DOMAIN draft[b] :
         ~ (draft[b][i].status = "open" /\ draft[b][i].device = Device(b)))'
  BY <1>1, <1>4 DEF Building
<1>7. (pc[b] = "refresh" => /\ cur[b] \in Ids
                            /\ View(b, cur[b]).status # "none"
                            /\ View(b, cur[b]).device = Device(b))'
  <2> SUFFICES ASSUME pc[b] = "refresh"
               PROVE  /\ cur[b] \in Ids
                      /\ View(b, cur[b])'.status # "none"
                      /\ View(b, cur[b])'.device = Device(b)
    BY <1>4 DEF View
  <2>1. /\ cur[b] \in Ids
        /\ View(b, cur[b]).status # "none"
        /\ View(b, cur[b]).device = Device(b)
    BY <1>1 DEF Building
  <2>2. GoesOn(View(b, cur[b]), View(b, cur[b])')
    <3>1. \A i \in Ids : i = cur[b] => View(b, i)' = View(b, cur[b])'
      BY DEF View
    <3> QED
      BY <1>3, <2>1, <3>1
  <2> QED
    BY <2>1, <2>2 DEF GoesOn
<1>8. (pc[b] = "resolve" => \A x \in todo[b] :
         /\ x \in Ids \X Nat
         /\ View(b, x[1]).status # "none"
         /\ View(b, x[1]).started <= x[2]
         /\ View(b, x[1]).device \notin Kept(b))'
  <2> SUFFICES ASSUME pc[b] = "resolve", NEW x \in todo[b]
               PROVE  /\ x \in Ids \X Nat
                      /\ View(b, x[1])'.status # "none"
                      /\ View(b, x[1])'.started <= x[2]
                      /\ View(b, x[1])'.device \notin Kept(b)
    BY <1>4 DEF View
  <2>1. /\ x \in Ids \X Nat
        /\ View(b, x[1]).status # "none"
        /\ View(b, x[1]).started <= x[2]
        /\ View(b, x[1]).device \notin Kept(b)
    BY <1>1 DEF Building
  <2>2. x[1] \in Ids /\ x[2] \in Nat
    BY <2>1
  <2>3. GoesOn(View(b, x[1]), View(b, x[1])')
    BY <1>3, <2>2
  <2>4. View(b, x[1])'.started <= View(b, x[1]).started
    BY <2>1, <2>3 DEF GoesOn
  <2>5. View(b, x[1]) \in Row /\ View(b, x[1])' \in Row
    <3>1. View(b, x[1]) \in Row
      BY <2>2, ViewIsRow DEF Txns
    <3>2. View(b, x[1])' \in {alert'[x[1]], draft[b][x[1]]}
      BY DEF View
    <3>3. CASE x[1] \in DOMAIN draft[b]
      BY <3>1, <3>3 DEF View
    <3>4. CASE x[1] \notin DOMAIN draft[b]
      BY <2>2, <3>1, <3>4 DEF View
    <3> QED
      BY <3>3, <3>4
  <2>6. View(b, x[1]).started \in Nat /\ View(b, x[1])'.started \in Nat
    BY <2>5 DEF Row
  <2>7. View(b, x[1])'.started <= x[2]
    BY <2>1, <2>2, <2>4, <2>6
  <2> QED
    BY <2>1, <2>3, <2>7 DEF GoesOn
<1> QED
  BY <1>5, <1>6, <1>7, <1>8 DEF Building

(* Nor is an acknowledgement: the rows it has locked stay as they are.      *)
LEMMA BystanderAcknowledges ==
    ASSUME LifecycleInv, NEW o \in Operators,
           pc'[o] = pc[o], todo'[o] = todo[o], draft'[o] = draft[o],
           \A i \in DOMAIN draft[o] : alert'[i] = alert[i]
    PROVE  Acknowledging(o)'
BY DEF LifecycleInv, AllAcknowledging, Acknowledging
-----------------------------------------------------------------------------
(* What a statement that changes or locks a row leaves behind.              *)
LEMMA WriteEffect ==
    ASSUME TypeOK, NEW t \in Txns, NEW i \in Ids, NEW row, Write(t, i, row)
    PROVE  /\ DOMAIN draft' = Txns
           /\ \A u \in Txns \ {t} : draft'[u] = draft[u]
           /\ DOMAIN draft'[t] = DOMAIN draft[t] \cup {i}
           /\ draft'[t][i] = row
           /\ \A j \in DOMAIN draft[t] : j # i => draft'[t][j] = draft[t][j]
BY DEF TypeOK, Write

(* The table and what is being written to it. *)
TableInv ==
    /\ DOMAIN draft = Txns
    /\ \A t \in Txns : /\ DOMAIN draft[t] \subseteq Ids
                       /\ \A i \in DOMAIN draft[t] : draft[t][i] \in Row
    /\ TableSound /\ DraftsSucceed /\ Exclusive /\ OneMayBeOpen

(* A statement that writes a row nobody else holds keeps the table sound,
   when the row is the device's one alert that may be open, or the first. *)
LEMMA WriteKeeps ==
    ASSUME LifecycleInv, NEW t \in Txns, NEW i \in Ids, NEW row \in Row,
           Write(t, i, row), UNCHANGED alert, Holders(t, i) = {},
           Sound(row), Succeeds(alert[i], row),
           row.status = "open" =>
             i \in MayBeOpen(row.device) \/ MayBeOpen(row.device) = {}
    PROVE  TableInv'
<1>1. /\ DOMAIN draft' = Txns
      /\ \A u \in Txns \ {t} : draft'[u] = draft[u]
      /\ DOMAIN draft'[t] = DOMAIN draft[t] \cup {i}
      /\ draft'[t][i] = row
      /\ \A j \in DOMAIN draft[t] : j # i => draft'[t][j] = draft[t][j]
  BY WriteEffect DEF LifecycleInv
<1>2. \A u \in Txns : /\ DOMAIN draft[u] \subseteq Ids
                      /\ \A j \in DOMAIN draft[u] : draft[u][j] \in Row
  BY DEF LifecycleInv, TypeOK
<1>3. \A u \in Txns \ {t} : i \notin DOMAIN draft[u]
  BY DEF Holders
<1>4. \A u \in Txns : /\ DOMAIN draft'[u] \subseteq Ids
                      /\ \A j \in DOMAIN draft'[u] : draft'[u][j] \in Row
  BY <1>1, <1>2
<1>5. TableSound'
  BY DEF LifecycleInv, TableSound
<1>6. DraftsSucceed'
  <2>1. DraftsSucceed
    BY DEF LifecycleInv
  <2>2. ASSUME NEW u \in Txns, NEW j \in DOMAIN draft'[u]
        PROVE  Sound(draft'[u][j]) /\ Succeeds(alert[j], draft'[u][j])
    <3>1. CASE u = t /\ j = i
      BY <1>1, <3>1
    <3>2. CASE ~ (u = t /\ j = i)
      <4>1. j \in DOMAIN draft[u] /\ draft'[u][j] = draft[u][j]
        BY <1>1, <2>2, <3>2
      <4> QED
        BY <2>1, <4>1 DEF DraftsSucceed
    <3> QED
      BY <3>1, <3>2
  <2> QED
    BY <2>2 DEF DraftsSucceed
<1>7. Exclusive'
  <2>1. Exclusive
    BY DEF LifecycleInv
  <2> QED
    BY <1>1, <1>3, <2>1 DEF Exclusive
<1>8. OneMayBeOpen'
  <2>1. \A d \in Devices : \A j \in MayBeOpen(d)' :
          j \in MayBeOpen(d) \/ (j = i /\ row.status = "open" /\ row.device = d)
    <3> SUFFICES ASSUME NEW d \in Devices, NEW j \in MayBeOpen(d)'
                 PROVE  j \in MayBeOpen(d) \/ (j = i /\ row.status = "open" /\ row.device = d)
      OBVIOUS
    <3>1. CASE alert[j].status = "open" /\ alert[j].device = d
      BY <3>1 DEF MayBeOpen
    <3>2. CASE ~ (alert[j].status = "open" /\ alert[j].device = d)
      <4>1. PICK u \in Txns : /\ j \in DOMAIN draft'[u]
                              /\ draft'[u][j].status = "open"
                              /\ draft'[u][j].device = d
        BY <3>2 DEF MayBeOpen
      <4>2. CASE u = t /\ j = i
        BY <1>1, <4>1, <4>2
      <4>3. CASE ~ (u = t /\ j = i)
        <5>1. j \in DOMAIN draft[u] /\ draft'[u][j] = draft[u][j]
          BY <1>1, <4>1, <4>3
        <5>2. j \in Ids
          BY <1>2, <5>1
        <5> QED
          BY <4>1, <5>1, <5>2 DEF MayBeOpen
      <4> QED
        BY <4>2, <4>3
    <3> QED
      BY <3>1, <3>2
  <2>2. OneMayBeOpen
    BY DEF LifecycleInv
  <2> SUFFICES ASSUME NEW d \in Devices, NEW j \in MayBeOpen(d)', NEW k \in MayBeOpen(d)'
               PROVE  j = k
    BY DEF OneMayBeOpen
  <2>3. CASE row.status = "open" /\ row.device = d
    BY <2>1, <2>2, <2>3 DEF OneMayBeOpen
  <2>4. CASE ~ (row.status = "open" /\ row.device = d)
    BY <2>1, <2>2, <2>4 DEF OneMayBeOpen
  <2> QED
    BY <2>3, <2>4
<1> QED
  BY <1>1, <1>4, <1>5, <1>6, <1>7, <1>8 DEF TableInv

(* The end of a transaction, committed or rolled back, keeps everything when
   the rows it had written go on as sound rows, and opens none but its own. *)
LEMMA EndKeeps ==
    ASSUME LifecycleInv, NEW t \in Txns, End(t), UNCHANGED world,
           alert' \in [Ids -> Row],
           \A i \in Ids : i \notin DOMAIN draft[t] => alert'[i] = alert[i],
           \A i \in DOMAIN draft[t] :
              /\ Sound(alert'[i]) /\ GoesOn(alert[i], alert'[i])
              /\ alert'[i].status = "none" => alert'[i] = NoRow
              /\ alert'[i].status = "open" => i \in MayBeOpen(alert'[i].device)
    PROVE  LifecycleInv'
<1> USE DEF Txns
<1>1. /\ DOMAIN draft = Txns /\ DOMAIN todo = Txns
      /\ pc \in [Txns -> Places] /\ obs \in [Builders -> Observation]
      /\ cur \in [Builders -> Ids \cup {0}]
      /\ alert \in [Ids -> Row]
      /\ \A u \in Txns : /\ DOMAIN draft[u] \subseteq Ids
                         /\ \A j \in DOMAIN draft[u] : draft[u][j] \in Row
  BY DEF LifecycleInv, TypeOK
<1>2. /\ DOMAIN draft' = Txns /\ DOMAIN todo' = Txns
      /\ DOMAIN draft'[t] = {} /\ todo'[t] = {} /\ pc'[t] = "idle"
      /\ \A u \in Txns \ {t} : /\ draft'[u] = draft[u] /\ todo'[u] = todo[u]
                               /\ pc'[u] = pc[u]
      /\ \A b \in Builders \ {t} : obs'[b] = obs[b] /\ cur'[b] = cur[b]
  BY <1>1 DEF End, Nothing
<1>3. TypeOK'
  <2>1. pc' \in [Txns -> Places]
    BY <1>1 DEF End, Places
  <2>2. cur' \in [Builders -> Ids \cup {0}]
    BY <1>1 DEF End
  <2>3. obs' \in [Builders -> Observation]
    <3>1. NoObs \in Observation
      BY DEF NoObs, Observation
    <3> QED
      BY <1>1, <3>1 DEF End
  <2>4. /\ DOMAIN draft' = Txns
        /\ \A u \in Txns : /\ DOMAIN draft'[u] \subseteq Ids
                           /\ \A j \in DOMAIN draft'[u] : draft'[u][j] \in Row
    BY <1>1, <1>2
  <2>5. clock' \in Nat /\ down' \subseteq Devices /\ since' \in [Devices -> Nat]
        /\ windows' \subseteq Devices
    BY DEF LifecycleInv, TypeOK, world
  <2> QED
    BY <1>2, <2>1, <2>2, <2>3, <2>4, <2>5 DEF TypeOK
<1>4. TableSound'
  <2>1. TableSound
    BY DEF LifecycleInv
  <2>2. ASSUME NEW i \in Ids
        PROVE  Sound(alert'[i]) /\ (alert'[i].status = "none" => alert'[i] = NoRow)
    BY <2>1 DEF TableSound
  <2>3. NoRow' = NoRow
    BY DEF NoRow
  <2> QED
    BY <2>2, <2>3 DEF TableSound
<1>5. \A u \in Txns : \A i \in DOMAIN draft'[u] :
        /\ u # t /\ i \in DOMAIN draft[u] /\ draft'[u][i] = draft[u][i]
        /\ alert'[i] = alert[i]
  <2>1. ASSUME NEW u \in Txns, NEW i \in DOMAIN draft'[u]
        PROVE  /\ u # t /\ i \in DOMAIN draft[u] /\ draft'[u][i] = draft[u][i]
               /\ alert'[i] = alert[i]
    <3>1. u # t /\ i \in DOMAIN draft[u] /\ draft'[u][i] = draft[u][i]
      BY <1>2, <2>1
    <3>2. i \notin DOMAIN draft[t] /\ i \in Ids
      BY <1>1, <3>1 DEF LifecycleInv, Exclusive
    <3> QED
      BY <3>1, <3>2
  <2> QED
    BY <2>1
<1>6. DraftsSucceed'
  BY <1>5 DEF LifecycleInv, DraftsSucceed
<1>7. Exclusive'
  BY <1>2 DEF LifecycleInv, Exclusive
<1>8. OneMayBeOpen'
  <2>1. \A d \in Devices : MayBeOpen(d)' \subseteq MayBeOpen(d)
    <3> SUFFICES ASSUME NEW d \in Devices, NEW i \in MayBeOpen(d)'
                 PROVE  i \in MayBeOpen(d)
      OBVIOUS
    <3>0. i \in Ids
      BY DEF MayBeOpen
    <3>1. CASE alert'[i].status = "open" /\ alert'[i].device = d
      <4>1. CASE i \in DOMAIN draft[t]
        BY <3>1, <4>1
      <4>2. CASE i \notin DOMAIN draft[t]
        BY <3>0, <3>1, <4>2 DEF MayBeOpen
      <4> QED
        BY <4>1, <4>2
    <3>2. CASE ~ (alert'[i].status = "open" /\ alert'[i].device = d)
      BY <1>5, <3>0, <3>2 DEF MayBeOpen
    <3> QED
      BY <3>1, <3>2
  <2> QED
    BY <2>1 DEF LifecycleInv, OneMayBeOpen
<1>9. \A i \in Ids : GoesOn(alert[i], alert'[i])
  BY <1>1 DEF GoesOn, Row
<1>10. AllBuilding'
  <2>1. ASSUME NEW b \in Builders, b # t
        PROVE  Building(b)'
    BY <1>2, <1>9, <2>1, BystanderBuilds
  <2>2. ASSUME NEW b \in Builders, b = t
        PROVE  Building(b)'
    BY <1>2, <2>2 DEF Building
  <2> QED
    BY <2>1, <2>2 DEF AllBuilding
<1>11. AllAcknowledging'
  <2>1. ASSUME NEW o \in Operators, o # t
        PROVE  Acknowledging(o)'
    <3>1. \A i \in DOMAIN draft[o] : alert'[i] = alert[i]
      BY <1>2, <1>5, <2>1
    <3> QED
      BY <1>2, <2>1, <3>1, BystanderAcknowledges
  <2>2. ASSUME NEW o \in Operators, o = t
        PROVE  Acknowledging(o)'
    BY <1>2, <2>2 DEF Acknowledging
  <2> QED
    BY <2>1, <2>2 DEF AllAcknowledging
<1> QED
  BY <1>3, <1>4, <1>6, <1>7, <1>8, <1>10, <1>11 DEF LifecycleInv
-----------------------------------------------------------------------------
(* A step of one transaction that commits nothing: the others, whose rows it
   leaves alone, stay as they are. *)
LEMMA StepKeeps ==
    ASSUME LifecycleInv, NEW t \in Txns, UNCHANGED <<world, alert>>, TableInv',
           \A u \in Txns \ {t} :
              draft'[u] = draft[u] /\ pc'[u] = pc[u] /\ todo'[u] = todo[u],
           \A b \in Builders \ {t} : obs'[b] = obs[b] /\ cur'[b] = cur[b],
           pc' \in [Txns -> Places], obs' \in [Builders -> Observation],
           cur' \in [Builders -> Ids \cup {0}], DOMAIN todo' = Txns,
           t \in Builders => Building(t)',
           t \in Operators => Acknowledging(t)'
    PROVE  LifecycleInv'
<1>1. alert' \in [Ids -> Row] /\ alert \in [Ids -> Row]
  BY DEF LifecycleInv, TypeOK
<1>2. TypeOK'
  BY <1>1 DEF LifecycleInv, TypeOK, TableInv, world
<1>3. AllBuilding'
  <2>1. \A i \in Ids : GoesOn(alert[i], alert'[i])
    BY <1>1 DEF GoesOn, Row
  <2>2. ASSUME NEW b \in Builders, b # t
        PROVE  Building(b)'
    <3>1. b \in Txns
      BY DEF Txns
    <3> QED
      BY <1>1, <2>1, <2>2, <3>1, BystanderBuilds
  <2> QED
    BY <2>2 DEF AllBuilding
<1>4. AllAcknowledging'
  <2>1. ASSUME NEW o \in Operators, o # t
        PROVE  Acknowledging(o)'
    <3>1. o \in Txns
      BY DEF Txns
    <3> QED
      BY <2>1, <3>1, BystanderAcknowledges
  <2> QED
    BY <2>1 DEF AllAcknowledging
<1> QED
  BY <1>2, <1>3, <1>4 DEF LifecycleInv, TableInv

(* A step that leaves the table keeps what is said of it.                  *)
LEMMA TableKept ==
    ASSUME LifecycleInv, UNCHANGED table
    PROVE  TableInv'
BY DEF LifecycleInv, TypeOK, TableInv, table, TableSound, DraftsSucceed, Exclusive,
       OneMayBeOpen, MayBeOpen

(* What moving a transaction on and taking an item off its list change. *)
LEMMA PlaceEffect ==
    ASSUME TypeOK, NEW t \in Txns, NEW place \in Places, Goto(t, place)
    PROVE  /\ pc' \in [Txns -> Places] /\ pc'[t] = place
           /\ \A u \in Txns \ {t} : pc'[u] = pc[u]
BY DEF TypeOK, Goto

(* What going on to the next device leaves.                                *)
LEMMA NextDeviceEffect ==
    ASSUME TypeOK, NEW b \in Builders, NextDevice(b)
    PROVE  /\ pc' \in [Txns -> Places] /\ pc'[b] = "look"
           /\ \A u \in Txns \ {b} : pc'[u] = pc[u] /\ todo'[u] = todo[u]
           /\ DOMAIN todo' = Txns /\ todo'[b] \subseteq todo[b]
           /\ cur' \in [Builders -> Ids \cup {0}]
           /\ \A c \in Builders \ {b} : cur'[c] = cur[c]
<1>1. b \in Txns /\ "look" \in Places
  BY DEF Txns, Places
<1>2. pc' \in [Txns -> Places] /\ pc'[b] = "look" /\ \A u \in Txns \ {b} : pc'[u] = pc[u]
  BY <1>1, PlaceEffect DEF NextDevice
<1> QED
  BY <1>1, <1>2 DEF NextDevice, TypeOK

(* The world changes no row and no build.                                  *)
LEMMA WorldKeeps ==
    ASSUME LifecycleInv,
           \/ Tick
           \/ \E d \in Devices : DeviceChange(d) \/ WindowChange(d)
           \/ UNCHANGED vars
    PROVE  LifecycleInv'
<1>1. UNCHANGED table /\ UNCHANGED local
  BY DEF Tick, DeviceChange, WindowChange, vars, table, local
<1>2. TableInv'
  BY <1>1, TableKept
<1>3. clock' \in Nat /\ down' \subseteq Devices /\ since' \in [Devices -> Nat]
      /\ windows' \subseteq Devices
  BY DEF LifecycleInv, TypeOK, Tick, DeviceChange, WindowChange, vars, world
<1>4. TypeOK'
  BY <1>1, <1>2, <1>3 DEF LifecycleInv, TypeOK, TableInv, table, local
<1>5. alert \in [Ids -> Row]
  BY DEF LifecycleInv, TypeOK
<1>6. AllBuilding'
  <2>1. \A i \in Ids : GoesOn(alert[i], alert'[i])
    BY <1>1, <1>5 DEF GoesOn, Row, table
  <2>2. alert' \in [Ids -> Row]
    BY <1>1, <1>5 DEF table
  <2> SUFFICES ASSUME NEW b \in Builders PROVE Building(b)'
    BY DEF AllBuilding
  <2> QED
    BY <1>1, <2>1, <2>2, BystanderBuilds DEF table, local
<1>7. AllAcknowledging'
  <2> SUFFICES ASSUME NEW o \in Operators PROVE Acknowledging(o)'
    BY DEF AllAcknowledging
  <2> QED
    BY <1>1, BystanderAcknowledges DEF table, local
<1> QED
  BY <1>2, <1>4, <1>6, <1>7 DEF LifecycleInv, TableInv

(* Initially there is no alert and nothing under way.                      *)
LEMMA InitHolds == Init => LifecycleInv
<1> SUFFICES ASSUME Init PROVE LifecycleInv
  OBVIOUS
<1>1. /\ \A t \in Txns : draft[t] = Nothing /\ pc[t] = "idle" /\ todo[t] = {}
      /\ \A i \in Ids : alert[i] = NoRow
      /\ DOMAIN Nothing = {}
  BY DEF Init, Nothing
<1>2. NoRow \in Row /\ NoRow.status = "none" /\ NoRow.downtime = 0
  BY LifecycleAssumption DEF NoRow, Row
<1>3. NoObs \in Observation
  BY DEF NoObs, Observation
<1>4. TypeOK
  <2>1. alert \in [Ids -> Row] /\ obs \in [Builders -> Observation]
    BY <1>2, <1>3 DEF Init
  <2>2. clock \in Nat /\ down \subseteq Devices /\ since \in [Devices -> Nat]
        /\ windows \subseteq Devices
    BY DEF Init
  <2>3. pc \in [Txns -> Places] /\ cur \in [Builders -> Ids \cup {0}]
    BY DEF Init, Places
  <2> QED
    BY <1>1, <2>1, <2>2, <2>3 DEF Init, TypeOK
<1>5. TableSound
  BY <1>1, <1>2 DEF TableSound, Sound
<1>6. DraftsSucceed /\ Exclusive
  BY <1>1 DEF DraftsSucceed, Exclusive
<1>7. OneMayBeOpen
  BY <1>1, <1>2 DEF OneMayBeOpen, MayBeOpen
<1>8. AllBuilding
  BY <1>1 DEF AllBuilding, Building, Txns
<1>9. AllAcknowledging
  BY <1>1 DEF AllAcknowledging, Acknowledging, Txns
<1> QED
  BY <1>4, <1>5, <1>6, <1>7, <1>8, <1>9 DEF LifecycleInv
-----------------------------------------------------------------------------
(* The steps of a build.                                                    *)
LEMMA ObserveKeeps ==
    ASSUME LifecycleInv, NEW b \in Builders, NEW known \in BOOLEAN, Observe(b, known)
    PROVE  LifecycleInv'
<1>1. TypeOK /\ Building(b) /\ b \in Txns /\ b \notin Operators
  BY LifecycleAssumption DEF LifecycleInv, AllBuilding, Txns
<1>2. /\ UNCHANGED <<world, alert>> /\ UNCHANGED table
      /\ todo' = todo /\ cur' = cur /\ draft' = draft
  BY DEF Observe, table
<1>3. /\ pc' \in [Txns -> Places] /\ pc'[b] = "observed"
      /\ \A u \in Txns \ {b} : pc'[u] = pc[u]
  BY <1>1, PlaceEffect DEF Observe, Places
<1>4. obs' \in [Builders -> Observation] /\ \A c \in Builders \ {b} : obs'[c] = obs[c]
  <2>1. [NoObs EXCEPT !.down = down, !.known = known,
                      !.since = IF known THEN since ELSE @] \in Observation
    BY <1>1 DEF TypeOK, NoObs, Observation
  <2> QED
    BY <1>1, <2>1 DEF TypeOK, Observe
<1>5. TableInv'
  BY <1>2, TableKept
<1>6. Building(b)'
  <2>1. DOMAIN draft[b] = {}
    BY <1>1 DEF Building, Observe
  <2> QED
    BY <1>2, <1>3, <2>1 DEF Building
<1> QED
  BY <1>1, <1>2, <1>3, <1>4, <1>5, <1>6, StepKeeps DEF TypeOK

(* A build begins with the devices outside maintenance.                    *)
LEMMA BeginKeeps ==
    ASSUME LifecycleInv, NEW b \in Builders, Begin(b)
    PROVE  LifecycleInv'
<1>1. TypeOK /\ Building(b) /\ b \in Txns /\ b \notin Operators
  BY LifecycleAssumption DEF LifecycleInv, AllBuilding, Txns
<1>2. DOMAIN draft[b] = {}
  BY <1>1 DEF Building, Begin
<1>3. CASE needs_write(b, windows)
  <2>1. /\ UNCHANGED <<world, alert>> /\ UNCHANGED table
        /\ cur' = cur /\ draft' = draft
        /\ obs' = [obs EXCEPT ![b].windows = windows, ![b].at = clock]
        /\ todo' = [todo EXCEPT ![b] = obs[b].down \ windows]
        /\ Goto(b, "look")
    BY <1>3 DEF Begin, table
  <2>2. /\ pc' \in [Txns -> Places] /\ pc'[b] = "look"
        /\ \A u \in Txns \ {b} : pc'[u] = pc[u]
    BY <1>1, <2>1, PlaceEffect DEF Places
  <2>3. /\ obs' \in [Builders -> Observation]
        /\ \A c \in Builders \ {b} : obs'[c] = obs[c]
        /\ obs'[b].windows = windows
    <3>1. [obs[b] EXCEPT !.windows = windows, !.at = clock] \in Observation
      BY <1>1 DEF TypeOK, Observation
    <3>2. obs' = [obs EXCEPT ![b] = [obs[b] EXCEPT !.windows = windows, !.at = clock]]
      BY <1>1, <2>1 DEF TypeOK
    <3>3. obs[b] \in Observation
      BY <1>1 DEF TypeOK
    <3> QED
      BY <1>1, <3>1, <3>2, <3>3 DEF TypeOK, Observation
  <2>4. /\ DOMAIN todo' = Txns /\ todo'[b] \subseteq Devices \ windows
        /\ \A u \in Txns \ {b} : todo'[u] = todo[u]
    <3>1. obs[b].down \subseteq Devices
      BY <1>1 DEF TypeOK, Observation
    <3> QED
      BY <1>1, <2>1, <3>1 DEF TypeOK
  <2>5. TableInv'
    BY <2>1, TableKept
  <2>6. Building(b)'
    BY <1>2, <2>1, <2>2, <2>3, <2>4 DEF Building
  <2> QED
    BY <1>1, <2>1, <2>2, <2>3, <2>4, <2>5, <2>6, StepKeeps DEF TypeOK
<1>4. CASE ~ needs_write(b, windows)
  <2>1. End(b) /\ UNCHANGED world /\ alert' = alert
    BY <1>4 DEF Begin
  <2>2. alert' \in [Ids -> Row]
    BY <1>1, <2>1 DEF TypeOK
  <2> QED
    BY <1>1, <1>2, <2>1, <2>2, EndKeeps
<1> QED
  BY <1>3, <1>4

(* A build looks for the open alert of a device.                           *)
LEMMA LookUpKeeps ==
    ASSUME LifecycleInv, NEW b \in Builders, LookUp(b)
    PROVE  LifecycleInv'
<1>1. TypeOK /\ Building(b) /\ b \in Txns /\ b \notin Operators
  BY LifecycleAssumption DEF LifecycleInv, AllBuilding, Txns
<1>2. /\ UNCHANGED <<world, alert>> /\ UNCHANGED table /\ UNCHANGED obs
      /\ draft' = draft /\ alert' = alert
      /\ pc[b] \in {"look", "again"} /\ todo[b] # {}
  BY DEF LookUp, table
<1>3. TableInv'
  BY <1>2, TableKept
<1>4. /\ todo[b] \subseteq Devices \ obs[b].windows
      /\ \A i \in DOMAIN draft[b] : draft[b][i].device \notin obs[b].windows
  BY <1>1, <1>2 DEF Building
<1>5. /\ obs' \in [Builders -> Observation]
      /\ \A c \in Builders \ {b} : obs'[c] = obs[c]
  BY <1>1, <1>2 DEF TypeOK
<1>6. ASSUME NEW i \in OpenFor(b, Device(b)), cur' = [cur EXCEPT ![b] = i],
             Goto(b, "refresh"), UNCHANGED todo
      PROVE  LifecycleInv'
  <2>1. /\ pc' \in [Txns -> Places] /\ pc'[b] = "refresh"
        /\ \A u \in Txns \ {b} : pc'[u] = pc[u]
    BY <1>1, <1>6, PlaceEffect DEF Places
  <2>2. /\ i \in Ids /\ View(b, i).status = "open" /\ View(b, i).device = Device(b)
    BY <1>6 DEF OpenFor
  <2>3. /\ cur' \in [Builders -> Ids \cup {0}] /\ cur'[b] = i
        /\ \A c \in Builders \ {b} : cur'[c] = cur[c]
    BY <1>1, <1>6, <2>2 DEF TypeOK
  <2>4. /\ View(b, cur[b])' = View(b, i) /\ Device(b)' = Device(b)
    BY <1>2, <1>6, <2>3 DEF View, Device
  <2>5. Building(b)'
    BY <1>2, <1>4, <1>6, <2>1, <2>2, <2>3, <2>4 DEF Building
  <2> QED
    BY <1>1, <1>2, <1>3, <1>5, <1>6, <2>1, <2>3, <2>5, StepKeeps DEF TypeOK
<1>7. ASSUME OpenFor(b, Device(b)) = {}, Goto(b, "insert"), UNCHANGED <<todo, cur>>
      PROVE  LifecycleInv'
  <2>1. /\ pc' \in [Txns -> Places] /\ pc'[b] = "insert"
        /\ \A u \in Txns \ {b} : pc'[u] = pc[u]
    BY <1>1, <1>7, PlaceEffect DEF Places
  <2>2. \A i \in DOMAIN draft[b] :
          ~ (draft[b][i].status = "open" /\ draft[b][i].device = Device(b))
    <3>1. DOMAIN draft[b] \subseteq Ids
      BY <1>1 DEF TypeOK
    <3> QED
      BY <1>7, <3>1 DEF OpenFor, View
  <2>3. Device(b)' = Device(b)
    BY <1>7 DEF Device
  <2>4. Building(b)'
    BY <1>2, <1>4, <1>7, <2>1, <2>2, <2>3 DEF Building
  <2> QED
    BY <1>1, <1>2, <1>3, <1>5, <1>7, <2>1, <2>4, StepKeeps DEF TypeOK
<1>8. ASSUME NextDevice(b) PROVE LifecycleInv'
  <2>1. /\ pc' \in [Txns -> Places] /\ pc'[b] = "look"
        /\ \A u \in Txns \ {b} : pc'[u] = pc[u] /\ todo'[u] = todo[u]
        /\ DOMAIN todo' = Txns /\ todo'[b] \subseteq todo[b]
        /\ cur' \in [Builders -> Ids \cup {0}]
        /\ \A c \in Builders \ {b} : cur'[c] = cur[c]
    BY <1>1, <1>8, NextDeviceEffect
  <2>2. Building(b)'
    BY <1>2, <1>4, <2>1 DEF Building
  <2> QED
    BY <1>1, <1>2, <1>3, <1>5, <2>1, <2>2, StepKeeps
<1> QED
  BY <1>6, <1>7, <1>8 DEF LookUp

(* A build inserts an alert, unless one is open or about to be.            *)
LEMMA OpenAlertKeeps ==
    ASSUME LifecycleInv, NEW b \in Builders, OpenAlert(b)
    PROVE  LifecycleInv'
<1> DEFINE d == Device(b)
<1>1. TypeOK /\ Building(b) /\ b \in Txns /\ b \notin Operators
  BY LifecycleAssumption DEF LifecycleInv, AllBuilding, Txns
<1>2. /\ UNCHANGED <<world, alert>> /\ UNCHANGED obs /\ alert' = alert
      /\ pc[b] = "insert" /\ Rivals(b, d) = {}
  BY DEF OpenAlert
<1>3. /\ todo[b] # {} /\ todo[b] \subseteq Devices \ obs[b].windows
      /\ \A i \in DOMAIN draft[b] : draft[b][i].device \notin obs[b].windows
      /\ \A i \in DOMAIN draft[b] :
           ~ (draft[b][i].status = "open" /\ draft[b][i].device = d)
  BY <1>1, <1>2 DEF Building
<1>4. d \in Devices /\ d \notin obs[b].windows
  BY <1>2, <1>3, DeviceIsOwed
<1>5. /\ obs' \in [Builders -> Observation]
      /\ \A c \in Builders \ {b} : obs'[c] = obs[c]
  BY <1>1, <1>2 DEF TypeOK
<1>6. CASE \E i \in Ids : alert[i].status = "open" /\ alert[i].device = d
  <2>1. Goto(b, "again") /\ UNCHANGED <<draft, todo, cur>>
    BY <1>6 DEF OpenAlert
  <2>2. /\ pc' \in [Txns -> Places] /\ pc'[b] = "again"
        /\ \A u \in Txns \ {b} : pc'[u] = pc[u]
    BY <1>1, <2>1, PlaceEffect DEF Places
  <2>3. TableInv'
    BY <1>2, <2>1, TableKept DEF table
  <2>4. Building(b)'
    BY <1>2, <1>3, <2>1, <2>2 DEF Building
  <2> QED
    BY <1>1, <1>2, <1>5, <2>1, <2>2, <2>3, <2>4, StepKeeps DEF TypeOK
<1>7. CASE ~ \E i \in Ids : alert[i].status = "open" /\ alert[i].device = d
  <2> DEFINE row == [NoRow EXCEPT !.status = "open", !.device = d,
                                  !.started = down_since(b, d)]
  <2>1. PICK i \in Ids : /\ alert[i].status = "none" /\ Holders(b, i) = {}
                         /\ Write(b, i, row) /\ NextDevice(b)
    BY <1>7 DEF OpenAlert
  <2>2. down_since(b, d) \in Nat
    <3>1. obs[b] \in Observation
      BY <1>1 DEF TypeOK
    <3> QED
      BY <1>4, <3>1 DEF down_since, Observation
  <2>3. /\ row.status = "open" /\ row.device = d /\ row.started = down_since(b, d)
        /\ row.resolved = 0 /\ row.downtime = 0 /\ row.acked = FALSE
    BY DEF NoRow
  <2>4. row \in Row
    <3>1. d \in 0 .. NDevices
      BY <1>4, LifecycleAssumption DEF Devices
    <3> QED
      BY <2>2, <3>1 DEF NoRow, Row
  <2>5. alert[i] = NoRow
    BY <2>1 DEF LifecycleInv, TableSound
  <2>6. Sound(row) /\ Succeeds(alert[i], row)
    <3>1. alert[i].acked = FALSE
      BY <2>5 DEF NoRow
    <3> QED
      BY <1>4, <2>1, <2>3, <3>1 DEF Sound, Succeeds
  <2>7. MayBeOpen(d) = {}
    <3> SUFFICES ASSUME NEW j \in MayBeOpen(d) PROVE FALSE
      OBVIOUS
    <3>1. j \in Ids
      BY DEF MayBeOpen
    <3>2. PICK u \in Txns : /\ j \in DOMAIN draft[u]
                            /\ draft[u][j].status = "open" /\ draft[u][j].device = d
      BY <1>7, <3>1 DEF MayBeOpen
    <3>3. CASE u = b
      BY <1>3, <3>2, <3>3
    <3>4. CASE u # b
      <4>1. u \in Holders(b, j)
        BY <3>2, <3>4 DEF Holders
      <4>2. j \in Rivals(b, d)
        BY <3>1, <3>2, <4>1 DEF Rivals
      <4> QED
        BY <1>2, <4>2
    <3> QED
      BY <3>3, <3>4
  <2> HIDE DEF row, d
  <2>8. TableInv'
    BY <1>1, <1>2, <2>1, <2>3, <2>4, <2>6, <2>7, WriteKeeps
  <2>9. /\ \A u \in Txns \ {b} : draft'[u] = draft[u]
        /\ DOMAIN draft'[b] = DOMAIN draft[b] \cup {i}
        /\ draft'[b][i] = row
        /\ \A j \in DOMAIN draft[b] : j # i => draft'[b][j] = draft[b][j]
    BY <1>1, <2>1, WriteEffect
  <2>10. /\ pc' \in [Txns -> Places] /\ pc'[b] = "look"
         /\ \A u \in Txns \ {b} : pc'[u] = pc[u] /\ todo'[u] = todo[u]
         /\ DOMAIN todo' = Txns /\ todo'[b] \subseteq todo[b]
         /\ cur' \in [Builders -> Ids \cup {0}]
         /\ \A c \in Builders \ {b} : cur'[c] = cur[c]
    BY <1>1, <2>1, NextDeviceEffect
  <2>11. \A j \in DOMAIN draft'[b] : draft'[b][j].device \notin obs[b].windows
    BY <1>3, <1>4, <2>3, <2>9
  <2>12. Building(b)'
    BY <1>2, <1>3, <2>10, <2>11 DEF Building
  <2> QED
    BY <1>1, <1>2, <1>5, <2>8, <2>9, <2>10, <2>12, StepKeeps
<1> QED
  BY <1>6, <1>7

(* A build writes the row it found, as it is by then.                      *)
LEMMA RefreshKeeps ==
    ASSUME LifecycleInv, NEW b \in Builders, Refresh(b)
    PROVE  LifecycleInv'
<1> DEFINE d   == Device(b)
           i   == cur[b]
           new == [View(b, i) EXCEPT !.started = Start(@, down_since(b, d))]
<1>1. TypeOK /\ Building(b) /\ b \in Txns /\ b \notin Operators
  BY LifecycleAssumption DEF LifecycleInv, AllBuilding, Txns
<1>2. /\ UNCHANGED <<world, alert>> /\ UNCHANGED obs /\ alert' = alert
      /\ pc[b] = "refresh" /\ Holders(b, i) = {}
      /\ Write(b, i, new) /\ NextDevice(b)
  BY DEF Refresh
<1>3. /\ todo[b] # {} /\ todo[b] \subseteq Devices \ obs[b].windows
      /\ \A j \in DOMAIN draft[b] : draft[b][j].device \notin obs[b].windows
      /\ i \in Ids /\ View(b, i).status # "none" /\ View(b, i).device = d
  BY <1>1, <1>2 DEF Building
<1>4. d \in Devices /\ d \notin obs[b].windows
  BY <1>2, <1>3, DeviceIsOwed
<1>5. /\ obs' \in [Builders -> Observation]
      /\ \A c \in Builders \ {b} : obs'[c] = obs[c]
  BY <1>1, <1>2 DEF TypeOK
<1>6. down_since(b, d) \in Nat
  <2>1. obs[b] \in Observation
    BY <1>1 DEF TypeOK
  <2> QED
    BY <1>4, <2>1 DEF down_since, Observation
<1>7. /\ View(b, i) \in Row /\ Sound(View(b, i)) /\ alert[i] \in Row
      /\ Succeeds(alert[i], View(b, i))
      /\ View(b, i).status = "open" => i \in MayBeOpen(d)
  BY <1>1, <1>3, ViewIsRow
<1> DEFINE start == Start(View(b, i).started, down_since(b, d))
<1>8. start \in Nat /\ start <= View(b, i).started
  BY <1>6, <1>7 DEF Start, Row
<1>9. /\ new \in Row /\ new.started = start
      /\ new.status = View(b, i).status /\ new.device = View(b, i).device
      /\ new.resolved = View(b, i).resolved /\ new.downtime = View(b, i).downtime
      /\ new.acked = View(b, i).acked
  BY <1>7, <1>8 DEF Row
<1> HIDE DEF new, start
<1>10. Sound(new)
  BY <1>7, <1>8, <1>9 DEF Sound, Row
<1>11. Succeeds(alert[i], new)
  BY <1>7, <1>8, <1>9 DEF Succeeds, Row
<1> HIDE DEF d
<1>12. TableInv'
  BY <1>1, <1>2, <1>3, <1>7, <1>9, <1>10, <1>11, WriteKeeps
<1>13. /\ \A u \in Txns \ {b} : draft'[u] = draft[u]
       /\ DOMAIN draft'[b] = DOMAIN draft[b] \cup {i}
       /\ draft'[b][i] = new
       /\ \A j \in DOMAIN draft[b] : j # i => draft'[b][j] = draft[b][j]
  BY <1>1, <1>2, <1>3, WriteEffect
<1>14. /\ pc' \in [Txns -> Places] /\ pc'[b] = "look"
       /\ \A u \in Txns \ {b} : pc'[u] = pc[u] /\ todo'[u] = todo[u]
       /\ DOMAIN todo' = Txns /\ todo'[b] \subseteq todo[b]
       /\ cur' \in [Builders -> Ids \cup {0}]
       /\ \A c \in Builders \ {b} : cur'[c] = cur[c]
  BY <1>1, <1>2, NextDeviceEffect
<1>15. \A j \in DOMAIN draft'[b] : draft'[b][j].device \notin obs[b].windows
  BY <1>3, <1>4, <1>9, <1>13
<1>16. Building(b)'
  BY <1>2, <1>3, <1>14, <1>15 DEF Building
<1> QED
  BY <1>1, <1>2, <1>5, <1>12, <1>13, <1>14, <1>16, StepKeeps

(* A build reads the alerts it is to resolve.                              *)
LEMMA ReadOpenKeeps ==
    ASSUME LifecycleInv, NEW b \in Builders, ReadOpen(b)
    PROVE  LifecycleInv'
<1> DEFINE found == {<<i, View(b, i).started>> :
                       i \in {j \in Ids : /\ View(b, j).status = "open"
                                          /\ View(b, j).device \notin Kept(b)}}
<1>1. TypeOK /\ Building(b) /\ b \in Txns /\ b \notin Operators
  BY LifecycleAssumption DEF LifecycleInv, AllBuilding, Txns
<1>2. /\ UNCHANGED <<world, alert>> /\ UNCHANGED table /\ UNCHANGED <<obs, cur>>
      /\ draft' = draft /\ alert' = alert /\ pc[b] = "look" /\ Goto(b, "resolve")
      /\ todo' = [todo EXCEPT ![b] = found]
  BY DEF ReadOpen, table
<1>3. TableInv'
  BY <1>2, TableKept
<1>4. /\ pc' \in [Txns -> Places] /\ pc'[b] = "resolve"
      /\ \A u \in Txns \ {b} : pc'[u] = pc[u]
  BY <1>1, <1>2, PlaceEffect DEF Places
<1>5. ASSUME NEW x \in found
      PROVE  /\ x \in Ids \X Nat
             /\ View(b, x[1]).status # "none"
             /\ View(b, x[1]).started <= x[2]
             /\ View(b, x[1]).device \notin Kept(b)
  <2>1. PICK i \in Ids : /\ View(b, i).status = "open" /\ View(b, i).device \notin Kept(b)
                         /\ x = <<i, View(b, i).started>>
    OBVIOUS
  <2>2. View(b, i).started \in Nat
    BY <1>1, ViewIsRow DEF Row
  <2> QED
    BY <2>1, <2>2
<1> HIDE DEF found
<1>6. todo'[b] = found /\ DOMAIN todo' = Txns /\ \A u \in Txns \ {b} : todo'[u] = todo[u]
  BY <1>1, <1>2 DEF TypeOK
<1>7. \A i : View(b, i)' = View(b, i)
  BY <1>2 DEF View
<1>8. Kept(b)' = Kept(b)
  BY <1>2 DEF Kept
<1>9. Building(b)'
  <2>1. \A x \in todo'[b] : /\ x \in Ids \X Nat
                            /\ View(b, x[1])'.status # "none"
                            /\ View(b, x[1])'.started <= x[2]
                            /\ View(b, x[1])'.device \notin Kept(b)'
    BY <1>5, <1>6, <1>7, <1>8
  <2>2. \A i \in DOMAIN draft'[b] : draft'[b][i].device \notin obs'[b].windows
    BY <1>1, <1>2 DEF Building
  <2> QED
    BY <1>4, <2>1, <2>2 DEF Building
<1> QED
  BY <1>1, <1>2, <1>3, <1>4, <1>6, <1>9, StepKeeps DEF TypeOK

(* A build ends an alert of a device that is up.                           *)
LEMMA ResolveKeeps ==
    ASSUME LifecycleInv, NEW b \in Builders, Resolve(b)
    PROVE  LifecycleInv'
<1>1. TypeOK /\ Building(b) /\ b \in Txns /\ b \notin Operators
  BY LifecycleAssumption DEF LifecycleInv, AllBuilding, Txns
<1>2. /\ UNCHANGED <<world, alert>> /\ alert' = alert /\ UNCHANGED <<pc, obs, cur>>
      /\ pc[b] = "resolve"
  BY DEF Resolve
<1>3. PICK x \in todo[b] :
        LET row == View(b, x[1])
            at  == resolved_at(b, row.device, x[2]) IN
        /\ Holders(b, x[1]) = {}
        /\ todo' = [todo EXCEPT ![b] = @ \ {x}]
        /\ IF MayResolve(row, at)
           THEN Write(b, x[1], [row EXCEPT
                                  !.status = "resolved", !.resolved = at,
                                  !.downtime = @ + elapsed(x[2], at)])
           ELSE UNCHANGED draft
  BY DEF Resolve
<1> DEFINE i   == x[1]
           row == View(b, i)
           at  == resolved_at(b, row.device, x[2])
           new == [row EXCEPT !.status = "resolved", !.resolved = at,
                              !.downtime = @ + elapsed(x[2], at)]
<1>4. \A y \in todo[b] : /\ y \in Ids \X Nat
                         /\ View(b, y[1]).status # "none"
                         /\ View(b, y[1]).started <= y[2]
                         /\ View(b, y[1]).device \notin Kept(b)
  BY <1>1, <1>2 DEF Building
<1>5. /\ i \in Ids /\ x[2] \in Nat /\ row.status # "none" /\ row.started <= x[2]
      /\ row.device \notin Kept(b)
  BY <1>4
<1>6. row \in Row /\ Sound(row) /\ Succeeds(alert[i], row) /\ alert[i] \in Row
  BY <1>1, <1>5, ViewIsRow
<1>7. DOMAIN todo' = Txns /\ todo'[b] = todo[b] \ {x}
      /\ \A u \in Txns \ {b} : todo'[u] = todo[u]
  BY <1>1, <1>3 DEF TypeOK
<1>8. \A j \in DOMAIN draft[b] : draft[b][j].device \notin obs[b].windows
  BY <1>1 DEF Building
<1>9. Kept(b)' = Kept(b) /\ obs' = obs
  BY <1>2 DEF Kept
<1>10. /\ pc' \in [Txns -> Places] /\ obs' \in [Builders -> Observation]
       /\ cur' \in [Builders -> Ids \cup {0}]
       /\ \A u \in Txns \ {b} : pc'[u] = pc[u]
       /\ \A c \in Builders \ {b} : obs'[c] = obs[c] /\ cur'[c] = cur[c]
  BY <1>1, <1>2 DEF TypeOK
<1>11. CASE MayResolve(row, at)
  <2>1. Write(b, i, new) /\ Holders(b, i) = {}
    BY <1>3, <1>11
  <2>2. at \in Nat
    <3>1. obs[b] \in Observation
      BY <1>1 DEF TypeOK
    <3>2. row.device \in Devices
      BY <1>5, <1>6 DEF Sound
    <3> QED
      BY <3>1, <3>2 DEF resolved_at, Observation
  <2>3. row.status = "open" /\ row.started <= at /\ row.downtime = 0
    BY <1>6, <1>11 DEF MayResolve, Sound
  <2>4. row.started \in Nat /\ row.device \in 0 .. NDevices /\ row.acked \in BOOLEAN
    BY <1>6 DEF Row
  <2>5. elapsed(x[2], at) \in Nat /\ elapsed(x[2], at) <= at - row.started
    BY <1>5, <2>2, <2>3, <2>4 DEF elapsed
  <2> HIDE DEF row, at
  <2>6. /\ new \in Row /\ new.status = "resolved" /\ new.resolved = at
        /\ new.downtime = elapsed(x[2], at) /\ new.started = row.started
        /\ new.device = row.device /\ new.acked = row.acked
    <3>1. row.downtime + elapsed(x[2], at) = elapsed(x[2], at)
      BY <2>3, <2>5
    <3> QED
      BY <1>6, <2>2, <2>5, <3>1 DEF Row
  <2> HIDE DEF new
  <2>7. Sound(new)
    BY <1>5, <1>6, <2>3, <2>5, <2>6 DEF Sound
  <2>8. Succeeds(alert[i], new)
    BY <1>6, <2>3, <2>6 DEF Succeeds
  <2>9. TableInv'
    BY <1>1, <1>2, <1>5, <2>1, <2>6, <2>7, <2>8, WriteKeeps
  <2>10. /\ \A u \in Txns \ {b} : draft'[u] = draft[u]
         /\ DOMAIN draft'[b] = DOMAIN draft[b] \cup {i}
         /\ draft'[b][i] = new
         /\ \A j \in DOMAIN draft[b] : j # i => draft'[b][j] = draft[b][j]
    BY <1>1, <1>5, <2>1, WriteEffect
  <2>11. \A j \in DOMAIN draft'[b] : draft'[b][j].device \notin obs[b].windows
    BY <1>5, <1>8, <2>6, <2>10 DEF Kept
  <2>12. ASSUME NEW y \in todo'[b]
         PROVE  /\ y \in Ids \X Nat
                /\ View(b, y[1])'.status # "none"
                /\ View(b, y[1])'.started <= y[2]
                /\ View(b, y[1])'.device \notin Kept(b)
    <3>1. /\ y \in Ids \X Nat /\ View(b, y[1]).status # "none"
          /\ View(b, y[1]).started <= y[2] /\ View(b, y[1]).device \notin Kept(b)
      BY <1>4, <1>7, <2>12
    <3>2. CASE y[1] = i
      <4>1. View(b, y[1])' = new
        BY <2>10, <3>2 DEF View
      <4> QED
        BY <2>3, <2>6, <3>1, <3>2, <4>1 DEF row
    <3>3. CASE y[1] # i
      <4>1. View(b, y[1])' = View(b, y[1])
        BY <1>2, <2>10, <3>3 DEF View
      <4> QED
        BY <3>1, <4>1
    <3> QED
      BY <3>2, <3>3
  <2>13. Building(b)'
    BY <1>2, <1>9, <2>11, <2>12 DEF Building
  <2> QED
    BY <1>1, <1>2, <1>7, <1>10, <2>9, <2>10, <2>13, StepKeeps
<1>12. CASE ~ MayResolve(row, at)
  <2>1. draft' = draft
    BY <1>3, <1>12
  <2>2. TableInv'
    BY <1>2, <2>1, TableKept DEF table
  <2>3. \A j : View(b, j)' = View(b, j)
    BY <1>2, <2>1 DEF View
  <2>4. Building(b)'
    <3>1. \A y \in todo'[b] : /\ y \in Ids \X Nat
                              /\ View(b, y[1])'.status # "none"
                              /\ View(b, y[1])'.started <= y[2]
                              /\ View(b, y[1])'.device \notin Kept(b)'
      BY <1>4, <1>7, <1>9, <2>3
    <3>2. \A j \in DOMAIN draft'[b] : draft'[b][j].device \notin obs'[b].windows
      BY <1>8, <1>9, <2>1
    <3> QED
      BY <1>2, <3>1, <3>2 DEF Building
  <2> QED
    BY <1>1, <1>2, <1>7, <1>10, <2>1, <2>2, <2>4, StepKeeps
<1> QED
  BY <1>11, <1>12

(* A build commits its rows.                                               *)
LEMMA CommitBuildKeeps ==
    ASSUME LifecycleInv, NEW b \in Builders, CommitBuild(b)
    PROVE  LifecycleInv'
<1>1. TypeOK /\ b \in Txns
  BY DEF LifecycleInv, Txns
<1>2. End(b) /\ UNCHANGED world /\ alert' = [i \in Ids |-> View(b, i)]
  BY DEF CommitBuild, Commit
<1>3. alert' \in [Ids -> Row]
  BY <1>1, <1>2, ViewIsRow
<1>4. \A i \in Ids : i \notin DOMAIN draft[b] => alert'[i] = alert[i]
  BY <1>2 DEF View
<1>5. ASSUME NEW i \in DOMAIN draft[b]
      PROVE  /\ Sound(alert'[i]) /\ GoesOn(alert[i], alert'[i])
             /\ alert'[i].status = "none" => alert'[i] = NoRow
             /\ alert'[i].status = "open" => i \in MayBeOpen(alert'[i].device)
  <2>1. i \in Ids
    BY <1>1 DEF TypeOK
  <2>2. alert'[i] = draft[b][i] /\ View(b, i) = alert'[i]
    BY <1>2, <2>1 DEF View
  <2>3. Sound(draft[b][i]) /\ Succeeds(alert[i], draft[b][i])
    BY <1>1 DEF LifecycleInv, DraftsSucceed
  <2>4. alert'[i].status = "open" => i \in MayBeOpen(alert'[i].device)
    BY <1>1, <2>1, <2>2, ViewIsRow
  <2> QED
    BY <2>2, <2>3, <2>4 DEF Succeeds, GoesOn
<1> QED
  BY <1>1, <1>2, <1>3, <1>4, <1>5, EndKeeps
-----------------------------------------------------------------------------
(* The steps of an acknowledgement, and the ends nobody chose.              *)
LEMMA AckStartKeeps ==
    ASSUME LifecycleInv, NEW o \in Operators, AckStart(o)
    PROVE  LifecycleInv'
<1>1. TypeOK /\ Acknowledging(o) /\ o \in Txns /\ o \notin Builders
  BY LifecycleAssumption DEF LifecycleInv, AllAcknowledging, Txns
<1>2. /\ UNCHANGED <<world, alert>> /\ UNCHANGED table /\ UNCHANGED <<obs, cur>>
      /\ draft' = draft /\ alert' = alert
      /\ todo' = [todo EXCEPT ![o] = {i \in Ids : alert[i].status = "open"}]
      /\ Goto(o, "lock")
  BY DEF AckStart, table
<1>3. /\ pc' \in [Txns -> Places] /\ pc'[o] = "lock"
      /\ \A u \in Txns \ {o} : pc'[u] = pc[u]
  BY <1>1, <1>2, PlaceEffect DEF Places
<1>4. TableInv'
  BY <1>2, TableKept
<1>5. /\ DOMAIN todo' = Txns /\ todo'[o] \subseteq Ids
      /\ \A u \in Txns \ {o} : todo'[u] = todo[u]
  BY <1>1, <1>2 DEF TypeOK
<1>6. Acknowledging(o)'
  BY <1>1, <1>2, <1>3, <1>5 DEF Acknowledging
<1> QED
  BY <1>1, <1>2, <1>3, <1>4, <1>5, <1>6, StepKeeps DEF TypeOK

(* An operator locks open alerts.                                          *)
LEMMA AckLockKeeps ==
    ASSUME LifecycleInv, NEW o \in Operators, AckLock(o)
    PROVE  LifecycleInv'
<1> DEFINE i == NextId(o)
<1>1. TypeOK /\ Acknowledging(o) /\ o \in Txns /\ o \notin Builders
  BY LifecycleAssumption DEF LifecycleInv, AllAcknowledging, Txns
<1>2. /\ UNCHANGED <<world, alert>> /\ alert' = alert /\ UNCHANGED <<pc, obs, cur>>
      /\ pc[o] = "lock" /\ todo[o] # {} /\ Holders(o, i) = {}
      /\ todo' = [todo EXCEPT ![o] = @ \ {i}]
      /\ IF StillOpen(i) THEN Write(o, i, alert[i]) ELSE UNCHANGED draft
  BY DEF AckLock
<1>3. i \in Ids
  BY <1>2, NextIdIsOwed
<1>4. /\ todo[o] \subseteq Ids
      /\ \A j \in DOMAIN draft[o] : draft[o][j] = alert[j] /\ alert[j].status = "open"
  BY <1>1, <1>2 DEF Acknowledging
<1>5. /\ DOMAIN todo' = Txns /\ todo'[o] \subseteq Ids
      /\ \A u \in Txns \ {o} : todo'[u] = todo[u]
  BY <1>1, <1>2, <1>4 DEF TypeOK
<1>6. /\ pc' \in [Txns -> Places] /\ obs' \in [Builders -> Observation]
      /\ cur' \in [Builders -> Ids \cup {0}]
      /\ \A u \in Txns \ {o} : pc'[u] = pc[u]
      /\ \A c \in Builders \ {o} : obs'[c] = obs[c] /\ cur'[c] = cur[c]
  BY <1>1, <1>2 DEF TypeOK
<1> HIDE DEF i
<1>7. CASE StillOpen(i)
  <2>1. Write(o, i, alert[i]) /\ alert[i].status = "open"
    BY <1>2, <1>7 DEF StillOpen
  <2>2. alert[i] \in Row /\ Sound(alert[i])
    BY <1>1, <1>3 DEF LifecycleInv, TypeOK, TableSound
  <2>3. Succeeds(alert[i], alert[i]) /\ i \in MayBeOpen(alert[i].device)
    BY <1>3, <2>1, <2>2 DEF Succeeds, Row, MayBeOpen
  <2>4. TableInv'
    BY <1>1, <1>2, <1>3, <2>1, <2>2, <2>3, WriteKeeps
  <2>5. /\ \A u \in Txns \ {o} : draft'[u] = draft[u]
        /\ DOMAIN draft'[o] = DOMAIN draft[o] \cup {i}
        /\ draft'[o][i] = alert[i]
        /\ \A j \in DOMAIN draft[o] : j # i => draft'[o][j] = draft[o][j]
    BY <1>1, <1>3, <2>1, WriteEffect
  <2>6. Acknowledging(o)'
    BY <1>2, <1>4, <1>5, <2>1, <2>5 DEF Acknowledging
  <2> QED
    BY <1>1, <1>2, <1>5, <1>6, <2>4, <2>5, <2>6, StepKeeps
<1>8. CASE ~ StillOpen(i)
  <2>1. draft' = draft
    BY <1>2, <1>8
  <2>2. TableInv'
    BY <1>2, <2>1, TableKept DEF table
  <2>3. Acknowledging(o)'
    BY <1>2, <1>4, <1>5, <2>1 DEF Acknowledging
  <2> QED
    BY <1>1, <1>2, <1>5, <1>6, <2>1, <2>2, <2>3, StepKeeps
<1> QED
  BY <1>7, <1>8

(* What an acknowledgement commits: the marks of alerts it has locked.      *)
LEMMA AckCommitEffect ==
    ASSUME LifecycleInv, NEW o \in Operators, NEW wanted \in SUBSET Devices,
           NEW clear \in BOOLEAN, AckCommit(o, wanted, clear)
    PROVE  /\ End(o) /\ UNCHANGED world /\ pc[o] = "lock" /\ pc'[o] = "idle"
           /\ alert' \in [Ids -> Row]
           /\ \A i \in Ids : i \notin DOMAIN draft[o] => alert'[i] = alert[i]
           /\ \A i \in DOMAIN draft[o] :
                 /\ i \in Ids /\ alert[i].status = "open"
                 /\ \/ alert'[i] = alert[i]
                    \/ alert'[i] = [alert[i] EXCEPT !.acked = ~ clear]
<1>1. alert \in [Ids -> Row] /\ DOMAIN draft[o] \subseteq Ids /\ o \in Txns
      /\ pc \in [Txns -> Places]
  BY DEF LifecycleInv, TypeOK, Txns
<1>2. Acknowledging(o)
  BY DEF LifecycleInv, AllAcknowledging
<1>3. \A i \in Ids : [alert[i] EXCEPT !.acked = ~ clear] \in Row
  BY <1>1 DEF Row
<1>4. End(o) /\ UNCHANGED world /\ pc[o] = "lock" /\ pc'[o] = "idle"
  BY <1>1 DEF AckCommit, End
<1>5. \/ alert' = alert
      \/ alert' = [i \in Ids |-> IF i \in DOMAIN draft[o] /\ alert[i].device \in wanted
                                 THEN [alert[i] EXCEPT !.acked = ~ clear] ELSE alert[i]]
  BY DEF AckCommit
<1> QED
  BY <1>1, <1>2, <1>3, <1>4, <1>5 DEF Acknowledging

(* An operator's marks are committed.                                      *)
LEMMA AckCommitKeeps ==
    ASSUME LifecycleInv, NEW o \in Operators, NEW wanted \in SUBSET Devices,
           NEW clear \in BOOLEAN, AckCommit(o, wanted, clear)
    PROVE  LifecycleInv'
<1>1. o \in Txns
  BY DEF Txns
<1>2. /\ End(o) /\ UNCHANGED world /\ alert' \in [Ids -> Row]
      /\ \A i \in Ids : i \notin DOMAIN draft[o] => alert'[i] = alert[i]
      /\ \A i \in DOMAIN draft[o] :
           /\ i \in Ids /\ alert[i].status = "open"
           /\ \/ alert'[i] = alert[i]
              \/ alert'[i] = [alert[i] EXCEPT !.acked = ~ clear]
  BY AckCommitEffect
<1>3. ASSUME NEW i \in DOMAIN draft[o]
      PROVE  /\ Sound(alert'[i]) /\ GoesOn(alert[i], alert'[i])
             /\ alert'[i].status = "none" => alert'[i] = NoRow
             /\ alert'[i].status = "open" => i \in MayBeOpen(alert'[i].device)
  <2>1. alert[i] \in Row /\ i \in Ids /\ Sound(alert[i]) /\ alert[i].status = "open"
    BY <1>2 DEF LifecycleInv, TypeOK, TableSound
  <2>2. /\ alert'[i].status = alert[i].status /\ alert'[i].device = alert[i].device
        /\ alert'[i].started = alert[i].started /\ alert'[i].resolved = alert[i].resolved
        /\ alert'[i].downtime = alert[i].downtime
    BY <1>2, <2>1 DEF Row
  <2> QED
    BY <2>1, <2>2 DEF Sound, GoesOn, MayBeOpen, Row
<1> QED
  BY <1>1, <1>2, <1>3, EndKeeps

(* A transaction that fails leaves the table as it was.                    *)
LEMMA RollBackKeeps ==
    ASSUME LifecycleInv, NEW t \in Txns, End(t), UNCHANGED <<world, alert>>
    PROVE  LifecycleInv'
<1>1. /\ alert' = alert /\ alert' \in [Ids -> Row]
      /\ DOMAIN draft[t] \subseteq Ids
  BY DEF LifecycleInv, TypeOK
<1>2. ASSUME NEW i \in DOMAIN draft[t]
      PROVE  /\ Sound(alert'[i]) /\ GoesOn(alert[i], alert'[i])
             /\ alert'[i].status = "none" => alert'[i] = NoRow
             /\ alert'[i].status = "open" => i \in MayBeOpen(alert'[i].device)
  BY <1>1 DEF LifecycleInv, TableSound, GoesOn, MayBeOpen, Row
<1> QED
  BY <1>1, <1>2, EndKeeps

(* Every step keeps the invariant.                                          *)
LEMMA NextKeeps ==
    ASSUME LifecycleInv, [Next]_vars
    PROVE  LifecycleInv'
<1>1. CASE Tick \/ (\E d \in Devices : DeviceChange(d) \/ WindowChange(d)) \/ UNCHANGED vars
  BY <1>1, WorldKeeps
<1>2. CASE \E b \in Builders : Build(b)
  BY <1>2, BeginKeeps, LookUpKeeps, OpenAlertKeeps, RefreshKeeps, ReadOpenKeeps,
     ResolveKeeps, CommitBuildKeeps DEF Build
<1>3. CASE \E b \in Builders : \E known \in Told : Observe(b, known)
  <2>1. Told \subseteq BOOLEAN
    BY LifecycleAssumption
  <2> QED
    BY <1>3, <2>1, ObserveKeeps
<1>4. CASE \E o \in Operators : AckStart(o) \/ Acknowledge(o)
  BY <1>4, AckStartKeeps, AckLockKeeps, AckCommitKeeps DEF Acknowledge
<1>5. CASE \E t \in Txns : DeadlockAbort(t) \/ Fail(t)
  BY <1>5, RollBackKeeps DEF DeadlockAbort, Fail
<1> QED
  BY <1>1, <1>2, <1>3, <1>4, <1>5 DEF Next

(* Every reachable state satisfies LifecycleInv.                           *)
LEMMA InvariantHolds == Spec => []LifecycleInv
<1>1. LifecycleInv /\ [Next]_vars => LifecycleInv'
  BY NextKeeps
<1> QED
  BY InitHolds, <1>1, PTL DEF Spec
-----------------------------------------------------------------------------
(* Every variable keeps its type.                                           *)
THEOREM TypeCorrect == Spec => []TypeOK
<1>1. LifecycleInv => TypeOK
  BY DEF LifecycleInv
<1> QED
  BY InvariantHolds, <1>1, PTL

(* A device has at most one open alert, with any number of builds that both
   found none, wait for each other, conflict, fail or are rolled back: what
   open_alert_instance's ON CONFLICT (alert_key) WHERE open is there for. *)
THEOREM OneOpen == Spec => []OneOpenAlert
<1>1. LifecycleInv => OneOpenAlert
  <2> SUFFICES ASSUME LifecycleInv, NEW d \in Devices
               PROVE  Cardinality(OpenAlerts(d)) <= 1
    BY DEF OneOpenAlert
  <2>1. \A i, j \in OpenAlerts(d) : i = j
    BY DEF LifecycleInv, OneMayBeOpen, MayBeOpen, OpenAlerts
  <2>2. CASE OpenAlerts(d) = {}
    BY <2>2, FS_EmptySet
  <2>3. CASE OpenAlerts(d) # {}
    <3>1. PICK i : i \in OpenAlerts(d)
      BY <2>3
    <3>2. OpenAlerts(d) = {i}
      BY <2>1, <3>1
    <3>3. Cardinality(OpenAlerts(d)) = 1
      BY <3>2, FS_Singleton, Zenon
    <3> QED
      BY <3>3
  <2> QED
    BY <2>2, <2>3
<1> QED
  BY InvariantHolds, <1>1, PTL

(* An outage ends no earlier than it began, and its downtime is never more
   than that, whatever a build that read the alert earlier makes of its
   start and its end (refresh_open_alert, resolve_alert_instance). *)
THEOREM OutagesSound == Spec => []EndAfterStart
<1>1. LifecycleInv => EndAfterStart
  BY DEF LifecycleInv, TableSound, Sound, EndAfterStart
<1> QED
  BY InvariantHolds, <1>1, PTL

(* The steps that change the table are a build's commit and an
   acknowledgement's. *)
LEMMA TableChanges ==
    ASSUME [Next]_vars, alert' # alert
    PROVE  \/ \E b \in Builders : CommitBuild(b)
           \/ \E o \in Operators : \E wanted \in SUBSET Devices, clear \in BOOLEAN :
                AckCommit(o, wanted, clear)
<1>1. CASE Tick \/ (\E d \in Devices : DeviceChange(d) \/ WindowChange(d)) \/ UNCHANGED vars
  BY <1>1 DEF Tick, DeviceChange, WindowChange, table, vars
<1>2. CASE \E b \in Builders : Build(b) \/ \E known \in Told : Observe(b, known)
  BY <1>2 DEF Build, Observe, Begin, LookUp, OpenAlert, Refresh, ReadOpen, Resolve, table
<1>3. CASE \E o \in Operators : AckStart(o) \/ Acknowledge(o)
  BY <1>3 DEF AckStart, Acknowledge, AckLock, table
<1>4. CASE \E t \in Txns : DeadlockAbort(t) \/ Fail(t)
  BY <1>4 DEF DeadlockAbort, Fail
<1> QED
  BY <1>1, <1>2, <1>3, <1>4 DEF Next

(* What a build's commit makes of each row.                                 *)
LEMMA CommitBuildEffect ==
    ASSUME LifecycleInv, NEW b \in Builders, CommitBuild(b), NEW i \in Ids
    PROVE  /\ alert[i] \in Row /\ alert'[i] \in Row
           /\ alert'[i] # alert[i] => /\ Succeeds(alert[i], alert'[i])
                                      /\ alert'[i].device \notin obs[b].windows
<1>1. b \in Txns /\ alert'[i] = View(b, i)
  BY DEF CommitBuild, Commit, Txns
<1>2. alert[i] \in Row /\ View(b, i) \in Row
  BY <1>1, ViewIsRow
<1>3. CASE i \in DOMAIN draft[b]
  <2>1. Succeeds(alert[i], draft[b][i])
    BY <1>1, <1>3 DEF LifecycleInv, DraftsSucceed
  <2>2. draft[b][i].device \notin obs[b].windows
    BY <1>3 DEF LifecycleInv, AllBuilding, Building
  <2> QED
    BY <1>1, <1>2, <1>3, <2>1, <2>2 DEF View
<1>4. CASE i \notin DOMAIN draft[b]
  BY <1>1, <1>2, <1>4 DEF View
<1> QED
  BY <1>3, <1>4

(* An alert ends once: its end and downtime stay, it is never open again, and
   its start only moves earlier, however many builds write older copies. *)
THEOREM HistoryNeverChanges == Spec => HistoryKept
<1> DEFINE Kept1(i) ==
      alert[i].status # "none" =>
         /\ alert'[i].started <= alert[i].started
         /\ alert[i].status = "resolved" =>
              /\ alert'[i].status = "resolved"
              /\ alert'[i].resolved = alert[i].resolved
              /\ alert'[i].downtime = alert[i].downtime
<1>1. LifecycleInv /\ [Next]_vars => [\A i \in Ids : Kept1(i)]_vars
  <2> SUFFICES ASSUME LifecycleInv, [Next]_vars, NEW i \in Ids PROVE Kept1(i)
    OBVIOUS
  <2>1. alert[i] \in Row
    BY DEF LifecycleInv, TypeOK
  <2>2. CASE alert' = alert
    BY <2>1, <2>2 DEF Row
  <2>3. CASE \E b \in Builders : CommitBuild(b)
    <3>1. alert'[i] = alert[i] \/ Succeeds(alert[i], alert'[i])
      BY <2>3, CommitBuildEffect
    <3> QED
      BY <2>1, <3>1 DEF Succeeds, Row
  <2>4. CASE \E o \in Operators : \E wanted \in SUBSET Devices, clear \in BOOLEAN :
               AckCommit(o, wanted, clear)
    <3>0. PICK o \in Operators, wanted \in SUBSET Devices, clear \in BOOLEAN :
            AckCommit(o, wanted, clear)
      BY <2>4
    <3>1. /\ i \notin DOMAIN draft[o] => alert'[i] = alert[i]
          /\ i \in DOMAIN draft[o] =>
               \/ alert'[i] = alert[i]
               \/ alert'[i] = [alert[i] EXCEPT !.acked = ~ clear]
      BY <3>0, AckCommitEffect
    <3> QED
      BY <2>1, <3>1 DEF Row
  <2> QED
    BY <2>2, <2>3, <2>4, TableChanges
<1> QED
  BY InvariantHolds, <1>1, PTL DEF Spec, HistoryKept

(* An acknowledgement is set or removed by an operator, on an alert that is
   open when it is and stays open: no build that commits an older copy of
   the row undoes it, and none lands on an alarm that just ended. *)
THEOREM AckLands == Spec => AckOnOpen
<1> DEFINE Lands(i) ==
      alert'[i].acked # alert[i].acked =>
         /\ alert[i].status = "open" /\ alert'[i].status = "open"
         /\ \E o \in Operators : pc[o] = "lock" /\ pc'[o] = "idle"
<1>1. LifecycleInv /\ [Next]_vars => [\A i \in Ids : Lands(i)]_vars
  <2> SUFFICES ASSUME LifecycleInv, [Next]_vars, NEW i \in Ids PROVE Lands(i)
    OBVIOUS
  <2>1. alert[i] \in Row
    BY DEF LifecycleInv, TypeOK
  <2>2. CASE alert' = alert
    BY <2>2
  <2>3. CASE \E b \in Builders : CommitBuild(b)
    BY <2>3, CommitBuildEffect DEF Succeeds
  <2>4. CASE \E o \in Operators : \E wanted \in SUBSET Devices, clear \in BOOLEAN :
               AckCommit(o, wanted, clear)
    <3>0. PICK o \in Operators, wanted \in SUBSET Devices, clear \in BOOLEAN :
            AckCommit(o, wanted, clear)
      BY <2>4
    <3>1. /\ pc[o] = "lock" /\ pc'[o] = "idle"
          /\ i \notin DOMAIN draft[o] => alert'[i] = alert[i]
          /\ i \in DOMAIN draft[o] =>
               /\ alert[i].status = "open"
               /\ \/ alert'[i] = alert[i]
                  \/ alert'[i] = [alert[i] EXCEPT !.acked = ~ clear]
      BY <3>0, AckCommitEffect
    <3> QED
      BY <2>1, <3>1 DEF Row
  <2> QED
    BY <2>2, <2>3, <2>4, TableChanges
<1> QED
  BY InvariantHolds, <1>1, PTL DEF Spec, AckOnOpen

(* A build that saw a device in maintenance leaves its open alert as it is:
   open_alert_keys keeps it from the resolve, and it is not refreshed. *)
THEOREM WindowsFreeze == Spec => FrozenKept
<1> DEFINE Frozen(b) ==
      pc[b] = "resolve" /\ pc'[b] = "idle" =>
         \A i \in Ids : alert[i].device \in obs[b].windows => alert'[i] = alert[i]
<1>1. LifecycleInv /\ [Next]_vars => [\A b \in Builders : Frozen(b)]_vars
  <2> SUFFICES ASSUME LifecycleInv, [Next]_vars, NEW b \in Builders,
                      pc[b] = "resolve", pc'[b] = "idle",
                      NEW i \in Ids, alert[i].device \in obs[b].windows,
                      alert'[i] # alert[i]
               PROVE  FALSE
    OBVIOUS
  <2>1. TypeOK /\ b \in Txns /\ b \notin Operators
    BY LifecycleAssumption DEF LifecycleInv, Txns
  <2>2. ASSUME NEW c \in Builders, CommitBuild(c) PROVE FALSE
    <3>1. c = b
      BY <2>1, <2>2 DEF CommitBuild, Commit, End, TypeOK
    <3>2. Succeeds(alert[i], alert'[i]) /\ alert'[i].device \notin obs[b].windows
      BY <2>2, <3>1, CommitBuildEffect
    <3>3. alert[i].status = "none"
      BY <3>2 DEF Succeeds
    <3>4. alert[i].device = 0
      BY <3>3 DEF LifecycleInv, TableSound, NoRow
    <3>5. obs[b].windows \subseteq Devices
      BY <2>1 DEF TypeOK, Observation
    <3> QED
      BY <3>4, <3>5 DEF Devices
  <2>3. ASSUME NEW o \in Operators, NEW wanted \in SUBSET Devices, NEW clear \in BOOLEAN,
               AckCommit(o, wanted, clear)
        PROVE  FALSE
    BY <2>1, <2>3 DEF AckCommit, End, TypeOK
  <2> QED
    BY <2>2, <2>3, TableChanges
<1> QED
  BY InvariantHolds, <1>1, PTL DEF Spec, FrozenKept
==============================================================================
