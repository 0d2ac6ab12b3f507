--------------------------- MODULE SiteLevelsProofs ---------------------------
(***************************************************************************)
(* Proofs about SiteLevels, for any number of sites, devices and builders, *)
(* any settings and any number of events: its types, that the log of a     *)
(* site's changes is a chain that ends at the stored level, and that what  *)
(* the receivers were last told matches it.  And about SiteFailures: that  *)
(* the level is the worst of what the failures call for.                   *)
(***************************************************************************)
EXTENDS SiteLevels, SiteFailures, SequenceTheorems, FiniteSetTheorems, TLAPS

(* What an operator or Nautobot says of a site, and the network's state.   *)
SiteType ==
    [down : SUBSET Devices, crit : [Devices -> Crits], override : [Devices -> {""}],
     tier : Tiers, window : BOOLEAN, frozen : SUBSET Devices]

(* What a build may have observed of a site.                               *)
SeenType ==
    [level : Levels, quiet : BOOLEAN, crit : Keys, down : SUBSET Devices, tier : Tiers]

Messages == {"alarm", "recovery"}
Kinds    == {"alarm", "recovery", "none"}

TypeOK ==
    /\ site \in [Sites -> SiteType]
    /\ events \in [Sites -> Nat]
    /\ row \in [Sites -> Rows \cup {None}]
    /\ log \in [Sites -> Seq(Levels \X Levels)]
    /\ outbox \in [Sites -> Kinds]
    /\ told \in [Sites -> Seq(Messages)]
    /\ hushed \in [Sites -> BOOLEAN]
    /\ lock \in [Sites -> Builders \cup {None}]
    /\ pc \in [Builders -> {"idle", "lock", "record"}]
    /\ seen \in [Builders -> [Sites -> SeenType \cup {None}]]
    /\ previous \in [Builders -> [Sites -> Rows \cup {None}]]
    /\ turn \in [Builders -> Nat \ {0}]

(* What a build read under the lock is the row, until it commits.          *)
LockedIsRead ==
    \A b \in Builders, s \in Sites :
        previous[b][s] # None => lock[s] = b /\ previous[b][s] = row[s]

(* A site with nothing stored has no log and no messages.                  *)
NoRowNoHistory ==
    \A s \in Sites : row[s] = None => log[s] = <<>> /\ told[s] = <<>>

(* Unless the receivers are kept from knowing, the newest message is the last
   one queued, Critical is alarmed and no other level of rank 0 is. *)
ToldLevel ==
    \A s \in Sites : row[s] # None /\ ~ hushed[s] =>
        /\ told[s] # <<>> => outbox[s] = told[s][Len(told[s])]
        /\ row[s].level = "critical" => Alarmed(s)
        /\ Rank(row[s].level) = 0 => ~ Alarmed(s)
------------------------------------------------------------------------------
(* The levels of wired devices, and of a site not in maintenance.          *)
WiredLevels == DEVICE_LEVELS \cup {"ok"}
BoardLevels == WiredLevels \cup {"no_data"}

(* Ranks are 0 to 3, and only Critical has 3.                              *)
LEMMA RankType ==
    ASSUME NEW l
    PROVE  /\ Rank(l) \in 0 .. 3
           /\ l = "critical" => Rank(l) = 3
           /\ Rank(l) = 3 => l = "critical"
           /\ l \in DEVICE_LEVELS => Rank(l) > 0
           /\ l \in {"ok", "no_data", "maintenance", ""} => Rank(l) = 0
  <1>1. CASE l = "critical"
    BY <1>1 DEF Rank, DEVICE_LEVELS
  <1>2. CASE l = "medium"
    BY <1>2 DEF Rank, DEVICE_LEVELS
  <1>3. CASE l = "low"
    BY <1>3 DEF Rank, DEVICE_LEVELS
  <1>4. CASE l \notin DEVICE_LEVELS
    <2>1. Rank(l) = 0
      BY <1>4 DEF Rank, DEVICE_LEVELS
    <2> QED
      BY <1>4, <2>1 DEF DEVICE_LEVELS
  <1> QED
    BY <1>1, <1>2, <1>3, <1>4 DEF DEVICE_LEVELS

(* What a device makes its site is a level or nothing, and an own level of an
   access point is a level. *)
LEMMA DeviceLevelType ==
    ASSUME NEW d \in Devices, NEW x \in SiteType
    PROVE  device_level(d, x) \in OwnLevels
  <1>1. x.crit[d] \in OwnLevels /\ TierLevel[x.tier] \in OwnLevels
    BY SiteLevelsAssumption, AlertLevelsAssumption DEF SiteType, Tiers
  <1> QED
    BY <1>1, AlertLevelsAssumption DEF device_level, Worse, OwnLevels, DEVICE_LEVELS

(* Among some levels worst_of finds one that none is worse than.           *)
LEMMA WorstExists ==
    ASSUME NEW levels, levels # {}
    PROVE  \E l \in levels : \A k \in levels : Rank(k) <= Rank(l)
  <1>1. \A l : Rank(l) \in 0 .. 3
    BY RankType
  <1>2. CASE \E l \in levels : Rank(l) = 3
    BY <1>1, <1>2
  <1>3. CASE ~ (\E l \in levels : Rank(l) = 3) /\ (\E l \in levels : Rank(l) = 2)
    BY <1>1, <1>3
  <1>4. CASE ~ (\E l \in levels : Rank(l) \in 2 .. 3) /\ (\E l \in levels : Rank(l) = 1)
    BY <1>1, <1>4
  <1>5. CASE ~ (\E l \in levels : Rank(l) \in 1 .. 3)
    BY <1>1, <1>5
  <1> QED
    BY <1>1, <1>2, <1>3, <1>4, <1>5

(* Nothing is never worse than a level.                                    *)
LEMMA WorseType ==
    ASSUME NEW a \in WiredLevels, NEW b \in OwnLevels
    PROVE  Worse(a, b) \in WiredLevels
  <1>1. CASE b = ""
    <2>1. Rank(b) = 0 /\ Rank(a) \in 0 .. 3
      BY <1>1, RankType
    <2> QED
      BY <2>1 DEF Worse
  <1>2. CASE b \in DEVICE_LEVELS
    BY <1>2 DEF Worse, WiredLevels
  <1> QED
    BY <1>1, <1>2 DEF OwnLevels

(* worst_of is a level or nothing.                                         *)
LEMMA WorstType ==
    ASSUME NEW devices \in SUBSET Devices, NEW x \in SiteType
    PROVE  worst_of(devices, x) \in OwnLevels
  <1> DEFINE levels == {device_level(d, x) : d \in devices}
  <1>1. levels \subseteq OwnLevels
    BY DeviceLevelType
  <1>2. CASE levels = {}
    BY <1>2 DEF worst_of, OwnLevels, DEVICE_LEVELS
  <1>3. CASE levels # {}
    <2>1. worst_of(devices, x) = CHOOSE l \in levels : \A k \in levels : Rank(k) <= Rank(l)
      BY <1>3 DEF worst_of
    <2>2. worst_of(devices, x) \in levels
      BY <1>3, <2>1, WorstExists
    <2> QED
      BY <1>1, <2>2
  <1> QED
    BY <1>2, <1>3

(* What a build observes of a site has the type of a row, and more.        *)
LEMMA ObservedType ==
    ASSUME NEW s \in Sites, site \in [Sites -> SiteType]
    PROVE  Observed(s) \in SeenType
  <1> DEFINE x == site[s]
  <1>1. x \in SiteType
    OBVIOUS
  <1>2. \A devices \in SUBSET Devices :
          wired_level(wired_devices(devices), x, pct) \in WiredLevels
    <2> SUFFICES ASSUME NEW devices \in SUBSET Devices
                 PROVE  wired_level(wired_devices(devices), x, pct) \in WiredLevels
      OBVIOUS
    <2> DEFINE w == wired_devices(devices)
    <2>1. w \cap x.down \in SUBSET Devices
      BY DEF wired_devices
    <2>2. worst_of(w \cap x.down, x) \in OwnLevels
      BY <1>1, <2>1, WorstType
    <2>3. \A n, m : share_level(n, m, pct) \in DEVICE_LEVELS
      BY DEF share_level, DEVICE_LEVELS
    <2>4. wired_level(w, x, pct)
            \in {"critical", "ok",
                 Worse(share_level(Cardinality(w \cap x.down), Cardinality(w), pct),
                       worst_of(w \cap x.down, x))}
      BY DEF wired_level
    <2> QED
      BY <2>2, <2>3, <2>4, WorseType DEF WiredLevels, DEVICE_LEVELS
  <1>3. \A devices \in SUBSET Devices :
          compute_alert_level(devices, x, pct).level \in BoardLevels
    <2> SUFFICES ASSUME NEW devices \in SUBSET Devices
                 PROVE  compute_alert_level(devices, x, pct).level
                          \in BoardLevels
      OBVIOUS
    <2> DEFINE alert == IF wired_devices(devices) = {} THEN "ok"
                        ELSE wired_level(wired_devices(devices), x, pct)
               own   == {d \in devices \cap Wireless \cap x.down : ~ controller_only(d, x)}
    <2>1. alert \in WiredLevels
      BY <1>2 DEF WiredLevels, DEVICE_LEVELS
    <2>2. worst_of(own, x) \in OwnLevels
      BY <1>1, WorstType
    <2>3. Worse(alert, worst_of(own, x)) \in WiredLevels
      BY <2>1, <2>2, WorseType
    <2>4. compute_alert_level(devices, x, pct).level
            \in {"no_data", alert, Worse(alert, worst_of(own, x)), WirelessApLevel}
      BY DEF compute_alert_level
    <2> QED
      BY <2>1, <2>3, <2>4, AlertLevelsAssumption DEF BoardLevels, WiredLevels, DEVICE_LEVELS
  <1>4. observed_level(Devices \ x.frozen, x, pct) \in Levels
    BY <1>3 DEF observed_level, Levels, BoardLevels, WiredLevels, DEVICE_LEVELS
  <1>5. <<TierLevel[x.tier], x.crit>> \in Keys
    BY <1>1, SiteLevelsAssumption, AlertLevelsAssumption DEF SiteType, Tiers, Keys
  <1> QED
    BY <1>1, <1>4, <1>5 DEF Observed, SeenType, SiteType, Levels, DEVICE_LEVELS
------------------------------------------------------------------------------
(* An event keeps the types when the site it leaves has one.               *)
LEMMA HappensType ==
    ASSUME TypeOK, NEW s \in Sites, NEW kind, NEW new \in SiteType, Happens(kind, s, new)
    PROVE  TypeOK'
  BY DEF TypeOK, Happens, store, local

(* What a build stores is a row, and what it queues a message or none.     *)
LEMMA StoredType ==
    ASSUME TypeOK, NEW b \in Builders, NEW s \in Sites
    PROVE  /\ Stored(b, s) \in Rows \cup {None}
           /\ Queues(b, s) \in Kinds
           /\ seen[b][s] # None => seen[b][s] \in SeenType
           /\ previous[b][s] # None => previous[b][s] \in Rows
  <1>1. seen[b][s] \in SeenType \cup {None} /\ previous[b][s] \in Rows \cup {None}
        /\ row[s] \in Rows \cup {None}
    BY DEF TypeOK
  <1>2. Stored(b, s) \in Rows \cup {None}
    BY <1>1 DEF Stored, SeenType, Rows
  <1>3. \A from, to, tier : event_kind(from, to, tier) \in Kinds
    BY DEF event_kind, Kinds
  <1>4. \A from, now : Message(s, from, now) \in Kinds
    BY <1>3 DEF Message, Kinds
  <1>5. \A before, now : Sent(s, before, now) \in Kinds
    BY <1>4 DEF Sent, Kinds
  <1>6. Queues(b, s) \in Kinds
    BY <1>5 DEF Queues, Kinds
  <1> QED
    BY <1>1, <1>2, <1>6

(* The end of a transaction keeps the types.                               *)
LEMMA FinishType ==
    ASSUME TypeOK, NEW b \in Builders, Finish(b)
    PROVE  /\ lock' \in [Sites -> Builders \cup {None}]
           /\ pc' \in [Builders -> {"idle", "lock", "record"}]
           /\ seen' \in [Builders -> [Sites -> SeenType \cup {None}]]
           /\ previous' \in [Builders -> [Sites -> Rows \cup {None}]]
           /\ turn' \in [Builders -> Nat \ {0}]
  <1>1. NoSites \in [Sites -> SeenType \cup {None}] /\ NoSites \in [Sites -> Rows \cup {None}]
    BY DEF NoSites
  <1> QED
    BY <1>1 DEF TypeOK, Finish

(* A commit keeps the types.                                               *)
LEMMA RecordType ==
    ASSUME TypeOK, NEW b \in Builders, Record(b)
    PROVE  TypeOK'
  <1>1. row' \in [Sites -> Rows \cup {None}]
    BY StoredType DEF Record
  <1>2. \A s \in Sites : Changed(b, s) =>
          <<previous[b][s].level, seen[b][s].level>> \in Levels \X Levels
    BY StoredType DEF Changed, SeenType, Rows
  <1>3. log' \in [Sites -> Seq(Levels \X Levels)]
    <2>1. \A s \in Sites : log[s] \in Seq(Levels \X Levels)
      BY DEF TypeOK
    <2>2. \A s \in Sites :
            (IF Changed(b, s)
             THEN Append(log[s], <<previous[b][s].level, seen[b][s].level>>) ELSE log[s])
               \in Seq(Levels \X Levels)
      BY <1>2, <2>1, AppendProperties
    <2> QED
      BY <2>2 DEF Record
  <1>4. outbox' \in [Sites -> Kinds]
    BY StoredType DEF Record, TypeOK
  <1>5. told' \in [Sites -> Seq(Messages)]
    <2>1. \A s \in Sites : told[s] \in Seq(Messages)
      BY DEF TypeOK
    <2>2. \A s \in Sites : Queues(b, s) # "none" => Queues(b, s) \in Messages
      BY StoredType DEF Kinds, Messages
    <2>3. \A s \in Sites :
            (IF Queues(b, s) = "none" THEN told[s] ELSE Append(told[s], Queues(b, s)))
               \in Seq(Messages)
      BY <2>1, <2>2, AppendProperties
    <2> QED
      BY <2>3 DEF Record
  <1>6. hushed' \in [Sites -> BOOLEAN]
    <2>1. \A s \in Sites : hushed[s] \in BOOLEAN
      BY DEF TypeOK
    <2>2. \A s \in Sites : Hushed(s, previous[b][s], seen[b][s]) \in BOOLEAN
      BY DEF Hushed
    <2>3. \A s \in Sites : (Rank(seen[b][s].level) > 0) \in BOOLEAN
      OBVIOUS
    <2> QED
      BY <2>1, <2>2, <2>3 DEF Record
  <1>7. Finish(b) /\ UNCHANGED world
    BY DEF Record
  <1> QED
    BY <1>1, <1>3, <1>4, <1>5, <1>6, <1>7, FinishType DEF TypeOK, world

(* A build that locks rows has a site to lock.                             *)
LEMMA LockTargetType ==
    ASSUME TypeOK, NEW b \in Builders, LockRow(b)
    PROVE  LockTarget(b) \in Sites
  <1>1. turn[b] \in Nat \ {0} /\ turn[b] <= NSites
    BY DEF LockRow, TypeOK
  <1>2. NSites \in Nat
    BY SiteLevelsAssumption, Zenon
  <1> QED
    BY <1>1, <1>2 DEF LockTarget, Sites

(* Every action keeps the types.                                           *)
LEMMA TypeStep ==
    ASSUME TypeOK, [Next]_vars
    PROVE  TypeOK'
  <1>0. \A s \in Sites : site[s] \in SiteType
    BY DEF TypeOK
  <1>1. ASSUME NEW s \in Sites, WindowChange(s)
        PROVE  TypeOK'
    <2>1. [site[s] EXCEPT !.window = ~ @] \in SiteType
      BY <1>0 DEF SiteType
    <2> QED
      BY <1>1, <2>1, HappensType DEF WindowChange
  <1>2. ASSUME NEW s \in Sites, DeleteOld(s)
        PROVE  TypeOK'
    BY <1>2 DEF DeleteOld, TypeOK, Kinds, world, local
  <1>3. ASSUME NEW s \in Sites, NEW d \in Devices, DeviceChange(s, d)
        PROVE  TypeOK'
    <2>1. [site[s] EXCEPT !.down = IF d \in @ THEN @ \ {d} ELSE @ \cup {d}] \in SiteType
      BY <1>0 DEF SiteType
    <2> QED
      BY <1>3, <2>1, HappensType DEF DeviceChange
  <1>4. ASSUME NEW s \in Sites, NEW d \in Devices, DeviceWindowChange(s, d)
        PROVE  TypeOK'
    <2>1. [site[s] EXCEPT !.frozen = IF d \in @ THEN @ \ {d} ELSE @ \cup {d}] \in SiteType
      BY <1>0 DEF SiteType
    <2> QED
      BY <1>4, <2>1, HappensType DEF DeviceWindowChange
  <1>5. ASSUME NEW s \in Sites, NEW d \in Devices, NEW level \in Crits, Edit(s, d, level)
        PROVE  TypeOK'
    <2>1. [site[s] EXCEPT !.crit[d] = level] \in SiteType
      BY <1>0 DEF SiteType
    <2> QED
      BY <1>5, <2>1, HappensType DEF Edit
  <1>6. ASSUME NEW s \in Sites, NEW tier \in Tiers, TierChange(s, tier)
        PROVE  TypeOK'
    <2>1. [site[s] EXCEPT !.tier = tier] \in SiteType
      BY <1>0 DEF SiteType
    <2> QED
      BY <1>6, <2>1, HappensType DEF TierChange
  <1>7. ASSUME NEW p \in PercentPairs, SettingChange(p)
        PROVE  TypeOK'
    <2>1. NoSites \in [Sites -> SeenType \cup {None}] /\ NoSites \in [Sites -> Rows \cup {None}]
      BY DEF NoSites
    <2> QED
      BY <1>7, <2>1 DEF SettingChange, TypeOK, store
  <1>8. ASSUME NEW b \in Builders, NEW readable \in SUBSET Sites, Observe(b, readable)
        PROVE  TypeOK'
    <2>1. \A s \in Sites : Observed(s) \in SeenType
      BY ObservedType DEF TypeOK
    <2> QED
      BY <1>8, <2>1 DEF Observe, TypeOK, world, store
  <1>9. ASSUME NEW b \in Builders, LockRow(b)
        PROVE  TypeOK'
    <2>1. LockTarget(b) \in Sites
      BY <1>9, LockTargetType
    <2>2. row[LockTarget(b)] \in Rows \cup {None}
      BY <2>1 DEF TypeOK
    <2>3. turn' \in [Builders -> Nat \ {0}]
      BY <1>9 DEF LockRow, TypeOK
    <2>4. lock' \in [Sites -> Builders \cup {None}]
      BY <1>9, <2>1 DEF LockRow, TypeOK
    <2>5. previous' \in [Builders -> [Sites -> Rows \cup {None}]]
      <3>1. \/ previous' = previous
            \/ previous' = [previous EXCEPT ![b][LockTarget(b)] = row[LockTarget(b)]]
        BY <1>9 DEF LockRow
      <3>2. previous \in [Builders -> [Sites -> Rows \cup {None}]]
        BY DEF TypeOK
      <3>3. [previous[b] EXCEPT ![LockTarget(b)] = row[LockTarget(b)]]
              \in [Sites -> Rows \cup {None}]
        BY <2>1, <2>2, <3>2
      <3> QED
        BY <3>1, <3>2, <3>3
    <2> QED
      BY <1>9, <2>3, <2>4, <2>5 DEF LockRow, TypeOK, world, store
  <1>10. ASSUME NEW b \in Builders, Locked(b)
         PROVE  TypeOK'
    BY <1>10 DEF Locked, TypeOK, world, store
  <1>11. ASSUME NEW b \in Builders, Record(b)
         PROVE  TypeOK'
    BY <1>11, RecordType
  <1>12. ASSUME NEW b \in Builders, RecordFails(b)
         PROVE  TypeOK'
    BY <1>12, FinishType DEF RecordFails, TypeOK, world, store
  <1>13. CASE UNCHANGED vars
    BY <1>13 DEF TypeOK, vars, world, store, local
  <1> QED
    BY <1>1, <1>2, <1>3, <1>4, <1>5, <1>6, <1>7, <1>8, <1>9, <1>10, <1>11, <1>12, <1>13
       DEF Next, World, Build

(* Type correctness of the sites, their rows and the builds.               *)
THEOREM TypeCorrect == Spec => []TypeOK
  <1>1. Init => TypeOK
    <2> SUFFICES ASSUME Init PROVE TypeOK
      OBVIOUS
    <2>1. \A s \in Sites : site[s] \in SiteType
      BY SiteLevelsAssumption DEF Init, SiteType
    <2>2. NoSites \in [Sites -> SeenType \cup {None}] /\ NoSites \in [Sites -> Rows \cup {None}]
      BY DEF NoSites
    <2>3. site \in [Sites -> SiteType]
      BY <2>1 DEF Init
    <2>4. /\ events \in [Sites -> Nat] /\ row \in [Sites -> Rows \cup {None}]
          /\ outbox \in [Sites -> Kinds] /\ hushed \in [Sites -> BOOLEAN]
          /\ lock \in [Sites -> Builders \cup {None}]
      BY DEF Init, Kinds
    <2>5. log \in [Sites -> Seq(Levels \X Levels)] /\ told \in [Sites -> Seq(Messages)]
      BY EmptySeq DEF Init
    <2>6. /\ seen \in [Builders -> [Sites -> SeenType \cup {None}]]
          /\ previous \in [Builders -> [Sites -> Rows \cup {None}]]
      BY <2>2 DEF Init
    <2>7. pc \in [Builders -> {"idle", "lock", "record"}]
      BY DEF Init
    <2>8. turn \in [Builders -> Nat \ {0}]
      <3>1. turn = [b \in Builders |-> 1]
        BY DEF Init
      <3> QED
        BY <3>1
    <2> QED
      BY <2>3, <2>4, <2>5, <2>6, <2>7, <2>8 DEF TypeOK
  <1>2. TypeOK /\ [Next]_vars => TypeOK'
    BY TypeStep
  <1> QED
    BY <1>1, <1>2, PTL DEF Spec
------------------------------------------------------------------------------
(* Locking a row, committing and failing keep the rows read as they are:
   another build can neither lock a row that is read nor store over it. *)
LEMMA LockedStep ==
    ASSUME TypeOK, LockedIsRead, [Next]_vars
    PROVE  LockedIsRead'
  <1>1. CASE World
    <2>1. UNCHANGED <<row, lock, previous>>
      BY <1>1 DEF World, WindowChange, DeleteOld, DeviceChange, DeviceWindowChange, Edit,
                  TierChange, Happens, store, local
    <2> QED
      BY <2>1 DEF LockedIsRead
  <1>2. ASSUME NEW p \in PercentPairs, SettingChange(p)
        PROVE  LockedIsRead'
    BY <1>2 DEF SettingChange, LockedIsRead, NoSites
  <1>3. ASSUME NEW b \in Builders, NEW readable \in SUBSET Sites, Observe(b, readable)
        PROVE  LockedIsRead'
    BY <1>3 DEF Observe, LockedIsRead, store
  <1>4. ASSUME NEW b \in Builders, LockRow(b)
        PROVE  LockedIsRead'
    <2> DEFINE t == LockTarget(b)
    <2>1. t \in Sites
      BY <1>4, LockTargetType
    <2>2. CASE UNCHANGED <<previous, lock>>
      BY <1>4, <2>2 DEF LockRow, LockedIsRead, store
    <2>3. CASE ~ UNCHANGED <<previous, lock>>
      <3>1. /\ lock[t] = None
            /\ lock' = [lock EXCEPT ![t] = b]
            /\ previous' = [previous EXCEPT ![b][t] = row[t]]
            /\ row' = row
        BY <1>4, <2>3 DEF LockRow, MayLock, store
      <3>2. ASSUME NEW c \in Builders, NEW s \in Sites, previous'[c][s] # None
            PROVE  lock'[s] = c /\ previous'[c][s] = row'[s]
        <4>1. CASE c = b /\ s = t
          BY <2>1, <3>1, <4>1 DEF TypeOK
        <4>2. CASE ~ (c = b /\ s = t)
          <5>1. previous'[c][s] = previous[c][s]
            BY <2>1, <3>1, <4>2 DEF TypeOK
          <5>2. lock[s] = c /\ previous[c][s] = row[s]
            BY <3>2, <5>1 DEF LockedIsRead
          <5>3. s # t
            BY <3>1, <5>2, SiteLevelsAssumption
          <5> QED
            BY <2>1, <3>1, <5>1, <5>2, <5>3 DEF TypeOK
        <4> QED
          BY <4>1, <4>2
      <3> QED
        BY <3>2 DEF LockedIsRead
    <2> QED
      BY <2>2, <2>3
  <1>5. ASSUME NEW b \in Builders, Locked(b)
        PROVE  LockedIsRead'
    BY <1>5 DEF Locked, LockedIsRead, store
  <1>6. ASSUME NEW b \in Builders, Finish(b),
               \A c \in Builders \ {b}, s \in Sites :
                   previous[c][s] # None => row'[s] = row[s]
        PROVE  LockedIsRead'
    <2> SUFFICES ASSUME NEW c \in Builders, NEW s \in Sites, previous'[c][s] # None
                 PROVE  lock'[s] = c /\ previous'[c][s] = row'[s]
      BY DEF LockedIsRead
    <2>1. c # b
      BY <1>6 DEF Finish, TypeOK, NoSites
    <2>2. previous'[c][s] = previous[c][s]
      BY <1>6, <2>1 DEF Finish, TypeOK
    <2>3. lock[s] = c /\ previous[c][s] = row[s]
      BY <2>2 DEF LockedIsRead
    <2> QED
      BY <1>6, <2>1, <2>2, <2>3 DEF Finish
  <1>7. ASSUME NEW b \in Builders, Record(b)
        PROVE  LockedIsRead'
    <2>1. ASSUME NEW c \in Builders \ {b}, NEW s \in Sites, previous[c][s] # None
          PROVE  row'[s] = row[s]
      <3>1. lock[s] = c /\ row[s] # None
        BY <2>1 DEF LockedIsRead
      <3>2. previous[b][s] = None
        BY <3>1 DEF LockedIsRead
      <3> QED
        BY <1>7, <3>1, <3>2 DEF Record, Stored
    <2> QED
      BY <1>6, <1>7, <2>1 DEF Record
  <1>8. ASSUME NEW b \in Builders, RecordFails(b)
        PROVE  LockedIsRead'
    BY <1>6, <1>8 DEF RecordFails, store
  <1>9. CASE UNCHANGED vars
    BY <1>9 DEF LockedIsRead, vars, store, local
  <1> QED
    BY <1>1, <1>2, <1>3, <1>4, <1>5, <1>7, <1>8, <1>9 DEF Next, Build

(* The builds' steps but a commit leave the rows and their history alone.  *)
LEMMA OnlyRecordStores ==
    ASSUME [Next]_vars
    PROVE  \/ \E b \in Builders : Record(b)
           \/ \E s \in Sites : DeleteOld(s)
           \/ UNCHANGED store
  BY DEF Next, World, Build, WindowChange, DeviceChange, DeviceWindowChange, Edit, TierChange,
         Happens, SettingChange, Observe, LockRow, Locked, RecordFails, vars, store

(* What a commit finds at a site is what it read, or a row it did not lock
   because there was none. *)
LEMMA RecordReads ==
    ASSUME TypeOK, LockedIsRead, NEW b \in Builders, NEW s \in Sites, Record(b)
    PROVE  /\ row'[s] = Stored(b, s)
           /\ previous[b][s] # None => previous[b][s] = row[s]
           /\ Changed(b, s) => /\ row[s] # None /\ seen[b][s] # None
                               /\ previous[b][s] = row[s]
                               /\ row'[s].level = seen[b][s].level
                               /\ row[s].level # seen[b][s].level
           /\ row[s] # None => row'[s] # None
           /\ ~ Changed(b, s) /\ row[s] # None => row'[s].level = row[s].level
  <1>1. row'[s] = Stored(b, s)
    BY DEF Record
  <1>2. previous[b][s] # None => previous[b][s] = row[s]
    BY DEF LockedIsRead
  <1>3. seen[b][s] # None =>
          [level |-> seen[b][s].level, crit |-> seen[b][s].crit, down |-> seen[b][s].down] # None
    <2>1. None \notin Rows
      BY SiteLevelsAssumption, Zenon
    <2> QED
      BY <2>1, StoredType DEF SeenType, Rows
  <1>4. Changed(b, s) => /\ row[s] # None /\ seen[b][s] # None
                         /\ previous[b][s] = row[s]
                         /\ row'[s].level = seen[b][s].level
                         /\ row[s].level # seen[b][s].level
    BY <1>1, <1>2 DEF Changed, Stored
  <1>5. ~ Changed(b, s) /\ row[s] # None => row'[s].level = row[s].level
    BY <1>1, <1>2 DEF Changed, Stored
  <1>6. row[s] # None => row'[s] # None
    BY <1>1, <1>3 DEF Stored
  <1> QED
    BY <1>1, <1>2, <1>4, <1>5, <1>6

(* A site without a row stays without history until its first level is
   stored, and that is no change. *)
LEMMA NoRowStep ==
    ASSUME TypeOK, LockedIsRead, NoRowNoHistory, [Next]_vars
    PROVE  NoRowNoHistory'
  <1>1. ASSUME NEW b \in Builders, Record(b)
        PROVE  NoRowNoHistory'
    <2> SUFFICES ASSUME NEW s \in Sites, row'[s] = None
                 PROVE  log'[s] = <<>> /\ told'[s] = <<>>
      BY DEF NoRowNoHistory
    <2>1. row[s] = None /\ ~ Changed(b, s)
      BY <1>1, RecordReads
    <2>2. log'[s] = log[s] /\ told'[s] = told[s]
      BY <1>1, <2>1 DEF Record, Queues
    <2> QED
      BY <2>1, <2>2 DEF NoRowNoHistory
  <1>2. ASSUME NEW s \in Sites, DeleteOld(s)
        PROVE  NoRowNoHistory'
    BY <1>2 DEF DeleteOld, NoRowNoHistory
  <1>3. CASE UNCHANGED store
    BY <1>3 DEF NoRowNoHistory, store
  <1> QED
    BY <1>1, <1>2, <1>3, OnlyRecordStores

(* A log whose changes are real and each start where the last one ended.   *)
Chain(l) ==
    \A i \in DOMAIN l : l[i][1] # l[i][2] /\ (i > 1 => l[i][1] = l[i - 1][2])

(* A change from the level a chain ends at makes a longer chain.           *)
LEMMA ChainAppend ==
    ASSUME NEW l \in Seq(Levels \X Levels), NEW from \in Levels, NEW to \in Levels,
           Chain(l), from # to, l # <<>> => l[Len(l)][2] = from
    PROVE  LET m == Append(l, <<from, to>>) IN
           Chain(m) /\ m[Len(m)][2] = to
  <1> DEFINE m == Append(l, <<from, to>>)
  <1>1. /\ Len(m) = Len(l) + 1
        /\ \A i \in 1 .. Len(l) : m[i] = l[i]
        /\ m[Len(l) + 1] = <<from, to>>
        /\ DOMAIN m = 1 .. Len(l) + 1 /\ DOMAIN l = 1 .. Len(l)
        /\ Len(l) \in Nat /\ (l = <<>> <=> Len(l) = 0)
    BY AppendProperties, EmptySeq, LenProperties
  <1> HIDE DEF m
  <1>2. ASSUME NEW i \in DOMAIN m
        PROVE  m[i][1] # m[i][2] /\ (i > 1 => m[i][1] = m[i - 1][2])
    <2>1. CASE i \in 1 .. Len(l)
      <3>1. i > 1 => i - 1 \in 1 .. Len(l)
        BY <1>1, <2>1
      <3> QED
        BY <1>1, <2>1, <3>1 DEF Chain
    <2>2. CASE i = Len(l) + 1
      <3>1. m[i][1] = from /\ m[i][2] = to
        BY <1>1, <2>2
      <3>2. i > 1 => i - 1 = Len(l) /\ l # <<>> /\ Len(l) \in 1 .. Len(l)
        BY <1>1, <2>2
      <3> QED
        BY <1>1, <3>1, <3>2
    <2> QED
      BY <1>1, <2>1, <2>2
  <1>3. m[Len(m)][2] = to
    BY <1>1
  <1> QED
    BY <1>2, <1>3 DEF Chain, m

(* Every action keeps the log a chain that ends at the stored level.       *)
LEMMA ChainStep ==
    ASSUME TypeOK, LockedIsRead, NoRowNoHistory, ChangesChain, [Next]_vars
    PROVE  ChangesChain'
  <1>0. \A s \in Sites : Chain(log[s]) /\ (log[s] # <<>> => log[s][Len(log[s])][2] = row[s].level)
    BY DEF ChangesChain, Chain
  <1>1. ASSUME NEW b \in Builders, Record(b)
        PROVE  ChangesChain'
    <2> SUFFICES ASSUME NEW s \in Sites
                 PROVE  /\ Chain(log'[s])
                        /\ log'[s] # <<>> => log'[s][Len(log'[s])][2] = row'[s].level
      BY DEF ChangesChain, Chain
    <2>1. CASE Changed(b, s)
      <3>1. log'[s] = Append(log[s], <<previous[b][s].level, seen[b][s].level>>)
        BY <1>1, <2>1 DEF Record
      <3>2. /\ previous[b][s].level = row[s].level /\ seen[b][s].level = row'[s].level
            /\ row[s].level # seen[b][s].level
        BY <1>1, <2>1, RecordReads
      <3>3. previous[b][s].level \in Levels /\ seen[b][s].level \in Levels
        BY <2>1, StoredType DEF Changed, SeenType, Rows
      <3>4. log[s] \in Seq(Levels \X Levels)
        BY DEF TypeOK
      <3> QED
        BY <1>0, <3>1, <3>2, <3>3, <3>4, ChainAppend
    <2>2. CASE ~ Changed(b, s)
      <3>1. log'[s] = log[s]
        BY <1>1, <2>2 DEF Record
      <3>2. log[s] # <<>> => row'[s].level = row[s].level
        BY <1>1, <2>2, RecordReads DEF NoRowNoHistory
      <3> QED
        BY <1>0, <3>1, <3>2
    <2> QED
      BY <2>1, <2>2
  <1>2. ASSUME NEW s \in Sites, DeleteOld(s)
        PROVE  ChangesChain'
    BY <1>2 DEF DeleteOld, ChangesChain
  <1>3. CASE UNCHANGED store
    BY <1>3 DEF ChangesChain, store
  <1> QED
    BY <1>1, <1>2, <1>3, OnlyRecordStores

(* Initially nothing is stored or read.                                    *)
LEMMA InitInv ==
    Init => LockedIsRead /\ NoRowNoHistory /\ ChangesChain /\ ToldLevel
  <1> SUFFICES ASSUME Init PROVE LockedIsRead /\ NoRowNoHistory /\ ChangesChain /\ ToldLevel
    OBVIOUS
  <1>1. LockedIsRead
    BY DEF Init, LockedIsRead, NoSites
  <1>2. NoRowNoHistory
    BY DEF Init, NoRowNoHistory
  <1>3. ChangesChain
    <2>1. \A s \in Sites : log[s] = <<>>
      BY DEF Init
    <2>2. \A s \in Sites : DOMAIN log[s] = {}
      BY <2>1
    <2> QED
      BY <2>1, <2>2 DEF ChangesChain
  <1>4. ToldLevel
    BY DEF Init, ToldLevel
  <1> QED
    BY <1>1, <1>2, <1>3, <1>4

(* The log of a site's changes is a chain that ends at the stored level.   *)
THEOREM LogIsChain == Spec => []ChangesChain
  <1>1. LockedIsRead /\ NoRowNoHistory /\ ChangesChain /\ TypeOK /\ [Next]_vars =>
          (LockedIsRead /\ NoRowNoHistory /\ ChangesChain)'
    BY LockedStep, NoRowStep, ChainStep
  <1>2. Init => LockedIsRead /\ NoRowNoHistory /\ ChangesChain
    BY InitInv
  <1> QED
    BY <1>1, <1>2, TypeCorrect, PTL DEF Spec
------------------------------------------------------------------------------
(* Every tier's minimum is a level that notifies, Low at the least.        *)
LEMMA MinimumType ==
    ASSUME NEW tier \in Tiers
    PROVE  Rank(MinLevel[tier]) \in 1 .. 3
  <1>1. MinLevel[tier] \in DEVICE_LEVELS
    BY AlertLevelsAssumption DEF Tiers
  <1> QED
    BY <1>1 DEF Rank, DEVICE_LEVELS

(* What a change of level tells: becoming Critical is an alarm; reaching rank
   0 never is, and from above, when the last message was an alarm, it is a
   recovery unless planned work begins. *)
LEMMA MessageTells ==
    ASSUME NEW s, NEW from, NEW now, now.tier \in Tiers
    PROVE  /\ now.level = "critical" /\ from # "critical" => Message(s, from, now) = "alarm"
           /\ Rank(now.level) = 0 => Message(s, from, now) # "alarm"
           /\ /\ Rank(now.level) = 0 /\ now.level # "maintenance"
              /\ Rank(from) > 0 /\ outbox[s] = "alarm"
              => Message(s, from, now) = "recovery"
  <1> DEFINE minimum == Rank(MinLevel[now.tier])
  <1>1. minimum \in 1 .. 3
    BY MinimumType
  <1>2. Rank(from) \in 0 .. 3 /\ Rank(now.level) \in 0 .. 3
    BY RankType
  <1>3. now.level = "critical" /\ from # "critical" =>
          Rank(now.level) = 3 /\ Rank(from) # 3 /\ now.level # "maintenance"
    BY RankType
  <1> HIDE DEF minimum
  <1>4. ASSUME now.level = "critical", from # "critical"
        PROVE  Message(s, from, now) = "alarm"
    <2>1. Rank(now.level) >= minimum /\ Rank(now.level) > Rank(from)
      BY <1>1, <1>2, <1>3, <1>4
    <2>2. event_kind(from, now.level, now.tier) = "alarm"
      BY <1>3, <1>4, <2>1 DEF event_kind, minimum
    <2> QED
      BY <2>2 DEF Message
  <1>5. ASSUME Rank(now.level) = 0
        PROVE  /\ event_kind(from, now.level, now.tier) # "alarm"
               /\ Message(s, from, now) # "alarm"
    <2>1. ~ (Rank(now.level) >= minimum)
      BY <1>1, <1>5
    <2>2. event_kind(from, now.level, now.tier) # "alarm"
      BY <2>1 DEF event_kind, minimum
    <2> QED
      BY <2>2 DEF Message
  <1>6. ASSUME Rank(now.level) = 0, now.level # "maintenance", Rank(from) > 0,
               outbox[s] = "alarm"
        PROVE  Message(s, from, now) = "recovery"
    <2>1. CASE Rank(from) >= minimum
      <3>1. minimum > Rank(now.level) /\ ~ (Rank(now.level) > Rank(from))
        BY <1>1, <1>2, <1>6
      <3>2. event_kind(from, now.level, now.tier) = "recovery"
        BY <1>6, <2>1, <3>1 DEF event_kind, minimum
      <3> QED
        BY <3>2 DEF Message
    <2>2. CASE ~ (Rank(from) >= minimum)
      <3>1. Rank(now.level) < Rank(from) /\ Rank(from) < minimum
        BY <1>1, <1>2, <1>6, <2>2
      <3>2. dropped_below_minimum(from, now.level, now.tier)
        BY <1>6, <3>1 DEF dropped_below_minimum, minimum
      <3>3. event_kind(from, now.level, now.tier) \in {"none", "alarm", "recovery"}
        BY DEF event_kind
      <3> QED
        BY <1>5, <1>6, <3>2, <3>3 DEF Message
    <2> QED
      BY <2>1, <2>2
  <1> QED
    BY <1>4, <1>5, <1>6

(* Appending to a site's messages makes the message the last one.          *)
LEMMA LastTold ==
    ASSUME NEW t \in Seq(Messages), NEW k \in Messages
    PROVE  LET u == Append(t, k) IN u # <<>> /\ u[Len(u)] = k
  BY AppendProperties

(* Every action keeps the last message in step with the level.             *)
LEMMA ToldStep ==
    ASSUME TypeOK, LockedIsRead, NoRowNoHistory, ToldLevel, [Next]_vars
    PROVE  ToldLevel'
  <1>1. ASSUME NEW b \in Builders, Record(b)
        PROVE  ToldLevel'
    <2> SUFFICES ASSUME NEW s \in Sites, row'[s] # None, ~ hushed'[s]
                 PROVE  /\ told'[s] # <<>> => outbox'[s] = told'[s][Len(told'[s])]
                        /\ row'[s].level = "critical" => Alarmed(s)'
                        /\ Rank(row'[s].level) = 0 => ~ Alarmed(s)'
      BY DEF ToldLevel
    <2> DEFINE now == seen[b][s]
    <2>1. CASE row[s] = None
      <3>1. ~ Changed(b, s)
        BY <1>1, <2>1, RecordReads
      <3>2. told'[s] = <<>>
        BY <1>1, <2>1, <3>1 DEF Record, Queues, NoRowNoHistory
      <3>3. now # None /\ previous[b][s] = None
        BY <1>1, <2>1, RecordReads DEF Stored
      <3>4. row'[s].level = now.level /\ ~ (Rank(now.level) > 0)
        BY <1>1, <2>1, <3>3, RecordReads DEF Record, Stored
      <3>5. row'[s].level # "critical"
        <4>1. now.level = "critical" => Rank(now.level) = 3
          BY RankType
        <4> QED
          BY <3>4, <4>1
      <3> QED
        BY <3>2, <3>5 DEF Alarmed
    <2>2. CASE row[s] # None /\ ~ Changed(b, s)
      <3>1. outbox'[s] = outbox[s] /\ told'[s] = told[s] /\ hushed'[s] = hushed[s]
        BY <1>1, <2>2 DEF Record, Queues
      <3>2. row'[s].level = row[s].level
        BY <1>1, <2>2, RecordReads
      <3> QED
        BY <2>2, <3>1, <3>2 DEF ToldLevel, Alarmed
    <2>3. CASE row[s] # None /\ Changed(b, s)
      <3> DEFINE from == row[s].level
                 queued == Queues(b, s)
      <3>1. /\ now # None /\ previous[b][s] = row[s]
            /\ row'[s].level = now.level /\ from # now.level
        BY <1>1, <2>3, RecordReads
      <3>2. now.tier \in Tiers
        BY <3>1, StoredType DEF SeenType
      <3>3. /\ now.level = "critical" => Message(s, from, now) = "alarm"
            /\ Rank(now.level) = 0 => Message(s, from, now) # "alarm"
            /\ /\ Rank(now.level) = 0 /\ now.level # "maintenance"
               /\ Rank(from) > 0 /\ outbox[s] = "alarm"
               => Message(s, from, now) = "recovery"
        BY <3>1, <3>2, MessageTells
      <3>4. queued = Sent(s, row[s], now)
        BY <2>3, <3>1 DEF Queues
      <3>5. CASE queued # "none"
        <4>1. queued \in Messages /\ told[s] \in Seq(Messages)
          BY <3>5, StoredType DEF Kinds, Messages, TypeOK
        <4>2. outbox'[s] = queued /\ told'[s] = Append(told[s], queued)
          BY <1>1, <3>5 DEF Record
        <4>3. queued = Message(s, from, now)
          BY <3>4, <3>5 DEF Sent
        <4>4. told'[s] # <<>> /\ told'[s][Len(told'[s])] = queued
          BY <4>1, <4>2, LastTold
        <4> QED
          BY <3>1, <3>3, <4>2, <4>3, <4>4 DEF Alarmed
      <3>6. CASE queued = "none"
        <4>1. /\ outbox'[s] = outbox[s] /\ told'[s] = told[s]
              /\ ~ hushed[s] /\ ~ Hushed(s, row[s], now)
          BY <1>1, <2>3, <3>1, <3>6 DEF Record, TypeOK
        <4>2. /\ Message(s, from, now) = "none"
              /\ now.level = "maintenance" => ~ (Rank(from) > 0)
          BY <3>4, <3>6, <4>1 DEF Hushed
        <4>3. now.level # "critical"
          BY <3>3, <4>2
        <4>4. /\ told[s] # <<>> => outbox[s] = told[s][Len(told[s])]
              /\ Rank(from) = 0 => ~ Alarmed(s)
          BY <2>3, <4>1 DEF ToldLevel
        <4>5. ASSUME Rank(now.level) = 0
              PROVE  ~ Alarmed(s)
          <5>1. CASE Rank(from) = 0
            BY <4>4, <5>1
          <5>2. CASE Rank(from) # 0
            <6>1. Rank(from) > 0
              <7>1. Rank(from) \in 0 .. 3
                BY RankType
              <7> QED
                BY <5>2, <7>1
            <6>2. outbox[s] # "alarm"
              BY <3>3, <4>2, <4>5, <6>1
            <6> QED
              BY <4>4, <6>2 DEF Alarmed
          <5> QED
            BY <5>1, <5>2
        <4> QED
          BY <3>1, <4>1, <4>3, <4>4, <4>5 DEF Alarmed
      <3> QED
        BY <3>5, <3>6
    <2> QED
      BY <2>1, <2>2, <2>3
  <1>2. ASSUME NEW s \in Sites, DeleteOld(s)
        PROVE  ToldLevel'
    BY <1>2 DEF DeleteOld, ToldLevel, Alarmed, TypeOK
  <1>3. CASE UNCHANGED store
    BY <1>3 DEF ToldLevel, Alarmed, store
  <1> QED
    BY <1>1, <1>2, <1>3, OnlyRecordStores

(* What the receivers were last told matches the stored level.             *)
THEOREM MessagesMatch == Spec => []MessageMatchesLevel
  <1>1. LockedIsRead /\ NoRowNoHistory /\ ToldLevel /\ TypeOK /\ [Next]_vars =>
          (LockedIsRead /\ NoRowNoHistory /\ ToldLevel)'
    BY LockedStep, NoRowStep, ToldStep
  <1>2. Init => LockedIsRead /\ NoRowNoHistory /\ ToldLevel
    BY InitInv
  <1>3. ToldLevel => MessageMatchesLevel
    <2>1. \A l : l \in {"ok", "no_data"} => Rank(l) = 0
      BY RankType
    <2> QED
      BY <2>1 DEF ToldLevel, MessageMatchesLevel
  <1> QED
    BY <1>1, <1>2, <1>3, TypeCorrect, PTL DEF Spec

------------------------------------------------------------------------------
(* SiteFailures: for any devices, fields, overrides, tiers and thresholds,
   compute_alert_level is the worst of what the failures at a site call for. *)

(* A site's devices are finitely many and only they fail.                  *)
FailuresCounted ==
    /\ failing \in [devices : SUBSET SiteDevices, down : SUBSET SiteDevices,
                 crit : [SiteDevices -> Fields], override : [SiteDevices -> Overrides],
                 tier : DOMAIN TierLevel]
    /\ IsFiniteSet(failing.devices)
    /\ failing.down \subseteq failing.devices

(* r is the worst of the ranks.                                            *)
IsWorst(r, ranks) == r \in ranks /\ \A q \in ranks : q <= r

(* The ranks of devices' own levels, and of the share that is down.        *)
OwnRanks(devices) == {Rank(device_level(d, failing)) : d \in devices}

ShareRanks(n, total) ==
    IF n = 0 THEN {}
    ELSE IF n = total \/ n * 100 >= total * thresholds.critical THEN {3}
    ELSE IF n * 100 > total * thresholds.medium THEN {2} ELSE {1}
------------------------------------------------------------------------------
(* Of the same, what the ranks of sets of levels need.                     *)
LEMMA RankRange == \A l : Rank(l) \in 0 .. 3
  BY RankType

(* The worse of two levels has the worst of their ranks.                   *)
LEMMA WorseRank ==
    ASSUME NEW a, NEW b
    PROVE  /\ Rank(Worse(a, b)) \in {Rank(a), Rank(b)}
           /\ Rank(a) <= Rank(Worse(a, b)) /\ Rank(b) <= Rank(Worse(a, b))
  <1>1. Rank(a) \in 0 .. 3 /\ Rank(b) \in 0 .. 3
    BY RankType
  <1>2. CASE Rank(b) > Rank(a)
    BY <1>1, <1>2 DEF Worse
  <1>3. CASE ~ (Rank(b) > Rank(a))
    BY <1>1, <1>3 DEF Worse
  <1> QED
    BY <1>2, <1>3

(* Some level has the worst rank, and worst_of finds it.                   *)
LEMMA WorstOfRank ==
    ASSUME NEW devices, devices # {}
    PROVE  IsWorst(Rank(worst_of(devices, failing)), OwnRanks(devices))
  <1> DEFINE levels == {device_level(d, failing) : d \in devices}
             Top(l) == l \in levels /\ \A k \in levels : Rank(k) <= Rank(l)
  <1>1. \A l : Rank(l) \in 0 .. 3
    BY RankType
  <1>2. levels # {}
    OBVIOUS
  <1>3. \E l : Top(l)
    <2> HIDE DEF levels
    <2>1. CASE \E l \in levels : Rank(l) = 3
      BY <1>1, <2>1
    <2>2. CASE ~ (\E l \in levels : Rank(l) = 3) /\ (\E l \in levels : Rank(l) = 2)
      BY <1>1, <2>2
    <2>3. CASE ~ (\E l \in levels : Rank(l) \in 2 .. 3) /\ (\E l \in levels : Rank(l) = 1)
      BY <1>1, <2>3
    <2>4. CASE ~ (\E l \in levels : Rank(l) \in 1 .. 3)
      BY <1>1, <1>2, <2>4
    <2> QED
      BY <1>1, <2>1, <2>2, <2>3, <2>4
  <1>4. worst_of(devices, failing) = CHOOSE l \in levels : \A k \in levels : Rank(k) <= Rank(l)
    BY <1>2 DEF worst_of
  <1>5. Top(worst_of(devices, failing))
    BY <1>3, <1>4
  <1> QED
    BY <1>5 DEF IsWorst, OwnRanks

(* No device, no level.                                                    *)
LEMMA WorstOfNone ==
    worst_of({}, failing) = "" /\ OwnRanks({}) = {}
  BY DEF worst_of, OwnRanks

(* A set is counted by 0 when empty, and a part by less than the whole.    *)
LEMMA PartCount ==
    ASSUME NEW whole, IsFiniteSet(whole), NEW part, part \subseteq whole
    PROVE  /\ Cardinality(part) \in Nat /\ Cardinality(whole) \in Nat
           /\ Cardinality(part) = 0 <=> part = {}
           /\ Cardinality(part) = Cardinality(whole) <=> part = whole
  <1>1. IsFiniteSet(part) /\ Cardinality(part) <= Cardinality(whole)
        /\ (Cardinality(part) = Cardinality(whole) => part = whole)
    BY FS_Subset
  <1> QED
    BY <1>1, FS_CardinalityType, FS_EmptySet

(* The wired devices' level is the worst of their own levels and the share
   that is down. *)
LEMMA WiredRank ==
    ASSUME NEW wired, IsFiniteSet(wired), wired # {}
    PROVE  LET down == wired \cap failing.down IN
           IsWorst(Rank(wired_level(wired, failing, thresholds)),
                   OwnRanks(down) \cup ShareRanks(Cardinality(down), Cardinality(wired))
                                  \cup {0})
  <1> DEFINE down  == wired \cap failing.down
             n     == Cardinality(down)
             total == Cardinality(wired)
             worst == worst_of(down, failing)
             share == share_level(n, total, thresholds)
             level == wired_level(wired, failing, thresholds)
             all   == OwnRanks(down) \cup ShareRanks(n, total) \cup {0}
  <1>1. (n = 0 <=> down = {}) /\ (n = total <=> down = wired)
    BY PartCount
  <1>2. level = IF worst = "critical" \/ down = wired THEN "critical"
                ELSE IF down = {} THEN "ok" ELSE Worse(share, worst)
    BY DEF wired_level
  <1>3. OwnRanks(down) \subseteq 0 .. 3 /\ ShareRanks(n, total) \subseteq 0 .. 3
    BY RankRange DEF OwnRanks, ShareRanks
  <1>4. down # {} => IsWorst(Rank(worst), OwnRanks(down))
    BY WorstOfRank
  <1>5. share \in {"critical", "medium", "low"}
    BY DEF share_level
  <1>6. ~ (n = 0) /\ ~ (n = total) => ShareRanks(n, total) = {Rank(share)}
    BY DEF share_level, ShareRanks, Rank
  <1>7. Rank("critical") = 3 /\ Rank("ok") = 0
    BY RankType
  <1>8. CASE worst = "critical" \/ down = wired
    <2>1. level = "critical"
      BY <1>2, <1>8
    <2>2. 3 \in all
      <3>1. CASE down = wired
        BY <1>1, <3>1 DEF ShareRanks
      <3>2. CASE worst = "critical"
        <4>1. down # {}
          BY <3>2, WorstOfNone
        <4> QED
          BY <1>4, <1>7, <3>2, <4>1 DEF IsWorst
      <3> QED
        BY <1>8, <3>1, <3>2
    <2> HIDE DEF all
    <2>3. all \subseteq 0 .. 3
      BY <1>3 DEF all
    <2> QED
      BY <1>7, <2>1, <2>2, <2>3 DEF IsWorst, all
  <1>9. CASE ~ (worst = "critical" \/ down = wired) /\ down = {}
    <2>1. level = "ok" /\ OwnRanks(down) = {} /\ ShareRanks(n, total) = {}
      BY <1>1, <1>2, <1>9, WorstOfNone DEF ShareRanks
    <2> QED
      BY <1>7, <2>1 DEF IsWorst
  <1>10. CASE ~ (worst = "critical" \/ down = wired) /\ down # {}
    <2>1. level = Worse(share, worst) /\ ShareRanks(n, total) = {Rank(share)}
      BY <1>1, <1>2, <1>6, <1>10
    <2>2. IsWorst(Rank(worst), OwnRanks(down))
      BY <1>4, <1>10
    <2>3. /\ Rank(level) \in {Rank(share), Rank(worst)}
          /\ Rank(share) <= Rank(level) /\ Rank(worst) <= Rank(level)
      BY <2>1, WorseRank
    <2>4. Rank(level) \in 0 .. 3 /\ Rank(worst) \in 0 .. 3
      BY RankType
    <2> HIDE DEF level, share, worst
    <2>5. Rank(level) \in all
      BY <2>1, <2>2, <2>3 DEF IsWorst
    <2>6. \A q \in all : q <= Rank(level)
      BY <1>3, <2>1, <2>2, <2>3, <2>4 DEF IsWorst
    <2> QED
      BY <2>5, <2>6 DEF IsWorst, level
  <1> QED
    BY <1>8, <1>9, <1>10

(* Joining two sets of ranks, the worse of the worst is the worst.         *)
LEMMA JoinWorst ==
    ASSUME NEW r \in 0 .. 3, NEW q \in 0 .. 3, NEW t \in {r, q}, r <= t, q <= t,
           NEW R \in SUBSET (0 .. 3), NEW Q \in SUBSET (0 .. 3), IsWorst(r, R), IsWorst(q, Q)
    PROVE  IsWorst(t, R \cup Q)
  BY DEF IsWorst

(* The failures whose ranks LevelIsWorst takes the worst of are those of the
   wired devices and of the access points with a level of their own. *)
LEMMA OwnOfFailures ==
    ASSUME FailuresCounted
    PROVE  LET wired == failing.devices \ Wireless
               aps   == failing.devices \cap Wireless \cap failing.down
               own   == {d \in aps : ~ controller_only(d, failing)} IN
           {Rank(device_level(d, failing)) : d \in {e \in failing.down : ~ controller_only(e, failing)}}
             = OwnRanks(wired \cap failing.down) \cup OwnRanks(own)
  <1> DEFINE wired  == failing.devices \ Wireless
             aps    == failing.devices \cap Wireless \cap failing.down
             own    == {d \in aps : ~ controller_only(d, failing)}
             failed == {e \in failing.down : ~ controller_only(e, failing)}
  <1>1. failed = (wired \cap failing.down) \cup own
    BY DEF FailuresCounted, controller_only
  <1> HIDE DEF wired, own, failed
  <1>2. {Rank(device_level(d, failing)) : d \in failed}
          = OwnRanks(wired \cap failing.down) \cup OwnRanks(own)
    BY <1>1 DEF OwnRanks
  <1> QED
    BY <1>2 DEF wired, own, failed

(* compute_alert_level's early returns never hide a worse level.           *)
LEMMA LevelRank ==
    ASSUME FailuresCounted
    PROVE  LET wired == failing.devices \ Wireless
               aps   == failing.devices \cap Wireless \cap failing.down
               own   == {d \in aps : ~ controller_only(d, failing)}
               n     == Cardinality(wired \cap failing.down) IN
           IsWorst(Rank(Level(failing)),
                   OwnRanks(wired \cap failing.down) \cup OwnRanks(own)
                     \cup ShareRanks(n, Cardinality(wired)) \cup {0})
  <1> DEFINE wired == failing.devices \ Wireless
             down  == wired \cap failing.down
             aps   == failing.devices \cap Wireless \cap failing.down
             own   == {d \in aps : ~ controller_only(d, failing)}
             n     == Cardinality(down)
             total == Cardinality(wired)
             alert == IF wired = {} THEN "ok" ELSE wired_level(wired, failing, thresholds)
             level == Level(failing)
             rest  == OwnRanks(down) \cup ShareRanks(n, total) \cup {0}
  <1>1. level = IF failing.devices = {} THEN "no_data"
                ELSE IF aps = {} THEN alert
                ELSE IF own # {} THEN Worse(alert, worst_of(own, failing))
                ELSE IF alert # "ok" THEN alert ELSE "ok"
    BY DEF Level, observed_level, compute_alert_level, wired_devices
  <1>2. OwnRanks(down) \subseteq 0 .. 3 /\ ShareRanks(n, total) \subseteq 0 .. 3
        /\ OwnRanks(own) \subseteq 0 .. 3
    BY RankRange DEF OwnRanks, ShareRanks
  <1>3. IsFiniteSet(wired)
    BY FS_Difference DEF FailuresCounted
  <1>4. IsWorst(Rank(alert), rest)
    <2>1. CASE wired = {}
      <3>1. down = {} /\ n = 0
        BY <2>1, FS_EmptySet
      <3>2. OwnRanks(down) = {} /\ ShareRanks(n, total) = {}
        BY <3>1, WorstOfNone DEF ShareRanks
      <3>3. Rank(alert) = 0
        BY <2>1, RankType
      <3> QED
        BY <3>2, <3>3 DEF IsWorst
    <2>2. CASE wired # {}
      BY <1>3, <2>2, WiredRank
    <2> QED
      BY <2>1, <2>2
  <1>5. rest \subseteq 0 .. 3 /\ Rank(alert) \in 0 .. 3
    BY <1>2, RankType
  <1>6. own = {} => OwnRanks(own) = {}
    BY WorstOfNone
  <1> HIDE DEF rest, alert
  <1>7. IsWorst(Rank(level), rest \cup OwnRanks(own))
    <2>1. CASE failing.devices = {}
      <3>1. own = {} /\ wired = {} /\ Rank(level) = 0
        BY <1>1, <2>1, RankType
      <3>2. Rank(alert) = 0
        BY <3>1, RankType DEF alert
      <3> QED
        BY <1>4, <1>6, <3>1, <3>2
    <2>2. CASE failing.devices # {} /\ own # {}
      <3>1. level = Worse(alert, worst_of(own, failing))
        BY <1>1, <2>2
      <3>2. IsWorst(Rank(worst_of(own, failing)), OwnRanks(own))
        BY <2>2, WorstOfRank
      <3>3. Rank(worst_of(own, failing)) \in 0 .. 3
        BY RankType
      <3>4. /\ Rank(level) \in {Rank(alert), Rank(worst_of(own, failing))}
            /\ Rank(alert) <= Rank(level) /\ Rank(worst_of(own, failing)) <= Rank(level)
        BY <3>1, WorseRank
      <3> QED
        BY <1>2, <1>4, <1>5, <3>2, <3>3, <3>4, JoinWorst
    <2>3. CASE failing.devices # {} /\ own = {}
      <3>1. level = alert
        BY <1>1, <2>3
      <3> QED
        BY <1>4, <1>6, <2>3, <3>1
    <2> QED
      BY <2>1, <2>2, <2>3
  <1>8. rest \cup OwnRanks(own)
          = OwnRanks(down) \cup OwnRanks(own) \cup ShareRanks(n, total) \cup {0}
    BY DEF rest
  <1> QED
    BY <1>7, <1>8

(* A set of ranks has one worst.                                           *)
LEMMA WorstUnique ==
    ASSUME NEW r, NEW ranks \in SUBSET (0 .. 3), IsWorst(r, ranks)
    PROVE  r = CHOOSE t \in ranks : \A q \in ranks : q <= t
  <1>1. \A t \in ranks : (\A q \in ranks : q <= t) => t = r
    BY DEF IsWorst
  <1> QED
    BY <1>1 DEF IsWorst

(* The devices that fail are counted at the site.                          *)
LEMMA CountedStep ==
    ASSUME FailuresCounted, [FailuresNext]_failuresVars
    PROVE  FailuresCounted'
  <1>1. ASSUME NEW d \in SiteDevices, Fail(d)
        PROVE  FailuresCounted'
    BY <1>1 DEF Fail, FailuresCounted
  <1>2. ASSUME NEW d \in SiteDevices, Recover(d)
        PROVE  FailuresCounted'
    BY <1>2 DEF Recover, FailuresCounted
  <1>3. ASSUME NEW d \in SiteDevices, Sync(d)
        PROVE  FailuresCounted'
    <2>1. IsFiniteSet(failing.devices \ {d}) /\ IsFiniteSet(failing.devices \cup {d})
      BY FS_Difference, FS_AddElement DEF FailuresCounted
    <2> QED
      BY <1>3, <2>1 DEF Sync, FailuresCounted
  <1>4. CASE UNCHANGED failuresVars
    BY <1>4 DEF FailuresCounted, failuresVars
  <1> QED
    BY <1>1, <1>2, <1>3, <1>4 DEF FailuresNext

(* A site's level is the worst of what its failures call for.              *)
THEOREM LevelWorst == FailuresSpec => []LevelIsWorst
  <1>1. FailuresInit => FailuresCounted
    BY FS_EmptySet DEF FailuresInit, FailuresCounted
  <1>2. FailuresCounted /\ [FailuresNext]_failuresVars => FailuresCounted'
    BY CountedStep
  <1>3. FailuresCounted => LevelIsWorst
    <2> SUFFICES ASSUME FailuresCounted PROVE LevelIsWorst
      OBVIOUS
    <2> DEFINE wired == failing.devices \ Wireless
               n     == Cardinality(wired \cap failing.down)
               own   == {Rank(device_level(d, failing)) :
                           d \in {e \in failing.down : ~ controller_only(e, failing)}}
               all   == own \cup ShareRanks(n, Cardinality(wired)) \cup {0}
    <2>1. IsWorst(Rank(Level(failing)), all)
      BY LevelRank, OwnOfFailures
    <2>2. all \in SUBSET (0 .. 3)
      BY RankRange DEF ShareRanks
    <2>3. Rank(Level(failing)) = CHOOSE t \in all : \A q \in all : q <= t
      BY <2>1, <2>2, WorstUnique
    <2> QED
      BY <2>3 DEF LevelIsWorst, ShareRanks
  <1> QED
    BY <1>1, <1>2, <1>3, PTL DEF FailuresSpec
==============================================================================
