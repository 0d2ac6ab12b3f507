-------------------------- MODULE NautobotSyncProofs --------------------------
(***************************************************************************)
(* Proofs about NautobotSync, for any sets of locations and devices, any   *)
(* clock and any number of faults: what the cache lacks is owed by the     *)
(* next sync, and a sync drops nothing that Nautobot has.                  *)
(***************************************************************************)
EXTENDS NautobotSync, WellFoundedInduction, TLAPS

Row0     == [at : Nat, root : Nat, version : Nat]
Time     == Nat \cup {None}
Statuses == {"none", "running", "idle", "error"}
Pcs      == {"idle", "locations", "devices", "write"}
Syncs    == [full : BOOLEAN, started : Nat, mark : Time, version : Time,
             blank : Blanks, tree : BOOLEAN]

TypeOK ==
    /\ now \in Nat /\ version \in Nat
    /\ alive \subseteq Objects /\ upd \in [Objects -> Nat]
    /\ cache \in [Objects -> Row0 \cup {None}]
    /\ state \in [status : Statuses, mark : Time, version : Time]
    /\ due \in BOOLEAN /\ reconcile \in BOOLEAN
    /\ pc \in Pcs
    /\ sync \in Syncs
    /\ got \in [Objects -> Time]
    /\ mid \subseteq Locations /\ missed \subseteq Objects

(* Nothing is of a later time than now, but a watermark by a microsecond;
   what is known of an object is of one that Nautobot had. *)
NothingLater ==
    /\ \A o \in Objects : upd[o] <= now /\ (o \in alive => upd[o] # 0)
    /\ \A o \in Objects : cache[o] # None =>
         /\ upd[o] # 0
         /\ cache[o].at <= now /\ cache[o].root <= now /\ cache[o].version <= version
         /\ o \notin Under => cache[o].root = 0
    /\ \A o \in Objects : got[o] # None => upd[o] # 0 /\ got[o] <= now
    /\ state.mark # None => state.mark <= now + 1
    /\ state.version # None => state.version <= version
    /\ sync.started <= now
    /\ \A o \in alive : o \in Under => Root \in alive

(* The variables of a sync at its points, and what it read at its start.   *)
SyncShape ==
    /\ pc \in {"idle", "locations"} => got = Nothing /\ mid = {}
    /\ pc = "devices" => \A d \in Devices : got[d] = None
    /\ \A o \in sync.blank : got[o] = None
    /\ pc # "idle" =>
         /\ sync.mark = state.mark /\ sync.version = state.version
         /\ ~ sync.full => state.mark # None /\ state.version = version

HasList(o) == pc = "write" \/ (pc = "devices" /\ o \in Locations)

(* An object edited after all that a sync has fetched.                     *)
Later(o) ==
    /\ pc = "write"
    /\ upd[o] >= sync.started
    /\ sync.mark # None => upd[o] >= sync.mark
    /\ \A p \in Objects : got[p] # None => got[p] < upd[o]

(* What a sync knows of an object of a list it has fetched.                *)
AnswersHold ==
    /\ \A o \in alive : HasList(o) /\ o \notin sync.blank =>
         /\ \/ o \in mid \/ got[o] = upd[o] \/ Later(o)
            \/ ~ sync.full /\ got[o] = None /\ upd[o] < sync.mark
         /\ sync.full /\ cache[o] # None => got[o] # None
    /\ \A o \in Under : sync.full /\ got[o] # None => got[Root] # None

(* Rows are of the settings that the state names.                          *)
RowsOfVersion ==
    state.version = version => \A o \in Objects : cache[o] # None => cache[o].version = version

MissedStale == \A p \in missed : cache[p] # Current(p)

OwnStale(o)  == cache[o] = None \/ cache[o].at # upd[o]
RootStale(o) ==
    /\ o \in Under /\ cache[o] # None
    /\ cache[o].at = upd[o] /\ cache[o].root # upd[Root]

(* What is stale is in the next sync's answers, or was missed: the object
   itself, and the location that it is under. *)
Owed ==
    ~ NextFull => \A o \in alive :
        /\ OwnStale(o) => o \in missed \/ upd[o] >= state.mark
        /\ RootStale(o) =>
             \/ o \in missed \/ Root \in missed
             \/ cache[Root] # Current(Root) /\ upd[Root] >= state.mark

SyncInv ==
    /\ TypeOK /\ NothingLater /\ SyncShape /\ AnswersHold
    /\ RowsOfVersion /\ MissedStale /\ Owed
-----------------------------------------------------------------------------
(* A nonempty set of numbers up to b has a greatest one: Watermark chooses
   it. *)
LEMMA MaxIsChosen ==
    ASSUME NEW b \in Nat, NEW S \in SUBSET Nat, S # {}, \A x \in S : x <= b
    PROVE  Max(S) \in S /\ \A x \in S : x <= Max(S)
<1> DEFINE T == {n \in Nat : \A x \in S : x <= n}
<1>1. T \subseteq Nat /\ b \in T
  OBVIOUS
<1>2. PICK m \in T : \A n \in T : ~ (<<n, m>> \in OpToRel(<, Nat))
  BY <1>1, NatLessThanWellFounded, WFMin, Zenon
<1>3. \A n \in T : ~ (n < m)
  BY <1>1, <1>2, Zenon DEF OpToRel
<1>4. m \in S
  <2>1. CASE m = 0
    <3>1. PICK x \in S : x \in Nat
      OBVIOUS
    <3>2. x <= 0
      BY <2>1, <3>1
    <3>3. x = m
      BY <2>1, <3>1, <3>2
    <3> QED  BY <3>3
  <2>2. CASE m # 0
    <3>1. m - 1 \in Nat /\ m - 1 < m
      BY <1>1, <2>2
    <3>2. m - 1 \notin T
      BY <1>3, <3>1
    <3>3. PICK x \in S : ~ (x <= m - 1)
      BY <3>1, <3>2
    <3>4. x = m
      BY <3>1, <3>3, <1>1
    <3> QED  BY <3>4
  <2> QED  BY <2>1, <2>2
<1>5. \A x \in S : m >= x
  BY <1>4
<1> HIDE DEF T
<1>6. \E x \in S : \A y \in S : x >= y
  BY <1>4, <1>5
<1> QED  BY <1>6 DEF Max

(* The types, one by one.                                                  *)
LEMMA Types ==
    ASSUME TypeOK
    PROVE  /\ now \in Nat /\ version \in Nat
           /\ alive \subseteq Objects /\ upd \in [Objects -> Nat]
           /\ \A o \in Objects : upd[o] \in Nat
           /\ cache \in [Objects -> Row0 \cup {None}]
           /\ \A o \in Objects : cache[o] # None =>
                /\ cache[o] \in Row0
                /\ cache[o].at \in Nat /\ cache[o].root \in Nat /\ cache[o].version \in Nat
           /\ state.mark \in Time /\ state.version \in Time
           /\ state.mark # None => state.mark \in Nat
           /\ state.version # None => state.version \in Nat
           /\ sync.full \in BOOLEAN /\ sync.tree \in BOOLEAN /\ reconcile \in BOOLEAN
           /\ sync.started \in Nat /\ sync.mark \in Time /\ sync.version \in Time
           /\ sync.mark # None => sync.mark \in Nat
           /\ got \in [Objects -> Time]
           /\ \A o \in Objects : got[o] # None => got[o] \in Nat
           /\ mid \subseteq Locations /\ missed \subseteq Objects
           /\ Root \in Objects /\ Root \in Locations /\ Root \notin Under
           /\ Locations \subseteq Objects /\ Devices \subseteq Objects /\ Under \subseteq Objects
           /\ None \notin Nat
           /\ sync.blank \in Blanks /\ sync.blank \subseteq Objects
           /\ \A o \in Locations : o \in sync.blank <=> Root \in sync.blank
<1>1. \A o \in Objects : cache[o] # None =>
        /\ cache[o] \in Row0
        /\ cache[o].at \in Nat /\ cache[o].root \in Nat /\ cache[o].version \in Nat
  BY DEF TypeOK, Row0
<1>2. /\ state.mark \in Time /\ state.version \in Time
      /\ sync.full \in BOOLEAN /\ sync.tree \in BOOLEAN /\ reconcile \in BOOLEAN
      /\ sync.started \in Nat /\ sync.mark \in Time /\ sync.version \in Time
  BY DEF TypeOK, Syncs
<1>3. /\ state.mark # None => state.mark \in Nat
      /\ state.version # None => state.version \in Nat
      /\ sync.mark # None => sync.mark \in Nat
      /\ \A o \in Objects : got[o] # None => got[o] \in Nat
  BY <1>2 DEF TypeOK, Time
<1>4. /\ Root \in Objects /\ Root \in Locations /\ Root \notin Under
      /\ Locations \subseteq Objects /\ Devices \subseteq Objects /\ Under \subseteq Objects
      /\ None \notin Nat
  BY SyncAssumption DEF Objects, Under
<1>5. sync.blank \in Blanks
  BY DEF TypeOK, Syncs
<1>6. sync.blank \subseteq Objects /\ \A o \in Locations : o \in sync.blank <=> Root \in sync.blank
  BY <1>4, <1>5, SyncAssumption DEF Blanks
<1> QED  BY <1>1, <1>2, <1>3, <1>4, <1>5, <1>6 DEF TypeOK

(* Initially nothing is stored.                                            *)
LEMMA InitInv == Init => SyncInv
<1> SUFFICES ASSUME Init PROVE SyncInv
  OBVIOUS
<1>1. TypeOK
  <2>1. upd \in [Objects -> Nat] /\ alive \subseteq Objects
    BY DEF Init
  <2>2. cache \in [Objects -> Row0 \cup {None}] /\ got \in [Objects -> Time]
    BY DEF Init, Nothing, Time
  <2>3. state \in [status : Statuses, mark : Time, version : Time]
    BY DEF Init, Statuses, Time
  <2>4. sync \in Syncs
    BY DEF Init, NoSync, Time, Syncs, Blanks
  <2> QED  BY <2>1, <2>2, <2>3, <2>4 DEF Init, TypeOK, Pcs
<1>2. (\A o \in Objects : cache[o] = None /\ got[o] = None) /\ missed = {} /\ mid = {}
  BY DEF Init, Nothing
<1>3. /\ state.mark = None /\ state.version = None /\ version = 0 /\ now = 2
      /\ sync.started = 0 /\ sync.mark = None /\ sync.blank = {}
      /\ pc = "idle" /\ got = Nothing /\ mid = {}
  BY DEF Init, NoSync
<1>4. NothingLater
  <2>1. \A o \in Objects : upd[o] <= now /\ (o \in alive => upd[o] # 0)
    BY DEF Init
  <2>2. \A o \in alive : o \in Under => Root \in alive
    BY DEF Init
  <2> QED  BY <2>1, <2>2, <1>2, <1>3 DEF NothingLater
<1>5. SyncShape
  BY <1>3 DEF SyncShape
<1>6. AnswersHold
  <2>1. Under \subseteq Objects
    BY Types, <1>1
  <2> QED  BY <2>1, <1>2, <1>3 DEF AnswersHold, HasList
<1>7. RowsOfVersion /\ MissedStale /\ Owed
  BY <1>2, <1>3 DEF RowsOfVersion, MissedStale, Owed, NextFull
<1> QED  BY <1>1, <1>4, <1>5, <1>6, <1>7 DEF SyncInv

(* A row is a record of its three fields, and None is no row.              *)
LEMMA SameRow ==
    ASSUME NEW c \in Row0 \cup {None}, NEW u \in Nat, NEW r \in Nat, NEW v \in Nat
    PROVE  c = [at |-> u, root |-> r, version |-> v] <=>
             c # None /\ c.at = u /\ c.root = r /\ c.version = v
<1>1. [at |-> u, root |-> r, version |-> v] \in Row0
  BY DEF Row0
<1>2. None \notin Row0
  BY SyncAssumption DEF Row0
<1>3. ASSUME c \in Row0 PROVE c = [at |-> c.at, root |-> c.root, version |-> c.version]
  BY <1>3 DEF Row0
<1> QED  BY <1>1, <1>2, <1>3

(* What makes a stored object stale.                                       *)
LEMMA StaleWhen ==
    ASSUME TypeOK, NEW o \in Objects
    PROVE  cache[o] # Current(o) <=>
             \/ cache[o] = None \/ cache[o].at # upd[o]
             \/ cache[o].root # (IF o \in Under THEN upd[Root] ELSE 0)
             \/ cache[o].version # version
<1> DEFINE r == IF o \in Under THEN upd[Root] ELSE 0
<1>1. cache[o] \in Row0 \cup {None} /\ upd[o] \in Nat /\ r \in Nat /\ version \in Nat
  BY Types
<1>2. Current(o) = [at |-> upd[o], root |-> r, version |-> version]
  BY DEF Current
<1> HIDE DEF r
<1>3. cache[o] = Current(o) <=>
        cache[o] # None /\ cache[o].at = upd[o] /\ cache[o].root = r /\ cache[o].version = version
  BY <1>1, <1>2, SameRow
<1> QED  BY <1>3 DEF r

(* The same after a step.                                                  *)
LEMMA StaleWhenNext ==
    ASSUME TypeOK', NEW o \in Objects
    PROVE  cache'[o] # Current(o)' <=>
             \/ cache'[o] = None \/ cache'[o].at # upd'[o]
             \/ cache'[o].root # (IF o \in Under THEN upd'[Root] ELSE 0)
             \/ cache'[o].version # version'
<1> DEFINE r == IF o \in Under THEN upd'[Root] ELSE 0
<1>0. Root \in Objects
  BY SyncAssumption DEF Objects
<1>1. cache'[o] \in Row0 \cup {None} /\ upd'[o] \in Nat /\ r \in Nat /\ version' \in Nat
  BY <1>0 DEF TypeOK
<1>2. Current(o)' = [at |-> upd'[o], root |-> r, version |-> version']
  BY DEF Current
<1> HIDE DEF r
<1>3. cache'[o] = Current(o)' <=>
        cache'[o] # None /\ cache'[o].at = upd'[o] /\ cache'[o].root = r /\ cache'[o].version = version'
  BY <1>1, <1>2, SameRow
<1> QED  BY <1>3 DEF r

(* An edit is after all that was stored, fetched or marked.                *)
LEMMA EditKeeps ==
    ASSUME SyncInv, NEW x \in Objects, Edit(x)
    PROVE  SyncInv'
<1>1. /\ TypeOK /\ NothingLater /\ SyncShape /\ AnswersHold
      /\ RowsOfVersion /\ MissedStale /\ Owed
  BY DEF SyncInv
<1>2. /\ x \in alive \/ upd[x] = 0
      /\ x \in Under => Root \in alive
      /\ now' = now + 1 /\ alive' = alive \cup {x}
      /\ upd' = [upd EXCEPT ![x] = now + 1]
      /\ mid' = IF pc = "devices" /\ x \in Locations THEN mid \cup {x} ELSE mid
      /\ UNCHANGED <<version, cache, state, due, reconcile, missed, pc, sync, got>>
  BY DEF Edit, store
<1>3. /\ upd'[x] = now + 1 /\ \A o \in Objects : o # x => upd'[o] = upd[o]
      /\ \A o \in Objects : upd'[o] \in Nat /\ upd[o] \in Nat /\ upd[o] <= now
      /\ now \in Nat
  BY <1>1, <1>2, Types DEF NothingLater
<1>4. /\ \A o \in Objects : cache[o] # None =>
           cache[o].at < now + 1 /\ cache[o].root < now + 1
      /\ \A o \in Objects : got[o] # None => got[o] \in Nat /\ got[o] < now + 1
      /\ sync.started <= now + 1
      /\ state.mark # None => state.mark <= now + 1
      /\ sync.started \in Nat
      /\ x \in alive \/ (cache[x] = None /\ got[x] = None)
  BY <1>1, <1>2, <1>3, Types DEF NothingLater
<1>5. TypeOK'
  <2>1. mid' \subseteq Locations /\ alive' \subseteq Objects /\ upd' \in [Objects -> Nat]
    BY <1>1, <1>2, <1>3, Types
  <2> QED  BY <2>1, <1>1, <1>2, <1>3 DEF TypeOK
<1>6. NothingLater'
  <2>1. \A o \in Objects : upd'[o] <= now' /\ (o \in alive' => upd'[o] # 0)
    BY <1>1, <1>2, <1>3 DEF NothingLater
  <2>2. \A o \in Objects : cache[o] # None =>
          /\ upd'[o] # 0
          /\ cache[o].at <= now' /\ cache[o].root <= now' /\ cache[o].version <= version
          /\ o \notin Under => cache[o].root = 0
    BY <1>1, <1>2, <1>3, <1>4, Types DEF NothingLater
  <2>3. \A o \in Objects : got[o] # None => upd'[o] # 0 /\ got[o] <= now'
    BY <1>1, <1>2, <1>3, <1>4 DEF NothingLater
  <2>4. /\ state.mark # None => state.mark <= now' + 1
        /\ state.version # None => state.version <= version
        /\ sync.started <= now'
    BY <1>1, <1>2, <1>4, Types DEF NothingLater
  <2>5. \A o \in alive' : o \in Under => Root \in alive'
    BY <1>1, <1>2 DEF NothingLater
  <2> QED  BY <2>1, <2>2, <2>3, <2>4, <2>5, <1>2 DEF NothingLater
<1>7. SyncShape'
  BY <1>1, <1>2 DEF SyncShape, Nothing
<1>8. AnswersHold'
  <2>1. ASSUME NEW o \in alive', HasList(o)', o \notin sync.blank
        PROVE  /\ \/ o \in mid' \/ got[o] = upd'[o] \/ Later(o)'
                  \/ ~ sync.full /\ got[o] = None /\ upd'[o] < sync.mark
               /\ sync.full /\ cache[o] # None => got[o] # None
    <3>1. HasList(o)
      BY <2>1, <1>2 DEF HasList
    <3>2. CASE o = x
      <4>1. \/ pc = "devices" /\ x \in Locations
            \/ pc = "write"
        BY <3>1, <3>2 DEF HasList
      <4>2. CASE pc = "write"
        <5>1. sync.mark = state.mark
          BY <4>2, <1>1 DEF SyncShape
        <5>2. Later(x)'
          BY <4>2, <5>1, <1>2, <1>3, <1>4, Types, <1>1 DEF Later
        <5> QED  BY <5>2, <3>2, <3>1, <2>1, <1>1, <1>4 DEF AnswersHold
      <4>3. CASE pc = "devices" /\ x \in Locations
        BY <4>3, <3>2, <3>1, <2>1, <1>1, <1>2, <1>4 DEF AnswersHold
      <4> QED  BY <4>1, <4>2, <4>3
    <3>3. CASE o # x
      <4>1. o \in alive /\ o \in Objects /\ upd'[o] = upd[o] /\ (o \in mid => o \in mid')
        BY <3>3, <1>1, <1>2, <1>3, Types
      <4>2. Later(o) => Later(o)'
        BY <4>1, <1>2 DEF Later
      <4> QED  BY <4>1, <4>2, <3>1, <2>1, <1>1 DEF AnswersHold
    <3> QED  BY <3>2, <3>3
  <2>2. \A o \in Under : sync.full /\ got[o] # None => got[Root] # None
    BY <1>1 DEF AnswersHold
  <2>3. sync' = sync /\ got' = got /\ cache' = cache
    BY <1>2
  <2> QED  BY <2>1, <2>2, <2>3 DEF AnswersHold
<1>9. RowsOfVersion'
  BY <1>1, <1>2 DEF RowsOfVersion
<1>10. MissedStale'
  <2>1. ASSUME NEW p \in missed PROVE cache'[p] # Current(p)'
    <3>1. p \in Objects /\ Root \in Objects
      BY <1>1, Types
    <3>2. \/ cache[p] = None \/ cache[p].at # upd[p]
          \/ cache[p].root # (IF p \in Under THEN upd[Root] ELSE 0)
          \/ cache[p].version # version
      BY <3>1, <1>1, StaleWhen DEF MissedStale
    <3>3. \/ cache'[p] = None \/ cache'[p].at # upd'[p]
          \/ cache'[p].root # (IF p \in Under THEN upd'[Root] ELSE 0)
          \/ cache'[p].version # version'
      BY <3>1, <3>2, <1>2, <1>3, <1>4, <1>1, Types
    <3> QED  BY <3>1, <3>3, <1>5, StaleWhenNext
  <2> QED  BY <2>1, <1>2 DEF MissedStale
<1>11. Owed'
  <2> SUFFICES ASSUME ~ NextFull', NEW o \in alive'
      PROVE  /\ OwnStale(o)' => o \in missed' \/ upd'[o] >= state'.mark
             /\ RootStale(o)' =>
                  \/ o \in missed' \/ Root \in missed'
                  \/ cache'[Root] # Current(Root)' /\ upd'[Root] >= state'.mark
    BY Zenon DEF Owed
  <2>1. ~ NextFull /\ state' = state /\ state.mark # None /\ missed' = missed /\ cache' = cache
    BY <1>2 DEF NextFull, cache_version_mismatch
  <2>2. o \in Objects /\ Root \in Objects /\ state.mark \in Nat
    BY <1>1, <1>2, <2>1, Types
  <2>3. CASE o = x
    <3>1. upd'[o] >= state.mark
      BY <2>1, <2>2, <2>3, <1>3, <1>4
    <3>2. ~ RootStale(o)'
      BY <2>2, <2>3, <1>2, <1>3, <1>4, <1>1, Types DEF RootStale
    <3> QED  BY <3>1, <3>2, <2>1
  <2>4. CASE o # x
    <3>1. o \in alive /\ upd'[o] = upd[o]
      BY <2>2, <2>4, <1>2, <1>3
    <3>2. OwnStale(o)' => o \in missed \/ upd[o] >= state.mark
      BY <3>1, <2>1, <1>1 DEF OwnStale, Owed
    <3>3. CASE x = Root
      <4>1. cache'[Root] # Current(Root)'
        BY <3>3, <2>2, <1>2, <1>3, <1>4, <1>1, Types, <1>5, StaleWhenNext
      <4>2. upd'[Root] >= state.mark
        BY <3>3, <2>1, <2>2, <1>3, <1>4
      <4> QED  BY <4>1, <4>2, <3>1, <3>2, <2>1
    <3>4. CASE x # Root
      <4>1. upd'[Root] = upd[Root]
        BY <3>4, <2>2, <1>3
      <4>2. RootStale(o)' => RootStale(o)
        BY <4>1, <3>1, <1>2 DEF RootStale
      <4>3. cache[Root] # Current(Root) => cache'[Root] # Current(Root)'
        BY <4>1, <1>2, Types, <1>1 DEF Current
      <4> QED  BY <4>1, <4>2, <4>3, <3>1, <3>2, <2>1, <1>1 DEF Owed
    <3> QED  BY <3>3, <3>4
  <2> QED  BY <2>3, <2>4
<1> QED  BY <1>5, <1>6, <1>7, <1>8, <1>9, <1>10, <1>11 DEF SyncInv

(* What the copy owes is of the copy, the state and Nautobot's objects
   only. *)
LEMMA CopyKeeps ==
    ASSUME SyncInv, alive' \subseteq alive,
           UNCHANGED <<upd, version, cache, missed>>,
           state'.mark = state.mark, state'.version = state.version,
           reconcile => reconcile'
    PROVE  RowsOfVersion' /\ MissedStale' /\ Owed'
<1>1. TypeOK /\ RowsOfVersion /\ MissedStale /\ Owed
  BY DEF SyncInv
<1>2. \A o : Current(o)' = Current(o)
  BY DEF Current
<1>3. ~ NextFull' => ~ NextFull
  BY DEF NextFull, cache_version_mismatch
<1>4. \A o : (OwnStale(o)' <=> OwnStale(o)) /\ (RootStale(o)' <=> RootStale(o))
  BY DEF OwnStale, RootStale
<1>5. RowsOfVersion'
  BY <1>1 DEF RowsOfVersion
<1>6. MissedStale'
  BY <1>1, <1>2 DEF MissedStale
<1>7. Owed'
  <2> SUFFICES ASSUME ~ NextFull', NEW o \in alive'
      PROVE  /\ OwnStale(o)' => o \in missed' \/ upd'[o] >= state'.mark
             /\ RootStale(o)' =>
                  \/ o \in missed' \/ Root \in missed'
                  \/ cache'[Root] # Current(Root)' /\ upd'[Root] >= state'.mark
    BY Zenon DEF Owed
  <2>1. /\ OwnStale(o) => o \in missed \/ upd[o] >= state.mark
        /\ RootStale(o) =>
             \/ o \in missed \/ Root \in missed
             \/ cache[Root] # Current(Root) /\ upd[Root] >= state.mark
    BY <1>1, <1>3 DEF Owed
  <2> QED  BY <2>1, <1>2, <1>4
<1> QED  BY <1>5, <1>6, <1>7

(* What is deleted is not owed.                                            *)
LEMMA DeleteKeeps ==
    ASSUME SyncInv, NEW x \in Objects, Delete(x)
    PROVE  SyncInv'
<1>1. /\ TypeOK /\ NothingLater /\ SyncShape /\ AnswersHold
  BY DEF SyncInv
<1>2. /\ x = Root => alive \cap Under = {}
      /\ alive' = alive \ {x}
      /\ UNCHANGED <<now, upd, version, cache, state, due, reconcile, missed, pc, sync, got, mid>>
  BY DEF Delete, store, local
<1>3. TypeOK'
  BY <1>1, <1>2 DEF TypeOK
<1>4. NothingLater'
  <2>1. \A o \in alive' : o \in Under => Root \in alive'
    BY <1>1, <1>2 DEF NothingLater
  <2>2. \A o \in Objects : upd[o] <= now /\ (o \in alive' => upd[o] # 0)
    BY <1>1, <1>2 DEF NothingLater
  <2> QED  BY <2>1, <2>2, <1>1, <1>2 DEF NothingLater
<1>5. SyncShape'
  BY <1>1, <1>2 DEF SyncShape, Nothing
<1>6. AnswersHold'
  BY <1>1, <1>2 DEF AnswersHold, HasList, Later
<1>7. RowsOfVersion' /\ MissedStale' /\ Owed'
  BY <1>2, CopyKeeps
<1> QED  BY <1>3, <1>4, <1>5, <1>6, <1>7 DEF SyncInv

(* An interval passes, or nothing happens.                                 *)
LEMMA TimeKeeps ==
    ASSUME SyncInv, due' \in BOOLEAN, reconcile' \in BOOLEAN, reconcile => reconcile',
           UNCHANGED <<now, alive, upd, version, cache, state, missed, pc, sync, got, mid>>
    PROVE  SyncInv'
<1>1. TypeOK /\ NothingLater /\ SyncShape /\ AnswersHold
  BY DEF SyncInv
<1>2. TypeOK'
  BY <1>1 DEF TypeOK
<1>3. NothingLater'
  BY <1>1 DEF NothingLater
<1>4. SyncShape'
  BY <1>1 DEF SyncShape, Nothing
<1>5. AnswersHold'
  BY <1>1 DEF AnswersHold, HasList, Later
<1>6. RowsOfVersion' /\ MissedStale' /\ Owed'
  BY CopyKeeps
<1> QED  BY <1>2, <1>3, <1>4, <1>5, <1>6 DEF SyncInv

(* With other settings the next sync is full.                              *)
LEMMA SettingsKeep ==
    ASSUME SyncInv, SettingsChange
    PROVE  SyncInv'
<1>1. /\ TypeOK /\ NothingLater /\ SyncShape /\ AnswersHold
      /\ RowsOfVersion /\ MissedStale /\ Owed
  BY DEF SyncInv
<1>2. /\ pc = "idle" /\ version' = version + 1
      /\ UNCHANGED <<now, alive, upd, cache, state, due, reconcile, missed, pc, sync, got, mid>>
  BY DEF SettingsChange, remote, store, local
<1>3. TypeOK' /\ version \in Nat
  BY <1>1, <1>2 DEF TypeOK
<1>4. state.version # None => state.version <= version /\ state.version \in Nat
  BY <1>1, Types DEF NothingLater
<1>5. version' \in Nat /\ version' # None /\ state.version # version'
  BY <1>2, <1>3, <1>4, <1>1, Types
<1>6. NothingLater'
  <2>1. \A o \in Objects : cache[o] # None => cache[o].version <= version'
    BY <1>1, <1>2, <1>3, Types DEF NothingLater
  <2>2. state.version # None => state.version <= version'
    BY <1>2, <1>3, <1>4
  <2> QED  BY <2>1, <2>2, <1>1, <1>2 DEF NothingLater
<1>7. SyncShape'
  BY <1>1, <1>2 DEF SyncShape, Nothing
<1>8. AnswersHold'
  BY <1>1, <1>2 DEF AnswersHold, HasList, Later
<1>9. RowsOfVersion' /\ Owed'
  BY <1>2, <1>5 DEF RowsOfVersion, Owed, NextFull, cache_version_mismatch
<1>10. MissedStale'
  <2>1. ASSUME NEW p \in missed PROVE cache'[p] # Current(p)'
    <3>1. p \in Objects
      BY <1>1, Types
    <3>2. cache[p] = None \/ cache[p].version # version'
      BY <3>1, <1>1, <1>2, <1>3, Types DEF NothingLater
    <3> QED  BY <3>1, <3>2, <1>2, <1>3, StaleWhenNext
  <2> QED  BY <2>1, <1>2 DEF MissedStale
<1> QED  BY <1>3, <1>6, <1>7, <1>8, <1>9, <1>10 DEF SyncInv

(* A sync begins: it reads the state, or with full nothing.                *)
LEMMA StartKeeps ==
    ASSUME SyncInv, NEW force \in BOOLEAN, NEW full \in BOOLEAN, Start(force, full)
    PROVE  SyncInv'
<1> DEFINE read == IF full THEN [status |-> "none", mark |-> None, version |-> None] ELSE state
<1>1. /\ TypeOK /\ NothingLater /\ SyncShape /\ AnswersHold
      /\ RowsOfVersion /\ MissedStale /\ Owed
  BY DEF SyncInv
<1>2. PICK blank \in Blanks, tree \in BOOLEAN :
        sync' = [full |-> full \/ cache_version_mismatch(read) \/ read.mark = None \/ reconcile,
                 started |-> now, mark |-> read.mark, version |-> read.version,
                 blank |-> blank, tree |-> tree]
  BY DEF Start
<1>3. /\ pc = "idle" /\ pc' = "locations" /\ due' = FALSE
      /\ state' = [status |-> "running", mark |-> read.mark, version |-> read.version]
      /\ UNCHANGED <<now, alive, upd, version, cache, reconcile, missed, got, mid>>
  BY DEF Start, remote
<1>4. /\ full => read.mark = None /\ read.version = None
      /\ ~ full => read.mark = state.mark /\ read.version = state.version
      /\ cache_version_mismatch(read) <=> read.version # version
  BY DEF cache_version_mismatch
<1> HIDE DEF read
<1>5. /\ state'.mark = read.mark /\ state'.version = read.version
      /\ sync'.mark = read.mark /\ sync'.version = read.version /\ sync'.started = now
      /\ sync'.full <=> full \/ read.version # version \/ read.mark = None \/ reconcile
  BY <1>2, <1>3, <1>4
<1>6. read.mark \in Time /\ read.version \in Time
  BY <1>4, <1>1, Types DEF Time
<1>7. TypeOK'
  <2>1. state' \in [status : Statuses, mark : Time, version : Time]
    BY <1>3, <1>6 DEF Statuses
  <2>2. (full \/ cache_version_mismatch(read) \/ read.mark = None \/ reconcile) \in BOOLEAN
    OBVIOUS
  <2>3. sync' \in Syncs
    BY <2>2, <1>2, <1>6, <1>1, Types DEF Syncs
  <2> QED  BY <2>1, <2>3, <1>1, <1>3 DEF TypeOK, Pcs
<1>8. NothingLater'
  <2>1. /\ state'.mark # None => state'.mark <= now + 1
        /\ state'.version # None => state'.version <= version
        /\ sync'.started <= now
    BY <1>4, <1>5, <1>1, Types DEF NothingLater
  <2> QED  BY <2>1, <1>1, <1>3 DEF NothingLater
<1>9. SyncShape'
  <2>1. got = Nothing /\ mid = {}
    BY <1>1, <1>3 DEF SyncShape
  <2>2. Nothing' = Nothing /\ \A o \in Objects : got[o] = None
    BY <2>1 DEF Nothing
  <2>3. sync'.blank \subseteq Objects
    BY <1>7, Types, SyncAssumption DEF TypeOK, Syncs, Blanks, Objects
  <2> QED  BY <2>1, <2>2, <2>3, <1>3, <1>5 DEF SyncShape
<1>10. AnswersHold'
  <2>1. \A o \in Under : got[o] = None
    BY <1>1, <1>3, Types DEF SyncShape, Nothing
  <2> QED  BY <2>1, <1>3 DEF AnswersHold, HasList
<1>11. RowsOfVersion' /\ MissedStale' /\ Owed'
  <2>1. CASE full
    <3>1. RowsOfVersion'
      BY <2>1, <1>3, <1>4, <1>5, <1>1, Types DEF RowsOfVersion
    <3>2. Owed'
      BY <2>1, <1>4, <1>5 DEF Owed, NextFull
    <3>3. MissedStale'
      BY <1>1, <1>3 DEF MissedStale, Current
    <3> QED  BY <3>1, <3>2, <3>3
  <2>2. CASE ~ full
    BY <2>2, <1>3, <1>4, <1>5, CopyKeeps
  <2> QED  BY <2>1, <2>2
<1> QED  BY <1>7, <1>8, <1>9, <1>10, <1>11 DEF SyncInv

(* What is in a list: what Nautobot has of it, all or since the watermark. *)
LEMMA FetchedOf ==
    ASSUME TypeOK, NEW os \in SUBSET Objects, got' = Fetched(os)
    PROVE  /\ got' \in [Objects -> Time]
           /\ \A o \in Objects :
                got'[o] = IF o \in os /\ o \in alive /\ o \notin sync.blank
                             /\ (sync.full \/ upd[o] >= sync.mark)
                          THEN upd[o] ELSE got[o]
           /\ \A o \in sync.blank : got'[o] = got[o]
<1>1. got' = [o \in Objects |->
        IF o \in os /\ o \in alive /\ o \notin sync.blank /\ (sync.full \/ upd[o] >= sync.mark)
        THEN upd[o] ELSE got[o]]
  BY DEF Fetched
<1>2. /\ got \in [Objects -> Time] /\ \A o \in Objects : upd[o] \in Time
      /\ sync.blank \subseteq Objects
  BY Types DEF Time
<1> QED  BY <1>1, <1>2

(* The locations are fetched.                                              *)
LEMMA FetchLocationsKeeps ==
    ASSUME SyncInv, FetchLocations
    PROVE  SyncInv'
<1>1. /\ TypeOK /\ NothingLater /\ SyncShape /\ AnswersHold
  BY DEF SyncInv
<1>2. /\ pc = "locations" /\ pc' = "devices" /\ got' = Fetched(Locations)
      /\ UNCHANGED <<now, alive, upd, version, cache, state, due, reconcile, missed, sync, mid>>
  BY DEF FetchLocations, remote, store
<1>3. Locations \subseteq Objects /\ Devices \subseteq Objects /\ Under \subseteq Locations
      /\ Root \in Locations /\ Locations \cap Devices = {}
  BY SyncAssumption DEF Objects, Under
<1>4. /\ got' \in [Objects -> Time]
      /\ \A o \in Objects :
           got'[o] = IF o \in Locations /\ o \in alive /\ o \notin sync.blank
                        /\ (sync.full \/ upd[o] >= sync.mark)
                     THEN upd[o] ELSE got[o]
      /\ \A o \in sync.blank : got'[o] = got[o]
  BY <1>1, <1>2, <1>3, FetchedOf
<1>5. \A o \in Objects : got[o] = None
  BY <1>1, <1>2 DEF SyncShape, Nothing
<1>6. TypeOK'
  BY <1>1, <1>2, <1>4 DEF TypeOK, Pcs
<1>7. NothingLater'
  <2>1. \A o \in Objects : got'[o] # None => upd[o] # 0 /\ got'[o] <= now
    BY <1>1, <1>4, <1>5 DEF NothingLater
  <2> QED  BY <2>1, <1>1, <1>2 DEF NothingLater
<1>8. SyncShape'
  <2>1. \A d \in Devices : got'[d] = None
    BY <1>3, <1>4, <1>5
  <2>2. \A o \in sync.blank : got'[o] = None
    BY <1>1, <1>4 DEF SyncShape
  <2>3. Nothing' = Nothing
    BY DEF Nothing
  <2> QED  BY <2>1, <2>2, <2>3, <1>1, <1>2 DEF SyncShape
<1>9. AnswersHold'
  <2>1. \A o \in Objects : HasList(o)' <=> o \in Locations
    BY <1>2 DEF HasList
  <2>2. ~ sync.full => sync.mark # None
    BY <1>1, <1>2 DEF SyncShape
  <2>3. ASSUME NEW o \in alive, o \in Locations, o \notin sync.blank
        PROVE  /\ \/ got'[o] = upd[o]
                  \/ ~ sync.full /\ got'[o] = None /\ upd[o] < sync.mark
               /\ sync.full => got'[o] # None
    BY <2>2, <2>3, <1>4, <1>5, <1>1, Types
  <2>4. \A o \in Under : sync.full /\ got'[o] # None => got'[Root] # None
    <3>1. ASSUME NEW o \in Under, sync.full, got'[o] # None PROVE got'[Root] # None
      <4>1. o \in alive /\ o \notin sync.blank /\ Root \notin sync.blank /\ Root \in Objects
        BY <3>1, <1>3, <1>4, <1>5, <1>1, Types
      <4>2. Root \in alive
        BY <3>1, <4>1, <1>1 DEF NothingLater
      <4>3. got'[Root] = upd[Root]
        BY <3>1, <4>1, <4>2, <1>3, <1>4
      <4> QED  BY <4>1, <4>3, <1>1, Types
    <3> QED  BY <3>1
  <2>5. alive \subseteq Objects
    BY <1>1, Types
  <2> QED  BY <2>1, <2>3, <2>4, <2>5, <1>2 DEF AnswersHold
<1>10. RowsOfVersion' /\ MissedStale' /\ Owed'
  BY <1>2, CopyKeeps
<1> QED  BY <1>6, <1>7, <1>8, <1>9, <1>10 DEF SyncInv

(* The devices are fetched.                                                *)
LEMMA FetchDevicesKeeps ==
    ASSUME SyncInv, FetchDevices
    PROVE  SyncInv'
<1>1. /\ TypeOK /\ NothingLater /\ SyncShape /\ AnswersHold
  BY DEF SyncInv
<1>2. /\ pc = "devices" /\ pc' = "write" /\ got' = Fetched(Devices)
      /\ UNCHANGED <<now, alive, upd, version, cache, state, due, reconcile, missed, sync, mid>>
  BY DEF FetchDevices, remote, store
<1>3. Locations \subseteq Objects /\ Devices \subseteq Objects /\ Under \subseteq Locations
      /\ Root \in Locations /\ Locations \cap Devices = {} /\ Objects = Locations \cup Devices
  BY SyncAssumption DEF Objects, Under
<1>4. /\ got' \in [Objects -> Time]
      /\ \A o \in Objects :
           got'[o] = IF o \in Devices /\ o \in alive /\ o \notin sync.blank
                        /\ (sync.full \/ upd[o] >= sync.mark)
                     THEN upd[o] ELSE got[o]
      /\ \A o \in sync.blank : got'[o] = got[o]
  BY <1>1, <1>2, <1>3, FetchedOf
<1>5. /\ \A d \in Devices : got[d] = None
      /\ \A o \in Locations : got'[o] = got[o]
  BY <1>1, <1>2, <1>3, <1>4 DEF SyncShape
<1>6. TypeOK'
  BY <1>1, <1>2, <1>4 DEF TypeOK, Pcs
<1>7. NothingLater'
  <2>1. \A o \in Objects : got'[o] # None => upd[o] # 0 /\ got'[o] <= now
    BY <1>1, <1>4 DEF NothingLater
  <2> QED  BY <2>1, <1>1, <1>2 DEF NothingLater
<1>8. SyncShape'
  <2>1. \A o \in sync.blank : got'[o] = None
    BY <1>1, <1>4 DEF SyncShape
  <2>2. Nothing' = Nothing
    BY DEF Nothing
  <2> QED  BY <2>1, <2>2, <1>1, <1>2 DEF SyncShape
<1>9. AnswersHold'
  <2>1. ~ sync.full => sync.mark # None
    BY <1>1, <1>2 DEF SyncShape
  <2>2. ASSUME NEW o \in alive, o \notin sync.blank
        PROVE  /\ \/ o \in mid \/ got'[o] = upd[o]
                  \/ ~ sync.full /\ got'[o] = None /\ upd[o] < sync.mark
               /\ sync.full /\ cache[o] # None => got'[o] # None
    <3>1. CASE o \in Devices
      BY <3>1, <2>1, <2>2, <1>3, <1>4, <1>5, <1>1, Types
    <3>2. CASE o \in Locations
      <4>1. HasList(o) /\ ~ Later(o)
        BY <3>2, <1>2 DEF HasList, Later
      <4> QED  BY <4>1, <3>2, <2>2, <1>5, <1>1 DEF AnswersHold
    <3>3. o \in Objects
      BY <1>1, Types
    <3> QED  BY <3>1, <3>2, <3>3, <1>3
  <2>3. \A o \in Under : sync.full /\ got'[o] # None => got'[Root] # None
    BY <1>1, <1>3, <1>5 DEF AnswersHold
  <2> QED  BY <2>2, <2>3, <1>2 DEF AnswersHold
<1>10. RowsOfVersion' /\ MissedStale' /\ Owed'
  BY <1>2, CopyKeeps
<1> QED  BY <1>6, <1>7, <1>8, <1>9, <1>10 DEF SyncInv

(* Between syncs there is nothing to know.                                 *)
LEMMA EndShape ==
    ASSUME TypeOK, End
    PROVE  /\ SyncShape' /\ AnswersHold'
           /\ \A o \in Objects : got'[o] = None
           /\ sync'.started = 0
           /\ sync' \in Syncs
           /\ got' \in [Objects -> Time] /\ pc' \in Pcs /\ mid' = {}
<1>1. pc' = "idle" /\ sync' = NoSync /\ got' = Nothing /\ mid' = {}
  BY DEF End
<1>2. Nothing' = Nothing /\ \A o \in Objects : got'[o] = None
  BY <1>1 DEF Nothing
<1>3. sync'.started = 0 /\ sync'.blank = {}
  BY <1>1 DEF NoSync
<1>4. sync' \in Syncs
  BY <1>1 DEF NoSync, Time, Syncs, Blanks
<1>5. got' \in [Objects -> Time]
  BY <1>1 DEF Nothing, Time
<1>6. SyncShape'
  BY <1>1, <1>2, <1>3 DEF SyncShape
<1>7. AnswersHold'
  BY <1>1, <1>2, Types DEF AnswersHold, HasList
<1> QED  BY <1>1, <1>2, <1>3, <1>4, <1>5, <1>6, <1>7 DEF Pcs

(* A sync that fails or dies leaves what it read at its start.             *)
LEMMA EndKeeps ==
    ASSUME SyncInv, pc # "idle",
           Failed \/ (End /\ UNCHANGED <<remote, version, store>>)
    PROVE  SyncInv'
<1>1. /\ TypeOK /\ NothingLater /\ SyncShape
  BY DEF SyncInv
<1>2. End /\ UNCHANGED <<now, alive, upd, version, cache, reconcile, missed>>
  BY DEF Failed, remote, store
<1>3. /\ state'.mark = state.mark /\ state'.version = state.version /\ due' \in BOOLEAN
      /\ state' \in [status : Statuses, mark : Time, version : Time]
  <2>1. CASE Failed
    <3>1. sync.mark = state.mark /\ sync.version = state.version
      BY <1>1 DEF SyncShape
    <3>2. state' = [status |-> "error", mark |-> state.mark, version |-> state.version]
          /\ due' = FALSE
      BY <2>1, <3>1 DEF Failed
    <3> QED  BY <3>2, <1>1, Types DEF Statuses
  <2>2. CASE End /\ UNCHANGED <<remote, version, store>>
    BY <2>2, <1>1 DEF store, TypeOK
  <2> QED  BY <2>1, <2>2
<1>4. TypeOK'
  BY <1>1, <1>2, <1>3, EndShape DEF TypeOK
<1>5. NothingLater'
  BY <1>1, <1>2, <1>3, EndShape, Types DEF NothingLater
<1>6. RowsOfVersion' /\ MissedStale' /\ Owed'
  BY <1>2, <1>3, CopyKeeps
<1> QED  BY <1>1, <1>2, <1>4, <1>5, <1>6, EndShape DEF SyncInv

(* The watermark is at most a microsecond from now, and no later than an
   edit after all that the sync has fetched. *)
LEMMA WatermarkOf ==
    ASSUME SyncInv, pc = "write", NEW m, m = Watermark({got[o] : o \in Seen})
    PROVE  /\ m \in Nat /\ m <= now + 1
           /\ \A o \in Objects : Later(o) => m <= upd[o]
           /\ ~ sync.full /\ Seen = {} => m = sync.mark
<1> DEFINE observed == {got[o] : o \in Seen}
           newer    == observed # {} /\ (sync.mark = None \/ Max(observed) > sync.mark)
           mark     == IF newer THEN Max(observed) + 1 ELSE sync.mark
           both     == {sync.started} \cup ({mark} \ {None})
<1>1. TypeOK /\ NothingLater /\ SyncShape
  BY DEF SyncInv
<1>2. /\ now \in Nat /\ now + 1 \in Nat /\ sync.started \in Nat /\ sync.started <= now + 1
      /\ sync.mark # None => sync.mark \in Nat /\ sync.mark <= now + 1
      /\ ~ sync.full => sync.mark # None
      /\ None \notin Nat
  BY <1>1, Types DEF NothingLater, SyncShape
<1>3. observed \subseteq Nat /\ \A x \in observed : x <= now
  BY <1>1, Types DEF Seen, NothingLater
<1>4. m = IF sync.full THEN Max(both) ELSE mark
  BY DEF Watermark
<1>5. ASSUME observed # {}
      PROVE  \E p \in Objects : got[p] # None /\ got[p] = Max(observed)
  <2>1. Max(observed) \in observed
    BY <1>2, <1>3, <1>5, MaxIsChosen
  <2> QED  BY <2>1 DEF Seen
<1>6. mark # None =>
        /\ mark \in Nat /\ mark <= now + 1
        /\ \A o \in Objects : Later(o) => mark <= upd[o]
  <2>1. CASE newer
    <3>1. PICK p \in Objects : got[p] # None /\ got[p] = Max(observed)
      BY <2>1, <1>5
    <3>2. mark = got[p] + 1
      BY <2>1, <3>1
    <3>3. got[p] \in Nat /\ got[p] <= now
      BY <3>1, <1>1, Types DEF NothingLater
    <3>4. \A o \in Objects : Later(o) => got[p] < upd[o] /\ upd[o] \in Nat
      BY <3>1, <1>1, Types DEF Later
    <3> QED  BY <3>2, <3>3, <3>4, <1>2
  <2>2. CASE ~ newer
    <3>1. mark = sync.mark
      BY <2>2
    <3> QED  BY <3>1, <1>2 DEF Later
  <2> QED  BY <2>1, <2>2
<1>7. ~ sync.full => mark # None
  <2>1. Max(observed) + 1 # None \/ ~ newer
    <3>1. CASE newer
      <4>1. PICK p \in Objects : got[p] # None /\ got[p] = Max(observed)
        BY <3>1, <1>5
      <4>2. got[p] \in Nat
        BY <4>1, <1>1, Types
      <4> QED  BY <4>1, <4>2, <1>2
    <3> QED  BY <3>1
  <2> QED  BY <2>1, <1>2
<1>8. Seen = {} => mark = sync.mark
  OBVIOUS
<1> HIDE DEF mark, newer, observed
<1>9. CASE sync.full
  <2>1. both \subseteq Nat /\ both # {} /\ \A x \in both : x <= now + 1
    BY <1>2, <1>6
  <2> HIDE DEF both
  <2>2. Max(both) \in both
    BY <2>1, <1>2, MaxIsChosen
  <2>3. m = sync.started \/ (m = mark /\ mark # None)
    BY <2>2, <1>4, <1>9 DEF both
  <2>4. \A o \in Objects : Later(o) => sync.started <= upd[o]
    BY <1>1, Types DEF Later
  <2> QED  BY <2>3, <2>4, <1>2, <1>6, <1>9
<1>10. CASE ~ sync.full
  BY <1>10, <1>4, <1>6, <1>7, <1>8
<1> QED  BY <1>9, <1>10

(* The rows after a sync: of what it has fetched, and with an incremental
   one the others as they were. *)
LEMMA RewrittenRows ==
    ASSUME SyncInv
    PROVE  /\ Rewritten \in [Objects -> Row0 \cup {None}]
           /\ RootAt \in Nat /\ RootAt <= now
           /\ \A o \in Objects :
                /\ got[o] = None => Rewritten[o] = IF sync.full THEN None ELSE cache[o]
                /\ got[o] # None =>
                     /\ Rewritten[o] # None
                     /\ Rewritten[o].at = got[o] /\ Rewritten[o].version = version
                     /\ Rewritten[o].root = IF o \in Under THEN RootAt ELSE 0
<1>1. TypeOK /\ NothingLater
  BY DEF SyncInv
<1>2. RootAt \in Nat /\ RootAt <= now
  BY <1>1, Types DEF RootAt, NothingLater
<1>3. ASSUME NEW o \in Objects, got[o] # None
      PROVE  LET r == IF o \in Under THEN RootAt ELSE 0
             IN  /\ (IF o \in Locations THEN WrittenLocation(o) ELSE WrittenDevice(o))
                      = [at |-> got[o], root |-> r, version |-> version]
                 /\ [at |-> got[o], root |-> r, version |-> version] \in Row0
  <2>1. got[o] \in Nat /\ version \in Nat
    BY <1>1, <1>3, Types
  <2>2. o \in Under => o \in Locations
    BY DEF Under
  <2> QED  BY <2>1, <2>2, <1>2 DEF WrittenLocation, WrittenDevice, Row0
<1>4. None \notin Row0 /\ cache \in [Objects -> Row0 \cup {None}]
  BY SyncAssumption, <1>1, Types DEF Row0
<1>5. \A o \in Objects : o \in Seen <=> got[o] # None
  BY DEF Seen
<1>6. Rewritten =
        [o \in Objects |->
           IF got[o] = None THEN IF sync.full THEN None ELSE cache[o]
           ELSE [at |-> got[o], root |-> IF o \in Under THEN RootAt ELSE 0, version |-> version]]
  BY <1>3, <1>5 DEF Rewritten
<1>7. Rewritten \in [Objects -> Row0 \cup {None}]
  BY <1>3, <1>4, <1>6
<1>8. ASSUME NEW o \in Objects
      PROVE  /\ got[o] = None => Rewritten[o] = IF sync.full THEN None ELSE cache[o]
             /\ got[o] # None =>
                  /\ Rewritten[o] # None
                  /\ Rewritten[o].at = got[o] /\ Rewritten[o].version = version
                  /\ Rewritten[o].root = IF o \in Under THEN RootAt ELSE 0
  BY <1>3, <1>4, <1>6
<1> QED  BY <1>2, <1>7, <1>8

(* What a completed sync does, field by field.                             *)
LEMMA CommitFacts ==
    ASSUME SyncInv, NEW stack \in BOOLEAN, Commit(stack)
    PROVE  /\ pc = "write" /\ End /\ UNCHANGED <<now, alive, upd, version>>
           /\ cache' = Rewritten /\ due' = FALSE
           /\ state'.mark = Watermark({got[o] : o \in Seen}) /\ state'.version = version
           /\ state' \in [status : Statuses, mark : Time, version : Time]
           /\ reconcile' \in BOOLEAN
           /\ ~ sync.full /\ ~ reconcile' => ~ reconcile /\ ~ tree_change
           /\ ~ RootNotStored /\ ~ EmptyDataset
           /\ missed' \subseteq Objects
           /\ \A p \in missed' : cache'[p] # Current(p)'
           /\ \A p \in Objects :
                /\ p \in missed \/ p \in PassedBy
                /\ cache'[p] # Current(p)'
                => p \in missed'
<1>1. /\ pc = "write" /\ End /\ UNCHANGED <<now, alive, upd, version>>
      /\ cache' = Rewritten /\ due' = FALSE
      /\ state' = [status |-> "idle", mark |-> Watermark({got[o] : o \in Seen}), version |-> version]
      /\ reconcile' = IF sync.full THEN FALSE ELSE reconcile \/ tree_change \/ stack
      /\ ~ RootNotStored /\ ~ EmptyDataset
  BY DEF Commit, remote
<1>2. missed' = {o \in missed \cup PassedBy : cache'[o] # Current(o)}
  BY DEF Commit
<1>3. TypeOK
  BY DEF SyncInv
<1>4. missed \subseteq Objects /\ PassedBy \subseteq Objects
  BY <1>3, Types DEF PassedBy
<1>5. \A o : Current(o)' = Current(o)
  BY <1>1 DEF Current
<1>6. state' \in [status : Statuses, mark : Time, version : Time]
  <2>1. Watermark({got[o] : o \in Seen}) \in Time /\ version \in Time
    BY <1>1, <1>3, Types, WatermarkOf DEF Time
  <2> HIDE DEF Watermark
  <2> QED  BY <2>1, <1>1 DEF Statuses
<1>7. reconcile' \in BOOLEAN
  BY <1>1
<1>8. state'.mark = Watermark({got[o] : o \in Seen}) /\ state'.version = version
  BY <1>1
<1>9. missed' \subseteq Objects /\ \A p \in missed' : cache'[p] # Current(p)'
  BY <1>2, <1>4, <1>5
<1>10. ASSUME NEW p \in Objects, cache'[p] # Current(p)',
              p \in missed \/ p \in PassedBy
       PROVE  p \in missed'
  BY <1>2, <1>5, <1>10
<1>11. ~ sync.full /\ ~ reconcile' => ~ reconcile /\ ~ tree_change
  BY <1>1
<1> QED  BY <1>1, <1>6, <1>7, <1>8, <1>9, <1>10, <1>11

(* A completed sync leaves stale only what its watermark comes before, or
   what is history as missed. *)
LEMMA CommitKeeps ==
    ASSUME SyncInv, NEW stack \in BOOLEAN, Commit(stack)
    PROVE  SyncInv'
<1>1. /\ TypeOK /\ NothingLater /\ SyncShape /\ AnswersHold
      /\ RowsOfVersion /\ MissedStale /\ Owed
  BY DEF SyncInv
<1>2. /\ pc = "write" /\ End /\ UNCHANGED <<now, alive, upd, version>>
      /\ cache' = Rewritten /\ due' = FALSE
      /\ state'.version = version
      /\ state' \in [status : Statuses, mark : Time, version : Time]
      /\ reconcile' \in BOOLEAN
      /\ ~ sync.full /\ ~ reconcile' => ~ reconcile /\ ~ tree_change
      /\ ~ RootNotStored
      /\ missed' \subseteq Objects
      /\ \A p \in missed' : cache'[p] # Current(p)'
  BY CommitFacts
<1>3. \A p \in Objects :
        /\ \/ p \in missed \/ p \in mid
           \/ (sync.full \/ Seen # {}) /\ p \in sync.blank /\ p \in alive
           \/ ~ sync.tree /\ p \in Under
        /\ cache'[p] # Current(p)'
        => p \in missed'
  <2>1. \A p \in Objects :
          p \in missed \/ p \in PassedBy => cache'[p] = Current(p)' \/ p \in missed'
    BY CommitFacts
  <2> QED  BY <2>1 DEF PassedBy
<1>4. /\ state'.mark \in Nat /\ state'.mark <= now + 1
      /\ \A o \in Objects : Later(o) => state'.mark <= upd[o]
      /\ ~ sync.full /\ Seen = {} => state'.mark = sync.mark
  BY <1>2, CommitFacts, WatermarkOf
<1>5. /\ cache' \in [Objects -> Row0 \cup {None}]
      /\ RootAt \in Nat /\ RootAt <= now
      /\ \A o \in Objects :
           /\ got[o] = None => cache'[o] = IF sync.full THEN None ELSE cache[o]
           /\ got[o] # None =>
                /\ cache'[o] # None
                /\ cache'[o].at = got[o] /\ cache'[o].version = version
                /\ cache'[o].root = IF o \in Under THEN RootAt ELSE 0
  BY <1>2, RewrittenRows
<1>6. TypeOK'
  BY <1>1, <1>2, <1>5, EndShape DEF TypeOK
<1>7. NothingLater'
  <2>1. ASSUME NEW o \in Objects, cache'[o] # None
        PROVE  /\ upd[o] # 0
               /\ cache'[o].at <= now /\ cache'[o].root <= now /\ cache'[o].version <= version
               /\ o \notin Under => cache'[o].root = 0
    BY <2>1, <1>5, <1>1, Types DEF NothingLater
  <2>2. /\ state'.mark <= now + 1 /\ state'.version <= version
        /\ sync'.started <= now /\ \A o \in Objects : got'[o] = None
    BY <1>1, <1>2, <1>4, EndShape, Types
  <2> QED  BY <2>1, <2>2, <1>1, <1>2 DEF NothingLater
<1>8. SyncShape' /\ AnswersHold'
  BY <1>1, <1>2, EndShape
<1>9. RowsOfVersion'
  <2>1. ASSUME NEW o \in Objects, cache'[o] # None PROVE cache'[o].version = version
    BY <2>1, <1>1, <1>2, <1>5 DEF RowsOfVersion, SyncShape
  <2> QED  BY <2>1, <1>2 DEF RowsOfVersion
<1>10. MissedStale'
  BY <1>2 DEF MissedStale
<1>11. Owed'
  <2> SUFFICES ASSUME ~ NextFull'
               PROVE  \A o \in alive' :
                        /\ OwnStale(o)' => o \in missed' \/ upd'[o] >= state'.mark
                        /\ RootStale(o)' =>
                             \/ o \in missed' \/ Root \in missed'
                             \/ cache'[Root] # Current(Root)' /\ upd'[Root] >= state'.mark
    BY Zenon DEF Owed
  <2>1. ~ reconcile'
    BY DEF NextFull
  <2>2. ~ sync.full =>
          /\ ~ NextFull /\ sync.mark = state.mark /\ state.version = version
          /\ state.mark # None /\ state.mark \in Nat /\ ~ tree_change
    BY <2>1, <1>1, <1>2, Types DEF SyncShape, NextFull, cache_version_mismatch
  <2>3. ASSUME NEW p \in alive, OwnStale(p)'
        PROVE  cache'[p] # Current(p)' /\ (p \in missed' \/ upd[p] >= state'.mark)
    <3>1. p \in Objects /\ upd'[p] = upd[p] /\ upd[p] \in Nat
      BY <1>1, <1>2, Types
    <3>2. cache'[p] # Current(p)'
      BY <2>3, <3>1, <1>6, StaleWhenNext DEF OwnStale
    <3>3. cache'[p] = None \/ cache'[p].at # upd[p]
      BY <2>3, <3>1 DEF OwnStale
    <3>4. ASSUME ~ sync.full, got[p] = None
          PROVE  p \in missed' \/ upd[p] >= sync.mark
      <4>1. OwnStale(p)
        BY <3>1, <3>3, <3>4, <1>5 DEF OwnStale
      <4>2. p \in missed \/ upd[p] >= state.mark
        BY <4>1, <3>4, <2>2, <1>1 DEF Owed
      <4> QED  BY <4>2, <3>1, <3>2, <3>4, <2>2, <1>3
    <3>5. CASE p \in sync.blank
      <4>1. got[p] = None
        BY <3>5, <1>1 DEF SyncShape
      <4>2. CASE sync.full \/ Seen # {}
        BY <4>2, <3>1, <3>2, <3>5, <1>3
      <4>3. CASE ~ sync.full /\ Seen = {}
        BY <4>1, <4>3, <3>1, <3>2, <3>4, <1>4
      <4> QED  BY <4>2, <4>3
    <3>6. CASE p \notin sync.blank
      <4>1. \/ p \in mid \/ got[p] = upd[p] \/ Later(p)
            \/ ~ sync.full /\ got[p] = None /\ upd[p] < sync.mark
        BY <3>6, <1>1, <1>2 DEF AnswersHold, HasList
      <4>2. CASE p \in mid
        BY <4>2, <3>1, <3>2, <1>3
      <4>3. got[p] # upd[p]
        BY <3>1, <3>3, <1>5, <1>1, Types
      <4>4. CASE Later(p)
        BY <4>4, <3>1, <3>2, <1>4
      <4>5. CASE ~ sync.full /\ got[p] = None /\ upd[p] < sync.mark
        <5>1. p \in missed' \/ upd[p] >= sync.mark
          BY <4>5, <3>4
        <5>2. ~ (upd[p] >= sync.mark)
          BY <4>5, <3>1, <2>2
        <5> QED  BY <5>1, <5>2, <3>2
      <4> QED  BY <4>1, <4>2, <4>3, <4>4, <4>5
    <3> QED  BY <3>5, <3>6
  <2>4. ASSUME NEW o \in alive, RootStale(o)'
        PROVE  o \in missed' \/ (OwnStale(Root)' /\ Root \in alive)
    <3>1. /\ o \in Objects /\ Root \in Objects /\ o \in Under /\ Root \notin Under
          /\ Root \in alive
      BY <2>4, <1>1, Types DEF RootStale, NothingLater
    <3>2. cache'[o] # None /\ cache'[o].at = upd[o] /\ cache'[o].root # upd[Root]
      BY <2>4, <1>2 DEF RootStale
    <3>6. cache'[o] # Current(o)'
      BY <3>1, <3>2, <1>2, <1>6, StaleWhenNext
    <3>7. CASE ~ sync.tree
      BY <3>1, <3>6, <3>7, <1>3
    <3>3. SUFFICES ASSUME cache'[Root] # None, cache'[Root].at = upd[Root],
                          sync.tree, o \notin missed'
                   PROVE  FALSE
      BY <3>1, <3>7, <1>2 DEF OwnStale
    <3>4. CASE got[o] # None
      <4>1. cache'[o].root = RootAt
        BY <3>1, <3>4, <1>5
      <4>2. RootAt = cache'[Root].at
        BY <3>1, <3>3, <1>5 DEF RootAt
      <4> QED  BY <4>1, <4>2, <3>2, <3>3
    <3>5. CASE got[o] = None
      <4>1. ~ sync.full /\ cache'[o] = cache[o] /\ cache[o] # None
        BY <3>1, <3>2, <3>5, <1>5
      <4>2. RootStale(o)
        BY <4>1, <3>1, <3>2 DEF RootStale
      <4>3. cache[Root] # Current(Root)
        <5>1. o \notin missed
          BY <3>1, <3>3, <3>6, <1>3
        <5> QED  BY <5>1, <4>1, <4>2, <2>2, <1>1 DEF Owed, MissedStale
      <4>4. cache[Root] # None
        BY <4>1, <3>1, <3>3, <1>2, <1>5 DEF RootNotStored, Seen
      <4>5. cache[Root].at = upd[Root]
        <5>1. CASE got[Root] = None
          BY <5>1, <4>1, <3>1, <3>3, <1>5
        <5>2. CASE got[Root] # None
          BY <5>2, <4>1, <4>4, <3>1, <3>3, <2>2, <1>5 DEF tree_change, Seen
        <5> QED  BY <5>1, <5>2
      <4>6. cache[Root].root = 0 /\ cache[Root].version = version
        BY <4>1, <4>4, <3>1, <2>2, <1>1 DEF NothingLater, RowsOfVersion
      <4> QED  BY <4>3, <4>4, <4>5, <4>6, <3>1, <1>1, StaleWhen
    <3> QED  BY <3>4, <3>5
  <2>5. alive' = alive /\ upd' = upd
    BY <1>2
  <2> QED  BY <2>3, <2>4, <2>5
<1> QED  BY <1>6, <1>7, <1>8, <1>9, <1>10, <1>11 DEF SyncInv

(* Every step keeps the invariant.                                         *)
LEMMA StepKeeps == ASSUME SyncInv, [Next]_vars PROVE SyncInv'
<1>0. reconcile \in BOOLEAN /\ due \in BOOLEAN
  BY DEF SyncInv, TypeOK
<1>1. CASE \E o \in Objects : Edit(o) \/ Delete(o)
  BY <1>1, EditKeeps, DeleteKeeps
<1>2. CASE FallDue
  BY <1>2, <1>0, TimeKeeps DEF FallDue, remote, local
<1>3. CASE ReconcileFallsDue
  BY <1>3, <1>0, TimeKeeps DEF ReconcileFallsDue, remote, local
<1>4. CASE SettingsChange
  BY <1>4, SettingsKeep
<1>5. CASE Scheduled \/ Forced
  BY <1>5, StartKeeps DEF Scheduled, Forced
<1>6. CASE FetchLocations \/ FetchDevices
  BY <1>6, FetchLocationsKeeps, FetchDevicesKeeps
<1>7. CASE Error
  BY <1>7, EndKeeps DEF Error
<1>8. CASE Crash
  BY <1>8, EndKeeps DEF Crash
<1>9. CASE \E stack \in BOOLEAN : Commit(stack)
  BY <1>9, CommitKeeps
<1>10. CASE UNCHANGED vars
  BY <1>10, <1>0, TimeKeeps DEF vars, remote, store, local
<1> QED
  BY <1>1, <1>2, <1>3, <1>4, <1>5, <1>6, <1>7, <1>8, <1>9, <1>10 DEF Next, Step
-----------------------------------------------------------------------------
(* The invariant implies that what the copy lacks comes with the next sync. *)
LEMMA OwedNotSkipped == SyncInv => NotSkipped
<1> SUFFICES ASSUME SyncInv, NEW o \in alive, cache[o] # Current(o), ~ NextFull
             PROVE  \E p \in {o} \cup (IF o \in Under THEN {Root} ELSE {}) :
                      p \in missed \/ (cache[p] # Current(p) /\ upd[p] >= state.mark)
  BY DEF NotSkipped
<1>1. TypeOK /\ NothingLater /\ RowsOfVersion /\ Owed
  BY DEF SyncInv
<1>2. o \in Objects /\ state.version = version
  BY <1>1, Types DEF NextFull, cache_version_mismatch
<1>3. OwnStale(o) \/ RootStale(o)
  BY <1>1, <1>2, StaleWhen DEF OwnStale, RootStale, NothingLater, RowsOfVersion
<1>4. CASE OwnStale(o)
  BY <1>1, <1>4 DEF Owed
<1>5. CASE RootStale(o)
  <2>1. o \in Under
    BY <1>5 DEF RootStale
  <2> QED  BY <2>1, <1>1, <1>5 DEF Owed
<1> QED  BY <1>3, <1>4, <1>5

(* Only a completed sync changes the copy, and what it drops is gone, or in
   the one list that came empty. *)
LEMMA StepDrops ==
    ASSUME SyncInv, [Next]_vars, NEW o \in Objects, cache[o] # None, cache'[o] = None
    PROVE  o \notin alive \/ (o \in sync.blank /\ sync.blank # Objects)
<1>1. cache' # cache
  OBVIOUS
<1>2. PICK stack \in BOOLEAN : Commit(stack)
  BY <1>1 DEF Next, Step, Edit, Delete, FallDue, ReconcileFallsDue, SettingsChange,
              Scheduled, Forced, Start, FetchLocations, FetchDevices, Error, Failed, Crash,
              vars, store
<1>3. SyncShape /\ AnswersHold
  BY DEF SyncInv
<1>4. pc = "write" /\ cache' = Rewritten /\ ~ EmptyDataset
  BY <1>2, CommitFacts
<1>5. got[o] = None /\ sync.full
  BY <1>4, RewrittenRows
<1>6. Seen # {}
  BY <1>4, <1>5 DEF EmptyDataset
<1>7. sync.blank # Objects
  BY <1>3, <1>6 DEF SyncShape, Seen
<1> QED  BY <1>3, <1>4, <1>5, <1>7 DEF AnswersHold, HasList
-----------------------------------------------------------------------------
(* Every reachable state satisfies the invariant.                          *)
LEMMA InvHolds == Spec => []SyncInv
<1>1. SyncInv /\ [Next]_vars => SyncInv'
  BY StepKeeps
<1> QED  BY InitInv, <1>1, PTL DEF Spec

(* Whatever is edited while a sync runs, whichever syncs fail, die or get
   empty answers, and however settings and watermarks change, an object that
   the copy lacks, or has otherwise than Nautobot, is in the answers of the
   next sync that completes, but for the exceptions that NotSkipped names. *)
THEOREM NextSyncBrings == Spec => []NotSkipped
BY InvHolds, OwedNotSkipped, PTL

(* A sync never drops an object that Nautobot has, but for what was in a
   list that came empty beside one that did not. *)
THEOREM DropsOnlyDeleted == Spec => LiveKept
<1>1. SyncInv /\ [Next]_vars =>
        [\A o \in Objects : cache[o] # None /\ cache'[o] = None =>
           o \notin alive \/ (o \in sync.blank /\ sync.blank # Objects)]_vars
  BY StepDrops
<1> QED  BY <1>1, InvHolds, PTL DEF Spec, LiveKept
=============================================================================
