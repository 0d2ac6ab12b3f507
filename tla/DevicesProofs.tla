---------------------------- MODULE DevicesProofs ----------------------------
(***************************************************************************)
(* Proofs about LibreNMSStatus, for any number of devices, pushes, changes *)
(* and faults: no answer overwrites one to a later request, and a device   *)
(* LibreNMS has is not dropped.  And about DeviceStates and WebhookAlerts, *)
(* for any times and settings: since when a device is down, when it        *)
(* alarms, how long it flaps, and that the map counts it as the board.     *)
(***************************************************************************)
EXTENDS DeviceStates, LibreNMSStatus, SequenceTheorems, WellFoundedInduction, TLAPS

Row0 == [seq : Nat, at : Nat]
Times == [Devices -> Nat]

TypeOK ==
    /\ changes \in Nat /\ at \in Times /\ there \subseteq Devices
    /\ base \in Seq(Times)
    /\ status \in [Devices -> Row0 \cup {None}] /\ done \in Times
    /\ pc \in [Requests -> {"idle", "asking", "answered"}]
    /\ obs \in [Requests -> Nat]
    /\ target \in [Requests -> SUBSET Devices] /\ found \in [Requests -> SUBSET Devices]
    /\ answer \in [Requests -> Times]

(* Numbers are taken in the order of time: what a later one saw is no older. *)
NumbersInOrder ==
    /\ \A d \in Devices : at[d] <= changes
    /\ \A i \in 1 .. Len(base), d \in Devices : base[i][d] <= at[d]
    /\ \A i, j \in 1 .. Len(base), d \in Devices : i <= j => base[i][d] <= base[j][d]

(* A request has the number it took, and an answer is of a later moment; what
   a sync does not find is gone, or was at some time since its number. *)
AnswersAfter ==
    /\ \A r \in Requests : pc[r] # "idle" => obs[r] \in 1 .. Len(base)
    /\ \A r \in Requests : pc[r] = "answered" =>
         \A d \in found[r] : base[obs[r]][d] <= answer[r][d]
    /\ pc[Sync] # "idle" => target[Sync] = Devices
    /\ pc[Sync] = "answered" /\ found[Sync] # {} =>
         \A d \in Devices \ found[Sync] : d \notin there \/ at[d] > base[obs[Sync]][d]

(* A row is of the highest number whose answer was used, or of a later one,
   and no older than the device was at its number; a sync under way is after
   the one that deleted a row. *)
RowsCurrent ==
    \A d \in Devices :
        /\ done[d] <= Len(base)
        /\ status[d] # None =>
             /\ done[d] <= status[d].seq /\ status[d].seq <= Len(base)
             /\ status[d].seq > 0 => status[d].at >= base[status[d].seq][d]
        /\ status[d] = None /\ pc[Sync] # "idle" => done[d] < obs[Sync]

StatusInv == TypeOK /\ NumbersInOrder /\ AnswersAfter /\ RowsCurrent
-----------------------------------------------------------------------------
(* Initially no number is taken.                                           *)
LEMMA InitInv == StatusInit => StatusInv
<1> SUFFICES ASSUME StatusInit PROVE StatusInv
  OBVIOUS
<1>1. base \in Seq(Times) /\ Len(base) = 0
  BY EmptySeq DEF StatusInit
<1>2. TypeOK
  BY <1>1 DEF StatusInit, TypeOK, Times, Row0
<1>3. NumbersInOrder /\ AnswersAfter
  BY <1>1 DEF StatusInit, NumbersInOrder, AnswersAfter, Requests
<1>4. RowsCurrent
  <2>1. \A d \in Devices : status[d] # None => status[d].seq = 0
    BY DEF StatusInit
  <2>2. \A d \in Devices : done[d] = 0
    BY DEF StatusInit
  <2>3. pc[Sync] = "idle"
    BY DEF StatusInit, Requests
  <2>4. ASSUME NEW d \in Devices
        PROVE  /\ done[d] <= Len(base)
               /\ status[d] # None =>
                    /\ done[d] <= status[d].seq /\ status[d].seq <= Len(base)
                    /\ ~ (status[d].seq > 0)
    BY <1>1, <2>1, <2>2
  <2> QED  BY <2>3, <2>4, Zenon DEF RowsCurrent
<1> QED  BY <1>2, <1>3, <1>4 DEF StatusInv

(* The types, one by one.                                                  *)
LEMMA Types ==
    ASSUME StatusInv
    PROVE  /\ changes \in Nat /\ at \in [Devices -> Nat] /\ there \subseteq Devices
           /\ base \in Seq(Times) /\ Len(base) \in Nat
           /\ \A i \in 1 .. Len(base) : base[i] \in [Devices -> Nat]
           /\ status \in [Devices -> Row0 \cup {None}] /\ done \in [Devices -> Nat]
           /\ \A d \in Devices : status[d] # None =>
                /\ status[d] \in Row0 /\ status[d].seq \in Nat /\ status[d].at \in Nat
           /\ pc \in [Requests -> {"idle", "asking", "answered"}]
           /\ obs \in [Requests -> Nat]
           /\ target \in [Requests -> SUBSET Devices]
           /\ found \in [Requests -> SUBSET Devices]
           /\ answer \in [Requests -> Times]
           /\ \A r \in Requests : answer[r] \in [Devices -> Nat]
           /\ Sync \in Requests /\ Pushes \subseteq Requests
<1>1. TypeOK
  BY DEF StatusInv
<1>2. Len(base) \in Nat /\ \A i \in 1 .. Len(base) : base[i] \in Times
  BY <1>1, LenProperties, ElementOfSeq DEF TypeOK
<1>3. \A d \in Devices : status[d] # None =>
        /\ status[d] \in Row0 /\ status[d].seq \in Nat /\ status[d].at \in Nat
  BY <1>1 DEF TypeOK, Row0
<1> QED  BY <1>1, <1>2, <1>3 DEF TypeOK, Times, Requests

(* A change is later than all that was taken or answered.                  *)
LEMMA ChangeKeeps ==
    ASSUME StatusInv, NEW d \in Devices, Change(d)
    PROVE  StatusInv'
<1>1. /\ changes' = changes + 1 /\ at' = [at EXCEPT ![d] = changes + 1]
      /\ there' = there \cup {d} \/ there' = there \ {d}
      /\ UNCHANGED <<base, status, done, pc, obs, target, found, answer>>
  BY DEF Change, local
<1>2. \A e \in Devices : at[e] <= at'[e] /\ at'[e] \in Nat /\ at'[e] <= changes'
                         /\ (e # d => at'[e] = at[e]) /\ at[e] \in Nat
  BY <1>1, Types DEF StatusInv, NumbersInOrder
<1>3. TypeOK'
  BY <1>1, Types DEF StatusInv, TypeOK, Times
<1>4. NumbersInOrder'
  BY <1>1, <1>2, Types DEF StatusInv, NumbersInOrder
<1>5. AnswersAfter'
  <2>1. ASSUME pc[Sync] = "answered", found[Sync] # {}, NEW e \in Devices \ found[Sync]
        PROVE  e \notin there' \/ at'[e] > base[obs[Sync]][e]
    <3>1. obs[Sync] \in 1 .. Len(base)
      BY <2>1, Types DEF StatusInv, AnswersAfter
    <3>2. base[obs[Sync]][e] <= at[e] /\ base[obs[Sync]][e] \in Nat /\ at[e] <= changes
      BY <2>1, <3>1, Types DEF StatusInv, NumbersInOrder
    <3>3. CASE e = d
      BY <1>1, <2>1, <3>2, <3>3, Types
    <3>4. CASE e # d
      BY <1>1, <1>2, <2>1, <3>4 DEF StatusInv, AnswersAfter
    <3> QED  BY <3>3, <3>4
  <2> QED  BY <1>1, <2>1 DEF StatusInv, AnswersAfter
<1>6. RowsCurrent'
  BY <1>1 DEF StatusInv, RowsCurrent
<1> QED  BY <1>3, <1>4, <1>5, <1>6 DEF StatusInv

(* A new number sees every device as it is.                                *)
LEMMA AskKeeps ==
    ASSUME StatusInv, NEW r \in Requests, NEW ds \in SUBSET Devices, Ask(r, ds),
           r = Sync => ds = Devices
    PROVE  StatusInv'
<1>1. /\ pc[r] = "idle" /\ base' = Append(base, at) /\ pc' = [pc EXCEPT ![r] = "asking"]
      /\ obs' = [obs EXCEPT ![r] = Len(base) + 1] /\ target' = [target EXCEPT ![r] = ds]
      /\ UNCHANGED <<changes, there, at, status, done, found, answer>>
  BY DEF Ask, remote
<1>2. /\ base' \in Seq(Times) /\ Len(base') = Len(base) + 1
      /\ \A i \in 1 .. Len(base) : base'[i] = base[i]
      /\ base'[Len(base) + 1] = at
  BY <1>1, Types, AppendProperties DEF Times
<1>3. \A i \in 1 .. Len(base') : i \in 1 .. Len(base) \/ i = Len(base) + 1
  BY <1>2, Types
<1>4. TypeOK'
  <2>1. pc' \in [Requests -> {"idle", "asking", "answered"}] /\ obs' \in [Requests -> Nat]
    BY <1>1, Types
  <2>2. target' \in [Requests -> SUBSET Devices]
    BY <1>1, Types
  <2>3. /\ changes \in Nat /\ at \in Times /\ there \subseteq Devices
        /\ status \in [Devices -> Row0 \cup {None}] /\ done \in Times
        /\ found \in [Requests -> SUBSET Devices] /\ answer \in [Requests -> Times]
    BY DEF StatusInv, TypeOK
  <2>4. UNCHANGED <<changes, there, at, status, done, found, answer>> /\ base' \in Seq(Times)
    BY <1>1, <1>2
  <2> QED
    BY <2>1, <2>2, <2>3, <2>4, Zenon DEF TypeOK
<1>5. NumbersInOrder'
  <2>1. ASSUME NEW i \in 1 .. Len(base'), NEW d \in Devices
        PROVE  base'[i][d] <= at[d]
    <3>1. CASE i = Len(base) + 1
      BY <1>2, <3>1, Types
    <3>2. CASE i \in 1 .. Len(base)
      <4>1. base[i][d] <= at[d]
        BY <3>2 DEF StatusInv, NumbersInOrder
      <4> QED
        BY <1>2, <3>2, <4>1
    <3> QED
      BY <1>3, <3>1, <3>2
  <2>2. ASSUME NEW i \in 1 .. Len(base'), NEW j \in 1 .. Len(base'), NEW d \in Devices, i <= j
        PROVE  base'[i][d] <= base'[j][d]
    <3>1. CASE j = Len(base) + 1
      BY <1>2, <2>1, <3>1
    <3>2. CASE j \in 1 .. Len(base)
      <4>1. i \in 1 .. Len(base)
        BY <2>2, <3>2, Types
      <4> QED  BY <1>2, <2>2, <3>2, <4>1 DEF StatusInv, NumbersInOrder
    <3> QED  BY <1>3, <3>1, <3>2
  <2> QED  BY <1>1, <2>1, <2>2 DEF StatusInv, NumbersInOrder
<1>6. AnswersAfter'
  <2>1. ASSUME NEW q \in Requests, pc'[q] # "idle"
        PROVE  obs'[q] \in 1 .. Len(base')
    <3>1. CASE q = r
      BY <1>1, <1>2, <3>1, Types
    <3>2. CASE q # r
      BY <1>1, <1>2, <2>1, <3>2, Types DEF StatusInv, AnswersAfter
    <3> QED  BY <3>1, <3>2
  <2>2. ASSUME NEW q \in Requests, pc'[q] = "answered"
        PROVE  /\ q # r /\ pc[q] = "answered" /\ obs'[q] = obs[q]
               /\ base'[obs'[q]] = base[obs[q]]
    <3>1. q # r /\ pc[q] = "answered" /\ obs'[q] = obs[q]
      BY <1>1, <2>2, Types
    <3>2. obs[q] \in 1 .. Len(base)
      BY <3>1 DEF StatusInv, AnswersAfter
    <3> QED  BY <1>2, <3>1, <3>2
  <2>3. pc'[Sync] # "idle" => target'[Sync] = Devices
    BY <1>1, Types DEF StatusInv, AnswersAfter
  <2>4. \A q \in Requests : pc'[q] = "answered" =>
          \A d \in found'[q] : base'[obs'[q]][d] <= answer'[q][d]
    BY <1>1, <2>2 DEF StatusInv, AnswersAfter
  <2>5. pc'[Sync] = "answered" /\ found'[Sync] # {} =>
          \A d \in Devices \ found'[Sync] : d \notin there' \/ at'[d] > base'[obs'[Sync]][d]
    BY <1>1, <2>2, Types DEF StatusInv, AnswersAfter
  <2> QED  BY <2>1, <2>3, <2>4, <2>5 DEF AnswersAfter
<1>7. RowsCurrent'
  <2> SUFFICES ASSUME NEW d \in Devices
               PROVE  /\ done[d] <= Len(base')
                      /\ status[d] # None =>
                           /\ done[d] <= status[d].seq /\ status[d].seq <= Len(base')
                           /\ status[d].seq > 0 => status[d].at >= base'[status[d].seq][d]
                      /\ status[d] = None /\ pc'[Sync] # "idle" => done[d] < obs'[Sync]
    BY <1>1 DEF RowsCurrent
  <2>1. done[d] <= Len(base) /\ done[d] \in Nat /\ Len(base) \in Nat
    BY Types DEF StatusInv, RowsCurrent
  <2>2. ASSUME status[d] # None
        PROVE  /\ done[d] <= status[d].seq /\ status[d].seq <= Len(base')
               /\ status[d].seq > 0 => status[d].at >= base'[status[d].seq][d]
    <3>1. /\ done[d] <= status[d].seq /\ status[d].seq <= Len(base) /\ status[d].seq \in Nat
          /\ status[d].seq > 0 => status[d].at >= base[status[d].seq][d]
      BY <2>2, Types DEF StatusInv, RowsCurrent
    <3> QED  BY <1>2, <2>1, <3>1
  <2>3. ASSUME status[d] = None, pc'[Sync] # "idle"
        PROVE  done[d] < obs'[Sync]
    <3>1. CASE r = Sync
      BY <1>1, <2>1, <3>1, Types
    <3>2. CASE r # Sync
      BY <1>1, <2>3, <3>2, Types DEF StatusInv, RowsCurrent
    <3> QED  BY <3>1, <3>2
  <2> QED  BY <1>2, <2>1, <2>2, <2>3
<1> QED  BY <1>4, <1>5, <1>6, <1>7 DEF StatusInv

(* An answer is of a moment after its number.                              *)
LEMMA AnswerKeeps ==
    ASSUME StatusInv, NEW r \in Requests, Answer(r)
    PROVE  StatusInv'
<1>1. /\ pc[r] = "asking" /\ pc' = [pc EXCEPT ![r] = "answered"]
      /\ \E ds \in {target[r] \cap there, {}} : found' = [found EXCEPT ![r] = ds]
      /\ answer' = [answer EXCEPT ![r] = [d \in Devices |-> IF d \in found'[r] THEN at[d] ELSE 0]]
      /\ UNCHANGED <<changes, there, at, base, status, done, obs, target>>
  BY DEF Answer, remote
<1>2. PICK ds \in {target[r] \cap there, {}} : found' = [found EXCEPT ![r] = ds]
  BY <1>1
<1>3. ds \subseteq Devices /\ found'[r] = ds
  BY <1>2, Types
<1>4. [d \in Devices |-> IF d \in found'[r] THEN at[d] ELSE 0] \in Times
  BY Types DEF Times
<1>5. TypeOK'
  BY <1>1, <1>2, <1>3, <1>4, Types DEF StatusInv, TypeOK
<1>6. NumbersInOrder'
  BY <1>1 DEF StatusInv, NumbersInOrder
<1>7. AnswersAfter'
  <2>0. obs[r] \in 1 .. Len(base) /\ (r = Sync => target[r] = Devices)
    BY <1>1 DEF StatusInv, AnswersAfter
  <2>1. ASSUME NEW q \in Requests, pc'[q] = "answered", NEW d \in found'[q]
        PROVE  base[obs[q]][d] <= answer'[q][d]
    <3>1. CASE q = r
      <4>1. answer'[r][d] = at[d] /\ d \in Devices
        BY <1>1, <1>3, <2>1, <3>1, Types
      <4> QED  BY <2>0, <3>1, <4>1 DEF StatusInv, NumbersInOrder
    <3>2. CASE q # r
      BY <1>1, <1>2, <2>1, <3>2, Types DEF StatusInv, AnswersAfter
    <3> QED  BY <3>1, <3>2
  <2>2. ASSUME pc'[Sync] = "answered", found'[Sync] # {}, NEW d \in Devices \ found'[Sync]
        PROVE  d \notin there \/ at[d] > base[obs[Sync]][d]
    <3>1. CASE r = Sync
      BY <1>2, <1>3, <2>0, <2>2, <3>1
    <3>2. CASE r # Sync
      BY <1>1, <1>2, <2>2, <3>2, Types DEF StatusInv, AnswersAfter
    <3> QED  BY <3>1, <3>2
  <2>3. \A q \in Requests : pc'[q] # "idle" => pc[q] # "idle"
    BY <1>1, Types
  <2> QED  BY <1>1, <2>1, <2>2, <2>3, Types DEF StatusInv, AnswersAfter
<1>8. RowsCurrent'
  <2>1. pc'[Sync] # "idle" => pc[Sync] # "idle"
    BY <1>1, Types
  <2> QED  BY <1>1, <2>1 DEF StatusInv, RowsCurrent
<1> QED  BY <1>5, <1>6, <1>7, <1>8 DEF StatusInv

(* A request that is over leaves the rows and what was used as given.      *)
LEMMA OverKeeps ==
    ASSUME StatusInv, NEW r \in Requests, Over(r), UNCHANGED <<remote, base>>,
           status' \in [Devices -> Row0 \cup {None}], done' \in [Devices -> Nat],
           \A d \in Devices :
               /\ done'[d] <= Len(base)
               /\ status'[d] # None =>
                    /\ done'[d] <= status'[d].seq /\ status'[d].seq <= Len(base)
                    /\ status'[d].seq > 0 => status'[d].at >= base[status'[d].seq][d]
               /\ status'[d] = None /\ pc'[Sync] # "idle" => done'[d] < obs[Sync]
    PROVE  StatusInv'
<1>1. /\ pc' = [pc EXCEPT ![r] = "idle"] /\ obs' = [obs EXCEPT ![r] = 0]
      /\ target' = [target EXCEPT ![r] = {}] /\ found' = [found EXCEPT ![r] = {}]
      /\ answer' = [answer EXCEPT ![r] = [d \in Devices |-> 0]]
      /\ UNCHANGED <<changes, there, at, base>>
  BY DEF Over, remote
<1>2. TypeOK'
  BY <1>1, Types DEF StatusInv, TypeOK, Times
<1>3. NumbersInOrder'
  BY <1>1 DEF StatusInv, NumbersInOrder
<1>4. \A q \in Requests : pc'[q] # "idle" =>
        /\ q # r /\ pc'[q] = pc[q] /\ obs'[q] = obs[q] /\ target'[q] = target[q]
        /\ found'[q] = found[q] /\ answer'[q] = answer[q]
  BY <1>1, Types
<1>5. AnswersAfter'
  BY <1>1, <1>4, Types DEF StatusInv, AnswersAfter
<1>6. RowsCurrent'
  BY <1>1, <1>4, Types DEF RowsCurrent
<1> QED  BY <1>2, <1>3, <1>5, <1>6 DEF StatusInv

(* A request that fails leaves the rows.                                   *)
LEMMA FailKeeps ==
    ASSUME StatusInv, NEW r \in Requests, Fail(r)
    PROVE  StatusInv'
<1>1. Over(r) /\ UNCHANGED <<remote, base, status, done>>
  BY DEF Fail
<1>2. pc'[Sync] # "idle" => pc[Sync] # "idle"
  BY <1>1, Types DEF Over
<1> QED  BY <1>1, <1>2, Types, OverKeeps DEF StatusInv, RowsCurrent

(* What Done leaves.                                                       *)
LEMMA DoneIs ==
    ASSUME StatusInv, NEW r \in Requests, NEW ds, Done(r, ds)
    PROVE  /\ done' \in [Devices -> Nat]
           /\ \A d \in Devices :
                done'[d] = IF d \in ds /\ obs[r] > done[d] THEN obs[r] ELSE done[d]
  BY Types DEF Done

(* What is written is of the request's number and moment.                  *)
LEMMA RowIs ==
    ASSUME StatusInv, NEW r \in Requests, pc[r] = "answered", NEW d \in found[r]
    PROVE  /\ d \in Devices /\ Row(r, d) \in Row0 /\ Row(r, d).seq = obs[r]
           /\ obs[r] \in 1 .. Len(base)
           /\ Row(r, d).at >= base[obs[r]][d]
<1>1. d \in Devices /\ answer[r][d] \in Nat /\ obs[r] \in Nat
  BY Types
<1>2. obs[r] \in 1 .. Len(base) /\ base[obs[r]][d] <= answer[r][d]
  BY DEF StatusInv, AnswersAfter
<1>3. base[obs[r]][d] \in Nat
  BY <1>1, <1>2, Types
<1> QED  BY <1>1, <1>2, <1>3 DEF Row, Row0

(* A push replaces rows of lower numbers by newer ones.                    *)
LEMMA StorePushKeeps ==
    ASSUME StatusInv, NEW r \in Pushes, StorePush(r)
    PROVE  StatusInv'
<1>1. /\ pc[r] = "answered" /\ Over(r) /\ UNCHANGED <<remote, base>>
      /\ status' = [d \in Devices |-> IF Replaced(r, d) THEN Row(r, d) ELSE status[d]]
      /\ Done(r, {d \in found[r] : status[d] # None})
  BY DEF StorePush
<1>2. r \in Requests /\ r # Sync /\ found[r] \subseteq Devices /\ obs[r] \in Nat
  BY StatusAssumption, Types
<1>3. status' \in [Devices -> Row0 \cup {None}]
  <2>1. \A d \in Devices : Replaced(r, d) => Row(r, d) \in Row0
    BY <1>1, <1>2, RowIs DEF Replaced
  <2> QED  BY <1>1, <2>1, Types
<1>4. /\ done' \in [Devices -> Nat]
      /\ \A d \in Devices :
           done'[d] = IF d \in found[r] /\ status[d] # None /\ obs[r] > done[d]
                      THEN obs[r] ELSE done[d]
  BY <1>1, <1>2, DoneIs
<1>5. ASSUME NEW d \in Devices
      PROVE  /\ done'[d] <= Len(base)
             /\ status'[d] # None =>
                  /\ done'[d] <= status'[d].seq /\ status'[d].seq <= Len(base)
                  /\ status'[d].seq > 0 => status'[d].at >= base[status'[d].seq][d]
             /\ status'[d] = None /\ pc'[Sync] # "idle" => done'[d] < obs[Sync]
  <2>0. /\ obs[r] \in 1 .. Len(base) /\ done[d] \in Nat /\ Len(base) \in Nat
        /\ done[d] <= Len(base)
        /\ status[d] # None =>
             /\ done[d] <= status[d].seq /\ status[d].seq <= Len(base) /\ status[d].seq \in Nat
             /\ status[d].seq > 0 => status[d].at >= base[status[d].seq][d]
        /\ status[d] = None /\ pc[Sync] # "idle" => done[d] < obs[Sync]
    BY <1>1, <1>2, Types DEF StatusInv, AnswersAfter, RowsCurrent
  <2>1. CASE Replaced(r, d)
    <3>1. status'[d] = Row(r, d) /\ d \in found[r] /\ status[d] # None /\ status[d].seq < obs[r]
      BY <1>1, <2>1 DEF Replaced, Newer
    <3>2. Row(r, d) \in Row0 /\ Row(r, d).seq = obs[r] /\ Row(r, d).at >= base[obs[r]][d]
      BY <1>1, <1>2, <3>1, RowIs
    <3>3. done'[d] = obs[r] \/ done'[d] = done[d]
      BY <1>4
    <3>4. status'[d] # None
      BY <3>1, <3>2, StatusAssumption DEF Row0
    <3> QED  BY <2>0, <3>1, <3>2, <3>3, <3>4
  <2>2. CASE ~ Replaced(r, d)
    <3>1. status'[d] = status[d] /\ (d \in found[r] /\ status[d] # None => obs[r] <= status[d].seq)
      BY <1>1, <1>2, <2>0, <2>2 DEF Replaced, Newer
    <3>2. pc'[Sync] = pc[Sync]
      BY <1>1, <1>2, Types DEF Over
    <3> QED  BY <1>4, <2>0, <3>1, <3>2
  <2> QED  BY <2>1, <2>2
<1> QED  BY <1>1, <1>2, <1>3, <1>4, <1>5, OverKeeps

(* So does a sync, which also deletes them.                                *)
LEMMA StoreSyncKeeps ==
    ASSUME StatusInv, StoreSync
    PROVE  StatusInv'
<1>1. pc[Sync] = "answered" /\ Over(Sync) /\ UNCHANGED <<remote, base>> /\ Sync \in Requests
  BY Types DEF StoreSync
<1>2. pc'[Sync] = "idle"
  BY <1>1, Types DEF Over
<1>3. CASE UNCHANGED <<status, done>>
  BY <1>1, <1>2, <1>3, Types, OverKeeps DEF StatusInv, RowsCurrent
<1>4. CASE status' = [d \in Devices |-> Synced(Sync, d)] /\ Done(Sync, Devices)
  <2>1. ASSUME NEW d \in Devices
        PROVE  /\ status'[d] \in Row0 \cup {None}
               /\ done'[d] <= Len(base)
               /\ status'[d] # None =>
                    /\ done'[d] <= status'[d].seq /\ status'[d].seq <= Len(base)
                    /\ status'[d].seq > 0 => status'[d].at >= base[status'[d].seq][d]
    <3>0. /\ obs[Sync] \in 1 .. Len(base) /\ done[d] \in Nat /\ Len(base) \in Nat
          /\ done[d] <= Len(base)
          /\ status[d] # None =>
               /\ done[d] <= status[d].seq /\ status[d].seq <= Len(base) /\ status[d].seq \in Nat
               /\ status[d].seq > 0 => status[d].at >= base[status[d].seq][d]
          /\ status[d] = None => done[d] < obs[Sync]
          /\ status[d] \in Row0 \cup {None}
      BY <1>1, Types DEF StatusInv, AnswersAfter, RowsCurrent
    <3>1. done'[d] = IF obs[Sync] > done[d] THEN obs[Sync] ELSE done[d]
      BY <1>1, <1>4, DoneIs
    <3>2. CASE status[d] # None /\ ~ Newer(d, obs[Sync])
      <4>1. status'[d] = status[d] /\ obs[Sync] <= status[d].seq
        BY <1>4, <3>0, <3>2 DEF Synced, Newer
      <4> QED  BY <3>0, <3>1, <3>2, <4>1
    <3>3. CASE ~ (status[d] # None /\ ~ Newer(d, obs[Sync])) /\ d \in found[Sync]
      <4>1. status'[d] = Row(Sync, d) /\ done[d] < obs[Sync]
        BY <1>4, <3>0, <3>3 DEF Synced, Newer
      <4>2. /\ Row(Sync, d) \in Row0 /\ Row(Sync, d).seq = obs[Sync]
            /\ Row(Sync, d).at >= base[obs[Sync]][d]
        BY <1>1, <3>3, RowIs
      <4> QED  BY <3>0, <3>1, <4>1, <4>2
    <3>4. CASE ~ (status[d] # None /\ ~ Newer(d, obs[Sync])) /\ d \notin found[Sync]
      BY <1>4, <3>0, <3>1, <3>4 DEF Synced
    <3> QED  BY <3>2, <3>3, <3>4
  <2>2. status' \in [Devices -> Row0 \cup {None}]
    BY <1>4, <2>1
  <2>3. done' \in [Devices -> Nat]
    BY <1>1, <1>4, DoneIs
  <2> QED  BY <1>1, <1>2, <2>1, <2>2, <2>3, OverKeeps
<1> QED  BY <1>3, <1>4 DEF StoreSync

(* Every reachable state satisfies StatusInv.                              *)
LEMMA StatusKept == StatusSpec => []StatusInv
<1>1. ASSUME StatusInv, [StatusNext]_statusVars
      PROVE  StatusInv'
  <2>1. CASE UNCHANGED statusVars
    <3>1. UNCHANGED <<changes, there, at, base, status, done, pc, obs, target, found, answer>>
      BY <2>1 DEF statusVars, remote, local
    <3> QED
      BY <1>1, <3>1 DEF StatusInv, TypeOK, NumbersInOrder, AnswersAfter, RowsCurrent
  <2>2. \A r \in Pushes, d \in Devices : Ask(r, {d}) => StatusInv'
    <3>1. \A r \in Pushes : r \in Requests /\ r # Sync
      BY StatusAssumption DEF Requests
    <3>2. \A d \in Devices : {d} \in SUBSET Devices
      OBVIOUS
    <3> QED  BY <1>1, <3>1, <3>2, AskKeeps
  <2>3. Ask(Sync, Devices) => StatusInv'
    BY <1>1, AskKeeps, Types
  <2> QED
    BY <1>1, <2>1, <2>2, <2>3, ChangeKeeps, AnswerKeeps, FailKeeps, StorePushKeeps,
       StoreSyncKeeps DEF StatusNext
<1>2. StatusInv /\ [StatusNext]_statusVars => StatusInv'
  BY <1>1
<1> QED  BY <1>2, InitInv, PTL DEF StatusSpec

(* Once an answer about a device has been used, its row is no older than the
   device was when that request took its number: a slow sync or push cannot
   overwrite a status from a later request. *)
THEOREM NeverBefore == StatusSpec => []StatusNotBefore
<1>1. ASSUME StatusInv
      PROVE  StatusNotBefore
  <2> SUFFICES ASSUME NEW d \in Devices, status[d] # None, done[d] > 0
               PROVE  status[d].at >= base[done[d]][d]
    BY DEF StatusNotBefore
  <2>1. /\ done[d] <= status[d].seq /\ status[d].seq <= Len(base) /\ status[d].seq \in Nat
        /\ status[d].at \in Nat /\ done[d] \in Nat /\ Len(base) \in Nat
        /\ status[d].seq > 0 => status[d].at >= base[status[d].seq][d]
    BY <1>1, Types DEF StatusInv, RowsCurrent
  <2>2. done[d] \in 1 .. Len(base) /\ status[d].seq \in 1 .. Len(base)
    BY <2>1
  <2>3. base[done[d]][d] <= base[status[d].seq][d]
    BY <1>1, <2>1, <2>2 DEF StatusInv, NumbersInOrder
  <2>4. base[done[d]][d] \in Nat /\ base[status[d].seq][d] \in Nat
    BY <1>1, <2>2, Types
  <2> QED  BY <2>1, <2>2, <2>3, <2>4
<1>2. StatusInv => StatusNotBefore
  BY <1>1
<1> QED  BY <1>2, StatusKept, PTL

(* A row goes only when LibreNMS no longer had its device at some time since
   the sync took its number; never because an answer was empty. *)
THEOREM KnownStay == StatusSpec => KnownKept
<1>1. ASSUME StatusInv, [StatusNext]_statusVars
      PROVE  KeepsKnown
  <2> SUFFICES ASSUME NEW d \in Devices, status[d] # None, status'[d] = None
               PROVE  d \notin there \/ at[d] > base[obs[Sync]][d]
    BY DEF KeepsKnown
  <2>1. ~ UNCHANGED status
    OBVIOUS
  <2>2. ASSUME NEW r \in Pushes, StorePush(r)
        PROVE  FALSE
    <3>1. pc[r] = "answered" /\ r \in Requests /\ status'[d] \in {status[d], Row(r, d)}
          /\ (status'[d] # status[d] => d \in found[r])
      BY <2>2, <1>1, Types DEF StorePush, Replaced
    <3>2. Row(r, d) \in Row0
      BY <1>1, <3>1, RowIs
    <3> QED  BY <3>1, <3>2, StatusAssumption DEF Row0
  <2>3. ASSUME StoreSync
        PROVE  d \notin there \/ at[d] > base[obs[Sync]][d]
    <3>1. pc[Sync] = "answered" /\ ~ EmptyDataset(Sync) /\ status'[d] = Synced(Sync, d)
      BY <2>1, <2>3 DEF StoreSync
    <3>2. found[Sync] # {}
      BY <3>1 DEF EmptyDataset
    <3>3. d \notin found[Sync]
      <4>1. d \in found[Sync] => Row(Sync, d) \in Row0
        BY <1>1, <3>1, RowIs, Types
      <4> QED  BY <3>1, <4>1, StatusAssumption DEF Synced, Row0
    <3> QED  BY <1>1, <3>1, <3>2, <3>3 DEF StatusInv, AnswersAfter
  <2>4. StoreSync \/ \E r \in Pushes : StorePush(r)
    BY <1>1, <2>1 DEF StatusNext, statusVars, Change, Ask, Answer, Fail
  <2> QED  BY <2>2, <2>3, <2>4
<1>2. StatusInv /\ [StatusNext]_statusVars => [KeepsKnown]_statusVars
  BY <1>1
<1> QED  BY <1>2, StatusKept, PTL DEF StatusSpec, KnownKept
-----------------------------------------------------------------------------
(* DeviceStates.  The changes that are recent, and only they, are kept:
   After is a function by recursion on how many of them it has looked at. *)
Keeps(s, time, n, f) ==
    /\ f \in [0 .. n -> Seq(Int)] /\ f[0] = <<>>
    /\ \A i \in 1 .. n : f[i] = IF s[i] > time THEN Append(f[i - 1], s[i]) ELSE f[i - 1]

(* A property of numbers up to n that 0 has, and every next one, all have.  *)
LEMMA UpTo ==
    ASSUME NEW n \in Nat, NEW S, 0 \in S, \A i \in 1 .. n : i - 1 \in S => i \in S
    PROVE  0 .. n \subseteq S
<1> SUFFICES ASSUME (0 .. n) \ S # {} PROVE FALSE
  OBVIOUS
<1>1. (0 .. n) \ S \in SUBSET Nat
  OBVIOUS
<1>2. PICK m \in (0 .. n) \ S : \A k \in (0 .. n) \ S : ~ (<<k, m>> \in OpToRel(<, Nat))
  BY <1>1, NatLessThanWellFounded, WFMin, Zenon
<1>3. \A k \in (0 .. n) \ S : ~ (k < m)
  BY <1>1, <1>2, Zenon DEF OpToRel
<1>4. m \in 1 .. n /\ m - 1 \in 0 .. n /\ m - 1 < m
  <2>1. m \in 0 .. n /\ m \notin S
    BY <1>2
  <2>2. m # 0
    BY <2>1
  <2> QED
    BY <2>1, <2>2
<1>5. m - 1 \in S
  BY <1>3, <1>4
<1> QED
  BY <1>2, <1>4, <1>5

(* There is such a function.                                               *)
LEMMA KeepsExists ==
    ASSUME NEW s \in Seq(Int), NEW time \in Int
    PROVE  \E f : Keeps(s, time, Len(s), f)
<1> DEFINE S == {n \in 0 .. Len(s) : \E f : Keeps(s, time, n, f)}
<1>1. Len(s) \in Nat
  OBVIOUS
<1>2. 0 \in S
  <2> DEFINE f == [n \in 0 .. 0 |-> <<>>]
  <2>1. f \in [0 .. 0 -> Seq(Int)] /\ f[0] = <<>>
    OBVIOUS
  <2>2. Keeps(s, time, 0, f)
    BY <2>1 DEF Keeps
  <2> QED
    BY <1>1, <2>2
<1>3. ASSUME NEW i \in 1 .. Len(s), i - 1 \in S
      PROVE  i \in S
  <2>1. PICK f : Keeps(s, time, i - 1, f)
    BY <1>3
  <2> DEFINE last == IF s[i] > time THEN Append(f[i - 1], s[i]) ELSE f[i - 1]
             g    == [k \in 0 .. i |-> IF k = i THEN last ELSE f[k]]
  <2>2. f \in [0 .. (i - 1) -> Seq(Int)] /\ f[0] = <<>>
        /\ \A k \in 1 .. (i - 1) : f[k] = IF s[k] > time THEN Append(f[k - 1], s[k]) ELSE f[k - 1]
    BY <2>1 DEF Keeps
  <2>3. last \in Seq(Int)
    BY <2>2
  <2>4. g \in [0 .. i -> Seq(Int)]
    BY <2>2, <2>3
  <2>5. g[0] = <<>> /\ g[i] = last /\ \A k \in 0 .. (i - 1) : g[k] = f[k]
    BY <2>2
  <2> HIDE DEF g
  <2>6. ASSUME NEW k \in 1 .. i
        PROVE  g[k] = IF s[k] > time THEN Append(g[k - 1], s[k]) ELSE g[k - 1]
    <3>1. CASE k = i
      BY <2>5, <3>1
    <3>2. CASE k # i
      <4>1. k \in 1 .. (i - 1) /\ k \in 0 .. (i - 1) /\ k - 1 \in 0 .. (i - 1)
        BY <3>2
      <4> QED
        BY <2>2, <2>5, <4>1
    <3> QED
      BY <3>1, <3>2
  <2>7. Keeps(s, time, i, g)
    BY <2>4, <2>5, <2>6 DEF Keeps
  <2> QED
    BY <2>7
<1>4. 0 .. Len(s) \subseteq S
  <2> HIDE DEF S
  <2> QED
    BY <1>1, <1>2, <1>3, UpTo
<1> QED
  BY <1>1, <1>4

(* What it keeps of the first changes.                                     *)
LEMMA KeepsIs ==
    ASSUME NEW s \in Seq(Int), NEW time \in Int, NEW f, Keeps(s, time, Len(s), f)
    PROVE  /\ f[Len(s)] \in Seq(Int)
           /\ \A j \in DOMAIN f[Len(s)] : f[Len(s)][j] > time
           /\ f[Len(s)] = <<>> => \A j \in DOMAIN s : s[j] <= time
<1> DEFINE Recent(n) == \A j \in DOMAIN f[n] : f[n][j] > time
           None0(n)  == f[n] = <<>> => \A j \in 1 .. n : s[j] <= time
           S         == {n \in 0 .. Len(s) : Recent(n) /\ None0(n)}
<1>1. Len(s) \in Nat /\ DOMAIN s = 1 .. Len(s) /\ \A j \in 1 .. Len(s) : s[j] \in Int
  OBVIOUS
<1>2. /\ f \in [0 .. Len(s) -> Seq(Int)] /\ f[0] = <<>>
      /\ \A i \in 1 .. Len(s) : f[i] = IF s[i] > time THEN Append(f[i - 1], s[i]) ELSE f[i - 1]
  BY DEF Keeps
<1>3. 0 \in S
  BY <1>1, <1>2
<1>4. ASSUME NEW i \in 1 .. Len(s), i - 1 \in S
      PROVE  i \in S
  <2> DEFINE g == f[i - 1]
             h == f[i]
             x == s[i]
  <2>1. Recent(i - 1) /\ None0(i - 1)
    <3> HIDE DEF Recent, None0
    <3> QED  BY <1>4
  <2>2. i \in 0 .. Len(s) /\ i - 1 \in 0 .. Len(s)
    BY <1>1
  <2>3. g \in Seq(Int) /\ x \in Int /\ h = IF x > time THEN Append(g, x) ELSE g
    BY <1>1, <1>2, <2>2
  <2>4. \A j \in DOMAIN g : g[j] > time
    BY <2>1
  <2>5. g = <<>> => \A j \in 1 .. (i - 1) : s[j] <= time
    BY <2>1
  <2> HIDE DEF g
  <2>6. (\A j \in DOMAIN h : h[j] > time) /\ (x > time => h # <<>>)
    <3> HIDE DEF h, x
    <3>1. CASE x > time
      <4>1. h = Append(g, x) /\ Len(h) = Len(g) + 1 /\ DOMAIN h = 1 .. Len(g) + 1
            /\ h[Len(g) + 1] = x /\ \A j \in 1 .. Len(g) : h[j] = g[j]
        BY <2>3, <3>1
      <4>2. DOMAIN g = 1 .. Len(g) /\ Len(g) \in Nat
        BY <2>3
      <4>3. h # <<>>
        BY <4>1, <4>2
      <4>4. \A j \in 1 .. Len(g) + 1 : j \in 1 .. Len(g) \/ j = Len(g) + 1
        BY <4>2
      <4> QED
        BY <2>4, <3>1, <4>1, <4>2, <4>3, <4>4
    <3>2. CASE ~ (x > time)
      BY <2>3, <2>4, <3>2
    <3> QED
      BY <3>1, <3>2
  <2>7. h = <<>> => \A j \in 1 .. i : s[j] <= time
    <3> SUFFICES ASSUME h = <<>> PROVE \A j \in 1 .. i : s[j] <= time
      OBVIOUS
    <3>1. ~ (x > time)
      BY <2>6
    <3>2. x <= time /\ g = <<>>
      BY <2>3, <3>1
    <3>3. \A j \in 1 .. i : j \in 1 .. (i - 1) \/ j = i
      OBVIOUS
    <3> QED
      BY <2>5, <3>2, <3>3
  <2>8. Recent(i) /\ None0(i)
    BY <2>6, <2>7
  <2> QED
    BY <2>2, <2>8
<1>5. 0 .. Len(s) \subseteq S
  <2> HIDE DEF S
  <2> QED
    BY <1>1, <1>3, <1>4, UpTo
<1>6. Recent(Len(s)) /\ None0(Len(s)) /\ Len(s) \in 0 .. Len(s)
  <2> HIDE DEF Recent, None0
  <2> QED  BY <1>1, <1>5
<1>7. f[Len(s)] \in Seq(Int)
  BY <1>1, <1>2
<1> QED
  BY <1>1, <1>6, <1>7

(* What is after a time is, and when nothing is, every change was before it. *)
LEMMA AfterKeeps ==
    ASSUME NEW s \in Seq(Int), NEW time \in Int
    PROVE  /\ After(s, time) \in Seq(Int)
           /\ \A j \in DOMAIN After(s, time) : After(s, time)[j] > time
           /\ After(s, time) = <<>> => \A j \in DOMAIN s : s[j] <= time
<1> DEFINE Is(f) == f = [n \in 0 .. Len(s) |->
                           IF n = 0 THEN <<>>
                           ELSE IF s[n] > time THEN Append(f[n - 1], s[n]) ELSE f[n - 1]]
<1>1. After(s, time) = (CHOOSE f : Is(f))[Len(s)]
  BY DEF After
<1>2. \E f : Is(f)
  <2>1. PICK f : Keeps(s, time, Len(s), f)
    BY KeepsExists
  <2>2. f \in [0 .. Len(s) -> Seq(Int)] /\ f[0] = <<>>
        /\ \A i \in 1 .. Len(s) : f[i] = IF s[i] > time THEN Append(f[i - 1], s[i]) ELSE f[i - 1]
    BY <2>1 DEF Keeps
  <2>3. \A n \in 0 .. Len(s) :
          f[n] = IF n = 0 THEN <<>>
                 ELSE IF s[n] > time THEN Append(f[n - 1], s[n]) ELSE f[n - 1]
    <3> SUFFICES ASSUME NEW n \in 0 .. Len(s)
                 PROVE  f[n] = IF n = 0 THEN <<>>
                               ELSE IF s[n] > time THEN Append(f[n - 1], s[n]) ELSE f[n - 1]
      OBVIOUS
    <3>1. n = 0 \/ n \in 1 .. Len(s)
      OBVIOUS
    <3> QED
      BY <2>2, <3>1
  <2>4. Is(f)
    BY <2>2, <2>3
  <2> QED
    BY <2>4
<1>3. PICK f : Is(f) /\ After(s, time) = f[Len(s)]
  BY <1>1, <1>2
<1>4. Keeps(s, time, Len(s), f)
  <2>1. /\ DOMAIN f = 0 .. Len(s)
        /\ \A n \in 0 .. Len(s) :
             f[n] = IF n = 0 THEN <<>>
                    ELSE IF s[n] > time THEN Append(f[n - 1], s[n]) ELSE f[n - 1]
    BY <1>3
  <2> DEFINE S == {n \in 0 .. Len(s) : f[n] \in Seq(Int)}
  <2>2. Len(s) \in Nat /\ 0 \in 0 .. Len(s) /\ \A n \in 1 .. Len(s) :
          n \in 0 .. Len(s) /\ n - 1 \in 0 .. Len(s) /\ n # 0 /\ s[n] \in Int
    OBVIOUS
  <2>3. /\ f[0] = <<>>
        /\ \A n \in 1 .. Len(s) : f[n] = IF s[n] > time THEN Append(f[n - 1], s[n]) ELSE f[n - 1]
    <3>1. f[0] = <<>>
      BY <2>1, <2>2
    <3>2. ASSUME NEW n \in 1 .. Len(s)
          PROVE  f[n] = IF s[n] > time THEN Append(f[n - 1], s[n]) ELSE f[n - 1]
      <4>1. n \in 0 .. Len(s) /\ n # 0
        BY <2>2
      <4> QED
        BY <2>1, <4>1
    <3> QED
      BY <3>1, <3>2
  <2>4. 0 \in S
    <3>1. f[0] \in Seq(Int)
      BY <2>3
    <3> QED
      BY <2>2, <3>1
  <2>5. ASSUME NEW n \in 1 .. Len(s), n - 1 \in S
        PROVE  n \in S
    <3>1. f[n - 1] \in Seq(Int) /\ s[n] \in Int
      BY <2>2, <2>5
    <3>2. f[n] = IF s[n] > time THEN Append(f[n - 1], s[n]) ELSE f[n - 1]
      BY <2>3
    <3>3. f[n] \in Seq(Int)
      BY <3>1, <3>2
    <3> QED
      BY <2>2, <3>3
  <2>6. 0 .. Len(s) \subseteq S
    <3> HIDE DEF S
    <3> QED
      BY <2>2, <2>4, <2>5, UpTo
  <2>7. f \in [0 .. Len(s) -> Seq(Int)]
    <3>1. \A n \in 0 .. Len(s) : f[n] \in Seq(Int)
      BY <2>6
    <3>2. f = [n \in 0 .. Len(s) |-> f[n]]
      BY <1>3
    <3> QED
      BY <3>1, <3>2
  <2> QED
    BY <2>3, <2>7 DEF Keeps
<1> QED
  <2> HIDE DEF Is
  <2> QED
    BY <1>3, <1>4, KeepsIs
-----------------------------------------------------------------------------
(* At most one of them.                                                    *)
Single(S) == \A x, y \in S : x = y

Once == {S \in SUBSET Int : Single(S)}

Sources == {"", "nautobot", "librenms", "webhook"}

StateRow == [state : {"up", "down"}, since : Int, changes : Seq(Int), flapping : Once,
             source : Sources]

Observation == [down : BOOLEAN, source : Sources, since : Once]

BuildRow == [obs : Observation, edited : Nat, window : BOOLEAN, known : BOOLEAN,
             stored : SUBSET StateRow, alarmed : BOOLEAN]

(* A webhook's alert has a start, at most Late ago when it was reported.   *)
HookType ==
    /\ hook \in [Keys -> SUBSET [started : Int, updated : Int]]
    /\ \A k \in Keys : Single(hook[k]) /\ \A r \in hook[k] : r.started >= - Late

StatesType ==
    /\ clock \in Nat /\ failures \in Nat
    /\ nautobot \in [down : BOOLEAN, edited : Nat] /\ librenms \in BOOLEAN /\ window \in BOOLEAN
    /\ row \in SUBSET StateRow /\ Single(row) /\ alert \in Once
    /\ build \in SUBSET BuildRow /\ Single(build)
    /\ \A b \in build : b.obs.source = "webhook" => b.obs.since # {}

(* What a build has read of the device's row and alert is what they are until
   it writes them; nothing flaps where flapping is switched off. *)
BuildCurrent ==
    /\ \A b \in build : b.stored = row /\ (b.alarmed <=> alert # {})
    /\ FlapChanges = 0 => \A r \in row : r.flapping = {}

StatesInv == HookType /\ StatesType /\ BuildCurrent
-----------------------------------------------------------------------------
(* A set of times, none too early, has a first, and Min chooses it.        *)
LEMMA FirstIsChosen ==
    ASSUME NEW S \in SUBSET Int, S # {}, NEW b \in Int, \A x \in S : b <= x
    PROVE  Min(S) \in S /\ \A x \in S : Min(S) <= x
<1> DEFINE T == {x - b : x \in S}
<1>1. T \in SUBSET Nat /\ T # {}
  <2>1. \A x \in S : x - b \in Nat
    OBVIOUS
  <2>2. T # {}
    <3>1. PICK x \in S : TRUE
      OBVIOUS
    <3> QED
      BY <3>1
  <2> QED
    BY <2>1, <2>2
<1>2. PICK m \in T : \A n \in T : ~ (<<n, m>> \in OpToRel(<, Nat))
  BY <1>1, NatLessThanWellFounded, WFMin, Zenon
<1>3. \A n \in T : ~ (n < m)
  BY <1>1, <1>2, Zenon DEF OpToRel
<1>4. PICK x \in S : m = x - b
  BY <1>2
<1>5. \A y \in S : x <= y
  <2> SUFFICES ASSUME NEW y \in S PROVE x <= y
    OBVIOUS
  <2>1. y - b \in T
    OBVIOUS
  <2>2. ~ (y - b < m)
    BY <1>3, <2>1
  <2> QED
    BY <1>4, <2>2
<1> QED
  BY <1>5 DEF Min

(* Min of a time and of one more, or none, is a time and no later.  *)
LEMMA FirstOfOnce ==
    ASSUME NEW x \in Int, NEW S \in Once
    PROVE  /\ Min({x} \cup S) \in Int /\ Min({x} \cup S) <= x
           /\ \A y \in S : Min({x} \cup S) <= y
<1>1. S \in SUBSET Int /\ \A y, z \in S : y = z
  BY DEF Once, Single
<1>2. \E y \in {x} \cup S : \A z \in {x} \cup S : y <= z
  <2>1. CASE S = {}
    BY <2>1
  <2>2. ASSUME NEW y \in S PROVE \E v \in {x} \cup S : \A z \in {x} \cup S : v <= z
    <3>1. y \in Int /\ S = {y}
      BY <1>1, <2>2
    <3>2. CASE x <= y
      BY <3>1, <3>2
    <3>3. CASE ~ (x <= y)
      BY <3>1, <3>3
    <3> QED
      BY <3>2, <3>3
  <2> QED
    BY <2>1, <2>2
<1>3. Min({x} \cup S) \in {x} \cup S /\ \A z \in {x} \cup S : Min({x} \cup S) <= z
  BY <1>2 DEF Min
<1> QED
  BY <1>1, <1>3

(* A build's observation began by now.                                     *)
LEMMA DownSinceType ==
    ASSUME clock \in Nat, NEW b \in BuildRow
    PROVE  _down_since(b) \in Int /\ _down_since(b) <= clock
<1>1. b.obs.since \in Once /\ b.edited \in Int /\ b.obs.source \in Sources
  BY DEF BuildRow, Observation
<1>2. /\ Min(b.obs.since \cup {clock}) \in Int /\ Min(b.obs.since \cup {clock}) <= clock
      /\ Min({b.edited, clock}) \in Int /\ Min({b.edited, clock}) <= clock
  <2>1. b.obs.since \cup {clock} = {clock} \cup b.obs.since /\ {b.edited, clock} = {clock} \cup {b.edited}
    OBVIOUS
  <2>2. {b.edited} \in Once
    BY <1>1 DEF Once, Single
  <2> QED
    <3>1. Min({clock} \cup b.obs.since) \in Int /\ Min({clock} \cup b.obs.since) <= clock
      BY <1>1, FirstOfOnce
    <3>2. Min({clock} \cup {b.edited}) \in Int /\ Min({clock} \cup {b.edited}) <= clock
      BY <2>2, FirstOfOnce
    <3> QED
      BY <2>1, <3>1, <3>2
<1>3. _down_since(b) \in {Min(b.obs.since \cup {clock}), Min({b.edited, clock}), clock}
  BY <1>1 DEF _down_since, Sources
<1> QED
  BY <1>2, <1>3

(* Flapping begins and ends with changes, and is a time or nothing.        *)
LEMMA FlappingType ==
    ASSUME clock \in Nat, NEW S \in Once, NEW s \in Seq(Int), FlapChanges # 0
    PROVE  LET flap == FlappingSince(S, s) IN
           /\ flap \in Once
           /\ s = <<>> => flap = {}
           /\ S # {} /\ flap = {} => s = <<>>
<1>1. FlapChanges \in Nat /\ Len(s) \in Nat /\ (s = <<>> <=> Len(s) = 0)
  BY DeviceAssumption
<1>2. {clock} \in Once /\ {} \in Once
  BY DEF Once, Single
<1>3. CASE Len(s) >= FlapChanges
  <2>1. s # <<>>
    BY <1>1, <1>3
  <2>2. FlappingSince(S, s) = IF S = {} THEN {clock} ELSE S
    BY <1>3, <2>1 DEF FlappingSince
  <2> QED
    BY <1>2, <2>1, <2>2
<1>4. CASE ~ (Len(s) >= FlapChanges) /\ s = <<>>
  <2>1. FlappingSince(S, s) = {}
    BY <1>4 DEF FlappingSince
  <2> QED
    BY <1>2, <1>4, <2>1
<1>5. CASE ~ (Len(s) >= FlapChanges) /\ s # <<>>
  <2>1. FlappingSince(S, s) = S
    BY <1>5 DEF FlappingSince
  <2> QED
    BY <1>5, <2>1
<1> QED
  BY <1>3, <1>4, <1>5

(* The next state of a device.                                             *)
LEMMA NextStateIs ==
    ASSUME clock \in Nat, NEW b \in BuildRow, Single(b.stored)
    PROVE  LET next == next_device_state(b) IN
           /\ next \in SUBSET StateRow /\ Single(next)
           /\ b.obs.down => next # {}
           /\ \A r \in next :
                /\ r.state = IF b.obs.down THEN "down" ELSE "up"
                /\ b.obs.down => /\ r.since <= clock
                                 /\ \A s \in b.stored : s.state = "down" => r.since <= s.since
                /\ \A j \in DOMAIN r.changes : r.changes[j] > clock - FlapWindow
                /\ r.flapping # {} => r.changes # <<>>
                /\ ~ b.obs.down => r.changes # <<>>
                /\ FlapChanges = 0 => r.flapping = {}
           /\ FlapChanges # 0 /\ (\A r \in next : r.flapping = {}) =>
                \A s \in b.stored : s.flapping # {} =>
                   \A j \in DOMAIN s.changes : s.changes[j] <= clock - FlapWindow
<1> DEFINE down    == b.obs.down
           before  == UNION {{s.state} : s \in b.stored} \cup (IF b.stored = {} THEN {"up"} ELSE {})
           is      == IF down THEN "down" ELSE "up"
           upSince == {s.since : s \in {r \in b.stored : r.state = "up"}}
           since   == IF down THEN DownSince(b)
                      ELSE IF upSince # {} THEN Min(upSince) ELSE came_up_at(b)
           old     == IF b.stored = {} THEN <<>> ELSE (CHOOSE s \in b.stored : TRUE).changes
           new     == IF is \in before THEN old ELSE Append(old, since)
           kept    == IF FlapChanges = 0 THEN <<>> ELSE _recent(new)
           flapped == UNION {s.flapping : s \in b.stored}
           flap    == IF FlapChanges = 0 THEN {} ELSE FlappingSince(flapped, kept)
           state0  == [state |-> is, since |-> since, changes |-> kept, flapping |-> flap,
                       source |-> b.obs.source]
           next    == next_device_state(b)
<1>1. next = IF is = "up" /\ kept = <<>> /\ flap = {} THEN {} ELSE {state0}
  BY DEF next_device_state
<1>2. /\ b.stored \in SUBSET StateRow /\ \A r, s \in b.stored : r = s
      /\ down \in BOOLEAN /\ b.obs.source \in Sources /\ b.edited \in Nat
  BY DEF BuildRow, Observation, Single
<1>3. \A s \in b.stored : /\ b.stored = {s} /\ s.since \in Int /\ s.changes \in Seq(Int)
                           /\ s.flapping \in Once
  BY <1>2 DEF StateRow
<1>4. since \in Int /\ (down => /\ since <= clock
                               /\ \A s \in b.stored : s.state = "down" => since <= s.since)
  <2>1. CASE down
    <3> DEFINE S == {s.since : s \in {r \in b.stored : r.state = "down"}}
    <3>1. S \in Once
      BY <1>2, <1>3 DEF Once, Single
    <3>2. since = Min({_down_since(b)} \cup S)
      BY <2>1 DEF DownSince
    <3>3. \A s \in b.stored : s.state = "down" => s.since \in S
      OBVIOUS
    <3> HIDE DEF S, since
    <3>4. _down_since(b) \in Int /\ _down_since(b) <= clock
      BY DownSinceType
    <3>5. since \in Int /\ since <= _down_since(b) /\ \A y \in S : since <= y
      BY <3>1, <3>2, <3>4, FirstOfOnce
    <3> QED
      BY <3>3, <3>4, <3>5
  <2>2. CASE ~ down /\ upSince # {}
    <3>1. PICK s \in b.stored : s.state = "up"
      BY <2>2
    <3>2. upSince = {s.since} /\ s.since \in Int
      BY <1>3, <3>1
    <3>3. Min({s.since}) = s.since
      BY <3>2 DEF Min
    <3> QED
      BY <2>2, <3>2, <3>3
  <2>3. CASE ~ down /\ upSince = {}
    <3>1. since = came_up_at(b)
      BY <2>3
    <3>2. came_up_at(b) \in {b.edited, clock}
      BY DEF came_up_at
    <3> QED
      BY <1>2, <2>3, <3>1, <3>2
  <2> QED
    BY <2>1, <2>2, <2>3
<1>5. old \in Seq(Int) /\ \A s \in b.stored : old = s.changes
  <2>1. CASE b.stored = {}
    BY <2>1
  <2>2. ASSUME NEW s \in b.stored
        PROVE  old = s.changes /\ old \in Seq(Int)
    <3>1. b.stored # {} /\ (CHOOSE r \in b.stored : TRUE) = s
      BY <1>3, <2>2
    <3> QED
      BY <1>3, <3>1
  <2> QED
    BY <2>1, <2>2
<1>6. new \in Seq(Int) /\ \A j \in DOMAIN old : j \in DOMAIN new /\ new[j] = old[j]
  <2> HIDE DEF old, since, is, before
  <2>1. CASE is \in before
    BY <1>5, <2>1
  <2>2. CASE is \notin before
    BY <1>4, <1>5, <2>2
  <2> QED
    BY <2>1, <2>2
<1>7. clock - FlapWindow \in Int /\ FlapChanges \in Nat
  BY DeviceAssumption
<1>8. /\ kept \in Seq(Int)
      /\ \A j \in DOMAIN kept : kept[j] > clock - FlapWindow
      /\ FlapChanges # 0 /\ kept = <<>> => \A j \in DOMAIN new : new[j] <= clock - FlapWindow
  <2> HIDE DEF new
  <2>1. CASE FlapChanges = 0
    BY <2>1
  <2>2. CASE FlapChanges # 0
    <3>1. kept = After(new, clock - FlapWindow)
      BY <2>2 DEF _recent
    <3> HIDE DEF kept
    <3> QED
      BY <1>6, <1>7, <3>1, AfterKeeps
  <2> QED
    BY <2>1, <2>2
<1>9. flapped \in Once /\ \A s \in b.stored : flapped = s.flapping
  <2>1. CASE b.stored = {}
    BY <2>1 DEF Once, Single
  <2>2. ASSUME NEW s \in b.stored
        PROVE  flapped = s.flapping /\ flapped \in Once
    <3>1. s.flapping \in Once /\ \A r \in b.stored : r = s
      BY <1>2, <1>3, <2>2
    <3>2. \A x : x \in flapped <=> x \in s.flapping
      BY <2>2, <3>1
    <3>3. flapped = s.flapping
      BY <3>2
    <3> QED
      BY <3>1, <3>3
  <2> QED
    BY <2>1, <2>2
<1> HIDE DEF flapped, kept, new, old, since
<1>10. /\ flap \in Once
       /\ flap # {} => kept # <<>> /\ FlapChanges # 0
       /\ FlapChanges # 0 /\ flapped # {} /\ flap = {} => kept = <<>>
  <2>1. CASE FlapChanges = 0
    BY <2>1 DEF Once, Single
  <2>2. CASE FlapChanges # 0
    BY <1>8, <1>9, <2>2, FlappingType
  <2> QED
    BY <2>1, <2>2
<1> HIDE DEF flap
<1>11. state0 \in StateRow
  BY <1>2, <1>4, <1>8, <1>10 DEF StateRow
<1>12. next \in SUBSET StateRow /\ Single(next)
  BY <1>1, <1>11 DEF Single
<1>13. down => next # {}
  BY <1>1
<1>14. ASSUME NEW r \in next
       PROVE  /\ r.state = IF b.obs.down THEN "down" ELSE "up"
              /\ b.obs.down => /\ r.since <= clock
                               /\ \A s \in b.stored : s.state = "down" => r.since <= s.since
              /\ \A j \in DOMAIN r.changes : r.changes[j] > clock - FlapWindow
              /\ r.flapping # {} => r.changes # <<>>
              /\ ~ b.obs.down => r.changes # <<>>
              /\ FlapChanges = 0 => r.flapping = {}
  <2>1. r = state0 /\ ~ (is = "up" /\ kept = <<>> /\ flap = {})
    BY <1>1, <1>14
  <2>2. r.state = is /\ r.since = since /\ r.changes = kept /\ r.flapping = flap
    BY <2>1
  <2> QED
    BY <1>4, <1>8, <1>10, <2>1, <2>2
<1>15. ASSUME FlapChanges # 0, \A r \in next : r.flapping = {}, NEW s \in b.stored, s.flapping # {}
       PROVE  \A j \in DOMAIN s.changes : s.changes[j] <= clock - FlapWindow
  <2>1. flap = {}
    <3>1. CASE next = {}
      BY <1>1, <3>1
    <3>2. CASE next # {}
      BY <1>1, <1>15, <3>2
    <3> QED
      BY <3>1, <3>2
  <2>2. kept = <<>>
    BY <1>9, <1>10, <1>15, <2>1
  <2> QED
    BY <1>5, <1>6, <1>8, <1>15, <2>2
<1> QED
  BY <1>12, <1>13, <1>14, <1>15, Zenon
-----------------------------------------------------------------------------
(* What the properties say of a step.                                      *)
KeepsSince ==
    /\ \A r \in row, n \in row' : r.state = "down" /\ n.state = "down" => n.since <= r.since
    /\ \A a \in alert, n \in alert' : n <= a

Justified ==
    \A b \in build : build' = {} /\ b.known /\ failures' = failures =>
        /\ alert = {} /\ alert' # {} =>
             \E n \in row' : n.flapping # {} \/ (n.state = "down" /\ clock - n.since >= Delay)
        /\ alert # {} /\ alert' = {} => \A n \in row' : n.state = "up" /\ n.flapping = {}

EndsFlapping ==
    \A r \in row : r.flapping # {} /\ (\A n \in row' : n.flapping = {}) =>
        \A i \in DOMAIN r.changes : r.changes[i] <= clock - FlapWindow

Agrees ==
    \A b \in build : build' = {} /\ shown' \in {"up", "down", "pending"} =>
        /\ pending_device(clock)' <=> shown' = "pending"
        /\ flapping_device(clock)' <=> \E n \in row' : n.flapping # {}

(* Where a tool says no start from so long ago that its alert has expired.  *)
StartsAnew ==
    Late < Ttl => \A k \in Keys : \A r \in hook[k], n \in hook'[k] :
        r.updated <= cutoff /\ n.updated = clock => n.started > r.updated

Sound == KeepsSince /\ Justified /\ EndsFlapping /\ Agrees

(* A step that leaves the alerts of other tools starts none anew.          *)
LEMMA HookStays ==
    ASSUME StatesInv, hook' = hook
    PROVE  HookType' /\ StartsAnew
<1>1. HookType'
  BY DEF StatesInv, HookType
<1>2. ASSUME NEW k \in Keys, NEW r \in hook[k], r.updated <= cutoff, r.updated = clock
      PROVE  FALSE
  BY <1>2, WebhookAssumption DEF StatesInv, StatesType, cutoff
<1>3. \A k \in Keys : \A r, n \in hook[k] : r = n
  BY DEF StatesInv, HookType, Single
<1> QED
  BY <1>1, <1>2, <1>3 DEF StartsAnew

(* The sources report and time passes, and what the board knows stays.     *)
LEMMA WorldKeeps ==
    ASSUME StatesInv, UNCHANGED <<row, alert, build, failures>>
    PROVE  Sound /\ BuildCurrent'
<1>1. row' = row /\ alert' = alert /\ build' = build
  OBVIOUS
<1>2. (\A r, n \in row : r = n) /\ (\A a, n \in alert : a = n) /\ alert \in SUBSET Int
      /\ \A r \in row : r.since \in Int
  BY DEF StatesInv, StatesType, Single, Once, StateRow
<1>3. KeepsSince
  BY <1>1, <1>2 DEF KeepsSince
<1>4. Justified /\ Agrees
  BY <1>1 DEF Justified, Agrees
<1>5. EndsFlapping
  BY <1>1 DEF EndsFlapping
<1>6. BuildCurrent'
  BY <1>1 DEF StatesInv, BuildCurrent
<1> QED
  BY <1>3, <1>4, <1>5, <1>6 DEF Sound

(* Time passes, and nothing of the board does.                             *)
LEMMA TickStep ==
    ASSUME StatesInv, Tick
    PROVE  StatesInv' /\ Sound /\ StartsAnew
<1>1. Sound /\ BuildCurrent' /\ HookType' /\ StartsAnew
  BY WorldKeeps, HookStays DEF Tick
<1>2. StatesType'
  BY DEF StatesInv, StatesType, Tick, Single
<1> QED
  BY <1>1, <1>2 DEF StatesInv

(* An edit in Nautobot reaches the board with the next build.              *)
LEMMA NautobotEditStep ==
    ASSUME StatesInv, NEW isDown \in BOOLEAN, NautobotEdit(isDown)
    PROVE  StatesInv' /\ Sound /\ StartsAnew
<1>1. Sound /\ BuildCurrent' /\ HookType' /\ StartsAnew
  BY WorldKeeps, HookStays DEF NautobotEdit, Happens
<1>2. StatesType'
  BY DEF StatesInv, StatesType, NautobotEdit, Happens, Single
<1> QED
  BY <1>1, <1>2 DEF StatesInv

(* So does a change at LibreNMS, or of a window.                           *)
LEMMA LibrenmsChangeStep ==
    ASSUME StatesInv, LibrenmsChange \/ WindowChange
    PROVE  StatesInv' /\ Sound /\ StartsAnew
<1>1. Sound /\ BuildCurrent' /\ HookType' /\ StartsAnew
  BY WorldKeeps, HookStays DEF LibrenmsChange, WindowChange, Happens
<1>2. StatesType'
  BY DEF StatesInv, StatesType, LibrenmsChange, WindowChange, Happens, Single
<1> QED
  BY <1>1, <1>2 DEF StatesInv

(* A tool reports: what expired is forgotten, and what fires again is no older
   than Late. *)
LEMMA WebhookStep ==
    ASSUME StatesInv, NEW downs \in SUBSET Keys, NEW ups \in SUBSET Keys,
           NEW started \in clock - Late .. clock, WebhookReceived(downs, ups, started)
    PROVE  StatesInv' /\ Sound /\ StartsAnew
<1>1. Sound /\ BuildCurrent'
  BY WorldKeeps DEF WebhookReceived, Happens
<1>2. StatesType'
  BY DEF StatesInv, StatesType, WebhookReceived, Happens, Single
<1>3. /\ clock \in Nat /\ Late \in Nat /\ Ttl \in Nat
      /\ started \in Int /\ started >= clock - Late
  BY DeviceAssumption, WebhookAssumption DEF StatesInv, StatesType
<1>4. hook' = [k \in Keys |-> IF k \in ups THEN {}
                              ELSE IF k \in downs THEN Refreshed(Unexpired(hook[k]), started)
                              ELSE Unexpired(hook[k])]
  BY DEF WebhookReceived, store
<1>5. ASSUME NEW k \in Keys
      PROVE  /\ hook'[k] \in SUBSET [started : Int, updated : Int]
             /\ Single(hook'[k]) /\ \A r \in hook'[k] : r.started >= - Late
             /\ Late < Ttl => \A r \in hook[k], n \in hook'[k] :
                  r.updated <= cutoff /\ n.updated = clock => n.started > r.updated
  <2> DEFINE left == Unexpired(hook[k])
             new  == [started |-> started, updated |-> clock]
  <2>1. /\ hook[k] \in SUBSET [started : Int, updated : Int]
        /\ \A x, y \in hook[k] : x = y
        /\ \A r \in hook[k] : r.started >= - Late
    BY DEF StatesInv, HookType, Single
  <2>2. left \subseteq hook[k] /\ (\A r \in left : r.updated > cutoff) /\ cutoff = clock - Ttl
    BY DEF Unexpired, cutoff
  <2>3. hook'[k] = {} \/ hook'[k] = left \/ hook'[k] = Refreshed(left, started)
    BY <1>4
  <2>4. Refreshed(left, started) = IF left = {} THEN {new} ELSE {[r EXCEPT !.updated = clock] : r \in left}
    BY DEF Refreshed
  <2> HIDE DEF left
  <2>5. CASE hook'[k] = {}
    BY <2>5 DEF Single
  <2>6. CASE hook'[k] = left
    <3>1. \A r \in hook[k], n \in left : ~ (r.updated <= cutoff)
      BY <1>3, <2>1, <2>2
    <3> QED
      BY <2>1, <2>2, <2>6, <3>1 DEF Single
  <2>7. CASE hook'[k] = {new} /\ left = {}
    <3>1. new.started = started /\ new.updated = clock
      OBVIOUS
    <3>2. Late < Ttl => \A r \in hook[k] : r.updated <= cutoff => started > r.updated
      BY <1>3, <2>1, <2>2
    <3> QED
      BY <1>3, <2>7, <3>1, <3>2 DEF Single
  <2>8. CASE left # {} /\ hook'[k] = {[r EXCEPT !.updated = clock] : r \in left}
    <3>1. PICK r \in left : TRUE
      BY <2>8
    <3>2. left = {r} /\ hook[k] = {r} /\ r \in [started : Int, updated : Int] /\ r.updated > cutoff
      BY <2>1, <2>2, <3>1
    <3>3. hook'[k] = {[r EXCEPT !.updated = clock]}
      BY <2>8, <3>2
    <3>4. \A x \in hook[k] : ~ (x.updated <= cutoff)
      BY <1>3, <2>2, <3>2
    <3>5. [r EXCEPT !.updated = clock] \in [started : Int, updated : Int]
          /\ [r EXCEPT !.updated = clock].started = r.started
      BY <1>3, <3>2
    <3> QED
      BY <2>1, <3>2, <3>3, <3>4, <3>5 DEF Single
  <2> QED
    BY <2>3, <2>4, <2>5, <2>6, <2>7, <2>8
<1>6. HookType'
  BY <1>4, <1>5 DEF HookType
<1>7. StartsAnew
  BY <1>5 DEF StartsAnew
<1> QED
  BY <1>1, <1>2, <1>6, <1>7 DEF StatesInv

(* What the sources say.                                                   *)
LEMMA ObservedType ==
    ASSUME StatesInv
    PROVE  Observed \in Observation /\ (Observed.source = "webhook" => Observed.since # {})
<1>1. {} \in Once /\ \A t \in Int : {t} \in Once
  BY DEF Once, Single
<1>2. Current # {} => EarliestStart \in Int
  <2> SUFFICES ASSUME Current # {} PROVE EarliestStart \in Int
    OBVIOUS
  <2> DEFINE S == {r.started : r \in Current}
  <2>1. \A r \in Current : \E k \in Keys : r \in hook[k]
    BY DEF Current
  <2>2. \A k \in Keys : \A r \in hook[k] : r.started \in Int /\ r.started >= - Late
    BY DEF StatesInv, HookType
  <2>3. - Late \in Int
    BY DeviceAssumption
  <2>4. S \in SUBSET Int /\ S # {} /\ \A x \in S : - Late <= x
    BY <2>1, <2>2, <2>3
  <2>5. Min(S) \in S
    BY <2>3, <2>4, FirstIsChosen
  <2>6. EarliestStart = Min(S)
    BY DEF EarliestStart
  <2> QED
    BY <2>4, <2>5, <2>6
<1>3. nautobot.down \in BOOLEAN /\ librenms \in BOOLEAN
  BY DEF StatesInv, StatesType
<1> DEFINE o == Observed
<1>4. CASE nautobot.down
  <2>1. o = [down |-> TRUE, source |-> "nautobot", since |-> {}]
    BY <1>4 DEF Observed
  <2> QED
    BY <1>1, <2>1 DEF Observation, Sources
<1>5. CASE ~ nautobot.down /\ librenms
  <2>1. o = [down |-> TRUE, source |-> "librenms", since |-> {}]
    BY <1>5 DEF Observed
  <2> QED
    BY <1>1, <2>1 DEF Observation, Sources
<1>6. CASE ~ nautobot.down /\ ~ librenms /\ Current # {}
  <2>1. o = [down |-> TRUE, source |-> "webhook", since |-> {EarliestStart}]
    BY <1>6 DEF Observed
  <2> QED
    BY <1>1, <1>2, <1>6, <2>1 DEF Observation, Sources
<1>7. CASE ~ nautobot.down /\ ~ librenms /\ Current = {}
  <2>1. o = [down |-> FALSE, source |-> "", since |-> {}]
    BY <1>7 DEF Observed
  <2> QED
    BY <1>1, <2>1 DEF Observation, Sources
<1> QED
  BY <1>4, <1>5, <1>6, <1>7

(* A build reads, and writes nothing yet.                                  *)
LEMMA BuildReadStep ==
    ASSUME StatesInv, NEW known \in BOOLEAN, BuildRead(known)
    PROVE  StatesInv' /\ Sound /\ StartsAnew
<1> DEFINE b == [obs |-> Observed, edited |-> nautobot.edited, window |-> window,
                 known |-> known, stored |-> row, alarmed |-> alert # {}]
<1>1. /\ build = {} /\ build' = {b} /\ row' = row /\ alert' = alert /\ hook' = hook
      /\ clock' = clock /\ nautobot' = nautobot /\ librenms' = librenms /\ window' = window
      /\ failures' \in {failures, failures + 1}
  BY DEF BuildRead, world
<1>2. Observed \in Observation /\ (Observed.source = "webhook" => Observed.since # {})
  BY ObservedType
<1>3. b \in BuildRow /\ b.obs = Observed /\ b.stored = row /\ (b.alarmed <=> alert # {})
  BY <1>2 DEF BuildRow, StatesInv, StatesType
<1> HIDE DEF b
<1>4. StatesType'
  BY <1>1, <1>2, <1>3 DEF StatesInv, StatesType, Single
<1>5. BuildCurrent'
  BY <1>1, <1>3 DEF StatesInv, BuildCurrent
<1>6. HookType' /\ StartsAnew
  BY <1>1, HookStays
<1>7. Justified /\ Agrees
  BY <1>1 DEF Justified, Agrees
<1>8. (\A r, n \in row : r = n) /\ (\A a, n \in alert : a = n) /\ alert \in SUBSET Int
      /\ \A r \in row : r.since \in Int
  BY DEF StatesInv, StatesType, Single, Once, StateRow
<1>9. KeepsSince /\ EndsFlapping
  BY <1>1, <1>8 DEF KeepsSince, EndsFlapping
<1> QED
  BY <1>4, <1>5, <1>6, <1>7, <1>9 DEF StatesInv, Sound

(* What a write does with the states read, of what it read and what it counts. *)
LEMMA WriteIs ==
    ASSUME StatesInv, NEW ok \in BOOLEAN, NEW b \in build, b.known,
           UNCHANGED clock,
           NEW next, next = next_device_state(b),
           NEW as, as = Counted(b, next),
           alert' = CASE as = "maintenance" -> alert
                      [] as = "down" -> {Min(alert \cup {first_seen_down_at(b, r) : r \in next})}
                      [] OTHER -> {},
           row' = IF ok THEN next ELSE row,
           shown' = IF ok THEN as ELSE "unknown",
           ok \/ failures' # failures,
           build' = {}
    PROVE  /\ alert' \in Once /\ (\A a \in alert, n \in alert' : n <= a)
           /\ Justified /\ Agrees
<1>1. /\ clock \in Nat /\ b \in BuildRow /\ b.stored = row /\ Single(row) /\ (b.alarmed <=> alert # {})
      /\ \A c \in build : c = b
      /\ alert \in Once /\ alert \in SUBSET Int /\ \A x, y \in alert : x = y
      /\ b.obs.down \in BOOLEAN /\ b.window \in BOOLEAN
  BY DEF StatesInv, StatesType, BuildCurrent, Single, BuildRow, Observation, Once
<1>2. /\ next \in SUBSET StateRow /\ (\A r, s \in next : r = s)
      /\ b.obs.down => next # {}
      /\ \A r \in next :
           /\ r.state = IF b.obs.down THEN "down" ELSE "up"
           /\ b.obs.down => r.since <= clock
           /\ \A j \in DOMAIN r.changes : r.changes[j] > clock - FlapWindow
           /\ r.flapping # {} => r.changes # <<>>
           /\ ~ b.obs.down => r.changes # <<>>
  BY <1>1, NextStateIs, Zenon DEF Single
<1>3. /\ Delay \in Nat /\ FlapWindow \in Nat
      /\ \A r \in next : r.since \in Int /\ r.changes \in Seq(Int)
  BY <1>2, DeviceAssumption DEF StateRow
<1>4. \A r \in next : /\ b.obs.down => first_seen_down_at(b, r) = r.since
                      /\ first_seen_down_at(b, r) \in Int
  <2> SUFFICES ASSUME NEW r \in next
               PROVE  /\ b.obs.down => first_seen_down_at(b, r) = r.since
                      /\ first_seen_down_at(b, r) \in Int
    OBVIOUS
  <2>1. CASE b.obs.down
    BY <1>3, <2>1 DEF first_seen_down_at
  <2>2. CASE ~ b.obs.down
    <3>1. r.changes # <<>> /\ r.changes \in Seq(Int)
      BY <1>2, <1>3, <2>2
    <3>2. Head(r.changes) \in Int
      BY <3>1
    <3> QED
      BY <2>2, <3>1, <3>2 DEF first_seen_down_at
  <2> QED
    BY <1>1, <2>1, <2>2
<1>5. /\ as = "maintenance" <=> b.window
      /\ as = "pending" <=> ~ b.window /\ \E r \in next : Pending(b, r)
      /\ as = "down" <=> /\ ~ b.window /\ ~ (\E r \in next : Pending(b, r))
                         /\ b.obs.down \/ \E r \in next : r.flapping # {}
      /\ as = "up" <=> /\ ~ b.window /\ ~ (\E r \in next : Pending(b, r))
                       /\ ~ b.obs.down /\ ~ (\E r \in next : r.flapping # {})
  <2> HIDE DEF Pending
  <2>1. CASE b.window
    <3>1. as = "maintenance"
      BY <2>1 DEF Counted
    <3> QED  BY <2>1, <3>1
  <2>2. CASE ~ b.window /\ \E r \in next : Pending(b, r)
    <3>1. as = "pending"
      BY <2>2 DEF Counted
    <3> QED  BY <2>2, <3>1
  <2>3. CASE /\ ~ b.window /\ ~ (\E r \in next : Pending(b, r))
             /\ b.obs.down \/ \E r \in next : r.flapping # {}
    <3>1. as = "down"
      BY <2>3 DEF Counted, Flaps
    <3> QED  BY <2>3, <3>1
  <2>4. CASE /\ ~ b.window /\ ~ (\E r \in next : Pending(b, r))
             /\ ~ b.obs.down /\ ~ (\E r \in next : r.flapping # {})
    <3>1. as = "up"
      BY <2>4 DEF Counted, Flaps
    <3> QED  BY <2>4, <3>1
  <2> QED
    BY <2>1, <2>2, <2>3, <2>4
<1>6. as = "down" => next # {}
  BY <1>2, <1>5
<1>7. ASSUME as = "down"
      PROVE  alert' # {} /\ alert' \in Once /\ \A a \in alert, n \in alert' : n <= a
  <2>1. PICK r \in next : TRUE
    BY <1>6, <1>7
  <2> DEFINE x == first_seen_down_at(b, r)
             m == Min({x} \cup alert)
  <2>2. {first_seen_down_at(b, s) : s \in next} = {x} /\ x \in Int
    BY <1>2, <1>4, <2>1
  <2>3. alert' = {Min(alert \cup {first_seen_down_at(b, s) : s \in next})}
    BY <1>7
  <2>4. alert \cup {x} = {x} \cup alert
    OBVIOUS
  <2>5. alert' = {m}
    BY <2>2, <2>3, <2>4
  <2> HIDE DEF x
  <2>6. m \in Int /\ \A a \in alert : m <= a
    BY <1>1, <2>2, FirstOfOnce
  <2> HIDE DEF m
  <2> QED
    BY <2>5, <2>6 DEF Once, Single
<1>8. /\ as = "maintenance" => alert' = alert
      /\ as = "pending" \/ as = "up" => alert' = {}
      /\ as \in {"maintenance", "down", "pending", "up"}
  <2>1. as \in {"maintenance", "down", "pending", "up"}
    BY <1>1, <1>5
  <2>2. as = "maintenance" => alert' = alert
    OBVIOUS
  <2>3. as = "pending" \/ as = "up" => alert' = {}
    OBVIOUS
  <2> QED
    BY <2>1, <2>2, <2>3
<1>9. alert' \in Once /\ (\A a \in alert, n \in alert' : n <= a)
  <2>1. CASE as = "maintenance"
    BY <1>1, <1>8, <2>1
  <2>2. CASE as = "pending" \/ as = "up"
    BY <1>8, <2>2 DEF Once, Single
  <2> QED
    BY <1>7, <1>8, <2>1, <2>2
<1>10. Justified
  <2> SUFFICES ASSUME failures' = failures
               PROVE  /\ alert = {} /\ alert' # {} =>
                           \E n \in row' : \/ n.flapping # {}
                                           \/ (n.state = "down" /\ clock - n.since >= Delay)
                      /\ alert # {} /\ alert' = {} =>
                           \A n \in row' : n.state = "up" /\ n.flapping = {}
    BY <1>1 DEF Justified
  <2>1. row' = next
    OBVIOUS
  <2>2. ASSUME alert = {}, alert' # {}
        PROVE  \E n \in next : n.flapping # {} \/ (n.state = "down" /\ clock - n.since >= Delay)
    <3>1. as = "down"
      BY <1>8, <2>2
    <3>2. CASE \E r \in next : r.flapping # {}
      BY <3>2
    <3>3. CASE b.obs.down /\ \A r \in next : r.flapping = {}
      <4>1. PICK r \in next : ~ Pending(b, r)
        BY <1>5, <1>6, <3>1
      <4>2. ~ (clock - r.since < Delay) /\ r.state = "down" /\ r.since \in Int
        BY <1>1, <1>2, <1>3, <1>4, <2>2, <3>3, <4>1 DEF Pending
      <4> QED
        BY <1>1, <1>3, <4>2
    <3> QED
      BY <1>5, <3>1, <3>2, <3>3
  <2>3. ASSUME alert # {}, alert' = {}
        PROVE  \A n \in next : n.state = "up" /\ n.flapping = {}
    <3>1. as # "pending"
      BY <1>1, <1>5, <2>3 DEF Pending
    <3>2. as = "up"
      BY <1>7, <1>8, <2>3, <3>1
    <3> QED
      BY <1>2, <1>5, <3>2
  <2> QED
    BY <2>1, <2>2, <2>3
<1>11. Agrees
  <2> SUFFICES ASSUME shown' \in {"up", "down", "pending"}
               PROVE  /\ pending_device(clock)' <=> shown' = "pending"
                      /\ flapping_device(clock)' <=> \E n \in row' : n.flapping # {}
    BY DEF Agrees
  <2>1. ok /\ row' = next /\ shown' = as
    OBVIOUS
  <2>2. pending_device(clock)' <=>
          /\ Delay > 0 /\ alert' = {}
          /\ \E r \in next : r.state = "down" /\ r.since > clock - Delay
    BY <2>1 DEF pending_device
  <2>3. flapping_device(clock)' <=>
          \E r \in next : r.flapping # {}
                          /\ \E i \in DOMAIN r.changes : r.changes[i] > clock - FlapWindow
    BY <2>1 DEF flapping_device
  <2>4. ASSUME as = "pending" PROVE pending_device(clock)'
    <3>1. PICK r \in next : Pending(b, r)
      BY <1>5, <2>4
    <3>2. /\ r.state = "down" /\ r.since \in Int /\ r.since <= clock
          /\ clock - r.since < Delay
      BY <1>2, <1>3, <1>4, <3>1 DEF Pending
    <3>3. Delay > 0 /\ r.since > clock - Delay
      BY <1>1, <1>3, <3>2
    <3> QED
      BY <1>8, <2>2, <2>4, <3>2, <3>3
  <2>5. ASSUME as = "down" PROVE ~ pending_device(clock)'
    BY <1>7, <2>2, <2>5
  <2>6. ASSUME as = "up" PROVE ~ pending_device(clock)'
    BY <1>2, <1>5, <2>2, <2>6
  <2>7. pending_device(clock)' <=> shown' = "pending"
    BY <2>1, <2>4, <2>5, <2>6
  <2>8. \A r \in next : r.flapping # {} => \E i \in DOMAIN r.changes : r.changes[i] > clock - FlapWindow
    <3> SUFFICES ASSUME NEW r \in next, r.flapping # {}
                 PROVE  \E i \in DOMAIN r.changes : r.changes[i] > clock - FlapWindow
      OBVIOUS
    <3>1. 1 \in DOMAIN r.changes
      BY <1>2, <1>3
    <3> QED
      BY <1>2, <3>1
  <2> QED
    BY <2>1, <2>3, <2>7, <2>8
<1> QED
  BY <1>9, <1>10, <1>11

(* A build writes what it decided, of what it read.                        *)
LEMMA BuildWriteStep ==
    ASSUME StatesInv, NEW wrote \in BOOLEAN, NEW ok \in BOOLEAN, BuildWrite(wrote, ok)
    PROVE  StatesInv' /\ Sound /\ StartsAnew
<1>1. PICK b \in build :
        LET next == IF b.known THEN next_device_state(b) ELSE {}
            as   == IF b.known THEN Counted(b, next)
                    ELSE IF b.window THEN "maintenance" ELSE IF b.obs.down THEN "down" ELSE "up"
            start == IF b.known THEN {first_seen_down_at(b, r) : r \in next} ELSE {_down_since(b)}
        IN
        /\ failures' = IF wrote /\ ok THEN failures ELSE failures + 1
        /\ failures' <= MaxFailures
        /\ alert' = CASE as = "maintenance" \/ ~ wrote -> alert
                      [] as = "down" /\ wrote -> {Min(alert \cup start)}
                      [] OTHER -> {}
        /\ row' = IF ok /\ b.known THEN next ELSE row
        /\ shown' = IF wrote /\ ok /\ b.known THEN as ELSE "unknown"
        /\ build' = {}
        /\ UNCHANGED world
  BY Zenon DEF BuildWrite
<1>2. /\ failures' = IF wrote /\ ok THEN failures ELSE failures + 1
      /\ build' = {} /\ UNCHANGED world
  BY <1>1, Zenon
<1>3. /\ clock \in Nat /\ failures \in Nat /\ b \in BuildRow /\ b.stored = row /\ Single(row)
      /\ row \in SUBSET StateRow
      /\ (b.alarmed <=> alert # {}) /\ (\A c \in build : c = b)
      /\ alert \in Once /\ alert \in SUBSET Int /\ \A x, y \in alert : x = y
      /\ FlapChanges = 0 => \A r \in row : r.flapping = {}
  BY DEF StatesInv, StatesType, BuildCurrent, Single, Once
<1>4. failures' \in Nat /\ ((wrote /\ ok) \/ failures' # failures)
  BY <1>2, <1>3
<1>5. /\ clock' = clock /\ nautobot' = nautobot /\ librenms' = librenms /\ hook' = hook
      /\ window' = window
  BY <1>2 DEF world
<1>6. HookType' /\ StartsAnew
  BY <1>5, HookStays
<1>7. ASSUME row' = row
      PROVE  /\ row' \in SUBSET StateRow /\ Single(row') /\ EndsFlapping
             /\ FlapChanges = 0 => \A r \in row' : r.flapping = {}
             /\ \A r \in row, n \in row' : r.state = "down" /\ n.state = "down" => n.since <= r.since
  <2>1. \A r \in row : r.since \in Int
    BY <1>3 DEF StateRow
  <2> QED
    BY <1>3, <1>7, <2>1 DEF Single, EndsFlapping
<1>8. ASSUME row' = next_device_state(b)
      PROVE  /\ row' \in SUBSET StateRow /\ Single(row') /\ EndsFlapping
             /\ FlapChanges = 0 => \A r \in row' : r.flapping = {}
             /\ \A r \in row, n \in row' : r.state = "down" /\ n.state = "down" => n.since <= r.since
  <2>1. /\ row' \in SUBSET StateRow /\ Single(row')
        /\ \A r \in row' :
             /\ r.state = IF b.obs.down THEN "down" ELSE "up"
             /\ b.obs.down => /\ r.since <= clock
                              /\ \A s \in row : s.state = "down" => r.since <= s.since
             /\ FlapChanges = 0 => r.flapping = {}
        /\ FlapChanges # 0 /\ (\A r \in row' : r.flapping = {}) =>
             \A s \in row : s.flapping # {} =>
                \A j \in DOMAIN s.changes : s.changes[j] <= clock - FlapWindow
    BY <1>3, <1>8, NextStateIs, Zenon
  <2>2. EndsFlapping
    BY <1>3, <2>1 DEF EndsFlapping
  <2>3. \A r \in row, n \in row' : r.state = "down" /\ n.state = "down" => n.since <= r.since
    BY <2>1
  <2> QED
    BY <2>1, <2>2, <2>3
<1>9. row' = row \/ (b.known /\ row' = next_device_state(b))
  BY <1>1, Zenon
<1>10. /\ alert' \in Once /\ (\A a \in alert, n \in alert' : n <= a)
       /\ Justified /\ Agrees
  <2>1. CASE wrote /\ b.known
    <3> DEFINE next == next_device_state(b)
               as   == Counted(b, next)
    <3>1. /\ alert' = CASE as = "maintenance" -> alert
                        [] as = "down" -> {Min(alert \cup {first_seen_down_at(b, r) : r \in next})}
                        [] OTHER -> {}
          /\ row' = IF ok THEN next ELSE row
          /\ shown' = IF ok THEN as ELSE "unknown"
      BY <1>1, <2>1
    <3> HIDE DEF as, next
    <3>2. next = next_device_state(b) /\ as = Counted(b, next)
      BY DEF next, as
    <3> QED
      BY <1>2, <1>4, <1>5, <2>1, <3>1, <3>2, WriteIs
  <2>2. CASE wrote /\ ~ b.known
    <3> DEFINE as == IF b.window THEN "maintenance" ELSE IF b.obs.down THEN "down" ELSE "up"
               m  == Min({_down_since(b)} \cup alert)
    <3>1. /\ alert' = CASE as = "maintenance" -> alert
                        [] as = "down" -> {Min(alert \cup {_down_since(b)})}
                        [] OTHER -> {}
          /\ shown' = "unknown"
      BY <1>1, <2>2
    <3>2. alert \cup {_down_since(b)} = {_down_since(b)} \cup alert
      OBVIOUS
    <3>3. alert' = alert \/ alert' = {} \/ alert' = {m}
      BY <3>1, <3>2
    <3>4. m \in Int /\ \A a \in alert : m <= a
      BY <1>3, DownSinceType, FirstOfOnce
    <3> HIDE DEF m
    <3>5. alert' \in Once /\ (\A a \in alert, n \in alert' : n <= a)
      <4>1. CASE alert' = alert
        BY <1>3, <4>1
      <4>2. CASE alert' = {}
        BY <4>2 DEF Once, Single
      <4>3. CASE alert' = {m}
        <5>1. {m} \in Once
          BY <3>4 DEF Once, Single
        <5> QED
          BY <3>4, <4>3, <5>1
      <4> QED
        BY <3>3, <4>1, <4>2, <4>3
    <3>6. Justified /\ Agrees
      BY <1>3, <2>2, <3>1 DEF Justified, Agrees
    <3> QED
      BY <3>5, <3>6
  <2>3. CASE ~ wrote
    <3>1. alert' = alert /\ shown' = "unknown"
      BY <1>1, <2>3
    <3>2. alert' \in Once /\ (\A a \in alert, n \in alert' : n <= a)
      BY <1>3, <3>1
    <3>3. Justified /\ Agrees
      BY <1>4, <2>3, <3>1 DEF Justified, Agrees
    <3> QED
      BY <3>2, <3>3
  <2>4. b.known \in BOOLEAN
    BY <1>3 DEF BuildRow
  <2> QED
    BY <2>1, <2>2, <2>3, <2>4
<1>11. KeepsSince /\ EndsFlapping
  BY <1>7, <1>8, <1>9, <1>10 DEF KeepsSince
<1>12. StatesType'
  BY <1>2, <1>4, <1>5, <1>7, <1>8, <1>9, <1>10 DEF StatesInv, StatesType, Single
<1>13. BuildCurrent'
  BY <1>2, <1>7, <1>8, <1>9 DEF BuildCurrent
<1> QED
  BY <1>6, <1>10, <1>11, <1>12, <1>13 DEF StatesInv, Sound
-----------------------------------------------------------------------------
(* At first nothing was reported or read.                                  *)
LEMMA InitStates == Init => StatesInv
<1> SUFFICES ASSUME Init PROVE StatesInv
  OBVIOUS
<1>1. HookType
  BY DEF Init, HookType, Single
<1>2. StatesType
  BY DEF Init, StatesType, Single, Once
<1>3. BuildCurrent
  BY DEF Init, BuildCurrent
<1> QED
  BY <1>1, <1>2, <1>3 DEF StatesInv

(* Every step keeps the invariant and does what the properties ask.        *)
LEMMA NextSteps ==
    ASSUME StatesInv, [Next]_vars
    PROVE  StatesInv' /\ Sound /\ StartsAnew
<1>1. CASE Tick
  BY <1>1, TickStep
<1>2. ASSUME NEW isDown \in BOOLEAN, NautobotEdit(isDown)
      PROVE  StatesInv' /\ Sound /\ StartsAnew
  BY <1>2, NautobotEditStep
<1>3. CASE LibrenmsChange \/ WindowChange
  BY <1>3, LibrenmsChangeStep
<1>4. ASSUME NEW downs \in SUBSET Keys, NEW ups \in SUBSET Keys,
             NEW started \in clock - Late .. clock, WebhookReceived(downs, ups, started)
      PROVE  StatesInv' /\ Sound /\ StartsAnew
  BY <1>4, WebhookStep
<1>5. ASSUME NEW known \in BOOLEAN, BuildRead(known)
      PROVE  StatesInv' /\ Sound /\ StartsAnew
  BY <1>5, BuildReadStep
<1>6. ASSUME NEW wrote \in BOOLEAN, NEW ok \in BOOLEAN, BuildWrite(wrote, ok)
      PROVE  StatesInv' /\ Sound /\ StartsAnew
  BY <1>6, BuildWriteStep
<1>7. CASE UNCHANGED vars
  <2>1. Sound /\ BuildCurrent' /\ HookType' /\ StartsAnew
    BY <1>7, WorldKeeps, HookStays DEF vars, world
  <2>2. StatesType'
    BY <1>7 DEF StatesInv, StatesType, vars, world, Single
  <2> QED
    BY <2>1, <2>2 DEF StatesInv
<1> QED
  BY <1>1, <1>2, <1>3, <1>4, <1>5, <1>6, <1>7, Zenon DEF Next

(* The invariant holds of every state.                                     *)
LEMMA StatesKept == Spec => []StatesInv
<1>1. StatesInv /\ [Next]_vars => StatesInv'
  BY NextSteps
<1> QED
  BY <1>1, InitStates, PTL DEF Spec

(* While a device stays down, next_device_state never makes it down for a
   shorter time, whichever source reports it and whatever was edited, and
   sync_device_alerts never moves the start of its open alert later. *)
THEOREM NeverDownShorter == Spec => SinceKept
<1>1. StatesInv /\ [Next]_vars =>
        [/\ \A r \in row, n \in row' : r.state = "down" /\ n.state = "down" => n.since <= r.since
         /\ \A a \in alert, n \in alert' : n <= a]_vars
  BY NextSteps DEF Sound, KeepsSince
<1> QED
  BY <1>1, StatesKept, PTL DEF Spec, SinceKept

(* The alert delay and the flapping rule: with the states read and written, a
   build opens an alert only for a device down for the delay or flapping, and
   takes an open one back only when it is up and steady. *)
THEOREM AlarmsJustified == Spec => AlarmJustified
<1>1. StatesInv /\ [Next]_vars =>
        [\A b \in build : build' = {} /\ b.known /\ failures' = failures =>
           /\ alert = {} /\ alert' # {} =>
                \E n \in row' : n.flapping # {} \/ (n.state = "down" /\ clock - n.since >= Delay)
           /\ alert # {} /\ alert' = {} => \A n \in row' : n.state = "up" /\ n.flapping = {}]_vars
  BY NextSteps DEF Sound, Justified
<1> QED
  BY <1>1, StatesKept, PTL DEF Spec, AlarmJustified

(* A device flaps until FLAP_WINDOW has passed since its last change.      *)
THEOREM FlapsUntilSteady == Spec => FlappingEnds
<1>1. StatesInv /\ [Next]_vars =>
        [\A r \in row : r.flapping # {} /\ (\A n \in row' : n.flapping = {}) =>
           \A i \in DOMAIN r.changes : r.changes[i] <= clock - FlapWindow]_vars
  BY NextSteps DEF Sound, EndsFlapping
<1> QED
  BY <1>1, StatesKept, PTL DEF Spec, FlappingEnds

(* What the map's queries make of device_states and the alerts is, right
   after a build wrote both, what the board shows. *)
THEOREM MapCountsAlike == Spec => MapAgrees
<1>1. StatesInv /\ [Next]_vars =>
        [\A b \in build : build' = {} /\ shown' \in {"up", "down", "pending"} =>
           /\ pending_device(clock)' <=> shown' = "pending"
           /\ flapping_device(clock)' <=> \E n \in row' : n.flapping # {}]_vars
  BY NextSteps DEF Sound, Agrees
<1> QED
  BY <1>1, StatesKept, PTL DEF Spec, MapAgrees

(* A webhook's alert not heard of for WEBHOOK_ALERT_TTL starts anew when it
   fires again: it does not carry on from before.  Its start is the one its tool
   now says, so this takes a tool that says no start from before that time. *)
THEOREM FiresAnew == Late < Ttl /\ Spec => HookStartsAnew
<1>1. ASSUME Late < Ttl, StatesInv, [Next]_vars
      PROVE  [\A k \in Keys : \A r \in hook[k], n \in hook'[k] :
                r.updated <= cutoff /\ n.updated = clock => n.started > r.updated]_vars
  BY <1>1, NextSteps DEF StartsAnew
<1>2. CASE ~ (Late < Ttl)
  BY <1>2
<1>3. CASE Late < Ttl
  BY <1>1, <1>3, StatesKept, PTL DEF Spec, HookStartsAnew
<1> QED
  BY <1>2, <1>3
=============================================================================
