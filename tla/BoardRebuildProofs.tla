------------------------- MODULE BoardRebuildProofs -------------------------
(***************************************************************************)
(* Proofs about BoardRebuild for every set of devices, webhooks, changes   *)
(* and threads.                                                            *)
(***************************************************************************)
EXTENDS BoardRebuild, TLAPS

(* What a build starts from is a well-typed content. *)
LEMMA EmptyContentType == EmptyContent \in Content
  BY DEF EmptyContent, Content

(* A thread that looked at nothing has a well-typed sight. *)
LEMMA NothingSeenType == NothingSeen \in Sights
  BY DEF NothingSeen, Sights

(* What the three pending_* readers return is well typed. *)
LEMMA PendingType == TypeOK => Pending \in Sights
  BY DEF TypeOK, SourcesOK, Pending, Sights

(* What completed builds have read, joined with one more build's content. *)
LEMMA JoinType ==
    ASSUME NEW a \in Content, NEW b \in Content PROVE Join(a, b) \in Content
  BY DEF Content, Join, MaxOf

(* A rebuild thread that starts leaves well-typed locals, ... *)
LEMMA SpawnType ==
    ASSUME TypeOK, NEW always \in BOOLEAN, Spawn(always) PROVE LocalsOK'
  BY DEF TypeOK, LocalsOK, Spawn, Places, Threads, Builders, Schedulers

(* ... so does a step that leaves the threads alone, ... *)
LEMMA SameLocalsType == ASSUME TypeOK, UNCHANGED locals PROVE LocalsOK'
  BY DEF TypeOK, LocalsOK, locals

(* ... board_changed with or without a scheduler, ... *)
LEMMA SpawnIfStartedType == ASSUME TypeOK, SpawnIfStarted PROVE LocalsOK'
  <1>1. Spawn(TRUE) \/ UNCHANGED locals
    BY DEF SpawnIfStarted
  <1>2. QED
    BY <1>1, SpawnType, SameLocalsType

(* ... and a thread that ends. *)
LEMMA ForgetType ==
    ASSUME TypeOK, NEW t \in Threads, Forget(t), UNCHANGED served PROVE LocalsOK'
  BY EmptyContentType, NothingSeenType DEF TypeOK, LocalsOK, Forget, Places

(* One step keeps the types: the fact the other proofs start from. *)
LEMMA TypeStep == ASSUME TypeOK, [Next]_vars PROVE TypeOK'
<1>1. ASSUME NEW d \in Devices, PushStore(d) PROVE TypeOK'
  BY <1>1 DEF TypeOK, SourcesOK, SharedOK, LocalsOK, PushStore, locks, locals
<1>2. ASSUME NEW d \in Devices, PushNotify(d) PROVE TypeOK'
  <2>1. LocalsOK'
    BY <1>2, SpawnType DEF TypeOK, PushNotify
  <2>2. SourcesOK' /\ SharedOK'
    BY <1>2 DEF TypeOK, SourcesOK, SharedOK, PushNotify, locks
  <2>3. QED
    BY <2>1, <2>2 DEF TypeOK
<1>3. ASSUME NEW h \in Hooks, HookStamp(h) PROVE TypeOK'
  BY <1>3 DEF TypeOK, SourcesOK, SharedOK, LocalsOK, HookStamp, locks, locals
<1>4. ASSUME NEW h \in Hooks, HookCommit(h) PROVE TypeOK'
  BY <1>4 DEF TypeOK, SourcesOK, SharedOK, LocalsOK, HookCommit, locks, locals
<1>5. ASSUME NEW h \in Hooks, HookNotify(h) PROVE TypeOK'
  <2>1. LocalsOK'
    BY <1>5, SpawnType DEF TypeOK, HookNotify
  <2>2. SourcesOK' /\ SharedOK'
    BY <1>5 DEF TypeOK, SourcesOK, SharedOK, HookNotify, locks
  <2>3. QED
    BY <2>1, <2>2 DEF TypeOK
<1>6. ASSUME NEW c \in Changes, ChangeSave(c) PROVE TypeOK'
  BY <1>6 DEF TypeOK, SourcesOK, SharedOK, LocalsOK, ChangeSave, locks, locals
<1>7. ASSUME NEW c \in Changes, ChangeDrop(c) PROVE TypeOK'
  BY <1>7 DEF TypeOK, SourcesOK, SharedOK, LocalsOK, ChangeDrop, locks, locals
<1>8. ASSUME NEW c \in Changes, ChangeRequest(c) PROVE TypeOK'
  BY <1>8 DEF TypeOK, SourcesOK, SharedOK, LocalsOK, ChangeRequest, locks, locals
<1>9. ASSUME NEW c \in Changes, ChangeLost(c) PROVE TypeOK'
  <2>1. LocalsOK'
    BY <1>9, SpawnIfStartedType, SameLocalsType DEF TypeOK, ChangeLost
  <2>2. SourcesOK' /\ SharedOK'
    BY <1>9 DEF TypeOK, SourcesOK, SharedOK, ChangeLost, locks
  <2>3. QED
    BY <2>1, <2>2 DEF TypeOK
<1>10. ASSUME NEW c \in Changes, ChangeNotify(c) PROVE TypeOK'
  <2>1. LocalsOK'
    BY <1>10, SpawnIfStartedType, SameLocalsType DEF TypeOK, ChangeNotify
  <2>2. SourcesOK' /\ SharedOK'
    BY <1>10 DEF TypeOK, SourcesOK, SharedOK, ChangeNotify, locks
  <2>3. QED
    BY <2>1, <2>2 DEF TypeOK
<1>11. ASSUME NEW t \in Tickers, TickStart(t) PROVE TypeOK'
  BY <1>11 DEF TypeOK, SourcesOK, SharedOK, LocalsOK, TickStart, Places,
     Threads, Builders, Schedulers, sources, locks
<1>12. ASSUME NEW t \in Tickers, SkipSync(t) PROVE TypeOK'
  BY <1>12 DEF TypeOK, SourcesOK, SharedOK, LocalsOK, SkipSync, Places,
     Threads, Builders, Schedulers, sources, locks
<1>13. ASSUME NEW t \in Tickers, SyncFails(t) PROVE TypeOK'
  BY <1>13 DEF TypeOK, SourcesOK, SharedOK, LocalsOK, SyncFails, Places,
     Threads, Builders, Schedulers, sources, locks
<1>14. ASSUME NEW t \in Tickers \cup Syncers, SyncCommit(t) PROVE TypeOK'
  BY <1>14 DEF TypeOK, SourcesOK, SharedOK, LocalsOK, SyncCommit, Places,
     Threads, Builders, Schedulers, sources, locks
<1>15. ASSUME NEW t \in Tickers \cup Syncers, SyncInvalidate(t) PROVE TypeOK'
  BY <1>15 DEF TypeOK, SourcesOK, SharedOK, LocalsOK, SyncInvalidate,
     Places, Threads, Builders, Schedulers, sources, locks
<1>16. ASSUME NEW t \in Rebuilders, RebuildStart(t) PROVE TypeOK'
  <2>0. t \in Threads
    BY <1>16 DEF Threads, Builders, Schedulers
  <2>1. CASE schedLock = None
    BY <1>16, <2>0, <2>1 DEF TypeOK, SourcesOK, SharedOK, LocalsOK,
       RebuildStart, Forget, EmptyContent, NothingSeen, Content, Sights,
       Places, Schedulers, sources
  <2>2. CASE schedLock # None
    <3>1. LocalsOK'
      BY <1>16, <2>0, <2>2, ForgetType DEF TypeOK, RebuildStart
    <3>2. QED
      BY <1>16, <2>2, <3>1 DEF TypeOK, SourcesOK, SharedOK, RebuildStart, sources
  <2>3. QED
    BY <2>1, <2>2
<1>17. ASSUME NEW t \in Schedulers, ReadPending(t) PROVE TypeOK'
  <2>0. t \in Threads
    BY <1>17 DEF Threads, Builders
  <2>1. aborts' \in Nat
    BY <1>17 DEF TypeOK, SharedOK, ReadPending
  <2>2. CASE Forget(t) /\ schedLock' = None
    <3>1. LocalsOK'
      BY <1>17, <2>0, <2>2, ForgetType DEF TypeOK, ReadPending
    <3>2. QED
      BY <1>17, <2>1, <2>2, <3>1 DEF TypeOK, SourcesOK, SharedOK,
         ReadPending, sources
  <2>3. CASE ~ (Forget(t) /\ schedLock' = None)
    <3>1. PICK s \in {Pending, NothingSeen}, v \in Snapshots :
            /\ seen' = [seen EXCEPT ![t] = s]
            /\ label' = [label EXCEPT ![t] = v]
      BY <1>17, <2>3 DEF ReadPending
    <3>2. s \in Sights /\ v \in Nat \cup {None}
      BY PendingType, NothingSeenType DEF TypeOK, SharedOK, Snapshots
    <3>3. /\ pc' = [pc EXCEPT ![t] = "lock"]
          /\ UNCHANGED <<schedLock, built, force, round>>
      BY <1>17, <2>3 DEF ReadPending
    <3>4. LocalsOK'
      BY <1>17, <2>0, <3>1, <3>2, <3>3 DEF TypeOK, LocalsOK, ReadPending, Places
    <3>5. QED
      BY <1>17, <2>1, <3>3, <3>4 DEF TypeOK, SourcesOK, SharedOK,
         ReadPending, sources
  <2>4. QED
    BY <2>2, <2>3
<1>18. ASSUME NEW t \in Builders, LockBuild(t) PROVE TypeOK'
  BY <1>18 DEF TypeOK, SourcesOK, SharedOK, LocalsOK, LockBuild, WaitExpires,
     AfterLock, Places, Threads, Builders, Schedulers, sources, locks
<1>19. ASSUME NEW t \in Builders, ReadInventory(t) PROVE TypeOK'
  <2>0. t \in Threads
    BY <1>19 DEF Threads
  <2>1. PICK p \in {push} \cup (IF ReadsMayFail THEN {EmptyContent.push} ELSE {}) :
          built' = [built EXCEPT ![t] = [EmptyContent EXCEPT !.push = p, !.version = version]]
    BY <1>19 DEF ReadInventory
  <2>2. p \in [Devices -> Nat]
    BY EmptyContentType DEF TypeOK, SourcesOK, Content
  <2>3. built' \in [Threads -> Content]
    BY <2>0, <2>1, <2>2 DEF TypeOK, SharedOK, LocalsOK, Content, EmptyContent
  <2>4. QED
    BY <1>19, <2>0, <2>3 DEF TypeOK, SourcesOK, SharedOK, LocalsOK,
       ReadInventory, Places, sources, locks
<1>20. ASSUME NEW t \in Builders, ReadBoardData(t) PROVE TypeOK'
  <2>0. t \in Threads
    BY <1>20 DEF Threads
  <2>1. PICK hs \in SUBSET Hooks, cs \in SUBSET Changes :
          built' = [built EXCEPT ![t] = [@ EXCEPT !.hooks = hs, !.changes = cs]]
    BY <1>20 DEF ReadBoardData, Stored, Saved
  <2>2. [built[t] EXCEPT !.hooks = hs, !.changes = cs] \in Content
    BY <2>0 DEF TypeOK, LocalsOK, Content
  <2>3. built' \in [Threads -> Content]
    BY <2>0, <2>1, <2>2 DEF TypeOK, LocalsOK
  <2>4. QED
    BY <1>20, <2>0, <2>3 DEF TypeOK, SourcesOK, SharedOK, LocalsOK,
       ReadBoardData, Places, sources, locks
<1>21. ASSUME NEW t \in Builders, BuildFinish(t) PROVE TypeOK'
  <2>0. t \in Threads
    BY <1>21 DEF Threads
  <2>1. recorded' \in Content
    BY <1>21, <2>0, JoinType DEF TypeOK, SharedOK, LocalsOK, BuildFinish
  <2>2. cache' \in Boards \cup {None}
    BY <1>21, <2>0 DEF TypeOK, SharedOK, LocalsOK, BuildFinish, Boards
  <2>3. LocalsOK'
    BY <1>21, <2>0, EmptyContentType DEF TypeOK, LocalsOK, BuildFinish, Places
  <2>4. QED
    BY <1>21, <2>1, <2>2, <2>3 DEF TypeOK, SourcesOK, SharedOK,
       BuildFinish, Free, sources
<1>22. ASSUME NEW t \in Schedulers, Ack(t) PROVE TypeOK'
  <2>0. t \in Threads
    BY <1>22 DEF Threads, Builders
  <2>1. seen[t] \in Sights
    BY <2>0 DEF TypeOK, LocalsOK
  <2>2. aborts' \in Nat /\ hookRebuilt' \in Nat /\ changeRebuilt' \in Nat
    BY <1>22, <2>1 DEF TypeOK, SourcesOK, SharedOK, Ack, AckedChange, Sights
  <2>3. mark' \in [Devices -> Nat]
    BY <1>22 DEF TypeOK, SourcesOK, Ack, ClearedMarks
  <2>4. CASE t \in Rebuilders /\ round[t] + 1 < Rounds
    <3>1. LocalsOK'
      <4>1. pc' \in [Threads -> Places] /\ force' \in [Threads -> BOOLEAN]
        BY <1>22, <2>0, <2>4 DEF TypeOK, LocalsOK, Ack, Places
      <4>2. seen' \in [Threads -> Sights]
        BY <1>22, <2>0, <2>4, NothingSeenType DEF TypeOK, LocalsOK, Ack
      <4>3. round' \in [Threads -> Nat]
        BY <1>22, <2>0, <2>4 DEF TypeOK, LocalsOK, Ack
      <4>4. QED
        BY <1>22, <2>4, <4>1, <4>2, <4>3 DEF TypeOK, LocalsOK, Ack
    <3>2. QED
      BY <1>22, <2>2, <2>3, <2>4, <3>1 DEF TypeOK, SourcesOK, SharedOK, Ack
  <2>5. CASE ~ (t \in Rebuilders /\ round[t] + 1 < Rounds)
    <3>1. LocalsOK'
      BY <1>22, <2>0, <2>5, ForgetType DEF TypeOK, Ack
    <3>2. QED
      BY <1>22, <2>2, <2>3, <2>5, <3>1 DEF TypeOK, SourcesOK, SharedOK, Ack
  <2>6. QED
    BY <2>4, <2>5
<1>23. ASSUME NEW t \in Requests, RequestStart(t) PROVE TypeOK'
  BY <1>23 DEF TypeOK, SourcesOK, SharedOK, LocalsOK, RequestStart,
     Snapshots, Places, Threads, Builders, Schedulers, sources, locks
<1>24. ASSUME NEW t \in Requests, Serve(t) PROVE TypeOK'
  BY <1>24 DEF TypeOK, SourcesOK, SharedOK, LocalsOK, Serve, Current, Free,
     Places, Boards, Content, Threads, Builders, Schedulers, sources, locks
<1>25. ASSUME NEW t \in Requests, Miss(t) PROVE TypeOK'
  BY <1>25 DEF TypeOK, SourcesOK, SharedOK, LocalsOK, Miss, Current, Places,
     Threads, Builders, Schedulers, sources, locks
<1>26. ASSUME NEW t \in Threads, Abort(t) PROVE TypeOK'
  <2>0. t \in Threads
    BY <1>26 DEF Threads, Builders, Schedulers
  <2>1. LocalsOK'
    BY <1>26, ForgetType DEF TypeOK, Abort
  <2>2. SourcesOK' /\ SharedOK'
    BY <1>26 DEF TypeOK, SourcesOK, SharedOK, Abort, Free, sources
  <2>3. QED
    BY <2>1, <2>2 DEF TypeOK
<1>27. CASE CacheExpire
  BY <1>27 DEF TypeOK, SourcesOK, SharedOK, LocalsOK, CacheExpire, sources,
     locks, locals
<1>28. CASE UNCHANGED vars
  BY <1>28 DEF TypeOK, SourcesOK, SharedOK, LocalsOK, vars, sources, locks, locals
<1>29. QED
  BY <1>1, <1>2, <1>3, <1>4, <1>5, <1>6, <1>7, <1>8, <1>9, <1>10, <1>11,
     <1>12, <1>13, <1>14, <1>15, <1>16, <1>17, <1>18, <1>19, <1>20,
     <1>21, <1>22, <1>23, <1>24, <1>25, <1>26, <1>27, <1>28
  DEF Next, SourceStep, TickStep, RebuildStep, BuildStep, AnswerStep, Schedulers,
      Builders, Threads

(* Every variable keeps its type, whatever the sets and bounds are. *)
THEOREM TypeCorrect == Spec => []TypeOK
<1>1. Init => TypeOK
  <2>1. SUFFICES ASSUME Init PROVE TypeOK
    OBVIOUS
  <2>2. SourcesOK
    BY <2>1 DEF Init, SourcesOK
  <2>3. SharedOK
    BY <2>1, EmptyContentType DEF Init, SharedOK
  <2>4. LocalsOK
    BY <2>1, EmptyContentType, NothingSeenType DEF Init, LocalsOK, Places
  <2>5. QED
    BY <2>2, <2>3, <2>4 DEF TypeOK
<1>2. TypeOK /\ [Next]_vars => TypeOK'
  BY TypeStep
<1>3. QED
  BY <1>1, <1>2, PTL DEF Spec

-----------------------------------------------------------------------------
(* Most steps do not touch what a thread has read between its build's first
   read and its acknowledgement. *)
Built == {"read2", "write", "ack"}

(* A thread's step outside its build: nothing changes, or it is (again) in a
   place where it has not built, with nothing or the pending work seen. *)
ThreadMove(t) ==
    \/ seen'[t] = seen[t] /\ built'[t] = built[t] /\ pc'[t] = pc[t]
    \/ seen'[t] \in {seen[t], NothingSeen, Pending} /\ pc'[t] \notin Built

(* A step of that kind for every thread, leaving the sources alone. *)
OtherMove ==
    /\ \A t \in Threads : ThreadMove(t)
    /\ UNCHANGED <<push, mark, pushSeq, change, changeAt, requested, clock>>
    /\ UNCHANGED <<recorded, changeRebuilt>>

(* A push, a webhook or a change. *)
SourceMove ==
    /\ \A t \in Threads : ThreadMove(t)
    /\ UNCHANGED <<recorded, changeRebuilt>>
    /\ \/ \E d \in Devices : PushStore(d)
       \/ \E h \in Hooks : HookStamp(h)
       \/ \E c \in Changes : ChangeSave(c) \/ ChangeDrop(c) \/ ChangeRequest(c)
                             \/ ChangeLost(c) \/ ChangeNotify(c)

(* A step of a build, or its acknowledgement. *)
BuildMove(t) ==
    ReadInventory(t) \/ ReadBoardData(t) \/ BuildFinish(t) \/ Ack(t)

(* Starting a thread is such a move. *)
LEMMA SpawnMove ==
    ASSUME TypeOK, NEW always \in BOOLEAN, Spawn(always)
    PROVE  \A t \in Threads : ThreadMove(t)
  BY DEF TypeOK, LocalsOK, Spawn, ThreadMove, Built

(* Leaving the threads alone is such a move, ... *)
LEMMA SameMove == ASSUME UNCHANGED locals PROVE \A t \in Threads : ThreadMove(t)
  BY DEF locals, ThreadMove

(* ... so is board_changed with or without a scheduler, ... *)
LEMMA SpawnIfStartedMove ==
    ASSUME TypeOK, SpawnIfStarted PROVE \A t \in Threads : ThreadMove(t)
  <1>1. Spawn(TRUE) \/ UNCHANGED locals
    BY DEF SpawnIfStarted
  <1>2. QED
    BY <1>1, SpawnMove, SameMove

(* ... and a thread that ends or dies. *)
LEMMA ForgetMove ==
    ASSUME TypeOK, NEW u \in Threads, Forget(u)
    PROVE  \A t \in Threads : ThreadMove(t)
  BY DEF TypeOK, LocalsOK, Forget, ThreadMove, Built

(* Every step is a source's, a build's, or leaves all of it alone. *)
LEMMA StepKinds ==
    ASSUME TypeOK, [Next]_vars
    PROVE  SourceMove \/ OtherMove \/ \E t \in Builders : BuildMove(t)
<1>1. ASSUME NEW d \in Devices, PushStore(d) PROVE SourceMove
  BY <1>1, SameMove DEF SourceMove, PushStore
<1>2. ASSUME NEW h \in Hooks, HookStamp(h) PROVE SourceMove
  BY <1>2, SameMove DEF SourceMove, HookStamp
<1>3. ASSUME NEW c \in Changes, ChangeSave(c) \/ ChangeDrop(c) \/ ChangeRequest(c)
      PROVE SourceMove
  BY <1>3, SameMove DEF SourceMove, ChangeSave, ChangeDrop, ChangeRequest
<1>4. ASSUME NEW c \in Changes, ChangeLost(c) \/ ChangeNotify(c) PROVE SourceMove
  <2>1. \A t \in Threads : ThreadMove(t)
    BY <1>4, SameMove, SpawnIfStartedMove DEF ChangeLost, ChangeNotify
  <2>2. QED
    BY <1>4, <2>1 DEF SourceMove, ChangeLost, ChangeNotify
<1>5. ASSUME NEW d \in Devices, PushNotify(d) PROVE OtherMove
  BY <1>5, SpawnMove DEF OtherMove, PushNotify
<1>6. ASSUME NEW h \in Hooks, HookCommit(h) PROVE OtherMove
  BY <1>6, SameMove DEF OtherMove, HookCommit
<1>7. ASSUME NEW h \in Hooks, HookNotify(h) PROVE OtherMove
  BY <1>7, SpawnMove DEF OtherMove, HookNotify
<1>8. ASSUME CacheExpire \/ UNCHANGED vars PROVE OtherMove
  BY <1>8, SameMove DEF OtherMove, CacheExpire, vars, sources
<1>9. ASSUME NEW t \in Tickers, TickStep(t) PROVE OtherMove
  BY <1>9 DEF TypeOK, LocalsOK, OtherMove, ThreadMove, Built, TickStep, TickStart,
     SkipSync, SyncFails, sources, Threads, Builders, Schedulers
<1>10. ASSUME NEW t \in Tickers \cup Syncers, SyncCommit(t) \/ SyncInvalidate(t)
       PROVE OtherMove
  BY <1>10 DEF TypeOK, LocalsOK, OtherMove, ThreadMove, Built, SyncCommit,
     SyncInvalidate, sources, Threads, Builders, Schedulers
<1>11. ASSUME NEW t \in Rebuilders, RebuildStart(t) PROVE OtherMove
  <2>1. t \in Threads
    BY DEF Threads, Builders, Schedulers
  <2>2. \A u \in Threads : ThreadMove(u)
    BY <1>11, <2>1, ForgetMove
    DEF TypeOK, LocalsOK, ThreadMove, Built, RebuildStart
  <2>3. QED
    BY <1>11, <2>2 DEF OtherMove, RebuildStart, sources
<1>12. ASSUME NEW t \in Schedulers, ReadPending(t) PROVE OtherMove
  <2>1. t \in Threads
    BY DEF Threads, Builders
  <2>2. \A u \in Threads : ThreadMove(u)
    BY <1>12, <2>1, ForgetMove
    DEF TypeOK, LocalsOK, ThreadMove, Built, ReadPending
  <2>3. QED
    BY <1>12, <2>2 DEF OtherMove, ReadPending, sources
<1>13. ASSUME NEW t \in Builders, LockBuild(t) PROVE OtherMove
  BY <1>13 DEF TypeOK, LocalsOK, OtherMove, ThreadMove, Built, LockBuild,
     WaitExpires, AfterLock, sources, Threads
<1>14. ASSUME NEW t \in Requests, RequestStart(t) \/ Serve(t) \/ Miss(t)
       PROVE OtherMove
  BY <1>14 DEF TypeOK, LocalsOK, OtherMove, ThreadMove, Built, RequestStart, Serve,
     Miss, sources, Threads, Builders
<1>15. ASSUME NEW t \in Threads, Abort(t) PROVE OtherMove
  BY <1>15, ForgetMove DEF OtherMove, Abort, sources
<1>16. QED
  BY <1>1, <1>2, <1>3, <1>4, <1>5, <1>6, <1>7, <1>8, <1>9, <1>10, <1>11, <1>12,
     <1>13, <1>14, <1>15
  DEF Next, SourceStep, RebuildStep, BuildStep, AnswerStep, BuildMove, Schedulers,
      Builders

-----------------------------------------------------------------------------
(* Refreshes.  PushNotForgotten alone is not inductive: an acknowledgement is
   safe only because what the thread saw before its build is in the build,
   and no later push gets one of the sequence numbers it saw. *)

(* A row's mark is empty or its last refresh's number, as the sequence gave it. *)
PushMarks == \A d \in Devices : mark[d] \in {0, push[d]} /\ push[d] <= pushSeq

(* A thread has seen no number of the future; what it saw is in its build. *)
PushThread(t) ==
    /\ \A n \in seen[t].push : n <= pushSeq
    /\ pc[t] \in {"read2", "write"} =>
          \A d \in Devices : push[d] \in seen[t].push => built[t].push[d] >= push[d]
    /\ pc[t] = "ack" =>
          \A d \in Devices : push[d] \in seen[t].push => recorded.push[d] >= push[d]

(* The inductive invariant. *)
PushInv == PushMarks /\ (\A t \in Threads : PushThread(t)) /\ PushNotForgotten

(* What a thread reads as pending is no newer than the sequence. *)
LEMMA PendingPushes ==
    ASSUME TypeOK, PushInv PROVE \A n \in Pending.push : n <= pushSeq
  BY DEF TypeOK, SourcesOK, PushInv, PushMarks, Pending

(* A completed build only adds to what is recorded. *)
LEMMA JoinGrows ==
    ASSUME NEW a \in Content, NEW b \in Content
    PROVE  /\ \A d \in Devices : Join(a, b).push[d] >= a.push[d]
           /\ \A d \in Devices : Join(a, b).push[d] >= b.push[d]
           /\ a.changes \subseteq Join(a, b).changes
           /\ b.changes \subseteq Join(a, b).changes
  BY DEF Content, Join, MaxOf

(* PushInv is inductive when a build's reads do not fail. *)
LEMMA PushStep ==
    ASSUME ~ ReadsMayFail, TypeOK, PushInv, [Next]_vars PROVE PushInv'
<1>0. TypeOK'
  BY TypeStep
<1>1. CASE OtherMove
  <2>1. \A t \in Threads : PushThread(t)'
    <3> SUFFICES ASSUME NEW t \in Threads PROVE PushThread(t)'
      OBVIOUS
    <3>1. ThreadMove(t) /\ PushThread(t)
      BY <1>1 DEF OtherMove, PushInv
    <3>2. CASE seen'[t] = seen[t] /\ built'[t] = built[t] /\ pc'[t] = pc[t]
      BY <1>1, <3>1, <3>2 DEF PushThread, OtherMove
    <3>3. CASE seen'[t] \in {seen[t], NothingSeen, Pending} /\ pc'[t] \notin Built
      <4>1. \A n \in seen'[t].push : n <= pushSeq
        BY <3>1, <3>3, PendingPushes DEF PushThread, NothingSeen
      <4>2. QED
        BY <1>1, <3>3, <4>1 DEF PushThread, OtherMove, Built
    <3>4. QED
      BY <3>1, <3>2, <3>3 DEF ThreadMove
  <2>2. QED
    BY <1>1, <2>1 DEF PushInv, OtherMove, PushMarks, PushNotForgotten
<1>2. CASE SourceMove
  <2>1. ASSUME NEW d \in Devices, PushStore(d) PROVE PushInv'
    <3>1. PushMarks' /\ PushNotForgotten'
      BY <2>1 DEF TypeOK, SourcesOK, SharedOK, Content, PushStore, PushInv, PushMarks,
         PushNotForgotten
    <3>2. ASSUME NEW t \in Threads PROVE PushThread(t)'
      <4>1. PushThread(t)
        BY DEF PushInv
      <4>2. seen[t].push \subseteq Nat
        BY DEF TypeOK, LocalsOK, Sights
      <4>3. push'[d] \notin seen[t].push
        BY <2>1, <4>1, <4>2 DEF TypeOK, SourcesOK, PushStore, PushThread
      <4>4. \A e \in Devices \ {d} : push'[e] = push[e]
        BY <2>1 DEF TypeOK, SourcesOK, PushStore
      <4>5. pushSeq' = pushSeq + 1
        BY <2>1 DEF PushStore
      <4>6. \A n \in seen[t].push : n <= pushSeq + 1
        BY <4>1, <4>2 DEF TypeOK, SourcesOK, PushThread
      <4>7. QED
        BY <2>1, <4>1, <4>3, <4>4, <4>5, <4>6 DEF PushThread, PushStore, locals
    <3>3. QED
      BY <3>1, <3>2 DEF PushInv
  <2>2. ASSUME UNCHANGED <<push, mark, pushSeq>> PROVE PushInv'
    <3>1. ASSUME NEW t \in Threads PROVE PushThread(t)'
      <4>1. ThreadMove(t) /\ PushThread(t)
        BY <1>2 DEF SourceMove, PushInv
      <4>2. CASE seen'[t] = seen[t] /\ built'[t] = built[t] /\ pc'[t] = pc[t]
        BY <1>2, <2>2, <4>1, <4>2 DEF PushThread, SourceMove
      <4>3. CASE seen'[t] \in {seen[t], NothingSeen, Pending} /\ pc'[t] \notin Built
        <5>1. \A n \in seen'[t].push : n <= pushSeq
          BY <4>1, <4>3, PendingPushes DEF PushThread, NothingSeen
        <5>2. QED
          BY <2>2, <4>3, <5>1 DEF PushThread, Built
      <4>4. QED
        BY <4>1, <4>2, <4>3 DEF ThreadMove
    <3>2. QED
      BY <1>2, <2>2, <3>1 DEF PushInv, SourceMove, PushMarks, PushNotForgotten
  <2>3. QED
    BY <1>2, <2>1, <2>2 DEF SourceMove, HookStamp, ChangeSave, ChangeDrop,
       ChangeRequest, ChangeLost, ChangeNotify
<1>3. ASSUME NEW t \in Builders, BuildMove(t) PROVE PushInv'
  <2>0. t \in Threads
    BY DEF Threads
  <2>1. CASE ReadInventory(t)
    <3>1. built'[t].push = push /\ seen' = seen /\ pc' = [pc EXCEPT ![t] = "read2"]
      BY <2>0, <2>1 DEF ReadInventory, TypeOK, LocalsOK, EmptyContent
    <3>2. \A u \in Threads \ {t} : built'[u] = built[u] /\ pc'[u] = pc[u]
      BY <2>1 DEF ReadInventory, TypeOK, LocalsOK
    <3>3. PushThread(t)'
      BY <2>0, <2>1, <3>1 DEF PushInv, PushThread, ReadInventory, sources, TypeOK,
         LocalsOK, SourcesOK
    <3>4. \A u \in Threads \ {t} : PushThread(u)'
      BY <2>1, <3>1, <3>2 DEF PushInv, PushThread, ReadInventory, sources
    <3>5. QED
      BY <2>1, <3>3, <3>4 DEF PushInv, PushMarks, PushNotForgotten, ReadInventory,
         sources
  <2>2. CASE ReadBoardData(t)
    <3>1. built'[t].push = built[t].push /\ seen' = seen /\ pc[t] = "read2"
      BY <2>0, <2>2 DEF ReadBoardData, TypeOK, LocalsOK, Content
    <3>2. \A u \in Threads \ {t} : built'[u] = built[u] /\ pc'[u] = pc[u]
      BY <2>2 DEF ReadBoardData, TypeOK, LocalsOK
    <3>3. PushThread(t)'
      BY <2>0, <2>2, <3>1 DEF PushInv, PushThread, ReadBoardData, sources, TypeOK,
         LocalsOK
    <3>4. \A u \in Threads \ {t} : PushThread(u)'
      BY <2>2, <3>1, <3>2 DEF PushInv, PushThread, ReadBoardData, sources
    <3>5. QED
      BY <2>2, <3>3, <3>4 DEF PushInv, PushMarks, PushNotForgotten, ReadBoardData,
         sources
  <2>3. CASE BuildFinish(t)
    <3>1. /\ \A d \in Devices : recorded'.push[d] >= recorded.push[d]
          /\ \A d \in Devices : recorded'.push[d] >= built[t].push[d]
      BY <2>0, <2>3, JoinGrows DEF BuildFinish, TypeOK, SharedOK, LocalsOK
    <3>2. /\ seen' = seen /\ pc[t] = "write" /\ pc'[t] \in {"idle", "ack"}
          /\ \A u \in Threads \ {t} : built'[u] = built[u] /\ pc'[u] = pc[u]
          /\ UNCHANGED <<push, mark, pushSeq>>
      BY <2>0, <2>3 DEF BuildFinish, TypeOK, LocalsOK, sources
    <3>3. \A d \in Devices : /\ push[d] \in Nat /\ recorded.push[d] \in Nat
                             /\ recorded'.push[d] \in Nat /\ built[t].push[d] \in Nat
      BY <1>0, <2>0 DEF TypeOK, SourcesOK, SharedOK, LocalsOK, Content
    <3>4. PushThread(t)'
      BY <2>0, <3>1, <3>2, <3>3 DEF PushInv, PushThread
    <3>5. \A u \in Threads \ {t} : PushThread(u)'
      BY <3>1, <3>2, <3>3 DEF PushInv, PushThread
    <3>6. PushMarks' /\ PushNotForgotten'
      BY <3>1, <3>2, <3>3 DEF PushInv, PushMarks, PushNotForgotten
    <3>7. QED
      BY <3>4, <3>5, <3>6 DEF PushInv
  <2>4. CASE Ack(t)
    <3>1. /\ UNCHANGED <<push, pushSeq, recorded>> /\ pc[t] = "ack"
          /\ mark' = [d \in Devices |-> IF mark[d] \in seen[t].push THEN 0 ELSE mark[d]]
      BY <2>4 DEF Ack, ClearedMarks
    <3>2. pc'[t] \notin Built /\ seen'[t] = NothingSeen
      BY <2>0, <2>4 DEF Ack, Forget, Built, TypeOK, LocalsOK
    <3>3. \A u \in Threads \ {t} :
             seen'[u] = seen[u] /\ built'[u] = built[u] /\ pc'[u] = pc[u]
      BY <2>4 DEF Ack, Forget, TypeOK, LocalsOK
    <3>4. PushNotForgotten'
      BY <2>0, <3>1 DEF PushInv, PushMarks, PushThread, PushNotForgotten
    <3>5. PushMarks'
      BY <3>1 DEF PushInv, PushMarks
    <3>6. PushThread(t)'
      BY <3>2 DEF PushThread, Built, NothingSeen
    <3>7. \A u \in Threads \ {t} : PushThread(u)'
      BY <3>1, <3>3 DEF PushInv, PushThread
    <3>8. QED
      BY <3>4, <3>5, <3>6, <3>7 DEF PushInv
  <2>5. QED
    BY <1>3, <2>1, <2>2, <2>3, <2>4 DEF BuildMove
<1>4. QED
  BY <1>1, <1>2, <1>3, StepKinds

(* No refresh is forgotten: with any number of devices, threads, processes,
   exceptions and crashes, and builds that outlast the wait. *)
THEOREM PushesKept == ~ ReadsMayFail /\ Spec => []PushNotForgotten
<1>1. ASSUME Init PROVE PushInv
  BY <1>1 DEF Init, PushInv, PushMarks, PushThread, PushNotForgotten, NothingSeen,
     EmptyContent
<1>2. ASSUME ~ ReadsMayFail, TypeOK, PushInv, [Next]_vars PROVE PushInv'
  BY <1>2, PushStep
<1>3. PushInv => PushNotForgotten
  BY DEF PushInv
<1>4. CASE ReadsMayFail
  BY <1>4
<1>5. CASE ~ ReadsMayFail
  BY <1>1, <1>2, <1>3, <1>5, TypeCorrect, PTL DEF Spec
<1>6. QED
  BY <1>4, <1>5

-----------------------------------------------------------------------------
(* Changes.  A change is committed before its timestamp is taken, so whoever
   sees the timestamp builds from the change; and no timestamp taken after an
   acknowledgement is as old as it. *)

(* Every timestamp is of the past, and of a change that was saved. *)
ChangeTimes ==
    /\ \A c \in Changes : changeAt[c] <= clock /\ (changeAt[c] # 0 => c \in Saved)
    /\ requested <= clock /\ changeRebuilt <= clock

(* Changes up to the time a thread saw are in its build. *)
ChangeThread(t) ==
    /\ seen[t].change <= clock
    /\ pc[t] = "write" =>
          \A c \in Changes : changeAt[c] \in 1 .. seen[t].change => c \in built[t].changes
    /\ pc[t] = "ack" =>
          \A c \in Changes : changeAt[c] \in 1 .. seen[t].change => c \in recorded.changes

(* The inductive invariant. *)
ChangeInv == ChangeTimes /\ (\A t \in Threads : ChangeThread(t)) /\ ChangeAckCovered

(* A thread outside its build's last two places owes nothing. *)
LEMMA ChangeThreadMove ==
    ASSUME TypeOK, ChangeInv, NEW t \in Threads, ThreadMove(t), clock' \in Nat,
           clock <= clock', UNCHANGED recorded,
           \A c \in Changes : changeAt'[c] = changeAt[c] \/ changeAt'[c] > clock
    PROVE  ChangeThread(t)'
<1>1. /\ ChangeThread(t) /\ clock \in Nat /\ seen[t].change \in Nat
      /\ requested \in Nat /\ requested <= clock
  BY DEF ChangeInv, ChangeTimes, TypeOK, SourcesOK, LocalsOK, Sights
<1>2. CASE seen'[t] = seen[t] /\ built'[t] = built[t] /\ pc'[t] = pc[t]
  BY <1>1, <1>2 DEF ChangeThread
<1>3. CASE seen'[t] \in {seen[t], NothingSeen, Pending} /\ pc'[t] \notin Built
  <2>1. seen'[t].change \in {seen[t].change, 0, requested}
    BY <1>3 DEF NothingSeen, Pending
  <2>2. seen'[t].change <= clock'
    <3>1. seen[t].change <= clock
      BY <1>1 DEF ChangeThread
    <3>2. QED
      BY <1>1, <2>1, <3>1
  <2>3. QED
    BY <1>3, <2>2 DEF ChangeThread, Built
<1>4. QED
  BY <1>2, <1>3 DEF ThreadMove

(* ChangeInv is inductive when a build's reads do not fail. *)
LEMMA ChangeStep ==
    ASSUME ~ ReadsMayFail, TypeOK, ChangeInv, [Next]_vars PROVE ChangeInv'
<1>0. TypeOK'
  BY TypeStep
<1>1. CASE OtherMove
  <2>1. \A t \in Threads : ChangeThread(t)'
    BY <1>0, <1>1, ChangeThreadMove DEF OtherMove, TypeOK, SourcesOK
  <2>2. QED
    BY <1>1, <2>1 DEF ChangeInv, ChangeTimes, ChangeAckCovered, OtherMove, Saved
<1>2. CASE SourceMove
  <2>1. clock <= clock' /\ \A c \in Changes : changeAt'[c] = changeAt[c] \/ changeAt'[c] > clock
    BY <1>2 DEF SourceMove, TypeOK, SourcesOK, PushStore, HookStamp, ChangeSave,
       ChangeDrop, ChangeRequest, ChangeLost, ChangeNotify
  <2>2. \A t \in Threads : ChangeThread(t)'
    BY <1>0, <1>2, <2>1, ChangeThreadMove DEF SourceMove, TypeOK, SourcesOK
  <2>3. ChangeTimes'
    <3>1. ASSUME NEW d \in Devices, PushStore(d) PROVE ChangeTimes'
      BY <3>1 DEF ChangeInv, ChangeTimes, Saved, PushStore
    <3>2. ASSUME NEW h \in Hooks, HookStamp(h) PROVE ChangeTimes'
      BY <3>2 DEF ChangeInv, ChangeTimes, Saved, HookStamp, TypeOK, SourcesOK
    <3>3. ASSUME NEW c \in Changes, ChangeSave(c) PROVE ChangeTimes'
      BY <3>3 DEF ChangeInv, ChangeTimes, Saved, ChangeSave, TypeOK, SourcesOK
    <3>4. ASSUME NEW c \in Changes, ChangeDrop(c) PROVE ChangeTimes'
      BY <3>4 DEF ChangeInv, ChangeTimes, Saved, ChangeDrop, TypeOK, SourcesOK
    <3>5. ASSUME NEW c \in Changes, ChangeRequest(c) PROVE ChangeTimes'
      BY <3>5 DEF ChangeInv, ChangeTimes, Saved, ChangeRequest, TypeOK, SourcesOK
    <3>6. ASSUME NEW c \in Changes, ChangeLost(c) \/ ChangeNotify(c) PROVE ChangeTimes'
      BY <3>6 DEF ChangeInv, ChangeTimes, Saved, ChangeLost, ChangeNotify, TypeOK,
         SourcesOK
    <3>7. QED
      BY <1>2, <3>1, <3>2, <3>3, <3>4, <3>5, <3>6 DEF SourceMove
  <2>4. ChangeAckCovered'
    BY <1>0, <1>2, <2>1 DEF SourceMove, ChangeInv, ChangeTimes, ChangeAckCovered,
       TypeOK, SourcesOK
  <2>5. QED
    BY <2>2, <2>3, <2>4 DEF ChangeInv
<1>3. ASSUME NEW t \in Builders, BuildMove(t) PROVE ChangeInv'
  <2>0. t \in Threads
    BY DEF Threads
  <2>1. CASE ReadInventory(t)
    <3>1. pc' = [pc EXCEPT ![t] = "read2"] /\ UNCHANGED <<sources, seen, recorded>>
      BY <2>1 DEF ReadInventory
    <3>2. \A u \in Threads \ {t} : built'[u] = built[u] /\ pc'[u] = pc[u]
      BY <2>1 DEF ReadInventory, TypeOK, LocalsOK
    <3>3. \A u \in Threads : ChangeThread(u)'
      BY <2>0, <3>1, <3>2 DEF ChangeInv, ChangeThread, TypeOK, LocalsOK, sources
    <3>4. QED
      BY <3>1, <3>3 DEF ChangeInv, ChangeTimes, ChangeAckCovered, Saved, sources
  <2>2. CASE ReadBoardData(t)
    <3>1. /\ pc' = [pc EXCEPT ![t] = "write"] /\ UNCHANGED <<sources, seen, recorded>>
          /\ \E hs \in SUBSET Hooks :
                built' = [built EXCEPT ![t] = [@ EXCEPT !.hooks = hs, !.changes = Saved]]
      BY <2>2 DEF ReadBoardData, Stored
    <3>2. built'[t].changes = Saved
      BY <2>0, <3>1 DEF TypeOK, LocalsOK, Content
    <3>3. \A u \in Threads \ {t} : built'[u] = built[u] /\ pc'[u] = pc[u]
      BY <2>2 DEF ReadBoardData, TypeOK, LocalsOK
    <3>4. ChangeThread(t)'
      BY <2>0, <3>1, <3>2 DEF ChangeInv, ChangeTimes, ChangeThread, TypeOK, LocalsOK,
         SourcesOK, Sights, sources
    <3>5. \A u \in Threads \ {t} : ChangeThread(u)'
      BY <3>1, <3>3 DEF ChangeInv, ChangeThread, sources
    <3>6. QED
      BY <3>1, <3>4, <3>5 DEF ChangeInv, ChangeTimes, ChangeAckCovered, Saved, sources
  <2>3. CASE BuildFinish(t)
    <3>1. recorded.changes \subseteq recorded'.changes
          /\ built[t].changes \subseteq recorded'.changes
      BY <2>0, <2>3, JoinGrows DEF BuildFinish, TypeOK, SharedOK, LocalsOK
    <3>2. /\ pc[t] = "write" /\ pc'[t] \in {"idle", "ack"} /\ UNCHANGED <<sources, seen>>
          /\ \A u \in Threads \ {t} : built'[u] = built[u] /\ pc'[u] = pc[u]
      BY <2>0, <2>3 DEF BuildFinish, TypeOK, LocalsOK
    <3>3. \A u \in Threads : ChangeThread(u)'
      BY <2>0, <3>1, <3>2 DEF ChangeInv, ChangeThread, sources
    <3>4. QED
      BY <3>1, <3>2, <3>3 DEF ChangeInv, ChangeTimes, ChangeAckCovered, Saved, sources
  <2>4. CASE Ack(t)
    <3>1. /\ pc[t] = "ack"
          /\ UNCHANGED <<change, changeAt, requested, clock, recorded>>
          /\ changeRebuilt' \in {changeRebuilt, seen[t].change}
      BY <2>4 DEF Ack, AckedChange
    <3>2. /\ pc'[t] \notin Built /\ seen'[t] = NothingSeen
          /\ \A u \in Threads \ {t} :
                seen'[u] = seen[u] /\ built'[u] = built[u] /\ pc'[u] = pc[u]
      BY <2>0, <2>4 DEF Ack, Forget, Built, TypeOK, LocalsOK
    <3>3. ChangeThread(t) /\ ChangeTimes /\ ChangeAckCovered
      BY <2>0 DEF ChangeInv
    <3>4. ChangeTimes' /\ ChangeAckCovered'
      BY <3>1, <3>3 DEF ChangeThread, ChangeTimes, ChangeAckCovered, Saved
    <3>5. \A u \in Threads : ChangeThread(u)'
      BY <2>0, <3>1, <3>2 DEF ChangeInv, ChangeThread, Built, NothingSeen, TypeOK,
         SourcesOK
    <3>6. QED
      BY <3>4, <3>5 DEF ChangeInv
  <2>5. QED
    BY <1>3, <2>1, <2>2, <2>3, <2>4 DEF BuildMove
<1>4. QED
  BY <1>1, <1>2, <1>3, StepKinds

(* An acknowledged change is always in a completed build. *)
THEOREM ChangesCovered == ~ ReadsMayFail /\ Spec => []ChangeAckCovered
<1>1. ASSUME Init PROVE ChangeInv
  BY <1>1 DEF Init, ChangeInv, ChangeTimes, ChangeThread, ChangeAckCovered, Saved,
     NothingSeen, EmptyContent
<1>2. ASSUME ~ ReadsMayFail, TypeOK, ChangeInv, [Next]_vars PROVE ChangeInv'
  BY <1>2, ChangeStep
<1>3. ChangeInv => ChangeAckCovered
  BY DEF ChangeInv
<1>4. CASE ReadsMayFail
  BY <1>4
<1>5. CASE ~ ReadsMayFail
  BY <1>1, <1>2, <1>3, <1>5, TypeCorrect, PTL DEF Spec
<1>6. QED
  BY <1>4, <1>5

-----------------------------------------------------------------------------
(* What is served.  A board is labelled with a version read before it was
   built, and built from one that is no older. *)
Reading == {"read2", "write"}

FreshInv ==
    /\ \A t \in Threads : label[t] \in Nat /\ label[t] <= version
    /\ \A t \in Threads : pc[t] \in Reading => built[t].version >= label[t]
    /\ cache # None => cache.label \in Nat /\ cache.content.version >= cache.label
    /\ ServedFresh

(* A thread keeps what it has read, or is not reading any more.             *)
KeepsReading(t) ==
    /\ label'[t] \in {label[t], 0}
    /\ pc'[t] \in Reading =>
         label'[t] = label[t] /\ built'[t] = built[t] /\ pc[t] \in Reading

(* A step that stores, serves and reads nothing new. *)
FreshMove ==
    /\ \A t \in Threads : KeepsReading(t)
    /\ version' \in Nat /\ version <= version'
    /\ cache' \in {cache, None}
    /\ served' = served

(* A new thread has read nothing.                                          *)
LEMMA SpawnKeepsReading ==
    ASSUME TypeOK, (\E always \in BOOLEAN : Spawn(always)) \/ SpawnIfStarted
                   \/ UNCHANGED locals
    PROVE  (\A t \in Threads : KeepsReading(t)) /\ served' = served
<1>1. (\E always : Spawn(always)) \/ UNCHANGED locals
  BY DEF SpawnIfStarted
<1> QED
  BY <1>1 DEF TypeOK, LocalsOK, Spawn, KeepsReading, Reading, locals

(* A thread that ends is not reading.                                      *)
LEMMA ForgetKeepsReading ==
    ASSUME TypeOK, NEW u \in Threads, Forget(u)
    PROVE  \A t \in Threads : KeepsReading(t)
  BY DEF TypeOK, LocalsOK, Forget, KeepsReading, Reading

(* The steps that look at versions, and the others. *)
LEMMA FreshKinds ==
    ASSUME TypeOK, [Next]_vars
    PROVE  \/ FreshMove
           \/ \E t \in Schedulers : ReadPending(t)
           \/ \E t \in Builders : ReadInventory(t) \/ ReadBoardData(t) \/ BuildFinish(t)
           \/ \E t \in Requests : RequestStart(t) \/ Serve(t)
<1> DEFINE Same == version' = version /\ cache' \in {cache, None}
<1>0. version \in Nat
  BY DEF TypeOK, SharedOK
<1>1. CASE SourceStep
  <2>1. Same /\ ((\E always \in BOOLEAN : Spawn(always)) \/ SpawnIfStarted
                 \/ UNCHANGED locals)
    BY <1>1 DEF SourceStep, PushStore, PushNotify, HookStamp, HookCommit, HookNotify,
       ChangeSave, ChangeDrop, ChangeRequest, ChangeLost, ChangeNotify, CacheExpire
  <2> QED
    BY <1>0, <2>1, SpawnKeepsReading DEF FreshMove
<1>2. CASE UNCHANGED vars
  BY <1>0, <1>2, SpawnKeepsReading DEF FreshMove, vars
<1>3. ASSUME NEW t \in Tickers, TickStep(t) PROVE FreshMove
  BY <1>0, <1>3 DEF TypeOK, LocalsOK, FreshMove, KeepsReading, Reading, TickStep,
     TickStart, SkipSync, SyncFails
<1>4. ASSUME NEW t \in Tickers \cup Syncers, SyncCommit(t) \/ SyncInvalidate(t)
      PROVE FreshMove
  BY <1>0, <1>4 DEF TypeOK, LocalsOK, FreshMove, KeepsReading, Reading, SyncCommit,
     SyncInvalidate
<1>5. ASSUME NEW t \in Rebuilders, RebuildStart(t) PROVE FreshMove
  <2>1. t \in Threads
    BY DEF Threads, Builders, Schedulers
  <2>2. \A u \in Threads : KeepsReading(u)
    BY <1>5, <2>1, ForgetKeepsReading
    DEF TypeOK, LocalsOK, KeepsReading, Reading, RebuildStart
  <2> QED
    BY <1>0, <1>5, <2>2 DEF FreshMove, RebuildStart
<1>6. ASSUME NEW t \in Builders, LockBuild(t) PROVE FreshMove
  BY <1>0, <1>6 DEF TypeOK, LocalsOK, FreshMove, KeepsReading, Reading, LockBuild,
     WaitExpires, AfterLock
<1>7. ASSUME NEW t \in Schedulers, Ack(t) PROVE FreshMove
  <2>1. t \in Threads
    BY DEF Threads, Builders
  <2>2. \A u \in Threads : KeepsReading(u)
    BY <1>7, <2>1, ForgetKeepsReading
    DEF TypeOK, LocalsOK, KeepsReading, Reading, Ack
  <2> QED
    BY <1>0, <1>7, <2>2 DEF FreshMove, Ack
<1>8. ASSUME NEW t \in Requests, Miss(t) PROVE FreshMove
  BY <1>0, <1>8 DEF TypeOK, LocalsOK, FreshMove, KeepsReading, Reading, Miss
<1>9. ASSUME NEW t \in Threads, Abort(t) PROVE FreshMove
  BY <1>0, <1>9, ForgetKeepsReading DEF FreshMove, Abort
<1> HIDE DEF Same
<1> QED
  BY <1>1, <1>2, <1>3, <1>4, <1>5, <1>6, <1>7, <1>8, <1>9
  DEF Next, RebuildStep, BuildStep, AnswerStep, Schedulers, Builders

(* Every step keeps FreshInv.                                              *)
LEMMA FreshStep ==
    ASSUME ~ ReadsMayFail, TypeOK, FreshInv, [Next]_vars PROVE FreshInv'
<1>0. TypeOK'
  BY TypeStep
<1>1. /\ \A t \in Threads : label[t] \in Nat /\ label[t] <= version
      /\ \A t \in Threads : pc[t] \in Reading => built[t].version >= label[t]
      /\ cache # None => cache.label \in Nat /\ cache.content.version >= cache.label
      /\ ServedFresh
  BY DEF FreshInv
<1>2. /\ version \in Nat /\ version' \in Nat /\ Requests \subseteq Threads
      /\ Builders \subseteq Threads /\ Schedulers \subseteq Threads
      /\ \A t \in Threads : built[t].version \in Nat
  BY <1>0 DEF TypeOK, SharedOK, LocalsOK, Content, Threads, Builders
<1>3. CASE FreshMove
  <2>1. \A t \in Threads : label'[t] \in Nat /\ label'[t] <= version'
    BY <1>1, <1>2, <1>3 DEF FreshMove, KeepsReading
  <2>2. \A t \in Threads : pc'[t] \in Reading => built'[t].version >= label'[t]
    BY <1>1, <1>3 DEF FreshMove, KeepsReading
  <2>3. cache' # None => cache'.label \in Nat /\ cache'.content.version >= cache'.label
    BY <1>1, <1>3 DEF FreshMove
  <2>4. ServedFresh'
    <3> SUFFICES ASSUME NEW t \in Requests, served'[t] # None, label'[t] # None
                 PROVE  served'[t].version >= label'[t]
      BY DEF ServedFresh
    <3>1. served[t] \in Content /\ served'[t] = served[t]
      BY <1>2, <1>3 DEF FreshMove, TypeOK, LocalsOK
    <3>2. served[t].version \in Nat
      BY <3>1 DEF Content
    <3>3. label[t] \in Nat /\ label'[t] \in {label[t], 0}
      BY <1>1, <1>2, <1>3 DEF FreshMove, KeepsReading
    <3>4. label[t] # None
      BY <3>3, ConstantsAssumption
    <3> QED
      BY <1>1, <3>1, <3>2, <3>3, <3>4 DEF ServedFresh
  <2> QED
    BY <2>1, <2>2, <2>3, <2>4 DEF FreshInv
<1>4. ASSUME NEW t \in Schedulers, ReadPending(t) PROVE FreshInv'
  <2>0. t \in Threads /\ t \notin Requests
    BY <1>2, ThreadsAssumption DEF Schedulers
  <2>1. /\ \A u \in Threads \ {t} :
             label'[u] = label[u] /\ pc'[u] = pc[u] /\ built'[u] = built[u]
        /\ pc'[t] \notin Reading
        /\ UNCHANGED <<version, cache, served>>
    BY <1>4, <2>0 DEF ReadPending, Forget, TypeOK, LocalsOK, Reading
  <2>2. label'[t] \in {0, version}
    BY <1>4, <2>0 DEF ReadPending, Forget, Snapshots, TypeOK, LocalsOK
  <2> QED
    BY <1>1, <1>2, <2>0, <2>1, <2>2 DEF FreshInv, ServedFresh
<1>5. ASSUME NEW t \in Builders, ReadInventory(t) PROVE FreshInv'
  <2>0. t \in Threads
    BY <1>2
  <2>1. /\ \A u \in Threads \ {t} : pc'[u] = pc[u] /\ built'[u] = built[u]
        /\ UNCHANGED <<version, cache, served, label>>
    BY <1>5, <2>0 DEF ReadInventory, TypeOK, LocalsOK
  <2>2. built'[t].version = version
    BY <1>5, <2>0 DEF ReadInventory, TypeOK, LocalsOK, EmptyContent
  <2> QED
    BY <1>1, <1>2, <2>0, <2>1, <2>2 DEF FreshInv, ServedFresh
<1>6. ASSUME NEW t \in Builders, ReadBoardData(t) PROVE FreshInv'
  <2>0. t \in Threads
    BY <1>2
  <2>1. /\ \A u \in Threads \ {t} : pc'[u] = pc[u] /\ built'[u] = built[u]
        /\ UNCHANGED <<version, cache, served, label>> /\ pc[t] \in Reading
    BY <1>6, <2>0 DEF ReadBoardData, TypeOK, LocalsOK, Reading
  <2>2. built'[t].version = built[t].version
    BY <1>6, <2>0 DEF ReadBoardData, TypeOK, LocalsOK, Content
  <2> QED
    BY <1>1, <1>2, <2>0, <2>1, <2>2 DEF FreshInv, ServedFresh
<1>7. ASSUME NEW t \in Builders, BuildFinish(t) PROVE FreshInv'
  <2>0. t \in Threads
    BY <1>2
  <2>1. /\ \A u \in Threads \ {t} : pc'[u] = pc[u] /\ built'[u] = built[u]
        /\ UNCHANGED <<version, label>> /\ pc[t] \in Reading /\ pc'[t] \notin Reading
        /\ cache' \in {cache, [label |-> label[t], content |-> built[t]]}
    BY <1>7, <2>0 DEF BuildFinish, TypeOK, LocalsOK, Reading
  <2>2. built[t].version >= label[t]
    BY <1>1, <2>0, <2>1
  <2>3. ServedFresh'
    <3>1. served' \in {served, [served EXCEPT ![t] = built[t]]}
      BY <1>7 DEF BuildFinish
    <3>2. \A u \in Requests : served'[u] = served[u] \/ (u = t /\ served'[u] = built[t])
      BY <1>2, <3>1 DEF TypeOK, LocalsOK
    <3> QED
      BY <1>1, <2>1, <2>2, <3>2 DEF ServedFresh
  <2>4. cache' # None => cache'.label \in Nat /\ cache'.content.version >= cache'.label
    BY <1>1, <2>0, <2>1, <2>2
  <2> QED
    BY <1>1, <1>2, <2>0, <2>1, <2>3, <2>4 DEF FreshInv
<1>8. ASSUME NEW t \in Requests, RequestStart(t) PROVE FreshInv'
  <2>0. t \in Threads
    BY <1>2
  <2>1. /\ \A u \in Threads \ {t} :
             pc'[u] = pc[u] /\ label'[u] = label[u] /\ served'[u] = served[u]
        /\ UNCHANGED <<version, cache, built>> /\ pc'[t] \notin Reading
        /\ label'[t] = version /\ served'[t] = None
    BY <1>8, <2>0 DEF RequestStart, Snapshots, TypeOK, LocalsOK, Reading
  <2> QED
    BY <1>1, <1>2, <2>0, <2>1 DEF FreshInv, ServedFresh
<1>9. ASSUME NEW t \in Requests, Serve(t) PROVE FreshInv'
  <2>0. t \in Threads
    BY <1>2
  <2>1. /\ \A u \in Threads \ {t} : pc'[u] = pc[u] /\ served'[u] = served[u]
        /\ UNCHANGED <<version, cache, built, label>> /\ pc'[t] \notin Reading
        /\ served'[t] = cache.content
    BY <1>9, <2>0 DEF Serve, TypeOK, LocalsOK, Reading
  <2>2. served'[t].version >= label[t]
    <3>1. cache # None /\ None \notin {label[t], cache.label}
      BY <1>1, <1>9, <2>0, ConstantsAssumption DEF Serve, Current
    <3>2. cache.label = label[t]
      BY <1>9, <3>1 DEF Serve, Current
    <3> QED
      BY <1>1, <2>1, <3>1, <3>2
  <2>3. ServedFresh'
    BY <1>1, <1>2, <2>1, <2>2 DEF ServedFresh
  <2> QED
    BY <1>1, <1>2, <2>0, <2>1, <2>3 DEF FreshInv
<1> QED
  BY <1>3, <1>4, <1>5, <1>6, <1>7, <1>8, <1>9, FreshKinds

(* "A board built before a sync committed is never served after it": a page
   request gets a board at least as new as the inventory when it asked, also
   when a build begun before the sync is stored after it, or two builds run
   at once because the wait expired. *)
THEOREM AnswersFresh == ~ ReadsMayFail /\ Spec => []ServedFresh
<1>1. ASSUME Init PROVE FreshInv
  BY <1>1 DEF Init, FreshInv, ServedFresh, Reading, Threads, Builders
<1>2. ASSUME ~ ReadsMayFail, TypeOK, FreshInv, [Next]_vars PROVE FreshInv'
  BY <1>2, FreshStep
<1>3. FreshInv => ServedFresh
  BY DEF FreshInv
<1>4. CASE ReadsMayFail
  BY <1>4
<1>5. CASE ~ ReadsMayFail
  BY <1>1, <1>2, <1>3, <1>5, TypeCorrect, PTL DEF Spec
<1>6. QED
  BY <1>4, <1>5

-----------------------------------------------------------------------------
(* The stored board.  While builds take their turns, what a build has read is
   no older than what any thread is about to acknowledge. *)
Locked == {"recheck", "read1", "read2", "write"}

Held == \A t \in Threads : pc[t] \in Locked => buildLock = t

(* Only a device a sync has cached is pushed, so a thread that saw a refresh
   builds from a synced inventory: its board is stored. *)
Synced ==
    /\ \A d \in Devices : mark[d] # 0 => version > 0
    /\ \A t \in Threads : seen[t].push # {} =>
         version > 0 /\ (pc[t] \in Reading => built[t].version > 0)

(* What a build has read of a device is its last refresh, or is owed.       *)
BuiltOwed(t) ==
    pc[t] \in Reading =>
        \A d \in Devices : built[t].push[d] >= push[d] \/ mark[d] = push[d]

(* What a thread is about to acknowledge is in the stored board, and in every
   board that is being built. *)
AckOwed(t) ==
    pc[t] = "ack" => \A d \in Devices : push[d] \in seen[t].push =>
        /\ cache # None => cache.content.push[d] >= push[d]
        /\ \A u \in Threads : pc[u] \in Reading => built[u].push[d] >= push[d]

OwedInv ==
    /\ PushInv /\ Held /\ Synced
    /\ \A t \in Threads : BuiltOwed(t) /\ AckOwed(t)
    /\ StoredBoardOwed

(* One build at a time, as long as none outlasts the wait.                  *)
LEMMA HeldStep ==
    ASSUME ~ BuildWaitExpires, TypeOK, Held, [Next]_vars PROVE Held'
<1> DEFINE Stays ==
      buildLock' = buildLock /\ \A t \in Threads : pc'[t] \in Locked => pc[t] \in Locked
<1>0. Stays => Held'
  BY DEF Held
<1>1. CASE SourceStep
  <2>1. /\ buildLock' = buildLock
        /\ (\E always : Spawn(always)) \/ UNCHANGED locals
    BY <1>1 DEF SourceStep, PushStore, PushNotify, HookStamp, HookCommit, HookNotify,
       ChangeSave, ChangeDrop, ChangeRequest, ChangeLost, ChangeNotify, CacheExpire,
       SpawnIfStarted, locks
  <2> QED
    BY <1>0, <2>1 DEF TypeOK, LocalsOK, Spawn, locals, Locked
<1>2. CASE UNCHANGED vars
  BY <1>2 DEF Held, vars, locks, locals
<1>3. ASSUME NEW t \in Tickers, TickStep(t) PROVE Held'
  BY <1>0, <1>3 DEF TypeOK, LocalsOK, Locked, TickStep, TickStart, SkipSync, SyncFails,
     locks
<1>4. ASSUME NEW t \in Tickers \cup Syncers, SyncCommit(t) \/ SyncInvalidate(t)
      PROVE Held'
  BY <1>0, <1>4 DEF TypeOK, LocalsOK, Locked, SyncCommit, SyncInvalidate
<1>5. ASSUME NEW t \in Rebuilders, RebuildStart(t) PROVE Held'
  BY <1>0, <1>5 DEF TypeOK, LocalsOK, Locked, RebuildStart, Forget
<1>6. ASSUME NEW t \in Schedulers, ReadPending(t) PROVE Held'
  BY <1>0, <1>6 DEF TypeOK, LocalsOK, Locked, ReadPending, Forget
<1>7. ASSUME NEW t \in Builders, LockBuild(t) PROVE Held'
  <2>1. t \in Threads /\ t # None
    BY ThreadsAssumption DEF Threads, Builders, Schedulers
  <2>2. \A u \in Threads : pc[u] \notin Locked
    BY <1>7, ThreadsAssumption DEF Held, LockBuild, WaitExpires, Threads,
       Builders, Schedulers
  <2> QED
    BY <1>7, <2>1, <2>2 DEF TypeOK, LocalsOK, Held, LockBuild, WaitExpires
<1>8. ASSUME NEW t \in Builders, ReadInventory(t) \/ ReadBoardData(t) PROVE Held'
  BY <1>0, <1>8 DEF TypeOK, LocalsOK, Locked, ReadInventory, ReadBoardData, locks
<1>9. ASSUME NEW t \in Builders, BuildFinish(t) PROVE Held'
  BY <1>9 DEF TypeOK, LocalsOK, Held, Locked, BuildFinish, Free, Threads
<1>10. ASSUME NEW t \in Schedulers, Ack(t) PROVE Held'
  BY <1>0, <1>10 DEF TypeOK, LocalsOK, Locked, Ack, Forget
<1>11. ASSUME NEW t \in Requests, RequestStart(t) \/ Miss(t) PROVE Held'
  BY <1>0, <1>11 DEF TypeOK, LocalsOK, Locked, RequestStart, Miss, locks
<1>12. ASSUME NEW t \in Requests, Serve(t) PROVE Held'
  BY <1>12 DEF TypeOK, LocalsOK, Held, Locked, Serve, Free, Threads, Builders
<1>13. ASSUME NEW t \in Threads, Abort(t) PROVE Held'
  BY <1>13 DEF TypeOK, LocalsOK, Held, Locked, Abort, Forget, Free
<1> HIDE DEF Stays
<1> QED
  BY <1>1, <1>2, <1>3, <1>4, <1>5, <1>6, <1>7, <1>8, <1>9, <1>10, <1>11, <1>12, <1>13
  DEF Next, RebuildStep, BuildStep, AnswerStep, Schedulers, Builders

(* Only a build that finishes stores a board; the inventory is synced for
   good. *)
LEMMA BoardStored ==
    ASSUME TypeOK, [Next]_vars
    PROVE  /\ cache' \in {cache, None} \/ \E t \in Builders : BuildFinish(t)
           /\ version' \in Nat /\ version <= version'
<1>1. CASE FreshMove
  BY <1>1 DEF FreshMove
<1>2. version \in Nat
  BY DEF TypeOK, SharedOK
<1>3. ASSUME NEW t \in Builders, BuildFinish(t)
      PROVE  version' = version
  BY <1>3 DEF BuildFinish
<1>4. ASSUME NEW t \in Threads,
             ReadPending(t) \/ ReadInventory(t) \/ ReadBoardData(t) \/ RequestStart(t)
             \/ Serve(t)
      PROVE  version' = version /\ cache' = cache
  BY <1>4 DEF ReadPending, ReadInventory, ReadBoardData, RequestStart, Serve
<1>5. Schedulers \subseteq Threads /\ Builders \subseteq Threads /\ Requests \subseteq Threads
  BY DEF Builders, Threads
<1> QED
  BY <1>1, <1>2, <1>3, <1>4, <1>5, FreshKinds

(* A step that reads, stores and acknowledges no board leaves all of it.    *)
LEMMA OwedAside ==
    ASSUME TypeOK, OwedInv, \A t \in Threads : ThreadMove(t), UNCHANGED <<push, mark>>,
           cache' \in {cache, None}, version' \in Nat, version <= version'
    PROVE  /\ Synced' /\ StoredBoardOwed'
           /\ \A t \in Threads : BuiltOwed(t)' /\ AckOwed(t)'
<1>1. \A t \in Threads : pc'[t] \in Built =>
        seen'[t] = seen[t] /\ built'[t] = built[t] /\ pc'[t] = pc[t]
  BY DEF ThreadMove
<1>2. Reading \subseteq Built /\ "ack" \in Built
  BY DEF Reading, Built
<1>3. version \in Nat
  BY DEF TypeOK, SharedOK
<1>4. Synced'
  <2>1. \A d \in Devices : mark'[d] # 0 => version' > 0
    BY <1>3 DEF OwedInv, Synced
  <2>2. ASSUME NEW t \in Threads, seen'[t].push # {}
        PROVE  version' > 0 /\ (pc'[t] \in Reading => built'[t].version > 0)
    <3>1. CASE seen'[t] = seen[t]
      BY <1>1, <1>2, <1>3, <2>2, <3>1 DEF OwedInv, Synced
    <3>2. CASE seen'[t] # seen[t]
      <4>1. seen'[t] = Pending /\ pc'[t] \notin Reading
        BY <1>1, <1>2, <2>2, <3>2 DEF ThreadMove, NothingSeen
      <4>2. PICK d \in Devices : mark[d] # 0
        BY <2>2, <4>1 DEF Pending
      <4> QED
        BY <1>3, <4>1, <4>2 DEF OwedInv, Synced
    <3> QED
      BY <3>1, <3>2
  <2> QED
    BY <2>1, <2>2 DEF Synced
<1>5. \A t \in Threads : BuiltOwed(t)'
  BY <1>1, <1>2 DEF OwedInv, BuiltOwed
<1>6. \A t \in Threads : AckOwed(t)'
  <2> SUFFICES ASSUME NEW t \in Threads, pc'[t] = "ack", NEW d \in Devices,
                      push'[d] \in seen'[t].push
               PROVE  /\ cache' # None => cache'.content.push[d] >= push'[d]
                      /\ \A u \in Threads : pc'[u] \in Reading => built'[u].push[d] >= push'[d]
    BY DEF AckOwed
  <2>1. pc[t] = "ack" /\ push[d] \in seen[t].push
    BY <1>1, <1>2
  <2> QED
    BY <1>1, <1>2, <2>1 DEF OwedInv, AckOwed
<1>7. StoredBoardOwed'
  BY DEF OwedInv, StoredBoardOwed
<1> QED
  BY <1>4, <1>5, <1>6, <1>7

(* Every step keeps OwedInv.                                               *)
LEMMA OwedStep ==
    ASSUME ~ ReadsMayFail, ~ BuildWaitExpires, TypeOK, OwedInv, [Next]_vars
    PROVE  OwedInv'
<1>0. /\ TypeOK' /\ PushInv' /\ Held'
      /\ cache' \in {cache, None} \/ \E t \in Builders : BuildFinish(t)
      /\ version' \in Nat /\ version <= version' /\ version \in Nat
  BY TypeStep, PushStep, HeldStep, BoardStored DEF OwedInv, TypeOK, SharedOK
<1>1. /\ \A t \in Threads : PushThread(t) /\ BuiltOwed(t) /\ AckOwed(t)
      /\ PushMarks /\ Held /\ Synced /\ StoredBoardOwed
  BY DEF OwedInv, PushInv
<1>2. /\ push \in [Devices -> Nat] /\ mark \in [Devices -> Nat] /\ pushSeq \in Nat
      /\ \A t \in Threads : built[t] \in Content /\ seen[t].push \subseteq Nat
  BY DEF TypeOK, SourcesOK, LocalsOK, Sights
<1>3. Reading \subseteq Locked /\ "ack" \notin Reading
  BY DEF Reading, Locked
<1>4. ASSUME NEW t \in Builders, ReadInventory(t) PROVE OwedInv'
  <2>1. t \in Threads
    BY DEF Threads
  <2>2. /\ built'[t].push = push /\ built'[t].version = version
        /\ pc'[t] = "read2" /\ UNCHANGED <<push, mark, seen, cache, version>>
        /\ \A u \in Threads \ {t} : built'[u] = built[u] /\ pc'[u] = pc[u]
    BY <1>4, <2>1 DEF ReadInventory, EmptyContent, TypeOK, LocalsOK, sources
  <2>3. Synced'
    BY <1>1, <2>2 DEF Synced
  <2>4. \A u \in Threads : BuiltOwed(u)'
    BY <1>1, <1>2, <2>2 DEF BuiltOwed
  <2>5. \A u \in Threads : AckOwed(u)'
    BY <1>1, <1>2, <2>1, <2>2 DEF AckOwed
  <2>6. StoredBoardOwed'
    BY <1>1, <2>2 DEF StoredBoardOwed
  <2> QED
    BY <1>0, <2>3, <2>4, <2>5, <2>6 DEF OwedInv
<1>5. ASSUME NEW t \in Builders, ReadBoardData(t) PROVE OwedInv'
  <2>1. t \in Threads
    BY DEF Threads
  <2>2. /\ built'[t].push = built[t].push /\ built'[t].version = built[t].version
        /\ pc[t] = "read2" /\ pc'[t] = "write"
        /\ UNCHANGED <<push, mark, seen, cache, version>>
        /\ \A u \in Threads \ {t} : built'[u] = built[u] /\ pc'[u] = pc[u]
    BY <1>5, <2>1 DEF ReadBoardData, Content, TypeOK, LocalsOK, sources
  <2>3. \A u \in Threads : /\ built'[u].push = built[u].push
                           /\ built'[u].version = built[u].version
                           /\ pc'[u] \in Reading <=> pc[u] \in Reading
                           /\ pc'[u] = "ack" <=> pc[u] = "ack"
    BY <2>2 DEF Reading
  <2>4. Synced'
    BY <1>1, <2>2, <2>3 DEF Synced
  <2>5. \A u \in Threads : BuiltOwed(u)' /\ AckOwed(u)'
    BY <1>1, <2>2, <2>3 DEF BuiltOwed, AckOwed
  <2>6. StoredBoardOwed'
    BY <1>1, <2>2 DEF StoredBoardOwed
  <2> QED
    BY <1>0, <2>4, <2>5, <2>6 DEF OwedInv
<1>6. ASSUME NEW t \in Builders, BuildFinish(t) PROVE OwedInv'
  <2>1. t \in Threads
    BY DEF Threads
  <2>2. /\ pc[t] = "write" /\ pc'[t] \in {"idle", "ack"}
        /\ UNCHANGED <<push, mark, seen, version>>
        /\ \A u \in Threads \ {t} : built'[u] = built[u] /\ pc'[u] = pc[u]
    BY <1>6, <2>1 DEF BuildFinish, TypeOK, LocalsOK, sources
  <2>3. cache' = IF built[t].version > 0
                 THEN [label |-> label[t], content |-> built[t]] ELSE cache
    BY <1>6 DEF BuildFinish
  <2>4. pc[t] \in Reading /\ \A u \in Threads : pc'[u] \notin Reading
    BY <1>1, <1>3, <2>1, <2>2 DEF Held, Locked, Reading
  <2>5. Synced'
    BY <1>1, <2>2, <2>4 DEF Synced
  <2>6. \A u \in Threads : BuiltOwed(u)'
    BY <2>4 DEF BuiltOwed
  <2>7. ASSUME NEW u \in Threads, pc'[u] = "ack", NEW d \in Devices,
               push[d] \in seen[u].push
        PROVE  cache' # None => cache'.content.push[d] >= push[d]
    <3>1. CASE u = t
      <4>1. built[t].push[d] >= push[d]
        BY <1>1, <2>1, <2>2, <2>7, <3>1 DEF PushThread
      <4>2. built[t].version > 0
        BY <1>1, <2>1, <2>4, <2>7, <3>1 DEF Synced
      <4> QED
        BY <2>3, <4>1, <4>2
    <3>2. CASE u # t
      <4>1. pc[u] = "ack"
        BY <2>2, <2>7, <3>2
      <4>2. /\ built[t].push[d] >= push[d]
            /\ cache # None => cache.content.push[d] >= push[d]
        BY <1>1, <2>1, <2>4, <2>7, <4>1 DEF AckOwed
      <4> QED
        BY <2>3, <4>2
    <3> QED
      BY <3>1, <3>2
  <2>8. \A u \in Threads : AckOwed(u)'
    BY <2>2, <2>4, <2>7 DEF AckOwed
  <2>9. StoredBoardOwed'
    <3>1. \A d \in Devices : built[t].push[d] >= push[d] \/ mark[d] = push[d]
      BY <1>1, <2>1, <2>4 DEF BuiltOwed
    <3> QED
      BY <1>1, <2>2, <2>3, <3>1 DEF StoredBoardOwed
  <2> QED
    BY <1>0, <2>5, <2>6, <2>8, <2>9 DEF OwedInv
<1>7. ASSUME NEW t \in Builders, Ack(t) PROVE OwedInv'
  <2>1. t \in Threads
    BY DEF Threads
  <2>2. /\ pc[t] = "ack" /\ UNCHANGED <<push, cache, version>>
        /\ mark' = [d \in Devices |-> IF mark[d] \in seen[t].push THEN 0 ELSE mark[d]]
    BY <1>7 DEF Ack, Forget, ClearedMarks
  <2>3. /\ pc'[t] \notin Built /\ seen'[t] = NothingSeen
        /\ \A u \in Threads \ {t} :
             seen'[u] = seen[u] /\ built'[u] = built[u] /\ pc'[u] = pc[u]
    BY <1>7, <2>1 DEF Ack, Forget, Built, TypeOK, LocalsOK
  <2>4. \A u \in Threads : pc'[u] \in Reading \/ pc'[u] = "ack" =>
          u # t /\ seen'[u] = seen[u] /\ built'[u] = built[u] /\ pc'[u] = pc[u]
    BY <2>3 DEF Reading, Built
  <2>5. \A d \in Devices : mark'[d] # mark[d] => mark[d] \in seen[t].push /\ mark'[d] = 0
    BY <1>2, <2>2
  <2>6. Synced'
    <3>1. \A d \in Devices : mark'[d] # 0 => version' > 0
      BY <1>1, <2>2, <2>5 DEF Synced
    <3>2. \A u \in Threads : seen'[u].push # {} =>
            version' > 0 /\ (pc'[u] \in Reading => built'[u].version > 0)
      BY <1>1, <2>2, <2>3 DEF Synced, NothingSeen
    <3> QED
      BY <3>1, <3>2 DEF Synced
  <2>7. ASSUME NEW d \in Devices, mark'[d] # push[d], mark[d] = push[d]
        PROVE  push[d] \in seen[t].push
    BY <2>5, <2>7
  <2>8. \A u \in Threads : BuiltOwed(u)'
    <3> SUFFICES ASSUME NEW u \in Threads, pc'[u] \in Reading, NEW d \in Devices,
                        mark'[d] # push[d]
                 PROVE  built'[u].push[d] >= push[d]
      BY <2>2 DEF BuiltOwed
    <3>1. pc[u] \in Reading /\ built'[u] = built[u]
      BY <2>4
    <3>2. CASE mark[d] = push[d]
      BY <1>1, <2>1, <2>2, <2>7, <3>1, <3>2 DEF AckOwed
    <3>3. CASE mark[d] # push[d]
      BY <1>1, <3>1, <3>3 DEF BuiltOwed
    <3> QED
      BY <3>2, <3>3
  <2>9. \A u \in Threads : AckOwed(u)'
    BY <1>1, <2>2, <2>4 DEF AckOwed
  <2>10. StoredBoardOwed'
    <3> SUFFICES ASSUME cache # None, NEW d \in Devices, mark'[d] # push[d]
                 PROVE  cache.content.push[d] >= push[d]
      BY <2>2 DEF StoredBoardOwed
    <3>1. CASE mark[d] = push[d]
      BY <1>1, <2>1, <2>2, <2>7, <3>1 DEF AckOwed
    <3>2. CASE mark[d] # push[d]
      BY <1>1, <3>2 DEF StoredBoardOwed
    <3> QED
      BY <3>1, <3>2
  <2> QED
    BY <1>0, <2>6, <2>8, <2>9, <2>10 DEF OwedInv
<1>8. ASSUME NEW d \in Devices, PushStore(d) PROVE OwedInv'
  <2>1. /\ push' = [push EXCEPT ![d] = pushSeq + 1] /\ mark' = [mark EXCEPT ![d] = pushSeq + 1]
        /\ UNCHANGED <<seen, built, pc, cache, version>> /\ version > 0
    BY <1>8 DEF PushStore, locals
  <2>2. /\ push'[d] = pushSeq + 1 /\ mark'[d] = pushSeq + 1
        /\ \A e \in Devices \ {d} : push'[e] = push[e] /\ mark'[e] = mark[e]
    BY <1>2, <2>1
  <2>3. \A t \in Threads : push'[d] \notin seen[t].push
    BY <1>1, <1>2, <2>2 DEF PushThread
  <2>4. Synced'
    BY <1>1, <2>1 DEF Synced
  <2>5. \A t \in Threads : BuiltOwed(t)'
    BY <1>1, <2>1, <2>2 DEF BuiltOwed
  <2>6. \A t \in Threads : AckOwed(t)'
    BY <1>1, <2>1, <2>2, <2>3 DEF AckOwed
  <2>7. StoredBoardOwed'
    BY <1>1, <2>1, <2>2 DEF StoredBoardOwed
  <2> QED
    BY <1>0, <2>4, <2>5, <2>6, <2>7 DEF OwedInv
<1>9. ASSUME \A t \in Threads : ThreadMove(t), UNCHANGED <<push, mark>>,
             ~ \E t \in Builders : BuildFinish(t)
      PROVE  OwedInv'
  BY <1>0, <1>9, OwedAside DEF OwedInv
<1>10. CASE \E t \in Builders : BuildMove(t)
  BY <1>4, <1>5, <1>6, <1>7, <1>10 DEF BuildMove
<1>11. CASE (OtherMove \/ SourceMove) /\ ~ \E t \in Builders : BuildMove(t)
  <2>1. ~ \E t \in Builders : BuildFinish(t)
    BY <1>11 DEF BuildMove
  <2>2. CASE OtherMove
    BY <1>9, <2>1, <2>2 DEF OtherMove
  <2>3. CASE SourceMove
    <3>1. (\E d \in Devices : PushStore(d)) \/ UNCHANGED <<push, mark>>
      BY <2>3 DEF SourceMove, HookStamp, ChangeSave, ChangeDrop, ChangeRequest,
         ChangeLost, ChangeNotify
    <3> QED
      BY <1>8, <1>9, <2>1, <2>3, <3>1 DEF SourceMove
  <2> QED
    BY <1>11, <2>2, <2>3
<1> QED
  BY <1>10, <1>11, StepKinds

(* The stored board shows a device's last refresh, or the refresh is still to
   be built: a page never gets a board that is silently out of date for good.
   Builds take turns as long as none outlasts the wait; one that does may
   store what it read before the other's board over it. *)
THEOREM BoardOwed == ~ ReadsMayFail /\ ~ BuildWaitExpires /\ Spec => []StoredBoardOwed
<1>1. ASSUME Init PROVE OwedInv
  <2>1. PushInv
    BY <1>1 DEF Init, PushInv, PushMarks, PushThread, PushNotForgotten, NothingSeen,
       EmptyContent
  <2>2. Held /\ Synced /\ StoredBoardOwed
    BY <1>1 DEF Init, Held, Locked, Synced, NothingSeen, StoredBoardOwed
  <2>3. \A t \in Threads : BuiltOwed(t) /\ AckOwed(t)
    BY <1>1 DEF Init, BuiltOwed, AckOwed, Reading
  <2> QED
    BY <2>1, <2>2, <2>3 DEF OwedInv
<1>2. ASSUME ~ ReadsMayFail, ~ BuildWaitExpires, TypeOK, OwedInv, [Next]_vars
      PROVE  OwedInv'
  BY <1>2, OwedStep
<1>3. OwedInv => StoredBoardOwed
  BY DEF OwedInv
<1>4. CASE ReadsMayFail \/ BuildWaitExpires
  BY <1>4
<1>5. CASE ~ ReadsMayFail /\ ~ BuildWaitExpires
  BY <1>1, <1>2, <1>3, <1>5, TypeCorrect, PTL DEF Spec
<1>6. QED
  BY <1>4, <1>5
=============================================================================
