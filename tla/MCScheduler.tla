----------------------------- MODULE MCScheduler -----------------------------
(***************************************************************************)
(* What the scheduler must finally get done, in two parts chosen           *)
(* initially: "outbox" runs NotificationOutbox, the messages it sends;     *)
(* "board" runs BoardRebuild, the boards it rebuilds for a push, beside a  *)
(* page request.  The parts never meet.  The values are in Scheduler.cfg.  *)
(***************************************************************************)
EXTENDS NotificationOutbox

CONSTANTS
    Devices, Hooks, Tickers, Rebuilders, Requests,           \* BoardRebuild's
    Rounds, MaxPushes, MaxAborts, None

VARIABLES
    part,
    push, mark, pushSeq, pushing, hook, hookAt, hookReceived, hookRebuilt,
    change, changeAt, requested, changeRebuilt, clock, version, cache, recorded,
    schedLock, buildLock, syncLock, place, seen, built, label, force, round,
    served, aborts                                           \* BoardRebuild's

(* Builds may outlast the wait for them; operators and syncs are at rest.  *)
B == INSTANCE BoardRebuild
       WITH Changes <- {}, Syncers <- {}, MaxSyncs <- 0,
            BuildWaitExpires <- TRUE, ReadsMayFail <- FALSE,
            received <- hookReceived, pc <- place

boardVars ==
    <<push, mark, pushSeq, pushing, hook, hookAt, hookReceived, hookRebuilt,
      change, changeAt, requested, changeRebuilt, clock, version, cache, recorded,
      schedLock, buildLock, syncLock, place, seen, built, label, force, round,
      served, aborts>>
allVars == <<part, vars, boardVars>>

InOutbox(A) == part = "outbox" /\ A /\ UNCHANGED <<part, boardVars>>
InBoard(A)  == part = "board" /\ A /\ UNCHANGED <<part, vars>>

(* A sync has run: without one nothing can be pushed.                      *)
MCInit ==
    /\ part \in {"outbox", "board"}
    /\ Init /\ B!Init /\ version = 1

MCNext == InOutbox(Next) \/ InBoard(B!Next)

(* NotificationOutbox's FairSpec in the first part, BoardRebuild's in the
   second. *)
MCFairSpec ==
    /\ MCInit /\ [][MCNext]_allVars
    /\ \A s \in Senders : WF_allVars(InOutbox(Step(s)))
    /\ \A r \in Rows : WF_allVars(InOutbox(FallDue(r)))
    /\ \A t \in Tickers :
         WF_allVars(InBoard(B!TickStep(t) \/ B!RebuildStep(t) \/ B!SyncInvalidate(t)))
    /\ \A t \in Rebuilders : WF_allVars(InBoard(B!RebuildStart(t) \/ B!RebuildStep(t)))
    /\ \A t \in Requests : WF_allVars(InBoard(B!AnswerStep(t)))

(* BoardRebuild's PushesRecorded: every refresh a push stored reaches a
   build, although threads lose the lock, raise or die. *)
PushesRecorded == B!PushesRecorded

(* BoardRebuild's RequestsAnswered: every page request is answered, although
   the thread it waits for may be gone. *)
RequestsAnswered == B!RequestsAnswered
==============================================================================
