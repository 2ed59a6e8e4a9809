-------------------------- MODULE TaskQueueProofs --------------------------
(***************************************************************************)
(* Proofs about TaskQueue for every plan, every number of workers and      *)
(* every bound.                                                            *)
(***************************************************************************)
EXTENDS TaskQueue, TLAPS

(* What TypeOK needs to be inductive: a process has a task, and one that   *)
(* is about to merge has its accepted row.                                 *)
JobsOK ==
    /\ \A w \in Workers : Live(w) => job[w] \in Tasks
    /\ \A w \in Workers : pc[w] \in {"accepted", "acceptedAgain"} => job[w] \in accepted
    /\ launching # None => newPid \in Workers

TypeInv == TypeOK /\ JobsOK

LEMMA TypeInit == Init => TypeInv
  BY TasksAssumption, LimitsAssumption
  DEF Init, TypeInv, TypeOK, JobsOK, Live, WorkerStates, DaemonStates, Outcomes

LEMMA TypeWorker ==
  ASSUME TypeInv, NEW w \in Workers, WorkerStep(w) \/ WorkerCrash(w)
  PROVE  TypeInv'
<1> USE TasksAssumption, LimitsAssumption
    DEF TypeInv, TypeOK, JobsOK, Live, WorkerStates, Outcomes, files, sidecar, ledger,
        daemonSide, memory, Goto, Exit
<1>1. CASE Claim(w)
  BY <1>1 DEF Claim
<1>2. CASE ClaimMissed(w)
  BY <1>2 DEF ClaimMissed
<1>3. CASE Reject(w)
  BY <1>3 DEF Reject, MarkBlocked, LeaveQueue, Holds
<1>4. CASE Raise(w)
  BY <1>4 DEF Raise, MarkBlocked, LeaveQueue, Holds, RejectRollback
<1>5. CASE FinishNoDiff(w)
  BY <1>5 DEF FinishNoDiff, MarkProcessed, LeaveQueue, Holds
<1>6. CASE Decompose(w)
  BY <1>6 DEF Decompose, MarkProcessed, LeaveQueue, Holds, RejectRollback
<1>7. CASE RefuseCommit(w)
  BY <1>7 DEF RefuseCommit, AfterRefusal
<1>8. CASE WriteAccepted(w)
  BY <1>8 DEF WriteAccepted
<1>9. CASE Merge(w)
  BY <1>9 DEF Merge
<1>10. CASE Unwired(w) \/ MergeFails(w)
  BY <1>10 DEF Unwired, MergeFails, AfterRefusal, MarkBlocked, LeaveQueue, Holds
<1>11. CASE Finish(w)
  BY <1>11 DEF Finish, MarkProcessed, LeaveQueue, Holds
<1>12. CASE HandoverFails(w)
  BY <1>12 DEF HandoverFails, MarkProcessed, LeaveQueue, Holds, RejectRollback
<1>13. CASE PromoteFallback(w)
  BY <1>13 DEF PromoteFallback
<1>14. CASE AutoCommitFailed(w)
  BY <1>14 DEF AutoCommitFailed, MarkBlocked, LeaveQueue, Holds
<1>15. CASE Hang(w)
  BY <1>15 DEF Hang
<1>16. CASE WorkerCrash(w)
  BY <1>16 DEF WorkerCrash
<1> QED
  BY <1>1, <1>2, <1>3, <1>4, <1>5, <1>6, <1>7, <1>8, <1>9, <1>10, <1>11, <1>12, <1>13,
     <1>14, <1>15, <1>16 DEF WorkerStep

LEMMA TypeDaemon ==
  ASSUME TypeInv, DaemonStep \/ Drain \/ DaemonCrash
  PROVE  TypeInv'
<1> USE TasksAssumption, LimitsAssumption
    DEF TypeInv, TypeOK, JobsOK, Live, WorkerStates, DaemonStates, Outcomes, files, sidecar,
        ledger, procs, memory, LiveIds, Forget
<1>1. CASE Start
  BY <1>1 DEF Start, DropDead
<1>2. CASE Reap
  BY <1>2 DEF Reap, DropDead
<1>3. CASE Watchdog
  BY <1>3 DEF Watchdog, Kill
<1>4. CASE Reclaim
  BY <1>4 DEF Reclaim
<1>5. CASE ReclaimZombie
  BY <1>5 DEF ReclaimZombie
<1>6. ASSUME NEW due \in SUBSET Tasks, Retry(due)
      PROVE  TypeInv'
  BY <1>6 DEF Retry
<1>7. CASE BlockDependencyFailed
  BY <1>7 DEF BlockDependencyFailed
<1>8. CASE Stage
  BY <1>8 DEF Stage, Stageable, Unstaged
<1>9. CASE Decide
  BY <1>9 DEF Decide, Candidates
<1>10. ASSUME NEW t \in Tasks, Spawn(t)
       PROVE  TypeInv'
  BY <1>10 DEF Spawn, Stamp
<1>11. ASSUME NEW t \in Tasks, Quarantine(t)
       PROVE  TypeInv'
  BY <1>11 DEF Quarantine, Stamp
<1>12. CASE WritePidfile
  BY <1>12 DEF WritePidfile
<1>13. CASE EndIteration
  BY <1>13 DEF EndIteration
<1>14. CASE Drain
  BY <1>14 DEF Drain
<1>15. CASE DrainEnd
  BY <1>15 DEF DrainEnd, Kill
<1>16. CASE DaemonCrash
  BY <1>16 DEF DaemonCrash
<1> QED
  BY <1>1, <1>2, <1>3, <1>4, <1>5, <1>6, <1>7, <1>8, <1>9, <1>10, <1>11, <1>12, <1>13,
     <1>14, <1>15, <1>16 DEF DaemonStep

LEMMA TypeStutter == TypeInv /\ UNCHANGED vars => TypeInv'
  BY DEF TypeInv, TypeOK, JobsOK, Live, vars, files, sidecar, ledger, procs, memory

LEMMA TypeInvariant == Spec => []TypeInv
<1>1. TypeInv /\ [Next]_vars => TypeInv'
  BY TypeWorker, TypeDaemon, TypeStutter DEF Next
<1> QED
  BY <1>1, TypeInit, PTL DEF Spec

(* Type correctness of the queue, for every plan and every bound.          *)
THEOREM TypeCorrect == Spec => []TypeOK
  BY TypeInvariant, PTL DEF TypeInv

----------------------------------------------------------------------------
(* Places and budgets.  A task out of budget is parked, so it is in no     *)
(* other place, and whatever is waiting has tries left.                    *)

Directories ==
    /\ OnePlace
    /\ exhausted \subseteq blocked
    /\ \A t \in queued : attempts[t] < MaxAttempts

LEMMA DirectoriesInit == Init => Directories
  BY DEF Init, Directories, OnePlace

LEMMA DirectoriesWorker ==
  ASSUME TypeInv, Directories, NEW w \in Workers, WorkerStep(w) \/ WorkerCrash(w)
  PROVE  Directories'
<1> USE DEF TypeInv, TypeOK, JobsOK, Live, Directories, OnePlace, files, sidecar, ledger,
        Goto, Exit
<1>1. ASSUME NEW why, MarkBlocked(job[w], why)
      PROVE  Directories'
  BY <1>1 DEF MarkBlocked, LeaveQueue, Holds
<1>2. ASSUME MarkProcessed(job[w])
      PROVE  Directories'
  BY <1>2 DEF MarkProcessed, LeaveQueue, Holds
<1>3. CASE Claim(w)
  BY <1>3 DEF Claim
<1>4. CASE Reject(w)
  BY <1>4, <1>1 DEF Reject
<1>5. CASE Raise(w)
  BY <1>5, <1>1 DEF Raise
<1>6. CASE FinishNoDiff(w) \/ Decompose(w) \/ Finish(w) \/ HandoverFails(w)
  BY <1>6, <1>2 DEF FinishNoDiff, Decompose, Finish, HandoverFails
<1>7. CASE Unwired(w) \/ MergeFails(w) \/ AutoCommitFailed(w)
  BY <1>7, <1>1 DEF Unwired, MergeFails, AutoCommitFailed
<1>8. CASE \/ ClaimMissed(w) \/ RefuseCommit(w) \/ WriteAccepted(w) \/ Merge(w)
           \/ PromoteFallback(w) \/ Hang(w) \/ WorkerCrash(w)
  BY <1>8 DEF ClaimMissed, RefuseCommit, WriteAccepted, Merge, PromoteFallback, Hang,
              WorkerCrash
<1> QED
  BY <1>3, <1>4, <1>5, <1>6, <1>7, <1>8 DEF WorkerStep

(* What brief_status takes for unstaged has no file in the queue, parked   *)
(* or processed, and no .exhausted marker.                                 *)
LEMMA UnstagedIsFree ==
  ASSUME NEW t \in Unstaged
  PROVE  t \in Tasks /\ t \notin queued \cup processing \cup blocked \cup processed \cup exhausted
  BY DEF Unstaged, ProcessedUnaccepted, BlockedView

LEMMA DirectoriesDaemon ==
  ASSUME TypeInv, Directories, DaemonStep \/ Drain \/ DaemonCrash
  PROVE  Directories'
<1> USE LimitsAssumption
    DEF TypeInv, TypeOK, Directories, OnePlace, files, sidecar, ledger
<1>1. CASE Reclaim
  BY <1>1 DEF Reclaim
<1>2. CASE ReclaimZombie
  BY <1>2 DEF ReclaimZombie
<1>3. ASSUME NEW due \in SUBSET Tasks, Retry(due)
      PROVE  Directories'
  BY <1>3 DEF Retry, Retryable, EffectiveMax
<1>4. CASE BlockDependencyFailed
  BY <1>4 DEF BlockDependencyFailed
<1>5. CASE Stage
  BY <1>5, UnstagedIsFree DEF Stage, Stageable
<1>6. ASSUME NEW t \in Tasks, Quarantine(t)
      PROVE  Directories'
  BY <1>6 DEF Quarantine
<1>7. CASE \/ Start \/ Reap \/ Watchdog \/ Decide \/ (\E t \in Tasks : Spawn(t))
           \/ WritePidfile \/ EndIteration \/ DrainEnd \/ Drain \/ DaemonCrash
  BY <1>7 DEF Start, Reap, Watchdog, Decide, Spawn, WritePidfile, EndIteration, DrainEnd,
              Drain, DaemonCrash
<1> QED
  BY <1>1, <1>2, <1>3, <1>4, <1>5, <1>6, <1>7 DEF DaemonStep

LEMMA DirectoriesStep == TypeInv /\ Directories /\ [Next]_vars => Directories'
<1>1. Directories /\ UNCHANGED vars => Directories'
  BY DEF Directories, OnePlace, vars, files, sidecar
<1> QED
  BY <1>1, DirectoriesWorker, DirectoriesDaemon DEF Next

LEMMA DirectoriesInvariant == Spec => []Directories
  BY DirectoriesInit, DirectoriesStep, TypeInvariant, PTL DEF Spec

(* No task file is ever in two places, for every plan and every            *)
(* interleaving of workers, daemon and crashes.                            *)
THEOREM NeverInTwoPlaces == Spec => []OnePlace
  BY DirectoriesInvariant, PTL DEF Directories

(* No retry, re-staging or restart takes an .exhausted marker away.        *)
THEOREM ExhaustedForGood == Spec => ExhaustionIsFinal
<1>1. ASSUME TypeInv, Directories, [Next]_vars
      PROVE  exhausted \subseteq exhausted'
  <2> USE DEF files, sidecar
  <2>1. ASSUME NEW w \in Workers, WorkerStep(w) \/ WorkerCrash(w)
        PROVE  exhausted' = exhausted
    BY <2>1 DEF WorkerStep, Claim, ClaimMissed, Reject, Raise, FinishNoDiff, Decompose,
       RefuseCommit, Unwired, WriteAccepted, Merge, MergeFails, Finish, HandoverFails,
       PromoteFallback, AutoCommitFailed, Hang, WorkerCrash, MarkBlocked, MarkProcessed
  <2>2. ASSUME NEW due \in SUBSET Tasks, Retry(due)
        PROVE  exhausted \subseteq exhausted'
    BY <2>2 DEF Retry
  <2>3. CASE BlockDependencyFailed
    BY <2>3 DEF BlockDependencyFailed
  <2>4. CASE Stage
    BY <2>4, UnstagedIsFree DEF Stage, Stageable
  <2>5. CASE \/ Start \/ Reap \/ Watchdog \/ Reclaim \/ ReclaimZombie \/ Decide
             \/ (\E t \in Tasks : Spawn(t) \/ Quarantine(t)) \/ WritePidfile
             \/ EndIteration \/ DrainEnd \/ Drain \/ DaemonCrash
    BY <2>5 DEF Start, Reap, Watchdog, Reclaim, ReclaimZombie, Decide, Spawn, Quarantine,
       WritePidfile, EndIteration, DrainEnd, Drain, DaemonCrash
  <2>6. CASE UNCHANGED vars
    BY <2>6 DEF vars
  <2> QED
    BY <1>1, <2>1, <2>2, <2>3, <2>4, <2>5, <2>6 DEF Next, DaemonStep
<1>2. TypeInv /\ Directories /\ [Next]_vars => exhausted \subseteq exhausted'
  BY <1>1
<1> QED
  BY <1>2, TypeInvariant, DirectoriesInvariant, PTL DEF ExhaustionIsFinal, Spec

(* Only Claim makes a claim, and it claims the task of a live worker. *)
LEMMA OnlyClaimClaims ==
  ASSUME [Next]_vars, NEW t \in processing' \ processing
  PROVE  t \in queued /\ \E w \in Workers : Live(w) /\ job[w] = t
<1> USE DEF files
<1>1. ASSUME NEW w \in Workers, Claim(w)
      PROVE  t \in queued /\ Live(w) /\ job[w] = t
  BY <1>1 DEF Claim, Live
<1>2. ASSUME NEW w \in Workers, WorkerStep(w) \/ WorkerCrash(w), ~ Claim(w)
      PROVE  FALSE
  BY <1>2 DEF WorkerStep, ClaimMissed, Reject, Raise, FinishNoDiff, Decompose,
     RefuseCommit, Unwired, WriteAccepted, Merge, MergeFails, Finish, HandoverFails, PromoteFallback,
     AutoCommitFailed, Hang, WorkerCrash, MarkBlocked, MarkProcessed, LeaveQueue
<1>3. ~ (DaemonStep \/ Drain \/ DaemonCrash)
  BY DEF DaemonStep, Start, Reap, Watchdog, Reclaim, ReclaimZombie, Retry,
     BlockDependencyFailed, Stage, Decide, Spawn, Quarantine, WritePidfile, EndIteration,
     DrainEnd, Drain, DaemonCrash
<1>4. ~ UNCHANGED vars
  BY DEF vars
<1> QED
  BY <1>1, <1>2, <1>3, <1>4 DEF Next

(* Every claim is within the retry budget, for every budget.               *)
THEOREM ClaimsWithinBudget == Spec => SpentNeverClaimed
<1>1. ASSUME Directories, [Next]_vars, NEW t \in processing' \ processing
      PROVE  t \notin exhausted /\ attempts[t] < MaxAttempts
  BY <1>1, OnlyClaimClaims DEF Directories, OnePlace
<1>2. Directories /\ [Next]_vars =>
        \A t \in processing' \ processing : t \notin exhausted /\ attempts[t] < MaxAttempts
  BY <1>1
<1> QED
  BY <1>2, DirectoriesInvariant, PTL DEF SpentNeverClaimed, Spec

----------------------------------------------------------------------------
(* Dependencies.  A task that was admitted, and every task a process was   *)
(* started for, had its dependencies accepted then, and a ledger row is    *)
(* never taken back.                                                       *)

Ready(t) == Deps[t] \subseteq accepted

DispatchedReady ==
    /\ \A t \in chosen : Ready(t)
    /\ \A w \in Workers : Live(w) => Ready(job[w])

LEMMA LedgerGrows ==
  ASSUME [Next]_vars
  PROVE  accepted \subseteq accepted'
<1> USE DEF ledger
<1>1. ASSUME NEW w \in Workers, WorkerStep(w) \/ WorkerCrash(w)
      PROVE  accepted \subseteq accepted'
  BY <1>1 DEF WorkerStep, Claim, ClaimMissed, Reject, Raise, FinishNoDiff, Decompose,
     RefuseCommit, Unwired, WriteAccepted, Merge, MergeFails, Finish, HandoverFails, PromoteFallback,
     AutoCommitFailed, Hang, WorkerCrash, MarkBlocked, RejectRollback
<1>2. CASE DaemonStep \/ Drain \/ DaemonCrash
  BY <1>2 DEF DaemonStep, Start, Reap, Watchdog, Reclaim, ReclaimZombie, Retry,
     BlockDependencyFailed, Stage, Decide, Spawn, Quarantine, WritePidfile, EndIteration,
     DrainEnd, Drain, DaemonCrash
<1>3. CASE UNCHANGED vars
  BY <1>3 DEF vars
<1> QED
  BY <1>1, <1>2, <1>3 DEF Next

(* A worker keeps its task until it exits, and starts nothing. *)
LEMMA WorkerKeepsJob ==
  ASSUME TypeInv, NEW w \in Workers, WorkerStep(w) \/ WorkerCrash(w)
  PROVE  /\ Live(w) /\ UNCHANGED daemonSide
         /\ \A v \in Workers : Live(v)' => Live(v) /\ job'[v] = job[v]
         /\ \A v \in Workers \ {w} : pc'[v] = pc[v]
         /\ processing \ {job[w]} \subseteq processing'
<1> USE DEF TypeInv, TypeOK, JobsOK, Live, Goto, Exit, files, WorkerStates
<1>1. CASE Claim(w) \/ ClaimMissed(w)
  BY <1>1 DEF Claim, ClaimMissed
<1>2. CASE Reject(w) \/ Raise(w) \/ Unwired(w) \/ MergeFails(w) \/ AutoCommitFailed(w)
  BY <1>2 DEF Reject, Raise, Unwired, MergeFails, AutoCommitFailed, AfterRefusal, MarkBlocked, LeaveQueue
<1>3. CASE FinishNoDiff(w) \/ Decompose(w) \/ Finish(w) \/ HandoverFails(w)
  BY <1>3 DEF FinishNoDiff, Decompose, Finish, HandoverFails, MarkProcessed, LeaveQueue
<1>4. CASE \/ RefuseCommit(w) \/ WriteAccepted(w) \/ Merge(w) \/ PromoteFallback(w)
           \/ Hang(w) \/ WorkerCrash(w)
  BY <1>4 DEF RefuseCommit, AfterRefusal, WriteAccepted, Merge, PromoteFallback, Hang, WorkerCrash
<1> QED
  BY <1>1, <1>2, <1>3, <1>4 DEF WorkerStep

(* Who is alive after a daemon's step was alive before, for the same task, *)
(* or was started for an admitted one; what is admitted comes from         *)
(* _decide.                                                                *)
LEMMA DaemonDispatchesChosen ==
  ASSUME TypeInv, DaemonStep \/ Drain \/ DaemonCrash
  PROVE  /\ \A w \in Workers : Live(w)' =>
              \/ Live(w) /\ job'[w] = job[w]
              \/ job'[w] \in chosen
         /\ chosen' \subseteq chosen \cup Candidates
<1> USE DEF TypeInv, TypeOK, JobsOK, Live, procs, memory
<1>1. CASE \/ Start \/ Reap \/ Reclaim \/ ReclaimZombie \/ BlockDependencyFailed
           \/ Stage \/ WritePidfile \/ EndIteration \/ Drain \/ DaemonCrash
           \/ (\E due \in SUBSET Tasks : Retry(due)) \/ (\E t \in Tasks : Quarantine(t))
  BY <1>1 DEF Start, Reap, Reclaim, ReclaimZombie, BlockDependencyFailed, Stage,
     WritePidfile, EndIteration, Drain, DaemonCrash, Retry, Quarantine, Forget
<1>2. CASE Watchdog \/ DrainEnd
  BY <1>2 DEF Watchdog, DrainEnd, Kill, Forget
<1>3. CASE Decide
  BY <1>3 DEF Decide
<1>4. ASSUME NEW t \in Tasks, Spawn(t)
      PROVE  /\ \A w \in Workers : Live(w)' =>
                  \/ Live(w) /\ job'[w] = job[w]
                  \/ job'[w] \in chosen
             /\ chosen' \subseteq chosen
  BY <1>4 DEF Spawn
<1> QED
  BY <1>1, <1>2, <1>3, <1>4 DEF DaemonStep

LEMMA ReadyInvariant == Spec => []DispatchedReady
<1>1. Init => DispatchedReady
  BY DEF Init, DispatchedReady, Live
<1>2. ASSUME TypeInv, DispatchedReady, [Next]_vars
      PROVE  DispatchedReady'
  <2>1. accepted \subseteq accepted'
    BY <1>2, LedgerGrows
  <2>2. CASE DaemonStep \/ Drain \/ DaemonCrash
    <3>1. \A t \in Candidates : Ready(t)
      BY DEF Candidates, Ready
    <3> QED
      BY <1>2, <2>1, <2>2, <3>1, DaemonDispatchesChosen DEF DispatchedReady, Ready
  <2>3. ASSUME NEW w \in Workers, WorkerStep(w) \/ WorkerCrash(w)
        PROVE  DispatchedReady'
    BY <1>2, <2>1, <2>3, WorkerKeepsJob DEF DispatchedReady, Ready, daemonSide, memory
  <2>4. CASE UNCHANGED vars
    BY <1>2, <2>4 DEF DispatchedReady, Ready, Live, vars, ledger, procs, memory
  <2> QED
    BY <1>2, <2>2, <2>3, <2>4 DEF Next
<1>3. TypeInv /\ DispatchedReady /\ [Next]_vars => DispatchedReady'
  BY <1>2
<1> QED
  BY <1>1, <1>3, TypeInvariant, PTL DEF Spec

(* No task is claimed before all its dependencies are accepted, for every  *)
(* dependency graph, crashes between dispatch and claim included.          *)
THEOREM DependenciesFirst == Spec => DepsFirst
<1>1. ASSUME DispatchedReady, [Next]_vars, NEW t \in processing' \ processing
      PROVE  Deps[t] \subseteq accepted
  BY <1>1, OnlyClaimClaims DEF DispatchedReady, Ready
<1>2. DispatchedReady /\ [Next]_vars =>
        \A t \in processing' \ processing : Deps[t] \subseteq accepted
  BY <1>1
<1> QED
  BY <1>2, ReadyInvariant, PTL DEF DepsFirst, Spec

----------------------------------------------------------------------------
(* Who is alive.  When the daemon cannot die between Popen and the         *)
(* pidfile, every live worker is known: by the pidfile of its task, or as  *)
(* the one being launched.  So from _reap_running to _decide the snapshot  *)
(* `running` holds the task of every live worker, and what _decide admits  *)
(* is compatible with all of them.                                         *)

Snapshot == {"watch", "reclaim", "zombie", "retry", "depfail", "stage", "decide"}

Known ==
    /\ \A w \in Workers : Live(w) =>
          pidfile[job[w]] = w \/ (launching = job[w] /\ newPid = w)
    /\ \A w \in Workers : Live(w) /\ job[w] = launching => newPid = w
    /\ launching = None <=> newPid = None
    /\ launching # None => dpc = "launch"
    /\ dpc # "launch" => chosen = {}
    /\ dpc \in Snapshot => \A w \in Workers : Live(w) => job[w] \in running

Compatible ==
    /\ \A t \in chosen : t # launching
    /\ \A t, u \in chosen : t # u => t \notin Overlap[u]
    /\ \A t \in chosen, w \in Workers : Live(w) => job[w] # t /\ job[w] \notin Overlap[t]

Dispatch == Known /\ Compatible /\ NoOverlapLive /\ ClaimHeld

LEMMA DispatchInit == Init => Dispatch
  BY DEF Init, Dispatch, Known, Compatible, NoOverlapLive, ClaimHeld, Live, Snapshot

(* The one who steps holds its claim, or has stopped claiming to.          *)
LEMMA StepperHoldsClaim ==
  ASSUME TypeInv, ClaimHeld, NEW w \in Workers, WorkerStep(w) \/ WorkerCrash(w),
         pc'[w] \in {"working", "hung", "accepted"}
  PROVE  job'[w] \in processing'
<1> USE DEF TypeInv, TypeOK, JobsOK, ClaimHeld, Live, Goto, Exit, files, WorkerStates
<1>1. CASE Claim(w) \/ Hang(w) \/ WriteAccepted(w)
  BY <1>1 DEF Claim, Hang, WriteAccepted
<1>2. ~ (\/ ClaimMissed(w) \/ Reject(w) \/ Raise(w) \/ FinishNoDiff(w) \/ Decompose(w)
         \/ RefuseCommit(w) \/ Unwired(w) \/ Merge(w) \/ MergeFails(w) \/ Finish(w) \/ HandoverFails(w)
         \/ PromoteFallback(w) \/ AutoCommitFailed(w) \/ WorkerCrash(w))
  BY DEF ClaimMissed, Reject, Raise, FinishNoDiff, Decompose, RefuseCommit, AfterRefusal,
     Unwired, Merge, MergeFails, Finish, HandoverFails, PromoteFallback, AutoCommitFailed, WorkerCrash
<1> QED
  BY <1>1, <1>2 DEF WorkerStep

LEMMA DispatchWorker ==
  ASSUME TypeInv, Dispatch, NEW w \in Workers, WorkerStep(w) \/ WorkerCrash(w)
  PROVE  Dispatch'
<1> USE WorkerKeepsJob DEF daemonSide, memory, Dispatch
<1>1. Known'
  BY DEF Known, Live
<1>2. Compatible'
  BY DEF Compatible, Live
<1>3. NoOverlapLive'
  BY DEF NoOverlapLive, Live
<1>4. ASSUME NEW v \in Workers \ {w}, pc'[v] \in {"working", "hung", "accepted"}
      PROVE  job'[v] \in processing'
  <2>1. pc[v] = pc'[v] /\ Live(v) /\ job'[v] = job[v]
    BY <1>4 DEF Live
  <2>2. job[v] # job[w] /\ job[v] \in processing
    BY <1>4, <2>1 DEF NoOverlapLive, ClaimHeld
  <2> QED
    BY <2>1, <2>2
<1>5. ClaimHeld'
  BY <1>4, StepperHoldsClaim DEF ClaimHeld
<1> QED
  BY <1>1, <1>2, <1>3, <1>5

(* The daemon's passes between _reap_running and _decide *)
LEMMA DispatchPasses ==
  ASSUME TypeInv, Dispatch,
         \/ Reclaim \/ ReclaimZombie \/ (\E due \in SUBSET Tasks : Retry(due))
         \/ BlockDependencyFailed \/ Stage
  PROVE  Dispatch'
<1> USE DEF procs, memory, Dispatch, Live
<1>1. /\ UNCHANGED <<pc, job, pidfile, running, chosen, launching, newPid>>
      /\ dpc \in Snapshot /\ dpc' \in Snapshot
  BY DEF Reclaim, ReclaimZombie, Retry, BlockDependencyFailed, Stage, Snapshot
<1>2. Known'
  BY <1>1 DEF Known, Snapshot
<1>3. Compatible' /\ NoOverlapLive'
  BY <1>1 DEF Compatible, NoOverlapLive
<1>4. Reclaim => ClaimHeld'
  BY <1>1 DEF Reclaim, ClaimHeld, Known, Snapshot
<1>5. UNCHANGED processing => ClaimHeld'
  BY <1>1 DEF ClaimHeld
<1>6. ClaimHeld'
  BY <1>4, <1>5 DEF ReclaimZombie, Retry, BlockDependencyFailed, Stage
<1> QED
  BY <1>2, <1>3, <1>6

(* Steps that end processes or forget snapshots *)
LEMMA DispatchEnds ==
  ASSUME TypeInv, Dispatch, ~ GapCrash,
         Start \/ Reap \/ Watchdog \/ EndIteration \/ DrainEnd \/ Drain \/ DaemonCrash
  PROVE  Dispatch'
<1> USE TasksAssumption, WorkersAssumption
    DEF TypeInv, TypeOK, JobsOK, Known, Compatible, NoOverlapLive, ClaimHeld, Dispatch, Live,
        Snapshot, files, procs, memory, LiveIds
<1>1. CASE Start
  BY <1>1 DEF Start, DropDead
<1>2. CASE Reap
  BY <1>2 DEF Reap, DropDead
<1>3. CASE Watchdog
  BY <1>3 DEF Watchdog, Kill
<1>4. CASE EndIteration \/ Drain
  BY <1>4 DEF EndIteration, Drain
<1>5. CASE DrainEnd
  BY <1>5 DEF DrainEnd, Kill, Forget
<1>6. CASE DaemonCrash
  BY <1>6 DEF DaemonCrash, Forget
<1> QED
  BY <1>1, <1>2, <1>3, <1>4, <1>5, <1>6

(* What _decide admits meets no live worker, and not itself. *)
LEMMA AdmittedIsCompatible ==
  ASSUME TypeInv, Known, dpc = "decide", NEW S \in SUBSET Candidates, Admissible(S)
  PROVE  /\ \A t, u \in S : t # u => t \notin Overlap[u]
         /\ \A t \in S, w \in Workers : Live(w) => job[w] # t /\ job[w] \notin Overlap[t]
<1>1. \A t, u \in S : t # u => t \notin Overlap[u]
  BY DEF Admissible, CanRunParallel
<1>2. ASSUME NEW t \in S, NEW w \in Workers, Live(w)
      PROVE  job[w] # t /\ job[w] \notin Overlap[t]
  <2>1. job[w] \in running
    BY <1>2 DEF Known, Snapshot
  <2>2. t \notin running /\ ParallelToRunning(t)
    BY <1>2 DEF Candidates
  <2>3. CanRunParallel(t, job[w], queued)
    BY <2>1, <2>2 DEF ParallelToRunning
  <2> QED
    BY <2>1, <2>2, <2>3 DEF CanRunParallel
<1> QED
  BY <1>1, <1>2

LEMMA DispatchDecide ==
  ASSUME TypeInv, Dispatch, Decide
  PROVE  Dispatch'
<1> USE DEF Dispatch, files, procs
<1>1. PICK S \in SUBSET Candidates : Admissible(S) /\ chosen' = S
  BY DEF Decide
<1>2. dpc = "decide" /\ launching = None
  BY DEF Decide, Known
<1>3. /\ UNCHANGED <<processing, pc, job, pidfile, running, launching, newPid>>
      /\ dpc' = "launch"
  BY DEF Decide
<1>4. Known'
  BY <1>2, <1>3 DEF Known, Live, Snapshot
<1>5. Compatible'
  <2>1. S \subseteq Tasks /\ launching \notin S
    BY <1>2, TasksAssumption DEF Candidates, TypeInv, TypeOK
  <2> QED
    BY <1>1, <1>2, <1>3, <2>1, AdmittedIsCompatible DEF Compatible, Live
<1>6. NoOverlapLive' /\ ClaimHeld'
  BY <1>3 DEF NoOverlapLive, ClaimHeld, Live
<1> QED
  BY <1>4, <1>5, <1>6

LEMMA DispatchLaunch ==
  ASSUME TypeInv, Dispatch, WritePidfile \/ (\E t \in Tasks : Spawn(t) \/ Quarantine(t))
  PROVE  Dispatch'
<1> USE TasksAssumption, WorkersAssumption
    DEF TypeInv, TypeOK, JobsOK, Dispatch, Live, files, procs
<1>1. CASE WritePidfile
  BY <1>1 DEF WritePidfile, Known, Compatible, NoOverlapLive, ClaimHeld, Snapshot
<1>2. ASSUME NEW t \in Tasks, Quarantine(t)
      PROVE  Dispatch'
  BY <1>2 DEF Quarantine, Known, Compatible, NoOverlapLive, ClaimHeld, Snapshot
<1>3. ASSUME NEW t \in Tasks, Spawn(t)
      PROVE  Dispatch'
  <2>1. PICK w \in Workers : /\ ~ Live(w) /\ ~ Tracked(w)
                             /\ pc' = [pc EXCEPT ![w] = "spawned"]
                             /\ job' = [job EXCEPT ![w] = t]
                             /\ newPid' = w
    BY <1>3 DEF Spawn
  <2>2. /\ dpc = "launch" /\ dpc' = "launch" /\ launching = None /\ launching' = t
        /\ t \in chosen /\ chosen' = chosen \ {t}
        /\ UNCHANGED <<processing, pidfile, running>>
    BY <1>3 DEF Spawn
  <2>3. Known'
    BY <2>1, <2>2 DEF Known, Compatible, Snapshot
  <2>4. Compatible'
    BY <2>1, <2>2 DEF Compatible
  <2>5. NoOverlapLive'
    BY <2>1, <2>2, OverlapAssumption DEF NoOverlapLive, Compatible
  <2>6. ClaimHeld'
    BY <2>1, <2>2 DEF ClaimHeld
  <2> QED
    BY <2>3, <2>4, <2>5, <2>6
<1> QED
  BY <1>1, <1>2, <1>3

LEMMA DispatchStep == TypeInv /\ Dispatch /\ ~ GapCrash /\ [Next]_vars => Dispatch'
<1>1. Dispatch /\ UNCHANGED vars => Dispatch'
  BY DEF Dispatch, Known, Compatible, NoOverlapLive, ClaimHeld, Live, vars, files, procs, memory
<1> QED
  BY <1>1, DispatchWorker, DispatchPasses, DispatchEnds, DispatchDecide, DispatchLaunch
  DEF Next, DaemonStep

LEMMA DispatchInvariant == Spec => [](~ GapCrash => Dispatch)
<1>1. TypeInv /\ (~ GapCrash => Dispatch) /\ [Next]_vars => (~ GapCrash => Dispatch)'
  BY DispatchStep
<1> QED
  BY <1>1, DispatchInit, TypeInvariant, PTL DEF Spec

(* Live workers never share a task or a file, provided the daemon never    *)
(* dies between Popen and the pidfile.                                     *)
THEOREM LiveWorkersAreApart == Spec => [](~ GapCrash => NoOverlapLive)
<1>1. (~ GapCrash => Dispatch) => (~ GapCrash => NoOverlapLive)
  BY DEF Dispatch
<1> QED
  BY <1>1, DispatchInvariant, PTL

(* Under the same proviso a worker that is still at work holds its claim.  *)
THEOREM ClaimsAreHeld == Spec => [](~ GapCrash => ClaimHeld)
<1>1. (~ GapCrash => Dispatch) => (~ GapCrash => ClaimHeld)
  BY DEF Dispatch
<1> QED
  BY <1>1, DispatchInvariant, PTL
=============================================================================
