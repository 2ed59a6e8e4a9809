------------------------ MODULE TaskQueueRefinement ------------------------
(***************************************************************************)
(* TaskQueue implements TaskLifecycle: proof for every plan, every number  *)
(* of workers and every bound.                                             *)
(***************************************************************************)
EXTENDS TaskQueueProofs

StatusMap == [t \in Tasks |-> Status(t)]

(* The directories are the statuses. *)
LEMMA PlacesAreStatuses ==
  ASSUME TypeInv, Directories
  PROVE  /\ Lifecycle!Is("queued") = queued
         /\ Lifecycle!Is("claimed") = processing
         /\ Lifecycle!Is("failed") = exhausted
         /\ Lifecycle!Is("parked") = blocked \ exhausted
         /\ Lifecycle!Is("closed") = processed
  BY DEF Lifecycle!Is, Status, TypeInv, TypeOK, Directories, OnePlace

LEMMA InitRefines == Init => Lifecycle!Init
  BY DEF Init, Lifecycle!Init, Status

LEMMA SameFilesStutter ==
  ASSUME UNCHANGED <<queued, processing, blocked, processed, exhausted>>
  PROVE  UNCHANGED StatusMap
  BY DEF StatusMap, Status

(* _mark_blocked parks what it finds. *)
LEMMA MarkBlockedRefines ==
  ASSUME TypeInv, Directories, NEW t \in Tasks, NEW why, MarkBlocked(t, why)
  PROVE  Lifecycle!Park({t}) \/ UNCHANGED StatusMap
<1>1. CASE Holds(t)
  <2>1. {t} \subseteq Lifecycle!Is("claimed") \cup Lifecycle!Is("queued")
    BY <1>1, PlacesAreStatuses DEF Holds
  <2>2. Lifecycle!Move({t}, "parked")
    BY <1>1 DEF MarkBlocked, LeaveQueue, Holds, Lifecycle!Move, Status, TypeInv, TypeOK,
                Directories, OnePlace
  <2> QED
    BY <2>1, <2>2 DEF Lifecycle!Park
<1>2. CASE ~ Holds(t)
  BY <1>2, SameFilesStutter DEF MarkBlocked, LeaveQueue, Holds
<1> QED
  BY <1>1, <1>2

(* _mark_processed closes what it finds. *)
LEMMA MarkProcessedRefines ==
  ASSUME TypeInv, Directories, NEW t \in Tasks, MarkProcessed(t)
  PROVE  Lifecycle!Close(t) \/ UNCHANGED StatusMap
<1>1. CASE Holds(t)
  <2>1. t \in Lifecycle!Is("claimed") \cup Lifecycle!Is("queued")
    BY <1>1, PlacesAreStatuses DEF Holds
  <2>2. Lifecycle!Move({t}, "closed")
    BY <1>1 DEF MarkProcessed, LeaveQueue, Holds, sidecar, Lifecycle!Move, Status, TypeInv,
                TypeOK, Directories, OnePlace
  <2> QED
    BY <2>1, <2>2 DEF Lifecycle!Close
<1>2. CASE ~ Holds(t)
  BY <1>2, SameFilesStutter DEF MarkProcessed, LeaveQueue, Holds, sidecar
<1> QED
  BY <1>1, <1>2

LEMMA WorkerRefines ==
  ASSUME TypeInv, Directories, NEW w \in Workers, WorkerStep(w) \/ WorkerCrash(w)
  PROVE  Lifecycle!Next \/ UNCHANGED StatusMap
<1>1. Live(w) /\ job[w] \in Tasks
  BY WorkerKeepsJob DEF TypeInv, JobsOK
<1>2. CASE Claim(w)
  <2>1. job[w] \in Lifecycle!Is("queued")
    BY <1>2, PlacesAreStatuses DEF Claim
  <2>2. Lifecycle!Move({job[w]}, "claimed")
    BY <1>1, <1>2 DEF Claim, sidecar, Lifecycle!Move, Status, TypeInv, TypeOK, Directories,
                      OnePlace
  <2> QED
    BY <1>1, <2>1, <2>2 DEF Lifecycle!Claim, Lifecycle!Next
<1>3. ASSUME NEW why, MarkBlocked(job[w], why)
      PROVE  Lifecycle!Next \/ UNCHANGED StatusMap
  BY <1>1, <1>3, MarkBlockedRefines DEF Lifecycle!Next
<1>4. ASSUME MarkProcessed(job[w])
      PROVE  Lifecycle!Next \/ UNCHANGED StatusMap
  BY <1>1, <1>4, MarkProcessedRefines DEF Lifecycle!Next
<1>5. CASE Reject(w) \/ Unwired(w) \/ MergeFails(w) \/ AutoCommitFailed(w)
  BY <1>5, <1>3 DEF Reject, Unwired, MergeFails, AutoCommitFailed
<1>6. CASE FinishNoDiff(w) \/ Decompose(w) \/ Finish(w) \/ HandoverFails(w)
  BY <1>6, <1>4 DEF FinishNoDiff, Decompose, Finish, HandoverFails
<1>7. CASE Raise(w)
  BY <1>7, <1>3, SameFilesStutter DEF Raise, files, sidecar
<1>8. CASE \/ ClaimMissed(w) \/ RefuseCommit(w) \/ WriteAccepted(w) \/ Merge(w)
           \/ PromoteFallback(w) \/ Hang(w) \/ WorkerCrash(w)
  BY <1>8, SameFilesStutter DEF ClaimMissed, RefuseCommit, WriteAccepted, Merge,
     PromoteFallback, Hang, WorkerCrash, files, sidecar
<1> QED
  BY <1>2, <1>5, <1>6, <1>7, <1>8 DEF WorkerStep

(* The passes of the daemon over the directories *)

LEMMA ReclaimRefines ==
  ASSUME TypeInv, Directories, Reclaim
  PROVE  Lifecycle!Next
<1> DEFINE S == processing \ running
<1>1. S \in SUBSET Tasks /\ S \subseteq Lifecycle!Is("claimed") \cup Lifecycle!Is("queued")
  BY PlacesAreStatuses DEF TypeInv, TypeOK
<1>2. Lifecycle!Move(S, "parked")
  BY DEF Reclaim, Lifecycle!Move, Status, TypeInv, TypeOK, Directories, OnePlace
<1> QED
  BY <1>1, <1>2 DEF Lifecycle!Park, Lifecycle!Next

LEMMA ZombieRefines ==
  ASSUME TypeInv, Directories, ReclaimZombie
  PROVE  Lifecycle!Next \/ UNCHANGED StatusMap
<1>1. CASE briefPresent /\ IsZombieBrief
  <2> DEFINE S == ProcessedUnaccepted
  <2>1. S \in SUBSET Tasks /\ S \subseteq Lifecycle!Is("closed")
    BY PlacesAreStatuses DEF ProcessedUnaccepted, TypeInv, TypeOK
  <2>2. Lifecycle!Is("queued") \cup Lifecycle!Is("claimed") = {}
    BY <1>1, PlacesAreStatuses DEF IsZombieBrief
  <2>3. Lifecycle!Move(S, "unstaged")
    BY <1>1 DEF ReclaimZombie, sidecar, ProcessedUnaccepted, Lifecycle!Move, Status, TypeInv,
                TypeOK, Directories, OnePlace
  <2> QED
    BY <2>1, <2>2, <2>3 DEF Lifecycle!Abandon, Lifecycle!Next
<1>2. CASE ~ (briefPresent /\ IsZombieBrief)
  BY <1>2, SameFilesStutter DEF ReclaimZombie, sidecar
<1> QED
  BY <1>1, <1>2

LEMMA RetryRefines ==
  ASSUME TypeInv, Directories, NEW due \in SUBSET Tasks, Retry(due)
  PROVE  Lifecycle!Next
<1> DEFINE spent == {t \in blocked \ exhausted : attempts[t] >= EffectiveMax(t)}
<1>1. due \subseteq blocked \ exhausted /\ spent \subseteq blocked \ exhausted
  BY DEF Retry, Retryable
<1>2. due \cap spent = {}
  BY LimitsAssumption DEF Retry, Retryable, EffectiveMax, TypeInv, TypeOK
<1>3. spent \in SUBSET Tasks
  BY <1>1 DEF TypeInv, TypeOK
<1>4. StatusMap' = [t \in Tasks |-> IF t \in due THEN "queued"
                                    ELSE IF t \in spent THEN "failed" ELSE StatusMap[t]]
  <2>1. /\ exhausted' = exhausted \cup spent /\ blocked' = blocked \ due
        /\ queued' = queued \cup due /\ UNCHANGED <<processing, processed>>
    BY DEF Retry
  <2> HIDE DEF spent
  <2> QED
    BY <1>1, <1>2, <2>1 DEF StatusMap, Status, TypeInv, TypeOK, Directories, OnePlace
<1> HIDE DEF spent
<1>5. due \cup spent \subseteq Lifecycle!Is("parked")
  BY <1>1, PlacesAreStatuses
<1>6. Lifecycle!Retry(due, spent)
  BY <1>2, <1>4, <1>5 DEF Lifecycle!Retry, StatusMap
<1> QED
  BY <1>3, <1>6 DEF Lifecycle!Next

LEMMA DependencyFailureRefines ==
  ASSUME TypeInv, Directories, BlockDependencyFailed
  PROVE  Lifecycle!Next
<1> DEFINE doomed == {t \in queued : Deps[t] \cap exhausted # {}}
<1>1. doomed = {t \in Lifecycle!Is("queued") : Deps[t] \cap Lifecycle!Is("failed") # {}}
  BY PlacesAreStatuses
<1>2. /\ queued' = queued \ doomed /\ blocked' = blocked \cup doomed
      /\ exhausted' = exhausted \cup doomed /\ UNCHANGED <<processing, processed>>
  BY DEF BlockDependencyFailed
<1>3. doomed \subseteq queued
  OBVIOUS
<1> HIDE DEF doomed
<1>4. Lifecycle!Move(doomed, "failed")
  BY <1>2, <1>3 DEF Lifecycle!Move, Status, TypeInv, TypeOK, Directories, OnePlace
<1> QED
  BY <1>1, <1>4 DEF Lifecycle!FailDependents, Lifecycle!Next

LEMMA StageRefines ==
  ASSUME TypeInv, Directories, Stage
  PROVE  Lifecycle!Next
<1> DEFINE new == IF briefPresent THEN Stageable ELSE {}
<1>1. /\ queued' = queued \cup new /\ blocked' = blocked \ new
      /\ exhausted' = exhausted \ new /\ UNCHANGED <<processing, processed>>
  BY DEF Stage
<1>2. \A t \in new : t \in Tasks /\
        t \notin queued \cup processing \cup blocked \cup processed \cup exhausted
  BY UnstagedIsFree DEF Stageable
<1> HIDE DEF new
<1>3. new \subseteq Lifecycle!Is("unstaged")
  BY <1>2 DEF Lifecycle!Is, Status
<1>4. Lifecycle!Move(new, "queued")
  BY <1>1, <1>2 DEF Lifecycle!Move, Status
<1>5. new \in SUBSET Tasks
  BY <1>2
<1> QED
  BY <1>3, <1>4, <1>5 DEF Lifecycle!Stage, Lifecycle!Next

LEMMA QuarantineRefines ==
  ASSUME TypeInv, Directories, NEW t \in Tasks, Quarantine(t)
  PROVE  Lifecycle!Next \/ UNCHANGED StatusMap
<1>1. CASE t \in queued
  <2>1. t \in Lifecycle!Is("queued")
    BY <1>1, PlacesAreStatuses
  <2>2. Lifecycle!Move({t}, "unstaged")
    BY <1>1 DEF Quarantine, sidecar, Lifecycle!Move, Status, TypeInv, TypeOK, Directories,
                OnePlace
  <2> QED
    BY <2>1, <2>2 DEF Lifecycle!Break, Lifecycle!Next
<1>2. CASE t \notin queued
  BY <1>2, SameFilesStutter DEF Quarantine, sidecar
<1> QED
  BY <1>1, <1>2

LEMMA DaemonRefines ==
  ASSUME TypeInv, Directories, DaemonStep \/ Drain \/ DaemonCrash
  PROVE  Lifecycle!Next \/ UNCHANGED StatusMap
<1>1. CASE \/ Start \/ Reap \/ Watchdog \/ Decide \/ (\E t \in Tasks : Spawn(t))
           \/ WritePidfile \/ EndIteration \/ DrainEnd \/ Drain \/ DaemonCrash
  BY <1>1, SameFilesStutter DEF Start, Reap, Watchdog, Decide, Spawn, WritePidfile,
     EndIteration, DrainEnd, Drain, DaemonCrash, files, sidecar
<1> QED
  BY <1>1, ReclaimRefines, ZombieRefines, RetryRefines, DependencyFailureRefines,
     StageRefines, QuarantineRefines DEF DaemonStep

LEMMA StepRefines ==
  TypeInv /\ Directories /\ [Next]_vars => [Lifecycle!Next]_StatusMap
<1>1. UNCHANGED vars => UNCHANGED StatusMap
  BY SameFilesStutter DEF vars, files, sidecar
<1> QED
  BY <1>1, WorkerRefines, DaemonRefines DEF Next

(* The directories, workers and daemon implement the life cycle of a task, *)
(* for every plan, every number of workers and every bound.                *)
THEOREM QueueImplementsLifecycle == Spec => Implements
<1>1. Lifecycle!Spec <=> Lifecycle!Init /\ [][Lifecycle!Next]_StatusMap
  BY DEF Lifecycle!Spec, StatusMap
<1> QED
  BY <1>1, InitRefines, StepRefines, TypeInvariant, DirectoriesInvariant, PTL
  DEF Implements, Spec
=============================================================================
