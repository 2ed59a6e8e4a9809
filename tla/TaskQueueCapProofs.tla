------------------------- MODULE TaskQueueCapProofs -------------------------
(***************************************************************************)
(* The parallel cap, for every plan and every number of workers.           *)
(***************************************************************************)
EXTENDS TaskQueueProofs, FiniteSetTheorems

LiveWorkers == {w \in Workers : Live(w)}

LiveJobs == {job[w] : w \in LiveWorkers}

(* Pidfiles name the worker of their task, or a dead one: a pid is not     *)
(* used again while a pidfile or the launch loop holds it.                 *)
PidfilesTrue ==
    /\ \A t \in Tasks : pidfile[t] # None /\ Live(pidfile[t]) => job[pidfile[t]] = t
    /\ launching # None /\ Live(newPid) => job[newPid] = launching

(* What counts against the cap: the tasks at work with those admitted, and *)
(* the snapshot that _decide subtracts from it.                            *)
WithinCap ==
    /\ Cardinality(LiveJobs \cup chosen) <= Cap
    /\ Cardinality(running) <= Cap

CapInv == PidfilesTrue /\ WithinCap

LEMMA SmallerFits ==
  ASSUME NEW S \in SUBSET Tasks, NEW T \in SUBSET S, Cardinality(S) <= Cap
  PROVE  Cardinality(T) <= Cap
<1>1. IsFiniteSet(S)
  BY TasksAssumption, FS_Subset
<1>2. /\ IsFiniteSet(T)
      /\ Cardinality(T) <= Cardinality(S)
  BY <1>1, FS_Subset
<1>3. Cardinality(S) \in Nat /\ Cardinality(T) \in Nat
  BY <1>1, <1>2, FS_CardinalityType
<1> QED
  BY <1>2, <1>3, LimitsAssumption

LEMMA LiveJobsAreTasks == TypeInv => LiveJobs \subseteq Tasks
  BY DEF TypeInv, JobsOK, LiveJobs, LiveWorkers

LEMMA CapInit == Init => CapInv
<1> SUFFICES ASSUME Init PROVE CapInv
  OBVIOUS
<1>1. LiveJobs = {} /\ chosen = {} /\ running = {}
  BY DEF Init, LiveJobs, LiveWorkers, Live
<1>2. Cardinality({}) = 0
  BY FS_EmptySet
<1>3. PidfilesTrue
  BY DEF Init, PidfilesTrue
<1> QED
  BY <1>1, <1>2, <1>3, LimitsAssumption DEF CapInv, WithinCap

(* Pidfiles stay true. *)

LEMMA PidfilesDaemon ==
  ASSUME TypeInv, PidfilesTrue, DaemonStep \/ Drain \/ DaemonCrash
  PROVE  PidfilesTrue'
<1> USE TasksAssumption, WorkersAssumption
    DEF TypeInv, TypeOK, JobsOK, PidfilesTrue, Live, procs, memory
<1>1. CASE Start \/ Reap
  BY <1>1 DEF Start, Reap, DropDead, LiveIds
<1>2. CASE \/ Reclaim \/ ReclaimZombie \/ (\E due \in SUBSET Tasks : Retry(due))
           \/ BlockDependencyFailed \/ Stage \/ Decide \/ (\E t \in Tasks : Quarantine(t))
           \/ EndIteration \/ Drain
  BY <1>2 DEF Reclaim, ReclaimZombie, Retry, BlockDependencyFailed, Stage, Decide,
              Quarantine, EndIteration, Drain
<1>3. CASE Watchdog
  BY <1>3 DEF Watchdog, Kill
<1>4. CASE DrainEnd
  BY <1>4 DEF DrainEnd, Kill, Forget
<1>5. CASE DaemonCrash
  BY <1>5 DEF DaemonCrash, Forget
<1>6. CASE WritePidfile
  BY <1>6 DEF WritePidfile
<1>7. ASSUME NEW t \in Tasks, Spawn(t)
      PROVE  PidfilesTrue'
  BY <1>7 DEF Spawn, Tracked
<1> QED
  BY <1>1, <1>2, <1>3, <1>4, <1>5, <1>6, <1>7 DEF DaemonStep

LEMMA PidfilesStep == TypeInv /\ PidfilesTrue /\ [Next]_vars => PidfilesTrue'
<1> SUFFICES ASSUME TypeInv, PidfilesTrue, [Next]_vars PROVE PidfilesTrue'
  OBVIOUS
<1>1. ASSUME NEW w \in Workers, WorkerStep(w) \/ WorkerCrash(w)
      PROVE  PidfilesTrue'
  BY <1>1, WorkerKeepsJob
  DEF PidfilesTrue, TypeInv, TypeOK, JobsOK, Live, daemonSide, memory
<1>2. CASE UNCHANGED vars
  BY <1>2 DEF PidfilesTrue, Live, vars, procs, memory
<1> QED
  BY <1>1, <1>2, PidfilesDaemon DEF Next

(* Launching turns an admitted task into one at work; only _decide admits, *)
(* and only _reap_running takes a snapshot.                                *)
LEMMA OnlyDecideAdmits ==
  ASSUME TypeInv, [Next]_vars, ~ Decide
  PROVE  (LiveJobs \cup chosen)' \subseteq LiveJobs \cup chosen
<1>1. ASSUME NEW w \in Workers, WorkerStep(w) \/ WorkerCrash(w)
      PROVE  (LiveJobs \cup chosen)' \subseteq LiveJobs \cup chosen
  BY <1>1, WorkerKeepsJob DEF LiveJobs, LiveWorkers, Live, daemonSide, memory
<1>2. CASE DaemonStep \/ Drain \/ DaemonCrash
  <2>1. \A w \in Workers : Live(w)' => \/ Live(w) /\ job'[w] = job[w]
                                       \/ job'[w] \in chosen
    BY <1>2, DaemonDispatchesChosen
  <2>2. chosen' \subseteq chosen
    BY <1>2 DEF DaemonStep, Start, Reap, Watchdog, Reclaim, ReclaimZombie, Retry,
       BlockDependencyFailed, Stage, Spawn, Quarantine, WritePidfile, EndIteration,
       DrainEnd, Drain, DaemonCrash, Forget, memory
  <2> QED
    BY <2>1, <2>2 DEF LiveJobs, LiveWorkers, Live
<1>3. CASE UNCHANGED vars
  BY <1>3 DEF vars, procs, memory, LiveJobs, LiveWorkers, Live
<1> QED
  BY <1>1, <1>2, <1>3 DEF Next

LEMMA OnlyReapTakesSnapshots ==
  ASSUME [Next]_vars, ~ Reap
  PROVE  running' \subseteq running
<1>1. ASSUME NEW w \in Workers, WorkerStep(w) \/ WorkerCrash(w)
      PROVE  running' = running
  BY <1>1 DEF WorkerStep, Claim, ClaimMissed, Reject, Raise, FinishNoDiff, Decompose,
     RefuseCommit, Unwired, WriteAccepted, Merge, MergeFails, Finish, HandoverFails, PromoteFallback,
     AutoCommitFailed, Hang, WorkerCrash, daemonSide, memory
<1>2. CASE DaemonStep \/ Drain \/ DaemonCrash
  BY <1>2 DEF DaemonStep, Start, Watchdog, Reclaim, ReclaimZombie, Retry,
     BlockDependencyFailed, Stage, Decide, Spawn, Quarantine, WritePidfile, EndIteration,
     DrainEnd, Drain, DaemonCrash, Forget, memory
<1>3. CASE UNCHANGED vars
  BY <1>3 DEF vars, memory
<1> QED
  BY <1>1, <1>2, <1>3 DEF Next

(* The snapshot holds no more than the tasks at work. *)
LEMMA SnapshotFits ==
  ASSUME TypeInv, CapInv, Reap
  PROVE  Cardinality(running') <= Cap
<1>1. running' \subseteq LiveJobs
  BY DEF Reap, LiveIds, LiveJobs, LiveWorkers, CapInv, PidfilesTrue, TypeInv, TypeOK
<1>2. LiveJobs \cup chosen \subseteq Tasks
  BY LiveJobsAreTasks DEF TypeInv, TypeOK
<1> QED
  BY <1>1, <1>2, SmallerFits DEF CapInv, WithinCap

(* What _decide admits fits beside the snapshot, and so beside whoever is  *)
(* at work.                                                                *)
LEMMA AdmittedFits ==
  ASSUME TypeInv, CapInv, Known, Decide
  PROVE  Cardinality((LiveJobs \cup chosen)') <= Cap
<1> USE LimitsAssumption
<1>1. PICK S \in SUBSET Candidates : Admissible(S) /\ chosen' = S
  BY DEF Decide
<1>2. S \subseteq Tasks /\ running \subseteq Tasks
  BY DEF Candidates, TypeInv, TypeOK
<1>3. IsFiniteSet(S) /\ IsFiniteSet(running)
  BY <1>2, TasksAssumption, FS_Subset
<1>4. /\ Cardinality(S) \in Nat /\ Cardinality(running) \in Nat
      /\ Cardinality(running \cap S) \in Nat
  BY <1>3, FS_CardinalityType, FS_Intersection
<1>5. Cardinality(running) <= Cap
  BY DEF CapInv, WithinCap
<1>6. Cardinality(S) <= Cap - Cardinality(running)
  BY <1>1, <1>4, <1>5 DEF Admissible
<1>7. Cardinality(running \cup S) = Cardinality(running) + Cardinality(S)
                                      - Cardinality(running \cap S)
  BY <1>3, FS_Union
<1>8. Cardinality(running \cup S) <= Cap
  BY <1>4, <1>6, <1>7
<1>9. (LiveJobs \cup chosen)' \subseteq running \cup S
  <2>1. LiveJobs \subseteq running
    BY DEF LiveJobs, LiveWorkers, Known, Decide, Snapshot
  <2>2. LiveJobs' = LiveJobs
    BY DEF LiveJobs, LiveWorkers, Live, Decide, procs
  <2> QED
    BY <1>1, <2>1, <2>2
<1> QED
  BY <1>2, <1>8, <1>9, SmallerFits

LEMMA CapStep == TypeInv /\ CapInv /\ Known /\ [Next]_vars => CapInv'
<1> SUFFICES ASSUME TypeInv, CapInv, Known, [Next]_vars PROVE CapInv'
  OBVIOUS
<1>1. PidfilesTrue'
  BY PidfilesStep DEF CapInv
<1>2. LiveJobs \cup chosen \subseteq Tasks /\ running \subseteq Tasks
  BY LiveJobsAreTasks DEF TypeInv, TypeOK
<1>3. Cardinality((LiveJobs \cup chosen)') <= Cap
  <2>1. CASE Decide
    BY <2>1, AdmittedFits
  <2>2. CASE ~ Decide
    BY <1>2, <2>2, OnlyDecideAdmits, SmallerFits DEF CapInv, WithinCap
  <2> QED
    BY <2>1, <2>2
<1>4. Cardinality(running') <= Cap
  <2>1. CASE Reap
    BY <2>1, SnapshotFits
  <2>2. CASE ~ Reap
    BY <1>2, <2>2, OnlyReapTakesSnapshots, SmallerFits DEF CapInv, WithinCap
  <2> QED
    BY <2>1, <2>2
<1> QED
  BY <1>1, <1>3, <1>4 DEF CapInv, WithinCap

(* Live workers have different tasks, so there are no more of them than of *)
(* tasks at work.                                                          *)
LEMMA FitsRespectsCap ==
  ASSUME TypeInv, NoOverlapLive, CapInv
  PROVE  CapRespected
<1> DEFINE f == [w \in LiveWorkers |-> job[w]]
<1>1. f \in Injection(LiveWorkers, LiveJobs)
  BY DEF NoOverlapLive, LiveWorkers, LiveJobs, Injection, IsInjective
<1>2. LiveJobs \cup chosen \subseteq Tasks
  BY LiveJobsAreTasks DEF TypeInv, TypeOK
<1>3. Cardinality(LiveJobs) <= Cap
  BY <1>2, SmallerFits DEF CapInv, WithinCap
<1>4. IsFiniteSet(LiveJobs)
  BY <1>2, TasksAssumption, FS_Subset
<1>5. /\ IsFiniteSet(LiveWorkers)
      /\ Cardinality(LiveWorkers) <= Cardinality(LiveJobs)
  BY <1>1, <1>4, FS_Injection
<1>6. Cardinality(LiveWorkers) \in Nat /\ Cardinality(LiveJobs) \in Nat
  BY <1>4, <1>5, FS_CardinalityType
<1>7. Cardinality(LiveWorkers) <= Cap
  BY <1>3, <1>5, <1>6, LimitsAssumption
<1> QED
  BY <1>7 DEF CapRespected, LiveWorkers

LEMMA CapInvariant == Spec => [](~ GapCrash => CapInv)
<1>1. Init => (~ GapCrash => CapInv)
  BY CapInit
<1>2. TypeInv /\ (~ GapCrash => Dispatch) /\ (~ GapCrash => CapInv) /\ [Next]_vars
        => (~ GapCrash => CapInv)'
  BY CapStep DEF Dispatch
<1> QED
  BY <1>1, <1>2, TypeInvariant, DispatchInvariant, PTL DEF Spec

(* The live workers never outnumber parallel_cap, those a dead daemon left *)
(* behind included, provided it never dies between Popen and the pidfile.  *)
THEOREM CapIsRespected == Spec => [](~ GapCrash => CapRespected)
<1>1. TypeInv /\ (~ GapCrash => Dispatch) /\ (~ GapCrash => CapInv)
        => (~ GapCrash => CapRespected)
  BY FitsRespectsCap DEF Dispatch
<1> QED
  BY <1>1, TypeInvariant, DispatchInvariant, CapInvariant, PTL
=============================================================================
