---------------------- MODULE SequentialDispatchProofs ----------------------
(***************************************************************************)
(* The invariants of SequentialDispatch, for all sets of tasks and jobs,   *)
(* all caps and pools, and any number of crashes.                          *)
(***************************************************************************)
EXTENDS SequentialDispatch, FiniteSetTheorems, WellFoundedInduction, TLAPS

(* A job is launched with an attempt to spare, and counted once.           *)
LaunchCounted == pc = "mark" => attempts[busy] < MaxAttempts

(* Whatever is still to be launched has no pidfile: it is not running.     *)
ChosenAreNew == chosen \cap pidfile = {}

(* The snapshot of the iteration covers every pidfile the job pass has     *)
(* still to look at.                                                       *)
SnapshotCovers ==
    /\ pc = "decide" => pidfile \subseteq running
    /\ pc \in {"jobs", "mark"} => /\ todo \subseteq Jobs
                                  /\ todo \cap pidfile \subseteq running

(* During the suspension, who still runs is the new worker or is still to  *)
(* be visited.                                                             *)
OthersAreVisited ==
    pc = "suspend" => \A p \in Procs : proc[p] = "running" => p = busy \/ p \in todo

(* A home is in the hands of a live worker, and its sidecar names it.      *)
HomesAreMarked ==
    \A t \in Tasks : home[t] # None => Alive(t) /\ slot[t] = home[t]

DispatchInv ==
    /\ TypeOK /\ LaunchCounted
    /\ LiveIsTracked /\ ChosenAreNew /\ SnapshotCovers
    /\ StoppedIsOwed
    /\ OthersAreVisited /\ SequentialAlone
    /\ HomesAreMarked /\ HomesDistinct

----------------------------------------------------------------------------

LEMMA CardinalityNat == \A S \in SUBSET Procs : Cardinality(S) \in Nat
BY NamesAssumption, FS_Union, FS_Subset, FS_CardinalityType DEF Procs

(* The slot of a new worker is nobody's home: the sidecar of every live    *)
(* worker is read, because its pidfile is there.                           *)
LEMMA FreshSlot ==
  ASSUME DispatchInv, NEW s \in Slots, IsFreeSlot(s), NEW t \in Tasks
  PROVE  home[t] # s
<1> SUFFICES ASSUME home[t] = s PROVE FALSE
  OBVIOUS
<1>1. home[t] # None
  BY NamesAssumption
<1>2. Alive(t) /\ slot[t] = s
  BY <1>1 DEF DispatchInv, HomesAreMarked
<1>3. t \in pidfile
  BY <1>2 DEF DispatchInv, LiveIsTracked, Living, Procs
<1>4. s \in BusySlots
  BY <1>1, <1>2, <1>3 DEF BusySlots
<1> QED
  BY <1>4 DEF IsFreeSlot

LEMMA DispatchInit == Init => DispatchInv
BY NamesAssumption, BoundsAssumption
   DEF Init, DispatchInv, TypeOK, LaunchCounted, LiveIsTracked, Living, Alive, ChosenAreNew,
       SnapshotCovers, StoppedIsOwed, OthersAreVisited, SequentialAlone, HomesAreMarked,
       HomesDistinct, Procs, Slots, Phases

----------------------------------------------------------------------------
(* One lemma for each part of the invariant; in each, one step for each    *)
(* group of actions that leave it alone, or disturb it, in the same way.   *)


LEMMA TypeStep == DispatchInv /\ [Next]_vars => TypeOK'
<1> SUFFICES ASSUME DispatchInv, [Next]_vars PROVE TypeOK'
  OBVIOUS
<1> USE NamesAssumption, BoundsAssumption
    DEF DispatchInv, TypeOK, LaunchCounted, Phases, Procs, files, jobs, memory
<1>1. CASE UNCHANGED vars
  BY <1>1 DEF vars
<1>2. ASSUME NEW p \in Procs, Exit(p) \/ Age(p) PROVE TypeOK'
  BY <1>2 DEF Exit, Age, Kill
<1>3. ASSUME NEW p \in Procs, KillSuspended(p) PROVE TypeOK'
  BY <1>3 DEF KillSuspended, Kill
<1>4. ASSUME NEW p \in Procs, SweepOne(p) PROVE TypeOK'
  BY <1>4 DEF SweepOne, Unlink, Alive
<1>5. ASSUME NEW p \in Procs, Suspend(p) PROVE TypeOK'
  BY <1>5 DEF Suspend, Alive
<1>6. ASSUME NEW p \in Procs, Resume(p) PROVE TypeOK'
  BY <1>6 DEF Resume, Alive
<1>7. ASSUME NEW p \in Procs, Drain(p) PROVE TypeOK'
  BY <1>7 DEF Drain, Kill, Unlink
<1>8. ASSUME NEW j \in Jobs, FinishJob(j) PROVE TypeOK'
  BY <1>8 DEF FinishJob
<1>9. ASSUME NEW j \in Jobs, PassJob(j) PROVE TypeOK'
  BY <1>9 DEF PassJob
<1>10. ASSUME NEW j \in Jobs, LaunchJob(j) PROVE TypeOK'
  BY <1>10 DEF LaunchJob, Goto
<1>11. ASSUME NEW t \in Tasks, LaunchParallel(t) PROVE TypeOK'
  BY <1>11 DEF LaunchParallel
<1>12. ASSUME NEW t \in Tasks, SpawnFails(t) PROVE TypeOK'
  BY <1>12 DEF SpawnFails
<1>13. ASSUME NEW t \in Tasks, LaunchSequential(t) PROVE TypeOK'
  BY <1>13 DEF LaunchSequential, Goto
<1>14. CASE Start \/ Swept
  BY <1>14 DEF Start, Swept, Goto
<1>15. CASE Reap
  BY <1>15 DEF Reap, Goto, Kill, Unlink, Alive
<1>16. CASE Decide
  BY <1>16, CardinalityNat DEF Decide, Goto
<1>17. CASE MarkJob
  BY <1>17 DEF MarkJob, Goto
<1>18. CASE JobsDone
  BY <1>18, CardinalityNat DEF JobsDone, Goto
<1>19. CASE Suspended
  BY <1>19 DEF Suspended, Goto
<1>20. CASE SequentialEnds
  BY <1>20 DEF SequentialEnds, Goto, Kill, Unlink
<1>21. CASE Resumed \/ LaunchDone
  BY <1>21 DEF Resumed, LaunchDone, Goto
<1>22. CASE Drained \/ Shutdown
  BY <1>22 DEF Drained, Shutdown, Goto
<1>23. CASE Crash
  BY <1>23 DEF Crash, Goto, Forget
<1> QED BY <1>1, <1>2, <1>3, <1>4, <1>5, <1>6, <1>7, <1>8, <1>9, <1>10, <1>11,
      <1>12, <1>13, <1>14, <1>15, <1>16, <1>17, <1>18, <1>19, <1>20, <1>21,
      <1>22, <1>23 DEF Next, DaemonStep

LEMMA CountedStep == DispatchInv /\ [Next]_vars => LaunchCounted'
<1> SUFFICES ASSUME DispatchInv, [Next]_vars PROVE LaunchCounted'
  OBVIOUS
<1> USE NamesAssumption
    DEF DispatchInv, TypeOK, LaunchCounted, Phases, Procs, files, jobs, memory
<1>1. CASE UNCHANGED vars
  BY <1>1 DEF vars
<1>2. ASSUME NEW p \in Procs, Exit(p) \/ Age(p) \/ KillSuspended(p)
            PROVE LaunchCounted'
  BY <1>2 DEF Exit, Age, KillSuspended, Kill
<1>3. ASSUME NEW p \in Procs, SweepOne(p) \/ Suspend(p) \/ Resume(p) \/
            Drain(p) PROVE LaunchCounted'
  BY <1>3 DEF SweepOne, Suspend, Resume, Drain, Unlink, Alive, Kill
<1>4. ASSUME NEW j \in Jobs, FinishJob(j) \/ PassJob(j) PROVE
            LaunchCounted'
  BY <1>4 DEF FinishJob, PassJob
<1>5. ASSUME NEW j \in Jobs, LaunchJob(j) PROVE LaunchCounted'
  BY <1>5 DEF LaunchJob, Goto
<1>6. ASSUME NEW t \in Tasks, LaunchParallel(t) \/ SpawnFails(t) \/
            LaunchSequential(t) PROVE LaunchCounted'
  BY <1>6 DEF LaunchParallel, SpawnFails, LaunchSequential, Goto
<1>7. CASE Start \/ Swept \/ Reap \/ Decide \/ MarkJob \/ JobsDone
            \/ Suspended
  BY <1>7 DEF Start, Swept, Reap, Decide, MarkJob, JobsDone, Suspended, Goto,
      Kill, Unlink, Alive
<1>8. CASE SequentialEnds \/ Resumed \/ LaunchDone \/ Drained \/
            Shutdown \/ Crash
  BY <1>8 DEF SequentialEnds, Resumed, LaunchDone, Drained, Shutdown, Crash,
      Goto, Kill, Unlink, Forget
<1> QED BY <1>1, <1>2, <1>3, <1>4, <1>5, <1>6, <1>7, <1>8 DEF Next, DaemonStep

LEMMA TrackedStep == DispatchInv /\ [Next]_vars => LiveIsTracked'
<1> SUFFICES ASSUME DispatchInv, [Next]_vars PROVE LiveIsTracked'
  OBVIOUS
<1> USE NamesAssumption
    DEF DispatchInv, TypeOK, LiveIsTracked, Living, Alive, Procs, files, jobs,
        memory
<1>1. CASE UNCHANGED vars
  BY <1>1 DEF vars
<1>2. ASSUME NEW p \in Procs, Exit(p) \/ Age(p) \/ KillSuspended(p)
            PROVE LiveIsTracked'
  BY <1>2 DEF Exit, Age, KillSuspended, Kill
<1>3. ASSUME NEW p \in Procs, SweepOne(p) PROVE LiveIsTracked'
  BY <1>3 DEF SweepOne, Unlink
<1>4. ASSUME NEW p \in Procs, Suspend(p) \/ Resume(p) PROVE LiveIsTracked'
  BY <1>4 DEF Suspend, Resume
<1>5. ASSUME NEW p \in Procs, Drain(p) PROVE LiveIsTracked'
  BY <1>5 DEF Drain, Kill, Unlink
<1>6. ASSUME NEW j \in Jobs, FinishJob(j) \/ PassJob(j) \/ LaunchJob(j)
            PROVE LiveIsTracked'
  BY <1>6 DEF FinishJob, PassJob, LaunchJob, Goto
<1>7. ASSUME NEW t \in Tasks, LaunchParallel(t) PROVE LiveIsTracked'
  BY <1>7 DEF LaunchParallel
<1>8. ASSUME NEW t \in Tasks, SpawnFails(t) \/ LaunchSequential(t) PROVE
            LiveIsTracked'
  BY <1>8 DEF SpawnFails, LaunchSequential, Goto
<1>9. CASE Start \/ Swept \/ Decide \/ MarkJob \/ JobsDone \/
            Suspended
  BY <1>9 DEF Start, Swept, Decide, MarkJob, JobsDone, Suspended, Goto
<1>10. CASE Reap
  BY <1>10 DEF Reap, Goto, Kill, Unlink
<1>11. CASE SequentialEnds
  BY <1>11 DEF SequentialEnds, Goto, Kill, Unlink
<1>12. CASE Resumed \/ LaunchDone \/ Drained \/ Shutdown \/ Crash
  BY <1>12 DEF Resumed, LaunchDone, Drained, Shutdown, Crash, Goto, Forget
<1> QED BY <1>1, <1>2, <1>3, <1>4, <1>5, <1>6, <1>7, <1>8, <1>9, <1>10, <1>11,
      <1>12 DEF Next, DaemonStep

LEMMA ChosenStep == DispatchInv /\ [Next]_vars => ChosenAreNew'
<1> SUFFICES ASSUME DispatchInv, [Next]_vars PROVE ChosenAreNew'
  OBVIOUS
<1> USE NamesAssumption
    DEF DispatchInv, TypeOK, ChosenAreNew, SnapshotCovers, Procs, files, jobs,
        memory
<1>1. CASE UNCHANGED vars
  BY <1>1 DEF vars
<1>2. ASSUME NEW p \in Procs, Exit(p) \/ Age(p) \/ KillSuspended(p)
            PROVE ChosenAreNew'
  BY <1>2 DEF Exit, Age, KillSuspended, Kill
<1>3. ASSUME NEW p \in Procs, SweepOne(p) \/ Suspend(p) \/ Resume(p) \/
            Drain(p) PROVE ChosenAreNew'
  BY <1>3 DEF SweepOne, Suspend, Resume, Drain, Unlink, Alive, Kill
<1>4. ASSUME NEW j \in Jobs, FinishJob(j) \/ PassJob(j) \/ LaunchJob(j)
            PROVE ChosenAreNew'
  BY <1>4 DEF FinishJob, PassJob, LaunchJob, Goto
<1>5. ASSUME NEW t \in Tasks, LaunchParallel(t) \/ SpawnFails(t) \/
            LaunchSequential(t) PROVE ChosenAreNew'
  BY <1>5 DEF LaunchParallel, SpawnFails, LaunchSequential, Goto
<1>6. CASE Start \/ Swept \/ MarkJob \/ JobsDone \/ Suspended
  BY <1>6 DEF Start, Swept, MarkJob, JobsDone, Suspended, Goto
<1>7. CASE Reap
  BY <1>7 DEF Reap, Goto, Kill, Unlink, Alive
<1>8. CASE Decide
  BY <1>8 DEF Decide, Goto
<1>9. CASE SequentialEnds
  BY <1>9 DEF SequentialEnds, Goto, Kill, Unlink
<1>10. CASE Resumed \/ LaunchDone \/ Drained \/ Shutdown \/ Crash
  BY <1>10 DEF Resumed, LaunchDone, Drained, Shutdown, Crash, Goto, Forget
<1> QED BY <1>1, <1>2, <1>3, <1>4, <1>5, <1>6, <1>7, <1>8, <1>9, <1>10 DEF Next, DaemonStep

LEMMA SnapshotStep == DispatchInv /\ [Next]_vars => SnapshotCovers'
<1> SUFFICES ASSUME DispatchInv, [Next]_vars PROVE SnapshotCovers'
  OBVIOUS
<1> USE NamesAssumption
    DEF DispatchInv, TypeOK, ChosenAreNew, SnapshotCovers, Procs, files, jobs,
        memory
<1>1. CASE UNCHANGED vars
  BY <1>1 DEF vars
<1>2. ASSUME NEW p \in Procs, Exit(p) \/ Age(p) \/ KillSuspended(p)
            PROVE SnapshotCovers'
  BY <1>2 DEF Exit, Age, KillSuspended, Kill
<1>3. ASSUME NEW p \in Procs, SweepOne(p) \/ Suspend(p) \/ Resume(p) \/
            Drain(p) PROVE SnapshotCovers'
  BY <1>3 DEF SweepOne, Suspend, Resume, Drain, Unlink, Alive, Kill
<1>4. ASSUME NEW j \in Jobs, FinishJob(j) \/ PassJob(j) PROVE
            SnapshotCovers'
  BY <1>4 DEF FinishJob, PassJob
<1>5. ASSUME NEW j \in Jobs, LaunchJob(j) PROVE SnapshotCovers'
  BY <1>5 DEF LaunchJob, Goto
<1>6. ASSUME NEW t \in Tasks, LaunchParallel(t) \/ SpawnFails(t) \/
            LaunchSequential(t) PROVE SnapshotCovers'
  BY <1>6 DEF LaunchParallel, SpawnFails, LaunchSequential, Goto
<1>7. CASE Start \/ Swept \/ MarkJob \/ JobsDone \/ Suspended
  BY <1>7 DEF Start, Swept, MarkJob, JobsDone, Suspended, Goto
<1>8. CASE Reap
  BY <1>8 DEF Reap, Goto, Kill, Unlink, Alive
<1>9. CASE Decide
  BY <1>9 DEF Decide, Goto
<1>10. CASE SequentialEnds
  BY <1>10 DEF SequentialEnds, Goto, Kill, Unlink
<1>11. CASE Resumed \/ LaunchDone \/ Drained \/ Shutdown \/ Crash
  BY <1>11 DEF Resumed, LaunchDone, Drained, Shutdown, Crash, Goto, Forget
<1> QED BY <1>1, <1>2, <1>3, <1>4, <1>5, <1>6, <1>7, <1>8, <1>9, <1>10, <1>11 DEF Next, DaemonStep

LEMMA OwedStep == DispatchInv /\ [Next]_vars => StoppedIsOwed'
<1> SUFFICES ASSUME DispatchInv, [Next]_vars PROVE StoppedIsOwed'
  OBVIOUS
<1> USE NamesAssumption
    DEF DispatchInv, TypeOK, StoppedIsOwed, LiveIsTracked, Living, Alive,
        Procs, files, jobs, memory
<1>1. CASE UNCHANGED vars
  BY <1>1 DEF vars
<1>2. ASSUME NEW p \in Procs, Exit(p) \/ Age(p) PROVE StoppedIsOwed'
  BY <1>2 DEF Exit, Age, Kill
<1>3. ASSUME NEW p \in Procs, KillSuspended(p) PROVE StoppedIsOwed'
  BY <1>3 DEF KillSuspended, Kill
<1>4. ASSUME NEW p \in Procs, SweepOne(p) PROVE StoppedIsOwed'
  BY <1>4 DEF SweepOne, Unlink
<1>5. ASSUME NEW p \in Procs, Suspend(p) PROVE StoppedIsOwed'
  BY <1>5 DEF Suspend
<1>6. ASSUME NEW p \in Procs, Resume(p) PROVE StoppedIsOwed'
  BY <1>6 DEF Resume
<1>7. ASSUME NEW p \in Procs, Drain(p) PROVE StoppedIsOwed'
  BY <1>7 DEF Drain, Kill, Unlink
<1>8. ASSUME NEW j \in Jobs, FinishJob(j) \/ PassJob(j) \/ LaunchJob(j)
            PROVE StoppedIsOwed'
  BY <1>8 DEF FinishJob, PassJob, LaunchJob, Goto
<1>9. ASSUME NEW t \in Tasks, LaunchParallel(t) \/ SpawnFails(t) PROVE
            StoppedIsOwed'
  BY <1>9 DEF LaunchParallel, SpawnFails
<1>10. ASSUME NEW t \in Tasks, LaunchSequential(t) PROVE StoppedIsOwed'
  BY <1>10 DEF LaunchSequential, Goto
<1>11. CASE Start
  BY <1>11 DEF Start, Goto
<1>12. CASE Swept
  BY <1>12 DEF Swept, Goto
<1>13. CASE Reap
  BY <1>13 DEF Reap, Goto, Kill, Unlink
<1>14. CASE Decide \/ MarkJob \/ JobsDone \/ Suspended
  BY <1>14 DEF Decide, MarkJob, JobsDone, Suspended, Goto
<1>15. CASE SequentialEnds
  BY <1>15 DEF SequentialEnds, Goto, Kill, Unlink
<1>16. CASE Resumed \/ LaunchDone \/ Drained \/ Shutdown
  BY <1>16 DEF Resumed, LaunchDone, Drained, Shutdown, Goto
<1>17. CASE Crash
  BY <1>17 DEF Crash, Goto, Forget
<1> QED BY <1>1, <1>2, <1>3, <1>4, <1>5, <1>6, <1>7, <1>8, <1>9, <1>10, <1>11,
      <1>12, <1>13, <1>14, <1>15, <1>16, <1>17 DEF Next, DaemonStep

LEMMA VisitedStep == DispatchInv /\ [Next]_vars => OthersAreVisited'
<1> SUFFICES ASSUME DispatchInv, [Next]_vars PROVE OthersAreVisited'
  OBVIOUS
<1> USE NamesAssumption
    DEF DispatchInv, TypeOK, OthersAreVisited, SequentialAlone, LiveIsTracked,
        Living, Alive, Procs, files, jobs, memory
<1>1. CASE UNCHANGED vars
  BY <1>1 DEF vars
<1>2. ASSUME NEW p \in Procs, Exit(p) \/ Age(p) \/ KillSuspended(p)
            PROVE OthersAreVisited'
  BY <1>2 DEF Exit, Age, KillSuspended, Kill
<1>3. ASSUME NEW p \in Procs, SweepOne(p) \/ Resume(p) \/ Drain(p) PROVE
            OthersAreVisited'
  BY <1>3 DEF SweepOne, Resume, Drain, Unlink, Kill
<1>4. ASSUME NEW p \in Procs, Suspend(p) PROVE OthersAreVisited'
  BY <1>4 DEF Suspend
<1>5. ASSUME NEW j \in Jobs, FinishJob(j) \/ PassJob(j) \/ LaunchJob(j)
            PROVE OthersAreVisited'
  BY <1>5 DEF FinishJob, PassJob, LaunchJob, Goto
<1>6. ASSUME NEW t \in Tasks, LaunchParallel(t) \/ SpawnFails(t) PROVE
            OthersAreVisited'
  BY <1>6 DEF LaunchParallel, SpawnFails
<1>7. ASSUME NEW t \in Tasks, LaunchSequential(t) PROVE OthersAreVisited'
  BY <1>7 DEF LaunchSequential, Goto
<1>8. CASE Start \/ Swept \/ Reap
  BY <1>8 DEF Start, Swept, Reap, Goto, Kill, Unlink
<1>9. CASE Decide \/ MarkJob \/ JobsDone
  BY <1>9 DEF Decide, MarkJob, JobsDone, Goto
<1>10. CASE Suspended
  BY <1>10 DEF Suspended, Goto
<1>11. CASE SequentialEnds
  BY <1>11 DEF SequentialEnds, Goto, Kill, Unlink
<1>12. CASE Resumed \/ LaunchDone \/ Drained \/ Shutdown \/ Crash
  BY <1>12 DEF Resumed, LaunchDone, Drained, Shutdown, Crash, Goto, Forget
<1> QED BY <1>1, <1>2, <1>3, <1>4, <1>5, <1>6, <1>7, <1>8, <1>9, <1>10, <1>11,
      <1>12 DEF Next, DaemonStep

LEMMA AloneStep == DispatchInv /\ [Next]_vars => SequentialAlone'
<1> SUFFICES ASSUME DispatchInv, [Next]_vars PROVE SequentialAlone'
  OBVIOUS
<1> USE NamesAssumption
    DEF DispatchInv, TypeOK, OthersAreVisited, SequentialAlone, LiveIsTracked,
        Living, Alive, Procs, files, jobs, memory
<1>1. CASE UNCHANGED vars
  BY <1>1 DEF vars
<1>2. ASSUME NEW p \in Procs, Exit(p) \/ Age(p) \/ KillSuspended(p)
            PROVE SequentialAlone'
  BY <1>2 DEF Exit, Age, KillSuspended, Kill
<1>3. ASSUME NEW p \in Procs, SweepOne(p) \/ Resume(p) \/ Drain(p) PROVE
            SequentialAlone'
  BY <1>3 DEF SweepOne, Resume, Drain, Unlink, Kill
<1>4. ASSUME NEW p \in Procs, Suspend(p) PROVE SequentialAlone'
  BY <1>4 DEF Suspend
<1>5. ASSUME NEW j \in Jobs, FinishJob(j) \/ PassJob(j) \/ LaunchJob(j)
            PROVE SequentialAlone'
  BY <1>5 DEF FinishJob, PassJob, LaunchJob, Goto
<1>6. ASSUME NEW t \in Tasks, LaunchParallel(t) \/ SpawnFails(t) PROVE
            SequentialAlone'
  BY <1>6 DEF LaunchParallel, SpawnFails
<1>7. ASSUME NEW t \in Tasks, LaunchSequential(t) PROVE SequentialAlone'
  BY <1>7 DEF LaunchSequential, Goto
<1>8. CASE Start \/ Swept \/ Reap
  BY <1>8 DEF Start, Swept, Reap, Goto, Kill, Unlink
<1>9. CASE Decide \/ MarkJob \/ JobsDone
  BY <1>9 DEF Decide, MarkJob, JobsDone, Goto
<1>10. CASE Suspended
  BY <1>10 DEF Suspended, Goto
<1>11. CASE SequentialEnds
  BY <1>11 DEF SequentialEnds, Goto, Kill, Unlink
<1>12. CASE Resumed \/ LaunchDone \/ Drained \/ Shutdown \/ Crash
  BY <1>12 DEF Resumed, LaunchDone, Drained, Shutdown, Crash, Goto, Forget
<1> QED BY <1>1, <1>2, <1>3, <1>4, <1>5, <1>6, <1>7, <1>8, <1>9, <1>10, <1>11,
      <1>12 DEF Next, DaemonStep

LEMMA MarkedStep == DispatchInv /\ [Next]_vars => HomesAreMarked'
<1> SUFFICES ASSUME DispatchInv, [Next]_vars PROVE HomesAreMarked'
  OBVIOUS
<1> USE NamesAssumption
    DEF DispatchInv, TypeOK, HomesAreMarked, LiveIsTracked, Living, Alive,
        ChosenAreNew, Procs, files, jobs, memory
<1>1. CASE UNCHANGED vars
  BY <1>1 DEF vars
<1>2. ASSUME NEW p \in Procs, Exit(p) PROVE HomesAreMarked'
  BY <1>2 DEF Exit, Kill
<1>3. ASSUME NEW p \in Procs, Age(p) PROVE HomesAreMarked'
  BY <1>3 DEF Age
<1>4. ASSUME NEW p \in Procs, KillSuspended(p) PROVE HomesAreMarked'
  BY <1>4 DEF KillSuspended, Kill
<1>5. ASSUME NEW p \in Procs, SweepOne(p) PROVE HomesAreMarked'
  BY <1>5 DEF SweepOne, Unlink
<1>6. ASSUME NEW p \in Procs, Suspend(p) \/ Resume(p) PROVE
            HomesAreMarked'
  BY <1>6 DEF Suspend, Resume
<1>7. ASSUME NEW p \in Procs, Drain(p) PROVE HomesAreMarked'
  BY <1>7 DEF Drain, Kill, Unlink
<1>8. ASSUME NEW j \in Jobs, FinishJob(j) \/ PassJob(j) \/ LaunchJob(j)
            PROVE HomesAreMarked'
  BY <1>8 DEF FinishJob, PassJob, LaunchJob, Goto
<1>9. ASSUME NEW t \in Tasks, LaunchParallel(t) PROVE HomesAreMarked'
  BY <1>9 DEF LaunchParallel
<1>10. ASSUME NEW t \in Tasks, SpawnFails(t) PROVE HomesAreMarked'
  BY <1>10 DEF SpawnFails
<1>11. ASSUME NEW t \in Tasks, LaunchSequential(t) PROVE HomesAreMarked'
  BY <1>11 DEF LaunchSequential, Goto
<1>12. CASE Start \/ Swept \/ Decide \/ MarkJob \/ JobsDone \/
            Suspended
  BY <1>12 DEF Start, Swept, Decide, MarkJob, JobsDone, Suspended, Goto
<1>13. CASE Reap
  BY <1>13 DEF Reap, Goto, Kill, Unlink
<1>14. CASE SequentialEnds
  BY <1>14 DEF SequentialEnds, Goto, Kill, Unlink
<1>15. CASE Resumed \/ LaunchDone \/ Drained \/ Shutdown \/ Crash
  BY <1>15 DEF Resumed, LaunchDone, Drained, Shutdown, Crash, Goto, Forget
<1> QED BY <1>1, <1>2, <1>3, <1>4, <1>5, <1>6, <1>7, <1>8, <1>9, <1>10, <1>11,
      <1>12, <1>13, <1>14, <1>15 DEF Next, DaemonStep

LEMMA DistinctStep == DispatchInv /\ [Next]_vars => HomesDistinct'
<1> SUFFICES ASSUME DispatchInv, [Next]_vars PROVE HomesDistinct'
  OBVIOUS
<1> USE NamesAssumption
    DEF DispatchInv, TypeOK, HomesDistinct, Procs, files, jobs, memory
<1>1. CASE UNCHANGED vars
  BY <1>1 DEF vars
<1>2. ASSUME NEW p \in Procs, Exit(p) \/ Age(p) \/ KillSuspended(p)
            PROVE HomesDistinct'
  BY <1>2 DEF Exit, Age, KillSuspended, Kill
<1>3. ASSUME NEW p \in Procs, SweepOne(p) \/ Suspend(p) \/ Resume(p)
            PROVE HomesDistinct'
  BY <1>3 DEF SweepOne, Suspend, Resume, Unlink, Alive
<1>4. ASSUME NEW p \in Procs, Drain(p) PROVE HomesDistinct'
  BY <1>4 DEF Drain, Kill, Unlink
<1>5. ASSUME NEW j \in Jobs, FinishJob(j) \/ PassJob(j) \/ LaunchJob(j)
            PROVE HomesDistinct'
  BY <1>5 DEF FinishJob, PassJob, LaunchJob, Goto
<1>6. ASSUME NEW t \in Tasks, LaunchParallel(t) PROVE HomesDistinct'
  BY <1>6, FreshSlot DEF LaunchParallel
<1>7. ASSUME NEW t \in Tasks, SpawnFails(t) \/ LaunchSequential(t) PROVE
            HomesDistinct'
  BY <1>7 DEF SpawnFails, LaunchSequential, Goto
<1>8. CASE Start \/ Swept \/ Decide \/ MarkJob \/ JobsDone \/
            Suspended
  BY <1>8 DEF Start, Swept, Decide, MarkJob, JobsDone, Suspended, Goto
<1>9. CASE Reap
  BY <1>9 DEF Reap, Goto, Kill, Unlink, Alive
<1>10. CASE SequentialEnds
  BY <1>10 DEF SequentialEnds, Goto, Kill, Unlink
<1>11. CASE Resumed \/ LaunchDone \/ Drained \/ Shutdown \/ Crash
  BY <1>11 DEF Resumed, LaunchDone, Drained, Shutdown, Crash, Goto, Forget
<1> QED BY <1>1, <1>2, <1>3, <1>4, <1>5, <1>6, <1>7, <1>8, <1>9, <1>10, <1>11 DEF Next, DaemonStep

----------------------------------------------------------------------------

LEMMA DispatchStep == DispatchInv /\ [Next]_vars => DispatchInv'
BY TypeStep, CountedStep, TrackedStep, ChosenStep, SnapshotStep, OwedStep, VisitedStep, AloneStep,
   MarkedStep, DistinctStep DEF DispatchInv

LEMMA DispatchInvariant == Spec => []DispatchInv
<1>1. Init => DispatchInv
  BY DispatchInit
<1>2. DispatchInv /\ [Next]_vars => DispatchInv'
  BY DispatchStep
<1> QED
  BY <1>1, <1>2, PTL DEF Spec

(* Type correctness of the daemon's processes and files.                   *)
THEOREM DispatchTypeOK == Spec => []TypeOK
BY DispatchInvariant, PTL DEF DispatchInv

(* No crash, kill or drain leaves a live process without a pidfile.        *)
THEOREM LiveAlwaysTracked == Spec => []LiveIsTracked
BY DispatchInvariant, PTL DEF DispatchInv

(* A stopped process is in the memory of the daemon that stopped it or     *)
(* before the sweep of the next one.                                       *)
THEOREM StoppedAlwaysOwed == Spec => []StoppedIsOwed
BY DispatchInvariant, PTL DEF DispatchInv

(* While a sequential worker is waited for, nothing else runs.             *)
THEOREM SequentialAlwaysAlone == Spec => []SequentialAlone
BY DispatchInvariant, PTL DEF DispatchInv

(* Live workers have homes of their own.                                   *)
THEOREM HomesAlwaysDistinct == Spec => []HomesDistinct
BY DispatchInvariant, PTL DEF DispatchInv

----------------------------------------------------------------------------
(* Nothing is started twice. *)

LEMMA StartsTheDead ==
  DispatchInv /\ [Next]_vars =>
    [\A p \in Procs :
        (busy' = p /\ busy # p) \/ p \in chosen \ chosen' => proc[p] = "none"]_vars
<1> SUFFICES ASSUME DispatchInv, [Next]_vars, NEW p \in Procs,
                    (busy' = p /\ busy # p) \/ p \in chosen \ chosen'
             PROVE  proc[p] = "none"
  OBVIOUS
<1>1. p \notin pidfile => proc[p] = "none"
  BY DEF DispatchInv, LiveIsTracked, Living, Alive
<1>2. CASE p \in chosen
  BY <1>1, <1>2 DEF DispatchInv, ChosenAreNew
<1>3. CASE busy' = p /\ busy # p
  <2> USE <1>3, NamesAssumption DEF memory
  <2>1. ASSUME NEW j \in Jobs, LaunchJob(j) PROVE proc[p] = "none"
    BY <2>1, <1>1 DEF LaunchJob, DispatchInv, SnapshotCovers
  <2>2. ASSUME NEW t \in Tasks, LaunchSequential(t) PROVE proc[p] = "none"
    BY <2>2, <1>2 DEF LaunchSequential
  <2>3. ASSUME NEW t \in Tasks, LaunchParallel(t) \/ SpawnFails(t) PROVE FALSE
    BY <2>3 DEF LaunchParallel, SpawnFails
  <2>4. ASSUME NEW q \in Procs, SweepOne(q) \/ Suspend(q) \/ Resume(q) \/ Drain(q)
                                  \/ Exit(q) \/ Age(q) \/ KillSuspended(q)
        PROVE  FALSE
    BY <2>4 DEF SweepOne, Suspend, Resume, Drain, Exit, Age, KillSuspended
  <2>5. ASSUME NEW j \in Jobs, PassJob(j) \/ FinishJob(j) PROVE FALSE
    BY <2>5 DEF PassJob, FinishJob
  <2>6. CASE \/ Start \/ Swept \/ Reap \/ Decide \/ JobsDone \/ Suspended \/ Resumed
             \/ LaunchDone \/ Drained \/ Shutdown \/ UNCHANGED vars
    BY <2>6 DEF Start, Swept, Reap, Decide, JobsDone, Suspended, Resumed, LaunchDone, Drained,
                Shutdown, vars
  <2>7. CASE MarkJob \/ SequentialEnds \/ Crash
    BY <2>7 DEF MarkJob, SequentialEnds, Crash, Forget, Procs
  <2> QED
    BY <2>1, <2>2, <2>3, <2>4, <2>5, <2>6, <2>7 DEF Next, DaemonStep
<1> QED
  BY <1>2, <1>3

(* No process is started, and no task taken up, while one of its name      *)
(* lives.                                                                  *)
THEOREM NeverStartedTwice == Spec => NeverTwice
<1>1. DispatchInv /\ [Next]_vars =>
        [\A p \in Procs :
            (busy' = p /\ busy # p) \/ p \in chosen \ chosen' => proc[p] = "none"]_vars
  BY StartsTheDead
<1> QED
  BY <1>1, DispatchInvariant, PTL DEF Spec, NeverTwice

----------------------------------------------------------------------------
(* The pool is large enough. *)

Pooled == pidfile \cap Tasks

(* The tasks with a pidfile and those still to be launched fit the cap.    *)
RoomForChosen ==
    pc \in {"jobs", "mark", "launch", "suspend", "wait", "resume"} /\ chosen # {}
        => Cardinality(Pooled) + Cardinality(chosen) <= Cap

LEMMA TaskSets ==
  ASSUME NEW S \in SUBSET Tasks
  PROVE  /\ IsFiniteSet(S)
         /\ Cardinality(S) \in Nat
         /\ \A T \in SUBSET S : Cardinality(T) \in Nat /\ Cardinality(T) <= Cardinality(S)
         /\ \A t \in S : Cardinality(S \ {t}) = Cardinality(S) - 1
         /\ \A t \in Tasks \ S : Cardinality(S \cup {t}) = Cardinality(S) + 1
         /\ S # {} => Cardinality(S) > 0
<1>1. IsFiniteSet(S) /\ Cardinality(S) \in Nat
  BY NamesAssumption, FS_Subset, FS_CardinalityType
<1>2. \A T \in SUBSET S : Cardinality(T) \in Nat /\ Cardinality(T) <= Cardinality(S)
  BY <1>1, FS_Subset, FS_CardinalityType
<1>3. \A t \in S : Cardinality(S \ {t}) = Cardinality(S) - 1
  BY <1>1, FS_RemoveElement
<1>4. \A t \in Tasks \ S : Cardinality(S \cup {t}) = Cardinality(S) + 1
  BY <1>1, FS_AddElement
<1>5. S # {} => Cardinality(S) > 0
  BY <1>1, FS_EmptySet
<1> QED
  BY <1>1, <1>2, <1>3, <1>4, <1>5

(* Fewer tasks with a pidfile, or fewer to launch, fit as well.            *)
LEMMA RoomShrinks ==
  ASSUME DispatchInv, RoomForChosen,
         Pooled' \subseteq Pooled, chosen' \subseteq chosen,
         pc' \in {"jobs", "mark", "launch", "suspend", "wait", "resume"}
           => pc \in {"jobs", "mark", "launch", "suspend", "wait", "resume"}
  PROVE  RoomForChosen'
<1>1. Pooled \subseteq Tasks /\ chosen \subseteq Tasks
  BY DEF Pooled, DispatchInv, TypeOK
<1>2. /\ Cardinality(Pooled') <= Cardinality(Pooled)
      /\ Cardinality(chosen') <= Cardinality(chosen)
      /\ Cardinality(Pooled) \in Nat /\ Cardinality(Pooled') \in Nat
      /\ Cardinality(chosen) \in Nat /\ Cardinality(chosen') \in Nat
  BY <1>1, TaskSets
<1>3. chosen' # {} => chosen # {}
  OBVIOUS
<1> QED
  BY <1>2, <1>3, BoundsAssumption DEF RoomForChosen

(* A task that is launched moves from the one to the other.                *)
LEMMA RoomMoves ==
  ASSUME DispatchInv, RoomForChosen, pc = "launch", NEW t \in chosen,
         Pooled' = Pooled \cup {t}, chosen' = chosen \ {t}
  PROVE  RoomForChosen'
<1>1. Pooled \subseteq Tasks /\ chosen \subseteq Tasks /\ t \in Tasks /\ t \notin Pooled
  BY DEF Pooled, DispatchInv, TypeOK, ChosenAreNew
<1>2. /\ Cardinality(Pooled') = Cardinality(Pooled) + 1
      /\ Cardinality(chosen') = Cardinality(chosen) - 1
      /\ Cardinality(Pooled) \in Nat /\ Cardinality(chosen) \in Nat
  BY <1>1, TaskSets
<1> QED
  BY <1>2, BoundsAssumption DEF RoomForChosen

LEMMA RoomStep == DispatchInv /\ RoomForChosen /\ [Next]_vars => RoomForChosen'
<1> SUFFICES ASSUME DispatchInv, RoomForChosen, [Next]_vars PROVE RoomForChosen'
  OBVIOUS
<1> USE NamesAssumption DEF Pooled, Procs, files, jobs, memory
<1>1. ASSUME NEW t \in Tasks, LaunchParallel(t) \/ LaunchSequential(t) PROVE RoomForChosen'
  <2>1. pc = "launch" /\ t \in chosen /\ Pooled' = Pooled \cup {t} /\ chosen' = chosen \ {t}
    BY <1>1 DEF LaunchParallel, LaunchSequential
  <2> QED
    BY <2>1, RoomMoves
<1>2. CASE Decide
  <2>1. pidfile \subseteq running /\ running \subseteq Procs /\ pidfile' = pidfile
    BY <1>2 DEF Decide, DispatchInv, SnapshotCovers, TypeOK
  <2>2. chosen' # {} => Cardinality(chosen') + Cardinality(running) <= Cap
    BY <1>2 DEF Decide
  <2>3. IsFiniteSet(running)
    BY <2>1, FS_Union, FS_Subset
  <2>4. Cardinality(Pooled') <= Cardinality(running)
    BY <2>1, <2>3, FS_Subset
  <2>5. chosen' \subseteq Tasks /\ Pooled' \subseteq Tasks
    BY <1>2, <2>1 DEF Decide
  <2>6. Cardinality(chosen') \in Nat /\ Cardinality(Pooled') \in Nat
    BY <2>5, TaskSets
  <2>7. Cardinality(running) \in Nat
    BY <2>3, FS_CardinalityType
  <2> QED
    BY <2>2, <2>4, <2>6, <2>7, BoundsAssumption DEF RoomForChosen
<1>3. ASSUME NEW j \in Jobs, LaunchJob(j) PROVE RoomForChosen'
  <2>1. Pooled' = Pooled /\ chosen' = chosen /\ pc = "jobs"
    BY <1>3 DEF LaunchJob
  <2> QED
    BY <2>1, RoomShrinks
<1>4. ASSUME NEW j \in Jobs, PassJob(j) \/ FinishJob(j) PROVE RoomForChosen'
  BY <1>4, RoomShrinks DEF PassJob, FinishJob
<1>5. ASSUME NEW p \in Procs, \/ SweepOne(p) \/ Suspend(p) \/ Resume(p) \/ Drain(p)
                              \/ Exit(p) \/ Age(p) \/ KillSuspended(p)
      PROVE  RoomForChosen'
  <2>1. Pooled' \subseteq Pooled /\ chosen' = chosen /\ pc' = pc
    BY <1>5 DEF SweepOne, Suspend, Resume, Drain, Exit, Age, KillSuspended, Kill, Unlink
  <2> QED
    BY <2>1, RoomShrinks
<1>6. ASSUME NEW t \in Tasks, SpawnFails(t) PROVE RoomForChosen'
  BY <1>6, RoomShrinks DEF SpawnFails
<1>7. CASE \/ Start \/ Swept \/ Reap \/ LaunchDone \/ Drained \/ Shutdown \/ Crash
  BY <1>7 DEF Start, Swept, Reap, LaunchDone, Drained, Shutdown, Crash, Goto, RoomForChosen
<1>8. CASE MarkJob \/ JobsDone \/ Suspended \/ SequentialEnds \/ Resumed
  <2>1. /\ Pooled' \subseteq Pooled /\ chosen' = chosen
        /\ pc \in {"jobs", "mark", "launch", "suspend", "wait", "resume"}
    BY <1>8 DEF MarkJob, JobsDone, Suspended, SequentialEnds, Resumed, Unlink
  <2> QED
    BY <2>1, RoomShrinks
<1>9. CASE UNCHANGED vars
  BY <1>9, RoomShrinks DEF vars
<1> QED
  BY <1>1, <1>2, <1>3, <1>4, <1>5, <1>6, <1>7, <1>8, <1>9 DEF Next, DaemonStep

(* A free slot, if there is one, has a lowest one below it: the sets of    *)
(* the free slots below each are well-founded under inclusion.             *)
LEMMA LowestSlot ==
  ASSUME NEW F \in SUBSET Slots, F # {}
  PROVE  \E s \in F : \A r \in F : s <= r
<1> DEFINE Below(s) == {r \in F : r < s}
           Belows == {Below(s) : s \in F}
<1>1. IsFiniteSet(Slots)
  BY BoundsAssumption, FS_Interval DEF Slots
<1>2. Belows \subseteq FiniteSubsetsOf(Slots) /\ Belows # {}
  <2>1. ASSUME NEW s \in F PROVE Below(s) \in FiniteSubsetsOf(Slots)
    <3>1. Below(s) \in SUBSET Slots
      OBVIOUS
    <3>2. IsFiniteSet(Below(s))
      BY <1>1, <3>1, FS_Subset
    <3> QED
      BY <3>1, <3>2 DEF FiniteSubsetsOf
  <2> QED
    BY <2>1
<1>3. PICK B \in Belows : \A C \in Belows : <<C, B>> \notin StrictSubsetOrdering(Slots)
  BY <1>2, FS_StrictSubsetOrderingWellFounded, WFMin
<1>4. PICK s \in F : B = Below(s)
  OBVIOUS
<1>5. SUFFICES ASSUME NEW r \in F, ~(s <= r) PROVE FALSE
  BY <1>4
<1>6. /\ r \in Int /\ s \in Int /\ r < s
      /\ \A q \in F : q \in Int
  BY <1>5, BoundsAssumption DEF Slots
<1>7. r \in Below(s) /\ r \notin Below(r)
  BY <1>6
<1>8. ASSUME NEW q \in F, q < r PROVE q < s
  BY <1>6, <1>8
<1>9. Below(r) \subseteq Below(s) /\ Below(r) # Below(s)
  BY <1>7, <1>8
<1>10. <<Below(r), Below(s)>> \in StrictSubsetOrdering(Slots)
  BY <1>9 DEF StrictSubsetOrdering
<1> QED
  BY <1>3, <1>4, <1>10

LEMMA BusySlotsFit == Cardinality(BusySlots) \in Nat /\ Cardinality(BusySlots) <= Cardinality(Pooled)
<1> DEFINE Taken == {slot[t] : t \in Tasks \cap pidfile}
           f == [t \in Tasks \cap pidfile |-> slot[t]]
<1>1. IsFiniteSet(Tasks \cap pidfile)
  BY NamesAssumption, FS_Intersection
<1>2. f \in Surjection(Tasks \cap pidfile, Taken)
  BY DEF Surjection
<1>3. IsFiniteSet(Taken) /\ Cardinality(Taken) <= Cardinality(Tasks \cap pidfile)
  BY <1>1, <1>2, FS_Surjection
<1>4. BusySlots \subseteq Taken
  BY DEF BusySlots
<1>5. IsFiniteSet(BusySlots) /\ Cardinality(BusySlots) <= Cardinality(Taken)
  BY <1>3, <1>4, FS_Subset
<1>6. Tasks \cap pidfile = Pooled
  BY DEF Pooled
<1>7. /\ Cardinality(BusySlots) \in Nat /\ Cardinality(Taken) \in Nat
      /\ Cardinality(Pooled) \in Nat
  BY <1>1, <1>3, <1>5, <1>6, FS_CardinalityType
<1>8. Cardinality(Taken) <= Cardinality(Pooled)
  BY <1>3, <1>6
<1> HIDE DEF Taken
<1> QED
  BY <1>5, <1>7, <1>8

LEMMA RoomSuffices == DispatchInv /\ RoomForChosen => PoolSuffices
<1> SUFFICES ASSUME DispatchInv, RoomForChosen, pc = "launch", chosen # {}
             PROVE  \E s \in Slots : IsFreeSlot(s)
  BY DEF PoolSuffices
<1>1. chosen \subseteq Tasks /\ Pooled \subseteq Tasks
  BY DEF DispatchInv, TypeOK, Pooled
<1>2. Cardinality(chosen) \in Nat /\ Cardinality(chosen) > 0 /\ Cardinality(Pooled) \in Nat
  BY <1>1, TaskSets
<1>3. Cardinality(Pooled) < PoolSize
  BY <1>2, BoundsAssumption, PoolAssumption DEF RoomForChosen
<1>4. IsFiniteSet(Slots) /\ Cardinality(Slots) = PoolSize
  BY BoundsAssumption, FS_Interval DEF Slots
<1>5. Slots \ BusySlots # {}
  <2>1. SUFFICES ASSUME Slots \subseteq BusySlots PROVE FALSE
    OBVIOUS
  <2>2. BusySlots \subseteq Slots
    BY DEF DispatchInv, TypeOK, BusySlots
  <2>3. Cardinality(BusySlots) = PoolSize
    BY <2>1, <2>2, <1>4
  <2> QED
    BY <2>3, <1>2, <1>3, BusySlotsFit, BoundsAssumption
<1>6. PICK s \in Slots \ BusySlots : \A r \in Slots \ BusySlots : s <= r
  BY <1>5, LowestSlot
<1> QED
  BY <1>6 DEF IsFreeSlot

LEMMA RoomInvariant == Spec => []RoomForChosen
<1>1. Init => RoomForChosen
  BY DEF Init, RoomForChosen
<1>2. DispatchInv /\ RoomForChosen /\ [Next]_vars => RoomForChosen'
  BY RoomStep
<1> QED
  BY <1>1, <1>2, DispatchInvariant, PTL DEF Spec

(* Whenever a task is to be launched, its slot allocation succeeds.        *)
THEOREM PoolAlwaysSuffices == Spec => []PoolSuffices
<1>1. DispatchInv /\ RoomForChosen => PoolSuffices
  BY RoomSuffices
<1> QED
  BY <1>1, DispatchInvariant, RoomInvariant, PTL

----------------------------------------------------------------------------
(* The cap holds of the processes, not only of the count at the decision.  *)

(* The tasks with a pidfile fit the cap.  With LiveIsTracked this bounds   *)
(* the live workers; RoomForChosen is what a launch needs to keep it.      *)
PooledFit == Cardinality(Pooled) <= Cap

LEMMA FitShrinks ==
  ASSUME DispatchInv, PooledFit, Pooled' \subseteq Pooled
  PROVE  PooledFit'
<1>1. /\ Cardinality(Pooled') <= Cardinality(Pooled)
      /\ Cardinality(Pooled) \in Nat /\ Cardinality(Pooled') \in Nat
  BY TaskSets DEF Pooled, DispatchInv, TypeOK
<1> QED
  BY <1>1, BoundsAssumption DEF PooledFit

LEMMA FitGrows ==
  ASSUME DispatchInv, RoomForChosen, pc = "launch", NEW t \in chosen,
         Pooled' = Pooled \cup {t}
  PROVE  PooledFit'
<1>1. Pooled \subseteq Tasks /\ chosen \subseteq Tasks /\ t \in Tasks /\ t \notin Pooled
  BY DEF Pooled, DispatchInv, TypeOK, ChosenAreNew
<1>2. /\ Cardinality(Pooled') = Cardinality(Pooled) + 1
      /\ Cardinality(Pooled) \in Nat
      /\ Cardinality(chosen) \in Nat /\ Cardinality(chosen) > 0
  BY <1>1, TaskSets
<1> QED
  BY <1>2, BoundsAssumption DEF RoomForChosen, PooledFit

LEMMA FitStep == DispatchInv /\ RoomForChosen /\ PooledFit /\ [Next]_vars => PooledFit'
<1> SUFFICES ASSUME DispatchInv, RoomForChosen, PooledFit, [Next]_vars PROVE PooledFit'
  OBVIOUS
<1> USE NamesAssumption DEF Pooled, Procs, files, jobs, memory
<1>1. ASSUME NEW t \in Tasks, LaunchParallel(t) \/ LaunchSequential(t) PROVE PooledFit'
  <2>1. pc = "launch" /\ t \in chosen /\ Pooled' = Pooled \cup {t}
    BY <1>1 DEF LaunchParallel, LaunchSequential
  <2> QED
    BY <2>1, FitGrows
<1>2. ASSUME NEW j \in Jobs, LaunchJob(j) \/ PassJob(j) \/ FinishJob(j) PROVE PooledFit'
  <2>1. Pooled' = Pooled
    BY <1>2 DEF LaunchJob, PassJob, FinishJob
  <2> QED
    BY <2>1, FitShrinks
<1>3. ASSUME NEW p \in Procs, \/ SweepOne(p) \/ Suspend(p) \/ Resume(p) \/ Drain(p)
                              \/ Exit(p) \/ Age(p) \/ KillSuspended(p)
      PROVE  PooledFit'
  <2>1. Pooled' \subseteq Pooled
    BY <1>3 DEF SweepOne, Suspend, Resume, Drain, Exit, Age, KillSuspended, Unlink
  <2> QED
    BY <2>1, FitShrinks
<1>4. ASSUME NEW t \in Tasks, SpawnFails(t) PROVE PooledFit'
  BY <1>4, FitShrinks DEF SpawnFails
<1>5. CASE Reap \/ SequentialEnds
  <2>1. Pooled' \subseteq Pooled
    BY <1>5 DEF Reap, SequentialEnds, Unlink
  <2> QED
    BY <2>1, FitShrinks
<1>6. CASE \/ Start \/ Swept \/ Decide \/ MarkJob \/ JobsDone \/ Suspended \/ Resumed
           \/ LaunchDone \/ Drained \/ Shutdown \/ Crash \/ UNCHANGED vars
  <2>1. pidfile' = pidfile
    BY <1>6 DEF Start, Swept, Decide, MarkJob, JobsDone, Suspended, Resumed, LaunchDone,
                Drained, Shutdown, Crash, vars
  <2> QED
    BY <2>1, FitShrinks
<1> QED
  BY <1>1, <1>2, <1>3, <1>4, <1>5, <1>6 DEF Next, DaemonStep

LEMMA FitSuffices == DispatchInv /\ PooledFit => WorkersWithinCap
<1> SUFFICES ASSUME DispatchInv, PooledFit PROVE WorkersWithinCap
  OBVIOUS
<1> DEFINE W == {t \in Tasks : Alive(t)}
<1>1. W \subseteq Pooled /\ Pooled \subseteq Tasks
  BY DEF Pooled, DispatchInv, LiveIsTracked, Living, Procs
<1>2. /\ Cardinality(W) <= Cardinality(Pooled)
      /\ Cardinality(W) \in Nat /\ Cardinality(Pooled) \in Nat
  BY <1>1, TaskSets
<1> QED
  BY <1>2, BoundsAssumption DEF PooledFit, WorkersWithinCap

(* Live workers never outnumber the cap.                                   *)
THEOREM WorkersAlwaysFit == Spec => []WorkersWithinCap
<1>1. Init => PooledFit
  <2>1. Init => Pooled = {}
    BY DEF Init, Pooled
  <2> QED
    BY <2>1, FS_EmptySet, BoundsAssumption DEF PooledFit
<1>2. DispatchInv /\ RoomForChosen /\ PooledFit /\ [Next]_vars => PooledFit'
  BY FitStep
<1>3. DispatchInv /\ PooledFit => WorkersWithinCap
  BY FitSuffices
<1> QED
  BY <1>1, <1>2, <1>3, DispatchInvariant, RoomInvariant, PTL DEF Spec

----------------------------------------------------------------------------
(* The refinement *)

Solo == IF pc = "wait" THEN busy ELSE None

poolVars == <<proc, home, Solo>>

(* What has no pidfile is dead and has no home. *)
LEMMA UntrackedIsDead ==
  ASSUME DispatchInv, NEW p \in Procs, p \notin pidfile
  PROVE  proc[p] = "none" /\ (p \in Tasks => home[p] = None)
BY DEF DispatchInv, LiveIsTracked, Living, Alive, HomesAreMarked

(* A task that is launched finds the cap not yet reached. *)
LEMMA RoomToLaunch ==
  ASSUME DispatchInv, RoomForChosen, pc = "launch", chosen # {}
  PROVE  Cardinality({t \in Tasks : Alive(t)}) < Cap
<1> DEFINE W == {t \in Tasks : Alive(t)}
<1>1. W \subseteq Pooled /\ Pooled \subseteq Tasks /\ chosen \subseteq Tasks
  BY DEF Pooled, DispatchInv, LiveIsTracked, Living, Procs, TypeOK
<1>2. /\ Cardinality(W) <= Cardinality(Pooled)
      /\ Cardinality(W) \in Nat /\ Cardinality(Pooled) \in Nat
      /\ Cardinality(chosen) \in Nat /\ Cardinality(chosen) > 0
  BY <1>1, TaskSets
<1>3. Cardinality(Pooled) + Cardinality(chosen) <= Cap
  BY DEF RoomForChosen
<1> HIDE DEF W
<1>4. Cardinality(W) < Cap
  BY <1>2, <1>3, BoundsAssumption
<1> QED
  BY <1>4 DEF W

(* The instance has its own copy of FiniteSets. *)
LEMMA SameCardinality == \A S : Pool!Cardinality(S) = Cardinality(S)
<1>1. \A S : Pool!IsFiniteSet(S) = IsFiniteSet(S)
  BY DEF Pool!IsFiniteSet, IsFiniteSet
<1> QED
  BY <1>1 DEF Pool!Cardinality, Cardinality

LEMMA TaskBegins ==
  ASSUME DispatchInv, RoomForChosen, NEW t \in Tasks, LaunchParallel(t) \/ LaunchSequential(t)
  PROVE  Pool!BeginTask(t)
<1>1. pc = "launch" /\ t \in chosen /\ proc' = [proc EXCEPT ![t] = "running"]
  BY DEF LaunchParallel, LaunchSequential
<1>2. Solo = None /\ Solo' = None
  BY <1>1 DEF LaunchParallel, LaunchSequential, Goto, Solo
<1>3. t \in Procs /\ t \notin pidfile
  BY <1>1 DEF Procs, DispatchInv, ChosenAreNew
<1>4. ~Alive(t) /\ home[t] = None
  BY <1>3, UntrackedIsDead DEF Alive
<1>5. Cardinality({u \in Tasks : Alive(u)}) < Cap
  BY <1>1, RoomToLaunch
<1>6. \E h \in {None} \cup (Slots \ {home[u] : u \in Tasks}) :
         home' = [home EXCEPT ![t] = h]
  <2>1. CASE LaunchParallel(t)
    <3>1. PICK s \in Slots : IsFreeSlot(s) /\ home' = [home EXCEPT ![t] = s]
      BY <2>1 DEF LaunchParallel
    <3>2. \A u \in Tasks : home[u] # s
      BY <3>1, FreshSlot
    <3> QED
      BY <3>1, <3>2
  <2>2. CASE LaunchSequential(t)
    <3>1. home' = [home EXCEPT ![t] = None]
      BY <2>2, <1>4 DEF LaunchSequential, DispatchInv, TypeOK
    <3> QED
      BY <3>1
  <2> QED
    BY <2>1, <2>2
<1> QED
  BY <1>1, <1>2, <1>4, <1>5, <1>6, SameCardinality DEF Pool!BeginTask, Pool!Begin, Pool!Live, Alive, Solo

LEMMA JobBegins ==
  ASSUME DispatchInv, NEW j \in Jobs, LaunchJob(j)
  PROVE  Pool!BeginJob(j)
<1>1. j \in Procs /\ j \notin pidfile
  BY DEF LaunchJob, DispatchInv, SnapshotCovers, Procs
<1>2. proc[j] = "none"
  BY <1>1, UntrackedIsDead
<1> QED
  BY <1>2 DEF LaunchJob, Goto, Pool!BeginJob, Pool!Begin, Pool!Live

(* Ends of processes, and the steps about one process that is alive.       *)
LEMMA ProcessRefines ==
  ASSUME DispatchInv, NEW p \in Procs,
         \/ SweepOne(p) \/ Suspend(p) \/ Resume(p) \/ Drain(p)
         \/ Exit(p) \/ KillSuspended(p)
  PROVE  Pool!Next \/ UNCHANGED poolVars
<1> USE DEF poolVars, Solo
<1>1. CASE SweepOne(p)
  <2>1. CASE Alive(p)
    <3>1. Pool!Continue(p)
      BY <1>1, <2>1 DEF SweepOne, Pool!Continue, Pool!Live, Alive
    <3> QED
      BY <3>1 DEF Pool!Next, Pool!Procs, Procs
  <2>2. CASE ~Alive(p)
    BY <1>1, <2>2 DEF SweepOne, memory
  <2> QED
    BY <2>1, <2>2
<1>2. CASE Suspend(p)
  <2>1. CASE Alive(p)
    <3>1. Pool!Stop(p)
      BY <1>2, <2>1 DEF Suspend, Pool!Stop, Pool!Live, Alive
    <3> QED
      BY <3>1 DEF Pool!Next, Pool!Procs, Procs
  <2>2. CASE ~Alive(p)
    BY <1>2, <2>2 DEF Suspend
  <2> QED
    BY <2>1, <2>2
<1>3. CASE Resume(p)
  <2>1. CASE Alive(p)
    <3>1. Pool!Continue(p)
      BY <1>3, <2>1 DEF Resume, Pool!Continue, Pool!Live, Alive
    <3> QED
      BY <3>1 DEF Pool!Next, Pool!Procs, Procs
  <2>2. CASE ~Alive(p)
    BY <1>3, <2>2 DEF Resume, Alive, DispatchInv, TypeOK
  <2> QED
    BY <2>1, <2>2
<1>4. CASE Drain(p) \/ Exit(p) \/ KillSuspended(p)
  <2>1. Pool!End({p})
    BY <1>4 DEF Drain, Exit, KillSuspended, Kill, memory, Pool!End, Pool!Die, Pool!Procs, Procs
  <2> QED
    BY <2>1 DEF Pool!Next, Pool!Procs, Procs
<1> QED
  BY <1>1, <1>2, <1>3, <1>4

LEMMA DaemonRefines ==
  ASSUME DispatchInv, Reap \/ Suspended \/ SequentialEnds \/ Crash
  PROVE  Pool!Next \/ UNCHANGED poolVars
<1> USE DEF poolVars, Solo
<1>1. CASE Reap
  <2> DEFINE hung == {p \in pidfile : Alive(p)} \cap aged
  <2>1. Pool!End(hung)
    BY <1>1 DEF Reap, Goto, Kill, Pool!End, Pool!Die, Pool!Procs, Procs
  <2>2. hung \in SUBSET Procs
    BY DEF DispatchInv, TypeOK
  <2> QED
    BY <2>1, <2>2 DEF Pool!Next, Pool!Procs, Procs
<1>2. CASE Suspended
  <2>1. busy \in Tasks /\ busy # None
    BY <1>2, NamesAssumption DEF Suspended, DispatchInv, TypeOK, Procs
  <2>2. \A p \in Procs : proc[p] = "running" => p = busy
    BY <1>2 DEF Suspended, DispatchInv, OthersAreVisited
  <2>3. Pool!Isolate(busy)
    BY <1>2, <2>2 DEF Suspended, Goto, memory, Pool!Isolate, Pool!Procs, Procs
  <2> QED
    BY <2>1, <2>3 DEF Pool!Next
<1>3. CASE SequentialEnds
  <2>1. busy # None
    BY <1>3, NamesAssumption DEF SequentialEnds, DispatchInv, TypeOK, Procs
  <2>2. Pool!Rejoin
    BY <1>3, <2>1 DEF SequentialEnds, Goto, Kill, Pool!Rejoin, Pool!Die, Pool!Procs, Procs
  <2> QED
    BY <2>2 DEF Pool!Next
<1>4. CASE Crash
  <2>1. CASE pc = "wait"
    <3>1. busy # None
      BY <2>1, NamesAssumption DEF DispatchInv, TypeOK, Procs
    <3>2. Pool!Rejoin
      BY <1>4, <2>1, <3>1 DEF Crash, Goto, Pool!Rejoin
    <3> QED
      BY <3>2 DEF Pool!Next
  <2>2. CASE pc # "wait"
    BY <1>4, <2>2 DEF Crash, Goto
  <2> QED
    BY <2>1, <2>2
<1> QED
  BY <1>1, <1>2, <1>3, <1>4

LEMMA PoolStep ==
  DispatchInv /\ RoomForChosen /\ [Next]_vars => [Pool!Next]_poolVars
<1> SUFFICES ASSUME DispatchInv, RoomForChosen, [Next]_vars
             PROVE  Pool!Next \/ UNCHANGED poolVars
  OBVIOUS
<1>1. ASSUME NEW t \in Tasks, LaunchParallel(t) \/ LaunchSequential(t)
      PROVE  Pool!Next
  BY <1>1, TaskBegins DEF Pool!Next
<1>2. ASSUME NEW j \in Jobs, LaunchJob(j) PROVE Pool!Next
  BY <1>2, JobBegins DEF Pool!Next
<1>3. ASSUME NEW p \in Procs, \/ SweepOne(p) \/ Suspend(p) \/ Resume(p) \/ Drain(p)
                              \/ Exit(p) \/ KillSuspended(p)
      PROVE  Pool!Next \/ UNCHANGED poolVars
  BY <1>3, ProcessRefines
<1>4. CASE Reap \/ Suspended \/ SequentialEnds \/ Crash
  BY <1>4, DaemonRefines
<1>5. ASSUME NEW p \in Procs, Age(p) PROVE UNCHANGED poolVars
  BY <1>5 DEF Age, memory, poolVars, Solo
<1>6. ASSUME NEW j \in Jobs, PassJob(j) \/ FinishJob(j) PROVE UNCHANGED poolVars
  BY <1>6 DEF PassJob, FinishJob, memory, poolVars, Solo
<1>7. ASSUME NEW t \in Tasks, SpawnFails(t) PROVE UNCHANGED poolVars
  BY <1>7 DEF SpawnFails, poolVars, Solo
<1>8. CASE \/ Start \/ Swept \/ Decide \/ MarkJob \/ JobsDone \/ Resumed
           \/ LaunchDone \/ Drained \/ Shutdown
  BY <1>8 DEF Start, Swept, Decide, MarkJob, JobsDone, Resumed, LaunchDone, Drained, Shutdown,
              Goto, memory, poolVars, Solo
<1>9. CASE UNCHANGED vars
  BY <1>9 DEF vars, memory, poolVars, Solo
<1> QED
  BY <1>1, <1>2, <1>3, <1>4, <1>5, <1>6, <1>7, <1>8, <1>9 DEF Next, DaemonStep

(* The daemon implements the abstract pool of processes.                   *)
THEOREM DispatchImplementsPool == Spec => ImplementsPool
<1>1. Init => Pool!Init
  BY DEF Init, Pool!Init, Pool!Procs, Procs
<1>2. DispatchInv /\ RoomForChosen /\ [Next]_vars => [Pool!Next]_poolVars
  BY PoolStep
<1> QED
  BY <1>1, <1>2, DispatchInvariant, RoomInvariant, PTL
     DEF Spec, ImplementsPool, Pool!Spec, poolVars, Solo
=============================================================================
