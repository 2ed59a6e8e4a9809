------------------------- MODULE BriefPlanningProofs -------------------------
(***************************************************************************)
(* The invariants of BriefPlanning, for all finite sets of briefs and      *)
(* tasks, all thresholds and any number of edits, withdrawals and crashes. *)
(***************************************************************************)
EXTENDS BriefPlanning, FiniteSetTheorems, TLAPS

(* A planner that outlived its daemon is one whose plan nobody judges.     *)
OrphansAreUnjudged == \A o \in orphans : o[1] \in unjudged

UnsoundInv == TypeOK /\ UnsoundIsPending /\ OrphansAreUnjudged

(* The run that is going on, which is not counted yet.                     *)
Uncounted(b) == IF pc \in {"planning", "judge"} /\ target = b THEN 1 ELSE 0

(* The counted runs since the last rest, as long as there was none.        *)
Counted(b) == IF attempts[b] <= FreeTries THEN attempts[b] ELSE 0

(* A brief that does not rest was tried no more often than the marker      *)
(* counts, the crashes explain, and the present run; one that rests has    *)
(* spent the free tries and one more.                                      *)
TriesAreCounted ==
    \A b \in Briefs :
        IF rest[b] = "none" THEN burst[b] <= Counted(b) + crashes + Uncounted(b)
        ELSE burst[b] <= FreeTries + 1 + crashes

(* A run on a brief that rests is the one run an edit gives it.            *)
EditedOnce ==
    pc \in {"planning", "judge"} /\ rest[target] # "none" => burst[target] <= 1

RestInv == TypeOK /\ TriesAreCounted /\ EditedOnce

(* Only retries and staging queue a task, and neither comes between the    *)
(* scan for zombies and their quarantine.                                  *)
FoundAreIdle ==
    pc = "quarantine" =>
        \A b \in Briefs : found[b] # 0 => \A t \in TasksOf(b) : ~InFlight(t)

IdleInv == TypeOK /\ FoundAreIdle

(* What bears on a brief that stays as it is: it is still in its place,    *)
(* and the stamp of its plans agrees with its bytes.                       *)
Settled(b) == b \notin Crlf /\ edits = 0

(* Everything that was read from the brief is its one content.             *)
ContentIsOne ==
    /\ \A b \in Briefs : brief[b] # 0
    /\ edits = 0 => \A o \in orphans : o[2] = brief[o[1]]
    /\ edits = 0 /\ pc = "planning" => reading = brief[target]
    /\ edits = 0 => \A b \in Briefs : plan[b] \in {NoPlan, brief[b]}
    /\ edits = 0 => \A t \in Tasks :
           /\ row[t] \in {NoRow, Unstamped, brief[Of[t]]}
           /\ seen[t] \in {NoRow, Unstamped, brief[Of[t]]}

(* A finished task is at rest until its brief is moved away.               *)
DoneIsClosed ==
    \A t \in Integrated \cup reaping :
        AtRoot(Of[t]) /\ Settled(Of[t]) => t \in processed /\ place[t] = "none"

(* The scan that comes before staging lists no such task.                  *)
ListedAreOpen ==
    pc = "stage" =>
        \A t \in listed : AtRoot(Of[t]) /\ Settled(Of[t]) =>
            ~InFlight(t) /\ t \notin Integrated \cup reaping

(* What is unlinked from processed/ is of a brief that goes to quarantine. *)
UnlinkedAreFound == pc = "quarantine" => \A t \in listed : found[Of[t]] # 0

DoneInv == TypeOK /\ ContentIsOne /\ DoneIsClosed /\ ListedAreOpen /\ UnlinkedAreFound

(* Whatever is planned of a brief that was never edited is planned of the  *)
(* one content it has, by the daemon or by orphans.                        *)
PlansAgree ==
    \A b \in Briefs : Unedited(b) =>
        /\ brief[b] # 0
        /\ plan[b] \in {NoPlan, brief[b]}
        /\ pc = "planning" /\ target = b => reading = brief[b]
        /\ \A o \in orphans : o[1] = b => o[2] = brief[b]

(* Its tasks are staged from such a plan, and a row says that they were    *)
(* built from it.                                                          *)
TasksAgree ==
    \A t \in Tasks : Unedited(Of[t]) =>
        /\ place[t] # "none" => spec[t] = brief[Of[t]]
        /\ row[t] # NoRow => brief[Of[t]] \in built[t]

BuiltInv == TypeOK /\ PlansAgree /\ TasksAgree

----------------------------------------------------------------------------

LEMMA BriefsAreCounted == Cardinality(Briefs) \in Nat /\ Anyone \in Briefs
<1>1. Cardinality(Briefs) \in Nat
  BY FiniteAssumption, FS_CardinalityType
<1>2. Anyone \in Briefs
  BY FiniteAssumption DEF Anyone
<1> QED
  BY <1>1, <1>2

LEMMA TypeInit == Init => TypeOK
<1> SUFFICES ASSUME Init PROVE TypeOK
  OBVIOUS
<1>1. brief \in [Briefs -> Nat]
  <2>1. brief \in [Briefs -> 1 .. Cardinality(Briefs)]
    BY DEF Init
  <2> QED
    BY <2>1, BriefsAreCounted
<1>2. attempts \in [Briefs -> 0 .. DayAfter]
  BY TiersAssumption DEF Init
<1>3. built \in [Tasks -> SUBSET Nat] /\ orphans \subseteq Briefs \X Nat
  BY DEF Init
<1>4. target \in Briefs
  BY BriefsAreCounted DEF Init
<1> QED
  BY <1>1, <1>2, <1>3, <1>4
     DEF Init, TypeOK, Homes, Rests, Places, Outcomes, Phases, NoRow, NoPlan

LEMMA TypeStep == TypeOK /\ [Next]_vars => TypeOK'
<1> SUFFICES ASSUME TypeOK, [Next]_vars PROVE TypeOK'
  OBVIOUS
<1> USE OfAssumption, SwitchAssumption, TiersAssumption, BriefsAreCounted
    DEF TypeOK, Homes, Rests, Places, Outcomes, Phases, NoRow, NoPlan,
        Unstamped, operatorVars, planVars, markerVars, taskVars, scanVars,
        runVars, historyVars
<1>1. CASE UNCHANGED vars
  BY <1>1 DEF vars
<1>2. CASE ReadLedger
  BY <1>2 DEF ReadLedger
<1>3. CASE ZombieScan
  BY <1>3 DEF ZombieScan
<1>4. CASE Quarantine
  BY <1>4 DEF Quarantine, NoScan
<1>5. CASE Sweep
  BY <1>5 DEF Sweep
<1>6. CASE SkipSweep
  BY <1>6 DEF SkipSweep
<1>7. CASE Retry
  BY <1>7 DEF Retry
<1>8. CASE Scan
  BY <1>8 DEF Scan
<1>9. CASE Stage
  BY <1>9 DEF Stage
<1>10. CASE ChooseNone
  BY <1>10 DEF ChooseNone, NoScan, Seasoned
<1>11. CASE PlannerFails
  BY <1>11 DEF PlannerFails
<1>12. CASE TimedOut
  BY <1>12 DEF TimedOut, JudgeDone, Discard, MarkFailed
<1>13. CASE Rejected
  BY <1>13 DEF Rejected, JudgeDone, Discard, MarkFailed
<1>14. CASE Hallucinated
  BY <1>14 DEF Hallucinated, JudgeDone, Discard, MarkFailed
<1>15. CASE KickedOff
  BY <1>15 DEF KickedOff, JudgeDone
<1>16. CASE Start
  BY <1>16 DEF Start
<1>17. CASE Crash
  <2>1. orphans' \subseteq Briefs \X Nat
    BY <1>17 DEF Crash
  <2>2. unjudged' \subseteq Briefs
    BY <1>17 DEF Crash
  <2>3. pc' = "dead" /\ outcome' = "none" /\ target' \in Briefs /\ reading' = 0
    BY <1>17 DEF Crash
  <2>4. crashes' \in Nat
    BY <1>17 DEF Crash
  <2>5. wedged' \in BOOLEAN
    <3>1. wedged' = wedged \/ wedged' = TRUE
      BY <1>17, Zenon DEF Crash
    <3> QED
      BY <3>1, Zenon
  <2>6. seen' \in [Tasks -> Nat \cup {NoRow}] /\ found' \in [Briefs -> Nat]
            /\ listed' \subseteq Tasks
    BY <1>17 DEF Crash, NoScan
  <2>7. UNCHANGED <<operatorVars, planVars, markerVars, taskVars, tried, burst>>
    BY <1>17 DEF Crash
  <2> QED
    BY <2>1, <2>2, <2>3, <2>4, <2>5, <2>6, <2>7
<1>18. ASSUME NEW b \in Briefs, Choose(b) PROVE TypeOK'
  BY <1>18 DEF Choose, NoScan, Seasoned
<1>19. ASSUME NEW b \in Briefs, Edit(b) PROVE TypeOK'
  BY <1>19 DEF Edit
<1>20. ASSUME NEW b \in Briefs, Withdraw(b) PROVE TypeOK'
  BY <1>20 DEF Withdraw
<1>21. ASSUME NEW b \in Briefs, Elapse(b) PROVE TypeOK'
  BY <1>21 DEF Elapse
<1>22. ASSUME NEW s \in BOOLEAN, PlannerWrites(s) PROVE TypeOK'
  BY <1>22 DEF PlannerWrites
<1>23. ASSUME NEW o \in orphans, OrphanEnds(o) PROVE TypeOK'
  BY <1>23 DEF OrphanEnds
<1>24. ASSUME NEW t \in Tasks, Claim(t) PROVE TypeOK'
  BY <1>24 DEF Claim
<1>25. ASSUME NEW t \in Tasks, Accept(t) PROVE TypeOK'
  BY <1>25 DEF Accept
<1>26. ASSUME NEW t \in Tasks, CloseNoDiff(t) PROVE TypeOK'
  BY <1>26 DEF CloseNoDiff
<1>27. ASSUME NEW t \in Tasks, Fail(t) PROVE TypeOK'
  BY <1>27 DEF Fail
<1>28. ASSUME NEW t \in Tasks, Reap(t) PROVE TypeOK'
  <2>1. home' \in [Briefs -> Homes] /\ plan' \in [Briefs -> Nat]
            /\ sound' \in [Briefs -> BOOLEAN]
    <3>1. \/ UNCHANGED <<home, planVars>>
          \/ /\ home' = [home EXCEPT ![Of[t]] = "archive"]
             /\ plan' = [plan EXCEPT ![Of[t]] = NoPlan]
             /\ sound' = [sound EXCEPT ![Of[t]] = FALSE]
      BY <1>28 DEF Reap
    <3>2. home' \in [Briefs -> Homes]
      BY <3>1
    <3>3. plan' \in [Briefs -> Nat]
      BY <3>1
    <3>4. sound' \in [Briefs -> BOOLEAN]
      BY <3>1
    <3> QED
      BY <3>2, <3>3, <3>4
  <2>2. reaping' \subseteq Tasks
    BY <1>28 DEF Reap
  <2>3. UNCHANGED <<brief, allowed, edits, markerVars, place, spec, processed, row,
                    built, pc, scanVars, runVars, orphans, wedged,
                    crashes, historyVars>>
    BY <1>28 DEF Reap
  <2> QED
    BY <2>1, <2>2, <2>3
<1>29. ASSUME NEW t \in Tasks, ReapDies(t) PROVE TypeOK'
  BY <1>29 DEF ReapDies
<1> QED BY <1>1, <1>2, <1>3, <1>4, <1>5, <1>6, <1>7, <1>8, <1>9, <1>10, <1>11,
      <1>12, <1>13, <1>14, <1>15, <1>16, <1>17, <1>18, <1>19, <1>20, <1>21,
      <1>22, <1>23, <1>24, <1>25, <1>26, <1>27, <1>28, <1>29
      DEF Next, Daemon, Worker

----------------------------------------------------------------------------

LEMMA UnsoundInit == Init => UnsoundIsPending /\ OrphansAreUnjudged
BY DEF Init, UnsoundIsPending, OrphansAreUnjudged

LEMMA UnsoundStep == UnsoundInv /\ [Next]_vars => UnsoundIsPending'
<1> SUFFICES ASSUME UnsoundInv, [Next]_vars PROVE UnsoundIsPending'
  OBVIOUS
<1> USE OfAssumption
    DEF UnsoundInv, UnsoundIsPending, OrphansAreUnjudged, TypeOK, NoPlan,
        operatorVars, planVars, markerVars, taskVars, scanVars, runVars,
        historyVars
<1>1. CASE UNCHANGED vars
  BY <1>1 DEF vars
<1>2. CASE ReadLedger \/ ZombieScan \/ Quarantine \/ SkipSweep \/ Retry \/
            Scan \/ Stage \/ Start
  BY <1>2 DEF ReadLedger, ZombieScan, Quarantine, SkipSweep, Retry, Scan,
      Stage, Start, NoScan
<1>3. CASE Sweep
  BY <1>3 DEF Sweep
<1>4. CASE ChooseNone
  BY <1>4 DEF ChooseNone, NoScan, Seasoned
<1>5. CASE PlannerFails
  BY <1>5 DEF PlannerFails
<1>6. CASE TimedOut
  BY <1>6 DEF TimedOut, JudgeDone, Discard, MarkFailed
<1>7. CASE Rejected
  BY <1>7 DEF Rejected, JudgeDone, Discard, MarkFailed
<1>8. CASE Hallucinated
  BY <1>8 DEF Hallucinated, JudgeDone, Discard, MarkFailed
<1>9. CASE KickedOff
  BY <1>9 DEF KickedOff, JudgeDone
<1>10. CASE Crash
  BY <1>10 DEF Crash, NoScan
<1>11. ASSUME NEW b \in Briefs, Edit(b) \/ Withdraw(b) \/ Elapse(b) PROVE
            UnsoundIsPending'
  BY <1>11 DEF Edit, Withdraw, Elapse
<1>12. ASSUME NEW b \in Briefs, Choose(b) PROVE UnsoundIsPending'
  BY <1>12 DEF Choose, NoScan, Seasoned
<1>13. ASSUME NEW s \in BOOLEAN, PlannerWrites(s) PROVE UnsoundIsPending'
  BY <1>13 DEF PlannerWrites
<1>14. ASSUME NEW o \in orphans, OrphanEnds(o) PROVE UnsoundIsPending'
  BY <1>14 DEF OrphanEnds
<1>15. ASSUME NEW t \in Tasks, Claim(t) \/ Accept(t) \/ CloseNoDiff(t) \/
            Fail(t) \/ ReapDies(t) PROVE UnsoundIsPending'
  BY <1>15 DEF Claim, Accept, CloseNoDiff, Fail, ReapDies
<1>16. ASSUME NEW t \in Tasks, Reap(t) PROVE UnsoundIsPending'
  BY <1>16 DEF Reap
<1> QED BY <1>1, <1>2, <1>3, <1>4, <1>5, <1>6, <1>7, <1>8, <1>9, <1>10, <1>11,
      <1>12, <1>13, <1>14, <1>15, <1>16 DEF Next, Daemon, Worker

LEMMA OrphanStep == UnsoundInv /\ [Next]_vars => OrphansAreUnjudged'
<1> SUFFICES ASSUME UnsoundInv, [Next]_vars PROVE OrphansAreUnjudged'
  OBVIOUS
<1> USE DEF UnsoundInv, OrphansAreUnjudged, operatorVars, planVars,
        markerVars, taskVars, scanVars, runVars, historyVars
<1>1. CASE UNCHANGED vars
  BY <1>1 DEF vars
<1>2. CASE ReadLedger \/ ZombieScan \/ Quarantine \/ Sweep \/ SkipSweep \/
            Retry \/ Scan \/ Stage \/ ChooseNone \/ PlannerFails \/ TimedOut
            \/ Rejected \/ Hallucinated \/ KickedOff \/ Start
  BY <1>2 DEF ReadLedger, ZombieScan, Quarantine, Sweep, SkipSweep, Retry,
      Scan, Stage, ChooseNone, PlannerFails, TimedOut, Rejected, Hallucinated,
      KickedOff, Start, NoScan, Seasoned, JudgeDone, Discard, MarkFailed
<1>3. CASE Crash
  BY <1>3 DEF Crash, NoScan
<1>4. ASSUME NEW b \in Briefs, Choose(b) \/ Edit(b) \/ Withdraw(b) \/
            Elapse(b) PROVE OrphansAreUnjudged'
  BY <1>4 DEF Choose, Edit, Withdraw, Elapse, NoScan, Seasoned
<1>5. ASSUME NEW s \in BOOLEAN, PlannerWrites(s) PROVE OrphansAreUnjudged'
  BY <1>5 DEF PlannerWrites
<1>6. ASSUME NEW o \in orphans, OrphanEnds(o) PROVE OrphansAreUnjudged'
  BY <1>6 DEF OrphanEnds
<1>7. ASSUME NEW t \in Tasks, Claim(t) \/ Accept(t) \/ CloseNoDiff(t) \/
            Fail(t) \/ Reap(t) \/ ReapDies(t) PROVE OrphansAreUnjudged'
  BY <1>7 DEF Claim, Accept, CloseNoDiff, Fail, Reap, ReapDies
<1> QED BY <1>1, <1>2, <1>3, <1>4, <1>5, <1>6, <1>7 DEF Next, Daemon, Worker


(* A run that is counted as failed leaves the brief resting, or with its    *)
(* tries counted.                                                          *)
LEMMA FailedRun ==
  ASSUME RestInv, pc = "judge", pc' = "idle", NEW d \in BOOLEAN,
         MarkFailed(target, d), UNCHANGED <<burst, crashes>>
  PROVE  TriesAreCounted'
<1> USE TiersAssumption DEF RestInv, TypeOK
<1> SUFFICES ASSUME NEW b \in Briefs
             PROVE  IF rest'[b] = "none"
                    THEN burst[b] <= Counted(b)' + crashes + Uncounted(b)'
                    ELSE burst[b] <= FreeTries + 1 + crashes
  BY DEF TriesAreCounted
<1> DEFINE n == IF attempts[b] < DayAfter THEN attempts[b] + 1 ELSE attempts[b]
<1>1. Uncounted(b)' = 0
  BY DEF Uncounted
<1>2. CASE b # target
  <2>1. attempts'[b] = attempts[b] /\ rest'[b] = rest[b]
    BY <1>2 DEF MarkFailed
  <2>2. Uncounted(b) = 0 /\ Counted(b)' = Counted(b)
    BY <1>2, <2>1 DEF Uncounted, Counted
  <2> QED
    BY <1>1, <2>1, <2>2 DEF TriesAreCounted
<1>3. CASE b = target
  <2>1. attempts'[b] = n /\ rest'[b] = (IF Tier(n, d) = "none" THEN "none" ELSE "fresh")
    BY <1>3 DEF MarkFailed
  <2>2. Uncounted(b) = 1 /\ Counted(b) \in 0 .. FreeTries
    BY <1>3 DEF Uncounted, Counted
  <2>3. rest[b] = "none" => burst[b] <= Counted(b) + crashes + 1
    BY <2>2 DEF TriesAreCounted
  <2>4. rest[b] # "none" => burst[b] <= 1
    BY <1>3 DEF EditedOnce
  <2>5. burst[b] \in Nat /\ crashes \in Nat /\ attempts[b] \in 0 .. DayAfter
    OBVIOUS
  <2>6. burst[b] <= FreeTries + 1 + crashes
    BY <2>2, <2>3, <2>4, <2>5
  <2>7. CASE Tier(n, d) = "none"
    <3>1. n <= FreeTries
      BY <2>7 DEF Tier
    <3>2. n = attempts[b] + 1 /\ Counted(b) = attempts[b] /\ Counted(b)' = n
      BY <2>1, <2>5, <3>1 DEF Counted
    <3>3. burst[b] <= n + crashes
      BY <2>3, <2>4, <2>5, <3>2
    <3> QED
      BY <1>1, <2>1, <2>5, <2>7, <3>2, <3>3
  <2> QED
    BY <2>1, <2>6, <2>7
<1> QED
  BY <1>2, <1>3

LEMMA TriesStep == RestInv /\ [Next]_vars => TriesAreCounted'
<1> SUFFICES ASSUME RestInv, [Next]_vars PROVE TriesAreCounted'
  OBVIOUS
<1> USE TiersAssumption
    DEF RestInv, TriesAreCounted, EditedOnce, Uncounted, Counted, TypeOK,
        Rests, Phases, operatorVars, planVars, markerVars, taskVars, scanVars,
        runVars, historyVars
<1>1. CASE UNCHANGED vars
  BY <1>1 DEF vars
<1>2. CASE ReadLedger \/ ZombieScan \/ Quarantine \/ Sweep \/ SkipSweep \/
            Retry \/ Scan \/ Stage \/ PlannerFails \/ Start
  BY <1>2 DEF ReadLedger, ZombieScan, Quarantine, Sweep, SkipSweep, Retry,
      Scan, Stage, PlannerFails, Start, NoScan
<1>3. CASE ChooseNone
  BY <1>3 DEF ChooseNone, NoScan, Seasoned
<1>4. CASE TimedOut
  BY <1>4, FailedRun DEF TimedOut, JudgeDone, Discard
<1>5. CASE Rejected
  <2>1. (det[target] \/ outcome = "invalid") \in BOOLEAN
    OBVIOUS
  <2> QED
    BY <1>5, <2>1, FailedRun DEF Rejected, JudgeDone, Discard
<1>6. CASE Hallucinated
  <2>1. PICK warned \in BOOLEAN : MarkFailed(target, det[target] \/ warned)
    BY <1>6 DEF Hallucinated
  <2>2. (det[target] \/ warned) \in BOOLEAN
    OBVIOUS
  <2> QED
    BY <1>6, <2>1, <2>2, FailedRun DEF Hallucinated, JudgeDone, Discard
<1>7. CASE KickedOff
  BY <1>7 DEF KickedOff, JudgeDone
<1>8. CASE Crash
  BY <1>8 DEF Crash, NoScan
<1>9. ASSUME NEW b \in Briefs, Edit(b) \/ Withdraw(b) PROVE TriesAreCounted'
  BY <1>9 DEF Edit, Withdraw
<1>10. ASSUME NEW b \in Briefs, Choose(b) PROVE TriesAreCounted'
  <2> SUFFICES ASSUME NEW c \in Briefs
               PROVE  IF rest'[c] = "none"
                      THEN burst'[c] <= Counted(c)' + crashes' + Uncounted(c)'
                      ELSE burst'[c] <= FreeTries + 1 + crashes'
    OBVIOUS
  <2>1. /\ pc = "choose" /\ pc' = "planning" /\ target' = b
        /\ attempts' = attempts /\ crashes' = crashes
        /\ edited[b] \/ rest[b] = "none"
    BY <1>10 DEF Choose, Candidates, MayPlan
  <2>2. Uncounted(c) = 0 /\ Counted(c)' = Counted(c) /\ Counted(c) \in Nat
    BY <2>1
  <2>3. CASE c # b
    <3>1. /\ burst'[c] = burst[c]
          /\ rest[c] = "none" <=> rest'[c] = "none"
      BY <1>10, <2>3 DEF Choose, Seasoned
    <3>2. Uncounted(c)' = 0
      BY <2>1, <2>3
    <3> QED
      BY <2>1, <2>2, <3>1, <3>2
  <2>4. CASE c = b /\ edited[b]
    <3>1. burst'[c] = 1
      BY <1>10, <2>4 DEF Choose
    <3>2. Uncounted(c)' = 1
      BY <2>1, <2>4
    <3> QED
      BY <2>1, <2>2, <3>1, <3>2
  <2>5. CASE c = b /\ ~edited[b]
    <3>1. burst'[c] = burst[c] + 1 /\ rest'[c] = "none" /\ rest[c] = "none"
      BY <1>10, <2>1, <2>5 DEF Choose, Seasoned
    <3>2. Uncounted(c)' = 1
      BY <2>1, <2>5
    <3>3. burst[c] <= Counted(c) + crashes
      BY <2>2, <3>1
    <3> QED
      BY <2>1, <2>2, <3>1, <3>2, <3>3
  <2> QED
    BY <2>3, <2>4, <2>5
<1>11. ASSUME NEW b \in Briefs, Elapse(b) PROVE TriesAreCounted'
  BY <1>11 DEF Elapse
<1>12. ASSUME NEW s \in BOOLEAN, PlannerWrites(s) PROVE TriesAreCounted'
  BY <1>12 DEF PlannerWrites
<1>13. ASSUME NEW o \in orphans, OrphanEnds(o) PROVE TriesAreCounted'
  BY <1>13 DEF OrphanEnds
<1>14. ASSUME NEW t \in Tasks, Claim(t) \/ Accept(t) \/ CloseNoDiff(t) \/
            Fail(t) \/ Reap(t) PROVE TriesAreCounted'
  BY <1>14 DEF Claim, Accept, CloseNoDiff, Fail, Reap
<1>15. ASSUME NEW t \in Tasks, ReapDies(t) PROVE TriesAreCounted'
  BY <1>15 DEF ReapDies
<1> QED BY <1>1, <1>2, <1>3, <1>4, <1>5, <1>6, <1>7, <1>8, <1>9, <1>10, <1>11,
      <1>12, <1>13, <1>14, <1>15 DEF Next, Daemon, Worker

LEMMA EditedStep == RestInv /\ [Next]_vars => EditedOnce'
<1> SUFFICES ASSUME RestInv, [Next]_vars PROVE EditedOnce'
  OBVIOUS
<1> USE TiersAssumption
    DEF RestInv, EditedOnce, TypeOK, Rests, Phases, operatorVars, planVars,
        markerVars, taskVars, scanVars, runVars, historyVars
<1>1. CASE UNCHANGED vars
  BY <1>1 DEF vars
<1>2. CASE ReadLedger \/ ZombieScan \/ Quarantine \/ Sweep \/ SkipSweep \/
            Retry \/ Scan \/ Stage \/ PlannerFails \/ Start
  BY <1>2 DEF ReadLedger, ZombieScan, Quarantine, Sweep, SkipSweep, Retry,
      Scan, Stage, PlannerFails, Start, NoScan
<1>3. CASE ChooseNone
  BY <1>3 DEF ChooseNone, NoScan, Seasoned
<1>4. CASE TimedOut
  BY <1>4 DEF TimedOut, JudgeDone, Discard, MarkFailed
<1>5. CASE Rejected
  BY <1>5 DEF Rejected, JudgeDone, Discard, MarkFailed
<1>6. CASE Hallucinated
  BY <1>6 DEF Hallucinated, JudgeDone, Discard, MarkFailed
<1>7. CASE KickedOff
  BY <1>7 DEF KickedOff, JudgeDone
<1>8. CASE Crash
  BY <1>8 DEF Crash, NoScan
<1>9. ASSUME NEW b \in Briefs, Edit(b) \/ Withdraw(b) PROVE EditedOnce'
  BY <1>9 DEF Edit, Withdraw
<1>10. ASSUME NEW b \in Briefs, Choose(b) PROVE EditedOnce'
  BY <1>10 DEF Choose, NoScan, Seasoned
<1>11. ASSUME NEW b \in Briefs, Elapse(b) PROVE EditedOnce'
  BY <1>11 DEF Elapse
<1>12. ASSUME NEW s \in BOOLEAN, PlannerWrites(s) PROVE EditedOnce'
  BY <1>12 DEF PlannerWrites
<1>13. ASSUME NEW o \in orphans, OrphanEnds(o) PROVE EditedOnce'
  BY <1>13 DEF OrphanEnds
<1>14. ASSUME NEW t \in Tasks, Claim(t) \/ Accept(t) \/ CloseNoDiff(t) \/
            Fail(t) \/ Reap(t) PROVE EditedOnce'
  BY <1>14 DEF Claim, Accept, CloseNoDiff, Fail, Reap
<1>15. ASSUME NEW t \in Tasks, ReapDies(t) PROVE EditedOnce'
  BY <1>15 DEF ReapDies
<1> QED BY <1>1, <1>2, <1>3, <1>4, <1>5, <1>6, <1>7, <1>8, <1>9, <1>10, <1>11,
      <1>12, <1>13, <1>14, <1>15 DEF Next, Daemon, Worker

LEMMA IdleStep == IdleInv /\ [Next]_vars => FoundAreIdle'
<1> SUFFICES ASSUME IdleInv, [Next]_vars PROVE FoundAreIdle'
  OBVIOUS
<1> USE OfAssumption
    DEF IdleInv, FoundAreIdle, InFlight, TasksOf, TypeOK, Places, Phases,
        Zombie, AtRest, operatorVars, planVars, markerVars, taskVars,
        scanVars, runVars, historyVars
<1>1. CASE UNCHANGED vars
  BY <1>1 DEF vars
<1>2. CASE ReadLedger \/ Sweep \/ SkipSweep \/ Scan \/ ChooseNone \/
            PlannerFails \/ TimedOut \/ Rejected \/ Hallucinated \/ KickedOff
            \/ Start \/ Crash
  BY <1>2 DEF ReadLedger, Sweep, SkipSweep, Scan, ChooseNone, PlannerFails,
      TimedOut, Rejected, Hallucinated, KickedOff, Start, Crash, NoScan,
      Seasoned, JudgeDone, Discard, MarkFailed
<1>3. CASE ZombieScan
  BY <1>3 DEF ZombieScan
<1>4. CASE Quarantine
  BY <1>4 DEF Quarantine, NoScan
<1>5. CASE Retry
  BY <1>5 DEF Retry
<1>6. CASE Stage
  BY <1>6 DEF Stage
<1>7. ASSUME NEW b \in Briefs, Choose(b) \/ Edit(b) \/ Withdraw(b) \/
            Elapse(b) PROVE FoundAreIdle'
  BY <1>7 DEF Choose, Edit, Withdraw, Elapse, NoScan, Seasoned
<1>8. ASSUME NEW s \in BOOLEAN, PlannerWrites(s) PROVE FoundAreIdle'
  BY <1>8 DEF PlannerWrites
<1>9. ASSUME NEW o \in orphans, OrphanEnds(o) PROVE FoundAreIdle'
  BY <1>9 DEF OrphanEnds
<1>10. ASSUME NEW t \in Tasks, Reap(t) \/ ReapDies(t) PROVE FoundAreIdle'
  BY <1>10 DEF Reap, ReapDies
<1>11. ASSUME NEW t \in Tasks, Claim(t) PROVE FoundAreIdle'
  BY <1>11 DEF Claim
<1>12. ASSUME NEW t \in Tasks, Accept(t) PROVE FoundAreIdle'
  BY <1>12 DEF Accept
<1>13. ASSUME NEW t \in Tasks, CloseNoDiff(t) PROVE FoundAreIdle'
  BY <1>13 DEF CloseNoDiff
<1>14. ASSUME NEW t \in Tasks, Fail(t) PROVE FoundAreIdle'
  BY <1>14 DEF Fail
<1> QED BY <1>1, <1>2, <1>3, <1>4, <1>5, <1>6, <1>7, <1>8, <1>9, <1>10, <1>11,
      <1>12, <1>13, <1>14 DEF Next, Daemon, Worker


----------------------------------------------------------------------------

LEMMA DoneInit == Init => ContentIsOne /\ DoneIsClosed /\ ListedAreOpen /\ UnlinkedAreFound
<1> SUFFICES ASSUME Init PROVE ContentIsOne
  BY DEF Init, DoneIsClosed, Integrated, ListedAreOpen, UnlinkedAreFound
<1>1. \A b \in Briefs : brief[b] # 0
  <2>1. brief \in [Briefs -> 1 .. Cardinality(Briefs)]
    BY DEF Init
  <2> QED
    BY <2>1, BriefsAreCounted
<1> QED
  BY <1>1 DEF Init, ContentIsOne, NoRow, NoPlan, Unstamped

LEMMA ContentStep == DoneInv /\ [Next]_vars => ContentIsOne'
<1> SUFFICES ASSUME DoneInv, [Next]_vars PROVE ContentIsOne'
  OBVIOUS
<1> USE OfAssumption, BriefsAreCounted
    DEF DoneInv, ContentIsOne, TypeOK, NoRow, NoPlan, Unstamped, operatorVars,
        planVars, markerVars, taskVars, scanVars, runVars, historyVars
<1>1. CASE UNCHANGED vars
  BY <1>1 DEF vars
<1>2. CASE SkipSweep \/ Start
  BY <1>2 DEF SkipSweep, Start
<1>3. CASE ReadLedger
  BY <1>3 DEF ReadLedger
<1>4. CASE ZombieScan
  BY <1>4 DEF ZombieScan
<1>5. CASE Quarantine
  BY <1>5 DEF Quarantine, NoScan
<1>6. CASE Sweep
  BY <1>6 DEF Sweep
<1>7. CASE Retry
  BY <1>7 DEF Retry
<1>8. CASE Scan
  BY <1>8 DEF Scan
<1>9. CASE Stage
  BY <1>9 DEF Stage
<1>10. CASE ChooseNone
  BY <1>10 DEF ChooseNone, NoScan, Seasoned
<1>11. CASE PlannerFails
  BY <1>11 DEF PlannerFails
<1>12. CASE TimedOut
  BY <1>12 DEF TimedOut, JudgeDone, Discard, MarkFailed
<1>13. CASE Rejected
  BY <1>13 DEF Rejected, JudgeDone, Discard, MarkFailed
<1>14. CASE Hallucinated
  BY <1>14 DEF Hallucinated, JudgeDone, Discard, MarkFailed
<1>15. CASE KickedOff
  BY <1>15 DEF KickedOff, JudgeDone
<1>16. CASE Crash
  BY <1>16 DEF Crash, NoScan
<1>17. ASSUME NEW b \in Briefs, Withdraw(b) \/ Elapse(b) PROVE ContentIsOne'
  BY <1>17 DEF Withdraw, Elapse
<1>18. ASSUME NEW b \in Briefs, Choose(b) PROVE ContentIsOne'
  BY <1>18 DEF Choose, NoScan, Seasoned
<1>19. ASSUME NEW b \in Briefs, Edit(b) PROVE ContentIsOne'
  BY <1>19 DEF Edit
<1>20. ASSUME NEW s \in BOOLEAN, PlannerWrites(s) PROVE ContentIsOne'
  BY <1>20 DEF PlannerWrites
<1>21. ASSUME NEW o \in orphans, OrphanEnds(o) PROVE ContentIsOne'
  BY <1>21 DEF OrphanEnds
<1>22. ASSUME NEW t \in Tasks, Claim(t) \/ CloseNoDiff(t) \/ ReapDies(t) PROVE
            ContentIsOne'
  BY <1>22 DEF Claim, CloseNoDiff, ReapDies
<1>23. ASSUME NEW t \in Tasks, Accept(t) PROVE ContentIsOne'
  BY <1>23 DEF Accept
<1>24. ASSUME NEW t \in Tasks, Fail(t) PROVE ContentIsOne'
  BY <1>24 DEF Fail
<1>25. ASSUME NEW t \in Tasks, Reap(t) PROVE ContentIsOne'
  BY <1>25 DEF Reap
<1> QED BY <1>1, <1>2, <1>3, <1>4, <1>5, <1>6, <1>7, <1>8, <1>9, <1>10, <1>11,
      <1>12, <1>13, <1>14, <1>15, <1>16, <1>17, <1>18, <1>19, <1>20, <1>21,
      <1>22, <1>23, <1>24, <1>25 DEF Next, Daemon, Worker

LEMMA ClosedStep == DoneInv /\ [Next]_vars => DoneIsClosed'
<1> SUFFICES ASSUME DoneInv, [Next]_vars PROVE DoneIsClosed'
  OBVIOUS
<1> USE OfAssumption
    DEF DoneInv, DoneIsClosed, Integrated, ListedAreOpen, UnlinkedAreFound,
        Settled, AtRoot, InFlight, TypeOK, Homes, Places, operatorVars, planVars,
        markerVars, taskVars, scanVars, runVars, historyVars
<1>1. CASE UNCHANGED vars
  BY <1>1 DEF vars
<1>2. CASE ReadLedger \/ ZombieScan \/ SkipSweep \/ Scan \/ ChooseNone \/
            PlannerFails \/ TimedOut \/ Rejected \/ Hallucinated \/ KickedOff
            \/ Start \/ Crash
  BY <1>2 DEF ReadLedger, ZombieScan, SkipSweep, Scan, ChooseNone,
      PlannerFails, TimedOut, Rejected, Hallucinated, KickedOff, Start, Crash,
      NoScan, Seasoned, JudgeDone, Discard, MarkFailed
<1>3. CASE Quarantine
  BY <1>3 DEF Quarantine, NoScan
<1>4. CASE Sweep
  BY <1>4 DEF Sweep
<1>5. CASE Retry
  BY <1>5 DEF Retry
<1>6. CASE Stage
  BY <1>6 DEF Stage
<1>7. ASSUME NEW b \in Briefs, Choose(b) \/ Withdraw(b) \/ Elapse(b) PROVE
            DoneIsClosed'
  BY <1>7 DEF Choose, Withdraw, Elapse, NoScan, Seasoned
<1>8. ASSUME NEW b \in Briefs, Edit(b) PROVE DoneIsClosed'
  BY <1>8 DEF Edit
<1>9. ASSUME NEW s \in BOOLEAN, PlannerWrites(s) PROVE DoneIsClosed'
  BY <1>9 DEF PlannerWrites
<1>10. ASSUME NEW o \in orphans, OrphanEnds(o) PROVE DoneIsClosed'
  BY <1>10 DEF OrphanEnds
<1>11. ASSUME NEW t \in Tasks, Claim(t) PROVE DoneIsClosed'
  BY <1>11 DEF Claim
<1>12. ASSUME NEW t \in Tasks, Accept(t) PROVE DoneIsClosed'
  BY <1>12 DEF Accept
<1>13. ASSUME NEW t \in Tasks, CloseNoDiff(t) PROVE DoneIsClosed'
  BY <1>13 DEF CloseNoDiff
<1>14. ASSUME NEW t \in Tasks, Fail(t) PROVE DoneIsClosed'
  BY <1>14 DEF Fail
<1>15. ASSUME NEW t \in Tasks, Reap(t) PROVE DoneIsClosed'
  BY <1>15 DEF Reap
<1>16. ASSUME NEW t \in Tasks, ReapDies(t) PROVE DoneIsClosed'
  BY <1>16 DEF ReapDies
<1> QED BY <1>1, <1>2, <1>3, <1>4, <1>5, <1>6, <1>7, <1>8, <1>9, <1>10, <1>11,
      <1>12, <1>13, <1>14, <1>15, <1>16 DEF Next, Daemon, Worker

LEMMA ListedStep == DoneInv /\ [Next]_vars => ListedAreOpen'
<1> SUFFICES ASSUME DoneInv, [Next]_vars PROVE ListedAreOpen'
  OBVIOUS
<1> USE OfAssumption
    DEF DoneInv, ListedAreOpen, DoneIsClosed, Integrated, Settled, AtRoot, InFlight,
        TypeOK, Homes, Places, Phases, operatorVars, planVars, markerVars,
        taskVars, scanVars, runVars, historyVars
<1>1. CASE UNCHANGED vars
  BY <1>1 DEF vars
<1>2. CASE ReadLedger \/ ZombieScan \/ Quarantine \/ Sweep \/ SkipSweep \/
            Retry \/ ChooseNone \/ PlannerFails \/ TimedOut \/ Rejected \/
            Hallucinated \/ KickedOff \/ Start \/ Crash
  BY <1>2 DEF ReadLedger, ZombieScan, Quarantine, Sweep, SkipSweep, Retry,
      ChooseNone, PlannerFails, TimedOut, Rejected, Hallucinated, KickedOff,
      Start, Crash, NoScan, Seasoned, JudgeDone, Discard, MarkFailed
<1>3. CASE Scan
  <2> SUFFICES ASSUME NEW t \in listed', AtRoot(Of[t])', Settled(Of[t])'
               PROVE  ~InFlight(t)' /\ t \notin (Integrated \cup reaping)'
    OBVIOUS
  <2>1. /\ t \in Tasks /\ Planned(Of[t]) /\ IsUnstaged(seen, t)
        /\ UNCHANGED <<place, processed, row, reaping, home, edits>>
    BY <1>3 DEF Scan
  <2>2. ~InFlight(t)'
    BY <2>1 DEF IsUnstaged
  <2>3. plan[Of[t]] = brief[Of[t]]
    BY <2>1 DEF Planned, Fresh
  <2>4. SUFFICES ASSUME t \in Integrated \cup reaping PROVE FALSE
    BY <2>1, <2>2
  <2>5. t \in processed
    BY <2>1, <2>4
  <2>6. seen[t] # NoRow
    BY <2>1, <2>5 DEF IsUnstaged, ProcessedUnaccepted
  <2>7. seen[t] \in {NoRow, Unstamped, brief[Of[t]]}
    BY <2>1 DEF ContentIsOne
  <2>8. AcceptedFor(seen, t)
    BY <2>3, <2>6, <2>7 DEF AcceptedFor
  <2> QED
    BY <2>1, <2>8 DEF IsUnstaged
<1>4. CASE Stage
  BY <1>4 DEF Stage
<1>5. ASSUME NEW b \in Briefs, Choose(b) \/ Withdraw(b) \/ Elapse(b) PROVE
            ListedAreOpen'
  BY <1>5 DEF Choose, Withdraw, Elapse, NoScan, Seasoned
<1>6. ASSUME NEW b \in Briefs, Edit(b) PROVE ListedAreOpen'
  BY <1>6 DEF Edit
<1>7. ASSUME NEW s \in BOOLEAN, PlannerWrites(s) PROVE ListedAreOpen'
  BY <1>7 DEF PlannerWrites
<1>8. ASSUME NEW o \in orphans, OrphanEnds(o) PROVE ListedAreOpen'
  BY <1>8 DEF OrphanEnds
<1>9. ASSUME NEW t \in Tasks, Claim(t) PROVE ListedAreOpen'
  BY <1>9 DEF Claim
<1>10. ASSUME NEW t \in Tasks, Accept(t) PROVE ListedAreOpen'
  BY <1>10 DEF Accept
<1>11. ASSUME NEW t \in Tasks, CloseNoDiff(t) PROVE ListedAreOpen'
  BY <1>11 DEF CloseNoDiff
<1>12. ASSUME NEW t \in Tasks, Fail(t) PROVE ListedAreOpen'
  BY <1>12 DEF Fail
<1>13. ASSUME NEW t \in Tasks, Reap(t) PROVE ListedAreOpen'
  BY <1>13 DEF Reap
<1>14. ASSUME NEW t \in Tasks, ReapDies(t) PROVE ListedAreOpen'
  BY <1>14 DEF ReapDies
<1> QED BY <1>1, <1>2, <1>3, <1>4, <1>5, <1>6, <1>7, <1>8, <1>9, <1>10, <1>11,
      <1>12, <1>13, <1>14 DEF Next, Daemon, Worker

LEMMA UnlinkedStep == DoneInv /\ [Next]_vars => UnlinkedAreFound'
<1> SUFFICES ASSUME DoneInv, [Next]_vars PROVE UnlinkedAreFound'
  OBVIOUS
<1> USE OfAssumption
    DEF DoneInv, UnlinkedAreFound, ContentIsOne, TypeOK, operatorVars,
        planVars, markerVars, taskVars, scanVars, runVars, historyVars
<1>1. CASE UNCHANGED vars
  BY <1>1 DEF vars
<1>2. CASE ReadLedger \/ Sweep \/ SkipSweep \/ Retry \/ Scan \/ Stage \/
            ChooseNone \/ PlannerFails \/ TimedOut \/ Rejected \/ Hallucinated
            \/ KickedOff \/ Start \/ Crash
  BY <1>2 DEF ReadLedger, Sweep, SkipSweep, Retry, Scan, Stage, ChooseNone,
      PlannerFails, TimedOut, Rejected, Hallucinated, KickedOff, Start, Crash,
      NoScan, Seasoned, JudgeDone, Discard, MarkFailed
<1>3. CASE ZombieScan
  BY <1>3 DEF ZombieScan
<1>4. CASE Quarantine
  BY <1>4 DEF Quarantine, NoScan
<1>5. ASSUME NEW b \in Briefs, Choose(b) \/ Edit(b) \/ Withdraw(b) \/
            Elapse(b) PROVE UnlinkedAreFound'
  BY <1>5 DEF Choose, Edit, Withdraw, Elapse, NoScan, Seasoned
<1>6. ASSUME NEW s \in BOOLEAN, PlannerWrites(s) PROVE UnlinkedAreFound'
  BY <1>6 DEF PlannerWrites
<1>7. ASSUME NEW o \in orphans, OrphanEnds(o) PROVE UnlinkedAreFound'
  BY <1>7 DEF OrphanEnds
<1>8. ASSUME NEW t \in Tasks, Claim(t) \/ Accept(t) \/ CloseNoDiff(t) \/
            Fail(t) \/ Reap(t) \/ ReapDies(t) PROVE UnlinkedAreFound'
  BY <1>8 DEF Claim, Accept, CloseNoDiff, Fail, Reap, ReapDies
<1> QED BY <1>1, <1>2, <1>3, <1>4, <1>5, <1>6, <1>7, <1>8
      DEF Next, Daemon, Worker


(* Nothing else moves a brief to quarantine. *)
LEMMA OnlyQuarantine ==
  ASSUME TypeOK, Next, NEW b \in Briefs, home'[b] = "quarantine", home[b] = "root"
  PROVE  Quarantine
<1> SUFFICES ASSUME ~(Quarantine) PROVE FALSE
  OBVIOUS
<1> USE OfAssumption
    DEF TypeOK, Homes, operatorVars, planVars, markerVars, taskVars, scanVars,
        runVars, historyVars
<1>1. CASE ReadLedger \/ ZombieScan \/ SkipSweep \/ Retry \/ Scan \/ Stage \/
            ChooseNone \/ PlannerFails \/ TimedOut \/ Rejected \/ Hallucinated
            \/ KickedOff \/ Start \/ Crash
  BY <1>1 DEF ReadLedger, ZombieScan, SkipSweep, Retry, Scan, Stage,
      ChooseNone, PlannerFails, TimedOut, Rejected, Hallucinated, KickedOff,
      Start, Crash, NoScan, Seasoned, JudgeDone, Discard, MarkFailed
<1>2. CASE Quarantine
  BY <1>2 DEF Quarantine, NoScan
<1>3. CASE Sweep
  BY <1>3 DEF Sweep
<1>4. ASSUME NEW c \in Briefs, Choose(c) \/ Edit(c) \/ Withdraw(c) \/
            Elapse(c) PROVE FALSE
  BY <1>4 DEF Choose, Edit, Withdraw, Elapse, NoScan, Seasoned
<1>5. ASSUME NEW s \in BOOLEAN, PlannerWrites(s) PROVE FALSE
  BY <1>5 DEF PlannerWrites
<1>6. ASSUME NEW o \in orphans, OrphanEnds(o) PROVE FALSE
  BY <1>6 DEF OrphanEnds
<1>7. ASSUME NEW t \in Tasks, Claim(t) \/ Accept(t) \/ CloseNoDiff(t) \/
            Fail(t) PROVE FALSE
  BY <1>7 DEF Claim, Accept, CloseNoDiff, Fail
<1>8. ASSUME NEW t \in Tasks, Reap(t) PROVE FALSE
  BY <1>8 DEF Reap
<1>9. ASSUME NEW t \in Tasks, ReapDies(t) PROVE FALSE
  BY <1>9 DEF ReapDies
<1> QED BY <1>1, <1>2, <1>3, <1>4, <1>5, <1>6, <1>7, <1>8, <1>9
      DEF Next, Daemon, Worker

(* Only the sweep and the reaper move a brief to the archive. *)
LEMMA OnlyArchivers ==
  ASSUME TypeOK, Next, NEW b \in Briefs, home'[b] = "archive", home[b] = "root"
  PROVE  Sweep \/ \E u \in Tasks : Reap(u) \/ ReapDies(u)
<1> SUFFICES ASSUME ~(Sweep \/ \E u \in Tasks : Reap(u) \/ ReapDies(u)) PROVE FALSE
  OBVIOUS
<1> USE OfAssumption
    DEF TypeOK, Homes, operatorVars, planVars, markerVars, taskVars, scanVars,
        runVars, historyVars
<1>1. CASE ReadLedger \/ ZombieScan \/ SkipSweep \/ Retry \/ Scan \/ Stage \/
            ChooseNone \/ PlannerFails \/ TimedOut \/ Rejected \/ Hallucinated
            \/ KickedOff \/ Start \/ Crash
  BY <1>1 DEF ReadLedger, ZombieScan, SkipSweep, Retry, Scan, Stage,
      ChooseNone, PlannerFails, TimedOut, Rejected, Hallucinated, KickedOff,
      Start, Crash, NoScan, Seasoned, JudgeDone, Discard, MarkFailed
<1>2. CASE Quarantine
  BY <1>2 DEF Quarantine, NoScan
<1>3. CASE Sweep
  BY <1>3 DEF Sweep
<1>4. ASSUME NEW c \in Briefs, Choose(c) \/ Edit(c) \/ Withdraw(c) \/
            Elapse(c) PROVE FALSE
  BY <1>4 DEF Choose, Edit, Withdraw, Elapse, NoScan, Seasoned
<1>5. ASSUME NEW s \in BOOLEAN, PlannerWrites(s) PROVE FALSE
  BY <1>5 DEF PlannerWrites
<1>6. ASSUME NEW o \in orphans, OrphanEnds(o) PROVE FALSE
  BY <1>6 DEF OrphanEnds
<1>7. ASSUME NEW t \in Tasks, Claim(t) \/ Accept(t) \/ CloseNoDiff(t) \/
            Fail(t) PROVE FALSE
  BY <1>7 DEF Claim, Accept, CloseNoDiff, Fail
<1>8. ASSUME NEW t \in Tasks, Reap(t) PROVE FALSE
  BY <1>8 DEF Reap
<1>9. ASSUME NEW t \in Tasks, ReapDies(t) PROVE FALSE
  BY <1>9 DEF ReapDies
<1> QED BY <1>1, <1>2, <1>3, <1>4, <1>5, <1>6, <1>7, <1>8, <1>9
      DEF Next, Daemon, Worker

----------------------------------------------------------------------------

LEMMA PlansStep == BuiltInv /\ [Next]_vars => PlansAgree'
<1> SUFFICES ASSUME BuiltInv, [Next]_vars PROVE PlansAgree'
  OBVIOUS
<1> USE OfAssumption, BriefsAreCounted
    DEF BuiltInv, PlansAgree, TasksAgree, Unedited, TypeOK, Places, NoRow, NoPlan,
        operatorVars, planVars, markerVars, taskVars, scanVars, runVars, historyVars
<1>1. CASE UNCHANGED vars
  BY <1>1 DEF vars
<1>2. CASE ReadLedger \/ ZombieScan \/ SkipSweep \/ Scan \/ Start
  BY <1>2 DEF ReadLedger, ZombieScan, SkipSweep, Scan, Start
<1>3. CASE Quarantine
  BY <1>3 DEF Quarantine, NoScan
<1>4. CASE Sweep
  BY <1>4 DEF Sweep
<1>5. CASE Retry
  BY <1>5 DEF Retry
<1>6. CASE Stage
  BY <1>6 DEF Stage
<1>7. CASE ChooseNone
  BY <1>7 DEF ChooseNone, NoScan, Seasoned
<1>8. CASE PlannerFails
  BY <1>8 DEF PlannerFails
<1>9. CASE TimedOut \/ Rejected
  <2>1. brief' = brief /\ orphans' = orphans /\ pc' = "idle"
    BY <1>9 DEF TimedOut, Rejected, JudgeDone
  <2>2. plan' = [plan EXCEPT ![target] = NoPlan]
    BY <1>9 DEF TimedOut, Rejected, Discard
  <2> QED BY <2>1, <2>2
<1>10. CASE Hallucinated \/ KickedOff
  BY <1>10 DEF Hallucinated, KickedOff, JudgeDone, Discard, MarkFailed
<1>11. CASE Crash
  BY <1>11 DEF Crash, NoScan
<1>12. ASSUME NEW b \in Briefs, Withdraw(b) \/ Elapse(b) PROVE PlansAgree'
  BY <1>12 DEF Withdraw, Elapse
<1>13. ASSUME NEW b \in Briefs, Choose(b) PROVE PlansAgree'
  BY <1>13 DEF Choose, NoScan, Seasoned
<1>14. ASSUME NEW b \in Briefs, Edit(b) PROVE PlansAgree'
  BY <1>14 DEF Edit
<1>15. ASSUME NEW s \in BOOLEAN, PlannerWrites(s) PROVE PlansAgree'
  BY <1>15 DEF PlannerWrites
<1>16. ASSUME NEW o \in orphans, OrphanEnds(o) PROVE PlansAgree'
  BY <1>16 DEF OrphanEnds
<1>17. ASSUME NEW t \in Tasks, Claim(t) \/ CloseNoDiff(t) \/ ReapDies(t) PROVE PlansAgree'
  BY <1>17 DEF Claim, CloseNoDiff, ReapDies
<1>18. ASSUME NEW t \in Tasks, Accept(t) PROVE PlansAgree'
  BY <1>18 DEF Accept
<1>19. ASSUME NEW t \in Tasks, Fail(t) PROVE PlansAgree'
  BY <1>19 DEF Fail
<1>20. ASSUME NEW t \in Tasks, Reap(t) PROVE PlansAgree'
  BY <1>20 DEF Reap
<1> QED BY <1>1, <1>2, <1>3, <1>4, <1>5, <1>6, <1>7, <1>8, <1>9, <1>10, <1>11,
      <1>12, <1>13, <1>14, <1>15, <1>16, <1>17, <1>18, <1>19, <1>20 DEF Next,
      Daemon, Worker

LEMMA TasksStep == BuiltInv /\ [Next]_vars => TasksAgree'
<1> SUFFICES ASSUME BuiltInv, [Next]_vars PROVE TasksAgree'
  OBVIOUS
<1> USE OfAssumption, BriefsAreCounted
    DEF BuiltInv, PlansAgree, TasksAgree, Unedited, TypeOK, Places, NoRow, NoPlan,
        operatorVars, planVars, markerVars, taskVars, scanVars, runVars, historyVars
<1>1. CASE UNCHANGED vars
  BY <1>1 DEF vars
<1>2. CASE ReadLedger \/ ZombieScan \/ SkipSweep \/ Scan \/ Start
  BY <1>2 DEF ReadLedger, ZombieScan, SkipSweep, Scan, Start
<1>3. CASE Quarantine
  BY <1>3 DEF Quarantine, NoScan
<1>4. CASE Sweep
  BY <1>4 DEF Sweep
<1>5. CASE Retry
  BY <1>5 DEF Retry
<1>6. CASE Stage
  BY <1>6 DEF Stage
<1>7. CASE ChooseNone
  BY <1>7 DEF ChooseNone, NoScan, Seasoned
<1>8. CASE PlannerFails
  BY <1>8 DEF PlannerFails
<1>9. CASE TimedOut \/ Rejected
  BY <1>9 DEF TimedOut, Rejected, JudgeDone, Discard, MarkFailed
<1>10. CASE Hallucinated \/ KickedOff
  BY <1>10 DEF Hallucinated, KickedOff, JudgeDone, Discard, MarkFailed
<1>11. CASE Crash
  BY <1>11 DEF Crash, NoScan
<1>12. ASSUME NEW b \in Briefs, Withdraw(b) \/ Elapse(b) PROVE TasksAgree'
  BY <1>12 DEF Withdraw, Elapse
<1>13. ASSUME NEW b \in Briefs, Choose(b) PROVE TasksAgree'
  BY <1>13 DEF Choose, NoScan, Seasoned
<1>14. ASSUME NEW b \in Briefs, Edit(b) PROVE TasksAgree'
  BY <1>14 DEF Edit
<1>15. ASSUME NEW s \in BOOLEAN, PlannerWrites(s) PROVE TasksAgree'
  BY <1>15 DEF PlannerWrites
<1>16. ASSUME NEW o \in orphans, OrphanEnds(o) PROVE TasksAgree'
  BY <1>16 DEF OrphanEnds
<1>17. ASSUME NEW t \in Tasks, Claim(t) \/ CloseNoDiff(t) \/ ReapDies(t) PROVE TasksAgree'
  BY <1>17 DEF Claim, CloseNoDiff, ReapDies
<1>18. ASSUME NEW t \in Tasks, Accept(t) PROVE TasksAgree'
  BY <1>18 DEF Accept
<1>19. ASSUME NEW t \in Tasks, Fail(t) PROVE TasksAgree'
  BY <1>19 DEF Fail
<1>20. ASSUME NEW t \in Tasks, Reap(t) PROVE TasksAgree'
  BY <1>20 DEF Reap
<1> QED BY <1>1, <1>2, <1>3, <1>4, <1>5, <1>6, <1>7, <1>8, <1>9, <1>10, <1>11,
      <1>12, <1>13, <1>14, <1>15, <1>16, <1>17, <1>18, <1>19, <1>20 DEF Next,
      Daemon, Worker

----------------------------------------------------------------------------

LEMMA UnsoundAlways == Spec => []UnsoundInv
<1>1. Init => UnsoundInv
  BY TypeInit, UnsoundInit DEF UnsoundInv
<1>2. UnsoundInv /\ [Next]_vars => UnsoundInv'
  BY TypeStep, UnsoundStep, OrphanStep DEF UnsoundInv
<1> QED
  BY <1>1, <1>2, PTL DEF Spec

(* Every variable stays in its domain, and the daemon has an outcome to    *)
(* judge exactly when it judges one (_auto_promote).                       *)
THEOREM PlanningTypeOK == Spec => []TypeOK
<1>1. UnsoundInv => TypeOK
  BY DEF UnsoundInv
<1> QED
  BY <1>1, UnsoundAlways, PTL

(* An unsound plan on disk waits for its judge, or its daemon has died     *)
(* (_check_hallucination), for any briefs and any number of crashes.       *)
THEOREM UnsoundPlansPend == Spec => []UnsoundIsPending
<1>1. UnsoundInv => UnsoundIsPending
  BY DEF UnsoundInv
<1> QED
  BY <1>1, UnsoundAlways, PTL

(* A brief on which the planner fails is tried a bounded number of times   *)
(* between rests, whatever the thresholds (_recently_failed_to_plan).      *)
THEOREM FailingBriefsRest == Spec => []FailingBriefRests
<1>1. Init => RestInv
  <2>1. ASSUME Init PROVE TriesAreCounted /\ EditedOnce
    BY <2>1, TiersAssumption
       DEF Init, TriesAreCounted, EditedOnce, Counted, Uncounted
  <2> QED
    BY <2>1, TypeInit DEF RestInv
<1>2. RestInv /\ [Next]_vars => RestInv'
  BY TypeStep, TriesStep, EditedStep DEF RestInv
<1>3. RestInv => FailingBriefRests
  <2> SUFFICES ASSUME RestInv, NEW b \in Briefs
               PROVE  burst[b] <= FreeTries + 1 + crashes
    BY DEF FailingBriefRests
  <2>1. burst[b] \in Nat /\ crashes \in Nat /\ attempts[b] \in 0 .. DayAfter
    BY DEF RestInv, TypeOK
  <2>2. Counted(b) \in 0 .. FreeTries /\ Uncounted(b) \in {0, 1}
    BY <2>1, TiersAssumption DEF Counted, Uncounted
  <2> QED
    BY <2>1, <2>2, TiersAssumption DEF RestInv, TriesAreCounted
<1> QED
  BY <1>1, <1>2, <1>3, PTL DEF Spec

(* A brief is quarantined only with none of its tasks queued or at work,   *)
(* however the workers' moves fall between the ledger read, the scan and   *)
(* the rename (_reclaim_zombie_briefs).                                    *)
THEOREM QuarantinedAreIdle == Spec => ZombiesAreIdle
<1>1. Init => IdleInv
  BY TypeInit DEF Init, IdleInv, FoundAreIdle
<1>2. IdleInv /\ [Next]_vars => IdleInv'
  BY TypeStep, IdleStep DEF IdleInv
<1>3. IdleInv /\ [Next]_vars =>
        [\A b \in Briefs : home'[b] = "quarantine" /\ home[b] = "root" =>
             \A t \in TasksOf(b) : ~InFlight(t)]_vars
  <2> SUFFICES ASSUME IdleInv, Next, NEW b \in Briefs,
                      home'[b] = "quarantine", home[b] = "root"
               PROVE  \A t \in TasksOf(b) : ~InFlight(t)
    OBVIOUS
  <2>1. Quarantine
    BY OnlyQuarantine DEF IdleInv
  <2>2. found[b] # 0
    BY <2>1 DEF Quarantine, IdleInv, TypeOK
  <2> QED
    BY <2>1, <2>2 DEF Quarantine, IdleInv, FoundAreIdle
<1> QED
  BY <1>1, <1>2, <1>3, PTL DEF Spec, ZombiesAreIdle

(* A brief that was never edited is complete only when each of its tasks   *)
(* was built as the brief reads (compute_brief_status), for any briefs,    *)
(* any edits of the others and any number of crashes.                      *)
THEOREM UneditedBriefsAreBuilt == Spec => []UneditedAreBuilt
<1>1. Init => BuiltInv
  <2> SUFFICES ASSUME Init PROVE BuiltInv
    OBVIOUS
  <2>1. \A b \in Briefs : brief[b] # 0
    <3>1. brief \in [Briefs -> 1 .. Cardinality(Briefs)]
      BY DEF Init
    <3> QED
      BY <3>1, BriefsAreCounted
  <2> QED
    BY <2>1, TypeInit DEF Init, BuiltInv, PlansAgree, TasksAgree, NoPlan, NoRow
<1>2. BuiltInv /\ [Next]_vars => BuiltInv'
  BY TypeStep, PlansStep, TasksStep DEF BuiltInv
<1>3. BuiltInv => UneditedAreBuilt
  <2> SUFFICES ASSUME BuiltInv, NEW b \in Briefs, Unedited(b), Complete(row, b),
                      NEW t \in TasksOf(b)
               PROVE  brief[b] \in built[t]
    BY DEF UneditedAreBuilt
  <2>1. t \in Tasks /\ Of[t] = b
    BY DEF TasksOf
  <2>2. row[t] # NoRow
    BY <2>1 DEF Complete, Remaining, AcceptedFor
  <2> QED
    BY <2>1, <2>2 DEF BuiltInv, TasksAgree
<1> QED
  BY <1>1, <1>2, <1>3, PTL DEF Spec

LEMMA DoneAlways == Spec => []DoneInv
<1>1. Init => DoneInv
  BY TypeInit, DoneInit DEF DoneInv
<1>2. DoneInv /\ [Next]_vars => DoneInv'
  BY TypeStep, ContentStep, ClosedStep, ListedStep, UnlinkedStep DEF DoneInv
<1> QED
  BY <1>1, <1>2, PTL DEF Spec

(* An unedited brief is archived, by the sweep of the daemon or by the     *)
(* last worker, only when every task of it is done (reap_for_task).        *)
THEOREM ArchivedBriefsAreDone == Spec => ArchivedAreDone
<1>1. DoneInv /\ [Next]_vars =>
        [\A b \in Briefs \ Crlf :
             home'[b] = "archive" /\ home[b] = "root" /\ edits = 0 =>
                 \A t \in TasksOf(b) : t \in processed /\ place[t] = "none"]_vars
  <2> SUFFICES ASSUME DoneInv, Next, NEW b \in Briefs \ Crlf,
                      home'[b] = "archive", home[b] = "root", edits = 0,
                      NEW t \in TasksOf(b)
               PROVE  t \in processed /\ place[t] = "none"
    OBVIOUS
  <2>1. t \in Tasks /\ Of[t] = b
    BY DEF TasksOf
  <2>2. ASSUME Sweep PROVE t \in Integrated
    <3>1. ~Stale(b)
      BY DEF Stale, Fresh, DoneInv, ContentIsOne
    <3>2. CaughtUp(b)
      BY <2>2, <3>1 DEF Sweep, DoneInv, TypeOK
    <3> QED
      BY <2>1, <3>2 DEF CaughtUp
  <2>3. ASSUME ~Sweep PROVE t \in Integrated \cup reaping
    <3>1. PICK u \in Tasks : Reap(u) \/ ReapDies(u)
      BY <2>3, OnlyArchivers DEF DoneInv
    <3>2. b = Of[u] /\ Spent(u) /\ u \in reaping
      BY <3>1, OfAssumption DEF Reap, ReapDies, DoneInv, TypeOK
    <3> QED
      BY <2>1, <3>2 DEF Spent
  <2>4. t \in Integrated \cup reaping
    BY <2>2, <2>3
  <2> QED
    BY <2>1, <2>4 DEF DoneInv, DoneIsClosed, Settled, AtRoot
<1> QED
  BY <1>1, DoneAlways, PTL DEF Spec, ArchivedAreDone
=============================================================================
