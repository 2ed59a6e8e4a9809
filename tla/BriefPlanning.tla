--------------------------- MODULE BriefPlanning ---------------------------
(* How a brief becomes a plan, tasks and, in the end, an archived file.      *)
(*                                                                           *)
(* The daemon scans the briefs at the repository root (brief_status.py),     *)
(* quarantines zombies and archives stale plans (_reclaim_zombie_briefs),    *)
(* stages the tasks of fresh plans and runs the planner on at most one       *)
(* unplanned brief (_auto_promote).  The operator edits and withdraws        *)
(* briefs, workers build tasks and archive the brief of the last one         *)
(* (brief_reaper.py), planners outlive their daemon.                         *)
(*                                                                           *)
(* An edit gives a brief a new content, numbered by the time of the edit:    *)
(* a greater number is a newer mtime.  The tasks of a brief keep their ids   *)
(* through every plan of it.                                                 *)
EXTENDS Integers, FiniteSets

CONSTANTS
    Briefs,
    Tasks,
    Of,             \* the brief a task belongs to
    Crlf,           \* briefs saved with CRLF line ends
    ArchiveSpent,   \* autowork.archive_spent_briefs
    FreeTries,      \* failed runs that cost no rest (2 in the code)
    DayAfter,       \* failed runs from which a rest lasts a day (5 in the code)
    MaxEdits,       \* bound: edits by the operator
    MaxWithdrawn,   \* bound: briefs the operator withdraws
    MaxCrashes      \* bound: deaths of daemons and of workers in a reap

ASSUMPTION OfAssumption == Of \in [Tasks -> Briefs]
ASSUMPTION FiniteAssumption == IsFiniteSet(Briefs) /\ Briefs # {} /\ IsFiniteSet(Tasks)
ASSUMPTION CrlfAssumption == Crlf \subseteq Briefs
ASSUMPTION SwitchAssumption == ArchiveSpent \in BOOLEAN
ASSUMPTION TiersAssumption ==
    FreeTries \in Nat /\ DayAfter \in Nat /\ FreeTries < DayAfter
ASSUMPTION BoundsAssumption ==
    MaxEdits \in Nat /\ MaxWithdrawn \in Nat /\ MaxCrashes \in Nat

Anyone == CHOOSE b \in Briefs : TRUE
NoRow == -1        \* no accepted row for the task
Unstamped == 0     \* an accepted row without source_brief_sha256
NoPlan == 0

VARIABLES
    brief,      \* the content of each brief
    home,       \* where its file is
    allowed,    \* the auto-promote allowlist
    plan,       \* the content each plan file is stamped with
    sound,      \* whether _check_hallucination would pass the plan file
    attempts, det, edited, rest,            \* the plan-attempt markers
    place, spec, processed,                 \* task files
    row, built,                             \* what the ledger says of a task
    reaping,    \* no_diff tasks whose worker has yet to call reap_for_task
    pc, seen,                               \* the daemon and the ledger it read
    found, listed,                          \* the briefs and tasks its scan gave
    target, reading, outcome,               \* its planner run
    orphans,    \* planners of dead daemons: brief and content read
    wedged,     \* state_reconcile.lock was left behind by a dead process
    edits, crashes,                         \* bounds
    tried, burst, unjudged                  \* history, read by properties only

operatorVars == <<brief, home, allowed, edits>>
planVars == <<plan, sound>>
markerVars == <<attempts, det, edited, rest>>
taskVars == <<place, spec, processed, row, built, reaping>>
scanVars == <<seen, found, listed>>
runVars == <<target, reading, outcome>>
historyVars == <<tried, burst, unjudged>>
vars == <<operatorVars, planVars, markerVars, taskVars, pc, scanVars, runVars,
          orphans, wedged, crashes, historyVars>>

Places == {"none", "queued", "working", "blocked"}
Homes == {"root", "quarantine", "archive"}
Rests == {"none", "fresh", "due"}
Outcomes == {"none", "wrote", "refused", "invalid", "timeout"}
Phases == {"dead", "idle", "reclaim", "quarantine", "sweep", "retry", "scan",
           "stage", "choose", "planning", "judge"}

TasksOf(b) == {t \in Tasks : Of[t] = b}
AtRoot(b) == home[b] = "root"

(* load_brief stamps the sha of the text with its line ends normalised,      *)
(* compute_brief_status compares it with the sha of the bytes.               *)
Fresh(b) == plan[b] # NoPlan /\ plan[b] = brief[b] /\ b \notin Crlf

(***************************************************************************)
(* compute_brief_status, on the ledger as it was read.                     *)
(***************************************************************************)
(* Variation: a file in processed/ counts as well.                           *)
AcceptedOrProcessed(ledger, t) ==
    t \in processed \/ ledger[t] = Unstamped \/ ledger[t] = plan[Of[t]]

AcceptedFor(ledger, t) ==
    ledger[t] # NoRow /\ (ledger[t] = Unstamped \/ ledger[t] = plan[Of[t]])

InFlight(t) == place[t] \in {"queued", "working"}
IsBlocked(ledger, t) == place[t] = "blocked" /\ ledger[t] = NoRow
ProcessedUnaccepted(ledger, t) == t \in processed /\ ledger[t] = NoRow

IsUnstaged(ledger, t) ==
    /\ ~InFlight(t) /\ ~IsBlocked(ledger, t)
    /\ ~ProcessedUnaccepted(ledger, t) /\ ~AcceptedFor(ledger, t)

Unplanned(b) == AtRoot(b) /\ ~Fresh(b)
Planned(b) == AtRoot(b) /\ Fresh(b)

(* Variation: what is in flight is not looked at.                            *)
AtRestUnblocked(ledger, b) == \A t \in TasksOf(b) : ~IsBlocked(ledger, t)

(* Neither blocked nor in flight, which compute_brief_status asks first.     *)
AtRest(ledger, b) == \A t \in TasksOf(b) : ~IsBlocked(ledger, t) /\ ~InFlight(t)

Remaining(ledger, b) == {t \in TasksOf(b) : ~AcceptedFor(ledger, t)}

Complete(ledger, b) ==
    /\ Planned(b) /\ TasksOf(b) # {} /\ AtRest(ledger, b)
    /\ Remaining(ledger, b) = {}

Zombie(ledger, b) ==
    /\ Planned(b) /\ AtRest(ledger, b)
    /\ Remaining(ledger, b) # {}
    /\ \A t \in Remaining(ledger, b) : ProcessedUnaccepted(ledger, t)

(***************************************************************************)
(* The plan-attempt marker.                                                *)
(***************************************************************************)

(* Variation: no rest longer than minutes.                                   *)
TierOfMinutes(n, d) == IF n <= FreeTries /\ ~d THEN "none" ELSE "minutes"

(* The threshold of _recently_failed_to_plan: no rest, minutes, or a day.    *)
Tier(n, d) ==
    IF (d /\ n >= 1) \/ n >= DayAfter THEN "day"
    ELSE IF n <= FreeTries THEN "none" ELSE "minutes"

(* A marker written after a failed run; beyond DayAfter the count tells      *)
(* nothing more.                                                             *)
MarkFailed(b, d) ==
    LET n == IF attempts[b] < DayAfter THEN attempts[b] + 1 ELSE attempts[b]
    IN /\ attempts' = [attempts EXCEPT ![b] = n]
       /\ det' = [det EXCEPT ![b] = d]
       /\ edited' = [edited EXCEPT ![b] = FALSE]
       /\ rest' = [rest EXCEPT ![b] = IF Tier(n, d) = "none" THEN "none" ELSE "fresh"]

(* Not _recently_failed_to_plan: an edit newer than the marker, once, or a   *)
(* rest that is over.                                                        *)
MayPlan(b) == edited[b] \/ rest[b] = "none"

Init ==
    /\ brief \in [Briefs -> 1 .. Cardinality(Briefs)]
    /\ \A b1, b2 \in Briefs : brief[b1] = brief[b2] => b1 = b2
    /\ home = [b \in Briefs |-> "root"]
    /\ allowed = Briefs
    /\ plan = [b \in Briefs |-> NoPlan]
    /\ sound = [b \in Briefs |-> FALSE]
    /\ attempts = [b \in Briefs |-> 0]
    /\ det = [b \in Briefs |-> FALSE]
    /\ edited = [b \in Briefs |-> FALSE]
    /\ rest = [b \in Briefs |-> "none"]
    /\ place = [t \in Tasks |-> "none"]
    /\ spec = [t \in Tasks |-> 0]
    /\ processed = {}
    /\ row = [t \in Tasks |-> NoRow]
    /\ built = [t \in Tasks |-> {}]
    /\ reaping = {}
    /\ pc = "idle"
    /\ seen = [t \in Tasks |-> NoRow]
    /\ found = [b \in Briefs |-> 0]
    /\ listed = {}
    /\ target = Anyone
    /\ reading = 0
    /\ outcome = "none"
    /\ orphans = {}
    /\ wedged = FALSE
    /\ edits = 0
    /\ crashes = 0
    /\ tried = {}
    /\ burst = [b \in Briefs |-> 0]
    /\ unjudged = {}

(***************************************************************************)
(* The operator.                                                           *)
(***************************************************************************)
Edit(b) ==
    /\ AtRoot(b) /\ edits < MaxEdits
    /\ brief' = [brief EXCEPT ![b] = Cardinality(Briefs) + edits + 1]
    /\ edits' = edits + 1
    /\ edited' = [edited EXCEPT ![b] = attempts[b] > 0]
    /\ tried' = tried \ {b}
    /\ UNCHANGED <<home, allowed, planVars, attempts, det, rest, taskVars, pc,
                   scanVars, runVars, orphans, wedged, crashes, burst, unjudged>>

Withdraw(b) ==
    /\ b \in allowed /\ Cardinality(Briefs \ allowed) < MaxWithdrawn
    /\ allowed' = allowed \ {b}
    /\ UNCHANGED <<brief, home, edits, planVars, markerVars, taskVars, pc, scanVars,
                   runVars, orphans, wedged, crashes, historyVars>>

(* Time: the threshold has passed.  A day outlasts an iteration, whose waits *)
(* are bounded by hours: a rest of a day is over only after a later pass has *)
(* found the brief resting.                                                  *)
Elapse(b) ==
    /\ \/ rest[b] = "due"
       \/ rest[b] = "fresh" /\ Tier(attempts[b], det[b]) = "minutes"
    /\ rest' = [rest EXCEPT ![b] = "none"]
    /\ burst' = [burst EXCEPT ![b] = 0]
    /\ UNCHANGED <<operatorVars, planVars, attempts, det, edited, taskVars, pc,
                   scanVars, runVars, orphans, wedged, crashes, tried, unjudged>>

(***************************************************************************)
(* The daemon: _reclaim_zombie_briefs, then _auto_promote.                 *)
(***************************************************************************)
NoScan ==
    /\ seen' = [t \in Tasks |-> NoRow]
    /\ found' = [b \in Briefs |-> 0]
    /\ listed' = {}

ReadLedger ==
    /\ pc = "idle"
    /\ pc' = "reclaim"
    /\ seen' = row
    /\ UNCHANGED <<operatorVars, planVars, markerVars, taskVars, found, listed,
                   runVars, orphans, wedged, crashes, historyVars>>

ZombieScan ==
    /\ pc = "reclaim"
    /\ pc' = "quarantine"
    /\ found' = [b \in Briefs |-> IF Zombie(seen, b) THEN brief[b] ELSE 0]
    /\ listed' = {t \in Tasks : Zombie(seen, Of[t]) /\ ProcessedUnaccepted(seen, t)}
    /\ seen' = [t \in Tasks |-> NoRow]
    /\ UNCHANGED <<operatorVars, planVars, markerVars, taskVars, runVars, orphans,
                   wedged, crashes, historyVars>>

(* The zombies' briefs, as they are now, go to quarantine; their parked      *)
(* files are unlinked.                                                       *)
Quarantine ==
    /\ pc = "quarantine"
    /\ pc' = "sweep"
    /\ home' = [b \in Briefs |->
                    IF found[b] # 0 /\ AtRoot(b) THEN "quarantine" ELSE home[b]]
    /\ processed' = processed \ listed
    /\ NoScan
    /\ UNCHANGED <<brief, allowed, edits, planVars, markerVars, place, spec, row,
                   built, reaping, runVars, orphans, wedged, crashes,
                   historyVars>>

Landed(b) == TasksOf(b) # {} /\ \A t \in TasksOf(b) : built[t] # {}
Stale(b) == AtRoot(b) /\ plan[b] # NoPlan /\ ~Fresh(b) /\ ~Landed(b)

(***************************************************************************)
(* What the reaper of spent briefs looks at, and the sweep.                *)
(***************************************************************************)
(* _integrated_task_ids: a no_diff row carries no commit and does not count. *)
Integrated == {t \in Tasks : row[t] # NoRow}

(* Variation: a brief is done with the first of its tasks.                   *)
SpentByOne(t) == AtRoot(Of[t]) /\ plan[Of[t]] # NoPlan

Spent(t) ==
    /\ AtRoot(Of[t]) /\ plan[Of[t]] # NoPlan
    /\ TasksOf(Of[t]) \subseteq Integrated \cup {t}

(* reap_spent_briefs, whatever ArchiveSpent says.                            *)
CaughtUp(b) ==
    /\ AtRoot(b) /\ plan[b] # NoPlan
    /\ TasksOf(b) # {} /\ TasksOf(b) \subseteq Integrated

(* The sha arm, under state_reconcile.lock: a stale plan is archived, or the *)
(* brief if it is no longer allowed; then plans without a brief are; then    *)
(* what is done, edited or not, of the rest.                                 *)
Sweep ==
    /\ pc = "sweep" /\ ~wedged
    /\ pc' = "retry"
    /\ LET stale == {b \in Briefs : Stale(b) \/ ~AtRoot(b)}
           spent == {b \in Briefs \ stale : CaughtUp(b)}
           gone == stale \cup spent
       IN /\ home' = [b \in Briefs |->
                          IF b \in spent \/ (Stale(b) /\ b \notin allowed)
                          THEN "archive" ELSE home[b]]
          /\ plan' = [b \in Briefs |-> IF b \in gone THEN NoPlan ELSE plan[b]]
          /\ sound' = [b \in Briefs |-> b \notin gone /\ sound[b]]
    /\ UNCHANGED <<brief, allowed, edits, markerVars, taskVars, scanVars, runVars,
                   orphans, wedged, crashes, historyVars>>

(* The throttle marker is young, or the lock was not to be had.              *)
SkipSweep ==
    /\ pc = "sweep"
    /\ pc' = "retry"
    /\ UNCHANGED <<operatorVars, planVars, markerVars, taskVars, scanVars, runVars,
                   orphans, wedged, crashes, historyVars>>

(* _retry_blocked_tasks re-stages the blocked files whose backoff is over,   *)
(* then compute_brief_status reads the ledger.                               *)
Retry ==
    /\ pc = "retry"
    /\ pc' = "scan"
    /\ \E due \in SUBSET {t \in Tasks : place[t] = "blocked"} :
           place' = [t \in Tasks |-> IF t \in due THEN "queued" ELSE place[t]]
    /\ seen' = row
    /\ UNCHANGED <<operatorVars, planVars, markerVars, spec, processed, row,
                   built, reaping, found, listed, runVars, orphans,
                   wedged, crashes, historyVars>>

Scan ==
    /\ pc = "scan"
    /\ pc' = "stage"
    /\ found' = [b \in Briefs |-> IF Unplanned(b) THEN brief[b] ELSE 0]
    /\ listed' = {t \in Tasks : Planned(Of[t]) /\ IsUnstaged(seen, t)}
    /\ seen' = [t \in Tasks |-> NoRow]
    /\ UNCHANGED <<operatorVars, planVars, markerVars, taskVars, runVars, orphans,
                   wedged, crashes, historyVars>>

(* stage_task drops the blocked files of the task and writes it from the     *)
(* plan as it is now; without a plan it stops there.                         *)
Stage ==
    /\ pc = "stage"
    /\ pc' = "choose"
    /\ LET eligible == {t \in listed : Of[t] \in allowed}
           staged == {t \in eligible : plan[Of[t]] # NoPlan}
       IN /\ place' = [t \in Tasks |-> IF t \in staged THEN "queued"
                                       ELSE IF t \in eligible THEN "none"
                                       ELSE place[t]]
          /\ spec' = [t \in Tasks |-> IF t \in staged THEN plan[Of[t]] ELSE spec[t]]
    /\ listed' = {}
    /\ UNCHANGED <<operatorVars, planVars, markerVars, processed, row,
                   built, reaping, seen, found, runVars, orphans, wedged, crashes,
                   historyVars>>

(* The rests that a pass has found.                                          *)
Seasoned == [b \in Briefs |-> IF rest[b] = "fresh" THEN "due" ELSE rest[b]]

Candidates == {b \in Briefs : found[b] # 0 /\ b \in allowed /\ AtRoot(b) /\ MayPlan(b)}

(* The newest candidate.  An edit is honoured by moving the marker to it.    *)
Choose(b) ==
    /\ pc = "choose"
    /\ b \in Candidates
    /\ \A other \in Candidates : found[other] <= found[b]
    /\ pc' = "planning"
    /\ target' = b
    /\ reading' = brief[b]
    /\ edited' = [edited EXCEPT ![b] = FALSE]
    /\ rest' = [Seasoned EXCEPT ![b] =
                    IF edited[b] /\ Tier(attempts[b], det[b]) # "none"
                    THEN "fresh" ELSE "none"]
    /\ tried' = tried \cup {b}
    /\ burst' = [burst EXCEPT ![b] = IF edited[b] THEN 1 ELSE burst[b] + 1]
    /\ NoScan
    /\ UNCHANGED <<operatorVars, planVars, attempts, det, taskVars, outcome, orphans,
                   wedged, crashes, unjudged>>

ChooseNone ==
    /\ pc = "choose" /\ Candidates = {}
    /\ pc' = "idle"
    /\ rest' = Seasoned
    /\ NoScan
    /\ UNCHANGED <<operatorVars, planVars, attempts, det, edited, taskVars, runVars,
                   orphans, wedged, crashes, historyVars>>

(***************************************************************************)
(* The planner, in a session of its own, and the daemon that waits for it. *)
(***************************************************************************)
PlannerWrites(s) ==
    /\ pc = "planning"
    /\ pc' = "judge"
    /\ outcome' = "wrote"
    /\ plan' = [plan EXCEPT ![target] = reading]
    /\ sound' = [sound EXCEPT ![target] = s]
    /\ UNCHANGED <<operatorVars, markerVars, taskVars, scanVars, target, reading,
                   orphans, wedged, crashes, historyVars>>

(* A non-zero exit, of a validator or for another reason, or the timeout.    *)
PlannerFails ==
    /\ pc = "planning"
    /\ pc' = "judge"
    /\ outcome' \in {"refused", "invalid", "timeout"}
    /\ UNCHANGED <<operatorVars, planVars, markerVars, taskVars, scanVars, target,
                   reading, orphans, wedged, crashes, historyVars>>

JudgeDone ==
    /\ pc = "judge"
    /\ pc' = "idle"
    /\ outcome' = "none"
    /\ reading' = 0
    /\ target' = Anyone
    /\ UNCHANGED <<operatorVars, taskVars, scanVars, orphans, wedged, crashes,
                   tried, unjudged>>

Discard(b) ==
    /\ plan' = [plan EXCEPT ![b] = NoPlan]
    /\ sound' = [sound EXCEPT ![b] = FALSE]
    /\ UNCHANGED burst

(* Variation: the count of failed runs starts at one again and again.        *)
TimedOutAnew ==
    /\ JudgeDone /\ outcome = "timeout"
    /\ Discard(target)
    /\ attempts' = [attempts EXCEPT ![target] = 1]
    /\ det' = [det EXCEPT ![target] = FALSE]
    /\ edited' = [edited EXCEPT ![target] = FALSE]
    /\ rest' = [rest EXCEPT ![target] = "none"]

TimedOut ==
    /\ JudgeDone /\ outcome = "timeout"
    /\ Discard(target)
    /\ MarkFailed(target, FALSE)

Rejected ==
    /\ JudgeDone /\ outcome \in {"refused", "invalid"}
    /\ Discard(target)
    /\ MarkFailed(target, det[target] \/ outcome = "invalid")

(* Variation: the plan file is left.                                         *)
HallucinatedKept ==
    /\ JudgeDone /\ outcome = "wrote" /\ ~sound[target]
    /\ \E warned \in BOOLEAN : MarkFailed(target, det[target] \/ warned)
    /\ UNCHANGED <<planVars, burst>>

(* A planner that exits with 0 may have warned of a failed validation.       *)
Hallucinated ==
    /\ JudgeDone /\ outcome = "wrote" /\ ~sound[target]
    /\ Discard(target)
    /\ \E warned \in BOOLEAN : MarkFailed(target, det[target] \/ warned)

(* The marker stays as it was.                                               *)
KickedOff ==
    /\ JudgeDone /\ outcome = "wrote" /\ sound[target]
    /\ burst' = [burst EXCEPT ![target] = 0]
    /\ UNCHANGED <<planVars, markerVars>>

(* A planner whose daemon died writes its plan all the same, or fails.       *)
OrphanEnds(o) ==
    /\ o \in orphans
    /\ orphans' = orphans \ {o}
    /\ \/ \E s \in BOOLEAN :
              /\ plan' = [plan EXCEPT ![o[1]] = o[2]]
              /\ sound' = [sound EXCEPT ![o[1]] = s]
       \/ UNCHANGED planVars
    /\ UNCHANGED <<operatorVars, markerVars, taskVars, pc, scanVars, runVars, wedged,
                   crashes, historyVars>>

(***************************************************************************)
(* Deaths of the daemon.                                                   *)
(***************************************************************************)
(* Variation: the next daemon goes on with the outcome of the last.          *)
CrashRemembering ==
    /\ pc # "dead" /\ crashes < MaxCrashes
    /\ pc' = "dead"
    /\ crashes' = crashes + 1
    /\ orphans' = IF pc = "planning" THEN orphans \cup {<<target, reading>>}
                                     ELSE orphans
    /\ unjudged' = IF pc \in {"planning", "judge"} THEN unjudged \cup {target}
                                                   ELSE unjudged
    /\ UNCHANGED <<operatorVars, planVars, markerVars, taskVars, scanVars, runVars,
                   wedged, tried, burst>>

Crash ==
    /\ pc # "dead" /\ crashes < MaxCrashes
    /\ pc' = "dead"
    /\ crashes' = crashes + 1
    /\ orphans' = IF pc = "planning" THEN orphans \cup {<<target, reading>>}
                                     ELSE orphans
    /\ unjudged' = IF pc \in {"planning", "judge"} THEN unjudged \cup {target}
                                                   ELSE unjudged
    /\ outcome' = "none"
    /\ reading' = 0
    /\ target' = Anyone
    /\ NoScan
    /\ \/ UNCHANGED wedged
       \/ pc = "sweep" /\ wedged' = TRUE
    /\ UNCHANGED <<operatorVars, planVars, markerVars, taskVars, tried, burst>>

Start ==
    /\ pc = "dead"
    /\ pc' = "idle"
    /\ UNCHANGED <<operatorVars, planVars, markerVars, taskVars, scanVars, runVars,
                   orphans, wedged, crashes, historyVars>>

(***************************************************************************)
(* The workers.                                                            *)
(***************************************************************************)
Claim(t) ==
    /\ place[t] = "queued"
    /\ place' = [place EXCEPT ![t] = "working"]
    /\ UNCHANGED <<operatorVars, planVars, markerVars, spec, processed, row,
                   built, reaping, pc, scanVars, runVars, orphans, wedged,
                   crashes, historyVars>>

(* The row takes the stamp of the plan file that lists the task now.  The    *)
(* worker is then replaced by os.execv and never comes to reap_for_task.     *)
Accept(t) ==
    /\ place[t] = "working"
    /\ place' = [place EXCEPT ![t] = "none"]
    /\ processed' = processed \cup {t}
    /\ row' = [row EXCEPT ![t] =
                   IF plan[Of[t]] = NoPlan THEN Unstamped ELSE plan[Of[t]]]
    /\ built' = [built EXCEPT ![t] = @ \cup {spec[t]}]
    /\ UNCHANGED <<operatorVars, planVars, markerVars, spec, reaping, pc, scanVars,
                   runVars, orphans, wedged, crashes, historyVars>>

(* no_diff: done, with no accepted row.                                      *)
CloseNoDiff(t) ==
    /\ place[t] = "working"
    /\ place' = [place EXCEPT ![t] = "none"]
    /\ processed' = processed \cup {t}
    /\ reaping' = reaping \cup {t}
    /\ UNCHANGED <<operatorVars, planVars, markerVars, spec, row, built, pc, scanVars,
                   runVars, orphans, wedged, crashes, historyVars>>

(* Rejected, or dead and reclaimed: the task_blocked row undoes earlier ones. *)
Fail(t) ==
    /\ place[t] = "working"
    /\ place' = [place EXCEPT ![t] = "blocked"]
    /\ row' = [row EXCEPT ![t] = NoRow]
    /\ UNCHANGED <<operatorVars, planVars, markerVars, spec, processed, built,
                   reaping, pc, scanVars, runVars, orphans, wedged, crashes,
                   historyVars>>

(* reap_for_task archives the brief and the plan of a plan that is done.     *)
Reap(t) ==
    /\ t \in reaping
    /\ reaping' = reaping \ {t}
    /\ IF ArchiveSpent /\ ~wedged /\ Spent(t)
       THEN /\ home' = [home EXCEPT ![Of[t]] = "archive"]
            /\ plan' = [plan EXCEPT ![Of[t]] = NoPlan]
            /\ sound' = [sound EXCEPT ![Of[t]] = FALSE]
       ELSE UNCHANGED <<home, planVars>>
    /\ UNCHANGED <<brief, allowed, edits, markerVars, place, spec, processed, row,
                   built, pc, scanVars, runVars, orphans, wedged, crashes,
                   historyVars>>

(* The worker is killed after it has moved the brief: the plan stays, and so *)
(* does the lock file.                                                       *)
ReapDies(t) ==
    /\ t \in reaping /\ crashes < MaxCrashes
    /\ ArchiveSpent /\ ~wedged /\ Spent(t)
    /\ reaping' = reaping \ {t}
    /\ home' = [home EXCEPT ![Of[t]] = "archive"]
    /\ wedged' = TRUE
    /\ crashes' = crashes + 1
    /\ UNCHANGED <<brief, allowed, edits, planVars, markerVars, place, spec, processed,
                   row, built, pc, scanVars, runVars, orphans,
                   historyVars>>

(***************************************************************************)
(* The specification.                                                      *)
(***************************************************************************)
Daemon ==
    \/ ReadLedger \/ ZombieScan \/ Quarantine \/ Sweep \/ SkipSweep
    \/ Retry \/ Scan \/ Stage
    \/ (\E b \in Briefs : Choose(b)) \/ ChooseNone
    \/ (\E s \in BOOLEAN : PlannerWrites(s)) \/ PlannerFails
    \/ TimedOut \/ Rejected \/ Hallucinated \/ KickedOff

Worker(t) ==
    \/ Claim(t) \/ Accept(t) \/ CloseNoDiff(t) \/ Fail(t) \/ Reap(t) \/ ReapDies(t)

Next ==
    \/ Daemon \/ Start \/ Crash
    \/ \E b \in Briefs : Edit(b) \/ Withdraw(b) \/ Elapse(b)
    \/ \E o \in orphans : OrphanEnds(o)
    \/ \E t \in Tasks : Worker(t)

Spec == Init /\ [][Next]_vars

(* The daemon's loop is bounded in all its waits and is started again when   *)
(* it dies; rests are finite.  Operators, workers, orphans and sweeps may    *)
(* stop at any time.                                                         *)
Fairness ==
    /\ WF_vars(Daemon \/ Start)
    /\ \A b \in Briefs : WF_vars(Elapse(b))

FairSpec == Spec /\ Fairness

(***************************************************************************)
(* Properties.                                                             *)
(***************************************************************************)

(* Types, and that a planner runs exactly when the daemon waits for it.      *)
TypeOK ==
    /\ brief \in [Briefs -> Nat] /\ home \in [Briefs -> Homes]
    /\ allowed \subseteq Briefs
    /\ plan \in [Briefs -> Nat] /\ sound \in [Briefs -> BOOLEAN]
    /\ attempts \in [Briefs -> 0 .. DayAfter] /\ det \in [Briefs -> BOOLEAN]
    /\ edited \in [Briefs -> BOOLEAN] /\ rest \in [Briefs -> Rests]
    /\ place \in [Tasks -> Places] /\ spec \in [Tasks -> Nat]
    /\ processed \subseteq Tasks
    /\ row \in [Tasks -> Nat \cup {NoRow}]
    /\ built \in [Tasks -> SUBSET Nat] /\ reaping \subseteq Tasks
    /\ pc \in Phases /\ seen \in [Tasks -> Nat \cup {NoRow}]
    /\ found \in [Briefs -> Nat] /\ listed \subseteq Tasks
    /\ target \in Briefs /\ reading \in Nat /\ outcome \in Outcomes
    /\ orphans \subseteq Briefs \X Nat /\ wedged \in BOOLEAN
    /\ edits \in Nat /\ crashes \in Nat
    /\ tried \subseteq Briefs /\ burst \in [Briefs -> Nat]
    /\ unjudged \subseteq Briefs
    /\ (outcome # "none") <=> (pc = "judge")

(* A brief on which the planner keeps failing is rested: since its last      *)
(* rest, honoured edit or plan it was tried no more often than the free      *)
(* tries and once more, and once for every daemon that died before it could  *)
(* count the run.                                                            *)
FailingBriefRests == \A b \in Briefs : burst[b] <= FreeTries + 1 + crashes

(* A plan that the checks would discard is on disk only until the daemon     *)
(* that ran the planner has judged it, unless that daemon died.              *)
UnsoundIsPending ==
    \A b \in Briefs :
        plan[b] # NoPlan /\ ~sound[b] =>
            b \in unjudged \/ (pc = "judge" /\ target = b)

(* A brief goes to quarantine only when none of its tasks is queued or at    *)
(* work, although the ledger was read before the directories.                *)
ZombiesAreIdle ==
    [][\A b \in Briefs :
           home'[b] = "quarantine" /\ home[b] = "root" =>
               \A t \in TasksOf(b) : ~InFlight(t)]_vars

(* As long as no brief is edited, a brief is archived only when all of its   *)
(* tasks are done, by workers and withdrawals in any order.  (A CRLF brief   *)
(* is never fresh and is archived by the sweep with work in flight.)         *)
ArchivedAreDone ==
    [][\A b \in Briefs \ Crlf :
           home'[b] = "archive" /\ home[b] = "root" /\ edits = 0 =>
               \A t \in TasksOf(b) : t \in processed /\ place[t] = "none"]_vars

(* Edits come with greater numbers. *)
Unedited(b) == brief[b] <= Cardinality(Briefs)

(* Every content of an allowed brief is tried in the end, however often the  *)
(* planner fails on newer ones, unless it is edited again or moved away.     *)
EveryContentIsTried ==
    \A b \in Briefs : []<>(b \in tried \/ ~Unplanned(b) \/ b \notin allowed)

(* A brief that was never edited counts as complete only when every task of  *)
(* it was built as the brief reads, whatever was unplanned, retried, closed  *)
(* without a change or planned by an orphan in between, and whatever happens *)
(* to the other briefs (compute_brief_status).                               *)
UneditedAreBuilt ==
    \A b \in Briefs : Unedited(b) /\ Complete(row, b)
                          => \A t \in TasksOf(b) : brief[b] \in built[t]

(* A brief that counts as complete was built as it now reads.                *)
EditsAreBuilt ==
    \A b \in Briefs : Complete(row, b) => \A t \in TasksOf(b) : brief[b] \in built[t]

=============================================================================
