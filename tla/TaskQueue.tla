----------------------------- MODULE TaskQueue -----------------------------
(***************************************************************************)
(* The task queue of the autowork factory: the autowork daemon             *)
(* (harness/autowork_daemon.py) and the per-task workers it spawns         *)
(* (harness/orchestrator_worker.py) share one directory tree, state/tasks, *)
(* and one append-only ledger, and nothing else.  Every hand-over between  *)
(* them is a rename of <id>.json or a marker file next to it; there is no  *)
(* lock around the queue.                                                  *)
(*                                                                         *)
(* The tasks are those of one planned brief.  One action is one rename,    *)
(* one ledger append with what follows it up to the next point another     *)
(* process can see, or one pass of the daemon over a directory.            *)
(***************************************************************************)
EXTENDS Naturals, FiniteSets

CONSTANTS
    Tasks,        \* task ids of the plan
    Deps,         \* Deps[t]: the "dependencies" of t
    Overlap,      \* Overlap[t]: tasks whose files_touched meet those of t
    Workers,      \* worker processes that can exist at once (bounds orphans)
    None,         \* no task, no worker
    Cap,          \* autowork.parallel_cap
    MaxAttempts,  \* retry budget of a blocked task (3 in the code)
    SpinLimit,    \* dispatches in the window that trip the breaker (10)
    MaxCrashes,   \* bound: crashes and SIGTERMs in one behaviour
    GapCrash      \* may the daemon die between Popen and its pidfile?

ASSUME TasksAssumption == Tasks # {} /\ None \notin Tasks /\ IsFiniteSet(Tasks)
ASSUME DepsAssumption == Deps \in [Tasks -> SUBSET Tasks]
ASSUME OverlapAssumption == /\ Overlap \in [Tasks -> SUBSET Tasks]
                            /\ \A t, u \in Tasks : u \in Overlap[t] => t \in Overlap[u]
ASSUME WorkersAssumption == None \notin Workers /\ IsFiniteSet(Workers)
ASSUME LimitsAssumption == /\ Cap \in Nat \ {0}
                           /\ MaxAttempts \in Nat \ {0}
                           /\ SpinLimit \in Nat \ {0, 1}
                           /\ MaxCrashes \in Nat
                           /\ GapCrash \in BOOLEAN

VARIABLES
    queued,      \* tasks with a tasks/<id>.json
    processing,  \* tasks with a tasks/<id>.json.processing
    blocked,     \* tasks with a tasks/blocked/<id>.json
    processed,   \* tasks with a tasks/processed/<id>.json
    quarantine,  \* tasks with a tasks/quarantine/<id>.json
    exhausted,   \* tasks with a tasks/blocked/<id>.exhausted
    attempts,    \* "attempts" of tasks/blocked/<id>.retry.json (0: no file)
    outcome,     \* "last_outcome" of the same file, by class
    accepted,    \* tasks with a phase "accepted" row in the ledger
    standing,    \* those with no later task_blocked row: brief_status's accepted_map
    landed,      \* tasks whose commit is merged into the parent repository
    briefPresent,\* the brief file is in the repository root
    pidfile,     \* running/<id>.pid: the worker it names
    pc,          \* where each worker process is, "gone" when there is none
    job,         \* the task a live worker was started for
    dpc,         \* where the daemon is in its iteration, "down" when dead
    running,     \* the daemon's snapshot of live task ids (_reap_running)
    chosen,      \* what _decide admitted and the launch loop has yet to handle
    launching,   \* the task whose worker has no pidfile yet
    newPid,      \* that worker, between Popen and _write_pidfile
    dispatches,  \* in-memory dispatch stamps inside the window, per task
    crashes      \* crashes so far, a bound

files    == <<queued, processing, blocked, processed, quarantine>>
sidecar  == <<exhausted, attempts, outcome>>
ledger   == <<accepted, standing>>
procs    == <<pc, job>>
memory   == <<running, chosen, launching, newPid, dispatches>>
vars     == <<files, sidecar, ledger, landed, briefPresent, pidfile, procs,
              dpc, memory, crashes>>

----------------------------------------------------------------------------
(* Derived state *)

Outcomes == {"none", "deterministic", "other", "dependency_failed"}

WorkerStates == {"gone", "spawned", "working", "hung", "refused", "fallback",
                 "spent", "accepted", "acceptedAgain", "merged", "restarted"}

DaemonStates == {"down", "reap", "watch", "reclaim", "zombie", "retry",
                 "depfail", "stage", "decide", "launch", "drain"}

Live(w) == pc[w] # "gone"

Tracked(w) == \E t \in Tasks : pidfile[t] = w

LiveIds == {t \in Tasks : pidfile[t] # None /\ Live(pidfile[t])}

(* The retry budget depends on the last outcome only. *)
EffectiveMax(t) == IF outcome[t] = "deterministic" THEN 1 ELSE MaxAttempts

----------------------------------------------------------------------------
(* What compute_brief_status reports about the one brief *)

ProcessedUnaccepted == processed \ standing

BlockedView == (blocked \cup exhausted) \ standing

(* Variations used to probe the properties stand before what they vary:    *)
(* here, a view that forgets the blocked tasks.                            *)
UnstagedWithBlocked == Tasks \ (queued \cup processing \cup ProcessedUnaccepted \cup standing)

Unstaged == Tasks \ (queued \cup processing \cup ProcessedUnaccepted
                       \cup BlockedView \cup standing)

(* A variation: a brief with tasks in flight counts as a zombie. *)
IsZombieInFlight == (Tasks \ standing) # {} /\ (Tasks \ standing) \subseteq ProcessedUnaccepted

IsZombieBrief == LET remaining == Tasks \ standing IN
    /\ BlockedView = {}
    /\ queued \cup processing = {}
    /\ remaining # {}
    /\ remaining \subseteq ProcessedUnaccepted

----------------------------------------------------------------------------
(* can_run_parallel *)

(* Tasks reachable from t over the dependency edges of the files in all. *)
TransitiveDeps(t, all) ==
    LET reach[n \in Nat] ==
            IF n = 0 THEN Deps[t]
            ELSE reach[n-1] \cup UNION {Deps[d] : d \in reach[n-1] \cap all}
    IN  IF t \in all THEN reach[Cardinality(Tasks)] \ {t} ELSE {}

(* A variation: files_touched are not compared. *)
CanRunParallelAnyFiles(a, b, all) ==
    a # b /\ b \notin TransitiveDeps(a, all) /\ a \notin TransitiveDeps(b, all)

CanRunParallel(a, b, all) ==
    /\ a # b
    /\ b \notin Overlap[a]
    /\ b \notin TransitiveDeps(a, all)
    /\ a \notin TransitiveDeps(b, all)

(* A running task that has claimed its file is seen with files_touched = []*)
(* and a missing list conflicts with everything.                           *)
ParallelToRunning(t) == \A r \in running : r \in queued /\ CanRunParallel(t, r, queued)

(* A variation: dependencies are not compared with the ledger. *)
CandidatesAnyDeps == {t \in queued \ running : ParallelToRunning(t)}

(* collect_dispatchable_tasks *)
Candidates == {t \in queued \ running : Deps[t] \subseteq accepted /\ ParallelToRunning(t)}

(* _decide admits greedily in priority order; the outcomes over all orders *)
(* are the maximal compatible sets that fit in the free slots.             *)
Admissible(S) ==
    LET free == IF Cardinality(running) < Cap THEN Cap - Cardinality(running) ELSE 0
        known == Candidates \cup (running \cap queued) IN
    /\ S \subseteq Candidates
    /\ Cardinality(S) <= free
    /\ \A a, b \in S : a # b => CanRunParallel(a, b, known)
    /\ \A c \in Candidates \ S :
          \/ Cardinality(S) = free
          \/ \E a \in S : ~ CanRunParallel(c, a, known)

----------------------------------------------------------------------------
(* The two terminal moves of a worker (harness/orchestrator.py).  They     *)
(* look for <id>.json.processing, then <id>.json, and do without.          *)

(* A variation: only the .processing file is looked for. *)
LeaveProcessing(t) == processing' = processing \ {t} /\ UNCHANGED queued

LeaveQueue(t) ==
    /\ processing' = processing \ {t}
    /\ queued' = IF t \in processing THEN queued ELSE queued \ {t}

Holds(t) == t \in processing \cup queued

(* _mark_blocked, with _write_retry_sidecar and its task_blocked row *)
MarkBlocked(t, why) ==
    /\ LeaveQueue(t)
    /\ blocked' = IF Holds(t) THEN blocked \cup {t} ELSE blocked
    /\ attempts' = [attempts EXCEPT ![t] = @ + 1]
    /\ outcome' = [outcome EXCEPT ![t] = why]
    /\ standing' = standing \ {t}
    /\ UNCHANGED <<processed, quarantine, exhausted, accepted>>

(* _mark_processed *)
MarkProcessed(t) ==
    /\ LeaveQueue(t)
    /\ processed' = IF Holds(t) THEN processed \cup {t} ELSE processed
    /\ UNCHANGED <<blocked, quarantine, sidecar>>

(* The reject_rollback row of a worker that exits non-zero *)
RejectRollback(t) == standing' = standing \ {t} /\ UNCHANGED accepted

----------------------------------------------------------------------------
(* Workers *)

(* What no worker step touches *)
daemonSide == <<briefPresent, pidfile, dpc, memory>>

Goto(w, where) == pc' = [pc EXCEPT ![w] = where] /\ UNCHANGED job

Exit(w) == pc' = [pc EXCEPT ![w] = "gone"] /\ job' = [job EXCEPT ![w] = None]

(* Claim by rename. *)
Claim(w) ==
    /\ pc[w] \in {"spawned", "restarted"}
    /\ job[w] \in queued
    /\ queued' = queued \ {job[w]}
    /\ processing' = processing \cup {job[w]}
    /\ Goto(w, "working")
    /\ UNCHANGED <<blocked, processed, quarantine, sidecar, ledger, landed, daemonSide, crashes>>

(* not_found or already_claimed: exit 0 *)
ClaimMissed(w) ==
    /\ pc[w] \in {"spawned", "restarted"}
    /\ job[w] \notin queued
    /\ Exit(w)
    /\ UNCHANGED <<files, sidecar, ledger, landed, daemonSide, crashes>>

(* A synthesis, smoke, embedded, fuzz or cross-examination gate refuses. *)
Reject(w) ==
    /\ pc[w] = "working"
    /\ \E why \in {"deterministic", "other"} : MarkBlocked(job[w], why)
    /\ Exit(w)
    /\ UNCHANGED <<landed, daemonSide, crashes>>

(* An exception in main: the finally block parks the claim if it is there. *)
Raise(w) ==
    /\ pc[w] \in {"working", "refused", "fallback", "spent"}
    /\ IF job[w] \in processing
         THEN MarkBlocked(job[w], "other")
         ELSE RejectRollback(job[w]) /\ UNCHANGED <<files, sidecar>>
    /\ Exit(w)
    /\ UNCHANGED <<landed, daemonSide, crashes>>

(* The submission changes nothing: processed/ with no accepted row. *)
FinishNoDiff(w) ==
    /\ pc[w] \in {"working", "fallback"}
    /\ MarkProcessed(job[w])
    /\ Exit(w)
    /\ UNCHANGED <<ledger, landed, daemonSide, crashes>>

(* Decomposed into subtasks, or too deep for that: processed/, exit 1. *)
Decompose(w) ==
    /\ pc[w] = "working"
    /\ MarkProcessed(job[w])
    /\ RejectRollback(job[w])
    /\ Exit(w)
    /\ UNCHANGED <<landed, daemonSide, crashes>>

AfterRefusal(where) == IF where \in {"working", "accepted"} THEN "refused" ELSE "spent"

(* _auto_commit_accepted returns False before anything is recorded: scope, *)
(* lock, verification or mutation gate.                                    *)
RefuseCommit(w) ==
    /\ pc[w] \in {"working", "fallback"}
    /\ Goto(w, AfterRefusal(pc[w]))
    /\ UNCHANGED <<files, sidecar, ledger, landed, daemonSide, crashes>>

(* The wire-up gate blocks the task itself; the caller still goes on with  *)
(* the other candidate.                                                    *)
Unwired(w) ==
    /\ pc[w] \in {"working", "fallback"}
    /\ MarkBlocked(job[w], "other")
    /\ Goto(w, AfterRefusal(pc[w]))
    /\ UNCHANGED <<landed, daemonSide, crashes>>

(* A variation: the row lacks the phase that the daemon filters by. *)
WriteAcceptedWithoutPhase(w) ==
    /\ pc[w] \in {"working", "fallback"}
    /\ standing' = standing \cup {job[w]}
    /\ Goto(w, IF pc[w] = "working" THEN "accepted" ELSE "acceptedAgain")
    /\ UNCHANGED <<files, sidecar, accepted, landed, daemonSide, crashes>>

(* The accepted row is appended before the merge is tried. *)
WriteAccepted(w) ==
    /\ pc[w] \in {"working", "fallback"}
    /\ accepted' = accepted \cup {job[w]}
    /\ standing' = standing \cup {job[w]}
    /\ Goto(w, IF pc[w] = "working" THEN "accepted" ELSE "acceptedAgain")
    /\ UNCHANGED <<files, sidecar, landed, daemonSide, crashes>>

Merge(w) ==
    /\ pc[w] \in {"accepted", "acceptedAgain"}
    /\ landed' = landed \cup {job[w]}
    /\ Goto(w, "merged")
    /\ UNCHANGED <<files, sidecar, ledger, daemonSide, crashes>>

MergeFails(w) ==
    /\ pc[w] \in {"accepted", "acceptedAgain"}
    /\ MarkBlocked(job[w], "other")
    /\ Goto(w, AfterRefusal(pc[w]))
    /\ UNCHANGED <<landed, daemonSide, crashes>>

(* _mark_processed, then os.execv of the same command line: the same       *)
(* process starts main again for the same task.                            *)
Finish(w) ==
    /\ pc[w] = "merged"
    /\ MarkProcessed(job[w])
    /\ Goto(w, "restarted")
    /\ UNCHANGED <<ledger, landed, daemonSide, crashes>>

(* os.execv raises: main's handler exits 2, and a landed task loses its    *)
(* standing.                                                               *)
HandoverFails(w) ==
    /\ pc[w] = "merged"
    /\ MarkProcessed(job[w])
    /\ RejectRollback(job[w])
    /\ Exit(w)
    /\ UNCHANGED <<landed, daemonSide, crashes>>

(* The other agent's candidate is committed instead. *)
PromoteFallback(w) ==
    /\ pc[w] = "refused"
    /\ Goto(w, "fallback")
    /\ UNCHANGED <<files, sidecar, ledger, landed, daemonSide, crashes>>

AutoCommitFailed(w) ==
    /\ pc[w] \in {"refused", "spent"}
    /\ MarkBlocked(job[w], "other")
    /\ Exit(w)
    /\ UNCHANGED <<landed, daemonSide, crashes>>

Hang(w) ==
    /\ pc[w] = "working"
    /\ Goto(w, "hung")
    /\ UNCHANGED <<files, sidecar, ledger, landed, daemonSide, crashes>>

(* SIGKILL, OOM, or a failing import before the claim. *)
WorkerCrash(w) ==
    /\ Live(w)
    /\ crashes < MaxCrashes
    /\ crashes' = crashes + 1
    /\ Exit(w)
    /\ UNCHANGED <<files, sidecar, ledger, landed, daemonSide>>

WorkerStep(w) ==
    \/ Claim(w) \/ ClaimMissed(w) \/ Reject(w) \/ Raise(w)
    \/ FinishNoDiff(w) \/ Decompose(w) \/ RefuseCommit(w) \/ Unwired(w)
    \/ WriteAccepted(w) \/ Merge(w) \/ MergeFails(w) \/ Finish(w) \/ HandoverFails(w)
    \/ PromoteFallback(w) \/ AutoCommitFailed(w) \/ Hang(w)

----------------------------------------------------------------------------
(* The daemon, one iteration *)

DropDead == pidfile' = [t \in Tasks |-> IF t \in LiveIds THEN pidfile[t] ELSE None]

(* Startup: _resume_or_kill_orphaned_workers drops the pidfiles of the     *)
(* dead.                                                                   *)
Start ==
    /\ dpc = "down"
    /\ dpc' = "reap"
    /\ DropDead
    /\ UNCHANGED <<files, sidecar, ledger, landed, briefPresent, procs, memory, crashes>>

(* A variation: the live set of the iteration before is kept. *)
ReapKeepsSnapshot ==
    /\ dpc = "reap"
    /\ dpc' = "watch"
    /\ DropDead
    /\ UNCHANGED <<files, sidecar, ledger, landed, briefPresent, procs, memory, crashes>>

(* _reap_running *)
Reap ==
    /\ dpc = "reap"
    /\ dpc' = "watch"
    /\ DropDead
    /\ running' = LiveIds
    /\ UNCHANGED <<files, sidecar, ledger, landed, briefPresent, procs,
                   chosen, launching, newPid, dispatches, crashes>>

Kill(S) ==
    /\ pc' = [w \in Workers |-> IF w \in S THEN "gone" ELSE pc[w]]
    /\ job' = [w \in Workers |-> IF w \in S THEN None ELSE job[w]]
    /\ pidfile' = [t \in Tasks |-> IF pidfile[t] \in S THEN None ELSE pidfile[t]]

(* A variation: nothing kills a hung worker. *)
WatchdogOff ==
    /\ dpc = "watch"
    /\ dpc' = "reclaim"
    /\ UNCHANGED <<files, sidecar, ledger, landed, briefPresent, pidfile, procs, memory, crashes>>

(* The parallel-worker watchdog: SIGKILL every worker whose pidfile is     *)
(* older than 1800s.  A hung one has reached that age, one that has yet to *)
(* claim has not, any other may have.  The snapshot `running` still holds  *)
(* the killed.                                                             *)
Watchdog ==
    /\ dpc = "watch"
    /\ dpc' = "reclaim"
    /\ \E old \in SUBSET {w \in Workers : pc[w] \notin {"gone", "spawned"} /\ Tracked(w)} :
          /\ \A w \in Workers : Tracked(w) /\ pc[w] = "hung" => w \in old
          /\ Kill(old)
    /\ UNCHANGED <<files, sidecar, ledger, landed, briefPresent, memory, crashes>>

(* _reclaim_orphan_processing *)
Reclaim ==
    LET orphans == processing \ running
        moved == orphans \ blocked IN
    /\ dpc = "reclaim"
    /\ dpc' = "zombie"
    /\ processing' = processing \ orphans
    /\ blocked' = blocked \cup moved
    /\ attempts' = [t \in Tasks |-> IF t \in moved THEN attempts[t] + 1 ELSE attempts[t]]
    /\ outcome' = [t \in Tasks |-> IF t \in moved THEN "other" ELSE outcome[t]]
    /\ standing' = standing \ moved
    /\ UNCHANGED <<queued, processed, quarantine, exhausted, accepted, landed,
                   briefPresent, pidfile, procs, memory, crashes>>

(* _reclaim_zombie_briefs: the brief leaves the root, and so do the parked *)
(* processed/ files of its tasks.                                          *)
ReclaimZombie ==
    /\ dpc = "zombie"
    /\ dpc' = "retry"
    /\ IF briefPresent /\ IsZombieBrief
         THEN briefPresent' = FALSE /\ processed' = processed \ ProcessedUnaccepted
         ELSE UNCHANGED <<briefPresent, processed>>
    /\ UNCHANGED <<queued, processing, blocked, quarantine, sidecar, ledger,
                   landed, pidfile, procs, memory, crashes>>

(* A variation: one attempt more than the budget. *)
RetryableOnceMore == {t \in blocked \ exhausted : attempts[t] <= EffectiveMax(t)}

Retryable == {t \in blocked \ exhausted : attempts[t] < EffectiveMax(t)}

(* _retry_blocked_tasks.  Backoff is the choice of which of the retryable  *)
(* tasks are due; 300s is also the dispatch window, so a task that comes   *)
(* back has no dispatch stamp left in it.                                  *)
Retry(due) ==
    LET spent == {t \in blocked \ exhausted : attempts[t] >= EffectiveMax(t)} IN
    /\ dpc = "retry"
    /\ dpc' = "depfail"
    /\ due \subseteq Retryable \ queued
    /\ exhausted' = exhausted \cup spent
    /\ blocked' = blocked \ due
    /\ queued' = queued \cup due
    /\ dispatches' = [t \in Tasks |-> IF t \in due THEN 0 ELSE dispatches[t]]
    /\ UNCHANGED <<processing, processed, quarantine, attempts, outcome, ledger, landed,
                   briefPresent, pidfile, procs, running, chosen, launching, newPid, crashes>>

(* _block_dependency_failed_tasks, over one snapshot of the .exhausted     *)
(* markers.                                                                *)
BlockDependencyFailed ==
    LET doomed == {t \in queued : Deps[t] \cap exhausted # {}} IN
    /\ dpc = "depfail"
    /\ dpc' = "stage"
    /\ queued' = queued \ doomed
    /\ blocked' = blocked \cup doomed
    /\ exhausted' = exhausted \cup doomed
    /\ attempts' = [t \in Tasks |-> IF t \in doomed THEN attempts[t] + 1 ELSE attempts[t]]
    /\ outcome' = [t \in Tasks |-> IF t \in doomed THEN "dependency_failed" ELSE outcome[t]]
    /\ UNCHANGED <<processing, processed, quarantine, ledger, landed, briefPresent,
                   pidfile, procs, memory, crashes>>

(* The staging loop of _auto_promote with stage_task: unstaged tasks whose *)
(* dependencies were not processed without acceptance get a fresh file and *)
(* lose every sidecar.                                                     *)
Stageable ==
    {t \in Unstaged : \A d \in Deps[t] : d \in processed => d \in accepted}

Stage ==
    LET new == IF briefPresent THEN Stageable ELSE {} IN
    /\ dpc = "stage"
    /\ dpc' = "decide"
    /\ queued' = queued \cup new
    /\ blocked' = blocked \ new
    /\ exhausted' = exhausted \ new
    /\ attempts' = [t \in Tasks |-> IF t \in new THEN 0 ELSE attempts[t]]
    /\ outcome' = [t \in Tasks |-> IF t \in new THEN "none" ELSE outcome[t]]
    /\ UNCHANGED <<processing, processed, quarantine, ledger, landed, briefPresent,
                   pidfile, procs, memory, crashes>>

Decide ==
    /\ dpc = "decide"
    /\ dpc' = "launch"
    /\ \E S \in SUBSET Candidates : Admissible(S) /\ chosen' = S
    /\ UNCHANGED <<files, sidecar, ledger, landed, briefPresent, pidfile, procs,
                   running, launching, newPid, dispatches, crashes>>

(* A dispatch stamps t and drops the stamps that have left the window; n   *)
(* of them, the new one counted, remain.                                   *)
Stamp(t, n) == /\ n <= dispatches[t] + 1
               /\ dispatches' = [dispatches EXCEPT ![t] = n]

(* Popen of a worker; its pidfile is a later step. *)
Spawn(t) ==
    /\ dpc = "launch" /\ launching = None
    /\ t \in chosen
    /\ \E n \in 1 .. SpinLimit - 1 : Stamp(t, n)
    /\ \E w \in Workers :
          /\ ~ Live(w) /\ ~ Tracked(w)
          /\ pc' = [pc EXCEPT ![w] = "spawned"]
          /\ job' = [job EXCEPT ![w] = t]
          /\ newPid' = w
    /\ launching' = t
    /\ chosen' = chosen \ {t}
    /\ UNCHANGED <<files, sidecar, ledger, landed, briefPresent, pidfile, dpc,
                   running, crashes>>

WritePidfile ==
    /\ dpc = "launch" /\ launching # None
    /\ pidfile' = [pidfile EXCEPT ![launching] = newPid]
    /\ launching' = None /\ newPid' = None
    /\ UNCHANGED <<files, sidecar, ledger, landed, briefPresent, procs, dpc,
                   running, chosen, dispatches, crashes>>

(* The dispatch circuit breaker: tasks/quarantine/ instead of a worker. *)
Quarantine(t) ==
    /\ dpc = "launch" /\ launching = None
    /\ t \in chosen
    /\ Stamp(t, SpinLimit)
    /\ queued' = queued \ {t}
    /\ quarantine' = IF t \in queued THEN quarantine \cup {t} ELSE quarantine
    /\ chosen' = chosen \ {t}
    /\ UNCHANGED <<processing, blocked, processed, sidecar, ledger, landed, briefPresent,
                   pidfile, procs, dpc, running, launching, newPid, crashes>>

EndIteration ==
    /\ dpc = "launch" /\ launching = None /\ chosen = {}
    /\ dpc' = "reap"
    /\ running' = {}
    /\ UNCHANGED <<files, sidecar, ledger, landed, briefPresent, pidfile, procs,
                   chosen, launching, newPid, dispatches, crashes>>

Forget ==
    /\ dpc' = "down"
    /\ running' = {} /\ chosen' = {} /\ launching' = None /\ newPid' = None
    /\ dispatches' = [t \in Tasks |-> 0]

(* SIGTERM, full_stop or a source change: leave the loop at its top. *)
Drain ==
    /\ dpc = "reap"
    /\ crashes < MaxCrashes
    /\ crashes' = crashes + 1
    /\ dpc' = "drain"
    /\ UNCHANGED <<files, sidecar, ledger, landed, briefPresent, pidfile, procs,
                   memory>>

(* The end of _drain_running: the grace period is over, stragglers are     *)
(* SIGKILLed and every pidfile is gone.                                    *)
DrainEnd ==
    /\ dpc = "drain"
    /\ Kill({w \in Workers : Tracked(w)})
    /\ Forget
    /\ UNCHANGED <<files, sidecar, ledger, landed, briefPresent, crashes>>

(* The daemon dies where it stands; its workers are sessions of their own  *)
(* and live on.                                                            *)
DaemonCrash ==
    /\ dpc # "down"
    /\ crashes < MaxCrashes
    /\ crashes' = crashes + 1
    /\ launching # None => GapCrash
    /\ Forget
    /\ UNCHANGED <<files, sidecar, ledger, landed, briefPresent, pidfile, procs>>

DaemonStep ==
    \/ Start \/ Reap \/ Watchdog \/ Reclaim \/ ReclaimZombie
    \/ (\E due \in SUBSET Tasks : Retry(due))
    \/ BlockDependencyFailed \/ Stage \/ Decide
    \/ (\E t \in Tasks : Spawn(t) \/ Quarantine(t))
    \/ WritePidfile \/ EndIteration \/ DrainEnd

----------------------------------------------------------------------------

(* A planned brief, an empty queue and no daemon. *)
Init ==
    /\ queued = {} /\ processing = {} /\ blocked = {} /\ processed = {}
    /\ quarantine = {} /\ exhausted = {}
    /\ attempts = [t \in Tasks |-> 0]
    /\ outcome = [t \in Tasks |-> "none"]
    /\ accepted = {} /\ standing = {} /\ landed = {}
    /\ briefPresent = TRUE
    /\ pidfile = [t \in Tasks |-> None]
    /\ pc = [w \in Workers |-> "gone"]
    /\ job = [w \in Workers |-> None]
    /\ dpc = "down"
    /\ running = {} /\ chosen = {} /\ launching = None /\ newPid = None
    /\ dispatches = [t \in Tasks |-> 0]
    /\ crashes = 0

Next ==
    \/ DaemonStep \/ Drain \/ DaemonCrash
    \/ \E w \in Workers : WorkerStep(w) \/ WorkerCrash(w)

Spec == Init /\ [][Next]_vars

(* The supervisor restarts the daemon and the daemon keeps iterating; a    *)
(* worker that is neither killed nor hung keeps running; a blocked task's  *)
(* backoff ends, so it is due in some later pass.                          *)
Fairness ==
    /\ WF_vars(DaemonStep)
    /\ \A w \in Workers : WF_vars(WorkerStep(w))
    /\ \A t \in Tasks : SF_vars(\E due \in SUBSET Tasks : t \in due /\ Retry(due))

FairSpec == Spec /\ Fairness

----------------------------------------------------------------------------
(* Properties *)

(* Every variable stays in its domain; only accepted tasks are landed.     *)
TypeOK ==
    /\ queued \subseteq Tasks /\ processing \subseteq Tasks /\ blocked \subseteq Tasks
    /\ processed \subseteq Tasks /\ quarantine \subseteq Tasks /\ exhausted \subseteq Tasks
    /\ attempts \in [Tasks -> Nat] /\ outcome \in [Tasks -> Outcomes]
    /\ accepted \subseteq Tasks /\ standing \subseteq accepted /\ landed \subseteq accepted
    /\ briefPresent \in BOOLEAN
    /\ pidfile \in [Tasks -> Workers \cup {None}]
    /\ pc \in [Workers -> WorkerStates] /\ job \in [Workers -> Tasks \cup {None}]
    /\ dpc \in DaemonStates
    /\ running \subseteq Tasks /\ chosen \subseteq Tasks
    /\ launching \in Tasks \cup {None} /\ newPid \in Workers \cup {None}
    /\ dispatches \in [Tasks -> 0 .. SpinLimit]
    /\ crashes \in 0 .. MaxCrashes

(* One place per task: its file is never in two of the directories, so no  *)
(* pass of the daemon and no worker can bring a second copy of it to life  *)
(* (renames of _reclaim_orphan_processing, _retry_blocked_tasks,           *)
(* _block_dependency_failed_tasks, stage_task, _mark_blocked and           *)
(* _mark_processed, which look at one directory each).                     *)
OnePlace ==
    /\ queued \cap (processing \cup blocked \cup processed) = {}
    /\ processing \cap (blocked \cup processed) = {}
    /\ blocked \cap processed = {}

(* Exhaustion is final: no retry, re-staging or restart takes a .exhausted *)
(* marker away (D-RETRY-CFG in _retry_blocked_tasks).                      *)
ExhaustionIsFinal == [][exhausted \subseteq exhausted']_vars

(* A claim is always within the retry budget, whatever mixture of worker   *)
(* failures, orphan reclaims and restarts came before it.                  *)
SpentNeverClaimed ==
    [][\A t \in processing' \ processing : t \notin exhausted /\ attempts[t] < MaxAttempts]_vars

(* A worker that is still synthesizing or about to merge holds the claim   *)
(* on its task: the daemon has not handed the file to anyone else.         *)
(* _reclaim_orphan_processing: "Any .processing whose task_id is NOT in    *)
(* the post-reap live set is a genuine orphan".                            *)
ClaimHeld ==
    \A w \in Workers : pc[w] \in {"working", "hung", "accepted"} => job[w] \in processing

(* No two live workers have the same task, or tasks that touch the same    *)
(* files, across daemon restarts, retries and exec hand-overs              *)
(* (can_run_parallel and the running set of collect_dispatchable_tasks).   *)
NoOverlapLive ==
    \A v, w \in Workers :
        v # w /\ Live(v) /\ Live(w) => job[v] # job[w] /\ job[w] \notin Overlap[job[v]]

(* parallel_cap bounds the live workers, those inherited from a dead       *)
(* daemon included (the running count of _decide).                         *)
CapRespected == Cardinality({w \in Workers : Live(w)}) <= Cap

(* A task is claimed only when all its dependencies have accepted rows     *)
(* (collect_dispatchable_tasks).                                           *)
DepsFirst == [][\A t \in processing' \ processing : Deps[t] \subseteq accepted]_vars

Settled(t) == t \in processed \cup exhausted

(* A dependency was closed without acceptance. *)
Stranded(t) == \E d \in Deps[t] : d \in processed \ accepted

(* Every queued task is in the end processed or out of budget, through     *)
(* hung and killed workers, orphaned claims and restarts, unless it waits  *)
(* for a dependency that was closed without acceptance.                    *)
EveryTaskSettles == \A t \in Tasks : t \in queued ~> Settled(t) \/ Stranded(t)

(* Parallel checks see the real files_touched of the running tasks         *)
(* (_load_running_task_dicts): while there is a free slot and a ready task *)
(* that neither touches the files nor the dependencies of any running one, *)
(* something is admitted.                                                  *)
FreeSlotsAreUsed ==
    [][dpc = "decide" /\ dpc' = "launch" /\ running = LiveIds /\ Cardinality(running) < Cap
          /\ (\E t \in queued \ running :
                 Deps[t] \subseteq accepted /\ \A r \in running : CanRunParallel(t, r, Tasks))
        => chosen' # {}]_vars

Status(t) ==
    IF t \in queued THEN "queued"
    ELSE IF t \in processing THEN "claimed"
    ELSE IF t \in exhausted THEN "failed"
    ELSE IF t \in blocked THEN "parked"
    ELSE IF t \in processed THEN "closed"
    ELSE "unstaged"

Lifecycle == INSTANCE TaskLifecycle WITH status <- [t \in Tasks |-> Status(t)]

(* The directories and processes implement the life cycle of a task.       *)
Implements == Lifecycle!Spec
=============================================================================
