# JanusMask in TLA+

JanusMask is a factory for code changes. A brief is planned into tasks; a
daemon dispatches each task to a worker process; the worker lets two agents
write the change independently, compares the results, commits the winner in a
staging worktree and merges it into the parent repository. There is no
database: the state is a directory tree (`state/tasks`), an append-only ledger
(`state/impl_progress.jsonl`), pidfiles and lock files, shared by processes
that crash, hang and restart independently.

This directory holds TLA+ models of that state and of the processes that share
it, TLC configurations that check them on small instances, and TLAPS proofs.

| module | what it is |
| --- | --- |
| `TaskQueue` | the daemon, the workers and the queue directories |
| `TaskLifecycle` | what the queue promises about each task; `TaskQueue` implements it |
| `TaskQueueMC` | small plans for TLC |
| `TaskQueueProofs`, `TaskQueueCapProofs` | invariants of `TaskQueue`, proved |
| `TaskQueueRefinement` | the proof that `TaskQueue` implements `TaskLifecycle` |
| `CommitLock` | `git_commit.lock`: workers and the pushing daemon |
| `CommitLockMC`, `CommitLockProofs` | its instance and its theorems |
| `Landing` | how accepted commits reach the branch: stash, fast-forward, pop |
| `CheckedOutBranch` | what landing promises of the branch; `Landing` implements it |
| `LandingMC`, `LandingProofs` | its instance and its theorems |
| `SequentialDispatch` | processes, pidfiles, pool slots, rebuild jobs, and the worker that runs alone |
| `ProcessPool` | what the daemon promises of its processes; `SequentialDispatch` implements it |
| `SequentialDispatchMC`, `SequentialDispatchProofs` | its instance and its theorems |
| `BriefPlanning` | briefs, plans, the planner, staging, the sweep and the reapers |
| `BriefPlanningMC`, `BriefPlanningProofs` | its instances and its theorems |

## The system

### Components

| component | state it keeps | operations | correct when |
| --- | --- | --- | --- |
| task queue daemon (`harness/autowork_daemon.py`) | `running/*.pid`, retry sidecars, dispatch stamps in memory | one iteration: reap, watchdog, orphan and zombie reclaim, retry, dependency failure, staging, decision, launch; drain; startup | a task is in one place, claimed within its budget, never beside one it conflicts with; every task ends |
| dispatch rules (`autowork_parallelism.py`) | none | `can_run_parallel`, `transitive_deps` | symmetric, and complete for file and dependency conflicts |
| task worker (`orchestrator_worker.py`, terminals in `orchestrator.py`) | its claim `<id>.json.processing` | claim, gates, commit, accepted row, merge, terminal move, `execv` of itself | one terminal per claim; the claim is held until the terminal |
| brief status and staging (`brief_status.py`, `planner/staging.py`) | none / fresh task files | classify the tasks of a brief, stage the unstaged | a task at work is never staged again; exhausted tasks stay dead |
| commit lock (`orchestrator.py`, `autowork_daemon.py`) | `control/autowork/git_commit.lock` | bounded acquire, pid stamp, judge the holder, release | commits exclude each other; nobody waits for ever |
| landing (`git_integration.py`, `orchestrator.py`) | staging worktrees, the parent repository, its stash | stage, verify, commit, stash, fast-forward, pop, reset | nothing merged is lost; what lands was verified on its base |
| sequential dispatch (daemon) | suspended pids in memory | SIGSTOP the others, run one, SIGCONT | the suspended are resumed or killed; the one is alone |
| planner kick-off (daemon, `planner/`) | plan-attempt markers | choose a brief, run the planner, back off | a failing brief does not spin and does not starve the others; no unchecked plan stays |
| agy pool (`agy_pool.py`) | slot sidecars | take the lowest slot whose sidecar has no pidfile | one worker per home |
| self-heal, inactivity (`selfheal.py`, daemon) | runaway counter, corrective briefs | escalate, harvest | bounded escalation |
| rebuild jobs (`rebuild/`) | job files, `rebuild__*.pid` | supervise resumable loops | one loop per job, bounded attempts, every job ends |
| state reconciler (`state_reconciler.py`) | its own lock, archives | archive stale plans and spent briefs | only what is done is archived |
| equivalence checking (`diff_fuzzer.py`, `cross_examiner.py`, `ast_enforcer.py`, ...) | none | compare two submissions | a verdict about Python source |
| agent runners, web console, supervisor script | processes, control flags | spawn, jail, stream; set flags; respawn the daemon | I/O |

### How they interact

There are no calls between processes. A worker is started by `Popen` with a
task id and reports nothing back: the daemon learns what happened from where
the task file is (`tasks/`, `*.json.processing`, `blocked/`, `processed/`,
`quarantine/`), from the sidecars in `blocked/` (`.retry.json`, `.exhausted`),
from ledger rows, and from whether the pid in `running/<id>.pid` is alive.
Every hand-over is a rename. The queue has no lock; only git commits do.

### What is hard

* Four parties rename the same files: the worker's claim and its terminals,
  the daemon's orphan reclaim, its retries, and staging.
* The daemon takes its live set once per iteration and acts on it for seconds,
  while workers exit and its own watchdog kills.
* Workers outlive the daemon, and the daemon's memory does not outlive it.
* After a failed merge, a worker goes on with its second candidate although its
  task is already parked, and perhaps already queued again.
* After a successful merge, the worker restarts itself in place for the task it
  has just closed.
* The accepted row precedes the merge; the merge may fail.
* Attempts, backoff, exhaustion, dependency failure and quarantine must leave
  no task waiting for ever.
* The commit lock is judged by two criteria, a kernel lock and a pid stamp, by
  two parties that trust different ones.

* The daemon stops processes and remembers it in memory only.
* Plans, stamps and ledger rows speak of contents of a brief that may have been
  edited meanwhile; the ledger and the directories are read one after the other.
* A planner outlives its daemon and writes its plan when nobody judges it.

The list with lines is `hazards` in `PROJECT.json`.

## TaskQueue

### State

| variable | in the code |
| --- | --- |
| `queued`, `processing`, `blocked`, `processed`, `quarantine` | the tasks whose file is in that directory |
| `exhausted`, `attempts`, `outcome` | the sidecars `blocked/<id>.exhausted`, `blocked/<id>.retry.json` |
| `accepted`, `standing` | tasks with an accepted row; those with no later `task_blocked` row, which is what `brief_status` counts. The dispatcher reads the first, the status the second. |
| `landed` | the commit is in the parent repository (git, external to the queue) |
| `briefPresent` | the brief is still in the repository root |
| `pidfile` | `running/<id>.pid` |
| `pc`, `job` | each worker process and the task it was started for |
| `dpc` | the phase of the daemon's iteration |
| `running`, `chosen`, `launching`, `newPid`, `dispatches` | locals and module globals of the daemon; lost when it dies |

### Actions

A worker step ends where another process can see something: `Claim`
(rename), `ClaimMissed`, then any of the terminals of `main`. `Reject` is a
gate that refuses; `FinishNoDiff` a submission that changes nothing;
`Decompose` a split into subtasks; `Raise` the exception handler and its
`finally` block. The commit path is split where it must be: `RefuseCommit`
(nothing recorded), `Unwired` (the wire-up gate, which blocks the task itself),
`WriteAccepted` (the row), `Merge` or `MergeFails`,
`Finish` (terminal move and `execv`), `HandoverFails`; `PromoteFallback` goes
round once more with the other candidate, `AutoCommitFailed` gives up. `Hang`
and `WorkerCrash` are the environment.

The daemon's iteration is one action per pass over a directory, in the order of
`_iteration`: `Reap`, `Watchdog`, `Reclaim`, `ReclaimZombie`, `Retry`,
`BlockDependencyFailed`, `Stage`, `Decide`, then per admitted task `Spawn` and
`WritePidfile` (two steps: a crash may come between) or `Quarantine`, and
`EndIteration`. `Start`, `Drain`, `DrainEnd` and `DaemonCrash` are its life.
Workers interleave with all of these.

Abstractions. Backoff is the choice `due` of which retryable tasks come back in
a pass. Priorities are the choice of any maximal admissible set in `Decide`.
The dispatch window is `Stamp`: a new dispatch is added and any number of old
stamps may have left. Which gate refused matters only in whether the outcome
is one of the deterministic ones, whose budget is one.

### Runs

| run | instance | asks |
| --- | --- | --- |
| `queue_chain` | a <- b, 2 workers, cap 2, 2 attempts, breaker at 2, 2 crashes, symmetry of the workers; 1.8 M states | `TypeOK`, `OnePlace`, `ClaimHeld`, `ExhaustionIsFinal`, `SpentNeverClaimed`, `DepsFirst`, `Implements` |
| `queue_slots` | three tasks, two of them with a common file, the third after the first, 3 workers, cap 2, 1 crash, symmetry of the workers; 1.4 M states | `CapRespected`, `NoOverlapLive` |
| `queue_live` | a <- b, 1 worker, 2 attempts, breaker at 4, 1 crash, fairness; 0.5 M states | `EveryTaskSettles` |
| `queue_freeze` | two independent tasks, cap 2 | finding: `FreeSlotsAreUsed` |

Bounds. Two tasks with an edge suffice for everything about one task or one
dependency; three tasks and a worker more than the cap let the cap be exceeded,
were an orphan of a dead daemon not counted. The third task waits for the first, so
that it is admitted beside what was dispatched before and after a crash; workers
are interchangeable, which the symmetry set uses.
`MaxAttempts` is 2 where the code has 3: one retry that comes back and one that
is refused. `SpinLimit` is 2 to 4 where the code has 10, so that the breaker
trips within the attempts. `MaxCrashes` bounds deaths: two let a worker and the
daemon, or two daemons, die in one behaviour. In `queue_live` the breaker is
beyond the attempts, as it is in the code (10 dispatches in 300 s against
3 attempts at least 300 s apart).

With `GapCrash` the daemon may also die between `Popen` and the pidfile. Then
`ClaimHeld`, `NoOverlapLive` and `EveryTaskSettles` fail: the worker runs, the
next daemon does not know it, takes its claim for an orphan's, and never kills it
when it hangs. The runs, and the theorems that need it, exclude this death and
only this one; it is a hazard at `autowork_daemon.py:2660`.

Two more things that do not hold are hazards too. The accepted row is written
before the merge and stays when the merge fails, so that a dependent may be
dispatched on a commit that is not there. A `no_diff` task is closed without an
accepted row, and its queued dependents wait for ever: `EveryTaskSettles` excepts
them.

Deadlock is checked in every run but those of `Landing`. None reaches one: the
daemon polls for ever.

### Fairness

`FairSpec` assumes
* weak fairness of the daemon: `scripts/run-autowork.sh` starts it again after
  every exit, and the loop of `run_daemon` sleeps a bounded time;
* weak fairness of each worker's steps: agents and subprocesses have timeouts.
  A step may be `Hang`, after which nothing is assumed of that worker;
* for each task, strong fairness of being due in a retry pass: backoffs are
  finite (300, 3600, 86400 s), and the pass comes round again and again.

Crashes and drains have no fairness and are bounded.

### Findings

Each is a run with one property that a document or a comment of the repository
states and the code does not keep.

1. `queue_freeze`: running tasks are looked up by a name they no longer have
   once claimed, and then conflict with everything: parallelism is limited to
   tasks dispatched before the first of them claims.
2. `lock_race`, 3. `landing_lost`, 4. `brief_edit`: see below.

### Proofs

All theorems hold for every plan, every number of workers and all limits.
`TaskQueueProofs`:

* `TypeCorrect`, `NeverInTwoPlaces` (`OnePlace`), `ExhaustedForGood`
  (`ExhaustionIsFinal`), `ClaimsWithinBudget` (`SpentNeverClaimed`),
  `DependenciesFirst` (`DepsFirst`);
* under `~GapCrash`: `LiveWorkersAreApart` (`NoOverlapLive`) and `ClaimsAreHeld`
  (`ClaimHeld`).

`TaskQueueCapProofs`: `CapIsRespected` (`CapRespected`), under `~GapCrash`.
`TaskQueueRefinement`: `QueueImplementsLifecycle` (`Implements`).

The invariant has layers, each inductive over the ones before it.

* `TypeInv` is `TypeOK`, and that a process about to merge has its row.
* `Directories` adds to `OnePlace` that exhausted tasks are parked and that
  whatever is queued has tries left. It assumes nothing of the processes, which is
  the point: the renames are safe even when two workers share a task. Claims
  within the budget, the finality of exhaustion and the refinement follow from it.
* `DispatchedReady`: the dependencies of every admitted task and of every live
  worker's task are accepted; rows are never taken back (`LedgerGrows`).
* `Known`: a live worker is in the pidfile of its task or is the one being
  launched, and from `Reap` to `Decide` its task is in the snapshot. A daemon
  that dies between `Popen` and pidfile breaks it; no other death does.
* `Compatible`: admitted tasks conflict neither with each other nor with any live
  worker's task. It is inductive because a running task that has claimed its file
  conflicts with everything (the finding of `queue_freeze` is the price).
* `WithinCap`: tasks at work and admitted tasks together are at most the cap, and
  so is the snapshot. `Decide` fits what it admits beside the snapshot, which
  holds every live worker's task by `Known`; `Spawn` only moves a task from one
  side of the union to the other. `PidfilesTrue` keeps the snapshot from being
  larger than what is at work. Live workers have different tasks, so counting
  tasks counts workers.

The proofs use the named assumptions of `TaskQueue` only. `Overlap` must be
symmetric, which an intersection of file sets is, and a plan is finite.

## CommitLock

The file `git_commit.lock` carries a kernel lock, which dies with its holder,
and a pid stamp, which does not. Workers (`_acquire_git_commit_lock_bounded`)
try the kernel lock until a deadline and then fail their commit. The daemon
(`_acquire_commit_lock_or_reclaim`) tries until a deadline, then reads the
stamp: a live owner is `busy`, anything else is stale, and it goes on, with the
kernel lock if it gets it and without it if not.

`flock` and `stamp` are the file; `pc` is each process, `seen` the stamp the
daemon read. Stamping is two steps, `Wipe` (truncate) and `Write`, since a
reader may come between. The worker's handle appends and the daemon's writes at
offset 0, so that two stampers may leave a garbled number. `Die` is possible at
any point; pids are not reused while a stamp names them.

`lock_safe` (two workers and the daemon, stamps may fail; 2008 states) checks
`HoldersExclude` (whoever came in by the kernel lock is alone, and no release of
a reclaiming daemon frees another's lock), `SparesTheStamped` (the daemon never
goes on past a live owner whose stamp it read), and, under weak fairness of each
attempt and of nothing else, `EveryAttemptEnds`: a holder may hang for ever and
the others still get an answer. Two workers and one daemon are all roles there
are; a third worker waits like the second.

`lock_race` shows that the push and a commit are not exclusive: the daemon reads
the empty stamp of a worker between `Wipe` and `Write`, takes it for stale and
goes on beside it. No stamp fails in this run.

`CommitLockProofs` proves `LockTypeCorrect`, `HoldersAreAlone` and
`StampedAreSpared` for any set of workers. The invariant adds `HasTheLock`
(who came in by the kernel lock is its value, so two cannot be) and
`TriesUnread` and `JudgesRead`, which tie `seen` to the phase of the attempt:
without them a reclaiming daemon could pass for a holder.

## Landing

An accepted commit reaches the checked-out branch in steps that take no lock:
`merge_staging_to_parent` puts the operator's uncommitted edits on the stash,
fast-forwards the branch to the staged commit, and pops the edits back; if they
conflict it resets the tree and drops the entry; if that reset fails it resets
the branch to the commit it had read before the merge. Several workers, the
operator and the daemon's drift-pin commit do this to one branch, one working
tree, one index and one stash stack. One action is one git command.

### State

| variable | in the code |
| --- | --- |
| `main` | the commits of the checked-out branch, oldest first |
| `tree`, `unmerged` | files with uncommitted edits; conflict entries in the index |
| `stash` | the stack: for each entry its files and the commit it was made on |
| `tested` | histories (a commit and its ancestors) on which a verification passed |
| `pc`, `staged`, `pre`, `merged`, `owes` | a worker's position, `staging_sha`, `pre_merge_sha`, whether the merge raised, `stashed` |
| `left` | entries nobody will come back for; it counts what the code forgets |

A commit is `<<author, attempt>>`. `Stage` covers the worktree and the commit in
it, which no other process sees. It does not ask whether the task has a commit on
the branch, since the code does not: a retry has the agents write anew, or takes
the other agent's candidate, and commits that on whatever is there. Only a
candidate that is byte for byte what the branch has is refused (`no_diff`), and
the task is then closed without a commit: that is `NoDiff`, which may end any
attempt, landed or not, in the state `unchanged`. `done` is a task closed by its
merge. `Verify` and `Refuse` are the verification command and the gates after it. Each git command has an outcome for what it finds and a
failure for an outside reason (`Glitch`): a conflict is possible when the files
of the entry differ between its base and the branch, a pop is refused when it
would overwrite an edited file, a fast-forward when the branch has moved, and
nothing can be stashed or merged while the index is conflicted. `Kill` is a
SIGKILL, after which no `finally` block runs.

### Runs

`landing`: two workers with commits to different files (parallel tasks never
share one), a retry for one of them, two edits, one kill, one drift-pin commit, two
outside failures; 1.8 M states. It needs the second edit to dirty the tree again
between a push and its pop, the second failure to break the recovery of a recovery
(the branch is then not reset, and the task lands again), and the retry to land
beside what the first attempt left behind. The same holds with a retry for both
workers (6.7 M states up to symmetry), which takes too long to be a run. An edit of a file that
has edits already changes nothing here and is left out. It checks

* `StashAccounted`: pops and drops take whatever is on top, and still there is one
  entry for every pop to come and every recovery given up;
* `UnmergedIsOwned`: a conflicted index, which stops every landing, is being
  recovered by a worker unless a recovery has died or failed;
* `RelandingsAccounted`: a task has at most one commit more on the branch than
  workers were killed and recoveries given up. Tasks do land twice: a worker killed
  between its merge and its record is taken for failed and tried again, and so is
  one whose recovery failed before it could reset the branch; the run reaches both.
  But every other way through the merge, a conflict that is cleaned up, a failing
  drop, a peer that moves the branch back in between, ends a landed attempt as
  landed;
* `LossIsWitnessed`: a closed task is on the branch, or a recovery was given up and
  an entry is in the stash: what `landing_lost` shows is never silent;
* `ImplementsBranch`: the branch moves as `CheckedOutBranch` says. There a task
  stages a commit on the branch, its first or a retry's, the result is tested, the
  branch moves to a tested history that extends it, the daemon appends a pin, and a
  failed recovery goes back to what it noted. Stash, tree, index and dying processes are gone; what
  lands is still what was verified as a whole, no matter who landed in between.

Deadlock is not checked: landings, edits and failures are finite in number, and
when they are over nothing is left to do.

`landing_lost` is the finding: a closed task is taken off the branch. A worker
reads `pre_merge_sha`; a peer lands, its task is closed; the worker's own
fast-forward fails, its pop conflicts and the reset fails; the branch goes back
to `pre_merge_sha`, and the peer's commit is gone although its row says accepted.

### Proofs

`LandingProofs`, for any set of workers and files and any bounds:
`LandingTypeCorrect`, `StashIsAccounted`, `ConflictsAreOwned`,
`RelandingsAreAccounted`, `LossesAreWitnessed`, `LandingImplementsBranch`, and
`WhatLandsIsVerified`, an action property of its own that no run checks. The
inductive invariant `LandingInv` is the three older state invariants and two more
facts. `OwersPending`: who has pushed is between its push
and the end of its recovery; without it a second push by the same worker would
count once. `PastTests`: a worker past its verification has its history in
`tested`. Counting entries needs that the workers are finitely many.

How often tasks land is `CountsAllowed`. A worker has a `Credit` of one while its
attempt has merged and was neither killed nor taken back, and a task is `Allowed`
its credit, the kills and the recoveries given up; no step makes that less
(`AllowedGrows`), since a kill or a failed recovery that ends a credit is counted.
The bound is claimed for the branch, for whatever a recovery would go back to and
for whatever peers have staged, since each of them becomes the branch in some step.
What a worker has staged itself may hold one commit more: `Stage` begins without a
credit, and `FastForward` earns one.

That losses are witnessed needs `StagedOwn` (what a worker
staged has its own commit), `ClosedMerged` (who is closed has merged) and
`MergedStays`: who has merged is on the branch, or an entry was left. With
`StashAccounted` an entry that was left is still in the stack, whoever pops. The
refinement needs `PastTests` for `Land`, `TypeOK` for the attempts, and nothing else.

## SequentialDispatch

The other side of the launches: processes, and the files that stand for them. A
task of the agent claude, over `claude_parallel_cap`, is launched sequentially:
the daemon stops every other process it finds in `running/` (SIGSTOP), waits for
the one, and continues the others. Rebuild loops and task workers share the
pidfiles, the cap and this fate.

### State

| variable | in the code |
| --- | --- |
| `proc` | each process: none, running or stopped |
| `pidfile`, `aged` | `running/<name>.pid`; those older than 1800 s |
| `slot`, `home` | the `.slot` sidecar; `JANUSMASK_AGY_SLOT` in a live worker |
| `status`, `attempts`, `remaining` | a rebuild job's file; whether its output still has stubs |
| `pc`, `todo` | the daemon's position and what its loop has still to visit |
| `running`, `chosen`, `claude`, `busy`, `suspended` | locals and globals of the daemon, lost when it dies |

### Actions

`Start`, `SweepOne`, `Swept` are `_resume_or_kill_orphaned_workers`; `Reap` is
`_reap_running` with the watchdog behind it; `Decide` the decision, seen from the
slots it leaves; `PassJob`, `LaunchJob`, `MarkJob` are `_watch_rebuild_jobs`, with
a death possible between launch and count. Then per chosen task
`LaunchParallel`, `SpawnFails` or `LaunchSequential`; the last goes through
`Suspend` for each pidfile, the wait with `KillSuspended` (300 s),
`SequentialEnds` (by itself or by its watchdog) and `Resume` for each remembered
pid. `Shutdown`, `Drain` and `Crash` end the daemon at any of these points.
Processes end (`Exit`) or hang; a stopped process does nothing.

Which tasks are eligible is `TaskQueue`'s subject. Running tasks without a queued
file, a rebuild loop always, are placeholders: they conflict with every task but
those of self-heal, and count as claude because they have no agent.

### Run

`sequential`: three tasks, one of them for claude, one rebuild job with two
attempts, cap and pool of 2, one crash or shutdown; 0.3 M states. It checks, as
invariants, `LiveIsTracked`, `StoppedIsOwed`, `SequentialAlone`, `HomesDistinct`,
`PoolSuffices`, `WorkersWithinCap`; of each step, `NeverTwice` and
`ImplementsPool`; under fairness, `PidfilesAreFreed`, `SuspensionEnds`, `JobsSettle`.
`ProcessPool` has neither pidfiles nor snapshots nor a daemon that dies: a task
starts in a home nobody has while fewer than the cap are alive, nothing starts
twice, any process may die, and while one task works alone nothing is started,
stopped or continued. `ClaudeCap` is 1, so that each claude task is
sequential; a count that decides (`claude >= ClaudeCap` with `ClaudeCap` of 2 or
more) needs a larger cap than TLC can do here, and the proofs cover it. One claude
task is enough for a sequential worker beside a parallel worker and a rebuild
loop, and its being of self-heal lets it be chosen beside placeholders. The third
task is what uses up or shares a slot of a pool of two.

Fairness: steps of the daemon are taken, because the supervisor starts it again
and each loop has a watchdog and a sleep; time passes over pidfiles; `Popen` of a
rebuild loop does not fail for ever (strong fairness of `LaunchJob`). Nothing is
assumed of workers and loops: they may hang, which is what the watchdogs are for.

### Proofs

`SequentialDispatchProofs`, for any tasks, jobs and limits: `DispatchTypeOK`,
`LiveAlwaysTracked`, `StoppedAlwaysOwed`, `SequentialAlwaysAlone`,
`HomesAlwaysDistinct`, `NeverStartedTwice`, `PoolAlwaysSuffices`, `WorkersAlwaysFit`,
`DispatchImplementsPool`. The inductive invariant `DispatchInv` adds

* `SnapshotCovers` and `ChosenAreNew`: whatever is alive between `Reap` and the
  launches was in the snapshot or was launched since, and what is still to be
  launched was not. Without them a launch could start a second process, and this
  is why the snapshot may be old: processes only go while it is used;
* `OthersAreVisited`: while the others are being stopped, one that still runs is
  still to be visited, because every live process has a pidfile and the loop
  takes all of them;
* `HomesAreMarked`: a home in use has its sidecar and its pidfile;
* `LaunchCounted`: a job reaches its launch with an attempt to spare.

That a launch finds a free slot is a second invariant, `RoomForChosen`: the
workers with a pidfile and the tasks still to be launched fit the cap together.
With the assumption that the pool is as large as the cap, counting gives the slot.
`PooledFit`, that the workers with a pidfile fit the cap by themselves, follows with it
and gives `WorkersWithinCap`, as the living are among them. The refinement uses all of it: that a launch is within the
cap is `RoomForChosen`, that it is of something dead is `ChosenAreNew`, that its home
is free is `HomesAreMarked`, and that the worker the daemon waits for is alone is
`SequentialAlone`.

Popen and the pidfile are one step here: the death between them is `GapCrash` of
`TaskQueue`.

## BriefPlanning

A brief is a file the operator writes. The daemon runs the planner on it, stages
the plan's tasks, quarantines it when it is a zombie and archives it when it is
spent or, if it is no longer allowed, stale. Each of these acts on a reading of
files that other processes move meanwhile, and a brief may be edited at any time.

### State

| variable | in the code |
| --- | --- |
| `brief`, `home`, `allowed` | the content of a brief, numbered in the order of edits; where its file is; the allowlist |
| `plan`, `sound` | the sha the plan file is stamped with; whether `_check_hallucination` would pass it |
| `attempts`, `det`, `edited`, `rest` | the plan-attempt marker: its count, its flag, an edit newer than it, its threshold |
| `place`, `spec`, `processed` | the task file, the content it was staged from, the closed tasks |
| `row`, `built` | the sha of the task's accepted row; the contents it was built from (history) |
| `reaping` | closed `no_diff` tasks whose worker is on its way to the reaper |
| `pc`, `seen`, `found`, `listed` | the daemon, the ledger it has read, what its scan gave |
| `target`, `reading`, `outcome`, `orphans` | its planner; planners of dead daemons |
| `wedged` | `state_reconcile.lock` was left behind |
| `tried`, `burst`, `unjudged` | history for the properties |

### Actions

`ReadLedger`, `ZombieScan`, `Quarantine` are the zombie arm with its reads apart;
`Sweep` the sha-staleness arm with the catch-up reaper at its end, `SkipSweep` its
throttle and its lock; `Retry`, `Scan`, `Stage` the staging half of
`_auto_promote`; `Choose`, `PlannerWrites`, `PlannerFails` and the four outcomes
`TimedOut`, `Rejected`, `Hallucinated`, `KickedOff` its planning half. `OrphanEnds`
is a planner without a daemon. Workers have `Claim`, `Accept`, `CloseNoDiff`,
`Fail`, `Reap` and a death inside the reap; the operator `Edit` and `Withdraw`.

Three details are easily overlooked. The accepted row is stamped with the plan
that is there at the end of the task. A `no_diff` row carries no commit and does
not count for the reapers. An accepting worker is replaced by `os.execv` before
it comes to its reaper, so that only `no_diff` closures reap; accepted briefs are
archived by the sweep.

Time is in `rest`: a rest of minutes may be over at once, a rest of a day only
after a later pass has found the brief resting, because one iteration, planner
included, takes hours at most.

### Runs

`brief_planning`: two briefs whose plans have no tasks, no free try, a day's rest
from the second failure on, one edit, one crash, fairness; 0.7 M states. It checks
`FailingBriefRests` and `EveryContentIsTried`. Two briefs are the least for one to
starve the other; the tiers are 0, 1 and 2 failures where the code has 2, 3 to 4
and 5, so that each tier is reached.

`brief_building`: one brief with two tasks, one edit, one withdrawal, one crash;
symmetry of the tasks; 3.7 M states. It checks `UnsoundIsPending`, `UneditedAreBuilt`,
`ZombiesAreIdle`, `ArchivedAreDone`. `UneditedAreBuilt` is what is left of the claim
that `brief_edit` refutes: a brief that was not edited itself and is complete has been
built, whatever happened to the plans, the planners and the other briefs meanwhile.
Two tasks let one be done while the other is not. `ZombiesAreIdle` holds because
whatever leaves the queue or a claim after the ledger was read ends as closed or
blocked; what it does not say, and what is false, is that a quarantined brief has
not landed: a task accepted between the two reads looks like a zombie's.

`brief_edit` is the finding: an edit of a brief while a task of its first plan is
queued or at work. The new plan is written, the task is in flight and not staged
again, and its row takes the new stamp: the brief is complete, and its edit was
never built.

`Crlf` is empty in the runs. The planner stamps the text with its line ends
normalised, the status compares bytes, so that a brief with CRLF line ends is
never fresh; both `EveryContentIsTried` and `ArchivedAreDone` fail for it.
`ArchivedAreDone` speaks of behaviours before the first edit: the reapers do not
look at stamps, and archive an edited brief whose old tasks had landed.

Fairness: weak for the daemon and its restart, weak for the clock of each rest.
Operators, workers, orphans and sweeps may stop for ever; `SkipSweep` is always an
alternative to `Sweep`.

### Proofs

`BriefPlanningProofs`, for any briefs, tasks and limits: `PlanningTypeOK`,
`UnsoundPlansPend`, `FailingBriefsRest`, `QuarantinedAreIdle`,
`ArchivedBriefsAreDone`, `UneditedBriefsAreBuilt`. They need five invariants.

* `UnsoundInv`: an unsound plan is the planner's of this moment or an orphan's, and
  orphans belong to unjudged runs (`OrphansAreUnjudged`).
* `RestInv`: `burst` is bounded by what the marker counts (`TriesAreCounted`), an
  honoured edit costs one try (`EditedOnce`); a run whose daemon died is counted by
  `crashes`.
* `IdleInv`: a task of a brief found to be a zombie is not in flight and cannot
  become so before the quarantine (`FoundAreIdle`), since nothing but the daemon
  itself stages.
* `DoneInv`: before the first edit each brief has one content (`ContentIsOne`), an
  integrated or reaped task is closed and stays so (`DoneIsClosed`), what a scan
  has listed for staging is open (`ListedAreOpen`), and what a quarantine is about to
  unlink belongs to a brief it moves (`UnlinkedAreFound`).
* `BuiltInv`: for an unedited brief, its plan, the planner's reading and every
  orphan's agree with it (`PlansAgree`), its tasks at large were staged from it, and
  a row of a task says that it was built from it (`TasksAgree`). It does not need
  that the other briefs are unedited, which `DoneInv` does.

The retry budget, dependencies and exhaustion are left to `TaskQueue`, a failing
merge and a failing `execv` as well: here a task fails or is accepted.

## What is only model-checked

Liveness (`EveryTaskSettles`, `EveryAttemptEnds`, `PidfilesAreFreed`,
`SuspensionEnds`, `JobsSettle`, `EveryContentIsTried`) and everything under
fairness is out of the prover's reach, as is what a recursive definition computes
for every input; `TransitiveDeps` is a recursive function and the proofs use it
only as an uninterpreted relation. Every safety property of the passing runs is
proved.

## What is not modelled, and why

* The passes of the daemon over a directory are atomic in themselves: a worker's
  rename during a pass is ordered before or after it. `BriefPlanning` takes the
  one known exception apart, the ledger read before the directories; the four
  directories, and the briefs among each other, are still one read.
* A daemon that dies inside a pass, and in particular between a rename and the
  sidecar that belongs to it.
* Epics, the per-brief gates, eligibility by age and size, self-heal briefs;
  pause and full-stop flags; decomposition's subtasks, which are tasks of the
  same kind.
* A mistake in a plan other than being unsound; briefs that share a task id.
* What agents do under a worker: a worker and its agents are one process.
* `current_task_<id>.json` scratch files, telemetry, `state.json`.
* `_mark_blocked` and `_mark_processed` find the file by the glob `*<id>.json`. Ids
  are assumed to be no suffixes of each other.
* Tasks without `files_touched`. They conflict with everything.
* Reuse of a pid that a pidfile still names.
* A failing `Popen`: the task stays queued, as when a worker dies at once.
* In `Landing`: external targets, which are landed by a ref push; edits of untracked
  files; the drift-pin script's own edit of the tree, which is part of its commit;
  the operator taking a left-over stash entry away, after which `LossIsWitnessed`
  has no witness any more; a closed task that is staged again by its brief;
  git's own crash recovery. The accepted row is appended before the merge whether
  or not the append fails (`TaskQueue` has the row).
* The components whose status is `not_modelled` in `PROJECT.json`: what they
  compute is I/O, prompts, or a judgement about Python source.

Most of the repository is of the last kind. Of its 150,000 lines of
implementation a large part is scratch copies of other versions and generated
drafts (`_autowork_scratch/`), and most of the rest is fuzzing, AST comparison,
prompt and plan text, the web console and agent plumbing, where what can go wrong
is in the data and not in the order of steps. The models cover the code whose
state is shared between processes; a large share of all lines is out of reach
for them.

## Plan

Done: `TaskQueue` with `TaskLifecycle`, `CommitLock`, `Landing`,
`SequentialDispatch`, `BriefPlanning`, and their theorems.

What is left, in this order.

1. More of `Landing`: whose edits a `git stash drop` discards when a peer has pushed
   in between.
2. Abstract specifications of `CommitLock` and of `BriefPlanning`, as `ProcessPool`
   is one of `SequentialDispatch`.
3. The quarantine of `TaskQueue`: `brief_status` does not look into
   `tasks/quarantine/`, so a quarantined task is staged again, although
   AUTONOMY_GAPS.md:92 says nothing brings it back.
4. Self-heal: the runaway counter and the flags by which a task comes back as a
   corrective brief.
5. Locked read-modify-write of `state.json` and the phases it goes through.
