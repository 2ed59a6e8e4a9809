------------------------- MODULE SequentialDispatch -------------------------
(***************************************************************************)
(* The processes of the autowork daemon (harness/autowork_daemon.py): the  *)
(* task workers and rebuild loops it starts, the pidfiles in running/ that *)
(* stand for them, the slots of the pool of agent homes, and the branch of *)
(* _iteration that stops every other process while one worker runs alone.  *)
(*                                                                         *)
(* What the daemon stopped is in its memory only (_suspended_pids); what   *)
(* it started is on disk.  The daemon may die between any two steps; its   *)
(* processes live on and the next daemon finds the pidfiles.               *)
(*                                                                         *)
(* A process is known by its name, the stem of its pidfile.  Popen and the *)
(* pidfile are one step here, and a pid is not reused while a file names   *)
(* it.  Which queued tasks are eligible is TaskQueue's subject: here any   *)
(* task that is not running may be chosen.                                 *)
(***************************************************************************)
EXTENDS Integers, FiniteSets

CONSTANTS
    Tasks,        \* task ids
    Jobs,         \* pid names of the allowlisted rebuild jobs
    Claude,       \* the tasks whose agent is claude
    SelfHeal,     \* the tasks named selfheal_*
    Cap,          \* parallel_cap
    ClaudeCap,    \* claude_parallel_cap
    PoolSize,     \* workers.agy_pool.size
    MaxAttempts,  \* MAX_REBUILD_ATTEMPTS (5)
    MaxStops,     \* bound: crashes and shutdowns of the daemon
    None

Procs == Tasks \cup Jobs
Slots == 0 .. PoolSize - 1

ASSUME NamesAssumption == /\ Tasks \cap Jobs = {}
                          /\ Claude \subseteq Tasks /\ SelfHeal \subseteq Tasks
                          /\ IsFiniteSet(Tasks) /\ IsFiniteSet(Jobs)
                          /\ None \notin Procs /\ None \notin Slots
ASSUME BoundsAssumption == /\ Cap \in Nat \ {0} /\ ClaudeCap \in Nat \ {0}
                           /\ PoolSize \in Nat \ {0} /\ MaxAttempts \in Nat \ {0}
                           /\ MaxStops \in Nat
(* "size >= autowork.parallel_cap so no concurrent worker is left          *)
(* unpooled" (config.yaml)                                                 *)
ASSUME PoolAssumption == PoolSize >= Cap

VARIABLES
    proc,       \* the process of each name: none, running or stopped
    pidfile,    \* the names with a file in running/
    aged,       \* those whose pidfile is older than 1800 s
    slot,       \* the .slot sidecar of each task; nobody removes it
    home,       \* the slot a live worker was given in its environment
    status,     \* status of each rebuild job
    attempts,   \* launches counted in the job file
    remaining,  \* does the output repo of a job still have stubs?
    pc,         \* where the daemon is
    todo,       \* what the loop it is in has still to visit
    running,    \* the live names _reap_running returned to this iteration
    chosen,     \* the tasks of this iteration still to be launched
    claude,     \* running_claude_count
    busy,       \* the process the daemon has just started and attends to
    suspended,  \* _suspended_pids
    stops       \* crashes and shutdowns so far

files  == <<pidfile, aged, slot>>
jobs   == <<status, attempts, remaining>>
memory == <<running, chosen, claude, busy, suspended>>
vars == <<proc, files, home, jobs, pc, todo, memory, stops>>

Alive(p) == proc[p] # "none"
Living == {p \in Procs : Alive(p)}

Goto(where) == pc' = where

Unlink(S) == pidfile' = pidfile \ S /\ aged' = aged \ S

(* The processes of S are gone, and their environment with them. *)
Kill(S) ==
    /\ proc' = [p \in Procs |-> IF p \in S THEN "none" ELSE proc[p]]
    /\ home' = [t \in Tasks |-> IF t \in S THEN None ELSE home[t]]

----------------------------------------------------------------------------
(* Processes *)

(* A worker ends, by itself or by a failure. *)
Exit(p) ==
    /\ proc[p] = "running"
    /\ Kill({p})
    /\ UNCHANGED <<files, jobs, pc, todo, memory, stops>>

(* A rebuild loop lands the last stub of its job. *)
FinishJob(j) ==
    /\ proc[j] = "running"
    /\ remaining[j]
    /\ remaining' = [remaining EXCEPT ![j] = FALSE]
    /\ UNCHANGED <<proc, files, home, status, attempts, pc, todo, memory, stops>>

(* Half an hour passes over a pidfile. *)
Age(p) ==
    /\ p \in pidfile \ aged
    /\ aged' = aged \cup {p}
    /\ UNCHANGED <<proc, pidfile, slot, home, jobs, pc, todo, memory, stops>>

----------------------------------------------------------------------------
(* Start of the daemon *)

Forget ==
    /\ running' = {} /\ chosen' = {} /\ claude' = 0
    /\ busy' = None  /\ suspended' = {}

Start ==
    /\ pc = "down"
    /\ Goto("sweep")
    /\ todo' = pidfile
    /\ UNCHANGED <<proc, files, home, jobs, memory, stops>>

(* A variation: the liveness probe alone, without SIGCONT. *)
SweepOneProbing(p) ==
    /\ pc = "sweep" /\ p \in todo
    /\ todo' = todo \ {p}
    /\ Unlink(IF Alive(p) THEN {} ELSE {p})
    /\ UNCHANGED <<proc, slot, home, jobs, pc, memory, stops>>

(* The sweep at startup: dead pidfiles go, the living are continued. *)
SweepOne(p) ==
    /\ pc = "sweep" /\ p \in todo
    /\ todo' = todo \ {p}
    /\ IF Alive(p)
       THEN proc' = [proc EXCEPT ![p] = "running"] /\ UNCHANGED <<pidfile, aged>>
       ELSE Unlink({p}) /\ UNCHANGED proc
    /\ UNCHANGED <<slot, home, jobs, pc, memory, stops>>

Swept ==
    /\ pc = "sweep" /\ todo = {}
    /\ Goto("idle")
    /\ UNCHANGED <<proc, files, home, jobs, todo, memory, stops>>

----------------------------------------------------------------------------
(* One iteration, up to the launches *)

(* Variations: no watchdog; the watchdog unlinks without a kill.           *)
ReapOnly ==
    LET live == {p \in pidfile : Alive(p)}
    IN  /\ pc = "idle"
        /\ Goto("decide")
        /\ running' = live
        /\ Unlink(pidfile \ live)
        /\ UNCHANGED <<proc, slot, home, jobs, todo, chosen, claude, busy, suspended, stops>>

ReapUnlinking ==
    LET live == {p \in pidfile : Alive(p)}
    IN  /\ pc = "idle"
        /\ Goto("decide")
        /\ running' = live \ aged
        /\ Unlink((pidfile \ live) \cup aged)
        /\ UNCHANGED <<proc, slot, home, jobs, todo, chosen, claude, busy, suspended, stops>>

(* _reap_running, then the watchdog over pidfiles older than 1800 s: it    *)
(* kills and unlinks, and the snapshot keeps the name for this iteration.  *)
Reap ==
    LET live == {p \in pidfile : Alive(p)}
        hung == live \cap aged
    IN  /\ pc = "idle"
        /\ Goto("decide")
        /\ running' = live
        /\ Kill(hung)
        /\ Unlink((pidfile \ live) \cup hung)
        /\ UNCHANGED <<slot, jobs, todo, chosen, claude, busy, suspended, stops>>

(* A variation: what already runs does not use up slots. *)
DecideUncounted ==
    /\ pc = "decide"
    /\ Goto("jobs")
    /\ todo' = Jobs
    /\ \E placeholders \in SUBSET running :
          /\ running \cap Jobs \subseteq placeholders
          /\ chosen' \in {S \in SUBSET (Tasks \ running) :
                             S # {} => /\ Cardinality(S) <= Cap
                                       /\ placeholders = {} \/ S \subseteq SelfHeal}
    /\ UNCHANGED <<proc, files, home, jobs, running, claude, busy, suspended, stops>>

(* _decide: some of the tasks that are not running, within the free slots. *)
(* What runs but has no queued file (a rebuild loop, a task already        *)
(* claimed) is a placeholder without files and conflicts with every task   *)
(* but those of self-heal.                                                 *)
Decide ==
    /\ pc = "decide"
    /\ Goto("jobs")
    /\ todo' = Jobs
    /\ \E placeholders \in SUBSET running :
          /\ running \cap Jobs \subseteq placeholders
          /\ chosen' \in {S \in SUBSET (Tasks \ running) :
                             S # {} => /\ Cardinality(S) + Cardinality(running) <= Cap
                                       /\ placeholders = {} \/ S \subseteq SelfHeal}
    /\ UNCHANGED <<proc, files, home, jobs, running, claude, busy, suspended, stops>>

(* _watch_rebuild_jobs, a job it does not start: it runs, or its Popen     *)
(* fails, or it is complete, or it has no attempt left.                    *)
PassJob(j) ==
    /\ pc = "jobs" /\ j \in todo
    /\ todo' = todo \ {j}
    /\ status' = IF j \in running THEN status
                 ELSE IF ~remaining[j] THEN [status EXCEPT ![j] = "complete"]
                 ELSE IF attempts[j] >= MaxAttempts THEN [status EXCEPT ![j] = "blocked"]
                 ELSE status
    /\ UNCHANGED <<proc, files, home, attempts, remaining, pc, memory, stops>>

(* A variation that does not look whether the loop still runs. *)
LaunchJobBlind(j) ==
    /\ pc = "jobs" /\ j \in todo
    /\ remaining[j] /\ attempts[j] < MaxAttempts
    /\ proc' = [proc EXCEPT ![j] = "running"]
    /\ pidfile' = pidfile \cup {j}
    /\ todo' = todo \ {j}
    /\ busy' = j
    /\ Goto("mark")
    /\ UNCHANGED <<aged, slot, home, jobs, running, chosen, claude, suspended, stops>>

LaunchJob(j) ==
    /\ pc = "jobs" /\ j \in todo
    /\ j \notin running
    /\ remaining[j] /\ attempts[j] < MaxAttempts
    /\ proc' = [proc EXCEPT ![j] = "running"]
    /\ pidfile' = pidfile \cup {j}
    /\ todo' = todo \ {j}
    /\ busy' = j
    /\ Goto("mark")
    /\ UNCHANGED <<aged, slot, home, jobs, running, chosen, claude, suspended, stops>>

(* A variation: the launch is not counted. *)
MarkJobUncounted ==
    /\ pc = "mark"
    /\ status' = [status EXCEPT ![busy] = "running"]
    /\ busy' = None
    /\ Goto("jobs")
    /\ UNCHANGED <<proc, files, home, attempts, remaining, todo, running, chosen, claude,
                   suspended, stops>>

(* _mark_rebuild_job after the spawn: a daemon that dies before has        *)
(* launched without counting.                                              *)
MarkJob ==
    /\ pc = "mark"
    /\ status' = [status EXCEPT ![busy] = "running"]
    /\ attempts' = [attempts EXCEPT ![busy] = @ + 1]
    /\ busy' = None
    /\ Goto("jobs")
    /\ UNCHANGED <<proc, files, home, remaining, todo, running, chosen, claude, suspended, stops>>

(* The claude workers are counted on the same dicts, read again: a         *)
(* placeholder has no agent and counts as claude.                          *)
JobsDone ==
    /\ pc = "jobs" /\ todo = {}
    /\ Goto("launch")
    /\ \E placeholders \in SUBSET running :
          /\ running \cap Jobs \subseteq placeholders
          /\ claude' = Cardinality((running \cap Claude) \cup placeholders)
    /\ UNCHANGED <<proc, files, home, jobs, todo, running, chosen, busy, suspended, stops>>

----------------------------------------------------------------------------
(* The launches *)

Sequential(t) == t \in Claude /\ (ClaudeCap = 1 \/ claude >= ClaudeCap)

(* Slots of the .slot sidecars whose .pid exists.  Variations: those of    *)
(* the snapshot of the iteration; those of every sidecar.                  *)
BusySlotsAtReap == {slot[t] : t \in Tasks \cap running} \ {None}
BusySlotsOfSidecars == {slot[t] : t \in Tasks} \ {None}
BusySlots == {slot[t] : t \in Tasks \cap pidfile} \ {None}

(* The lowest slot that is not busy *)
IsFreeSlot(s) == /\ s \in Slots \ BusySlots
                 /\ \A r \in Slots \ BusySlots : s <= r

LaunchParallel(t) ==
    /\ pc = "launch" /\ t \in chosen /\ ~Sequential(t)
    /\ chosen' = chosen \ {t}
    /\ \E s \in Slots :
          /\ IsFreeSlot(s)
          /\ slot' = [slot EXCEPT ![t] = s]
          /\ home' = [home EXCEPT ![t] = s]
    /\ proc' = [proc EXCEPT ![t] = "running"]
    /\ pidfile' = pidfile \cup {t}
    /\ claude' = IF t \in Claude THEN claude + 1 ELSE claude
    /\ UNCHANGED <<aged, jobs, pc, todo, running, busy, suspended, stops>>

(* Popen raises; the sidecar of a parallel launch has been written. *)
SpawnFails(t) ==
    /\ pc = "launch" /\ t \in chosen
    /\ chosen' = chosen \ {t}
    /\ \/ /\ ~Sequential(t)
          /\ \E s \in Slots : IsFreeSlot(s) /\ slot' = [slot EXCEPT ![t] = s]
       \/ /\ Sequential(t)
          /\ UNCHANGED slot
    /\ UNCHANGED <<proc, pidfile, aged, home, jobs, pc, todo, running, claude, busy, suspended, stops>>

(* A variation that stops the task workers only. *)
LaunchSequentialSparingJobs(t) ==
    /\ pc = "launch" /\ t \in chosen /\ Sequential(t)
    /\ chosen' = chosen \ {t}
    /\ proc' = [proc EXCEPT ![t] = "running"]
    /\ pidfile' = pidfile \cup {t}
    /\ busy' = t
    /\ todo' = pidfile \cap Tasks
    /\ Goto("suspend")
    /\ UNCHANGED <<aged, slot, home, jobs, running, claude, suspended, stops>>

LaunchSequential(t) ==
    /\ pc = "launch" /\ t \in chosen /\ Sequential(t)
    /\ chosen' = chosen \ {t}
    /\ proc' = [proc EXCEPT ![t] = "running"]
    /\ pidfile' = pidfile \cup {t}
    /\ busy' = t
    /\ todo' = pidfile
    /\ Goto("suspend")
    /\ UNCHANGED <<aged, slot, home, jobs, running, claude, suspended, stops>>

(* suspend_parallel_workers, for one pidfile: SIGSTOP, then the memory. *)
Suspend(p) ==
    /\ pc = "suspend" /\ p \in todo
    /\ todo' = todo \ {p}
    /\ IF Alive(p)
       THEN /\ proc' = [proc EXCEPT ![p] = "stopped"]
            /\ suspended' = suspended \cup {p}
       ELSE UNCHANGED <<proc, suspended>>
    /\ UNCHANGED <<files, home, jobs, pc, running, chosen, claude, busy, stops>>

Suspended ==
    /\ pc = "suspend" /\ todo = {}
    /\ Goto("wait")
    /\ UNCHANGED <<proc, files, home, jobs, todo, memory, stops>>

(* Suspended for more than 300 s: killed; the pidfile stays. *)
KillSuspended(p) ==
    /\ pc = "wait" /\ p \in suspended
    /\ Kill({p})
    /\ suspended' = suspended \ {p}
    /\ UNCHANGED <<files, jobs, pc, todo, running, chosen, claude, busy, stops>>

(* Variations: the wait has no watchdog; the suspended are not resumed. *)
SequentialEndsItself ==
    /\ pc = "wait" /\ ~Alive(busy)
    /\ Unlink({busy})
    /\ busy' = None
    /\ Goto("resume")
    /\ UNCHANGED <<proc, slot, home, jobs, todo, running, chosen, claude, suspended, stops>>

SequentialEndsUnresumed ==
    /\ pc = "wait"
    /\ Kill({busy})
    /\ Unlink({busy})
    /\ busy' = None
    /\ Goto("launch")
    /\ UNCHANGED <<slot, jobs, todo, running, chosen, claude, suspended, stops>>

(* The sequential worker has ended, or the watchdog of the wait kills its  *)
(* process group; its pidfile goes.                                        *)
SequentialEnds ==
    /\ pc = "wait"
    /\ Kill({busy})
    /\ Unlink({busy})
    /\ busy' = None
    /\ Goto("resume")
    /\ UNCHANGED <<slot, jobs, todo, running, chosen, claude, suspended, stops>>

(* resume_parallel_workers *)
Resume(p) ==
    /\ pc = "resume" /\ p \in suspended
    /\ suspended' = suspended \ {p}
    /\ proc' = [proc EXCEPT ![p] = IF Alive(p) THEN "running" ELSE "none"]
    /\ UNCHANGED <<files, home, jobs, pc, todo, running, chosen, claude, busy, stops>>

Resumed ==
    /\ pc = "resume" /\ suspended = {}
    /\ Goto("launch")
    /\ UNCHANGED <<proc, files, home, jobs, todo, memory, stops>>

LaunchDone ==
    /\ pc = "launch" /\ chosen = {}
    /\ Goto("idle")
    /\ running' = {} /\ claude' = 0
    /\ UNCHANGED <<proc, files, home, jobs, todo, chosen, busy, suspended, stops>>

----------------------------------------------------------------------------
(* The end of the daemon *)

(* SIGTERM or full_stop, seen at the top of the loop; an idle daemon whose *)
(* source has changed leaves the same way, to be started again.            *)
Shutdown ==
    /\ pc = "idle" /\ stops < MaxStops
    /\ stops' = stops + 1
    /\ Goto("drain")
    /\ todo' = pidfile
    /\ UNCHANGED <<proc, files, home, jobs, memory>>

(* _drain_running: dead within the grace period, or killed after it. *)
Drain(p) ==
    /\ pc = "drain" /\ p \in todo
    /\ todo' = todo \ {p}
    /\ Kill({p})
    /\ Unlink({p})
    /\ UNCHANGED <<slot, jobs, pc, memory, stops>>

Drained ==
    /\ pc = "drain" /\ todo = {}
    /\ Goto("down")
    /\ UNCHANGED <<proc, files, home, jobs, todo, memory, stops>>

Crash ==
    /\ pc # "down" /\ stops < MaxStops
    /\ stops' = stops + 1
    /\ Goto("down")
    /\ todo' = {}
    /\ Forget
    /\ UNCHANGED <<proc, files, home, jobs>>

----------------------------------------------------------------------------

Init ==
    /\ proc = [p \in Procs |-> "none"]
    /\ pidfile = {} /\ aged = {}
    /\ slot = [t \in Tasks |-> None] /\ home = [t \in Tasks |-> None]
    /\ status = [j \in Jobs |-> "pending"]
    /\ attempts = [j \in Jobs |-> 0]
    /\ remaining = [j \in Jobs |-> TRUE]
    /\ pc = "down" /\ todo = {}
    /\ running = {} /\ chosen = {} /\ claude = 0 /\ busy = None /\ suspended = {}
    /\ stops = 0

DaemonStep ==
    \/ Start \/ Swept \/ Reap \/ Decide \/ MarkJob \/ JobsDone \/ Suspended
    \/ SequentialEnds \/ Resumed \/ LaunchDone \/ Drained
    \/ \E p \in Procs : SweepOne(p) \/ Suspend(p) \/ Resume(p) \/ Drain(p)
    \/ \E j \in Jobs : PassJob(j) \/ LaunchJob(j)
    \/ \E t \in Tasks : LaunchParallel(t) \/ SpawnFails(t) \/ LaunchSequential(t)

Next ==
    \/ DaemonStep
    \/ Shutdown \/ Crash
    \/ \E p \in Procs : Exit(p) \/ Age(p) \/ KillSuspended(p)
    \/ \E j \in Jobs : FinishJob(j)

Spec == Init /\ [][Next]_vars
(* Daemon steps are taken: a dead daemon is started again by               *)
(* run-autowork.sh, every loop has a watchdog and a sleep, and Popen of a  *)
(* rebuild loop does not fail for ever.  Time passes over the pidfiles.    *)
(* Nothing is assumed of the processes: they may hang.                     *)
FairSpec == /\ Spec
            /\ WF_vars(DaemonStep)
            /\ \A p \in Procs : WF_vars(Age(p))
            /\ \A j \in Jobs : SF_vars(LaunchJob(j))

----------------------------------------------------------------------------
(* Properties *)

Phases == {"down", "sweep", "idle", "decide", "jobs", "mark", "launch", "suspend", "wait",
           "resume", "drain"}

(* Every variable stays in its domain, and the daemon attends to a process *)
(* and remembers stopped ones only in the phases of the code that do.      *)
TypeOK ==
    /\ proc \in [Procs -> {"none", "running", "stopped"}]
    /\ pidfile \subseteq Procs /\ aged \subseteq pidfile
    /\ slot \in [Tasks -> Slots \cup {None}]
    /\ home \in [Tasks -> Slots \cup {None}]
    /\ status \in [Jobs -> {"pending", "running", "blocked", "complete"}]
    /\ attempts \in [Jobs -> 0 .. MaxAttempts]
    /\ remaining \in [Jobs -> BOOLEAN]
    /\ pc \in Phases /\ todo \subseteq Procs
    /\ running \subseteq Procs /\ chosen \subseteq Tasks /\ claude \in Nat
    /\ pc = "mark" => busy \in Jobs
    /\ pc \in {"suspend", "wait"} => busy \in Tasks
    /\ pc \notin {"mark", "suspend", "wait"} => busy = None
    /\ suspended \subseteq Procs
    /\ pc \notin {"suspend", "wait", "resume"} => suspended = {}
    /\ stops \in 0 .. MaxStops

(* Every live worker and rebuild loop has a pidfile, through kills, drains *)
(* and crashes: the next iteration and the next daemon can count, reap,    *)
(* continue or kill it (_reap_running, _drain_running and                  *)
(* _resume_or_kill_orphaned_workers look nowhere else).                    *)
LiveIsTracked == Living \subseteq pidfile

(* A stopped process is always owed its SIGCONT: by the memory of the      *)
(* daemon that stopped it or, when that died, by the sweep of the next     *)
(* one, which must still have its pidfile before it ("the orphan is        *)
(* treated as live, never reaped, and its parallel slot leaks forever").   *)
StoppedIsOwed ==
    \A p \in Procs : proc[p] = "stopped" =>
        p \in suspended \/ pc = "down" \/ (pc = "sweep" /\ p \in todo)

(* While the daemon waits for a sequential worker nothing else it has      *)
(* started runs, what an earlier daemon left behind included               *)
(* (suspend_parallel_workers).                                             *)
SequentialAlone == pc = "wait" => \A p \in Procs : proc[p] = "running" => p = busy

(* Two live workers never share an agent home, although sidecars are never *)
(* removed and tasks are launched again, pooled or sequential              *)
(* (_agy_pool_busy_slots).                                                 *)
HomesDistinct ==
    \A t, u \in Tasks : home[t] # None /\ home[t] = home[u] => t = u

(* A pool as large as the cap has a free slot for every launch, stale      *)
(* sidecars notwithstanding: allocate_slot never raises.                   *)
PoolSuffices == pc = "launch" /\ chosen # {} => \E s \in Slots : IsFreeSlot(s)

(* The live workers are never more than the cap, those stopped for a       *)
(* sequential one, the sequential one itself and those of daemons that     *)
(* died included, although the free slots were counted before kills,       *)
(* suspensions and launches (_decide: parallel_cap - len(running)).        *)
WorkersWithinCap == Cardinality({t \in Tasks : Alive(t)}) <= Cap

(* No second process is started beside a live one of the same name, though *)
(* the snapshot it is judged by is as old as the suspensions and kills of  *)
(* the iteration: two loops would rebuild into one output repository, two  *)
(* workers of a task share its claim.                                      *)
NeverTwice ==
    [][\A p \in Procs :
          (busy' = p /\ busy # p) \/ p \in chosen \ chosen' => proc[p] = "none"]_vars

(* The processes, seen without files, snapshots and phases *)
Pool == INSTANCE ProcessPool WITH
    state <- proc, solo <- IF pc = "wait" THEN busy ELSE None, Homes <- Slots

(* Every step of the daemon and of its processes is one the pool allows:   *)
(* a launch is within the cap, of what is dead and in a home nobody has;   *)
(* nothing is continued or started while a sequential worker is alone, and *)
(* that ends by its death or the daemon's (_iteration).                    *)
ImplementsPool == Pool!Spec

(* No pidfile stays for ever, whatever its process does: neither a hung    *)
(* worker nor a stopped one "leak[s] its slot forever" (_iteration).       *)
PidfilesAreFreed == \A p \in Procs : []<>(p \notin pidfile)

(* Time and again nobody is stopped: whoever is runs again or is dead in   *)
(* the end, also when the sequential worker hangs or the daemon dies in    *)
(* between (resume_parallel_workers, _resume_or_kill_orphaned_workers).    *)
SuspensionEnds == []<>(\A p \in Procs : proc[p] # "stopped")

(* Every rebuild job is in the end complete or parked as blocked, and      *)
(* stays so, also when its loop hangs, is suspended or is killed each time.*)
JobsSettle == \A j \in Jobs : <>[](status[j] \in {"complete", "blocked"})
=============================================================================
