----------------------------- MODULE CommitLock -----------------------------
(***************************************************************************)
(* git_commit.lock: the lock file around the git commit of a worker        *)
(* (_acquire_git_commit_lock_bounded in harness/orchestrator.py) and       *)
(* around the push and META commit of the daemon                           *)
(* (_acquire_commit_lock_or_reclaim in harness/autowork_daemon.py).        *)
(*                                                                         *)
(* The file carries two things: the kernel's flock, which dies with its    *)
(* holder, and a pid stamp, which does not.  Workers trust the flock only; *)
(* the daemon, at its deadline, judges the holder by the stamp.  A process *)
(* that dies is followed by one with a fresh pid under the same name; what *)
(* it left in the file becomes StalePid.                                   *)
(***************************************************************************)
CONSTANTS
    Workers,   \* worker processes
    Daemon,    \* the daemon
    NoPid,     \* an empty lock file
    StalePid,  \* the pid of a process that is gone
    Garbled,   \* two stamps run together
    Unread,    \* the daemon has not looked at the stamp in this attempt
    StampMayFail \* may writing the stamp raise OSError?

ASSUME NamesAssumption ==
    /\ Daemon \notin Workers
    /\ {NoPid, StalePid, Garbled, Unread} \cap (Workers \cup {Daemon}) = {}
    /\ NoPid # StalePid /\ NoPid # Garbled /\ NoPid # Unread
    /\ StalePid # Garbled /\ StalePid # Unread /\ Garbled # Unread
ASSUME StampAssumption == StampMayFail \in BOOLEAN

VARIABLES
    flock,  \* the process that has the kernel lock, or NoPid
    stamp,  \* what the lock file says
    pc,     \* where each process is in its attempt
    seen    \* the stamp the daemon read at its deadline

vars == <<flock, stamp, pc, seen>>

Procs == Workers \cup {Daemon}

Stamps == Procs \cup {NoPid, StalePid, Garbled}

(* locked and wiped: on the way in, the stamp not yet written. *)
States == {"idle", "trying", "probing", "read", "condemned", "locked", "wiped", "inside"}

Goto(p, where) == pc' = [pc EXCEPT ![p] = where]

----------------------------------------------------------------------------

Begin(p) ==
    /\ pc[p] = "idle"
    /\ Goto(p, "trying")
    /\ seen' = IF p = Daemon THEN Unread ELSE seen
    /\ UNCHANGED <<flock, stamp>>

(* flock(LOCK_NB | LOCK_EX) succeeds. *)
Lock(p) ==
    /\ pc[p] = "trying"
    /\ flock = NoPid
    /\ flock' = p
    /\ Goto(p, "locked")
    /\ UNCHANGED <<stamp, seen>>

(* Variations of GiveUp: a blocking flock, and one that fails open. *)
GiveUpNever(w) == FALSE

GiveUpFailOpen(w) ==
    /\ pc[w] = "trying"
    /\ flock # NoPid
    /\ Goto(w, "locked")
    /\ UNCHANGED <<flock, stamp, seen>>

(* The deadline of a worker passes: its commit attempt fails. *)
GiveUp(w) ==
    /\ pc[w] = "trying"
    /\ flock # NoPid
    /\ Goto(w, "idle")
    /\ UNCHANGED <<flock, stamp, seen>>

(* truncate, then write: the file is empty in between. *)
Wipe(p) ==
    /\ pc[p] = "locked"
    /\ stamp' = NoPid
    /\ Goto(p, "wiped")
    /\ UNCHANGED <<flock, seen>>

(* A worker's handle appends; the daemon's writes at offset 0, over what   *)
(* another may have appended since.                                        *)
Write(p) ==
    /\ pc[p] = "wiped"
    /\ stamp' \in IF stamp = NoPid THEN {p}
                  ELSE IF p = Daemon THEN {p, Garbled} ELSE {Garbled}
    /\ Goto(p, "inside")
    /\ UNCHANGED <<flock, seen>>

(* OSError in the stamping is ignored. *)
StampFails(p) ==
    /\ StampMayFail
    /\ pc[p] \in {"locked", "wiped"}
    /\ Goto(p, "inside")
    /\ UNCHANGED <<flock, stamp, seen>>

(* A variation: the handle leaks, and the lock with it. *)
ReleaseLeaks(p) ==
    /\ pc[p] = "inside"
    /\ Goto(p, "idle")
    /\ UNCHANGED <<flock, stamp, seen>>

(* LOCK_UN on one's own handle frees one's own lock only; the stamp stays. *)
Release(p) ==
    /\ pc[p] = "inside"
    /\ flock' = IF flock = p THEN NoPid ELSE flock
    /\ Goto(p, "idle")
    /\ UNCHANGED <<stamp, seen>>

(* SIGKILL or a crash, anywhere. *)
Die(p) ==
    /\ flock' = IF flock = p THEN NoPid ELSE flock
    /\ stamp' = IF stamp = p THEN StalePid ELSE stamp
    /\ seen'  = IF seen = p THEN StalePid ELSE seen
    /\ Goto(p, "idle")

----------------------------------------------------------------------------
(* The daemon past its deadline *)

Deadline ==
    /\ pc[Daemon] = "trying"
    /\ flock # NoPid
    /\ Goto(Daemon, "probing")
    /\ UNCHANGED <<flock, stamp, seen>>

Read ==
    /\ pc[Daemon] = "probing"
    /\ seen' = stamp
    /\ Goto(Daemon, "read")
    /\ UNCHANGED <<flock, stamp>>

(* A variation: the owner is never found alive. *)
ProbeBlind ==
    /\ pc[Daemon] = "read"
    /\ Goto(Daemon, "condemned")
    /\ UNCHANGED <<flock, stamp, seen>>

(* os.kill(pid, 0); a garbled pid may happen to be somebody's. *)
Probe ==
    /\ pc[Daemon] = "read"
    /\ \/ seen \in Workers \cup {Daemon, Garbled} /\ Goto(Daemon, "idle")
       \/ seen \in {NoPid, StalePid, Garbled} /\ Goto(Daemon, "condemned")
    /\ UNCHANGED <<flock, stamp, seen>>

(* One more try for the flock; without it the daemon goes on all the same. *)
Reclaim ==
    /\ pc[Daemon] = "condemned"
    /\ flock' = IF flock = NoPid THEN Daemon ELSE flock
    /\ Goto(Daemon, "locked")
    /\ UNCHANGED <<stamp, seen>>

----------------------------------------------------------------------------

Init ==
    /\ flock = NoPid /\ stamp = NoPid /\ seen = Unread
    /\ pc = [p \in Procs |-> "idle"]

(* What a process does by itself from its first try to the commit. *)
Attempt(p) ==
    \/ Lock(p) \/ Wipe(p) \/ Write(p) \/ StampFails(p)
    \/ p \in Workers /\ GiveUp(p)
    \/ p = Daemon /\ (Deadline \/ Read \/ Probe \/ Reclaim)

Next == \E p \in Procs : Begin(p) \/ Attempt(p) \/ Release(p) \/ Die(p)

Spec == Init /\ [][Next]_vars

(* Attempts run against a monotonic clock.  Nothing is assumed of a holder:*)
(* it may hang inside for ever.                                            *)
FairSpec == Spec /\ \A p \in Procs : WF_vars(Attempt(p))

----------------------------------------------------------------------------
(* Properties *)

Critical == {"locked", "wiped", "inside"}

(* Every variable stays in its domain, and the kernel lock is never left   *)
(* with a process that is not in its section.                              *)
TypeOK ==
    /\ flock \in {NoPid} \cup {p \in Procs : pc[p] \in Critical}
    /\ stamp \in Stamps
    /\ pc \in [Procs -> States]
    /\ seen \in Stamps \cup {Unread}

(* Inside by the flock and not by a verdict on the stamp *)
Acquired(p) == pc[p] \in Critical /\ (p = Daemon => seen = Unread)

(* Whoever came in by the flock is alone with it: a daemon that reclaims   *)
(* and releases beside a worker never frees that worker's lock for a third *)
(* (LOCK_UN in the finally blocks of both callers).                        *)
HoldersExclude == \A p, q \in Procs : Acquired(p) /\ Acquired(q) => p = q

(* The daemon never goes on beside a holder whose stamp it has read: a     *)
(* live owner is "busy" (_acquire_commit_lock_or_reclaim).                 *)
SparesTheStamped == pc[Daemon] \in Critical \cup {"condemned"} => seen \notin Procs

(* Every attempt ends, in the critical section or out of it, even when a   *)
(* holder hangs for ever ("instead of hanging",                            *)
(* _acquire_git_commit_lock_bounded).                                      *)
EveryAttemptEnds == \A p \in Procs : pc[p] = "trying" ~> pc[p] \in {"idle", "inside"}

(* The daemon's push and META commit never run beside a worker's commit:   *)
(* the lock "also defends against operator-driven META commits that race   *)
(* with an in-flight auto_commit" (orchestrator.py).                       *)
PushExcludesCommit == \A w \in Workers : ~ (pc[Daemon] = "inside" /\ pc[w] = "inside")
=============================================================================
