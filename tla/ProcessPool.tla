---------------------------- MODULE ProcessPool ----------------------------
(***************************************************************************)
(* What the daemon promises of the processes it starts, with neither       *)
(* pidfiles nor sidecars nor a daemon that dies: a task starts in a home   *)
(* nobody has while fewer than Cap are alive, nothing starts twice, any    *)
(* process may die, and when one task works alone everything else is dead  *)
(* or stopped until that ends.  SequentialDispatch implements it.          *)
(***************************************************************************)
EXTENDS Integers, FiniteSets

CONSTANTS Tasks, Jobs, Homes, Cap, None

VARIABLES
    state,  \* of each process: none, running or stopped
    home,   \* the agent home of each task
    solo    \* the task that works alone

Procs == Tasks \cup Jobs

Live(p) == state[p] # "none"

Init ==
    /\ state = [p \in Procs |-> "none"]
    /\ home = [t \in Tasks |-> None]
    /\ solo = None

Begin(p) ==
    /\ solo = None /\ ~Live(p)
    /\ state' = [state EXCEPT ![p] = "running"]
    /\ UNCHANGED solo

BeginJob(j) == Begin(j) /\ UNCHANGED home

BeginTask(t) ==
    /\ Begin(t)
    /\ Cardinality({u \in Tasks : Live(u)}) < Cap
    /\ \E h \in {None} \cup (Homes \ {home[u] : u \in Tasks}) :
          home' = [home EXCEPT ![t] = h]

Die(S) ==
    /\ state' = [p \in Procs |-> IF p \in S THEN "none" ELSE state[p]]
    /\ home' = [t \in Tasks |-> IF t \in S THEN None ELSE home[t]]

End(S) == Die(S) /\ UNCHANGED solo

Stop(p) ==
    /\ solo = None /\ Live(p)
    /\ state' = [state EXCEPT ![p] = "stopped"]
    /\ UNCHANGED <<home, solo>>

Continue(p) ==
    /\ solo = None /\ Live(p)
    /\ state' = [state EXCEPT ![p] = "running"]
    /\ UNCHANGED <<home, solo>>

Isolate(t) ==
    /\ solo = None
    /\ \A p \in Procs : state[p] = "running" => p = t
    /\ solo' = t
    /\ UNCHANGED <<state, home>>

(* It has ended, or nobody attends to it any longer. *)
Rejoin ==
    /\ solo # None
    /\ solo' = None
    /\ Die({solo}) \/ UNCHANGED <<state, home>>

Next ==
    \/ Rejoin
    \/ \E S \in SUBSET Procs : End(S)
    \/ \E p \in Procs : Stop(p) \/ Continue(p)
    \/ \E j \in Jobs : BeginJob(j)
    \/ \E t \in Tasks : BeginTask(t) \/ Isolate(t)

Spec == Init /\ [][Next]_<<state, home, solo>>
=============================================================================
