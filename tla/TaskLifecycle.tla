--------------------------- MODULE TaskLifecycle ---------------------------
(***************************************************************************)
(* What the task queue promises about each task, with neither processes    *)
(* nor directories: a task waits, is claimed, and ends closed, failed or   *)
(* parked for another try.  TaskQueue implements it (Implements there).    *)
(*                                                                         *)
(* A run that was refused after its task had been parked may still move    *)
(* it: the fallback candidate is committed, or refused, while the daemon   *)
(* has put the task back in the queue.  Hence the queued tasks of Park and *)
(* Close.                                                                  *)
(***************************************************************************)
CONSTANTS Tasks, Deps

VARIABLE status

Statuses == {"unstaged", "queued", "claimed", "parked", "failed", "closed"}

Is(s) == {t \in Tasks : status[t] = s}

Move(S, to) == status' = [t \in Tasks |-> IF t \in S THEN to ELSE status[t]]

Init == status = [t \in Tasks |-> "unstaged"]

Stage(S) == S \subseteq Is("unstaged") /\ Move(S, "queued")

Claim(t) == t \in Is("queued") /\ Move({t}, "claimed")

Park(S) == S \subseteq Is("claimed") \cup Is("queued") /\ Move(S, "parked")

Close(t) == t \in Is("claimed") \cup Is("queued") /\ Move({t}, "closed")

(* One pass over the parked tasks: some come back, those out of budget do  *)
(* not.                                                                    *)
Retry(due, spent) ==
    /\ due \cup spent \subseteq Is("parked") /\ due \cap spent = {}
    /\ status' = [t \in Tasks |-> IF t \in due THEN "queued"
                                  ELSE IF t \in spent THEN "failed" ELSE status[t]]

(* A waiting task fails without a try only if a dependency has failed, and *)
(* then no such task is left waiting.                                      *)
FailDependents ==
    Move({t \in Is("queued") : Deps[t] \cap Is("failed") # {}}, "failed")

(* The dispatch breaker takes a task out of the queue. *)
Break(t) == t \in Is("queued") /\ Move({t}, "unstaged")

(* The brief is given up: nothing of it is waiting or running.             *)
Abandon(S) ==
    /\ Is("queued") \cup Is("claimed") = {}
    /\ S \subseteq Is("closed") /\ Move(S, "unstaged")

Next ==
    \/ \E S \in SUBSET Tasks : Stage(S) \/ Park(S) \/ Abandon(S)
    \/ \E t \in Tasks : Claim(t) \/ Close(t) \/ Break(t)
    \/ \E due, spent \in SUBSET Tasks : Retry(due, spent)
    \/ FailDependents

Spec == Init /\ [][Next]_status
=============================================================================
