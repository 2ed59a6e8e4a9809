-------------------------- MODULE CheckedOutBranch --------------------------
(***************************************************************************)
(* What landing promises of the branch everybody works on, with neither    *)
(* stash nor working tree nor processes that die: a task stages a commit   *)
(* on top of the branch as it is, its first or that of a retry, the result *)
(* is tested, and the branch moves to it if it still extends the branch.   *)
(* A lander may take the branch back to what it noted before.  Landing     *)
(* implements it.                                                          *)
(***************************************************************************)
EXTENDS Naturals, Sequences

CONSTANTS
    Workers, Daemon,
    Attempts,  \* Attempts[w]: the numbers of the attempts of w
    Pins

VARIABLES
    history,  \* the commits of the branch
    staged,   \* the history each worker would land
    tested,   \* histories that have passed a verification
    noted     \* the history each worker would go back to

IsPrefix(h, g) == Len(h) <= Len(g) /\ \A i \in 1 .. Len(h) : g[i] = h[i]

Init ==
    /\ history = <<>> /\ tested = {}
    /\ staged = [w \in Workers |-> <<>>]
    /\ noted = [w \in Workers |-> <<>>]

Stage(w) ==
    /\ \E n \in Attempts[w] : staged' = [staged EXCEPT ![w] = Append(history, <<w, n>>)]
    /\ UNCHANGED <<history, tested, noted>>

Test(w) ==
    /\ tested' = tested \cup {staged[w]}
    /\ UNCHANGED <<history, staged, noted>>

Note(w) ==
    /\ noted' = [noted EXCEPT ![w] = history]
    /\ UNCHANGED <<history, staged, tested>>

Land(w) ==
    /\ staged[w] \in tested
    /\ IsPrefix(history, staged[w])
    /\ history' = staged[w]
    /\ UNCHANGED <<staged, tested, noted>>

Pin ==
    /\ \E n \in Pins : history' = Append(history, <<Daemon, n>>)
    /\ UNCHANGED <<staged, tested, noted>>

GoBack(w) ==
    /\ history' = noted[w]
    /\ UNCHANGED <<staged, tested, noted>>

Next ==
    \/ Pin
    \/ \E w \in Workers : Stage(w) \/ Test(w) \/ Note(w) \/ Land(w) \/ GoBack(w)

Spec == Init /\ [][Next]_<<history, staged, tested, noted>>
=============================================================================
