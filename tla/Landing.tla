------------------------------ MODULE Landing ------------------------------
(***************************************************************************)
(* How an accepted commit reaches the checked-out branch of the harness's  *)
(* own repository.  A worker commits and verifies in a staging worktree    *)
(* made at the branch's HEAD (harness/orchestrator.py,                     *)
(* _auto_commit_accepted) and then merges it (harness/git_integration.py,  *)
(* merge_staging_to_parent): the operator's uncommitted edits go to the    *)
(* stash, the branch is fast-forwarded, the edits are popped back.         *)
(*                                                                         *)
(* The merge runs outside the commit lock.  Workers, the operator and the  *)
(* daemon's own commit share one branch, one working tree and one stash    *)
(* stack; one action is one git command.                                   *)
(***************************************************************************)
EXTENDS Integers, Sequences, FiniteSets

CONSTANTS
    Workers,     \* workers with a commit to land
    Daemon,      \* which makes drift-pin commits of its own
    Files,       \* tracked files
    Touches,     \* Touches[w]: the files the commit of w changes
    MaxTries,    \* bound: MaxTries[w], the attempts of the task of w
    MaxEdits,    \* bound: edits of the operator
    MaxKills,    \* bound: workers killed on the way
    MaxPins,     \* bound: drift-pin commits
    MaxGlitches  \* bound: git commands that fail for outside reasons

ASSUME WorkersAssumption == IsFiniteSet(Workers) /\ Daemon \notin Workers
ASSUME TouchesAssumption == Touches \in [Workers -> SUBSET Files]
ASSUME BoundsAssumption ==
    /\ MaxTries \in [Workers -> Nat]
    /\ {MaxEdits, MaxKills, MaxPins, MaxGlitches} \subseteq Nat

VARIABLES
    main,      \* the history of the checked-out branch
    tree,      \* files with uncommitted edits in the working tree
    unmerged,  \* the index has conflict entries
    stash,     \* the stash stack, top first
    tested,    \* histories on which a verification command has passed
    pc,        \* where each worker is
    staged,    \* the history in each worker's staging worktree
    pre,       \* pre_merge_sha
    merged,    \* the fast-forward of this attempt succeeded
    owes,      \* `stashed`, until the entry is popped, dropped or given up
    left,      \* entries nobody will take back: dead workers, failed recoveries
    tries, edits, kills, pins, glitches

repo   == <<main, tree, unmerged, stash>>
locals == <<staged, pre, merged, owes>>
bounds == <<tries, edits, kills, pins, glitches>>
vars   == <<repo, tested, pc, locals, left, bounds>>

(* A commit is named for its author and the author's attempt: a retry makes *)
(* a commit of its own.                                                    *)
Commits == (Workers \cup {Daemon}) \X Nat

Histories == Seq(Commits)

Entries == [files : SUBSET Files, base : Histories]

States == {"idle", "staged", "verified", "push", "head", "merge", "pop", "reset",
           "restore", "drop", "tidy", "done", "failed", "unchanged"}

In(history) == {history[i] : i \in 1 .. Len(history)}

(* The places of a task's commits in a history *)
CommitsOf(w, history) == {i \in 1 .. Len(history) : history[i][1] = w}

Landed(w) == \E c \in In(main) : c[1] = w

Extends(new, old) == Len(old) <= Len(new) /\ \A i \in 1 .. Len(old) : new[i] = old[i]

(* Files that differ between two histories *)
Differ(h, g) ==
    LET commits == (In(h) \ In(g)) \cup (In(g) \ In(h))
    IN  UNION {Touches[c[1]] : c \in {d \in commits : d[1] # Daemon}}

----------------------------------------------------------------------------

Goto(w, where) == pc' = [pc EXCEPT ![w] = where]

(* A git command fails for a reason of its own: the index lock of another  *)
(* command, a full disk.                                                   *)
Glitch == glitches < MaxGlitches /\ glitches' = glitches + 1 /\ UNCHANGED <<tries, edits, kills, pins>>

(* create_staging_worktree and the commit in it.  Nobody asks whether the   *)
(* task has a commit on the branch: a retry has its change written anew, or *)
(* takes the other agent's candidate, and commits it on what is there.     *)
Stage(w) ==
    /\ pc[w] \in {"idle", "failed"}
    /\ tries[w] < MaxTries[w]
    /\ tries' = [tries EXCEPT ![w] = @ + 1]
    /\ staged' = [staged EXCEPT ![w] = Append(main, <<w, tries[w] + 1>>)]
    /\ merged' = [merged EXCEPT ![w] = FALSE]
    /\ Goto(w, "staged")
    /\ UNCHANGED <<repo, tested, pre, owes, left, edits, kills, pins, glitches>>

(* The candidate is byte for byte what the branch has (no_diff): the task   *)
(* is closed without a commit.                                             *)
NoDiff(w) ==
    /\ pc[w] \in {"idle", "failed"}
    /\ tries[w] < MaxTries[w]
    /\ tries' = [tries EXCEPT ![w] = @ + 1]
    /\ Goto(w, "unchanged")
    /\ UNCHANGED <<repo, tested, locals, left, edits, kills, pins, glitches>>

(* The verification command and the gates after it pass. *)
Verify(w) ==
    /\ pc[w] = "staged"
    /\ tested' = tested \cup {staged[w]}
    /\ Goto(w, "verified")
    /\ UNCHANGED <<repo, locals, left, bounds>>

Refuse(w) ==
    /\ pc[w] = "staged"
    /\ Goto(w, "failed")
    /\ UNCHANGED <<repo, tested, locals, left, bounds>>

(* git status *)
Status(w) ==
    /\ pc[w] = "verified"
    /\ Goto(w, IF tree = {} /\ ~ unmerged THEN "head" ELSE "push")
    /\ UNCHANGED <<repo, tested, locals, left, bounds>>

(* git stash push -u *)
Push(w) ==
    /\ pc[w] = "push" /\ ~ unmerged
    /\ Goto(w, "head")
    /\ IF tree = {}  \* No local changes to save
         THEN UNCHANGED <<tree, stash, owes>>
         ELSE /\ stash' = <<[files |-> tree, base |-> main]>> \o stash
              /\ tree' = {}
              /\ owes' = [owes EXCEPT ![w] = TRUE]
    /\ UNCHANGED <<main, unmerged, tested, staged, pre, merged, left, bounds>>

PushFails(w) ==
    /\ pc[w] = "push"
    /\ Goto(w, "tidy")
    /\ IF unmerged THEN UNCHANGED bounds ELSE Glitch
    /\ UNCHANGED <<repo, tested, locals, left>>

(* git rev-parse HEAD *)
RevParse(w) ==
    /\ pc[w] = "head"
    /\ pre' = [pre EXCEPT ![w] = main]
    /\ Goto(w, "merge")
    /\ UNCHANGED <<repo, tested, staged, merged, owes, left, bounds>>

(* A variation: the stash is popped whether or not anything was pushed. *)
AfterMergeAlways(w) == "pop"

(* The finally block pops what was stashed, whether the merge failed or not. *)
AfterMerge(w) == IF owes[w] THEN "pop" ELSE "tidy"

(* The edits made since the stash are not in the way. *)
TreeLets(w) == ~ unmerged /\ tree \cap Differ(staged[w], main) = {}

(* A variation: without --ff-only, git makes a merge commit. *)
FastForwardOrMerge(w) ==
    /\ pc[w] = "merge" /\ TreeLets(w)
    /\ main' = Append(main, <<w, tries[w]>>)
    /\ merged' = [merged EXCEPT ![w] = TRUE]
    /\ Goto(w, AfterMerge(w))
    /\ UNCHANGED <<tree, unmerged, stash, tested, staged, pre, owes, left, bounds>>

(* git merge --ff-only *)
FastForward(w) ==
    /\ pc[w] = "merge" /\ TreeLets(w)
    /\ Extends(staged[w], main)
    /\ main' = staged[w]
    /\ merged' = [merged EXCEPT ![w] = TRUE]
    /\ Goto(w, AfterMerge(w))
    /\ UNCHANGED <<tree, unmerged, stash, tested, staged, pre, owes, left, bounds>>

MergeFails(w) ==
    /\ pc[w] = "merge"
    /\ Goto(w, AfterMerge(w))
    /\ IF TreeLets(w) /\ Extends(staged[w], main) THEN Glitch ELSE UNCHANGED bounds
    /\ UNCHANGED <<repo, tested, locals, left>>

(* git stash pop: it takes the top of the stack, whoever pushed it, and    *)
(* refuses when it would overwrite an edited file.                         *)
Poppable == ~ unmerged /\ stash # <<>> /\ tree \cap Head(stash).files = {}

Pop(w) ==
    /\ pc[w] = "pop" /\ Poppable
    /\ tree' = tree \cup Head(stash).files
    /\ stash' = Tail(stash)
    /\ owes' = [owes EXCEPT ![w] = FALSE]
    /\ Goto(w, "tidy")
    /\ UNCHANGED <<main, unmerged, tested, staged, pre, merged, left, bounds>>

(* A variation: a conflicting pop is left as it is. *)
PopConflictsUnseen(w) ==
    /\ pc[w] = "pop" /\ Poppable
    /\ Head(stash).files \cap Differ(Head(stash).base, main) # {}
    /\ tree' = tree \cup Head(stash).files
    /\ unmerged' = TRUE
    /\ owes' = [owes EXCEPT ![w] = FALSE]
    /\ Goto(w, "tidy")
    /\ UNCHANGED <<main, stash, tested, staged, pre, merged, left, bounds>>

(* Merging the edits with what has landed since: the entry stays. *)
PopConflicts(w) ==
    /\ pc[w] = "pop" /\ Poppable
    /\ Head(stash).files \cap Differ(Head(stash).base, main) # {}
    /\ tree' = tree \cup Head(stash).files
    /\ unmerged' = TRUE
    /\ Goto(w, "reset")
    /\ UNCHANGED <<main, stash, tested, locals, left, bounds>>

PopFails(w) ==
    /\ pc[w] = "pop"
    /\ Goto(w, "reset")
    /\ IF Poppable THEN Glitch ELSE UNCHANGED bounds
    /\ UNCHANGED <<repo, tested, locals, left>>

(* git reset --hard HEAD: whatever edits are in the tree are gone. *)
ResetHead(w) ==
    /\ pc[w] = "reset"
    /\ tree' = {} /\ unmerged' = FALSE
    /\ Goto(w, "drop")
    /\ UNCHANGED <<main, stash, tested, locals, left, bounds>>

ResetFails(w) ==
    /\ pc[w] = "reset"
    /\ Goto(w, "restore")
    /\ Glitch
    /\ UNCHANGED <<repo, tested, locals, left>>

GiveUpEntry(w) ==
    /\ owes' = [owes EXCEPT ![w] = FALSE]
    /\ left' = left + 1

(* A variation: the stash is dropped after a failed recovery, too. *)
RestoreDropping(w) ==
    /\ pc[w] = "restore"
    /\ main' = pre[w] /\ tree' = {} /\ unmerged' = FALSE
    /\ stash' = Tail(stash)
    /\ GiveUpEntry(w)
    /\ merged' = [merged EXCEPT ![w] = FALSE]
    /\ Goto(w, "tidy")
    /\ UNCHANGED <<tested, staged, pre, bounds>>

(* git reset --hard pre_merge_sha; the entry is kept for the operator. *)
Restore(w) ==
    /\ pc[w] = "restore"
    /\ \/ main' = pre[w] /\ tree' = {} /\ unmerged' = FALSE /\ UNCHANGED <<stash, bounds>>
       \/ Glitch /\ UNCHANGED repo
    /\ GiveUpEntry(w)
    /\ merged' = [merged EXCEPT ![w] = FALSE]
    /\ Goto(w, "tidy")
    /\ UNCHANGED <<tested, staged, pre>>

(* A variation: a conflict that was cleaned up counts as a failed merge. *)
DropRaising(w) ==
    /\ pc[w] = "drop"
    /\ stash # <<>>
    /\ stash' = Tail(stash)
    /\ owes' = [owes EXCEPT ![w] = FALSE]
    /\ merged' = [merged EXCEPT ![w] = FALSE]
    /\ Goto(w, "tidy")
    /\ UNCHANGED <<main, tree, unmerged, tested, staged, pre, left, bounds>>

(* A variation: git stash clear takes every entry. *)
DropClearing(w) ==
    /\ pc[w] = "drop"
    /\ stash # <<>>
    /\ stash' = <<>>
    /\ owes' = [owes EXCEPT ![w] = FALSE]
    /\ Goto(w, "tidy")
    /\ UNCHANGED <<main, tree, unmerged, tested, staged, pre, merged, left, bounds>>

(* git stash drop: the top of the stack, again. *)
Drop(w) ==
    /\ pc[w] = "drop"
    /\ stash # <<>>
    /\ stash' = Tail(stash)
    /\ owes' = [owes EXCEPT ![w] = FALSE]
    /\ Goto(w, "tidy")
    /\ UNCHANGED <<main, tree, unmerged, tested, staged, pre, merged, left, bounds>>

DropFails(w) ==
    /\ pc[w] = "drop"
    /\ IF stash = <<>> THEN UNCHANGED bounds ELSE Glitch
    /\ GiveUpEntry(w)
    /\ Goto(w, "tidy")
    /\ UNCHANGED <<repo, tested, staged, pre, merged>>

(* remove_staging_worktree, then _mark_processed or merge_failed *)
Tidy(w) ==
    /\ pc[w] = "tidy"
    /\ Goto(w, IF merged[w] THEN "done" ELSE "failed")
    /\ UNCHANGED <<repo, tested, locals, left, bounds>>

(* SIGKILL: the finally block does not run. *)
Kill(w) ==
    /\ pc[w] \notin {"idle", "done", "failed", "unchanged"}
    /\ kills < MaxKills /\ kills' = kills + 1
    /\ Goto(w, "failed")
    /\ owes' = [owes EXCEPT ![w] = FALSE]
    /\ left' = IF owes[w] THEN left + 1 ELSE left
    /\ UNCHANGED <<repo, tested, staged, pre, merged, tries, edits, pins, glitches>>

(* The operator edits a file that has no edits yet. *)
Edit(f) ==
    /\ f \notin tree
    /\ edits < MaxEdits /\ edits' = edits + 1
    /\ tree' = tree \cup {f}
    /\ UNCHANGED <<main, unmerged, stash, tested, pc, locals, left, tries, kills, pins, glitches>>

(* The drift-pin commit of _maybe_push_and_rebase_pin *)
DaemonCommit ==
    /\ ~ unmerged
    /\ pins < MaxPins /\ pins' = pins + 1
    /\ main' = Append(main, <<Daemon, pins + 1>>)
    /\ UNCHANGED <<tree, unmerged, stash, tested, pc, locals, left, tries, edits, kills, glitches>>

Init ==
    /\ main = <<>> /\ tree = {} /\ unmerged = FALSE /\ stash = <<>>
    /\ tested = {}
    /\ pc = [w \in Workers |-> "idle"]
    /\ staged = [w \in Workers |-> <<>>]
    /\ pre = [w \in Workers |-> <<>>]
    /\ merged = [w \in Workers |-> FALSE]
    /\ owes = [w \in Workers |-> FALSE]
    /\ left = 0
    /\ tries = [w \in Workers |-> 0]
    /\ edits = 0 /\ kills = 0 /\ pins = 0 /\ glitches = 0

Land(w) ==
    \/ Stage(w) \/ NoDiff(w) \/ Verify(w) \/ Refuse(w)
    \/ Status(w) \/ Push(w) \/ PushFails(w) \/ RevParse(w)
    \/ FastForward(w) \/ MergeFails(w)
    \/ Pop(w) \/ PopConflicts(w) \/ PopFails(w)
    \/ ResetHead(w) \/ ResetFails(w) \/ Restore(w)
    \/ Drop(w) \/ DropFails(w) \/ Tidy(w)

Next ==
    \/ \E w \in Workers : Land(w) \/ Kill(w)
    \/ \E f \in Files : Edit(f)
    \/ DaemonCommit

Spec == Init /\ [][Next]_vars

----------------------------------------------------------------------------
(* Properties *)

Recovering == {"pop", "reset", "restore", "drop"}

(* Every variable stays in its domain, and only who has pushed pops.       *)
TypeOK ==
    /\ main \in Histories /\ tree \subseteq Files /\ unmerged \in BOOLEAN
    /\ stash \in Seq(Entries)
    /\ tested \subseteq Histories
    /\ pc \in [Workers -> States]
    /\ staged \in [Workers -> Histories] /\ pre \in [Workers -> Histories]
    /\ merged \in [Workers -> BOOLEAN] /\ owes \in [Workers -> BOOLEAN]
    /\ left \in Nat
    /\ tries \in [Workers -> Nat]
    /\ edits \in Nat /\ kills \in Nat /\ pins \in Nat /\ glitches \in Nat
    /\ \A w \in Workers : pc[w] \in Recovering => owes[w]

(* The stash stack is shared and pop and drop name no entry, and still     *)
(* every push is answered once: the stack holds one entry per worker that  *)
(* has yet to pop and per recovery that was given up.  So no pop finds the *)
(* stack empty, "NO orphaned stash" is left by a recovery that works, and  *)
(* one that fails preserves an entry (merge_staging_to_parent and          *)
(* tests/integration/test_phase_m_merge_reliability.py).                   *)
StashAccounted == Len(stash) = Cardinality({w \in Workers : owes[w]}) + left

(* A conflicted index, in which nothing can be stashed or merged, is being *)
(* recovered by someone unless a recovery has died or failed               *)
(* (merge_staging_to_parent, the conflict branch of the finally block).    *)
UnmergedIsOwned ==
    unmerged => left > 0 \/ \E w \in Workers : pc[w] \in {"reset", "restore"}

(* What lands is what was verified: the branch moves to a history that a   *)
(* verification command has passed on as a whole, though it was staged     *)
(* before others landed (_auto_commit_accepted, merge_staging_to_parent).  *)
LandsVerified ==
    [][main' # main =>
         \/ main' \in tested
         \/ main' = Append(main, <<Daemon, pins'>>)
         \/ \E w \in Workers : pc[w] = "restore" /\ main' = pre[w]]_vars

(* A task lands again only for a worker that was killed or a recovery that *)
(* was given up.  Nothing keeps a task whose commit is on the branch from  *)
(* being staged and committed once more; that it is not done twice rests   *)
(* on every way through merge_staging_to_parent that keeps the merge,      *)
(* whatever its stash commands meet, ending in _mark_processed             *)
(* (_auto_commit_accepted), while peers reset the branch to older commits. *)
RelandingsAccounted ==
    \A w \in Workers : Cardinality(CommitsOf(w, main)) <= 1 + kills + left

(* No landing is lost without a trace: a closed task is on the branch, or  *)
(* some recovery was given up and an entry is still in the stash for the   *)
(* operator to find ("must be PRESERVED (NOT dropped) on a failed reset",  *)
(* tests/integration/test_phase_m_merge_reliability.py:261), although the  *)
(* pops and drops of peers take whatever is on top.                        *)
LossIsWitnessed ==
    (\A w \in Workers : pc[w] = "done" => Landed(w)) \/ stash # <<>>

(* The branch, seen without stash, tree and processes *)
Branch == INSTANCE CheckedOutBranch WITH
    history <- main, noted <- pre,
    Attempts <- [w \in Workers |-> 1 .. MaxTries[w]], Pins <- 1 .. MaxPins

(* The git commands of several workers, of the operator and of the daemon, *)
(* interleaved and failing, move the branch as CheckedOutBranch does:      *)
(* tested histories that extend it, pins, and what a failed recovery noted *)
(* before its merge (_auto_commit_accepted, merge_staging_to_parent).      *)
ImplementsBranch == Branch!Spec

(* "accepted" is "a task LANDED [...] The authoritative "done" signal"     *)
(* (README.md:361), and a failed merge "must NOT mark it processed/        *)
(* (silent loss)" (tests/integration/test_phase_m_merge_reliability.py):   *)
(* a task closed as merged is on the branch.  It is not, when a peer's     *)
(* failed recovery resets the branch to what it was before                 *)
(* (merge_staging_to_parent).                                              *)
ClosedIsLanded == \A w \in Workers : pc[w] = "done" => Landed(w)
=============================================================================
