--------------------------- MODULE LandingProofs ---------------------------
(***************************************************************************)
(* Safety of Landing for any set of workers, files and bounds.             *)
(***************************************************************************)
EXTENDS Landing, FiniteSetTheorems, SequenceTheorems, TLAPS

Owing == {w \in Workers : owes[w]}

(* Whose commit is past its verification has it on record. *)
PastTests ==
    \A w \in Workers : pc[w] \in {"verified", "push", "head", "merge"} => staged[w] \in tested

(* Who owes is between its push and the end of its recovery. *)
OwersPending == \A w \in Workers : owes[w] => pc[w] \in Recovering \cup {"head", "merge"}

LandingInv == TypeOK /\ OwersPending /\ StashAccounted /\ UnmergedIsOwned /\ PastTests

----------------------------------------------------------------------------
(* Types *)

LEMMA TypeInit == Init => TypeOK
<1> SUFFICES ASSUME Init PROVE TypeOK
  OBVIOUS
<1>1. <<>> \in Histories /\ <<>> \in Seq(Entries)
  BY EmptySeq DEF Histories
<1> QED
  BY <1>1 DEF Init, TypeOK, States, Recovering

(* What the stash commands do to a stack of entries *)
LEMMA StackOps ==
  ASSUME stash \in Seq(Entries)
  PROVE  /\ \A e \in Entries : /\ <<e>> \o stash \in Seq(Entries)
                               /\ Len(<<e>> \o stash) = Len(stash) + 1
         /\ stash # <<>> => /\ Head(stash) \in Entries
                            /\ Tail(stash) \in Seq(Entries)
                            /\ Len(Tail(stash)) = Len(stash) - 1
         /\ Len(stash) \in Nat
         /\ Len(stash) > 0 => stash # <<>>
<1>1. ASSUME NEW e \in Entries
      PROVE  /\ <<e>> \o stash \in Seq(Entries)
             /\ Len(<<e>> \o stash) = Len(stash) + 1
  <2>1. <<e>> \in Seq(Entries) /\ Len(<<e>>) = 1
    OBVIOUS
  <2>2. <<e>> \o stash \in Seq(Entries)
    BY <2>1, ConcatProperties
  <2>3. Len(<<e>> \o stash) = Len(<<e>>) + Len(stash)
    BY <2>1, ConcatProperties
  <2>4. Len(stash) \in Nat
    BY LenProperties
  <2> QED
    BY <2>1, <2>2, <2>3, <2>4
<1>2. ASSUME stash # <<>>
      PROVE  /\ Head(stash) \in Entries
             /\ Tail(stash) \in Seq(Entries)
             /\ Len(Tail(stash)) = Len(stash) - 1
  BY <1>2, HeadTailProperties
<1> QED
  BY <1>1, <1>2, EmptySeq, LenProperties

(* Appending to a history *)
LEMMA AppendOps ==
  ASSUME NEW h \in Histories, NEW c \in Commits
  PROVE  Append(h, c) \in Histories /\ Extends(Append(h, c), h)
  BY DEF Histories, Extends

(* A step of a worker keeps the types.                                     *)
LEMMA TypeLand ==
  ASSUME TypeOK, NEW w \in Workers, Land(w) \/ Kill(w)
  PROVE  TypeOK'
<1> USE DEF TypeOK, States, Recovering, Goto, Glitch, GiveUpEntry, repo, locals, bounds
<1>1. /\ Append(main, <<w, tries[w] + 1>>) \in Histories
      /\ \A f \in SUBSET Files : [files |-> f, base |-> main] \in Entries
  <2>1. <<w, tries[w] + 1>> \in Commits
    BY DEF Commits
  <2>2. main \in Histories
    OBVIOUS
  <2> QED
    BY <2>1, <2>2, AppendOps DEF Entries
<1>2. CASE Stage(w)
  BY <1>1, <1>2 DEF Stage
<1>3. CASE NoDiff(w) \/ Verify(w) \/ Refuse(w) \/ Status(w) \/ RevParse(w) \/ Tidy(w)
  <2>1. CASE Verify(w)
    BY <2>1 DEF Verify
  <2>2. CASE RevParse(w)
    BY <2>2 DEF RevParse
  <2>3. CASE Refuse(w) \/ Status(w) \/ Tidy(w)
    BY <2>3 DEF Refuse, Status, Tidy
  <2>4. CASE NoDiff(w)
    BY <2>4 DEF NoDiff
  <2> QED
    BY <1>3, <2>1, <2>2, <2>3, <2>4
<1>4. CASE Push(w)
  BY <1>1, <1>4, StackOps DEF Push
<1>5. CASE PushFails(w)
  BY <1>5 DEF PushFails
<1>6. CASE FastForward(w)
  BY <1>6 DEF FastForward, AfterMerge
<1>7. CASE MergeFails(w)
  BY <1>7 DEF MergeFails, AfterMerge
<1>8. CASE Pop(w)
  BY <1>8, StackOps DEF Pop, Poppable, Entries
<1>9. CASE PopConflicts(w)
  BY <1>9, StackOps DEF PopConflicts, Poppable, Entries
<1>10. CASE PopFails(w)
  BY <1>10 DEF PopFails
<1>11. CASE ResetHead(w)
  BY <1>11 DEF ResetHead
<1>12. CASE ResetFails(w)
  BY <1>12 DEF ResetFails
<1>13. CASE Restore(w)
  <2>1. /\ pc' = [pc EXCEPT ![w] = "tidy"]
        /\ owes' = [owes EXCEPT ![w] = FALSE]
        /\ merged' = [merged EXCEPT ![w] = FALSE]
        /\ left' = left + 1
        /\ UNCHANGED <<tested, staged, pre, stash>>
    BY <1>13 DEF Restore
  <2>2. /\ main' \in Histories /\ tree' \subseteq Files /\ unmerged' \in BOOLEAN
    BY <1>13 DEF Restore
  <2>3. /\ tries' \in [Workers -> Nat]
        /\ edits' \in Nat /\ kills' \in Nat /\ pins' \in Nat /\ glitches' \in Nat
    BY <1>13 DEF Restore
  <2>4. (\A v \in Workers : pc[v] \in Recovering => owes[v])'
    BY <2>1
  <2>5. /\ pc' \in [Workers -> States] /\ owes' \in [Workers -> BOOLEAN]
        /\ merged' \in [Workers -> BOOLEAN] /\ left' \in Nat
        /\ stash' \in Seq(Entries) /\ tested' \subseteq Histories
        /\ staged' \in [Workers -> Histories] /\ pre' \in [Workers -> Histories]
    BY <2>1
  <2> QED
    BY <2>2, <2>3, <2>4, <2>5
<1>14. CASE Drop(w)
  BY <1>14, StackOps DEF Drop
<1>15. CASE DropFails(w)
  BY <1>15 DEF DropFails
<1>16. CASE Kill(w)
  BY <1>16 DEF Kill
<1> QED
  BY <1>2, <1>3, <1>4, <1>5, <1>6, <1>7, <1>8, <1>9, <1>10, <1>11, <1>12, <1>13,
     <1>14, <1>15, <1>16 DEF Land

LEMMA TypeStep == TypeOK /\ [Next]_vars => TypeOK'
<1> SUFFICES ASSUME TypeOK, [Next]_vars PROVE TypeOK'
  OBVIOUS
<1>1. ASSUME NEW w \in Workers, Land(w) \/ Kill(w) PROVE TypeOK'
  BY <1>1, TypeLand
<1>2. ASSUME NEW f \in Files, Edit(f) PROVE TypeOK'
  BY <1>2 DEF TypeOK, Edit, locals
<1>3. CASE DaemonCommit
  <2>1. pins \in Nat /\ main \in Histories
    BY DEF TypeOK
  <2>2. <<Daemon, pins + 1>> \in Commits
    BY <2>1 DEF Commits
  <2>3. main' \in Histories
    BY <1>3, <2>1, <2>2, AppendOps DEF DaemonCommit
  <2> QED
    BY <1>3, <2>1, <2>3 DEF TypeOK, DaemonCommit, locals
<1>4. CASE UNCHANGED vars
  BY <1>4 DEF TypeOK, vars, repo, locals, bounds
<1> QED
  BY <1>1, <1>2, <1>3, <1>4 DEF Next

(* Every variable stays in its domain, and only who has pushed pops.       *)
THEOREM LandingTypeCorrect == Spec => []TypeOK
  BY TypeInit, TypeStep, PTL DEF Spec

----------------------------------------------------------------------------
(* Counting the stash *)

LEMMA OwingCounts ==
  ASSUME TypeOK, NEW w \in Workers
  PROVE  /\ Cardinality(Owing) \in Nat
         /\ owes' = [owes EXCEPT ![w] = TRUE] /\ ~ owes[w]
              => Cardinality(Owing') = Cardinality(Owing) + 1
         /\ owes' = [owes EXCEPT ![w] = FALSE] /\ owes[w]
              => Cardinality(Owing') = Cardinality(Owing) - 1
         /\ owes' = [owes EXCEPT ![w] = FALSE] /\ ~ owes[w]
              => Owing' = Owing
<1>1. IsFiniteSet(Owing)
  BY WorkersAssumption, FS_Subset DEF Owing
<1>2. Cardinality(Owing) \in Nat
  BY <1>1, FS_CardinalityType
<1>3. ASSUME owes' = [owes EXCEPT ![w] = TRUE], ~ owes[w]
      PROVE  Cardinality(Owing') = Cardinality(Owing) + 1
  <2>1. Owing' = Owing \cup {w} /\ w \notin Owing
    BY <1>3 DEF Owing, TypeOK
  <2> QED
    BY <1>1, <2>1, FS_AddElement
<1>4. ASSUME owes' = [owes EXCEPT ![w] = FALSE], owes[w]
      PROVE  Cardinality(Owing') = Cardinality(Owing) - 1
  <2>1. Owing' = Owing \ {w} /\ w \in Owing
    BY <1>4 DEF Owing, TypeOK
  <2> QED
    BY <1>1, <2>1, FS_RemoveElement
<1>5. ASSUME owes' = [owes EXCEPT ![w] = FALSE], ~ owes[w]
      PROVE  Owing' = Owing
  BY <1>5 DEF Owing, TypeOK
<1> QED
  BY <1>2, <1>3, <1>4, <1>5

LEMMA OwersStep ==
  ASSUME TypeOK, OwersPending, NEW w \in Workers, Land(w) \/ Kill(w)
  PROVE  OwersPending'
<1> USE DEF TypeOK, OwersPending, Recovering, Goto, locals
<1>1. \A v \in Workers \ {w} : pc'[v] = pc[v] /\ owes'[v] = owes[v]
  BY DEF Land, Stage, NoDiff, Verify, Refuse, Status, Push, PushFails, RevParse, FastForward,
         MergeFails, Pop, PopConflicts, PopFails, ResetHead, ResetFails, Restore, Drop,
         DropFails, Tidy, Kill, GiveUpEntry
<1>2. owes'[w] => pc'[w] \in Recovering \cup {"head", "merge"}
  BY DEF Land, Stage, NoDiff, Verify, Refuse, Status, Push, PushFails, RevParse, FastForward,
         MergeFails, AfterMerge, Pop, PopConflicts, PopFails, ResetHead, ResetFails,
         Restore, Drop, DropFails, Tidy, Kill, GiveUpEntry
<1> QED
  BY <1>1, <1>2

(* The stack, the owing workers and the abandoned entries move together.   *)
LEMMA StashStep ==
  ASSUME TypeOK, OwersPending, StashAccounted, NEW w \in Workers, Land(w) \/ Kill(w)
  PROVE  StashAccounted'
<1> USE DEF StashAccounted
<1> DEFINE n == Cardinality(Owing)
<1>1. n \in Nat /\ left \in Nat /\ Len(stash) = n + left
  BY OwingCounts DEF TypeOK, Owing
<1>2. StashAccounted' = (Len(stash') = Cardinality(Owing') + left')
  BY DEF Owing
<1>3. CASE Push(w) /\ tree # {}
  <2>1. ~ owes[w]
    BY <1>3 DEF Push, OwersPending, Recovering
  <2>2. [files |-> tree, base |-> main] \in Entries
    BY DEF TypeOK, Entries
  <2>3. Len(stash') = Len(stash) + 1
    BY <1>3, <2>2, StackOps DEF Push, TypeOK
  <2>4. Cardinality(Owing') = n + 1
    BY <1>3, <2>1, OwingCounts DEF Push
  <2> QED
    BY <1>1, <1>2, <1>3, <2>3, <2>4 DEF Push
<1>4. CASE Pop(w) \/ Drop(w)
  <2>1. owes[w] /\ stash # <<>>
    BY <1>4 DEF Pop, Drop, Poppable, TypeOK, Recovering
  <2>2. Len(stash') = Len(stash) - 1
    BY <1>4, <2>1, StackOps DEF Pop, Drop, TypeOK
  <2>3. Cardinality(Owing') = n - 1
    BY <1>4, <2>1, OwingCounts DEF Pop, Drop
  <2> QED
    BY <1>1, <1>2, <1>4, <2>2, <2>3 DEF Pop, Drop
<1>5. CASE Restore(w) \/ DropFails(w)
  <2>1. owes[w]
    BY <1>5 DEF Restore, DropFails, TypeOK, Recovering
  <2>2. stash' = stash /\ left' = left + 1 /\ owes' = [owes EXCEPT ![w] = FALSE]
    BY <1>5 DEF Restore, DropFails, GiveUpEntry, repo
  <2>3. Cardinality(Owing') = n - 1
    BY <2>1, <2>2, OwingCounts
  <2> QED
    BY <1>1, <1>2, <2>2, <2>3
<1>6. CASE Kill(w)
  <2>1. /\ stash' = stash /\ owes' = [owes EXCEPT ![w] = FALSE]
        /\ left' = IF owes[w] THEN left + 1 ELSE left
    BY <1>6 DEF Kill, repo
  <2>2. CASE owes[w]
    <3>1. Cardinality(Owing') = n - 1
      BY <2>1, <2>2, OwingCounts
    <3> QED
      BY <1>1, <1>2, <2>1, <2>2, <3>1
  <2>3. CASE ~ owes[w]
    <3>1. Cardinality(Owing') = n
      BY <2>1, <2>3, OwingCounts
    <3> QED
      BY <1>1, <1>2, <2>1, <2>3, <3>1
  <2> QED
    BY <2>2, <2>3
<1>7. ASSUME UNCHANGED <<stash, owes, left>> PROVE StashAccounted'
  BY <1>7
<1>8. ~ (\/ (Push(w) /\ tree # {}) \/ Pop(w) \/ Drop(w) \/ Restore(w) \/ DropFails(w)
         \/ Kill(w)) => UNCHANGED <<stash, owes, left>>
  BY DEF Land, Stage, NoDiff, Verify, Refuse, Status, Push, PushFails, RevParse, FastForward,
         MergeFails, PopConflicts, PopFails, ResetHead, ResetFails, Tidy, repo, locals
<1> QED
  BY <1>3, <1>4, <1>5, <1>6, <1>7, <1>8

----------------------------------------------------------------------------
(* Who recovers, and what was tested *)

LEMMA UnmergedStep ==
  ASSUME TypeOK, UnmergedIsOwned, NEW w \in Workers, Land(w) \/ Kill(w)
  PROVE  UnmergedIsOwned'
<1> USE DEF TypeOK, UnmergedIsOwned, Goto
<1>1. CASE PopConflicts(w)
  BY <1>1 DEF PopConflicts
<1>2. CASE ResetHead(w)
  BY <1>2 DEF ResetHead
<1>3. CASE ResetFails(w)
  BY <1>3 DEF ResetFails, repo
<1>4. CASE Restore(w)
  <2>1. left' = left + 1 /\ left \in Nat
    BY <1>4 DEF Restore, GiveUpEntry
  <2> QED
    BY <2>1
<1>5. CASE Kill(w)
  <2>1. /\ unmerged' = unmerged /\ pc' = [pc EXCEPT ![w] = "failed"]
        /\ left' = IF owes[w] THEN left + 1 ELSE left
    BY <1>5 DEF Kill, repo
  <2>2. CASE pc[w] \in {"reset", "restore"}
    BY <2>1, <2>2 DEF Recovering
  <2>3. CASE pc[w] \notin {"reset", "restore"}
    BY <2>1, <2>3
  <2> QED
    BY <2>2, <2>3
<1>6. CASE DropFails(w)
  <2>1. left' = left + 1 /\ left \in Nat
    BY <1>6 DEF DropFails, GiveUpEntry
  <2> QED
    BY <2>1
<1>7. ASSUME UNCHANGED <<unmerged, left>>, pc[w] \notin {"reset", "restore"},
             \A v \in Workers \ {w} : pc'[v] = pc[v]
      PROVE  UnmergedIsOwned'
  BY <1>7
<1>8. ~ (PopConflicts(w) \/ ResetHead(w) \/ ResetFails(w) \/ Restore(w) \/ Kill(w)
         \/ DropFails(w))
      => /\ UNCHANGED <<unmerged, left>> /\ pc[w] \notin {"reset", "restore"}
         /\ \A v \in Workers \ {w} : pc'[v] = pc[v]
  BY DEF Land, Stage, NoDiff, Verify, Refuse, Status, Push, PushFails, RevParse, FastForward,
         MergeFails, Pop, PopFails, Drop, Tidy, repo
<1> QED
  BY <1>1, <1>2, <1>3, <1>4, <1>5, <1>6, <1>7, <1>8

LEMMA TestsStep ==
  ASSUME TypeOK, PastTests, NEW w \in Workers, Land(w) \/ Kill(w)
  PROVE  PastTests'
<1> USE DEF TypeOK, PastTests, Goto, locals
<1>1. CASE Stage(w) \/ Verify(w)
  BY <1>1 DEF Stage, Verify
<1>2. CASE \/ NoDiff(w) \/ Refuse(w) \/ Status(w) \/ Push(w) \/ PushFails(w)
           \/ RevParse(w)
  BY <1>2 DEF NoDiff, Refuse, Status, Push, PushFails, RevParse
<1>3. CASE FastForward(w) \/ MergeFails(w) \/ Kill(w)
  BY <1>3 DEF FastForward, MergeFails, AfterMerge, Kill
<1>4. CASE \/ Pop(w) \/ PopConflicts(w) \/ PopFails(w) \/ ResetHead(w) \/ ResetFails(w)
           \/ Restore(w) \/ Drop(w) \/ DropFails(w) \/ Tidy(w)
  BY <1>4 DEF Pop, PopConflicts, PopFails, ResetHead, ResetFails, Restore, Drop, DropFails,
              Tidy
<1> QED
  BY <1>1, <1>2, <1>3, <1>4 DEF Land

----------------------------------------------------------------------------
(* The theorems *)

LEMMA InvInit == Init => LandingInv
<1> SUFFICES ASSUME Init PROVE LandingInv
  OBVIOUS
<1>1. TypeOK
  BY TypeInit
<1>2. StashAccounted
  <2>1. {w \in Workers : owes[w]} = {}
    BY DEF Init
  <2>2. Len(stash) = 0 /\ left = 0
    BY EmptySeq DEF Init
  <2> QED
    BY <2>1, <2>2, FS_EmptySet DEF StashAccounted
<1>3. OwersPending /\ UnmergedIsOwned /\ PastTests
  BY DEF Init, OwersPending, UnmergedIsOwned, PastTests
<1> QED
  BY <1>1, <1>2, <1>3 DEF LandingInv

LEMMA InvStep == LandingInv /\ [Next]_vars => LandingInv'
<1> SUFFICES ASSUME LandingInv, [Next]_vars PROVE LandingInv'
  OBVIOUS
<1>1. TypeOK'
  BY TypeStep DEF LandingInv
<1>2. ASSUME NEW w \in Workers, Land(w) \/ Kill(w)
      PROVE  LandingInv'
  BY <1>1, <1>2, OwersStep, StashStep, UnmergedStep, TestsStep DEF LandingInv
<1>3. ASSUME UNCHANGED <<unmerged, stash, tested, pc, staged, owes, left>>
      PROVE  LandingInv'
  BY <1>1, <1>3 DEF LandingInv, OwersPending, StashAccounted, UnmergedIsOwned, PastTests
<1>4. (\E f \in Files : Edit(f)) \/ DaemonCommit \/ UNCHANGED vars
        => UNCHANGED <<unmerged, stash, tested, pc, staged, owes, left>>
  BY DEF Edit, DaemonCommit, vars, repo, locals
<1> QED
  BY <1>2, <1>3, <1>4 DEF Next

(* The inductive invariant of a landing                                    *)
THEOREM LandingInvariant == Spec => []LandingInv
  BY InvInit, InvStep, PTL DEF Spec

(* No pop meets an empty stack, and none is left behind.                   *)
THEOREM StashIsAccounted == Spec => []StashAccounted
  BY LandingInvariant, PTL DEF LandingInv

(* A conflicted index is somebody's to clean up.                           *)
THEOREM ConflictsAreOwned == Spec => []UnmergedIsOwned
  BY LandingInvariant, PTL DEF LandingInv

(* The only steps that move the branch *)
LEMMA BranchMoves ==
  ASSUME LandingInv, [Next]_vars, main' # main
  PROVE  \/ \E w \in Workers : FastForward(w)
         \/ \E w \in Workers : pc[w] = "restore" /\ main' = pre[w]
         \/ DaemonCommit
<1>1. ASSUME NEW w \in Workers, Land(w) \/ Kill(w)
      PROVE  FastForward(w) \/ (pc[w] = "restore" /\ main' = pre[w])
  BY <1>1 DEF Land, Stage, NoDiff, Verify, Refuse, Status, Push, PushFails, RevParse, MergeFails,
         Pop, PopConflicts, PopFails, ResetHead, ResetFails, Restore, Drop, DropFails,
         Tidy, Kill, repo
<1>2. ~ (\E f \in Files : Edit(f)) /\ ~ UNCHANGED vars
  BY DEF Edit, vars, repo
<1> QED
  BY <1>1, <1>2 DEF Next

(* What lands is a history on which a verification has passed.             *)
THEOREM WhatLandsIsVerified == Spec => LandsVerified
<1>1. LandingInv /\ [Next]_vars
        => [main' # main =>
              \/ main' \in tested
              \/ main' = Append(main, <<Daemon, pins'>>)
              \/ \E w \in Workers : pc[w] = "restore" /\ main' = pre[w]]_vars
  <2> SUFFICES ASSUME LandingInv, [Next]_vars, main' # main
               PROVE  \/ main' \in tested
                      \/ main' = Append(main, <<Daemon, pins'>>)
                      \/ \E w \in Workers : pc[w] = "restore" /\ main' = pre[w]
    OBVIOUS
  <2>1. ASSUME NEW w \in Workers, FastForward(w) PROVE main' \in tested
    BY <2>1 DEF FastForward, LandingInv, PastTests
  <2>2. DaemonCommit => main' = Append(main, <<Daemon, pins'>>)
    BY DEF DaemonCommit
  <2> QED
    BY <2>1, <2>2, BranchMoves
<1> QED
  BY <1>1, LandingInvariant, PTL DEF Spec, LandsVerified

----------------------------------------------------------------------------
(* How often a task lands *)

(* Where an attempt that has merged may still be *)
Kept == Recovering \cup {"tidy", "done"}

(* An attempt that has merged and was neither killed nor taken back *)
Credit(v) == IF merged[v] /\ pc[v] \in Kept THEN 1 ELSE 0

Allowed(v) == kills + left + Credit(v)

Count(v, h) == Cardinality(CommitsOf(v, h))

(* Every history a step can put on the branch has a task as often as it is *)
(* allowed to by then: the branch may be taken back to what some worker    *)
(* noted, or forward to what another has staged, in any order.             *)
CountsAllowed ==
    \A v \in Workers :
        /\ Count(v, main) <= Allowed(v)
        /\ \A u \in Workers : Count(v, pre[u]) <= Allowed(v)
        /\ \A u \in Workers \ {v} : Count(v, staged[u]) <= Allowed(v)
        /\ Count(v, staged[v]) <= kills + left + 1

LEMMA CountType ==
  ASSUME NEW h \in Histories, NEW v
  PROVE  IsFiniteSet(CommitsOf(v, h)) /\ Count(v, h) \in Nat
<1>1. Len(h) \in Nat
  BY LenProperties DEF Histories
<1>2. IsFiniteSet(1 .. Len(h)) /\ CommitsOf(v, h) \subseteq 1 .. Len(h)
  BY <1>1, FS_Interval DEF CommitsOf
<1> QED
  BY <1>2, FS_Subset, FS_CardinalityType DEF Count

LEMMA CountAppend ==
  ASSUME NEW h \in Histories, NEW c \in Commits, NEW v
  PROVE  Count(v, Append(h, c)) = Count(v, h) + IF c[1] = v THEN 1 ELSE 0
<1> DEFINE n == Len(h)
           g == Append(h, c)
<1>1. n \in Nat /\ Len(g) = n + 1 /\ g[n + 1] = c /\ \A i \in 1 .. n : g[i] = h[i]
  BY AppendProperties, LenProperties DEF Histories
<1> HIDE DEF g
<1>2. 1 .. Len(g) = (1 .. n) \cup {n + 1} /\ n + 1 \notin 1 .. n
  BY <1>1
<1>3. CASE c[1] = v
  <2>1. CommitsOf(v, g) = CommitsOf(v, h) \cup {n + 1} /\ n + 1 \notin CommitsOf(v, h)
    BY <1>1, <1>2, <1>3 DEF CommitsOf
  <2>2. Cardinality(CommitsOf(v, g)) = Cardinality(CommitsOf(v, h)) + 1
    BY <2>1, CountType, FS_AddElement
  <2> QED
    BY <1>3, <2>2 DEF Count, g
<1>4. CASE c[1] # v
  <2>1. CommitsOf(v, g) = CommitsOf(v, h)
    BY <1>1, <1>2, <1>4 DEF CommitsOf
  <2>2. Count(v, h) \in Nat
    BY CountType
  <2> QED
    BY <1>4, <2>1, <2>2 DEF Count, g
<1> QED
  BY <1>3, <1>4

(* A merge that is undone or forgotten is paid for by a kill or by an      *)
(* entry given up, so that what is allowed never shrinks.                  *)
LEMMA AllowedGrows ==
  ASSUME LandingInv, NEW w \in Workers, Land(w) \/ Kill(w), NEW v \in Workers
  PROVE  /\ Allowed(v) \in Int /\ Allowed(v)' \in Int
         /\ Allowed(v) <= Allowed(v)'
         /\ kills + left \in Int /\ kills' + left' \in Int
         /\ kills + left <= kills' + left'
<1> USE DEF Goto, Credit, Kept, Recovering
<1>1. /\ kills \in Nat /\ left \in Nat
      /\ pc \in [Workers -> States] /\ merged \in [Workers -> BOOLEAN]
  BY DEF LandingInv, TypeOK
<1>2. CASE Kill(w)
  <2>1. /\ kills' = kills + 1 /\ (left' = left \/ left' = left + 1)
        /\ merged' = merged
        /\ \A u \in Workers \ {w} : pc'[u] = pc[u]
    BY <1>1, <1>2 DEF Kill
  <2>2. v # w => Credit(v)' = Credit(v)
    BY <2>1
  <2> QED
    BY <1>1, <2>1, <2>2 DEF Allowed
<1>3. CASE Restore(w)
  <2>1. /\ kills' = kills /\ left' = left + 1
        /\ \A u \in Workers \ {w} : pc'[u] = pc[u] /\ merged'[u] = merged[u]
    BY <1>1, <1>3 DEF Restore, GiveUpEntry, Glitch, bounds
  <2>2. v # w => Credit(v)' = Credit(v)
    BY <2>1
  <2> QED
    BY <1>1, <2>1, <2>2 DEF Allowed
<1>4. CASE Stage(w)
  <2>1. /\ kills' = kills /\ left' = left /\ pc[w] \in {"idle", "failed"}
        /\ \A u \in Workers \ {w} : pc'[u] = pc[u] /\ merged'[u] = merged[u]
    BY <1>1, <1>4 DEF Stage
  <2>2. v # w => Credit(v)' = Credit(v)
    BY <2>1
  <2>3. Credit(w) = 0
    BY <2>1
  <2> QED
    BY <1>1, <2>1, <2>2, <2>3 DEF Allowed
<1>5. CASE ~ (Kill(w) \/ Restore(w) \/ Stage(w))
  <2>1. kills' = kills /\ (left' = left \/ left' = left + 1)
    BY <1>5 DEF Land, NoDiff, Verify, Refuse, Status, Push, PushFails, RevParse, FastForward,
           MergeFails, Pop, PopConflicts, PopFails, ResetHead, ResetFails, Drop, DropFails,
           Tidy, GiveUpEntry, Glitch, bounds
  <2>2. /\ \A u \in Workers : merged[u] => merged'[u]
        /\ \A u \in Workers \ {w} : pc'[u] = pc[u]
    BY <1>1, <1>5 DEF Land, NoDiff, Verify, Refuse, Status, Push, PushFails, RevParse,
           FastForward, MergeFails, Pop, PopConflicts, PopFails, ResetHead, ResetFails, Drop,
           DropFails, Tidy, locals
  <2>3. merged[w] /\ pc[w] \in Kept => pc'[w] \in Kept
    BY <1>1, <1>5 DEF Land, NoDiff, Verify, Refuse, Status, Push, PushFails, RevParse,
           FastForward, MergeFails, Pop, PopConflicts, PopFails, ResetHead, ResetFails, Drop,
           DropFails, Tidy
  <2>4. Credit(v) <= Credit(v)'
    BY <2>2, <2>3
  <2> QED
    BY <1>1, <2>1, <2>4 DEF Allowed
<1> QED
  BY <1>2, <1>3, <1>4, <1>5

LEMMA CountsStep ==
  ASSUME LandingInv, CountsAllowed, NEW w \in Workers, Land(w) \/ Kill(w)
  PROVE  CountsAllowed'
<1>1. /\ main \in Histories /\ staged \in [Workers -> Histories]
      /\ pre \in [Workers -> Histories] /\ tries \in [Workers -> Nat]
      /\ pc \in [Workers -> States] /\ merged \in [Workers -> BOOLEAN]
  BY DEF LandingInv, TypeOK
<1> SUFFICES ASSUME NEW v \in Workers
             PROVE  /\ Count(v, main') <= Allowed(v)'
                    /\ \A u \in Workers : Count(v, pre'[u]) <= Allowed(v)'
                    /\ \A u \in Workers \ {v} : Count(v, staged'[u]) <= Allowed(v)'
                    /\ Count(v, staged'[v]) <= kills' + left' + 1
  BY DEF CountsAllowed, Count, CommitsOf
<1>2. /\ Count(v, main) <= Allowed(v)
      /\ \A u \in Workers : Count(v, pre[u]) <= Allowed(v)
      /\ \A u \in Workers \ {v} : Count(v, staged[u]) <= Allowed(v)
      /\ Count(v, staged[v]) <= kills + left + 1
  BY DEF CountsAllowed
<1>3. /\ Count(v, main) \in Nat
      /\ \A u \in Workers : Count(v, pre[u]) \in Nat /\ Count(v, staged[u]) \in Nat
  BY <1>1, CountType
<1>4. /\ Allowed(v) \in Int /\ Allowed(v)' \in Int /\ Allowed(v) <= Allowed(v)'
      /\ kills + left \in Int /\ kills' + left' \in Int
      /\ kills + left <= kills' + left'
  BY AllowedGrows
<1> HIDE DEF Count, Allowed
<1>5. \A h \in {main} \cup {pre[u] : u \in Workers} \cup {staged[u] : u \in Workers \ {v}} :
         Count(v, h) <= Allowed(v)'
  BY <1>2, <1>3, <1>4
<1>6. Count(v, staged[v]) <= kills' + left' + 1
  BY <1>2, <1>3, <1>4
<1>7. CASE Stage(w)
  <2> DEFINE h == Append(main, <<w, tries[w] + 1>>)
  <2>1. <<w, tries[w] + 1>> \in Commits
    BY <1>1 DEF Commits
  <2>2. Count(v, h) = Count(v, main) + IF w = v THEN 1 ELSE 0
    BY <1>1, <2>1, CountAppend
  <2>3. main' = main /\ pre' = pre /\ staged' = [staged EXCEPT ![w] = h]
    BY <1>7 DEF Stage, repo
  <2> HIDE DEF h
  <2>4. CASE w = v
    <3>1. pc[v] \notin Kept
      BY <1>7, <2>4 DEF Stage, Kept, Recovering
    <3>2. Allowed(v) = kills + left
      BY <1>4, <3>1 DEF Allowed, Credit
    <3>3. Count(v, h) <= kills' + left' + 1
      BY <1>2, <1>3, <1>4, <2>2, <2>4, <3>2
    <3> QED
      BY <1>1, <1>5, <2>3, <2>4, <3>3
  <2>5. CASE w # v
    <3>1. Count(v, h) <= Allowed(v)'
      BY <1>3, <1>5, <2>2, <2>5
    <3> QED
      BY <1>1, <1>5, <1>6, <2>3, <2>5, <3>1
  <2> QED
    BY <2>4, <2>5
<1>8. CASE FastForward(w)
  <2>1. main' = staged[w] /\ pre' = pre /\ staged' = staged
    BY <1>8 DEF FastForward
  <2>2. Count(v, staged[w]) <= Allowed(v)'
    <3>1. CASE w # v
      BY <1>5, <3>1
    <3>2. CASE w = v
      <4>1. merged'[v] /\ pc'[v] \in Kept
        BY <1>1, <1>8, <3>2 DEF FastForward, AfterMerge, Goto, Kept, Recovering
      <4>2. Allowed(v)' = kills' + left' + 1
        BY <4>1 DEF Allowed, Credit
      <4> QED
        BY <1>6, <3>2, <4>2
    <3> QED
      BY <3>1, <3>2
  <2> QED
    BY <1>5, <1>6, <2>1, <2>2
<1>9. CASE RevParse(w)
  <2>1. main' = main /\ staged' = staged /\ pre' = [pre EXCEPT ![w] = main]
    BY <1>9 DEF RevParse, repo
  <2> QED
    BY <1>1, <1>5, <1>6, <2>1
<1>10. CASE Restore(w)
  <2>1. (main' = pre[w] \/ main' = main) /\ staged' = staged /\ pre' = pre
    BY <1>10 DEF Restore, repo
  <2> QED
    BY <1>5, <1>6, <2>1
<1>11. CASE UNCHANGED <<main, staged, pre>>
  BY <1>5, <1>6, <1>11
<1>12. \/ Stage(w) \/ FastForward(w) \/ RevParse(w) \/ Restore(w)
       \/ UNCHANGED <<main, staged, pre>>
  BY DEF Land, NoDiff, Verify, Refuse, Status, Push, PushFails, MergeFails, Pop, PopConflicts,
         PopFails, ResetHead, ResetFails, Drop, DropFails, Tidy, Kill, repo, locals
<1> QED
  BY <1>7, <1>8, <1>9, <1>10, <1>11, <1>12

LEMMA CountsPin ==
  ASSUME LandingInv, CountsAllowed, DaemonCommit
  PROVE  CountsAllowed'
<1>1. main \in Histories /\ <<Daemon, pins + 1>> \in Commits
  BY DEF LandingInv, TypeOK, Commits
<1>2. /\ main' = Append(main, <<Daemon, pins + 1>>)
      /\ UNCHANGED <<staged, pre, pc, merged, kills, left>>
  BY DEF DaemonCommit, locals
<1>3. ASSUME NEW v \in Workers PROVE Count(v, main') = Count(v, main) /\ Count(v, main) \in Nat
  <2>1. v # Daemon
    BY WorkersAssumption
  <2>2. Count(v, Append(main, <<Daemon, pins + 1>>)) = Count(v, main) + 0
    BY <1>1, <2>1, CountAppend
  <2>3. Count(v, main) \in Nat
    BY <1>1, CountType
  <2> QED
    BY <1>2, <2>2, <2>3
<1>4. \A v \in Workers : Allowed(v)' = Allowed(v)
  BY <1>2 DEF Allowed, Credit
<1> QED
  BY <1>2, <1>3, <1>4 DEF CountsAllowed, Count, CommitsOf

(* A task has two commits on the branch only if a worker was killed or a   *)
(* recovery was given up, three only if that happened twice, and so on,    *)
(* whatever is retried, taken back by peers or interleaved.                *)
THEOREM RelandingsAreAccounted == Spec => []RelandingsAccounted
<1>1. Init => CountsAllowed
  <2> SUFFICES ASSUME Init PROVE CountsAllowed
    OBVIOUS
  <2>1. \A v : CommitsOf(v, <<>>) = {}
    BY EmptySeq DEF CommitsOf
  <2>2. \A v : Count(v, <<>>) = 0
    BY <2>1, FS_EmptySet DEF Count
  <2>3. \A v \in Workers : Allowed(v) = 0 /\ kills + left + 1 = 1
    BY DEF Init, Allowed, Credit
  <2> QED
    BY <2>2, <2>3 DEF Init, CountsAllowed
<1>2. LandingInv /\ CountsAllowed /\ [Next]_vars => CountsAllowed'
  <2> SUFFICES ASSUME LandingInv, CountsAllowed, [Next]_vars PROVE CountsAllowed'
    OBVIOUS
  <2>1. ASSUME UNCHANGED <<main, staged, pre, pc, merged, kills, left>> PROVE CountsAllowed'
    <3>1. \A v \in Workers : Allowed(v)' = Allowed(v)
      BY <2>1 DEF Allowed, Credit
    <3> QED
      BY <2>1, <3>1 DEF CountsAllowed, Count, CommitsOf
  <2>2. (\E f \in Files : Edit(f)) \/ UNCHANGED vars
          => UNCHANGED <<main, staged, pre, pc, merged, kills, left>>
    BY DEF Edit, vars, repo, locals, bounds
  <2> QED
    BY <2>1, <2>2, CountsStep, CountsPin DEF Next
<1>3. LandingInv /\ CountsAllowed => RelandingsAccounted
  <2> SUFFICES ASSUME LandingInv, CountsAllowed, NEW v \in Workers
               PROVE  Cardinality(CommitsOf(v, main)) <= 1 + kills + left
    BY DEF RelandingsAccounted
  <2>1. kills \in Nat /\ left \in Nat /\ Count(v, main) \in Nat
    BY CountType DEF LandingInv, TypeOK
  <2>2. Count(v, main) <= kills + left + Credit(v)
    BY DEF CountsAllowed, Allowed
  <2>3. Credit(v) \in {0, 1}
    BY DEF Credit
  <2> QED
    BY <2>1, <2>2, <2>3 DEF Count
<1> QED
  BY <1>1, <1>2, <1>3, LandingInvariant, PTL DEF Spec

----------------------------------------------------------------------------
(* What is lost leaves an entry *)

(* Until its attempt fails, what a worker has staged holds its commit.     *)
StagedOwn ==
    \A w \in Workers : pc[w] \in {"staged", "verified", "push", "head", "merge"}
                          => \E c \in In(staged[w]) : c[1] = w

ClosedMerged == \A w \in Workers : pc[w] = "done" => merged[w]

(* Who has merged stays on the branch as long as no recovery is given up.  *)
MergedStays == left = 0 => \A w \in Workers : merged[w] => Landed(w)

LossInv == StagedOwn /\ ClosedMerged /\ MergedStays

(* The commits of a history are among those of one that extends it.        *)
LEMMA ExtendsKeeps ==
  ASSUME NEW h \in Histories, NEW g \in Histories, Extends(g, h)
  PROVE  In(h) \subseteq In(g)
<1>1. Len(h) \in Nat /\ Len(g) \in Nat
  BY LenProperties DEF Histories
<1>2. \A i \in 1 .. Len(h) : i \in 1 .. Len(g) /\ g[i] = h[i]
  BY <1>1 DEF Extends
<1> QED
  BY <1>2 DEF In

LEMMA StagedOwnStep ==
  ASSUME LandingInv, StagedOwn, NEW w \in Workers, Land(w) \/ Kill(w)
  PROVE  StagedOwn'
<1> USE DEF StagedOwn, Goto
<1>1. pc \in [Workers -> States] /\ staged \in [Workers -> Histories]
  BY DEF LandingInv, TypeOK
<1>2. CASE Stage(w)
  <2>1. main \in Histories /\ <<w, tries[w] + 1>> \in Commits
    BY DEF LandingInv, TypeOK, Commits
  <2>2. <<w, tries[w] + 1>> \in In(Append(main, <<w, tries[w] + 1>>))
    <3> DEFINE h == Append(main, <<w, tries[w] + 1>>)
    <3>1. Len(main) \in Nat /\ Len(h) = Len(main) + 1 /\ h[Len(main) + 1] = <<w, tries[w] + 1>>
      BY <2>1, AppendProperties, LenProperties DEF Histories
    <3>2. Len(main) + 1 \in 1 .. Len(h)
      BY <3>1
    <3> HIDE DEF h
    <3> QED
      BY <3>1, <3>2 DEF In, h
  <2>3. \E c \in In(staged'[w]) : c[1] = w
    BY <1>1, <1>2, <2>2 DEF Stage
  <2>4. \A v \in Workers \ {w} : staged'[v] = staged[v] /\ pc'[v] = pc[v]
    BY <1>1, <1>2 DEF Stage
  <2> QED
    BY <2>3, <2>4 DEF In
<1>3. ~ Stage(w) => staged' = staged
  BY DEF Land, NoDiff, Verify, Refuse, Status, Push, PushFails, RevParse, FastForward, MergeFails,
         Pop, PopConflicts, PopFails, ResetHead, ResetFails, Restore, Drop, DropFails,
         Tidy, Kill, locals
<1>4. CASE \/ NoDiff(w) \/ Verify(w) \/ Refuse(w) \/ Status(w) \/ Push(w) \/ PushFails(w)
           \/ RevParse(w) \/ FastForward(w) \/ MergeFails(w)
  <2>1. staged' = staged
    BY <1>4 DEF NoDiff, Verify, Refuse, Status, Push, PushFails, RevParse, FastForward, MergeFails,
                locals
  <2>2. \A v \in Workers : pc'[v] \in {"staged", "verified", "push", "head", "merge"}
           => pc[v] \in {"staged", "verified", "push", "head", "merge"}
    BY <1>1, <1>4 DEF NoDiff, Verify, Refuse, Status, Push, PushFails, RevParse,
                      FastForward, MergeFails, AfterMerge
  <2> QED
    BY <2>1, <2>2 DEF In
<1>5. CASE \/ Pop(w) \/ PopConflicts(w) \/ PopFails(w) \/ ResetHead(w) \/ ResetFails(w)
           \/ Restore(w) \/ Drop(w) \/ DropFails(w) \/ Tidy(w) \/ Kill(w)
  <2>1. staged' = staged
    BY <1>5 DEF Pop, PopConflicts, PopFails, ResetHead, ResetFails, Restore, Drop, DropFails,
                Tidy, Kill, locals
  <2>2. \A v \in Workers : pc'[v] \in {"staged", "verified", "push", "head", "merge"}
           => pc[v] \in {"staged", "verified", "push", "head", "merge"}
    BY <1>1, <1>5 DEF Pop, PopConflicts, PopFails, ResetHead, ResetFails, Restore, Drop,
                      DropFails, Tidy, Kill
  <2> QED
    BY <2>1, <2>2 DEF In
<1> QED
  BY <1>2, <1>4, <1>5 DEF Land

LEMMA ClosedMergedStep ==
  ASSUME LandingInv, ClosedMerged, NEW w \in Workers, Land(w) \/ Kill(w)
  PROVE  ClosedMerged'
<1> USE DEF ClosedMerged, Goto
<1>1. pc \in [Workers -> States] /\ merged \in [Workers -> BOOLEAN]
  BY DEF LandingInv, TypeOK
<1>2. CASE Tidy(w)
  BY <1>1, <1>2 DEF Tidy, locals
<1>3. CASE Stage(w) \/ FastForward(w) \/ Restore(w)
  BY <1>1, <1>3 DEF Stage, FastForward, AfterMerge, Restore
<1>4. CASE \/ NoDiff(w) \/ Verify(w) \/ Refuse(w) \/ Status(w) \/ Push(w) \/ PushFails(w)
           \/ RevParse(w) \/ MergeFails(w)
  BY <1>1, <1>4 DEF NoDiff, Verify, Refuse, Status, Push, PushFails, RevParse, MergeFails, AfterMerge,
                    locals
<1>5. CASE \/ Pop(w) \/ PopConflicts(w) \/ PopFails(w) \/ ResetHead(w) \/ ResetFails(w)
           \/ Drop(w) \/ DropFails(w) \/ Kill(w)
  BY <1>1, <1>5 DEF Pop, PopConflicts, PopFails, ResetHead, ResetFails, Drop, DropFails,
                    Kill, locals
<1> QED
  BY <1>2, <1>3, <1>4, <1>5 DEF Land

LEMMA MergedStaysStep ==
  ASSUME LandingInv, StagedOwn, MergedStays, NEW w \in Workers, Land(w) \/ Kill(w)
  PROVE  MergedStays'
<1>1. merged \in [Workers -> BOOLEAN] /\ left \in Nat
  BY DEF LandingInv, TypeOK
<1>2. CASE FastForward(w)
  <2>1. /\ main \in Histories /\ staged[w] \in Histories /\ Extends(staged[w], main)
        /\ main' = staged[w] /\ left' = left
        /\ merged' = [merged EXCEPT ![w] = TRUE]
    BY <1>2 DEF FastForward, LandingInv, TypeOK
  <2>2. In(main) \subseteq In(main')
    BY <2>1, ExtendsKeeps
  <2>3. Landed(w)'
    BY <1>2, <2>1 DEF FastForward, StagedOwn, Landed, In
  <2>4. \A v \in Workers : Landed(v) => Landed(v)'
    BY <2>2 DEF Landed, In
  <2> QED
    BY <1>1, <2>1, <2>3, <2>4 DEF MergedStays
<1>3. CASE Restore(w)
  <2>1. left' = left + 1
    BY <1>3 DEF Restore, GiveUpEntry
  <2> QED
    BY <1>1, <2>1 DEF MergedStays
<1>4. CASE Stage(w)
  BY <1>1, <1>4 DEF Stage, MergedStays, Landed, In, repo
<1>5. ~ (FastForward(w) \/ Restore(w) \/ Stage(w))
        => main' = main /\ merged' = merged /\ (left' = left \/ left' = left + 1)
  BY DEF Land, NoDiff, Verify, Refuse, Status, Push, PushFails, RevParse, MergeFails, Pop,
         PopConflicts, PopFails, ResetHead, ResetFails, Drop, DropFails, Tidy, Kill,
         GiveUpEntry, repo, locals
<1>6. ASSUME main' = main, merged' = merged, left' = left \/ left' = left + 1
      PROVE  MergedStays'
  BY <1>1, <1>6 DEF MergedStays, Landed, In
<1> QED
  BY <1>2, <1>3, <1>4, <1>5, <1>6

LEMMA LossStep == LandingInv /\ LossInv /\ [Next]_vars => LossInv'
<1> SUFFICES ASSUME LandingInv, LossInv, [Next]_vars PROVE LossInv'
  OBVIOUS
<1>1. ASSUME NEW w \in Workers, Land(w) \/ Kill(w) PROVE LossInv'
  BY <1>1, StagedOwnStep, ClosedMergedStep, MergedStaysStep DEF LossInv
<1>2. CASE DaemonCommit
  <2>1. /\ main' = Append(main, <<Daemon, pins + 1>>)
        /\ main \in Histories /\ <<Daemon, pins + 1>> \in Commits
    BY <1>2 DEF DaemonCommit, LandingInv, TypeOK, Commits
  <2>2. In(main) \subseteq In(main')
    BY <2>1, AppendOps, ExtendsKeeps
  <2>3. \A v \in Workers : Landed(v) => Landed(v)'
    BY <2>2 DEF Landed, In
  <2>4. UNCHANGED <<pc, staged, merged, left>>
    BY <1>2 DEF DaemonCommit, locals
  <2> QED
    BY <2>3, <2>4 DEF LossInv, StagedOwn, ClosedMerged, MergedStays, In
<1>3. ASSUME UNCHANGED <<main, pc, staged, merged, left>> PROVE LossInv'
  BY <1>3 DEF LossInv, StagedOwn, ClosedMerged, MergedStays, Landed, In
<1>4. (\E f \in Files : Edit(f)) \/ UNCHANGED vars
        => UNCHANGED <<main, pc, staged, merged, left>>
  BY DEF Edit, vars, repo, locals
<1> QED
  BY <1>1, <1>2, <1>3, <1>4 DEF Next

(* A closed task is off the branch only while the stash holds an entry.    *)
THEOREM LossesAreWitnessed == Spec => []LossIsWitnessed
<1>1. Init => LossInv
  BY DEF Init, LossInv, StagedOwn, ClosedMerged, MergedStays
<1>2. LandingInv /\ LossInv /\ [Next]_vars => LossInv'
  BY LossStep
<1>3. LandingInv /\ LossInv => LossIsWitnessed
  <2> SUFFICES ASSUME LandingInv, LossInv, stash = <<>>
               PROVE  \A w \in Workers : pc[w] = "done" => Landed(w)
    BY DEF LossIsWitnessed
  <2>1. Len(stash) = 0
    BY EmptySeq
  <2>2. Cardinality(Owing) \in Nat /\ left \in Nat
    BY WorkersAssumption, FS_Subset, FS_CardinalityType DEF Owing, LandingInv, TypeOK
  <2>3. Len(stash) = Cardinality(Owing) + left
    BY DEF LandingInv, StashAccounted, Owing
  <2>4. left = 0
    BY <2>1, <2>2, <2>3
  <2> QED
    BY <2>4 DEF LossInv, ClosedMerged, MergedStays
<1> QED
  BY <1>1, <1>2, <1>3, LandingInvariant, PTL DEF Spec

----------------------------------------------------------------------------
(* The refinement *)

branchVars == <<main, staged, tested, pre>>

LEMMA LandRefines ==
  ASSUME LandingInv, NEW w \in Workers, Land(w) \/ Kill(w)
  PROVE  Branch!Next \/ UNCHANGED branchVars
<1> USE DEF branchVars
<1>1. CASE Stage(w)
  <2>1. tries[w] + 1 \in 1 .. MaxTries[w]
    <3>1. tries[w] \in Nat /\ MaxTries[w] \in Nat
      BY BoundsAssumption DEF LandingInv, TypeOK
    <3>2. tries[w] < MaxTries[w]
      BY <1>1 DEF Stage
    <3> QED
      BY <3>1, <3>2
  <2>2. Branch!Stage(w)
    BY <1>1, <2>1 DEF Stage, Branch!Stage, repo
  <2> QED
    BY <2>2 DEF Branch!Next
<1>2. CASE Verify(w)
  <2>1. Branch!Test(w)
    BY <1>2 DEF Verify, Branch!Test, repo, locals
  <2> QED
    BY <2>1 DEF Branch!Next
<1>3. CASE RevParse(w)
  <2>1. Branch!Note(w)
    BY <1>3 DEF RevParse, Branch!Note, repo
  <2> QED
    BY <2>1 DEF Branch!Next
<1>4. CASE FastForward(w)
  <2>1. staged[w] \in tested
    BY <1>4 DEF FastForward, LandingInv, PastTests
  <2>2. Branch!IsPrefix(main, staged[w])
    BY <1>4 DEF FastForward, Extends, Branch!IsPrefix
  <2>3. Branch!Land(w)
    BY <1>4, <2>1, <2>2 DEF FastForward, Branch!Land
  <2> QED
    BY <2>3 DEF Branch!Next
<1>5. CASE Restore(w)
  <2>1. Branch!GoBack(w) \/ UNCHANGED branchVars
    BY <1>5 DEF Restore, Branch!GoBack, repo
  <2> QED
    BY <2>1 DEF Branch!Next
<1>6. \/ Stage(w) \/ Verify(w) \/ RevParse(w) \/ FastForward(w) \/ Restore(w)
      \/ UNCHANGED branchVars
  BY DEF Land, NoDiff, Refuse, Status, Push, PushFails, MergeFails, Pop, PopConflicts, PopFails,
         ResetHead, ResetFails, Drop, DropFails, Tidy, Kill, repo, locals
<1> QED
  BY <1>1, <1>2, <1>3, <1>4, <1>5, <1>6

(* Landing implements the abstract branch.                                 *)
THEOREM LandingImplementsBranch == Spec => ImplementsBranch
<1>1. Init => Branch!Init
  BY DEF Init, Branch!Init
<1>2. LandingInv /\ [Next]_vars => [Branch!Next]_branchVars
  <2> SUFFICES ASSUME LandingInv, [Next]_vars PROVE Branch!Next \/ UNCHANGED branchVars
    OBVIOUS
  <2>1. ASSUME NEW w \in Workers, Land(w) \/ Kill(w)
        PROVE  Branch!Next \/ UNCHANGED branchVars
    BY <2>1, LandRefines
  <2>2. CASE DaemonCommit
    <3>1. pins + 1 \in 1 .. MaxPins
      BY <2>2, BoundsAssumption DEF DaemonCommit, LandingInv, TypeOK
    <3>2. Branch!Pin
      BY <2>2, <3>1 DEF DaemonCommit, Branch!Pin, locals
    <3> QED
      BY <3>2 DEF Branch!Next
  <2>3. (\E f \in Files : Edit(f)) \/ UNCHANGED vars => UNCHANGED branchVars
    BY DEF Edit, vars, repo, locals, branchVars
  <2> QED
    BY <2>1, <2>2, <2>3 DEF Next
<1> QED
  BY <1>1, <1>2, LandingInvariant, PTL DEF Spec, ImplementsBranch, Branch!Spec, branchVars
=============================================================================
