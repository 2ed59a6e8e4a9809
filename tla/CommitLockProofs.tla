-------------------------- MODULE CommitLockProofs --------------------------
(* Proofs about CommitLock, for any set of workers. *)
EXTENDS CommitLock, TLAPS

(* Who came in by the flock has it.  This is what makes HoldersExclude     *)
(* inductive: two processes cannot both be the value of flock.             *)
HasTheLock == \A p \in Procs : Acquired(p) => flock = p

(* A daemon that still tries has read nothing. *)
TriesUnread == pc[Daemon] = "trying" => seen = Unread

(* A daemon that judges a stamp has read one, so that it never passes for   *)
(* a holder by the flock after it reclaims.                                *)
JudgesRead == pc[Daemon] \in {"read", "condemned"} => seen # Unread

LockInv == TypeOK /\ HasTheLock /\ TriesUnread /\ JudgesRead /\ SparesTheStamped

LEMMA LockInit == Init => LockInv
<1> SUFFICES ASSUME Init PROVE LockInv  OBVIOUS
<1> USE NamesAssumption DEF Init, Procs, Stamps, States, Critical
<1>1. TypeOK  BY DEF TypeOK
<1>2. HasTheLock  BY DEF HasTheLock, Acquired
<1>3. SparesTheStamped  BY DEF SparesTheStamped
<1>4. TriesUnread  BY DEF TriesUnread
<1>5. JudgesRead  BY DEF JudgesRead
<1> QED  BY <1>1, <1>2, <1>3, <1>4, <1>5 DEF LockInv

LEMMA LockStep == LockInv /\ [Next]_vars => LockInv'
<1> SUFFICES ASSUME LockInv, [Next]_vars PROVE LockInv'  OBVIOUS
<1> USE NamesAssumption DEF Procs, Stamps, States, Critical, Goto, LockInv, TypeOK,
        HasTheLock, Acquired, TriesUnread, JudgesRead, SparesTheStamped
<1>1. ASSUME NEW p \in Procs, Begin(p) PROVE LockInv'  BY <1>1 DEF Begin
<1>2. ASSUME NEW p \in Procs, Lock(p) PROVE LockInv'  BY <1>2 DEF Lock
<1>3. ASSUME NEW p \in Workers, GiveUp(p) PROVE LockInv'  BY <1>3 DEF GiveUp
<1>4. ASSUME NEW p \in Procs, Wipe(p) PROVE LockInv'  BY <1>4 DEF Wipe
<1>5. ASSUME NEW p \in Procs, Write(p) PROVE LockInv'  BY <1>5 DEF Write
<1>6. ASSUME NEW p \in Procs, StampFails(p) PROVE LockInv'  BY <1>6 DEF StampFails
<1>7. ASSUME NEW p \in Procs, Release(p) PROVE LockInv'  BY <1>7 DEF Release
<1>8. ASSUME NEW p \in Procs, Die(p) PROVE LockInv'  BY <1>8 DEF Die
<1>9. CASE Deadline  BY <1>9 DEF Deadline
<1>10. CASE Read  BY <1>10 DEF Read
<1>11. CASE Probe  BY <1>11 DEF Probe
<1>12. CASE Reclaim  BY <1>12 DEF Reclaim
<1>13. CASE UNCHANGED vars  BY <1>13 DEF vars
<1> QED  BY <1>1, <1>2, <1>3, <1>4, <1>5, <1>6, <1>7, <1>8, <1>9, <1>10, <1>11,
            <1>12, <1>13 DEF Next, Attempt

LEMMA LockAlways == Spec => []LockInv
<1> QED  BY LockInit, LockStep, PTL DEF Spec

(* The kernel lock is never left with a process outside its section.       *)
THEOREM LockTypeCorrect == Spec => []TypeOK
<1>1. LockInv => TypeOK  BY DEF LockInv
<1> QED  BY <1>1, LockAlways, PTL

(* Holders by the flock are alone, whatever the daemon reclaims.           *)
THEOREM HoldersAreAlone == Spec => []HoldersExclude
<1>1. LockInv => HoldersExclude  BY DEF LockInv, HasTheLock, HoldersExclude
<1> QED  BY <1>1, LockAlways, PTL

(* The daemon never reclaims past an owner whose stamp it has read and     *)
(* that is still alive.                                                    *)
THEOREM StampedAreSpared == Spec => []SparesTheStamped
<1>1. LockInv => SparesTheStamped  BY DEF LockInv
<1> QED  BY <1>1, LockAlways, PTL
=============================================================================
