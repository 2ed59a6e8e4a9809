---------------------------- MODULE CommitLockMC ----------------------------
(* Two workers and the daemon on one lock file. *)
EXTENDS CommitLock

CONSTANTS v, w
=============================================================================
