------------------------------- MODULE MCLocks -------------------------------
(* Two goroutines: a race is between two, and so is a circle of two locks.  *)
EXTENDS Locks
=============================================================================
