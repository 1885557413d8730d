-------------------------- MODULE SpinLockMC --------------------------
(* Three CPUs contend for the lock; the instance is in SpinLockMC.cfg.     *)
EXTENDS SpinLock
=======================================================================
