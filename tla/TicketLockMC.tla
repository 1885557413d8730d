------------------------- MODULE TicketLockMC -------------------------
(* Three CPUs and four ticket values: the counters wrap around every four  *)
(* acquisitions, with the line as long as the assumption allows.           *)
EXTENDS TicketLock
=======================================================================
