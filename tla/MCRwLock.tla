------------------------------ MODULE MCRwLock ------------------------------
(* Four threads: readers and writers inside, and readers and writers queued. *)
EXTENDS RwLock

CONSTANTS t1, t2, t3, t4
=============================================================================
