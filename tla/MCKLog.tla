------------------------------- MODULE MCKLog -------------------------------
(* The background thread and two others.                                    *)
EXTENDS KLog

CONSTANTS f, t1, t2
=============================================================================
