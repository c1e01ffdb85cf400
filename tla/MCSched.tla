------------------------------ MODULE MCSched -------------------------------
(* Four threads over two processes, two each, so that both round robins     *)
(* have something to choose from.                                           *)
EXTENDS Sched, TLC

CONSTANTS t1, t2, t3, t4, p1, p2

MCProcessOf == t1 :> p1 @@ t2 :> p1 @@ t3 :> p2 @@ t4 :> p2
=============================================================================
