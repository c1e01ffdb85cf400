------------------------------ MODULE MCSerial ------------------------------
(* Two threads; one writes more than the ring and the port can take and then *)
(* reads an answer, more of which arrives than the other ring holds.         *)
EXTENDS Serial

CONSTANTS t1, t2, tty, sready, rready

Locks == [c \in Cond |-> tty]
CrashMessage == <<"crash", 0>>
Any == Mutex \X Mutex
Chars == [t \in Thread |-> IF t = t1 THEN 5 ELSE 1]
Answers == [t \in Thread |-> IF t = t1 THEN 2 ELSE 0]
=============================================================================
