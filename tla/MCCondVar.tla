----------------------------- MODULE MCCondVar ------------------------------
(* Three threads and two mutexes: a holder and two waiters for one mutex,    *)
(* and hand-offs to a thread that holds the other one.  Callers nest the     *)
(* mutexes in one order, or acquire one that they have, which is a crash.    *)
(* One condition variable is bound to the mutex that is taken first, and one *)
(* has no mutex, so that a thread may wait on it with both.                  *)
EXTENDS CondVar

CONSTANTS t1, t2, t3, m1, m2, c1, c2

Ordered == {<<m1, m2>>, <<m1, m1>>, <<m2, m2>>}
Locks == [c \in Cond |-> IF c = c1 THEN m1 ELSE NULL]
=============================================================================
