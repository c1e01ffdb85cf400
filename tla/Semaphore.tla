----------------------------- MODULE Semaphore ------------------------------
(***************************************************************************)
(* The counting semaphore of lock/semaphore.c.                             *)
(*                                                                         *)
(* All three operations run under the spinlock of the semaphore, so each   *)
(* is one step, and semaphore_wait has a second one in which a thread that *)
(* was blocked returns.  semaphore_try_wait and semaphore_signal may be    *)
(* called by the running thread or by an interrupt handler, also over the  *)
(* idle loop; they treat their caller the same.                            *)
(*                                                                         *)
(* A user of the semaphore conjoins these actions with its own state: see  *)
(* KLog.                                                                   *)
(***************************************************************************)
EXTENDS Dispatch, Integers, FiniteSets

CONSTANTS
    InitialValue,   \* the value given to semaphore_init
    MaxCredit       \* bound: signals not consumed at any moment

ASSUME SemaphoreAssumption ==
    /\ InitialValue \in Nat
    /\ MaxCredit \in Nat /\ InitialValue <= MaxCredit

VARIABLES
    value,      \* semaphore.value; below zero, the number of waiters
    semq,       \* semaphore.wait_queue
    inWait,     \* the threads in semaphore_wait, behind its sched_yield
    credit      \* history: InitialValue + signals - waits that returned

semVars == <<value, semq, inWait, credit>>
vars == <<current, status, value, semq, inWait, credit>>

Queued(t) == \E i \in 1..Len(semq) : semq[i] = t

SemaphoreInit ==
    /\ value = InitialValue
    /\ semq = <<>>
    /\ inWait = {}
    /\ credit = InitialValue

\* semaphore_wait that need not block.
WaitTake(t) ==
    /\ current = t /\ t \notin inWait
    /\ value > 0
    /\ value' = value - 1
    /\ credit' = credit - 1
    /\ UNCHANGED <<current, status, semq, inWait>>

\* semaphore_wait that blocks and yields; the value counts the waiter.
WaitBlock(t) ==
    /\ current = t /\ t \notin inWait
    /\ value <= 0
    /\ value' = value - 1
    /\ semq' = Append(semq, t)
    /\ inWait' = inWait \cup {t}
    /\ BlockSwitch(t, {})
    /\ UNCHANGED credit

\* The woken t runs again and returns without another look at the value.
WaitReturn(t) ==
    /\ current = t /\ t \in inWait
    /\ inWait' = inWait \ {t}
    /\ credit' = credit - 1
    /\ UNCHANGED <<current, status, value, semq>>

\* Interrupts are enabled: the caller is not between sched_yield and the end
\* of semaphore_wait.
Interruptible == current \notin inWait

\* semaphore_try_wait that succeeds; the one that fails changes nothing.
TryWait ==
    /\ Interruptible
    /\ value > 0
    /\ value' = value - 1
    /\ credit' = credit - 1
    /\ UNCHANGED <<current, status, semq, inWait>>

\* Mutant of Signal: waiters are looked for after the increment.
BugSignalLate ==
    /\ Interruptible
    /\ credit < MaxCredit
    /\ value' = value + 1
    /\ credit' = credit + 1
    /\ \/ /\ value' < 0
          /\ semq' = Tail(semq)
          /\ status' = Woken(status, {Head(semq)})
       \/ /\ value' >= 0
          /\ UNCHANGED <<semq, status>>
    /\ UNCHANGED <<current, inWait>>

\* semaphore_signal: with waiters, the first one is taken from the queue and
\* woken.
Signal ==
    /\ Interruptible
    /\ credit < MaxCredit
    /\ value' = value + 1
    /\ credit' = credit + 1
    /\ \/ /\ value < 0
          /\ semq' = Tail(semq)
          /\ status' = Woken(status, {Head(semq)})
       \/ /\ value >= 0
          /\ UNCHANGED <<semq, status>>
    /\ UNCHANGED <<current, inWait>>

\* pit_tick_handle at the end of a quantum.
Preempt ==
    /\ Interruptible
    /\ PreemptSwitch
    /\ UNCHANGED semVars

-----------------------------------------------------------------------------
(* The semaphore with threads that do nothing but use it.                  *)

Init ==
    /\ current \in Thread
    /\ status = [t \in Thread |-> IF t = current THEN "RUNNING" ELSE "READY"]
    /\ SemaphoreInit

Next ==
    \/ \E t \in Thread : WaitTake(t) \/ WaitBlock(t) \/ WaitReturn(t)
    \/ TryWait \/ Signal \/ Preempt

Spec == Init /\ [][Next]_vars

-----------------------------------------------------------------------------

\* No wait returns without a signal of its own, whatever mixture of waits,
\* tries and signals went before: the value is what remains of the signals
\* once every thread still inside semaphore_wait has been counted off, so a
\* try can never take the signal that woke a thread which has yet to run.
CreditsMatch ==
    /\ credit >= 0
    /\ value = credit - Cardinality(inWait)

\* The value below zero counts exactly the queued threads, which are blocked,
\* and no others are: a signal that sees it finds a waiter to wake.
ValueCountsWaiters ==
    /\ Len(semq) = IF value < 0 THEN -value ELSE 0
    /\ \A t \in Thread : Queued(t) <=> status[t] = "BLOCKING"
    /\ \A t \in Thread : Queued(t) => t \in inWait
    /\ \A i, j \in 1..Len(semq) : semq[i] = semq[j] => i = j
=============================================================================
