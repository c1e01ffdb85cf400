------------------------------ MODULE CondVar -------------------------------
(***************************************************************************)
(* The condition variables of lock/condvar.c, composed with the mutexes of *)
(* module Mutex: cond_var, the kind that is bound to a mutex, and for the  *)
(* use of other modules the parts of cond_var_s, the kind that is used     *)
(* under a spinlock and is given a mutex when it is waited on.             *)
(*                                                                         *)
(* cond_var_wait disables interrupts for its whole length.  Up to its      *)
(* sched_yield it is one step: the caller is queued, its mutex released    *)
(* and the processor given up.  From there it calls mutex_acquire, which   *)
(* may block it a second time, in the queue of the mutex.                  *)
(*                                                                         *)
(* A thread that waits is in Mutex's place "acquire", with the mutex it    *)
(* is going to acquire as its target; inCond tells the two waits apart.    *)
(***************************************************************************)
EXTENDS Mutex

CONSTANTS
    Cond,       \* the condition variables
    LockOf      \* LockOf[c], cond_var.lock; NULL when it has none

ASSUME CondAssumption ==
    /\ NULL \notin Cond
    /\ LockOf \in [Cond -> Mutex \cup {NULL}]

VARIABLES
    condq,      \* condq[c], cond_var.wait_queue
    inCond,     \* inCond[t], the variable t waits on until it is past the
                \* mutex_acquire of cond_var_wait or queued there, else NULL
    misuse      \* the thread that crashed the system by a wait or a signal
                \* without the lock, and the variable

condVars == <<condq, inCond, misuse>>
allVars == <<vars, condVars>>

OnCond(c, t) == \E i \in 1..Len(condq[c]) : condq[c][i] = t

\* The check at the head of the operations.
Unowned(c, t) == LockOf[c] # NULL /\ owner[LockOf[c]] # t

CondInit ==
    /\ Init
    /\ condq = [c \in Cond |-> <<>>]
    /\ inCond = [t \in Thread |-> NULL]
    /\ misuse = <<>>

\* crash() in one of the operations.
CondCrash(c, t) ==
    /\ At(t, "client")
    /\ misuse = <<>>
    /\ Unowned(c, t)
    /\ misuse' = <<c, t>>
    /\ UNCHANGED <<vars, condq, inCond>>

\* Everything stops at a crash.
Up == Alive /\ misuse = <<>>

\* mutex_release of m with interrupts disabled, so in one step.
HandOver(t, m) ==
    \/ /\ waitq[m] # <<>>
       /\ owner' = [owner EXCEPT ![m] = Head(waitq[m])]
       /\ held' = [held EXCEPT ![t] = @ \ {m}, ![Head(waitq[m])] = @ \cup {m}]
       /\ waitq' = [waitq EXCEPT ![m] = Tail(@)]
       /\ BlockSwitch(t, {Head(waitq[m])})
       /\ UNCHANGED taken
    \/ /\ waitq[m] = <<>>
       /\ owner' = [owner EXCEPT ![m] = NULL]
       /\ taken' = [taken EXCEPT ![m] = FALSE]
       /\ held' = [held EXCEPT ![t] = @ \ {m}]
       /\ BlockSwitch(t, {})
       /\ UNCHANGED waitq

\* The caller t queues for c, gives m up, if there is one, and yields.
Sleep(t, c, m) ==
    /\ condq' = [condq EXCEPT ![c] = Append(@, t)]
    /\ inCond' = [inCond EXCEPT ![t] = c]
    /\ pc' = [pc EXCEPT ![t] = "acquire"]
    /\ target' = [target EXCEPT ![t] = m]
    /\ has' = [has EXCEPT ![t] = @ \ {m}]
    /\ \/ m # NULL /\ HandOver(t, m)
       \/ m = NULL /\ BlockSwitch(t, {}) /\ UNCHANGED mutexVars

\* Every waiter of c becomes ready.
WakeAll(c) ==
    /\ condq' = [condq EXCEPT ![c] = <<>>]
    /\ status' = Woken(status, {u \in Thread : OnCond(c, u)})

\* A wait acquires m a second time, and the callers' lock order holds of that.
KeepsOrder(t, m) == m # NULL => \A k \in has[t] \ {m} : <<k, m>> \in MayNest

\* cond_var_wait up to its sched_yield.
CondWait(t, c) ==
    /\ Up /\ At(t, "client")
    /\ ~Unowned(c, t)
    /\ KeepsOrder(t, LockOf[c])
    /\ Sleep(t, c, LockOf[c])
    /\ UNCHANGED <<crashed, misuse>>

\* cond_var_s_wait with the mutex m, called by t under the spinlock of c; it
\* looks at nobody's ownership.
CondSWait(t, c, m) ==
    /\ At(t, "client")
    /\ Sleep(t, c, m)
    /\ UNCHANGED <<crashed, misuse>>

\* cond_var_s_broadcast, by a thread or an interrupt handler.
CondSBroadcast(c) ==
    /\ WakeAll(c)
    /\ UNCHANGED <<current, mutexVars, clientVars, crashed, inCond, misuse>>

\* Mutant of CondReturn: the mutex is not taken.
BugReturnBare(t) ==
    /\ Up /\ At(t, "acquire") /\ inCond[t] # NULL
    /\ inCond' = [inCond EXCEPT ![t] = NULL]
    /\ pc' = [pc EXCEPT ![t] = "client"]
    /\ target' = [target EXCEPT ![t] = NULL]
    /\ has' = [has EXCEPT ![t] = @ \cup ({target[t]} \ {NULL})]
    /\ UNCHANGED <<dispatchVars, mutexVars, crashed, condq, misuse>>

\* The woken t takes its mutex, or needs none, and cond_var_wait, or
\* cond_var_s_wait, returns.
CondReturn(t) ==
    LET m == target[t] IN
    /\ Up /\ At(t, "acquire") /\ inCond[t] # NULL
    /\ inCond' = [inCond EXCEPT ![t] = NULL]
    /\ pc' = [pc EXCEPT ![t] = "client"]
    /\ target' = [target EXCEPT ![t] = NULL]
    /\ \/ m = NULL /\ UNCHANGED <<mutexVars, has>>
       \/ /\ m # NULL
          /\ ~taken[m]
          /\ taken' = [taken EXCEPT ![m] = TRUE]
          /\ owner' = [owner EXCEPT ![m] = t]
          /\ held' = [held EXCEPT ![t] = @ \cup {m}]
          /\ has' = [has EXCEPT ![t] = @ \cup {m}]
          /\ UNCHANGED waitq
    /\ UNCHANGED <<dispatchVars, crashed, condq, misuse>>

\* Mutant of CondReblock: the woken thread is not queued.
BugReblockLost(t) ==
    LET m == target[t] IN
    /\ Up /\ At(t, "acquire") /\ inCond[t] # NULL /\ m # NULL
    /\ taken[m]
    /\ inCond' = [inCond EXCEPT ![t] = NULL]
    /\ BlockSwitch(t, {})
    /\ UNCHANGED <<mutexVars, clientVars, crashed, condq, misuse>>

\* The woken t finds its mutex taken and blocks once more.
CondReblock(t) ==
    LET m == target[t] IN
    /\ Up /\ At(t, "acquire") /\ inCond[t] # NULL
    /\ m # NULL
    /\ taken[m]
    /\ waitq' = [waitq EXCEPT ![m] = Append(@, t)]
    /\ inCond' = [inCond EXCEPT ![t] = NULL]
    /\ BlockSwitch(t, {})
    /\ UNCHANGED <<taken, owner, held, clientVars, crashed, condq, misuse>>

\* Mutant of CondSignal: the waiter stays in the queue.
BugSignalKeeps(t, c) ==
    /\ Up /\ At(t, "client")
    /\ ~Unowned(c, t)
    /\ condq[c] # <<>>
    /\ status' = Woken(status, {Head(condq[c])})
    /\ UNCHANGED <<current, mutexVars, clientVars, crashed, condVars>>

\* cond_var_signal: the first waiter, if there is one, is woken.
CondSignal(t, c) ==
    /\ Up /\ At(t, "client")
    /\ ~Unowned(c, t)
    /\ condq[c] # <<>>
    /\ condq' = [condq EXCEPT ![c] = Tail(@)]
    /\ status' = Woken(status, {Head(condq[c])})
    /\ UNCHANGED <<current, mutexVars, clientVars, crashed, inCond, misuse>>

\* cond_var_broadcast: every waiter is.
CondBroadcast(t, c) ==
    /\ Up /\ At(t, "client")
    /\ ~Unowned(c, t)
    /\ WakeAll(c)
    /\ UNCHANGED <<current, mutexVars, clientVars, crashed, inCond, misuse>>

\* A step of Mutex by a thread that is not inside cond_var_wait, or a tick.
MutexStep ==
    /\ misuse = <<>>
    /\ current # NULL => inCond[current] = NULL
    /\ Next
    /\ UNCHANGED condVars

Stopped == misuse # <<>> /\ UNCHANGED allVars

CondNext ==
    \/ \E t \in Thread, c \in Cond :
         \/ CondCrash(c, t) \/ CondWait(t, c)
         \/ CondSignal(t, c) \/ CondBroadcast(t, c)
    \/ \E t \in Thread : CondReturn(t) \/ CondReblock(t)
    \/ MutexStep
    \/ Stopped

CondSpec == CondInit /\ [][CondNext]_allVars

CondDispatchTo(t) == CondNext /\ current # t /\ current' = t

\* The fairness of Mutex, and that a woken thread goes on in cond_var_wait.
\* No thread is made to signal.
CondFairSpec ==
    /\ CondSpec
    /\ \A t \in Thread :
         /\ SF_allVars(CondDispatchTo(t))
         /\ WF_allVars(CondReturn(t) \/ CondReblock(t))
         /\ WF_allVars(MutexStep /\ AcquireReturn(t))
    /\ \A t \in Thread, m \in Mutex : SF_allVars(MutexStep /\ Release(t, m))

-----------------------------------------------------------------------------

\* No wake-up is lost between the release of the mutex and the sleep: a
\* thread that has given up its mutex for a wait, and was not woken, is in
\* the queue that a signal looks at.  A thread is blocked exactly while it is
\* in a queue, of a variable or of a mutex; it is in one queue, and once: the
\* two waits of cond_var_wait share the one link a thread has.
OneQueue ==
    /\ \A t \in Thread, c \in Cond :
         OnCond(c, t) <=> inCond[t] = c /\ status[t] = "BLOCKING"
    /\ \A t \in Thread, m \in Mutex :
         InQueue(m, t) <=>
            /\ pc[t] = "acquire" /\ inCond[t] = NULL
            /\ target[t] = m /\ status[t] = "BLOCKING"
    /\ \A c \in Cond : \A i, j \in 1..Len(condq[c]) :
         condq[c][i] = condq[c][j] => i = j

\* cond_var_wait returns with the mutex it was called with, and keeps it from
\* its caller's code while it waits: what the code of a thread counts as its
\* own is what the mutexes say is its own, before, after and across waits.
\* In particular a signal does not pass the mutex on: a woken thread owns it
\* only after it has been through mutex_acquire.
OwnershipAcrossWaits ==
    /\ \A t \in Thread :
         /\ has[t] = {m \in Mutex : owner[m] = t /\ m # target[t]}
         /\ inCond[t] # NULL /\ target[t] # NULL => owner[target[t]] # t
         /\ pc[t] = "acquire" /\ inCond[t] = NULL /\ status[t] # "BLOCKING"
              => owner[target[t]] = t
    /\ \A m \in Mutex : taken[m] <=> owner[m] # NULL

\* The owner of m is asleep on a condition variable that is not bound to m.
OwnerAway(m) == \E u \in Thread : owner[m] = u /\ inCond[u] # NULL

\* t is in a mutex_acquire, called by itself or by the cond_var_wait in which
\* it was woken.
Owed(t) ==
    /\ pc[t] = "acquire" /\ target[t] # NULL
    /\ inCond[t] # NULL => ~OnCond(inCond[t], t)

\* Whoever needs a mutex gets it and returns, even if others keep taking it,
\* when callers keep a lock order and release what they hold.  A woken waiter
\* needs one turn of the processor to queue, and is served in order.  Only an
\* owner that goes to sleep on a variable with a mutex can keep others out.
AcquireReturns ==
    \A t \in Thread :
      Owed(t) ~> \/ pc[t] = "client"
                 \/ \E m \in Mutex : OwnerAway(m)
                 \/ ~Up
=============================================================================
