------------------------------- MODULE Mutex --------------------------------
(***************************************************************************)
(* The kernel mutexes of lock/mutex.c and the threads that use them.       *)
(*                                                                         *)
(* mutex_acquire and mutex_try_acquire run under cli up to their end or to *)
(* sched_yield, so each is one step, and a second one in which a thread    *)
(* that was blocked returns.  mutex_release takes the mutex out of the     *)
(* held list of its caller with interrupts ENABLED, and only then the      *)
(* spinlock of the wait queue: a preemption falls between the two, so it   *)
(* is two steps.                                                           *)
(*                                                                         *)
(* The held list of a thread is only searched for a member, so its order   *)
(* is left out: it is a set here.                                          *)
(***************************************************************************)
EXTENDS Dispatch

CONSTANTS
    Mutex,      \* the mutexes
    MayNest     \* the lock order of the callers: <<k, m>> is in it when a
                \* thread that holds k may acquire m

ASSUME MutexAssumption ==
    /\ NULL \notin Mutex
    /\ MayNest \subseteq Mutex \X Mutex

VARIABLES
    taken,      \* taken[m], mutex.taken
    owner,      \* owner[m], mutex.owner
    held,       \* held[t], the mutexes on sched_thread.held_mutexes
    waitq,      \* waitq[m], mutex.wait_queue
    pc,         \* pc[t], where thread t is
    target,     \* target[t], the mutex of the call t is in, else NULL
    has,        \* has[t], the mutexes t acquired and did not release, as
                \* its code sees it: from the return of an acquire to the
                \* call of the release
    crashed     \* <<>>, or the reason given to crash() and the mutex

mutexVars == <<taken, owner, held, waitq>>
clientVars == <<pc, target, has>>
vars == <<current, status, taken, owner, held, waitq, pc, target, has, crashed>>

\* "client": outside this file.  "acquire": in mutex_acquire, behind its
\* call of sched_yield.  "release": in mutex_release, in front of the
\* spinlock.
PC == {"client", "acquire", "release"}
Crash == {"recursive", "nonowner", "corrupted"} \X Mutex
Alive == crashed = <<>>

InQueue(m, t) == \E i \in 1..Len(waitq[m]) : waitq[m][i] = t

\* t runs, and is in the code at l.  do_crash stops the processor.
At(t, l) == Alive /\ current = t /\ pc[t] = l

-----------------------------------------------------------------------------

Init ==
    /\ current \in Thread
    /\ status = [t \in Thread |-> IF t = current THEN "RUNNING" ELSE "READY"]
    /\ taken = [m \in Mutex |-> FALSE]
    /\ owner = [m \in Mutex |-> NULL]
    /\ held = [t \in Thread |-> {}]
    /\ waitq = [m \in Mutex |-> <<>>]
    /\ pc = [t \in Thread |-> "client"]
    /\ target = [t \in Thread |-> NULL]
    /\ has = [t \in Thread |-> {}]
    /\ crashed = <<>>

CrashWith(reason, m) ==
    /\ crashed' = <<reason, m>>
    /\ UNCHANGED <<dispatchVars, mutexVars, clientVars>>

\* m becomes t's: the fast path of both acquires.
Take(t, m) ==
    /\ taken' = [taken EXCEPT ![m] = TRUE]
    /\ owner' = [owner EXCEPT ![m] = t]
    /\ held' = [held EXCEPT ![t] = @ \cup {m}]
    /\ has' = [has EXCEPT ![t] = @ \cup {m}]
    /\ UNCHANGED <<dispatchVars, waitq, pc, target, crashed>>

MayCall(t, m) == At(t, "client") /\ \A k \in has[t] : <<k, m>> \in MayNest

\* mutex_acquire of a mutex the caller owns.
AcquireRecursive(t, m) ==
    /\ MayCall(t, m)
    /\ owner[m] = t
    /\ CrashWith("recursive", m)

\* mutex_acquire of a free mutex.
AcquireFree(t, m) ==
    /\ MayCall(t, m)
    /\ owner[m] # t
    /\ ~taken[m]
    /\ Take(t, m)

\* mutex_acquire of a taken mutex: t queues and yields.
AcquireBlock(t, m) ==
    /\ MayCall(t, m)
    /\ owner[m] # t
    /\ taken[m]
    /\ waitq' = [waitq EXCEPT ![m] = Append(@, t)]
    /\ pc' = [pc EXCEPT ![t] = "acquire"]
    /\ target' = [target EXCEPT ![t] = m]
    /\ BlockSwitch(t, {})
    /\ UNCHANGED <<taken, owner, held, has, crashed>>

\* The blocked t runs again: mutex_acquire returns without another look at
\* the mutex.
AcquireReturn(t) ==
    /\ At(t, "acquire")
    /\ pc' = [pc EXCEPT ![t] = "client"]
    /\ target' = [target EXCEPT ![t] = NULL]
    /\ has' = [has EXCEPT ![t] = @ \cup {target[t]}]
    /\ UNCHANGED <<dispatchVars, mutexVars, crashed>>

\* mutex_try_acquire: crash, success, or false, which changes nothing.
TryAcquire(t, m) ==
    /\ At(t, "client")
    /\ \/ /\ owner[m] = t
          /\ CrashWith("recursive", m)
       \/ /\ owner[m] # t
          /\ ~taken[m]
          /\ Take(t, m)

\* Mutant of ReleaseUnlink: the mutex is marked free before the spinlock.
BugUnlinkFrees(t, m) ==
    /\ At(t, "client")
    /\ owner[m] = t
    /\ held' = [held EXCEPT ![t] = @ \ {m}]
    /\ has' = [has EXCEPT ![t] = @ \ {m}]
    /\ owner' = [owner EXCEPT ![m] = NULL]
    /\ taken' = [taken EXCEPT ![m] = FALSE]
    /\ pc' = [pc EXCEPT ![t] = "release"]
    /\ target' = [target EXCEPT ![t] = m]
    /\ UNCHANGED <<dispatchVars, waitq, crashed>>

\* mutex_release up to the spinlock: the owner is checked and the mutex
\* leaves the held list.
ReleaseUnlink(t, m) ==
    /\ At(t, "client")
    /\ \/ /\ owner[m] # t
          /\ CrashWith("nonowner", m)
       \/ /\ owner[m] = t
          /\ m \notin held[t]
          /\ CrashWith("corrupted", m)
       \/ /\ owner[m] = t
          /\ m \in held[t]
          /\ held' = [held EXCEPT ![t] = @ \ {m}]
          /\ has' = [has EXCEPT ![t] = @ \ {m}]
          /\ pc' = [pc EXCEPT ![t] = "release"]
          /\ target' = [target EXCEPT ![t] = m]
          /\ UNCHANGED <<dispatchVars, taken, owner, waitq, crashed>>

\* Mutants of ReleaseHandOff, for a mutex with waiters: the held list of the
\* new owner, or the owner is not written.
BugHandOffHeld(t) ==
    LET m == target[t] IN
    /\ At(t, "release")
    /\ waitq[m] # <<>>
    /\ owner' = [owner EXCEPT ![m] = Head(waitq[m])]
    /\ waitq' = [waitq EXCEPT ![m] = Tail(@)]
    /\ status' = Woken(status, {Head(waitq[m])})
    /\ pc' = [pc EXCEPT ![t] = "client"]
    /\ target' = [target EXCEPT ![t] = NULL]
    /\ UNCHANGED <<current, taken, held, has, crashed>>
BugHandOffFrees(t) ==
    LET m == target[t] IN
    /\ At(t, "release")
    /\ waitq[m] # <<>>
    /\ owner' = [owner EXCEPT ![m] = NULL]
    /\ taken' = [taken EXCEPT ![m] = FALSE]
    /\ waitq' = [waitq EXCEPT ![m] = Tail(@)]
    /\ status' = Woken(status, {Head(waitq[m])})
    /\ pc' = [pc EXCEPT ![t] = "client"]
    /\ target' = [target EXCEPT ![t] = NULL]
    /\ UNCHANGED <<current, held, has, crashed>>

\* The rest of mutex_release, under the spinlock: the first waiter is given
\* the mutex and woken; with no waiter the mutex becomes free.
ReleaseHandOff(t) ==
    LET m == target[t] IN
    /\ At(t, "release")
    /\ pc' = [pc EXCEPT ![t] = "client"]
    /\ target' = [target EXCEPT ![t] = NULL]
    /\ \/ /\ waitq[m] # <<>>
          /\ owner' = [owner EXCEPT ![m] = Head(waitq[m])]
          /\ held' = [held EXCEPT ![Head(waitq[m])] = @ \cup {m}]
          /\ waitq' = [waitq EXCEPT ![m] = Tail(@)]
          /\ status' = Woken(status, {Head(waitq[m])})
          /\ UNCHANGED taken
       \/ /\ waitq[m] = <<>>
          /\ owner' = [owner EXCEPT ![m] = NULL]
          /\ taken' = [taken EXCEPT ![m] = FALSE]
          /\ UNCHANGED <<held, waitq, status>>
    /\ UNCHANGED <<current, has, crashed>>

\* pit_tick_handle at the end of a quantum.  A thread behind its sched_yield
\* still has interrupts disabled.
Preempt ==
    /\ Alive
    /\ current # NULL => pc[current] # "acquire"
    /\ PreemptSwitch
    /\ UNCHANGED <<mutexVars, clientVars, crashed>>

\* do_crash never returns.
Halted == ~Alive /\ UNCHANGED vars

Next ==
    \/ \E t \in Thread, m \in Mutex :
         \/ AcquireRecursive(t, m) \/ AcquireFree(t, m) \/ AcquireBlock(t, m)
         \/ TryAcquire(t, m) \/ ReleaseUnlink(t, m)
    \/ \E t \in Thread : AcquireReturn(t) \/ ReleaseHandOff(t)
    \/ Preempt
    \/ Halted

Spec == Init /\ [][Next]_vars

\* t goes through with the release of a mutex it holds.
Release(t, m) ==
    \/ m \in has[t] /\ ReleaseUnlink(t, m)
    \/ m = target[t] /\ ReleaseHandOff(t)

-----------------------------------------------------------------------------

TypeOK ==
    /\ DispatchTypeOK
    /\ taken \in [Mutex -> BOOLEAN]
    /\ owner \in [Mutex -> Thread \cup {NULL}]
    /\ held \in [Thread -> SUBSET Mutex]
    /\ waitq \in [Mutex -> Seq(Thread)]
    /\ pc \in [Thread -> PC]
    /\ target \in [Thread -> Mutex \cup {NULL}]
    /\ has \in [Thread -> SUBSET Mutex]
    /\ crashed \in Crash \cup {<<>>}

\* Mutual exclusion as the callers see it: what an acquire that has returned
\* gave to one thread, it gave to no other.  A woken waiter returns from
\* mutex_acquire without looking at the mutex again.
MutualExclusion ==
    \A t, u \in Thread : t # u => has[t] \cap has[u] = {}

\* The owner written into the mutex and the held lists are two records of
\* one fact, written at different moments by different threads (a hand-off
\* writes into the lists of a thread that does not run).  They differ only
\* for the mutex that a releasing thread has already taken off its list.
HeldListExact ==
    \A t \in Thread, m \in Mutex :
      m \in held[t] <=> owner[m] = t /\ ~(pc[t] = "release" /\ target[t] = m)

\* No stranded waiter: a mutex with a queue has an owner that is not in that
\* queue and will hand it on.  A release between its two steps, preempted
\* while another thread queues, would strand that thread if it freed the
\* mutex.
WaitersHaveOwner ==
    \A m \in Mutex :
      waitq[m] # <<>> => taken[m] /\ owner[m] # NULL /\ ~InQueue(m, owner[m])

\* Blocked exactly while queued, in one queue, once.  Otherwise the assertion
\* of sched_thread_wake fails or a thread sleeps for ever.
BlockedIffQueued ==
    /\ \A t \in Thread, m \in Mutex :
         InQueue(m, t) <=>
            pc[t] = "acquire" /\ target[t] = m /\ status[t] = "BLOCKING"
    /\ \A t \in Thread : status[t] = "BLOCKING" => pc[t] = "acquire"
    /\ \A m \in Mutex : \A i, j \in 1..Len(waitq[m]) :
         waitq[m][i] = waitq[m][j] => i = j

\* What a thread knows by where it is: a releasing one still owns the mutex,
\* a woken waiter owns it already (nobody can take it before it runs), and
\* what a caller has is what it owns, less the mutex of the call it is in.
\* taken and owner, written one after the other, say the same.
OwnershipByPlace ==
    /\ \A t \in Thread :
         /\ pc[t] = "client" <=> target[t] = NULL
         /\ pc[t] = "release" => owner[target[t]] = t
         /\ pc[t] = "acquire" /\ status[t] # "BLOCKING" => owner[target[t]] = t
         /\ has[t] = {m \in Mutex : owner[m] = t /\ m # target[t]}
    /\ \A m \in Mutex : taken[m] <=> owner[m] # NULL

\* crash() is called for mistakes of the callers only: recursion is reported
\* of a mutex that the caller has, a foreign release of one that it does not
\* have, and the held lists are never found corrupted.
CrashOnlyOnMisuse ==
    \A m \in Mutex :
      /\ crashed = <<"recursive", m>> => m \in has[current]
      /\ crashed = <<"nonowner", m>> => m \notin has[current]
      /\ crashed # <<"corrupted", m>>

\* Waiters are served in the order of their queue and nobody else gets in:
\* while a thread waits for m, m passes only to the first of its queue, with
\* no moment at which m is free.
NoBarging ==
    [][\A m \in Mutex :
         waitq[m] # <<>> /\ owner'[m] # owner[m] =>
            /\ owner'[m] = Head(waitq[m])
            /\ taken'[m]
            /\ waitq'[m] = Tail(waitq[m])]_vars
=============================================================================
