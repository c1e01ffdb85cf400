------------------------------- MODULE Sched --------------------------------
(***************************************************************************)
(* The scheduler of core/sched.c: the run queue of every process, the      *)
(* queue of processes, the sorted sleep queue and the PIT tick handler.    *)
(*                                                                         *)
(* Every operation below runs with interrupts disabled from its first      *)
(* change of shared state to its switch (an interrupt gate, or cli and a   *)
(* spinlock), and there is one processor, so each is one atomic step.      *)
(* Spinlocks therefore do not appear.  ticks only grows and is only        *)
(* compared with sleep_until, so the model keeps the difference, in        *)
(* remaining, and needs no bound on time.                                  *)
(***************************************************************************)
EXTENDS Naturals, Sequences

CONSTANTS
    Thread,     \* the threads that may come to exist
    Process,    \* the processes that may come to exist
    NULL,       \* no thread
    ProcessOf,  \* ProcessOf[t], sched_thread.process
    Quantum,    \* TICKS_BEFORE_PREEMPT
    MaxSleep    \* bound: the longest sleep, in ticks, a thread asks for

ASSUME SchedAssumption ==
    /\ Thread # {} /\ NULL \notin Thread
    /\ ProcessOf \in [Thread -> Process]
    /\ Quantum \in Nat \ {0}
    /\ MaxSleep \in Nat

VARIABLES
    current,    \* current_thread
    status,     \* status[t], sched_thread.status; NEW before its creation
    runq,       \* runq[p], sched_process.thread_run_queue
    procq,      \* process_run_queue
    sleepq,     \* sleep_queue
    remaining,  \* remaining[t], sleep_until - ticks while t sleeps, else 0
    quantum     \* ticks_until_preempt

vars == <<current, status, runq, procq, sleepq, remaining, quantum>>

Status == {"NEW", "RUNNING", "READY", "BLOCKING", "SLEEPING", "DEAD"}

Occurs(q, x) == \E i \in DOMAIN q : q[i] = x
NoRepeat(q) == \A i, j \in DOMAIN q : q[i] = q[j] => i = j

\* The queue q after k times taking its first element to its back.
Rotate(q, k) == SubSeq(q, k + 1, Len(q)) \o SubSeq(q, 1, k)

\* The length of the longest prefix of q whose elements are all in S.
PrefixLen(q, S) ==
    CHOOSE k \in 0..Len(q) :
        /\ \A i \in 1..k : q[i] \in S
        /\ k < Len(q) => q[k + 1] \notin S

-----------------------------------------------------------------------------

\* sched_init: the first thread of the kernel process runs.
Init ==
    /\ current \in Thread
    /\ status = [t \in Thread |-> IF t = current THEN "RUNNING" ELSE "NEW"]
    /\ runq = [p \in Process |-> <<>>]
    /\ procq = <<ProcessOf[current]>>
    /\ sleepq = <<>>
    /\ remaining = [t \in Thread |-> 0]
    /\ quantum = Quantum

\* Mutant of EnqueueReady: to the front of the queue.
BugEnqueueFront(rq, t) ==
    [p \in Process |-> IF p = ProcessOf[t] THEN <<t>> \o rq[p] ELSE rq[p]]

\* sched_thread_enqueue on the run queue of the thread's process.
EnqueueReady(rq, t) ==
    [p \in Process |-> IF p = ProcessOf[t] THEN Append(rq[p], t) ELSE rq[p]]

\* The loop of pit_tick_handle: the threads of q, one after the other.
EnqueueAll(rq, q) ==
    LET after[i \in 0..Len(q)] ==
            IF i = 0 THEN rq ELSE EnqueueReady(after[i - 1], q[i])
    IN after[Len(q)]

\* sched_switch_thread to the first ready thread of p.  It returns before it
\* writes the status when that thread is the one that was running.
SwitchInto(p, rq, st) ==
    /\ current' = Head(rq[p])
    /\ runq' = [rq EXCEPT ![p] = Tail(@)]
    /\ status' = IF current' = current THEN st
                                       ELSE [st EXCEPT ![current'] = "RUNNING"]
    /\ quantum' = Quantum

\* sched_switch_any when some process has a ready thread: processes are
\* taken from the front of the queue and put at its back until it is met.
SwitchReady(rq, st) ==
    \E k \in 1..Len(procq) :
      /\ \A i \in 1..(k - 1) : rq[procq[i]] = <<>>
      /\ rq[procq[k]] # <<>>
      /\ procq' = Rotate(procq, k)
      /\ SwitchInto(procq[k], rq, st)

NoneReady(rq) == \A i \in 1..Len(procq) : rq[procq[i]] = <<>>

Idle(rq, st, q) ==
    /\ procq' = q
    /\ current' = NULL
    /\ runq' = rq
    /\ status' = st

\* Mutant of GoIdle: the countdown starts as for a thread.
BugIdleQuantum(rq, st) ==
    NoneReady(rq) /\ Idle(rq, st, Rotate(procq, 1)) /\ quantum' = Quantum

\* sched_switch_any when none has: the full circle puts the first process
\* back once more.
GoIdle(rq, st) ==
    NoneReady(rq) /\ Idle(rq, st, Rotate(procq, 1)) /\ quantum' = 1

\* sched_switch_any with the run queues rq and the statuses st.
SwitchAny(rq, st) == SwitchReady(rq, st) \/ GoIdle(rq, st)

\* sched_process_create, as far as the scheduler is concerned.
CreateProcess(p) ==
    /\ current # NULL
    /\ ~Occurs(procq, p)
    /\ procq' = Append(procq, p)
    /\ UNCHANGED <<current, status, runq, sleepq, remaining, quantum>>

\* alloc_init_thread, called by sched_thread_create.
CreateThread(t) ==
    /\ current # NULL
    /\ status[t] = "NEW"
    /\ Occurs(procq, ProcessOf[t])
    /\ status' = [status EXCEPT ![t] = "READY"]
    /\ runq' = EnqueueReady(runq, t)
    /\ UNCHANGED <<current, procq, sleepq, remaining, quantum>>

\* The sleepers whose sleep_until the tick reaches.
Due == {t \in Thread : remaining[t] <= 1}

\* pit_tick_handle.  The sleepers at the front of the sleep queue that are
\* due become ready in the order of that queue; then the quantum is counted
\* down and the running thread, if any, goes to the back of its run queue.
Tick ==
    LET left == [t \in Thread |-> IF remaining[t] > 0 THEN remaining[t] - 1 ELSE 0]
        due == PrefixLen(sleepq, Due)
        woken == SubSeq(sleepq, 1, due)
        st == [t \in Thread |-> IF Occurs(woken, t) THEN "READY" ELSE status[t]]
        rq == EnqueueAll(runq, woken)
    IN /\ remaining' = left
       /\ sleepq' = SubSeq(sleepq, due + 1, Len(sleepq))
       /\ \/ /\ quantum > 1
             /\ status' = st
             /\ runq' = rq
             /\ quantum' = quantum - 1
             /\ UNCHANGED <<current, procq>>
          \/ /\ quantum = 1
             /\ current # NULL
             /\ SwitchAny(EnqueueReady(rq, current),
                          [st EXCEPT ![current] = "READY"])
          \/ /\ quantum = 1
             /\ current = NULL
             /\ SwitchAny(rq, st)

\* Mutant of SleepZero: the status is not written.
BugSleepZero ==
    /\ current # NULL
    /\ SwitchAny(EnqueueReady(runq, current), status)
    /\ UNCHANGED <<sleepq, remaining>>

\* sched_sleep for less than a tick: to the back of the run queue.
SleepZero ==
    /\ current # NULL
    /\ SwitchAny(EnqueueReady(runq, current), [status EXCEPT ![current] = "READY"])
    /\ UNCHANGED <<sleepq, remaining>>

\* Mutant of Sleep: to the back of the sleep queue.
BugSleepUnsorted(n) ==
    /\ current # NULL
    /\ sleepq' = Append(sleepq, current)
    /\ remaining' = [remaining EXCEPT ![current] = n]
    /\ SwitchAny(runq, [status EXCEPT ![current] = "SLEEPING"])

\* sched_sleep for n ticks: inserted before the first sleeper that is not
\* due earlier.
Sleep(n) ==
    LET before == PrefixLen(sleepq, {t \in Thread : remaining[t] < n}) IN
    /\ current # NULL
    /\ sleepq' = SubSeq(sleepq, 1, before) \o <<current>>
                   \o SubSeq(sleepq, before + 1, Len(sleepq))
    /\ remaining' = [remaining EXCEPT ![current] = n]
    /\ SwitchAny(runq, [status EXCEPT ![current] = "SLEEPING"])

\* Mutant of Block: the status is not written.
BugBlock ==
    /\ current # NULL
    /\ SwitchAny(runq, status)
    /\ UNCHANGED <<sleepq, remaining>>

\* A lock marks the running thread blocked, puts it in a wait queue of its
\* own and calls sched_yield.
Block ==
    /\ current # NULL
    /\ SwitchAny(runq, [status EXCEPT ![current] = "BLOCKING"])
    /\ UNCHANGED <<sleepq, remaining>>

\* sched_thread_wake, called by a lock that has taken t from its wait queue;
\* from a thread, or from an interrupt handler, also over the idle loop.
Wake(t) ==
    /\ status[t] = "BLOCKING"
    /\ status' = [status EXCEPT ![t] = "READY"]
    /\ runq' = EnqueueReady(runq, t)
    /\ UNCHANGED <<current, procq, sleepq, remaining, quantum>>

\* sched_thread_end: the thread is gone before it yields.  (Only the thread of
\* the boot gets that far, see module ThreadLife.  The queues would not notice.)
End ==
    /\ current # NULL
    /\ SwitchAny(runq, [status EXCEPT ![current] = "DEAD"])
    /\ UNCHANGED <<sleepq, remaining>>

Next ==
    \/ \E p \in Process : CreateProcess(p)
    \/ \E t \in Thread : CreateThread(t) \/ Wake(t)
    \/ \E n \in 1..MaxSleep : Sleep(n)
    \/ Tick \/ SleepZero \/ Block \/ End

Spec == Init /\ [][Next]_vars

\* The PIT keeps ticking; nothing else is assumed of the threads.
FairSpec == Spec /\ WF_vars(Tick)

-----------------------------------------------------------------------------

\* The status of a thread names the one queue it is in: a ready thread that
\* is not running is once in the run queue of its own process and nowhere
\* else, a sleeping one once in the sleep queue, and no other thread (running,
\* blocked, dead) is in any queue of the scheduler.  The single next_in_queue
\* link of a thread, shared by all queues, depends on it.
QueuesExact ==
    /\ NoRepeat(sleepq)
    /\ \A p \in Process : NoRepeat(runq[p])
    /\ \A t \in Thread :
         /\ Occurs(sleepq, t) <=> status[t] = "SLEEPING"
         /\ \A p \in Process :
              Occurs(runq[p], t) <=>
                 p = ProcessOf[t] /\ status[t] = "READY" /\ t # current

\* A sleeping thread is woken by the tick that ends its sleep, no earlier and
\* no later.  The tick handler stops at the first sleeper that is not due, so
\* this rests on the order of the queue, which every sched_sleep must keep,
\* and on the ticks of threads that went to sleep at different moments.
SleepsExactly ==
    [][\A t \in Thread :
         status[t] = "SLEEPING" =>
           (status'[t] # "SLEEPING" <=> Tick /\ remaining[t] = 1)]_vars

\* A wake-up over the idle loop does not switch by itself, so the processor
\* may idle while a thread is ready; the very next tick ends that.
IdleEndsAtTick ==
    [][\A t \in Thread :
         Tick /\ current = NULL /\ status[t] = "READY" => current' # NULL]_vars

\* Every ready thread gets the processor, even when all the others keep
\* yielding, sleeping and waking: the two round robins starve nobody.
ReadyRuns == \A t \in Thread : status[t] = "READY" ~> current = t

-----------------------------------------------------------------------------

\* The status field of the running thread stays READY when it was preempted
\* and chosen again; Dispatch shows it running.
ShownStatus == [t \in Thread |-> IF t = current THEN "RUNNING" ELSE status[t]]

\* sched.c keeps the promise of Dispatch on which the locks are built.
Contract == INSTANCE Dispatch WITH status <- ShownStatus
ImplementsDispatch == Contract!DispatchSpec
=============================================================================
