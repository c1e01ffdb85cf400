------------------------------ MODULE Dispatch ------------------------------
(***************************************************************************)
(* What the scheduler of core/sched.c promises to the code that blocks on  *)
(* it.  One processor; at most one thread runs; a switch goes to SOME      *)
(* ready thread, and only to the idle loop when no thread is ready.  Which *)
(* ready thread is chosen is left open: module Sched describes the two     *)
(* round robins that choose it, and is checked to implement this module.   *)
(*                                                                         *)
(* The lock modules EXTEND this one: they use Woken and SwitchTo for the   *)
(* calls of sched_thread_wake and sched_yield, and each of them is checked *)
(* to take only the steps that Spec allows.                                *)
(***************************************************************************)
EXTENDS Naturals, Sequences

CONSTANTS
    Thread,     \* the threads that exist
    NULL        \* no thread: the processor is in sched_idle

ASSUME DispatchAssumption == Thread # {} /\ NULL \notin Thread

VARIABLES
    current,    \* current_thread
    status      \* status[t], sched_thread.status

dispatchVars == <<current, status>>

\* The states a thread that gave the processor up can be in without being
\* schedulable.
Waiting == {"BLOCKING", "SLEEPING"}
Status == {"NEW", "RUNNING", "READY", "DEAD"} \cup Waiting

ReadyIn(st) == {t \in Thread : st[t] = "READY"}

\* sched_thread_wake on every thread of W: they become schedulable, nobody
\* is switched to.
Woken(st, W) == [t \in Thread |-> IF t \in W THEN "READY" ELSE st[t]]

\* sched_switch_any once the statuses are st: the processor goes to a ready
\* thread, or to the idle loop when there is none.
SwitchAny(st) ==
    \/ \E n \in ReadyIn(st) :
          /\ current' = n
          /\ status' = [st EXCEPT ![n] = "RUNNING"]
    \/ /\ ReadyIn(st) = {}
       /\ current' = NULL
       /\ status' = st

\* The running thread is preempted by pit_tick_handle, which makes it ready
\* before it switches.  From the idle loop there is nobody to make ready.
PreemptSwitch ==
    \/ /\ current # NULL
       /\ SwitchAny([status EXCEPT ![current] = "READY"])
    \/ /\ current = NULL
       /\ SwitchAny(status)

\* The running thread t marks itself blocked, wakes the threads of W and
\* yields, all with interrupts disabled.
BlockSwitch(t, W) ==
    SwitchAny(Woken([status EXCEPT ![t] = "BLOCKING"], W))

-----------------------------------------------------------------------------
(* The contract as a specification of its own.                             *)

DispatchInit ==
    /\ current \in Thread \cup {NULL}
    /\ status \in [Thread -> {"NEW", "RUNNING", "READY"}]
    /\ \A t \in Thread : status[t] = "RUNNING" <=> current = t

WaitingThreads == {t \in Thread : status[t] \in Waiting}

\* The running thread, or an interrupt handler, wakes waiting threads.
DispatchWake ==
    \E W \in SUBSET WaitingThreads :
        /\ status' = Woken(status, W)
        /\ UNCHANGED current

\* The running thread leaves the processor in state s, after waking W.
DispatchLeave ==
    \E W \in SUBSET WaitingThreads, s \in Status \ {"RUNNING"} :
        /\ current # NULL
        /\ SwitchAny(Woken([status EXCEPT ![current] = s], W))

\* A tick of the idle loop: sleepers may have become ready.
DispatchIdleTick ==
    \E W \in SUBSET WaitingThreads :
        /\ current = NULL
        /\ SwitchAny(Woken(status, W))

\* The running thread creates another one, which is ready at once.
DispatchCreate ==
    \E t \in Thread :
        /\ current # NULL
        /\ status[t] = "NEW"
        /\ status' = Woken(status, {t})
        /\ UNCHANGED current

DispatchNext == DispatchWake \/ DispatchCreate \/ DispatchLeave \/ DispatchIdleTick

DispatchSpec == DispatchInit /\ [][DispatchNext]_dispatchVars

\* The running thread is the only one marked so.
DispatchTypeOK ==
    /\ current \in Thread \cup {NULL}
    /\ status \in [Thread -> Status]
    /\ \A t \in Thread : status[t] = "RUNNING" <=> current = t
=============================================================================
