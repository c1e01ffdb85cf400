----------------------------- MODULE ThreadLife -----------------------------
(***************************************************************************)
(* How threads come and go: sched_thread_create with alloc_init_thread,    *)
(* and sched_thread_end with sched_thread_destroy (core/sched.c).          *)
(*                                                                         *)
(* sched_thread_create fills in the new thread in several writes, and the  *)
(* thread is ready to run before the last of them.  In a kernel built with *)
(* SCHED_NO_PREEMPT nothing comes between those writes: that is Spec.      *)
(* PreemptiveSpec is the default build, for a caller with interrupts       *)
(* enabled.                                                                *)
(*                                                                         *)
(* A thread that ends gives back the stack it still runs on, and no thread *)
(* that has one gets past that (EndFaults): the machine resets.  Only Boot,*)
(* whose stack was not allocated, leaves its record to be used again.      *)
(*                                                                         *)
(* Threads are the slots of thread_pool.  There is one process.            *)
(***************************************************************************)
EXTENDS Dispatch, FiniteSets

CONSTANTS
    Boot,       \* the thread of sched_init, which has no stack of its own
    Stack,      \* the stacks there is memory for
    BootStack   \* the stack that Boot runs on

ASSUME ThreadLifeAssumption ==
    Boot \in Thread /\ NULL \notin Stack /\ BootStack \notin Stack \cup {NULL}

\* thread_pool is in a memory that ends.
ASSUME FiniteThreads == IsFiniteSet(Thread)

VARIABLES
    slots,      \* the threads that are allocated from thread_pool
    stacks,     \* the stacks that are allocated
    firstThread,    \* sched_process.first_thread
    nextIn,     \* nextIn[t], sched_thread.next_in_process
    esp,        \* esp[t], the stack that registers.esp points into, NULL when
                \* the registers are not initialised
    low, high,  \* low[t] and high[t], sched_thread.stack_low and stack_high,
                \* as the stack they belong to
    pc,         \* pc[t], what t does next in sched_thread_create
    stackOf,    \* stackOf[t], the stack that t has allocated in it
    child,      \* child[t], the thread it creates
    irqOff,     \* the threads whose eflags have interrupts disabled
    faulted     \* the processor faulted with no stack to handle it on

lifeVars == <<slots, stacks, firstThread, nextIn, esp, low, high, pc, stackOf,
              child, irqOff, faulted>>
vars == <<current, status, lifeVars>>

PC == {"client", "slot", "publish", "registers", "low", "high"}

\* t is complete as far as its registers, runs, and is at l.
At(t, l) ==
    /\ current = t /\ pc[t] = l /\ ~faulted
    /\ \A u \in Thread : child[u] = t => pc[u] \in {"low", "high"}

Init ==
    /\ current = Boot
    /\ status = [t \in Thread |-> IF t = Boot THEN "RUNNING" ELSE "NEW"]
    /\ slots = {Boot}
    /\ stacks = {}
    /\ firstThread = Boot
    /\ nextIn = [t \in Thread |-> NULL]
    /\ esp = [t \in Thread |-> IF t = Boot THEN BootStack ELSE NULL]
    /\ low = [t \in Thread |-> NULL]
    /\ high = [t \in Thread |-> NULL]
    /\ pc = [t \in Thread |-> "client"]
    /\ stackOf = [t \in Thread |-> NULL]
    /\ child = [t \in Thread |-> NULL]
    /\ irqOff = {Boot}
    /\ faulted = FALSE

-----------------------------------------------------------------------------
(* sched_thread_create, by t.  The record comes as the pool has it: one    *)
(* that was used before still has the registers of that life.              *)

\* kmem_page_global_alloc of the stack.
CreateStack(t) ==
    \E s \in Stack \ stacks :
      /\ At(t, "client")
      /\ stacks' = stacks \cup {s}
      /\ stackOf' = [stackOf EXCEPT ![t] = s]
      /\ pc' = [pc EXCEPT ![t] = "slot"]
      /\ UNCHANGED <<dispatchVars, slots, firstThread, nextIn, esp, low, high,
                     child, irqOff, faulted>>

\* alloc_init_thread up to the read of first_thread.
CreateSlot(t) ==
    \E n \in Thread \ slots :
      /\ At(t, "slot")
      /\ slots' = slots \cup {n}
      /\ child' = [child EXCEPT ![t] = n]
      /\ low' = [low EXCEPT ![n] = NULL]
      /\ high' = [high EXCEPT ![n] = NULL]
      /\ nextIn' = [nextIn EXCEPT ![n] = firstThread]
      /\ pc' = [pc EXCEPT ![t] = "publish"]
      /\ UNCHANGED <<dispatchVars, stacks, firstThread, esp, stackOf, irqOff,
                     faulted>>

\* Mutant of CreateFails: the stack is not freed.
BugFailLeaks(t) ==
    /\ At(t, "slot")
    /\ irqOff' = irqOff \cup {t}
    /\ stackOf' = [stackOf EXCEPT ![t] = NULL]
    /\ pc' = [pc EXCEPT ![t] = "client"]
    /\ UNCHANGED <<dispatchVars, slots, stacks, firstThread, nextIn, esp, low,
                   high, child, faulted>>

\* No memory for it: the lock of the process, which is free, is released, and
\* with it eflags are loaded that were never saved, all zero.
CreateFails(t) ==
    /\ At(t, "slot")
    /\ irqOff' = irqOff \cup {t}
    /\ stacks' = stacks \ {stackOf[t]}
    /\ stackOf' = [stackOf EXCEPT ![t] = NULL]
    /\ pc' = [pc EXCEPT ![t] = "client"]
    /\ UNCHANGED <<dispatchVars, slots, firstThread, nextIn, esp, low, high,
                   child, faulted>>

\* The rest of alloc_init_thread: the new thread is listed and made ready.
CreatePublish(t) ==
    /\ At(t, "publish")
    /\ firstThread' = child[t]
    /\ status' = Woken(status, {child[t]})
    /\ pc' = [pc EXCEPT ![t] = "registers"]
    /\ UNCHANGED <<current, slots, stacks, nextIn, esp, low, high, stackOf,
                   child, irqOff, faulted>>

\* Mutant of CreateRegisters: no init_registers.
BugNoRegisters(t) ==
    /\ At(t, "registers")
    /\ pc' = [pc EXCEPT ![t] = "low"]
    /\ UNCHANGED <<dispatchVars, slots, stacks, firstThread, nextIn, esp, low,
                   high, stackOf, child, irqOff, faulted>>

\* Its registers are written, with interrupts enabled in eflags; then the two
\* ends of its stack.
CreateRegisters(t) ==
    /\ At(t, "registers")
    /\ esp' = [esp EXCEPT ![child[t]] = stackOf[t]]
    /\ irqOff' = irqOff \ {child[t]}
    /\ pc' = [pc EXCEPT ![t] = "low"]
    /\ UNCHANGED <<dispatchVars, slots, stacks, firstThread, nextIn, low, high,
                   stackOf, child, faulted>>

CreateLow(t) ==
    /\ At(t, "low")
    /\ low' = [low EXCEPT ![child[t]] = stackOf[t]]
    /\ pc' = [pc EXCEPT ![t] = "high"]
    /\ UNCHANGED <<dispatchVars, slots, stacks, firstThread, nextIn, esp, high,
                   stackOf, child, irqOff, faulted>>

CreateHigh(t) ==
    /\ At(t, "high")
    /\ high' = [high EXCEPT ![child[t]] = stackOf[t]]
    /\ stackOf' = [stackOf EXCEPT ![t] = NULL]
    /\ child' = [child EXCEPT ![t] = NULL]
    /\ pc' = [pc EXCEPT ![t] = "client"]
    /\ UNCHANGED <<dispatchVars, slots, stacks, firstThread, nextIn, esp, low,
                   irqOff, faulted>>

-----------------------------------------------------------------------------

\* The list of the process, followed from first_thread.
Listed ==
    LET next[i \in 1..Cardinality(Thread)] ==
          IF i = 1 THEN firstThread
          ELSE IF next[i - 1] = NULL THEN NULL ELSE nextIn[next[i - 1]]
    IN {next[i] : i \in 1..Cardinality(Thread)} \ {NULL}

\* Mutant of Unlist: only the first thread of the list is looked at.
BugUnlistFirst(t) ==
    /\ firstThread' = IF firstThread = t THEN nextIn[t] ELSE firstThread
    /\ UNCHANGED nextIn

\* sched_thread_destroy takes t out of that list, if it is in it.
Unlist(t) ==
    \/ /\ firstThread = t
       /\ firstThread' = nextIn[t]
       /\ UNCHANGED nextIn
    \/ /\ firstThread # t
       /\ nextIn' = [p \in Thread |-> IF p \in Listed /\ nextIn[p] = t
                                      THEN nextIn[t] ELSE nextIn[p]]
       /\ UNCHANGED firstThread

\* sched_thread_end of the thread of the boot, whose stack is nobody's to free:
\* it frees its own record and yields, with interrupts disabled throughout.
\* The record keeps its registers.
End(t) ==
    /\ At(t, "client")
    /\ low[t] = NULL
    /\ Unlist(t)
    /\ slots' = slots \ {t}
    /\ SwitchAny([status EXCEPT ![t] = "NEW"])
    /\ UNCHANGED <<stacks, esp, low, high, pc, stackOf, child, irqOff, faulted>>

\* sched_thread_end of a thread with a stack: sched_thread_destroy has
\* kmem_page_global_free unmap it and flush the mapping, and returns through
\* it.  There is no other stack to take the fault on.  Its address and its
\* frames are not given back yet.
EndFaults(t) ==
    /\ At(t, "client")
    /\ low[t] # NULL
    /\ faulted' = TRUE
    /\ UNCHANGED <<dispatchVars, slots, stacks, firstThread, nextIn, esp, low, high,
                   pc, stackOf, child, irqOff>>

\* sched_sleep(0).
Yield(t) ==
    /\ At(t, "client")
    /\ PreemptSwitch
    /\ UNCHANGED lifeVars

\* pit_tick_handle over the idle loop.
IdleTick ==
    /\ current = NULL /\ ~faulted
    /\ PreemptSwitch
    /\ UNCHANGED lifeVars

\* pit_tick_handle at the end of a quantum.  The boot loader starts the
\* kernel with interrupts disabled and Boot never enables them.
Preempt ==
    /\ current \notin irqOff \cup {NULL} /\ ~faulted
    /\ PreemptSwitch
    /\ UNCHANGED lifeVars

\* Nothing runs after the fault.
Reset == faulted /\ UNCHANGED vars

Next ==
    \/ \E t \in Thread :
         \/ CreateStack(t) \/ CreateSlot(t) \/ CreateFails(t) \/ CreatePublish(t)
         \/ CreateRegisters(t) \/ CreateLow(t) \/ CreateHigh(t)
         \/ End(t) \/ EndFaults(t) \/ Yield(t)
    \/ IdleTick \/ Reset

Spec == Init /\ [][Next]_vars
PreemptiveSpec == Init /\ [][Next \/ Preempt]_vars

-----------------------------------------------------------------------------

\* A thread that runs has its record, and its registers point into the stack
\* that it was created with, still allocated, or into that of the boot for the
\* thread that has none; and no other thread's do.  The fields that Boot left
\* in its record when it ended would break it where the next thread there kept
\* one of them.
RunsOnOwnStack ==
    current # NULL =>
      /\ current \in slots
      /\ IF low[current] = NULL
         THEN current = Boot /\ esp[current] = BootStack
         ELSE /\ esp[current] = low[current] /\ high[current] = low[current]
              /\ low[current] \in stacks
      /\ \A t \in slots \ {current} : esp[t] # esp[current]

\* No path of sched_thread_create leaks a stack or gives one to two threads:
\* each allocated one belongs to one thread, or to the one that is creating
\* another.  (The end of a thread with a stack gives none back, as the machine
\* does not survive it.)
StacksAccounted ==
    /\ stacks = ({low[t] : t \in slots} \cup {stackOf[t] : t \in slots}) \ {NULL}
    /\ \A t, u \in slots : t # u /\ low[t] # NULL => low[t] # low[u]

\* The list of the process has the threads that were made ready and have not
\* ended, and links to no freed record: Boot is taken out of wherever in the
\* list the threads made since have left it, and its record comes in again.
ListExact == Listed = {t \in slots : status[t] # "NEW"}

\* What sched_switch_thread asserts of the thread it switches to: the stack
\* pointer is between the two ends of the stack.
StackAsserted ==
    current # NULL /\ low[current] # NULL =>
        esp[current] = low[current] /\ high[current] = low[current]
=============================================================================
