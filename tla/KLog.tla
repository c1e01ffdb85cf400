-------------------------------- MODULE KLog --------------------------------
(***************************************************************************)
(* The kernel log of core/klog.c, composed with the semaphore it blocks    *)
(* its background thread on.                                               *)
(*                                                                         *)
(* Messages are numbered in the order in which they are logged, so a       *)
(* message is a number and the log prints right when it prints 1, 2, 3...  *)
(* Filtering by level and formatting are left out.  So are the console and *)
(* flush mutexes: the background thread may stay in front of them, in      *)
(* place "locks", for as long as it takes, and nothing else in this module *)
(* looks at them.                                                          *)
(***************************************************************************)
EXTENDS Semaphore

CONSTANTS
    Flusher,        \* the thread of klog_background_thread
    MaxMessages     \* bound: the messages logged in a run of the kernel

ASSUME KLogAssumption ==
    /\ Flusher \in Thread /\ Thread # {Flusher}
    /\ MaxMessages \in Nat /\ MaxMessages <= MaxCredit
    /\ InitialValue = 0

VARIABLES
    logged,         \* the number of messages logged
    buf,            \* the list from buf_head to buf_tail
    detached,       \* the list klog_flush has taken off and not yet printed
    printed,        \* what the consoles were given, in order
    place,          \* where the background thread is in its loop
    flushThread,    \* flush_thread # NULL
    halted          \* do_crash has run

logVars == <<logged, buf, detached, printed, place, flushThread, halted>>
allVars == <<vars, logVars>>

Numbers(n) == [i \in 1..n |-> i]

\* klog_init.  The other threads exist from the start, which allows more
\* orders than there are while the kernel comes up.
KLogInit ==
    /\ current \in Thread \ {Flusher}
    /\ status = [t \in Thread |-> IF t = current THEN "RUNNING"
                                  ELSE IF t = Flusher THEN "NEW" ELSE "READY"]
    /\ SemaphoreInit
    /\ logged = 0
    /\ buf = <<>> /\ detached = <<>> /\ printed = <<>>
    /\ place = "wait"
    /\ flushThread = FALSE
    /\ halted = FALSE

\* klog_start_background_thread, on the thread that brings the kernel up.
\* That thread runs with interrupts disabled, so the thread it creates does
\* not run before flush_thread is set.
StartFlusher ==
    /\ current \in Thread \ {Flusher}
    /\ status[Flusher] = "NEW"
    /\ status' = Woken(status, {Flusher})
    /\ flushThread' = TRUE
    /\ UNCHANGED <<current, semVars, logged, buf, detached, printed, place, halted>>

\* klog before there is a background thread: printed by the caller.
LogDirect ==
    /\ Interruptible
    /\ logged < MaxMessages
    /\ ~flushThread
    /\ logged' = logged + 1
    /\ printed' = Append(printed, logged')
    /\ UNCHANGED <<vars, buf, detached, place, flushThread, halted>>

\* Mutant of LogBuffered: the semaphore is not signalled.
BugLogSilent ==
    /\ logged < MaxMessages
    /\ flushThread
    /\ logged' = logged + 1
    /\ buf' = Append(buf, logged')
    /\ Interruptible
    /\ UNCHANGED <<vars, detached, printed, place, flushThread, halted>>

\* klog from then on, by a thread or an interrupt handler: the message is
\* appended and the semaphore signalled under buf_lock.  Without memory for
\* it, it is copied through NULL before that is looked at, and the fault is a
\* crash (CrashFlush).
LogBuffered ==
    /\ logged < MaxMessages
    /\ flushThread
    /\ logged' = logged + 1
    /\ buf' = Append(buf, logged')
    /\ Signal
    /\ UNCHANGED <<detached, printed, place, flushThread, halted>>

\* The background thread is at place l of its loop.
FlusherAt(l) == current = Flusher /\ place = l

FlushWait ==
    /\ FlusherAt("wait")
    /\ \/ WaitTake(Flusher) /\ place' = "locks"
       \/ WaitBlock(Flusher) /\ UNCHANGED place
       \/ WaitReturn(Flusher) /\ place' = "locks"
    /\ UNCHANGED <<logged, buf, detached, printed, flushThread, halted>>

\* The three mutexes are acquired.
FlushLocked ==
    /\ FlusherAt("locks")
    /\ place' = "flush"
    /\ UNCHANGED <<vars, logged, buf, detached, printed, flushThread, halted>>

\* Mutant of DrainSemaphore: nothing is drained.
BugDrainNone == UNCHANGED vars

\* Mutant of DrainSemaphore: a try succeeds with a value of 0.
BugDrainBelow ==
    /\ value' = IF value >= 0 THEN -1 ELSE value
    /\ credit' = credit - (value - value')
    /\ UNCHANGED <<current, status, semq, inWait>>

\* semaphore_try_wait until it fails.
DrainSemaphore ==
    /\ value' = IF value > 0 THEN 0 ELSE value
    /\ credit' = credit - (value - value')
    /\ UNCHANGED <<current, status, semq, inWait>>

\* Mutant of FlushDetach: the list stays where it was.
BugDetachCopies ==
    /\ FlusherAt("flush")
    /\ flushThread
    /\ DrainSemaphore
    /\ detached' = buf
    /\ place' = "print"
    /\ UNCHANGED <<logged, buf, printed, flushThread, halted>>

\* klog_flush under buf_lock: the semaphore is drained and the list taken.
\* While flush_thread is not set it returns at once.
FlushDetach ==
    /\ FlusherAt("flush")
    /\ IF flushThread
         THEN /\ DrainSemaphore
              /\ detached' = buf
              /\ buf' = <<>>
         ELSE UNCHANGED <<vars, buf, detached>>
    /\ place' = "print"
    /\ UNCHANGED <<logged, printed, flushThread, halted>>

\* klog_flush, one message of the list that was taken.
FlushPrint ==
    /\ FlusherAt("print")
    /\ detached # <<>>
    /\ printed' = Append(printed, Head(detached))
    /\ detached' = Tail(detached)
    /\ UNCHANGED <<vars, logged, buf, place, flushThread, halted>>

\* klog_flush returns, the mutexes are released, and the loop starts over.
FlushDone ==
    /\ FlusherAt("print")
    /\ detached = <<>>
    /\ place' = "wait"
    /\ UNCHANGED <<vars, logged, buf, detached, printed, flushThread, halted>>

\* Mutant of CrashFlush: no klog_flush.
BugCrashSilent ==
    /\ halted' = TRUE
    /\ UNCHANGED <<vars, logged, buf, detached, printed, place, flushThread>>

\* do_crash, by anyone and at any moment at which buf_lock is free: klog_flush
\* with a list of its own, and no return.
CrashFlush ==
    /\ IF flushThread
         THEN /\ DrainSemaphore
              /\ printed' = printed \o buf
              /\ buf' = <<>>
         ELSE UNCHANGED <<vars, printed, buf>>
    /\ halted' = TRUE
    /\ UNCHANGED <<logged, detached, place, flushThread>>

\* Another thread sleeps, or its sleep is over, and the tick.
OthersRun ==
    /\ \/ /\ current \in Thread \ {Flusher}
          /\ SwitchAny([status EXCEPT ![current] = "SLEEPING"])
       \/ \E t \in Thread :
            /\ Interruptible
            /\ status[t] = "SLEEPING"
            /\ status' = Woken(status, {t})
            /\ UNCHANGED current
    /\ UNCHANGED <<semVars, logVars>>

Tick == Preempt /\ UNCHANGED logVars

FlusherStep == FlushWait \/ FlushLocked \/ FlushDetach \/ FlushPrint \/ FlushDone

KLogNext ==
    \/ /\ ~halted
       /\ \/ StartFlusher \/ LogDirect \/ LogBuffered
          \/ FlusherStep \/ CrashFlush \/ OthersRun \/ Tick
    \/ halted /\ UNCHANGED allVars

KLogSpec == KLogInit /\ [][KLogNext]_allVars

RunFlusher == ~halted /\ FlusherStep
SwitchToFlusher == KLogNext /\ current # Flusher /\ current' = Flusher

\* Sched gives the background thread a turn whenever it is ready, and a turn
\* is a quantum of several ticks: however often the thread is preempted, it
\* goes on with its loop, hence strong fairness.  Nobody is made to log.
KLogFairSpec ==
    /\ KLogSpec
    /\ SF_allVars(RunFlusher)
    /\ SF_allVars(SwitchToFlusher)

-----------------------------------------------------------------------------

\* Every message is printed once and in the order of logging, or is still on
\* its way in one of the two lists, also when messages arrive, from threads
\* and from interrupts, while the background thread prints.
InOrderOnce == ~halted => printed \o detached \o buf = Numbers(logged)

\* No message waits for a wake-up that is not coming.  The semaphore counts
\* the messages on the list, less the one whose signal the background thread
\* has used to get out of semaphore_wait and not yet answered by a flush; in
\* particular the list is empty while that thread is blocked, and draining
\* the semaphore takes no signal of a message that stays behind.
SignalsMatchMessages ==
    ~halted =>
      value = Len(buf) - IF Flusher \in inWait \/ place \in {"locks", "flush"}
                         THEN 1 ELSE 0

\* A crash prints all that was logged, except what the background thread had
\* taken and not printed: that list is known to nobody else.
CrashLosesOnlyDetached ==
    halted =>
      \E k \in 0..logged :
        /\ printed = [i \in 1..(logged - Len(detached)) |->
                        IF i <= k THEN i ELSE i + Len(detached)]
        /\ detached = [i \in 1..Len(detached) |-> k + i]
        /\ buf = <<>>

\* A message that is logged is printed, if the kernel does not crash first.
EveryMessagePrinted ==
    \A n \in 1..MaxMessages : logged >= n ~> (n <= Len(printed) \/ halted)
=============================================================================
