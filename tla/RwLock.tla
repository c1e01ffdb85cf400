------------------------------- MODULE RwLock -------------------------------
(***************************************************************************)
(* The reader-writer lock of lock/rwlock.c.                                *)
(*                                                                         *)
(* Every operation runs under the spinlock of the lock, so each is one     *)
(* step; the two blocking ones have a second step in which the woken       *)
(* thread returns, without looking at the lock again.                      *)
(*                                                                         *)
(* rwlock_try_acquire_write is kept out of Next and in NextWithTryWrite:   *)
(* it lets a writer in beside readers, and what the lock does from then on *)
(* is a question of its own.                                               *)
(***************************************************************************)
EXTENDS Dispatch, FiniteSets

VARIABLES
    readers,    \* rwlock.readers
    writers,    \* rwlock.writers, the queued ones included
    readq,      \* rwlock.read_queue
    writeq,     \* rwlock.write_queue
    mode,       \* mode[t], what t has or is waiting for, as its code sees it
    crashed     \* "no", or which assertion failed or pointer was NULL

lockVars == <<readers, writers, readq, writeq>>
vars == <<current, status, readers, writers, readq, writeq, mode, crashed>>

\* "wantRead" and "wantWrite": in an acquire, behind its sched_yield.
Mode == {"none", "wantRead", "wantWrite", "read", "write"}
Crash == {"no", "readersAtWriteRelease", "nullWriter"}

InSeq(q, t) == \E i \in 1..Len(q) : q[i] = t
Elements(q) == {q[i] : i \in 1..Len(q)}
With(m) == {t \in Thread : mode[t] = m}

\* t runs code of its own, with the lock in mode m.
At(t, m) == crashed = "no" /\ current = t /\ mode[t] = m

Init ==
    /\ current \in Thread
    /\ status = [t \in Thread |-> IF t = current THEN "RUNNING" ELSE "READY"]
    /\ readers = 0 /\ writers = 0
    /\ readq = <<>> /\ writeq = <<>>
    /\ mode = [t \in Thread |-> "none"]
    /\ crashed = "no"

-----------------------------------------------------------------------------

\* Mutant of ReadEnter: writers are not looked at.
BugReadEnter(t) ==
    /\ At(t, "none")
    /\ readers' = readers + 1
    /\ mode' = [mode EXCEPT ![t] = "read"]
    /\ UNCHANGED <<dispatchVars, writers, readq, writeq, crashed>>

\* rwlock_acquire_read with no writer about.
ReadEnter(t) ==
    /\ At(t, "none")
    /\ writers = 0
    /\ readers' = readers + 1
    /\ mode' = [mode EXCEPT ![t] = "read"]
    /\ UNCHANGED <<dispatchVars, writers, readq, writeq, crashed>>

\* rwlock_try_acquire_read: the same, or nothing at all.
TryRead(t) == ReadEnter(t)

\* rwlock_acquire_read behind a writer, even one that is only queued.
ReadBlock(t) ==
    /\ At(t, "none")
    /\ writers # 0
    /\ readq' = Append(readq, t)
    /\ mode' = [mode EXCEPT ![t] = "wantRead"]
    /\ BlockSwitch(t, {})
    /\ UNCHANGED <<readers, writers, writeq, crashed>>

\* rwlock_acquire_write of a lock nobody has or waits for.
WriteEnter(t) ==
    /\ At(t, "none")
    /\ writers = 0 /\ readers = 0
    /\ writers' = 1
    /\ mode' = [mode EXCEPT ![t] = "write"]
    /\ UNCHANGED <<dispatchVars, readers, readq, writeq, crashed>>

\* Mutant of WriteBlock: the queued writer is not counted.
BugWriteBlock(t) ==
    /\ At(t, "none")
    /\ ~(writers = 0 /\ readers = 0)
    /\ writeq' = Append(writeq, t)
    /\ mode' = [mode EXCEPT ![t] = "wantWrite"]
    /\ BlockSwitch(t, {})
    /\ UNCHANGED <<readers, writers, readq, crashed>>

\* rwlock_acquire_write of any other lock: counted first, then queued.
WriteBlock(t) ==
    /\ At(t, "none")
    /\ ~(writers = 0 /\ readers = 0)
    /\ writers' = writers + 1
    /\ writeq' = Append(writeq, t)
    /\ mode' = [mode EXCEPT ![t] = "wantWrite"]
    /\ BlockSwitch(t, {})
    /\ UNCHANGED <<readers, readq, crashed>>

\* A woken thread returns from the acquire it blocked in.
AcquireReturn(t) ==
    /\ \/ At(t, "wantRead") /\ mode' = [mode EXCEPT ![t] = "read"]
       \/ At(t, "wantWrite") /\ mode' = [mode EXCEPT ![t] = "write"]
    /\ UNCHANGED <<dispatchVars, lockVars, crashed>>

\* rwlock_try_acquire_write that succeeds.  It looks at the writers only.
TryWrite(t) ==
    /\ At(t, "none")
    /\ writers = 0
    /\ writers' = 1
    /\ mode' = [mode EXCEPT ![t] = "write"]
    /\ UNCHANGED <<dispatchVars, readers, readq, writeq, crashed>>

\* The first queued writer is woken.  With an empty queue sched_thread_wake
\* is called on NULL.
WakeWriter ==
    \/ /\ writeq # <<>>
       /\ writeq' = Tail(writeq)
       /\ status' = Woken(status, {Head(writeq)})
       /\ UNCHANGED crashed
    \/ /\ writeq = <<>>
       /\ crashed' = "nullWriter"
       /\ UNCHANGED <<writeq, status>>

\* Mutant of ReadRelease: no writer is woken.
BugReadReleaseSilent(t) ==
    /\ At(t, "read")
    /\ readers' = readers - 1
    /\ mode' = [mode EXCEPT ![t] = "none"]
    /\ UNCHANGED <<dispatchVars, writers, readq, writeq, crashed>>

\* rwlock_release_read: the last reader wakes a writer, if one is counted.
ReadRelease(t) ==
    /\ At(t, "read")
    /\ readers' = readers - 1
    /\ mode' = [mode EXCEPT ![t] = "none"]
    /\ \/ readers' = 0 /\ writers # 0 /\ WakeWriter
       \/ /\ ~(readers' = 0 /\ writers # 0)
          /\ UNCHANGED <<writeq, status, crashed>>
    /\ UNCHANGED <<current, writers, readq>>

\* rwlock_release_write: to the next writer, else to all queued readers.
WriteRelease(t) ==
    /\ At(t, "write")
    /\ readers = 0
    /\ writers' = writers - 1
    /\ mode' = [mode EXCEPT ![t] = "none"]
    /\ \/ /\ writers' # 0
          /\ WakeWriter
          /\ UNCHANGED <<readers, readq>>
       \/ /\ writers' = 0
          /\ readers' = readers + Len(readq)
          /\ status' = Woken(status, Elements(readq))
          /\ readq' = <<>>
          /\ UNCHANGED <<writeq, crashed>>
    /\ UNCHANGED current

\* The assertion at the head of rwlock_release_write fails.
WriteReleaseAssert(t) ==
    /\ At(t, "write")
    /\ readers # 0
    /\ crashed' = "readersAtWriteRelease"
    /\ UNCHANGED <<dispatchVars, lockVars, mode>>

\* pit_tick_handle at the end of a quantum.
Preempt ==
    /\ crashed = "no"
    /\ current # NULL => mode[current] \notin {"wantRead", "wantWrite"}
    /\ PreemptSwitch
    /\ UNCHANGED <<lockVars, mode, crashed>>

\* A crash never returns.
Halted == crashed # "no" /\ UNCHANGED vars

Next ==
    \/ \E t \in Thread :
         \/ ReadEnter(t) \/ TryRead(t) \/ ReadBlock(t)
         \/ WriteEnter(t) \/ WriteBlock(t) \/ AcquireReturn(t) \/ ReadRelease(t) \/ WriteRelease(t)
    \/ Preempt

NextWithTryWrite ==
    \/ Next
    \/ \E t \in Thread : TryWrite(t) \/ WriteReleaseAssert(t)
    \/ Halted

Spec == Init /\ [][Next]_vars
SpecWithTryWrite == Init /\ [][NextWithTryWrite]_vars

DispatchTo(t) == Next /\ current # t /\ current' = t

\* Ready threads get their turn, which is what Sched guarantees; a thread
\* goes on with its call; and the callers release what they have.
FairSpec ==
    /\ Spec
    /\ \A t \in Thread :
         /\ SF_vars(DispatchTo(t))
         /\ WF_vars(AcquireReturn(t))
         /\ SF_vars(ReadRelease(t) \/ WriteRelease(t))

-----------------------------------------------------------------------------

\* A writer whose acquire has returned is alone.  The right to write passes
\* through a wake-up: the woken thread does not look at the counts again.
WriterExcludes ==
    \A t, u \in Thread :
      t # u /\ mode[t] = "write" => mode[u] \notin {"read", "write"}

Woke(m) == {t \in With(m) : status[t] # "BLOCKING"}

\* The two counters are kept by different threads at different moments: a
\* releasing writer counts the readers it wakes, a writer counts itself
\* before it queues.  They always are the threads they stand for.
CountsExact ==
    /\ readers = Cardinality(With("read") \cup Woke("wantRead"))
    /\ writers = Cardinality(With("write") \cup With("wantWrite"))

\* Nobody waits for a lock that no one will hand on: queued writers wait for
\* somebody inside, or woken; queued readers wait for a writer.
NoStrandedWaiter ==
    /\ writeq # <<>> => readers # 0 \/ With("write") \cup Woke("wantWrite") # {}
    /\ readq # <<>> => writers # 0

\* A queued writer gets in: readers that come later stay behind it, and the
\* writers in front of it are served in order.
WriterServed ==
    \A t \in Thread : mode[t] = "wantWrite" ~> mode[t] = "write"

\* What rwlock.c asserts when a writer releases: there are no readers.
NoReadersAtWriteRelease == crashed # "readersAtWriteRelease"
=============================================================================
