----------------------------- MODULE ThreadQueue ----------------------------
(***************************************************************************)
(* The linked queues of core/sched.c.  A queue has a first and a last      *)
(* pointer; an item has ONE next_in_queue link, shared by every queue it   *)
(* is ever in, and an in_queue back pointer.  A dequeue leaves the link of *)
(* the item it removes stale, and the sorted insertion of sched_sleep      *)
(* links items by hand without ever setting last.                          *)
(*                                                                         *)
(* Threads and processes queue with the same code, so an item is either.   *)
(* Every operation runs under the spinlock of its queue.                   *)
(***************************************************************************)
EXTENDS Naturals, Sequences, FiniteSets

CONSTANTS
    Item,       \* sched_thread or sched_process
    Queue,      \* sched_thread_queue or sched_process_queue
    SleepQueue, \* sleep_queue
    NIL,        \* the null pointer
    Key         \* sleep_until values, and the bound on them

ASSUME QueueAssumption ==
    /\ SleepQueue \in Queue
    /\ NIL \notin Item \cup Queue
    /\ IsFiniteSet(Item)
    /\ Key \subseteq Nat /\ Key # {}

VARIABLES
    first,      \* first[q]
    last,       \* last[q]
    next,       \* next[x], next_in_queue
    inQueue,    \* inQueue[x], in_queue
    key         \* key[x], sleep_until

queueVars == <<first, last, next, inQueue, key>>

\* sched_thread_queue_init; kmem_pool_small_alloc leaves the items' links
\* as they were, so they start with any value.
QueueInit ==
    /\ first = [q \in Queue |-> NIL]
    /\ last = [q \in Queue |-> NIL]
    /\ next \in [Item -> Item \cup {NIL}]
    /\ inQueue = [x \in Item |-> NIL]
    /\ key \in [Item -> Key]

\* The writes of sched_thread_enqueue, in their order: the link of the old
\* last item, then the item's own link.
EnqueueWrites(q, x) ==
    /\ first' = IF first[q] = NIL THEN [first EXCEPT ![q] = x] ELSE first
    /\ next' = IF first[q] = NIL
                 THEN [next EXCEPT ![x] = NIL]
                 ELSE [next EXCEPT ![last[q]] = x, ![x] = NIL]
    /\ inQueue' = [inQueue EXCEPT ![x] = q]
    /\ last' = [last EXCEPT ![q] = x]
    /\ UNCHANGED key

\* Callers enqueue an item that is in no queue.
Enqueue(q, x) ==
    /\ q # SleepQueue
    /\ inQueue[x] = NIL
    /\ EnqueueWrites(q, x)

\* sched_init enqueues the kernel process, which alloc_init_process has put
\* alone into the process queue, a second time.
EnqueueAgain(q, x) ==
    /\ first[q] = x /\ last[q] = x
    /\ EnqueueWrites(q, x)

\* Mutant of Dequeue: last is left alone.
BugDequeue(q) ==
    LET x == first[q] IN
    /\ x # NIL
    /\ first' = [first EXCEPT ![q] = next[x]]
    /\ inQueue' = [inQueue EXCEPT ![x] = NIL]
    /\ UNCHANGED <<last, next, key>>

\* sched_thread_dequeue.
Dequeue(q) ==
    LET x == first[q] IN
    /\ x # NIL
    /\ first' = [first EXCEPT ![q] = next[x]]
    /\ inQueue' = [inQueue EXCEPT ![x] = NIL]
    /\ last' = IF last[q] = x THEN [last EXCEPT ![q] = NIL] ELSE last
    /\ UNCHANGED <<next, key>>

\* The i-th item of q met by following the links, NIL past the end.
Nth(q) ==
    LET f[i \in 1..Cardinality(Item)] ==
          IF i = 1 THEN first[q]
          ELSE IF f[i - 1] = NIL THEN NIL ELSE next[f[i - 1]]
    IN f

\* Mutant of DueNoEarlier: > for >=.
BugDueLater(x, k) == x # NIL => key[x] > k

\* The comparison that ends the search of sched_sleep.
DueNoEarlier(x, k) == x # NIL => key[x] >= k

\* The insertion of sched_sleep: at the front when the first item is not due
\* earlier than k, else behind the last item whose successor is the first
\* one not due earlier.
InsertSorted(x, k) ==
    /\ inQueue[x] = NIL
    /\ key' = [key EXCEPT ![x] = k]
    /\ inQueue' = [inQueue EXCEPT ![x] = SleepQueue]
    /\ \/ /\ DueNoEarlier(first[SleepQueue], k)
          /\ next' = [next EXCEPT ![x] = first[SleepQueue]]
          /\ first' = [first EXCEPT ![SleepQueue] = x]
       \/ /\ ~DueNoEarlier(first[SleepQueue], k)
          /\ \E n \in 1..Cardinality(Item) :
               LET prev == Nth(SleepQueue)[n] IN
               /\ \A i \in 2..n : ~DueNoEarlier(Nth(SleepQueue)[i], k)
               /\ DueNoEarlier(next[prev], k)
               /\ next' = [next EXCEPT ![x] = next[prev], ![prev] = x]
          /\ UNCHANGED first
    /\ UNCHANGED last

QueueNext ==
    \/ \E q \in Queue, x \in Item : Enqueue(q, x) \/ EnqueueAgain(q, x)
    \/ \E q \in Queue : Dequeue(q)
    \/ \E x \in Item, k \in Key : InsertSorted(x, k)

QueueSpec == QueueInit /\ [][QueueNext]_queueVars

-----------------------------------------------------------------------------

Length(q) == Cardinality({i \in 1..Cardinality(Item) : Nth(q)[i] # NIL})
Contents(q) == [i \in 1..Length(q) |-> Nth(q)[i]]

\* The back pointers and last agree with the links: in_queue of an item is
\* the one queue whose links reach it, last of a queue is its final item, and
\* last of the sleep queue, which sched_sleep leaves alone, is never set, so
\* that no enqueue may ever be made on that queue.
BackPointersAgree ==
    /\ \A q \in Queue, x \in Item :
         inQueue[x] = q <=> \E i \in 1..Length(q) : Nth(q)[i] = x
    /\ \A q \in Queue \ {SleepQueue} :
         last[q] = IF Length(q) = 0 THEN NIL ELSE Nth(q)[Length(q)]
    /\ last[SleepQueue] = NIL

\* The links implement the sequences of Fifo: items leave in the order in
\* which they joined, sleepers in the order of their keys, and the second
\* enqueue of a lone process is no change at all.
Abstract == INSTANCE Fifo WITH contents <- [q \in Queue |-> Contents(q)]
ImplementsFifo == Abstract!FifoSpec
=============================================================================
