-------------------------------- MODULE Fifo --------------------------------
(***************************************************************************)
(* What a queue of core/sched.c is to its users: a sequence of items.      *)
(* Items join at the back and leave at the front; the sleep queue takes    *)
(* them in at the place their key gives them instead.                      *)
(***************************************************************************)
EXTENDS Naturals, Sequences

CONSTANTS
    Item,       \* the threads (or processes) that queue
    Queue,      \* the queues
    SleepQueue, \* the one that is kept sorted
    Key         \* the sleep_until values

VARIABLES
    contents,   \* contents[q], the items of q, front first
    key         \* key[x], the sleep_until of x

FifoInit ==
    /\ contents = [q \in Queue |-> <<>>]
    /\ key \in [Item -> Key]

Queued(x) == \E q \in Queue : \E i \in DOMAIN contents[q] : contents[q][i] = x

Join(q, x) ==
    /\ ~Queued(x)
    /\ q # SleepQueue
    /\ contents' = [contents EXCEPT ![q] = Append(@, x)]
    /\ UNCHANGED key

Leave(q) ==
    /\ contents[q] # <<>>
    /\ contents' = [contents EXCEPT ![q] = Tail(@)]
    /\ UNCHANGED key

\* x enters between those due earlier and the others.
JoinSorted(x, k) ==
    /\ ~Queued(x)
    /\ key' = [key EXCEPT ![x] = k]
    /\ LET q == contents[SleepQueue] IN
       \E i \in 0..Len(q) :
         /\ \A j \in 1..Len(q) : j <= i <=> key[q[j]] < k
         /\ contents' = [contents EXCEPT ![SleepQueue] =
              SubSeq(q, 1, i) \o <<x>> \o SubSeq(q, i + 1, Len(q))]

FifoNext ==
    \/ \E q \in Queue, x \in Item : Join(q, x)
    \/ \E q \in Queue : Leave(q)
    \/ \E x \in Item, k \in Key : JoinSorted(x, k)

FifoSpec == FifoInit /\ [][FifoNext]_<<contents, key>>
=============================================================================
