--------------------------- MODULE DispatchProofs ---------------------------
(***************************************************************************)
(* What the proofs about the locks share: facts about the queues in which  *)
(* threads wait, and about a switch.                                       *)
(***************************************************************************)
EXTENDS Dispatch, TLAPS

-----------------------------------------------------------------------------
(* Queues.                                                                 *)

\* The queue behind an enqueue: its members, and no one twice.
LEMMA AppendFacts ==
    ASSUME NEW q \in Seq(Thread), NEW t \in Thread
    PROVE  /\ Append(q, t) \in Seq(Thread)
           /\ Append(q, t) # <<>>
           /\ Len(Append(q, t)) = Len(q) + 1
           /\ \A i \in 1..Len(q) : Append(q, t)[i] = q[i]
           /\ Append(q, t)[Len(q) + 1] = t
  OBVIOUS

\* A member of the longer queue is an old one or the one that joined.
LEMMA AppendMembers ==
    ASSUME NEW q \in Seq(Thread), NEW t \in Thread, NEW u \in Thread
    PROVE  (\E i \in 1..Len(Append(q, t)) : Append(q, t)[i] = u)
              <=> (\E i \in 1..Len(q) : q[i] = u) \/ u = t
<1>1. Len(q) \in Nat
  OBVIOUS
<1>2. ASSUME NEW i \in 1..Len(Append(q, t)), Append(q, t)[i] = u
      PROVE  (\E j \in 1..Len(q) : q[j] = u) \/ u = t
  <2>1. CASE i \in 1..Len(q)
    BY <1>2, <2>1, AppendFacts
  <2>2. CASE i \notin 1..Len(q)
    <3>1. i = Len(q) + 1
      BY <1>1, <2>2, AppendFacts
    <3>2. QED
      BY <1>2, <3>1, AppendFacts
  <2>3. QED
    BY <2>1, <2>2
<1>3. ASSUME NEW i \in 1..Len(q), q[i] = u
      PROVE  \E j \in 1..Len(Append(q, t)) : Append(q, t)[j] = u
  <2>1. i \in 1..Len(Append(q, t)) /\ Append(q, t)[i] = u
    BY <1>1, <1>3, AppendFacts
  <2>2. QED
    BY <2>1
<1>4. ASSUME u = t
      PROVE  \E j \in 1..Len(Append(q, t)) : Append(q, t)[j] = u
  <2>1. Len(q) + 1 \in 1..Len(Append(q, t)) /\ Append(q, t)[Len(q) + 1] = u
    BY <1>1, <1>4, AppendFacts
  <2>2. QED
    BY <2>1
<1>5. QED
  BY <1>2, <1>3, <1>4

\* The queue behind a dequeue.
LEMMA TailFacts ==
    ASSUME NEW q \in Seq(Thread), q # <<>>
    PROVE  /\ Tail(q) \in Seq(Thread)
           /\ Head(q) \in Thread
           /\ Head(q) = q[1]
           /\ Len(q) \in Nat \ {0}
           /\ Len(Tail(q)) = Len(q) - 1
           /\ \A i \in 1..Len(Tail(q)) : Tail(q)[i] = q[i + 1]
  OBVIOUS

\* The members of the shorter queue are the others, if no one was in twice.
LEMMA TailMembers ==
    ASSUME NEW q \in Seq(Thread), q # <<>>,
           \A i, j \in 1..Len(q) : q[i] = q[j] => i = j,
           NEW u \in Thread
    PROVE  (\E i \in 1..Len(Tail(q)) : Tail(q)[i] = u)
              <=> (\E i \in 1..Len(q) : q[i] = u) /\ u # Head(q)
<1>1. /\ Head(q) = q[1] /\ Len(q) \in Nat \ {0} /\ Len(Tail(q)) = Len(q) - 1
      /\ \A i \in 1..Len(Tail(q)) : Tail(q)[i] = q[i + 1]
  BY TailFacts
<1>2. ASSUME NEW i \in 1..Len(Tail(q)), Tail(q)[i] = u
      PROVE  (\E j \in 1..Len(q) : q[j] = u) /\ u # Head(q)
  <2>1. i + 1 \in 1..Len(q) /\ 1 \in 1..Len(q) /\ i + 1 # 1
    BY <1>1
  <2>2. q[i + 1] = u /\ q[i + 1] # q[1]
    BY <1>1, <1>2, <2>1
  <2>3. QED
    BY <1>1, <2>1, <2>2
<1>3. ASSUME NEW i \in 1..Len(q), q[i] = u, u # Head(q)
      PROVE  \E j \in 1..Len(Tail(q)) : Tail(q)[j] = u
  <2>1. i - 1 \in 1..Len(Tail(q)) /\ (i - 1) + 1 = i
    BY <1>1, <1>3
  <2>2. Tail(q)[i - 1] = u
    BY <1>1, <1>3, <2>1
  <2>3. QED
    BY <2>1, <2>2
<1>4. QED
  BY <1>2, <1>3

\* Neither a dequeue nor the enqueue of an outsider makes anyone queue twice.
LEMMA TailOnce ==
    ASSUME NEW q \in Seq(Thread), q # <<>>,
           \A i, j \in 1..Len(q) : q[i] = q[j] => i = j
    PROVE  \A i, j \in 1..Len(Tail(q)) : Tail(q)[i] = Tail(q)[j] => i = j
<1>1. /\ Len(q) \in Nat \ {0} /\ Len(Tail(q)) = Len(q) - 1
      /\ \A i \in 1..Len(Tail(q)) : Tail(q)[i] = q[i + 1]
  BY TailFacts
<1>2. ASSUME NEW i \in 1..Len(Tail(q)), NEW j \in 1..Len(Tail(q)),
             Tail(q)[i] = Tail(q)[j]
      PROVE  i = j
  <2>1. i + 1 \in 1..Len(q) /\ j + 1 \in 1..Len(q) /\ q[i + 1] = q[j + 1]
    BY <1>1, <1>2
  <2>2. i + 1 = j + 1
    BY <2>1
  <2>3. QED
    BY <2>2
<1>3. QED
  BY <1>2

LEMMA AppendOnce ==
    ASSUME NEW q \in Seq(Thread), NEW t \in Thread,
           \A i, j \in 1..Len(q) : q[i] = q[j] => i = j,
           \A i \in 1..Len(q) : q[i] # t
    PROVE  \A i, j \in 1..Len(Append(q, t)) :
              Append(q, t)[i] = Append(q, t)[j] => i = j
<1>1. /\ Len(q) \in Nat /\ Len(Append(q, t)) = Len(q) + 1
      /\ \A i \in 1..Len(q) : Append(q, t)[i] = q[i]
      /\ Append(q, t)[Len(q) + 1] = t
  BY AppendFacts
<1>2. \A i \in 1..Len(Append(q, t)) : i \in 1..Len(q) \/ i = Len(q) + 1
  BY <1>1
<1>3. QED
  BY <1>1, <1>2

-----------------------------------------------------------------------------
(* Families of queues: f[k] is the queue of the object k.                  *)

QueuedIn(f, k, u) == \E i \in 1..Len(f[k]) : f[k][i] = u

\* No one is twice in a queue.
OnceEach(f) ==
    \A k \in DOMAIN f : \A i, j \in 1..Len(f[k]) : f[k][i] = f[k][j] => i = j

\* g is f with q as the queue of k.
Replaced(f, g, K, k, q) ==
    /\ k \in K
    /\ f \in [K -> Seq(Thread)]
    /\ g \in [K -> Seq(Thread)]
    /\ g[k] = q
    /\ \A n \in K : n # k => g[n] = f[n]

Enqueues(f, g, K, k, t) ==
    t \in Thread /\ Replaced(f, g, K, k, Append(f[k], t))
Dequeues(f, g, K, k) == f[k] # <<>> /\ Replaced(f, g, K, k, Tail(f[k]))
Empties(f, g, K, k) == Replaced(f, g, K, k, <<>>)

LEMMA EnqueueFacts ==
    ASSUME NEW K, NEW f, NEW g, NEW k, NEW t, Enqueues(f, g, K, k, t)
    PROVE  /\ \A n \in K, u \in Thread :
                QueuedIn(g, n, u) <=> QueuedIn(f, n, u) \/ (n = k /\ u = t)
           /\ \A n \in K : g[n] = <<>> <=> f[n] = <<>> /\ n # k
           /\ OnceEach(f) /\ ~QueuedIn(f, k, t) => OnceEach(g)
<1>1. /\ f[k] \in Seq(Thread) /\ Append(f[k], t) \in Seq(Thread)
      /\ Append(f[k], t) # <<>> /\ k \in K /\ t \in Thread
  BY AppendFacts DEF Enqueues, Replaced
<1>2. /\ g \in [K -> Seq(Thread)] /\ DOMAIN g = K /\ DOMAIN f = K
      /\ g[k] = Append(f[k], t)
      /\ \A n \in K : n # k => g[n] = f[n]
  BY <1>1 DEF Enqueues, Replaced
<1>3. ASSUME NEW u \in Thread
      PROVE  QueuedIn(g, k, u) <=> QueuedIn(f, k, u) \/ u = t
  <2>1. (\E i \in 1..Len(Append(f[k], t)) : Append(f[k], t)[i] = u)
           <=> (\E i \in 1..Len(f[k]) : f[k][i] = u) \/ u = t
    BY <1>1, AppendMembers
  <2>2. QED
    BY <1>2, <2>1 DEF QueuedIn
<1>4. ASSUME NEW n \in K, NEW u \in Thread, n # k
      PROVE  QueuedIn(g, n, u) <=> QueuedIn(f, n, u)
  BY <1>2, <1>4 DEF QueuedIn
<1>5. ASSUME OnceEach(f), ~QueuedIn(f, k, t) PROVE OnceEach(g)
  <2>1. \A i, j \in 1..Len(Append(f[k], t)) :
          Append(f[k], t)[i] = Append(f[k], t)[j] => i = j
    BY <1>1, <1>2, <1>5, AppendOnce DEF OnceEach, QueuedIn
  <2>2. QED
    BY <1>2, <1>5, <2>1 DEF OnceEach
<1>6. QED
  BY <1>1, <1>2, <1>3, <1>4, <1>5

LEMMA DequeueFacts ==
    ASSUME NEW K, NEW f, NEW g, NEW k, Dequeues(f, g, K, k), OnceEach(f)
    PROVE  /\ Head(f[k]) \in Thread /\ QueuedIn(f, k, Head(f[k]))
           /\ \A n \in K, u \in Thread :
                QueuedIn(g, n, u) <=> QueuedIn(f, n, u) /\ ~(n = k /\ u = Head(f[k]))
           /\ OnceEach(g)
<1>1. /\ f[k] \in Seq(Thread) /\ Tail(f[k]) \in Seq(Thread)
      /\ Head(f[k]) \in Thread /\ Head(f[k]) = f[k][1] /\ 1 \in 1..Len(f[k]) /\ k \in K
      /\ \A i, j \in 1..Len(f[k]) : f[k][i] = f[k][j] => i = j
  <2>1. f[k] \in Seq(Thread) /\ f[k] # <<>> /\ DOMAIN f = K /\ k \in K
    BY DEF Dequeues, Replaced
  <2>2. Len(f[k]) \in Nat \ {0}
    BY <2>1, TailFacts
  <2>3. QED
    BY <2>1, <2>2, TailFacts DEF OnceEach
<1>2. /\ g \in [K -> Seq(Thread)] /\ DOMAIN g = K /\ DOMAIN f = K
      /\ g[k] = Tail(f[k])
      /\ \A n \in K : n # k => g[n] = f[n]
  BY <1>1 DEF Dequeues, Replaced
<1>3. ASSUME NEW u \in Thread
      PROVE  QueuedIn(g, k, u) <=> QueuedIn(f, k, u) /\ u # Head(f[k])
  <2>1. f[k] # <<>>
    BY DEF Dequeues
  <2>2. (\E i \in 1..Len(Tail(f[k])) : Tail(f[k])[i] = u)
           <=> (\E i \in 1..Len(f[k]) : f[k][i] = u) /\ u # Head(f[k])
    BY <1>1, <2>1, TailMembers
  <2>3. QED
    BY <1>2, <2>2 DEF QueuedIn
<1>4. ASSUME NEW n \in K, NEW u \in Thread, n # k
      PROVE  QueuedIn(g, n, u) <=> QueuedIn(f, n, u)
  BY <1>2, <1>4 DEF QueuedIn
<1>5. OnceEach(g)
  <2>1. \A i, j \in 1..Len(Tail(f[k])) : Tail(f[k])[i] = Tail(f[k])[j] => i = j
    BY <1>1, TailOnce DEF Dequeues
  <2>2. QED
    BY <1>2, <2>1 DEF OnceEach
<1>6. QueuedIn(f, k, Head(f[k]))
  BY <1>1 DEF QueuedIn
<1>7. ASSUME NEW n \in K, NEW u \in Thread
      PROVE  QueuedIn(g, n, u) <=> QueuedIn(f, n, u) /\ ~(n = k /\ u = Head(f[k]))
  <2>1. CASE n = k
    BY <1>3, <2>1
  <2>2. CASE n # k
    BY <1>4, <2>2
  <2>3. QED
    BY <2>1, <2>2
<1>8. QED
  BY <1>1, <1>2, <1>5, <1>6, <1>7

\* Everyone is taken out.
LEMMA EmptiedFacts ==
    ASSUME NEW K, NEW f, NEW g, NEW k, Empties(f, g, K, k)
    PROVE  /\ \A n \in K, u \in Thread :
                QueuedIn(g, n, u) <=> QueuedIn(f, n, u) /\ n # k
           /\ OnceEach(f) => OnceEach(g)
<1>1. /\ g \in [K -> Seq(Thread)] /\ DOMAIN g = K /\ DOMAIN f = K /\ k \in K
      /\ g[k] = <<>> /\ \A n \in K : n # k => g[n] = f[n]
  BY DEF Empties, Replaced
<1>2. \A n \in K, u \in Thread : QueuedIn(g, n, u) <=> QueuedIn(f, n, u) /\ n # k
  BY <1>1 DEF QueuedIn
<1>3. ASSUME OnceEach(f) PROVE OnceEach(g)
  <2>1. \A i, j \in 1..Len(g[k]) : g[k][i] = g[k][j] => i = j
    BY <1>1
  <2>2. QED
    BY <1>1, <1>3, <2>1 DEF OnceEach
<1>4. QED
  BY <1>1, <1>2, <1>3

-----------------------------------------------------------------------------
(* Scheduling.                                                             *)

\* Who is ready after a wake-up.
LEMMA WokenFacts ==
    ASSUME NEW st \in [Thread -> Status], NEW W \in SUBSET Thread
    PROVE  /\ Woken(st, W) \in [Thread -> Status]
           /\ \A u \in Thread :
                Woken(st, W)[u] = IF u \in W THEN "READY" ELSE st[u]
<1>1. "READY" \in Status
  BY DEF Status
<1>2. QED
  BY <1>1 DEF Woken

\* A switch runs one ready thread or nobody, and blocks or wakes no one.
LEMMA SwitchFacts ==
    ASSUME NEW st \in [Thread -> Status],
           \A t \in Thread : st[t] # "RUNNING",
           SwitchAny(st)
    PROVE  /\ DispatchTypeOK'
           /\ \A t \in Thread : status'[t] = "BLOCKING" <=> st[t] = "BLOCKING"
  BY DispatchAssumption DEF SwitchAny, ReadyIn, DispatchTypeOK, Status

\* Waking threads that do not run changes nobody else.
LEMMA WakeFacts ==
    ASSUME DispatchTypeOK, NEW W \in SUBSET Thread, current \notin W,
           status' = Woken(status, W), current' = current
    PROVE  /\ DispatchTypeOK'
           /\ \A u \in Thread :
                status'[u] = IF u \in W THEN "READY" ELSE status[u]
  BY WokenFacts DEF DispatchTypeOK

\* The running thread blocks, after it has woken the threads of W.
LEMMA BlockFacts ==
    ASSUME DispatchTypeOK, NEW t \in Thread, current = t,
           NEW W \in SUBSET Thread, t \notin W, BlockSwitch(t, W)
    PROVE  /\ DispatchTypeOK'
           /\ \A u \in Thread :
                status'[u] = "BLOCKING"
                   <=> u = t \/ (status[u] = "BLOCKING" /\ u \notin W)
<1> DEFINE s1 == [status EXCEPT ![t] = "BLOCKING"]
           st == Woken(s1, W)
<1>1. /\ s1 \in [Thread -> Status]
      /\ \A u \in Thread : s1[u] = IF u = t THEN "BLOCKING" ELSE status[u]
      /\ \A u \in Thread : s1[u] # "RUNNING"
  BY DEF DispatchTypeOK, Status, Waiting
<1>2. SwitchAny(st)
  BY DEF BlockSwitch
<1> HIDE DEF s1
<1>3. /\ st \in [Thread -> Status]
      /\ \A u \in Thread : st[u] = IF u \in W THEN "READY" ELSE s1[u]
  BY <1>1, WokenFacts
<1> HIDE DEF st
<1>4. QED
  BY <1>1, <1>2, <1>3, SwitchFacts

\* A tick takes the processor away and blocks or wakes no one.
LEMMA PreemptFacts ==
    ASSUME DispatchTypeOK, PreemptSwitch
    PROVE  /\ DispatchTypeOK'
           /\ \A u \in Thread : status'[u] = "BLOCKING" <=> status[u] = "BLOCKING"
<1> DEFINE st == IF current = NULL THEN status
                                   ELSE [status EXCEPT ![current] = "READY"]
<1>1. SwitchAny(st)
  BY DEF PreemptSwitch
<1>2. /\ st \in [Thread -> Status]
      /\ \A u \in Thread : st[u] # "RUNNING"
      /\ \A u \in Thread : st[u] = "BLOCKING" <=> status[u] = "BLOCKING"
  BY DispatchAssumption DEF DispatchTypeOK, Status
<1> HIDE DEF st
<1>3. QED
  BY <1>1, <1>2, SwitchFacts

-----------------------------------------------------------------------------
(* The contract: what the locks do to the processor are steps of Dispatch. *)

LEMMA WakeIsDispatch ==
    ASSUME NEW W \in SUBSET WaitingThreads,
           status' = Woken(status, W), current' = current
    PROVE  DispatchNext
  BY DEF DispatchNext, DispatchWake

LEMMA BlockIsDispatch ==
    ASSUME NEW t \in Thread, current = t, NEW W \in SUBSET WaitingThreads,
           BlockSwitch(t, W)
    PROVE  DispatchNext
<1>1. "BLOCKING" \in Status \ {"RUNNING"} /\ current # NULL
  BY DispatchAssumption DEF Status, Waiting
<1>2. SwitchAny(Woken([status EXCEPT ![current] = "BLOCKING"], W))
  BY DEF BlockSwitch
<1>3. QED
  BY <1>1, <1>2 DEF DispatchNext, DispatchLeave

LEMMA PreemptIsDispatch ==
    ASSUME DispatchTypeOK, PreemptSwitch
    PROVE  DispatchNext
<1>1. {} \in SUBSET WaitingThreads /\ "READY" \in Status \ {"RUNNING"}
  BY DEF Status
<1>2. CASE current = NULL
  <2>1. Woken(status, {}) = status
    BY DEF Woken, DispatchTypeOK
  <2>2. SwitchAny(Woken(status, {}))
    BY <1>2, <2>1 DEF PreemptSwitch
  <2>3. QED
    BY <1>1, <1>2, <2>2 DEF DispatchNext, DispatchIdleTick
<1>3. CASE current # NULL
  <2> DEFINE st == [status EXCEPT ![current] = "READY"]
  <2>1. Woken(st, {}) = st
    BY DEF Woken, DispatchTypeOK
  <2>2. SwitchAny(Woken(st, {}))
    BY <1>3, <2>1 DEF PreemptSwitch
  <2>3. QED
    BY <1>1, <1>3, <2>2 DEF DispatchNext, DispatchLeave
<1>4. QED
  BY <1>2, <1>3
=============================================================================
