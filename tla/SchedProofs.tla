----------------------------- MODULE SchedProofs -----------------------------
(***************************************************************************)
(* Proofs about module Sched, for any threads, processes and quantum, and  *)
(* about the linked queues of module ThreadQueue that it runs on.          *)
(*                                                                         *)
(* QueuesExact is nearly inductive: that a switch to the idle loop leaves  *)
(* no ready thread behind needs that the process of every thread there is  *)
(* is in the queue of processes (Listed).  That a tick wakes exactly the   *)
(* sleepers whose time is over needs the order of the sleep queue          *)
(* (SleepSorted).                                                          *)
(***************************************************************************)
EXTENDS Sched, ThreadQueue, FiniteSetTheorems, SequenceTheorems,
        WellFoundedInduction, TLAPS

-----------------------------------------------------------------------------
(* Numbers.  Induction as a fact about sets of numbers.                    *)

LEMMA LeastNat ==
    ASSUME NEW S \in SUBSET Nat, S # {}
    PROVE  \E n \in S : \A m \in S : n <= m
<1>1. IsWellFoundedOn({r \in Nat \X Nat : r[1] < r[2]}, Nat)
  BY NatLessThanWellFounded DEF OpToRel
<1>2. PICK n \in S : \A m \in S : <<m, n>> \notin {r \in Nat \X Nat : r[1] < r[2]}
  BY <1>1, WFMin
<1>3. ASSUME NEW m \in S PROVE n <= m
  <2>1. <<m, n>> \in Nat \X Nat /\ ~(m < n)
    BY <1>2
  <2>2. QED
    BY <2>1
<1>4. QED
  BY <1>3

LEMMA SetInduction ==
    ASSUME NEW S \in SUBSET Nat, 0 \in S, \A n \in S : n + 1 \in S
    PROVE  S = Nat
<1>1. SUFFICES ASSUME Nat \ S # {} PROVE FALSE
  OBVIOUS
<1>2. PICK n \in Nat \ S : \A m \in Nat \ S : n <= m
  BY <1>1, LeastNat
<1>3. n # 0 /\ n - 1 \in Nat /\ ~(n <= n - 1) /\ (n - 1) + 1 = n
  BY <1>2
<1>4. n - 1 \in S
  BY <1>2, <1>3
<1>5. QED
  BY <1>2, <1>3, <1>4

-----------------------------------------------------------------------------
(* Queues.                                                                 *)

LEMMA OccursIn ==
    ASSUME NEW S, NEW q \in Seq(S)
    PROVE  /\ Len(q) \in Nat
           /\ \A i \in 1..Len(q) : q[i] \in S
           /\ \A x : Occurs(q, x) <=> \E i \in 1..Len(q) : q[i] = x
           /\ NoRepeat(q) <=> \A i, j \in 1..Len(q) : q[i] = q[j] => i = j
  BY LenProperties, ElementOfSeq DEF Occurs, NoRepeat

LEMMA EmptyQueue ==
    /\ \A x : ~Occurs(<<>>, x)
    /\ NoRepeat(<<>>)
  BY DEF Occurs, NoRepeat

\* An enqueue.
LEMMA AppendQueue ==
    ASSUME NEW S, NEW q \in Seq(S), NEW e \in S
    PROVE  /\ Append(q, e) \in Seq(S)
           /\ \A x : Occurs(Append(q, e), x) <=> Occurs(q, x) \/ x = e
           /\ NoRepeat(q) /\ ~Occurs(q, e) => NoRepeat(Append(q, e))
<1> DEFINE r == Append(q, e)
<1>1. /\ r \in Seq(S) /\ Len(r) = Len(q) + 1 /\ Len(q) \in Nat
      /\ \A i \in 1..Len(q) : r[i] = q[i]
      /\ r[Len(q) + 1] = e
  BY AppendProperties, LenProperties
<1> HIDE DEF r
<1>2. 1..Len(r) = 1..Len(q) \cup {Len(q) + 1}
  BY <1>1
<1>3. \A x : Occurs(r, x) <=> Occurs(q, x) \/ x = e
  BY <1>1, <1>2, OccursIn
<1>4. NoRepeat(q) /\ ~Occurs(q, e) => NoRepeat(r)
  BY <1>1, <1>2, OccursIn
<1>5. QED
  BY <1>1, <1>3, <1>4 DEF r

\* A dequeue.
LEMMA TailQueue ==
    ASSUME NEW S, NEW q \in Seq(S), q # <<>>
    PROVE  /\ Tail(q) \in Seq(S) /\ Head(q) \in S
           /\ Occurs(q, Head(q))
           /\ NoRepeat(q) =>
                /\ NoRepeat(Tail(q))
                /\ \A x : Occurs(Tail(q), x) <=> Occurs(q, x) /\ x # Head(q)
<1> DEFINE r == Tail(q)
           h == Head(q)
<1>1. /\ r \in Seq(S) /\ h \in S /\ h = q[1] /\ Len(q) \in Nat \ {0}
      /\ Len(r) = Len(q) - 1
      /\ \A i \in 1..Len(r) : r[i] = q[i + 1]
  BY HeadTailProperties, EmptySeq
<1> HIDE DEF r, h
<1>2. Occurs(q, h)
  <2>1. 1 \in 1..Len(q)
    BY <1>1
  <2>2. QED
    BY <1>1, <2>1, OccursIn
<1>3. ASSUME NoRepeat(q) PROVE NoRepeat(r)
  <2>1. ASSUME NEW i \in 1..Len(r), NEW j \in 1..Len(r), r[i] = r[j]
        PROVE  i = j
    <3>1. i + 1 \in 1..Len(q) /\ j + 1 \in 1..Len(q) /\ q[i + 1] = q[j + 1]
      BY <1>1, <2>1
    <3>2. i + 1 = j + 1
      BY <1>3, <3>1, OccursIn
    <3>3. QED
      BY <3>2
  <2>2. QED
    BY <1>1, <2>1, OccursIn
<1>4. ASSUME NoRepeat(q), NEW x PROVE Occurs(r, x) <=> Occurs(q, x) /\ x # h
  <2>1. ASSUME NEW i \in 1..Len(r), r[i] = x PROVE Occurs(q, x) /\ x # h
    <3>1. i + 1 \in 1..Len(q) /\ 1 \in 1..Len(q) /\ i + 1 # 1 /\ q[i + 1] = x
      BY <1>1, <2>1
    <3>2. QED
      BY <1>1, <1>4, <3>1, OccursIn
  <2>2. ASSUME NEW i \in 1..Len(q), q[i] = x, x # h PROVE Occurs(r, x)
    <3>1. i - 1 \in 1..Len(r) /\ (i - 1) + 1 = i
      BY <1>1, <2>2
    <3>2. r[i - 1] = x
      BY <1>1, <2>2, <3>1
    <3>3. QED
      BY <1>1, <3>1, <3>2, OccursIn
  <2>3. QED
    BY <1>1, <2>1, <2>2, OccursIn
<1>5. QED
  BY <1>1, <1>2, <1>3, <1>4 DEF r, h

\* A queue is cut after k.
LEMMA CutQueue ==
    ASSUME NEW S, NEW q \in Seq(S), NEW k \in 0..Len(q)
    PROVE  /\ SubSeq(q, 1, k) \in Seq(S)
           /\ Len(SubSeq(q, 1, k)) = k
           /\ \A i \in 1..k : SubSeq(q, 1, k)[i] = q[i]
           /\ SubSeq(q, k + 1, Len(q)) \in Seq(S)
           /\ Len(SubSeq(q, k + 1, Len(q))) = Len(q) - k
           /\ \A i \in 1..(Len(q) - k) : SubSeq(q, k + 1, Len(q))[i] = q[k + i]
<1>1. Len(q) \in Nat /\ \A i \in 1..Len(q) : q[i] \in S
  BY OccursIn
<1>2. /\ SubSeq(q, 1, k) \in Seq(S)
      /\ Len(SubSeq(q, 1, k)) = IF 1 <= k THEN k - 1 + 1 ELSE 0
      /\ \A i \in 1..(k - 1 + 1) : SubSeq(q, 1, k)[i] = q[1 + i - 1]
  <2>1. 1 \in Int /\ k \in Int /\ \A i \in 1..k : q[i] \in S
    BY <1>1
  <2>2. QED
    BY <2>1, SubSeqProperties
<1>3. /\ SubSeq(q, k + 1, Len(q)) \in Seq(S)
      /\ Len(SubSeq(q, k + 1, Len(q)))
           = IF k + 1 <= Len(q) THEN Len(q) - (k + 1) + 1 ELSE 0
      /\ \A i \in 1..(Len(q) - (k + 1) + 1) :
           SubSeq(q, k + 1, Len(q))[i] = q[k + 1 + i - 1]
  <2>1. k + 1 \in Int /\ Len(q) \in Int /\ \A i \in (k + 1)..Len(q) : q[i] \in S
    BY <1>1
  <2>2. QED
    BY <2>1, SubSeqProperties
<1>4. QED
  BY <1>1, <1>2, <1>3

\* Two queues behind one another.
LEMMA ConcatQueue ==
    ASSUME NEW S, NEW q \in Seq(S), NEW r \in Seq(S)
    PROVE  /\ q \o r \in Seq(S)
           /\ \A x : Occurs(q \o r, x) <=> Occurs(q, x) \/ Occurs(r, x)
<1> DEFINE c == q \o r
<1>1. /\ c \in Seq(S) /\ Len(c) = Len(q) + Len(r) /\ Len(q) \in Nat /\ Len(r) \in Nat
      /\ \A i \in 1..(Len(q) + Len(r)) :
           c[i] = IF i <= Len(q) THEN q[i] ELSE r[i - Len(q)]
  BY ConcatProperties, OccursIn
<1> HIDE DEF c
<1>2. ASSUME NEW x, NEW i \in 1..Len(c), c[i] = x
      PROVE  Occurs(q, x) \/ Occurs(r, x)
  <2>1. CASE i <= Len(q)
    <3>1. i \in 1..Len(q) /\ q[i] = x
      BY <1>1, <1>2, <2>1
    <3>2. QED
      BY <3>1, OccursIn
  <2>2. CASE ~(i <= Len(q))
    <3>1. i - Len(q) \in 1..Len(r) /\ r[i - Len(q)] = x
      BY <1>1, <1>2, <2>2
    <3>2. QED
      BY <3>1, OccursIn
  <2>3. QED
    BY <2>1, <2>2
<1>3. ASSUME NEW x, NEW i \in 1..Len(q), q[i] = x PROVE Occurs(c, x)
  <2>1. i \in 1..Len(c) /\ c[i] = x
    BY <1>1, <1>3
  <2>2. QED
    BY <1>1, <2>1, OccursIn
<1>4. ASSUME NEW x, NEW i \in 1..Len(r), r[i] = x PROVE Occurs(c, x)
  <2>1. i + Len(q) \in 1..Len(c) /\ ~(i + Len(q) <= Len(q)) /\ i + Len(q) - Len(q) = i
    BY <1>1
  <2>2. c[i + Len(q)] = x
    BY <1>1, <1>4, <2>1
  <2>3. QED
    BY <1>1, <2>1, <2>2, OccursIn
<1>5. ASSUME NEW x PROVE Occurs(c, x) <=> Occurs(q, x) \/ Occurs(r, x)
  <2>1. Occurs(c, x) <=> \E i \in 1..Len(c) : c[i] = x
    <3>1. c \in Seq(S)
      BY <1>1
    <3>2. DOMAIN c = 1..Len(c)
      BY <3>1
    <3>3. QED
      BY <3>2 DEF Occurs
  <2>2. Occurs(q, x) <=> \E i \in 1..Len(q) : q[i] = x
    BY DEF Occurs
  <2>3. Occurs(r, x) <=> \E i \in 1..Len(r) : r[i] = x
    BY DEF Occurs
  <2>4. QED
    BY <1>2, <1>3, <1>4, <2>1, <2>2, <2>3
<1>6. QED
  BY <1>1, <1>5 DEF c

\* A rotation keeps the members.
LEMMA RotateQueue ==
    ASSUME NEW S, NEW q \in Seq(S), NEW k \in 0..Len(q)
    PROVE  /\ Rotate(q, k) \in Seq(S)
           /\ \A x : Occurs(Rotate(q, k), x) <=> Occurs(q, x)
<1> DEFINE front == SubSeq(q, 1, k)
           back == SubSeq(q, k + 1, Len(q))
<1>1. /\ Len(q) \in Nat
      /\ front \in Seq(S) /\ Len(front) = k /\ \A i \in 1..k : front[i] = q[i]
      /\ back \in Seq(S) /\ Len(back) = Len(q) - k
      /\ \A i \in 1..(Len(q) - k) : back[i] = q[k + i]
  BY CutQueue, OccursIn
<1>2. Rotate(q, k) = back \o front
  BY DEF Rotate
<1> HIDE DEF front, back
<1>3. ASSUME NEW x, NEW i \in 1..Len(q), q[i] = x
      PROVE  Occurs(front, x) \/ Occurs(back, x)
  <2>1. CASE i <= k
    <3>1. i \in 1..Len(front) /\ front[i] = x
      BY <1>1, <1>3, <2>1
    <3>2. QED
      BY <1>1, <3>1, OccursIn
  <2>2. CASE ~(i <= k)
    <3>1. i - k \in 1..Len(back) /\ k + (i - k) = i
      BY <1>1, <2>2
    <3>2. back[i - k] = x
      BY <1>1, <1>3, <3>1
    <3>3. QED
      BY <1>1, <3>1, <3>2, OccursIn
  <2>3. QED
    BY <2>1, <2>2
<1>4. ASSUME NEW x, NEW i \in 1..Len(front), front[i] = x PROVE Occurs(q, x)
  <2>1. i \in 1..Len(q) /\ q[i] = x
    BY <1>1, <1>4
  <2>2. QED
    BY <2>1, OccursIn
<1>5. ASSUME NEW x, NEW i \in 1..Len(back), back[i] = x PROVE Occurs(q, x)
  <2>1. k + i \in 1..Len(q) /\ q[k + i] = x
    BY <1>1, <1>5
  <2>2. QED
    BY <2>1, OccursIn
<1>6. /\ back \o front \in Seq(S)
      /\ \A x : Occurs(back \o front, x) <=> Occurs(back, x) \/ Occurs(front, x)
  BY <1>1, ConcatQueue
<1>7. \A x : Occurs(front, x) \/ Occurs(back, x) => Occurs(q, x)
  <2>1. front \in Seq(S) /\ back \in Seq(S)
    BY <1>1
  <2>2. \A x : Occurs(front, x) <=> \E i \in 1..Len(front) : front[i] = x
    BY <2>1, OccursIn
  <2>3. \A x : Occurs(back, x) <=> \E i \in 1..Len(back) : back[i] = x
    BY <2>1, OccursIn
  <2>4. QED
    BY <1>4, <1>5, <2>2, <2>3
<1>8. \A x : Occurs(q, x) => Occurs(front, x) \/ Occurs(back, x)
  BY <1>3, OccursIn
<1>9. QED
  BY <1>2, <1>6, <1>7, <1>8

\* The prefix of q in T ends at the first element outside.
LEMMA PrefixFacts ==
    ASSUME NEW S, NEW q \in Seq(S), NEW T
    PROVE  /\ PrefixLen(q, T) \in 0..Len(q)
           /\ \A i \in 1..PrefixLen(q, T) : q[i] \in T
           /\ PrefixLen(q, T) < Len(q) => q[PrefixLen(q, T) + 1] \notin T
<1> DEFINE Ends == {k \in 0..Len(q) : k < Len(q) => q[k + 1] \notin T}
<1>1. Len(q) \in Nat
  BY OccursIn
<1>2. Ends \in SUBSET Nat /\ Len(q) \in Ends
  BY <1>1
<1>3. PICK k \in Ends : \A m \in Ends : k <= m
  <2> HIDE DEF Ends
  <2>1. QED
    BY <1>2, LeastNat
<1>4. ASSUME NEW i \in 1..k PROVE q[i] \in T
  <2>1. i - 1 \in 0..Len(q) /\ i - 1 < Len(q) /\ ~(k <= i - 1) /\ (i - 1) + 1 = i
    BY <1>1
  <2>2. i - 1 \notin Ends
    BY <1>3, <2>1
  <2>3. QED
    BY <2>1, <2>2
<1>5. \E n \in 0..Len(q) : /\ \A i \in 1..n : q[i] \in T
                           /\ n < Len(q) => q[n + 1] \notin T
  BY <1>3, <1>4
<1>6. QED
  BY <1>5 DEF PrefixLen

-----------------------------------------------------------------------------
(* The loop of the tick handler.                                           *)

\* The recursion of EnqueueAll has a solution, with rq at 0 and the result at
\* the length of q.
LEMMA EnqueueAllSteps ==
    ASSUME NEW rq, NEW q \in Seq(Thread)
    PROVE  \E f : /\ f[0] = rq
                  /\ \A i \in 1..Len(q) : f[i] = EnqueueReady(f[i - 1], q[i])
                  /\ EnqueueAll(rq, q) = f[Len(q)]
<1> DEFINE Solves(f, n) ==
             f = [i \in 0..n |-> IF i = 0 THEN rq ELSE EnqueueReady(f[i - 1], q[i])]
           Solved == {n \in Nat : \E f : Solves(f, n)}
<1>1. 0 \in Solved
  <2> DEFINE f == [i \in 0..0 |-> rq]
  <2>1. Solves(f, 0)
    OBVIOUS
  <2>2. QED
    BY <2>1
<1>2. ASSUME NEW n \in Solved PROVE n + 1 \in Solved
  <2>1. PICK f : Solves(f, n)
    BY <1>2
  <2> DEFINE g == [i \in 0..(n + 1) |->
                     IF i <= n THEN f[i] ELSE EnqueueReady(f[n], q[n + 1])]
  <2>2. ASSUME NEW i \in 0..(n + 1)
        PROVE  g[i] = IF i = 0 THEN rq ELSE EnqueueReady(g[i - 1], q[i])
    <3>1. CASE i = 0
      BY <2>1, <3>1
    <3>2. CASE i \in 1..n
      <4>1. i - 1 \in 0..(n + 1) /\ i - 1 <= n /\ i <= n /\ i # 0 /\ i \in 0..n
        BY <3>2
      <4>2. g[i] = f[i] /\ g[i - 1] = f[i - 1]
        BY <4>1
      <4>3. f[i] = EnqueueReady(f[i - 1], q[i])
        BY <2>1, <4>1
      <4>4. QED
        BY <4>1, <4>2, <4>3
    <3>3. CASE i = n + 1
      <4>1. ~(i <= n) /\ i # 0 /\ i - 1 = n /\ n \in 0..(n + 1) /\ n <= n
        BY <3>3
      <4>2. g[i] = EnqueueReady(f[n], q[i]) /\ g[i - 1] = f[n]
        BY <3>3, <4>1
      <4>3. QED
        BY <4>1, <4>2
    <3>4. QED
      BY <3>1, <3>2, <3>3
  <2>3. Solves(g, n + 1)
    <3>1. g = [i \in 0..(n + 1) |-> g[i]]
      OBVIOUS
    <3> HIDE DEF g
    <3>2. QED
      BY <2>2, <3>1
  <2>4. n + 1 \in Nat
    OBVIOUS
  <2> HIDE DEF g, Solves
  <2>5. QED
    BY <2>3, <2>4
<1>3. Solved = Nat
  <2>1. Solved \in SUBSET Nat
    OBVIOUS
  <2> HIDE DEF Solved
  <2>2. QED
    BY <1>1, <1>2, <2>1, SetInduction
<1> DEFINE n == Len(q)
           f == CHOOSE f : Solves(f, n)
<1>4. n \in Nat
  BY OccursIn
<1>5. Solves(f, n)
  <2>1. \E h : Solves(h, n)
    BY <1>3, <1>4
  <2> HIDE DEF Solves, n
  <2>2. QED
    BY <2>1
<1>6. EnqueueAll(rq, q) = f[n]
  BY DEF EnqueueAll
<1> HIDE DEF f
<1>7. f[0] = rq
  BY <1>4, <1>5
<1>8. ASSUME NEW i \in 1..n PROVE f[i] = EnqueueReady(f[i - 1], q[i])
  <2>1. i \in 0..n /\ i # 0
    BY <1>4
  <2>2. QED
    BY <1>5, <2>1
<1>9. QED
  BY <1>6, <1>7, <1>8

LEMMA EnqueueReadyFacts ==
    ASSUME NEW rq \in [Process -> Seq(Thread)], NEW t \in Thread
    PROVE  /\ EnqueueReady(rq, t) \in [Process -> Seq(Thread)]
           /\ \A p \in Process, u \in Thread : Occurs(EnqueueReady(rq, t)[p], u)
                <=> Occurs(rq[p], u) \/ (u = t /\ p = ProcessOf[t])
           /\ ~Occurs(rq[ProcessOf[t]], t) =>
                \A p \in Process : NoRepeat(rq[p]) => NoRepeat(EnqueueReady(rq, t)[p])
<1>1. /\ ProcessOf[t] \in Process
      /\ \A p \in Process : EnqueueReady(rq, t)[p] =
            IF p = ProcessOf[t] THEN Append(rq[p], t) ELSE rq[p]
  BY SchedAssumption DEF EnqueueReady
<1>2. \A p \in Process :
        /\ Append(rq[p], t) \in Seq(Thread)
        /\ \A u : Occurs(Append(rq[p], t), u) <=> Occurs(rq[p], u) \/ u = t
        /\ NoRepeat(rq[p]) /\ ~Occurs(rq[p], t) => NoRepeat(Append(rq[p], t))
  BY AppendQueue
<1>3. EnqueueReady(rq, t) \in [Process -> Seq(Thread)]
  BY <1>2 DEF EnqueueReady
<1>4. QED
  BY <1>1, <1>2, <1>3

\* Each thread of q gets into the queue of its process, once.
LEMMA EnqueueAllFacts ==
    ASSUME NEW rq \in [Process -> Seq(Thread)], NEW q \in Seq(Thread),
           NoRepeat(q), \A p \in Process : NoRepeat(rq[p]),
           \A p \in Process, t \in Thread : Occurs(q, t) => ~Occurs(rq[p], t)
    PROVE  /\ EnqueueAll(rq, q) \in [Process -> Seq(Thread)]
           /\ \A p \in Process : NoRepeat(EnqueueAll(rq, q)[p])
           /\ \A p \in Process, t \in Thread : Occurs(EnqueueAll(rq, q)[p], t)
                <=> Occurs(rq[p], t) \/ (Occurs(q, t) /\ p = ProcessOf[t])
<1>1. PICK f : /\ f[0] = rq
               /\ \A i \in 1..Len(q) : f[i] = EnqueueReady(f[i - 1], q[i])
               /\ EnqueueAll(rq, q) = f[Len(q)]
  BY EnqueueAllSteps
<1> DEFINE Served(t, n) == \E i \in 1..n : q[i] = t
           Right(n) ==
             /\ f[n] \in [Process -> Seq(Thread)]
             /\ \A p \in Process : NoRepeat(f[n][p])
             /\ \A p \in Process, t \in Thread : Occurs(f[n][p], t)
                  <=> Occurs(rq[p], t) \/ (Served(t, n) /\ p = ProcessOf[t])
           Good == {n \in Nat : n <= Len(q) => Right(n)}
<1>2. /\ Len(q) \in Nat /\ \A i \in 1..Len(q) : q[i] \in Thread
      /\ \A i, j \in 1..Len(q) : q[i] = q[j] => i = j
      /\ \A t \in Thread : Occurs(q, t) <=> Served(t, Len(q))
  BY OccursIn
<1>3. 0 \in Good
  BY <1>1
<1>4. ASSUME NEW n \in Good PROVE n + 1 \in Good
  <2>1. SUFFICES ASSUME n + 1 <= Len(q) PROVE Right(n + 1)
    BY <1>4
  <2> DEFINE u == q[n + 1]
  <2>2. /\ n \in Nat /\ n + 1 \in 1..Len(q) /\ u \in Thread
        /\ Right(n) /\ (n + 1) - 1 = n
    BY <1>2, <1>4, <2>1
  <2>3. f[n + 1] = EnqueueReady(f[n], u)
    BY <1>1, <2>2
  <2>4. \A t \in Thread : Served(t, n + 1) <=> Served(t, n) \/ t = u
    BY <2>2
  <2>5. \A p \in Process : ~Occurs(f[n][p], u)
    <3>1. ~Served(u, n)
      BY <1>2, <2>2
    <3>2. Occurs(q, u)
      BY <1>2, <2>2
    <3>3. QED
      BY <2>2, <3>1, <3>2
  <2>6. /\ f[n + 1] \in [Process -> Seq(Thread)]
        /\ \A p \in Process, t \in Thread : Occurs(f[n + 1][p], t)
             <=> Occurs(f[n][p], t) \/ (t = u /\ p = ProcessOf[u])
        /\ \A p \in Process : NoRepeat(f[n][p]) => NoRepeat(f[n + 1][p])
    <3>1. /\ f[n] \in [Process -> Seq(Thread)] /\ u \in Thread
          /\ ~Occurs(f[n][ProcessOf[u]], u)
      BY <2>2, <2>5, SchedAssumption
    <3> HIDE DEF u, Right, Good, Served
    <3>2. EnqueueReady(f[n], u) \in [Process -> Seq(Thread)]
      BY <3>1, EnqueueReadyFacts
    <3>3. \A p \in Process, t \in Thread : Occurs(EnqueueReady(f[n], u)[p], t)
             <=> Occurs(f[n][p], t) \/ (t = u /\ p = ProcessOf[u])
      BY <3>1, EnqueueReadyFacts
    <3>4. \A p \in Process : NoRepeat(f[n][p]) => NoRepeat(EnqueueReady(f[n], u)[p])
      BY <3>1, EnqueueReadyFacts
    <3>5. QED
      BY <2>3, <3>2, <3>3, <3>4
  <2> HIDE DEF Served, u
  <2>7. QED
    BY <2>2, <2>4, <2>6
<1>5. Good = Nat
  <2>1. Good \in SUBSET Nat
    OBVIOUS
  <2> HIDE DEF Good
  <2>2. QED
    BY <1>3, <1>4, <2>1, SetInduction
<1>6. Right(Len(q))
  <2>1. Len(q) \in Good
    BY <1>2, <1>5
  <2> HIDE DEF Right
  <2>2. QED
    BY <1>2, <2>1
<1> HIDE DEF Served
<1>7. QED
  BY <1>1, <1>2, <1>6

-----------------------------------------------------------------------------
(* The inductive invariant.                                                *)

TypeOK ==
    /\ current \in Thread \cup {NULL}
    /\ status \in [Thread -> Status]
    /\ runq \in [Process -> Seq(Thread)]
    /\ procq \in Seq(Process)
    /\ sleepq \in Seq(Thread)
    /\ remaining \in [Thread -> Nat]
    /\ quantum \in Nat \ {0}

\* The running thread has status RUNNING, or READY if the tick put it back
\* and the switch chose it again; no other thread has RUNNING.
RunningExact ==
    /\ current # NULL => status[current] \in {"RUNNING", "READY"}
    /\ \A t \in Thread : status[t] = "RUNNING" => t = current

\* The switch finds every thread there is.
Listed == \A t \in Thread : status[t] # "NEW" => Occurs(procq, ProcessOf[t])

\* Over the idle loop the next tick switches.
IdleQuantum == current = NULL => quantum = 1

\* The sleepers in the order in which they are to be woken.
SleepSorted ==
    \A i, j \in 1..Len(sleepq) :
      i <= j => remaining[sleepq[i]] <= remaining[sleepq[j]]

SleepersCount == \A t \in Thread : status[t] = "SLEEPING" <=> remaining[t] > 0

Inv ==
    /\ TypeOK /\ QueuesExact /\ RunningExact /\ Listed /\ IdleQuantum
    /\ SleepSorted /\ SleepersCount

LEMMA InvInit == Init => Inv
<1> SUFFICES ASSUME Init PROVE Inv
  OBVIOUS
<1>1. /\ procq = <<ProcessOf[current]>> /\ ProcessOf[current] \in Process
      /\ procq[1] = ProcessOf[current] /\ Len(procq) = 1 /\ procq \in Seq(Process)
  BY SchedAssumption DEF Init
<1>2. TypeOK
  BY <1>1, SchedAssumption DEF Init, TypeOK, Status
<1>3. QueuesExact
  BY EmptyQueue DEF Init, QueuesExact
<1>4. RunningExact
  BY DEF Init, RunningExact
<1>5. Occurs(procq, ProcessOf[current])
  <2>1. 1 \in 1..Len(procq)
    BY <1>1
  <2>2. QED
    BY <1>1, <2>1, OccursIn
<1>6. Listed
  BY <1>5 DEF Init, Listed
<1>7. IdleQuantum
  BY SchedAssumption DEF Init, IdleQuantum
<1>8. SleepSorted /\ SleepersCount
  BY DEF Init, SleepSorted, SleepersCount
<1>9. QED
  BY <1>2, <1>3, <1>4, <1>6, <1>7, <1>8 DEF Inv

\* What holds when an operation has put the threads in their places and is
\* about to switch: nobody is running, the run queues rq have exactly the
\* ready threads, and all processes of those are in the queue of processes.
Settled(rq, st) ==
    /\ rq \in [Process -> Seq(Thread)]
    /\ st \in [Thread -> Status]
    /\ \A t \in Thread : st[t] # "RUNNING"
    /\ \A p \in Process : NoRepeat(rq[p])
    /\ \A p \in Process, t \in Thread :
         Occurs(rq[p], t) <=> p = ProcessOf[t] /\ st[t] = "READY"
    /\ \A t \in Thread : st[t] # "NEW" => Occurs(procq, ProcessOf[t])

\* The switch runs a ready thread, or nobody if there is none, and changes
\* nothing else.
LEMMA SwitchFacts ==
    ASSUME procq \in Seq(Process), NEW rq, NEW st, Settled(rq, st),
           SwitchAny(rq, st)
    PROVE  /\ procq' \in Seq(Process)
           /\ \A p \in Process : Occurs(procq', p) <=> Occurs(procq, p)
           /\ runq' \in [Process -> Seq(Thread)]
           /\ status' \in [Thread -> Status]
           /\ quantum' \in Nat \ {0}
           /\ \A p \in Process : NoRepeat(runq'[p])
           /\ \A p \in Process, t \in Thread : Occurs(runq'[p], t)
                <=> p = ProcessOf[t] /\ st[t] = "READY" /\ t # current'
           /\ \A t \in Thread : t # current' => status'[t] = st[t]
           /\ \/ /\ current' \in Thread
                 /\ st[current'] = "READY"
                 /\ status'[current'] \in {"RUNNING", "READY"}
              \/ /\ current' = NULL /\ quantum' = 1
                 /\ \A t \in Thread : st[t] # "READY"
<1>1. /\ rq \in [Process -> Seq(Thread)]
      /\ st \in [Thread -> Status]
      /\ \A p \in Process : NoRepeat(rq[p])
      /\ \A p \in Process, t \in Thread :
           Occurs(rq[p], t) <=> p = ProcessOf[t] /\ st[t] = "READY"
      /\ Len(procq) \in Nat
      /\ \A i \in 1..Len(procq) : procq[i] \in Process
      /\ \A p : Occurs(procq, p) <=> \E i \in 1..Len(procq) : procq[i] = p
  <2>1. /\ Len(procq) \in Nat
        /\ \A i \in 1..Len(procq) : procq[i] \in Process
        /\ \A p : Occurs(procq, p) <=> \E i \in 1..Len(procq) : procq[i] = p
    BY OccursIn
  <2>2. QED
    BY <2>1 DEF Settled
<1>2. CASE SwitchReady(rq, st)
  <2>1. PICK k \in 1..Len(procq) : /\ rq[procq[k]] # <<>>
                                   /\ procq' = Rotate(procq, k)
                                   /\ SwitchInto(procq[k], rq, st)
    BY <1>2 DEF SwitchReady
  <2> DEFINE p == procq[k]
             n == Head(rq[p])
  <2>2. p \in Process /\ rq[p] \in Seq(Thread) /\ k \in 0..Len(procq)
    BY <1>1
  <2>3. /\ procq' \in Seq(Process)
        /\ \A x \in Process : Occurs(procq', x) <=> Occurs(procq, x)
    BY <2>1, <2>2, RotateQueue
  <2>4. /\ current' = n /\ runq' = [rq EXCEPT ![p] = Tail(@)]
        /\ status' = IF n = current THEN st ELSE [st EXCEPT ![n] = "RUNNING"]
        /\ quantum' = Quantum
    BY <2>1 DEF SwitchInto
  <2>5. rq[p] # <<>>
    BY <2>1
  <2> HIDE DEF p
  <2>6. /\ Tail(rq[p]) \in Seq(Thread) /\ n \in Thread
        /\ Occurs(rq[p], n)
        /\ NoRepeat(Tail(rq[p]))
        /\ \A x : Occurs(Tail(rq[p]), x) <=> Occurs(rq[p], x) /\ x # n
    BY <1>1, <2>2, <2>5, TailQueue
  <2> HIDE DEF n
  <2>7. p = ProcessOf[n] /\ st[n] = "READY"
    BY <1>1, <2>2, <2>6
  <2>8. /\ runq' \in [Process -> Seq(Thread)]
        /\ \A x \in Process : runq'[x] = IF x = p THEN Tail(rq[p]) ELSE rq[x]
    BY <1>1, <2>2, <2>4, <2>6
  <2>9. \A x \in Process : NoRepeat(runq'[x])
    BY <1>1, <2>6, <2>8
  <2>10. \A x \in Process, t \in Thread : Occurs(runq'[x], t)
           <=> x = ProcessOf[t] /\ st[t] = "READY" /\ t # n
    <3>1. ASSUME NEW x \in Process, NEW t \in Thread, x = p
          PROVE  Occurs(runq'[x], t)
                   <=> x = ProcessOf[t] /\ st[t] = "READY" /\ t # n
      <4>1. runq'[x] = Tail(rq[p])
        BY <2>8, <3>1
      <4>2. Occurs(rq[p], t) <=> p = ProcessOf[t] /\ st[t] = "READY"
        BY <1>1, <2>2
      <4>3. Occurs(Tail(rq[p]), t) <=> Occurs(rq[p], t) /\ t # n
        BY <2>6
      <4>4. QED
        BY <3>1, <4>1, <4>2, <4>3
    <3>2. ASSUME NEW x \in Process, NEW t \in Thread, x # p
          PROVE  Occurs(runq'[x], t)
                   <=> x = ProcessOf[t] /\ st[t] = "READY" /\ t # n
      <4>1. runq'[x] = rq[x]
        BY <2>8, <3>2
      <4>2. Occurs(rq[x], t) <=> x = ProcessOf[t] /\ st[t] = "READY"
        BY <1>1
      <4>3. QED
        BY <2>7, <3>2, <4>1, <4>2
    <3>3. QED
      BY <3>1, <3>2
  <2>11. /\ status' \in [Thread -> Status]
         /\ \A t \in Thread : t # n => status'[t] = st[t]
         /\ status'[n] \in {"RUNNING", "READY"}
    BY <1>1, <2>4, <2>6, <2>7 DEF Status
  <2>12. quantum' \in Nat \ {0}
    BY <2>4, SchedAssumption
  <2>13. QED
    BY <2>3, <2>4, <2>6, <2>7, <2>8, <2>9, <2>10, <2>11, <2>12
<1>3. CASE GoIdle(rq, st)
  <2>1. /\ \A i \in 1..Len(procq) : rq[procq[i]] = <<>>
        /\ procq' = Rotate(procq, 1) /\ current' = NULL
        /\ runq' = rq /\ status' = st /\ quantum' = 1
    BY <1>3 DEF GoIdle, NoneReady, Idle
  <2>2. \A t \in Thread : st[t] # "READY"
    <3>1. ASSUME NEW t \in Thread, st[t] = "READY" PROVE FALSE
      <4>1. Occurs(procq, ProcessOf[t]) /\ ProcessOf[t] \in Process
        BY <3>1, SchedAssumption DEF Settled
      <4>2. rq[ProcessOf[t]] = <<>>
        <5>1. PICK i \in 1..Len(procq) : procq[i] = ProcessOf[t]
          BY <1>1, <4>1
        <5>2. QED
          BY <2>1, <5>1
      <4>3. Occurs(rq[ProcessOf[t]], t)
        BY <1>1, <3>1, <4>1
      <4>4. QED
        BY <4>2, <4>3, EmptyQueue
    <3>2. QED
      BY <3>1
  <2>3. NULL \notin Thread
    BY SchedAssumption
  <2>4. /\ procq' \in Seq(Process)
        /\ \A x \in Process : Occurs(procq', x) <=> Occurs(procq, x)
    <3>1. CASE procq = <<>>
      <4>1. Rotate(procq, 1) = procq
        BY <3>1 DEF Rotate
      <4>2. QED
        BY <2>1, <4>1
    <3>2. CASE procq # <<>>
      <4>1. 1 \in 0..Len(procq)
        BY <3>2, EmptySeq
      <4>2. QED
        BY <2>1, <4>1, RotateQueue
    <3>3. QED
      BY <3>1, <3>2
  <2>5. QED
    BY <1>1, <2>1, <2>2, <2>3, <2>4
<1>4. QED
  BY <1>2, <1>3 DEF SwitchAny

\* A switch re-establishes what it needs, if the sleep queue is in order.
LEMMA InvSwitch ==
    ASSUME procq \in Seq(Process), NEW rq, NEW st, Settled(rq, st),
           SwitchAny(rq, st),
           sleepq' \in Seq(Thread), remaining' \in [Thread -> Nat],
           NoRepeat(sleepq'), SleepSorted',
           \A t \in Thread : Occurs(sleepq', t) <=> st[t] = "SLEEPING",
           \A t \in Thread : st[t] = "SLEEPING" <=> remaining'[t] > 0
    PROVE  Inv'
<1>1. /\ procq' \in Seq(Process)
      /\ \A p \in Process : Occurs(procq', p) <=> Occurs(procq, p)
      /\ runq' \in [Process -> Seq(Thread)]
      /\ status' \in [Thread -> Status]
      /\ quantum' \in Nat \ {0}
      /\ \A p \in Process : NoRepeat(runq'[p])
      /\ \A p \in Process, t \in Thread : Occurs(runq'[p], t)
           <=> p = ProcessOf[t] /\ st[t] = "READY" /\ t # current'
      /\ \A t \in Thread : t # current' => status'[t] = st[t]
  BY SwitchFacts
<1>2. \/ /\ current' \in Thread
         /\ st[current'] = "READY"
         /\ status'[current'] \in {"RUNNING", "READY"}
      \/ /\ current' = NULL /\ quantum' = 1
         /\ \A t \in Thread : st[t] # "READY"
  BY SwitchFacts
<1>3. NULL \notin Thread /\ \A t \in Thread : ProcessOf[t] \in Process
  BY SchedAssumption
<1>4. \A t \in Thread : st[t] # "RUNNING"
                          /\ (st[t] # "NEW" => Occurs(procq, ProcessOf[t]))
  BY DEF Settled
<1>5. TypeOK'
  BY <1>1, <1>2 DEF TypeOK
<1>6. QueuesExact'
  <2>1. ASSUME NEW t \in Thread
        PROVE  /\ Occurs(sleepq', t) <=> status'[t] = "SLEEPING"
               /\ \A p \in Process : Occurs(runq'[p], t)
                    <=> p = ProcessOf[t] /\ status'[t] = "READY" /\ t # current'
    <3>1. CASE t = current'
      BY <1>1, <1>2, <1>3, <3>1
    <3>2. CASE t # current'
      BY <1>1, <3>2
    <3>3. QED
      BY <3>1, <3>2
  <2>2. QED
    BY <1>1, <2>1 DEF QueuesExact
<1>7. RunningExact'
  BY <1>1, <1>2, <1>4 DEF RunningExact
<1>8. Listed'
  <2>1. ASSUME NEW t \in Thread, status'[t] # "NEW" PROVE st[t] # "NEW"
    <3>1. CASE t = current'
      BY <1>2, <1>3, <3>1
    <3>2. CASE t # current'
      BY <1>1, <2>1, <3>2
    <3>3. QED
      BY <3>1, <3>2
  <2>2. QED
    BY <1>1, <1>3, <1>4, <2>1 DEF Listed
<1>9. IdleQuantum'
  BY <1>2, <1>3 DEF IdleQuantum
<1>10. SleepersCount'
  <2>1. ASSUME NEW t \in Thread
        PROVE  status'[t] = "SLEEPING" <=> st[t] = "SLEEPING"
    <3>1. CASE t = current'
      BY <1>2, <1>3, <3>1
    <3>2. CASE t # current'
      BY <1>1, <3>2
    <3>3. QED
      BY <3>1, <3>2
  <2>2. QED
    BY <2>1 DEF SleepersCount
<1>11. QED
  BY <1>5, <1>6, <1>7, <1>8, <1>9, <1>10 DEF Inv

\* A new process: more can be found.
LEMMA InvCreateProcess ==
    ASSUME Inv, NEW p \in Process, CreateProcess(p)
    PROVE  Inv'
<1>1. /\ procq' = Append(procq, p) /\ procq \in Seq(Process)
      /\ UNCHANGED <<current, status, runq, sleepq, remaining, quantum>>
  BY DEF CreateProcess, Inv, TypeOK
<1>2. /\ procq' \in Seq(Process)
      /\ \A x : Occurs(procq, x) => Occurs(procq', x)
  BY <1>1, AppendQueue
<1>3. TypeOK'
  BY <1>1, <1>2 DEF Inv, TypeOK
<1>4. Listed'
  BY <1>1, <1>2 DEF Inv, Listed
<1>5. QED
  BY <1>1, <1>3, <1>4
  DEF Inv, QueuesExact, RunningExact, IdleQuantum, SleepSorted, SleepersCount

\* A thread that is in no queue becomes ready: it is created or woken.
LEMMA InvMakeReady ==
    ASSUME Inv, NEW t \in Thread, status[t] \in {"NEW", "BLOCKING"},
           Occurs(procq, ProcessOf[t]),
           status' = [status EXCEPT ![t] = "READY"],
           runq' = EnqueueReady(runq, t),
           UNCHANGED <<current, procq, sleepq, remaining, quantum>>
    PROVE  Inv'
<1>1. /\ status \in [Thread -> Status] /\ runq \in [Process -> Seq(Thread)]
      /\ ProcessOf[t] \in Process /\ t # current
      /\ ~Occurs(runq[ProcessOf[t]], t)
  BY SchedAssumption DEF Inv, TypeOK, RunningExact, QueuesExact
<1>2. /\ status' \in [Thread -> Status]
      /\ \A u \in Thread : status'[u] = IF u = t THEN "READY" ELSE status[u]
  BY <1>1 DEF Status
<1>3. runq' \in [Process -> Seq(Thread)]
  BY <1>1, EnqueueReadyFacts
<1>4. \A p \in Process, u \in Thread : Occurs(runq'[p], u)
        <=> Occurs(runq[p], u) \/ (u = t /\ p = ProcessOf[t])
  BY <1>1, EnqueueReadyFacts
<1>5. \A p \in Process : NoRepeat(runq[p]) => NoRepeat(runq'[p])
  BY <1>1, EnqueueReadyFacts
<1>6. TypeOK'
  BY <1>2, <1>3 DEF Inv, TypeOK
<1>7. QueuesExact'
  <2>1. ASSUME NEW u \in Thread
        PROVE  /\ Occurs(sleepq, u) <=> status'[u] = "SLEEPING"
               /\ \A p \in Process : Occurs(runq'[p], u)
                    <=> p = ProcessOf[u] /\ status'[u] = "READY" /\ u # current
    BY <1>1, <1>2, <1>4 DEF Inv, QueuesExact
  <2>2. QED
    BY <1>5, <2>1 DEF Inv, QueuesExact
<1>8. RunningExact' /\ Listed' /\ SleepersCount'
  BY <1>1, <1>2 DEF Inv, RunningExact, Listed, SleepersCount
<1>9. QED
  BY <1>6, <1>7, <1>8 DEF Inv, IdleQuantum, SleepSorted

\* The running thread gives the processor up in the state s: it goes to the
\* back of its run queue if that is READY, and to no queue of the scheduler
\* otherwise.
LEMMA LeaveSettled ==
    ASSUME Inv, current # NULL, NEW s \in Status \ {"NEW", "RUNNING"}, NEW rq,
           rq = IF s = "READY" THEN EnqueueReady(runq, current) ELSE runq
    PROVE  Settled(rq, [status EXCEPT ![current] = s])
<1> DEFINE st == [status EXCEPT ![current] = s]
<1>1. /\ current \in Thread /\ status \in [Thread -> Status]
      /\ runq \in [Process -> Seq(Thread)] /\ ProcessOf[current] \in Process
      /\ \A t \in Thread : status[t] = "RUNNING" => t = current
      /\ status[current] # "NEW"
  BY SchedAssumption DEF Inv, TypeOK, RunningExact
<1>2. /\ st \in [Thread -> Status]
      /\ \A t \in Thread : st[t] = IF t = current THEN s ELSE status[t]
  BY <1>1
<1> HIDE DEF st
<1>3. /\ \A p \in Process : NoRepeat(runq[p])
      /\ \A p \in Process, t \in Thread : Occurs(runq[p], t)
           <=> p = ProcessOf[t] /\ status[t] = "READY" /\ t # current
  BY DEF Inv, QueuesExact
<1>4. /\ rq \in [Process -> Seq(Thread)]
      /\ \A p \in Process : NoRepeat(rq[p])
      /\ \A p \in Process, t \in Thread :
           Occurs(rq[p], t) <=> p = ProcessOf[t] /\ st[t] = "READY"
  <2>1. CASE s = "READY"
    <3>1. ~Occurs(runq[ProcessOf[current]], current) /\ rq = EnqueueReady(runq, current)
      BY <1>1, <1>3, <2>1
    <3>2. rq \in [Process -> Seq(Thread)]
      BY <1>1, <3>1, EnqueueReadyFacts
    <3>3. \A p \in Process : NoRepeat(runq[p]) => NoRepeat(rq[p])
      BY <1>1, <3>1, EnqueueReadyFacts
    <3>4. \A p \in Process, t \in Thread : Occurs(rq[p], t)
            <=> Occurs(runq[p], t) \/ (t = current /\ p = ProcessOf[current])
      BY <1>1, <3>1, EnqueueReadyFacts
    <3>5. QED
      BY <1>2, <1>3, <2>1, <3>2, <3>3, <3>4
  <2>2. CASE s # "READY"
    BY <1>1, <1>2, <1>3, <2>2
  <2>3. QED
    BY <2>1, <2>2
<1>5. \A t \in Thread : st[t] # "NEW" => Occurs(procq, ProcessOf[t])
  BY <1>1, <1>2 DEF Inv, Listed
<1>6. \A t \in Thread : st[t] # "RUNNING"
  BY <1>1, <1>2
<1>7. Settled(rq, st)
  BY <1>2, <1>4, <1>5, <1>6 DEF Settled
<1>8. QED
  BY <1>7 DEF st

\* It does so without a sleep, in a block, at its end, or for no time.
LEMMA InvLeave ==
    ASSUME Inv, current # NULL, NEW s \in {"READY", "BLOCKING", "DEAD"}, NEW rq,
           rq = IF s = "READY" THEN EnqueueReady(runq, current) ELSE runq,
           SwitchAny(rq, [status EXCEPT ![current] = s]),
           UNCHANGED <<sleepq, remaining>>
    PROVE  Inv'
<1> DEFINE st == [status EXCEPT ![current] = s]
<1>1. s \in Status \ {"NEW", "RUNNING"}
  BY DEF Status
<1>2. Settled(rq, st) /\ SwitchAny(rq, st)
  BY <1>1, LeaveSettled
<1>3. /\ current \in Thread /\ status \in [Thread -> Status]
      /\ procq \in Seq(Process) /\ sleepq \in Seq(Thread)
      /\ remaining \in [Thread -> Nat]
      /\ status[current] # "SLEEPING"
  BY DEF Inv, TypeOK, RunningExact
<1>4. \A t \in Thread : st[t] = "SLEEPING" <=> status[t] = "SLEEPING"
  BY <1>3
<1> HIDE DEF st
<1>5. /\ NoRepeat(sleepq') /\ SleepSorted'
      /\ \A t \in Thread : Occurs(sleepq', t) <=> st[t] = "SLEEPING"
      /\ \A t \in Thread : st[t] = "SLEEPING" <=> remaining'[t] > 0
  BY <1>4 DEF Inv, QueuesExact, SleepSorted, SleepersCount
<1>6. sleepq' \in Seq(Thread) /\ remaining' \in [Thread -> Nat]
  BY <1>3
<1>7. QED
  BY <1>2, <1>3, <1>5, <1>6, InvSwitch

-----------------------------------------------------------------------------
(* The sleep queue.                                                        *)

\* An insertion behind the first k.
Inserted(q, e, k) == SubSeq(q, 1, k) \o <<e>> \o SubSeq(q, k + 1, Len(q))

LEMMA InsertFacts ==
    ASSUME NEW S, NEW q \in Seq(S), NEW e \in S, NEW k \in 0..Len(q), NEW r,
           r = Inserted(q, e, k)
    PROVE  /\ r \in Seq(S) /\ Len(r) = Len(q) + 1
           /\ \A i \in 1..k : r[i] = q[i]
           /\ r[k + 1] = e
           /\ \A i \in (k + 2)..Len(r) : r[i] = q[i - 1]
<1> DEFINE front == SubSeq(q, 1, k)
           back == SubSeq(q, k + 1, Len(q))
           one == <<e>>
           mid == front \o one
<1>1. /\ Len(q) \in Nat
      /\ front \in Seq(S) /\ Len(front) = k /\ \A i \in 1..k : front[i] = q[i]
      /\ back \in Seq(S) /\ Len(back) = Len(q) - k
      /\ \A i \in 1..(Len(q) - k) : back[i] = q[k + i]
  BY CutQueue, OccursIn
<1>2. one \in Seq(S) /\ Len(one) = 1 /\ one[1] = e
  OBVIOUS
<1>3. r = mid \o back
  BY DEF Inserted
<1> HIDE DEF front, back, one
<1>4. /\ mid \in Seq(S) /\ Len(mid) = k + 1
      /\ \A i \in 1..(k + 1) : mid[i] = IF i <= k THEN front[i] ELSE one[i - k]
  <2>1. /\ front \o one \in Seq(S)
        /\ Len(front \o one) = Len(front) + Len(one)
        /\ \A i \in 1..Len(front) + Len(one) : (front \o one)[i] =
             IF i <= Len(front) THEN front[i] ELSE one[i - Len(front)]
    BY <1>1, <1>2, ConcatProperties
  <2>2. QED
    BY <1>1, <1>2, <2>1
<1> HIDE DEF mid
<1>5. /\ r \in Seq(S) /\ Len(r) = Len(q) + 1
      /\ \A i \in 1..(Len(q) + 1) :
           r[i] = IF i <= k + 1 THEN mid[i] ELSE back[i - (k + 1)]
  <2>1. mid \in Seq(S) /\ back \in Seq(S)
    BY <1>1, <1>4
  <2>2. /\ mid \o back \in Seq(S)
        /\ Len(mid \o back) = Len(mid) + Len(back)
        /\ \A i \in 1..Len(mid) + Len(back) : (mid \o back)[i] =
             IF i <= Len(mid) THEN mid[i] ELSE back[i - Len(mid)]
    BY <2>1, ConcatProperties
  <2>3. Len(mid) = k + 1 /\ Len(mid) + Len(back) = Len(q) + 1
    BY <1>1, <1>4
  <2>4. QED
    BY <1>3, <2>2, <2>3
<1>6. ASSUME NEW i \in 1..k PROVE r[i] = q[i]
  BY <1>1, <1>4, <1>5, <1>6
<1>7. r[k + 1] = e
  <2>1. k + 1 \in 1..(k + 1) /\ ~(k + 1 <= k) /\ (k + 1) - k = 1
    OBVIOUS
  <2>2. k + 1 \in 1..(Len(q) + 1)
    BY <1>1
  <2>3. QED
    BY <1>2, <1>4, <1>5, <2>1, <2>2
<1>8. ASSUME NEW i \in (k + 2)..Len(r) PROVE r[i] = q[i - 1]
  <2>1. Len(q) \in Nat /\ Len(r) = Len(q) + 1 /\ k \in Nat /\ k <= Len(q)
    BY <1>1, <1>5
  <2>2. /\ i \in 1..(Len(q) + 1) /\ ~(i <= k + 1)
        /\ i - (k + 1) \in 1..(Len(q) - k) /\ k + (i - (k + 1)) = i - 1
    BY <2>1
  <2>3. QED
    BY <1>1, <1>5, <2>2
<1>9. QED
  BY <1>5, <1>6, <1>7, <1>8

\* The members of the longer queue, each still once.
LEMMA InsertQueue ==
    ASSUME NEW S, NEW q \in Seq(S), NEW e \in S, NEW k \in 0..Len(q), NEW r,
           r = Inserted(q, e, k)
    PROVE  /\ \A x : Occurs(r, x) <=> Occurs(q, x) \/ x = e
           /\ NoRepeat(q) /\ ~Occurs(q, e) => NoRepeat(r)
<1>1. /\ Len(q) \in Nat /\ r \in Seq(S) /\ Len(r) = Len(q) + 1
      /\ \A i \in 1..k : r[i] = q[i]
      /\ r[k + 1] = e
      /\ \A i \in (k + 2)..Len(r) : r[i] = q[i - 1]
  BY InsertFacts, OccursIn
<1> DEFINE Old(i) == IF i <= k THEN i ELSE i - 1
<1>2. ASSUME NEW i \in 1..Len(r), i # k + 1
      PROVE  Old(i) \in 1..Len(q) /\ r[i] = q[Old(i)]
  <2>1. CASE i <= k
    BY <1>1, <2>1
  <2>2. CASE ~(i <= k)
    <3>1. i \in (k + 2)..Len(r) /\ i - 1 \in 1..Len(q)
      BY <1>1, <1>2, <2>2
    <3>2. QED
      BY <1>1, <2>2, <3>1
  <2>3. QED
    BY <2>1, <2>2
<1>3. ASSUME NEW x, NEW i \in 1..Len(q), q[i] = x PROVE Occurs(r, x)
  <2>1. CASE i <= k
    <3>1. i \in 1..Len(r) /\ r[i] = x
      BY <1>1, <1>3, <2>1
    <3>2. QED
      BY <1>1, <3>1, OccursIn
  <2>2. CASE ~(i <= k)
    <3>1. i + 1 \in (k + 2)..Len(r) /\ i + 1 \in 1..Len(r) /\ (i + 1) - 1 = i
      BY <1>1, <2>2
    <3>2. r[i + 1] = x
      BY <1>1, <1>3, <3>1
    <3>3. QED
      BY <1>1, <3>1, <3>2, OccursIn
  <2>3. QED
    BY <2>1, <2>2
<1>4. Occurs(r, e)
  <2>1. k + 1 \in 1..Len(r)
    BY <1>1
  <2>2. QED
    BY <1>1, <2>1, OccursIn
<1>5. ASSUME NEW x, NEW i \in 1..Len(r), r[i] = x PROVE Occurs(q, x) \/ x = e
  BY <1>1, <1>2, <1>5, OccursIn
<1>6. ASSUME NoRepeat(q), ~Occurs(q, e) PROVE NoRepeat(r)
  <2>1. ASSUME NEW i \in 1..Len(r), NEW j \in 1..Len(r), r[i] = r[j] PROVE i = j
    <3>1. CASE i = k + 1 \/ j = k + 1
      <4>1. ASSUME NEW x \in 1..Len(r), x # k + 1 PROVE r[x] # e
        <5>1. Old(x) \in 1..Len(q) /\ r[x] = q[Old(x)]
          BY <1>2, <4>1
        <5> HIDE DEF Old
        <5>2. QED
          BY <1>6, <5>1, OccursIn
      <4>2. QED
        BY <1>1, <2>1, <3>1, <4>1
    <3>2. CASE i # k + 1 /\ j # k + 1
      <4>1. Old(i) = Old(j)
        <5>1. /\ Old(i) \in 1..Len(q) /\ Old(j) \in 1..Len(q)
              /\ q[Old(i)] = q[Old(j)]
          BY <1>2, <2>1, <3>2
        <5> HIDE DEF Old
        <5>2. QED
          BY <1>6, <5>1, OccursIn
      <4>2. k \in Nat /\ i \in Nat /\ j \in Nat
        BY <1>1
      <4>3. QED
        BY <3>2, <4>1, <4>2
    <3>3. QED
      BY <3>1, <3>2
  <2>2. \A i, j \in 1..Len(r) : r[i] = r[j] => i = j
    BY <2>1
  <2>3. QED
    BY <1>1, <2>2, OccursIn
<1>7. \A x : Occurs(r, x) => \E i \in 1..Len(r) : r[i] = x
  BY <1>1, OccursIn
<1>8. \A x : Occurs(r, x) => Occurs(q, x) \/ x = e
  BY <1>5, <1>7
<1>9. \A x : Occurs(q, x) => Occurs(r, x)
  BY <1>3, OccursIn
<1>10. QED
  BY <1>4, <1>6, <1>8, <1>9

\* The running thread is put where the queue stays in order.
LEMMA InvSleep ==
    ASSUME Inv, NEW n \in 1..MaxSleep, Sleep(n)
    PROVE  Inv'
<1> DEFINE Early == {t \in Thread : remaining[t] < n}
           k == PrefixLen(sleepq, Early)
           st == [status EXCEPT ![current] = "SLEEPING"]
<1>1. /\ current # NULL /\ sleepq' = Inserted(sleepq, current, k)
      /\ remaining' = [remaining EXCEPT ![current] = n]
      /\ SwitchAny(runq, st)
  BY DEF Sleep, Inserted
<1>2. /\ current \in Thread /\ status \in [Thread -> Status]
      /\ procq \in Seq(Process) /\ sleepq \in Seq(Thread)
      /\ remaining \in [Thread -> Nat]
      /\ status[current] # "SLEEPING" /\ ~Occurs(sleepq, current)
      /\ Len(sleepq) \in Nat /\ \A i \in 1..Len(sleepq) : sleepq[i] \in Thread
      /\ n \in Nat /\ n > 0
  <2>1. /\ current \in Thread /\ status \in [Thread -> Status]
        /\ procq \in Seq(Process) /\ sleepq \in Seq(Thread)
        /\ remaining \in [Thread -> Nat]
        /\ status[current] # "SLEEPING"
    BY <1>1 DEF Inv, TypeOK, RunningExact
  <2>2. ~Occurs(sleepq, current)
    BY <2>1 DEF Inv, QueuesExact
  <2>3. n \in Nat /\ n > 0
    BY SchedAssumption
  <2>4. Len(sleepq) \in Nat /\ \A i \in 1..Len(sleepq) : sleepq[i] \in Thread
    BY <2>1, OccursIn
  <2>5. QED
    BY <2>1, <2>2, <2>3, <2>4
<1>3. /\ k \in 0..Len(sleepq)
      /\ \A i \in 1..k : remaining[sleepq[i]] < n
      /\ k < Len(sleepq) => ~(remaining[sleepq[k + 1]] < n)
  <2>1. /\ k \in 0..Len(sleepq)
        /\ \A i \in 1..k : sleepq[i] \in Early
        /\ k < Len(sleepq) => sleepq[k + 1] \notin Early
    BY <1>2, PrefixFacts
  <2> HIDE DEF k
  <2>2. k < Len(sleepq) => k + 1 \in 1..Len(sleepq)
    BY <1>2, <2>1
  <2>3. QED
    BY <1>2, <2>1, <2>2
<1> HIDE DEF k
<1>4. /\ sleepq' \in Seq(Thread) /\ Len(sleepq') = Len(sleepq) + 1
      /\ \A i \in 1..k : sleepq'[i] = sleepq[i]
      /\ sleepq'[k + 1] = current
      /\ \A i \in (k + 2)..Len(sleepq') : sleepq'[i] = sleepq[i - 1]
  <2>1. /\ sleepq \in Seq(Thread) /\ current \in Thread
        /\ k \in 0..Len(sleepq) /\ sleepq' = Inserted(sleepq, current, k)
    BY <1>1, <1>2, <1>3
  <2>2. QED
    BY <2>1, InsertFacts
<1>5. \A x : Occurs(sleepq', x) <=> Occurs(sleepq, x) \/ x = current
  BY <1>1, <1>2, <1>3, InsertQueue
<1>6. NoRepeat(sleepq')
  BY <1>1, <1>2, <1>3, InsertQueue DEF Inv, QueuesExact
<1>7. /\ remaining' \in [Thread -> Nat]
      /\ \A t \in Thread : remaining'[t] = IF t = current THEN n ELSE remaining[t]
  BY <1>1, <1>2
<1>8. \A i \in 1..Len(sleepq) : remaining'[sleepq[i]] = remaining[sleepq[i]]
  BY <1>2, <1>7, OccursIn
<1>9. SleepSorted'
  <2>1. \A i \in 1..k : remaining'[sleepq'[i]] = remaining[sleepq[i]]
    <3>1. \A i \in 1..k : i \in 1..Len(sleepq) /\ sleepq'[i] = sleepq[i]
      BY <1>2, <1>3, <1>4
    <3>2. QED
      BY <1>8, <3>1
  <2>2. remaining'[sleepq'[k + 1]] = n
    BY <1>2, <1>4, <1>7
  <2>3. \A i \in (k + 2)..Len(sleepq') :
          /\ i - 1 \in 1..Len(sleepq)
          /\ remaining'[sleepq'[i]] = remaining[sleepq[i - 1]]
    <3>1. ASSUME NEW i \in (k + 2)..Len(sleepq') PROVE i - 1 \in 1..Len(sleepq)
      BY <1>2, <1>3, <1>4
    <3>2. QED
      BY <1>4, <1>8, <3>1
  <2>4. ASSUME NEW i \in 1..Len(sleepq), i > k PROVE remaining[sleepq[i]] >= n
    <3>1. k < Len(sleepq) /\ k + 1 \in 1..Len(sleepq) /\ k + 1 <= i
      BY <1>2, <1>3, <2>4
    <3>2. remaining[sleepq[k + 1]] <= remaining[sleepq[i]]
      BY <3>1 DEF Inv, SleepSorted
    <3>3. remaining[sleepq[k + 1]] \in Nat /\ remaining[sleepq[i]] \in Nat
      BY <1>2, <3>1
    <3>4. QED
      BY <1>2, <1>3, <3>1, <3>2, <3>3
  <2>5. \A i \in 1..Len(sleepq) : remaining[sleepq[i]] \in Nat
    BY <1>2
  <2>6. ASSUME NEW i \in 1..Len(sleepq'), NEW j \in 1..Len(sleepq'), i <= j
        PROVE  remaining'[sleepq'[i]] <= remaining'[sleepq'[j]]
    <3>1. CASE j \in 1..k
      <4>1. i \in 1..k /\ i \in 1..Len(sleepq) /\ j \in 1..Len(sleepq)
        BY <1>2, <1>3, <2>6, <3>1
      <4>2. QED
        BY <2>1, <2>6, <3>1, <4>1 DEF Inv, SleepSorted
    <3>2. CASE j = k + 1 /\ i = j
      BY <1>2, <2>2, <3>2
    <3>3. CASE j = k + 1 /\ i # j
      <4>1. i \in 1..k /\ i \in 1..Len(sleepq)
        BY <1>2, <1>3, <2>6, <3>3
      <4>2. remaining'[sleepq'[i]] < n /\ remaining'[sleepq'[i]] \in Nat
        BY <1>3, <2>1, <2>5, <4>1
      <4>3. remaining'[sleepq'[j]] = n
        BY <2>2, <3>3
      <4>4. QED
        BY <1>2, <4>2, <4>3
    <3>4. CASE j \in (k + 2)..Len(sleepq')
      <4>1. j - 1 \in 1..Len(sleepq) /\ j - 1 > k
        BY <1>3, <2>3, <3>4
      <4>2. remaining'[sleepq'[j]] = remaining[sleepq[j - 1]]
        BY <2>3, <3>4
      <4>3. CASE i \in 1..k
        <5>1. i \in 1..Len(sleepq) /\ i <= j - 1
          BY <1>2, <1>3, <4>1, <4>3
        <5>2. QED
          BY <2>1, <4>1, <4>2, <4>3, <5>1 DEF Inv, SleepSorted
      <4>4. CASE i = k + 1
        BY <2>2, <2>4, <4>1, <4>2, <4>4
      <4>5. CASE i \in (k + 2)..Len(sleepq')
        <5>1. i - 1 \in 1..Len(sleepq) /\ i - 1 <= j - 1
          BY <2>3, <2>6, <4>5
        <5>2. QED
          BY <2>3, <4>1, <4>2, <4>5, <5>1 DEF Inv, SleepSorted
      <4>6. QED
        BY <1>3, <1>4, <4>3, <4>4, <4>5
    <3>5. QED
      BY <1>2, <1>3, <1>4, <3>1, <3>2, <3>3, <3>4
  <2>7. QED
    BY <2>6 DEF SleepSorted
<1>10. "SLEEPING" \in Status \ {"NEW", "RUNNING"} /\ "SLEEPING" # "READY"
  BY DEF Status
<1>11. Settled(runq, st)
  BY <1>1, <1>10, LeaveSettled
<1>12. \A t \in Thread : st[t] = IF t = current THEN "SLEEPING" ELSE status[t]
  BY <1>2
<1> HIDE DEF st
<1>13. \A t \in Thread : Occurs(sleepq', t) <=> st[t] = "SLEEPING"
  BY <1>5, <1>12 DEF Inv, QueuesExact
<1>14. \A t \in Thread : st[t] = "SLEEPING" <=> remaining'[t] > 0
  BY <1>2, <1>7, <1>12 DEF Inv, SleepersCount
<1>15. QED
  BY <1>1, <1>2, <1>4, <1>6, <1>7, <1>9, <1>11, <1>13, <1>14, InvSwitch

-----------------------------------------------------------------------------
(* The tick.                                                               *)

\* The pieces of Tick: the sleepers it wakes, the statuses and the run queues
\* before the quantum is counted down.
DueLen == PrefixLen(sleepq, Due)
TickWoken == SubSeq(sleepq, 1, DueLen)
TickLeft == [t \in Thread |-> IF remaining[t] > 0 THEN remaining[t] - 1 ELSE 0]
TickStatus ==
    [t \in Thread |-> IF Occurs(TickWoken, t) THEN "READY" ELSE status[t]]
TickRunq == EnqueueAll(runq, TickWoken)

LEMMA TickPieces ==
    ASSUME Tick
    PROVE  /\ remaining' = TickLeft
           /\ sleepq' = SubSeq(sleepq, DueLen + 1, Len(sleepq))
           /\ \/ /\ quantum > 1
                 /\ status' = TickStatus
                 /\ runq' = TickRunq
                 /\ quantum' = quantum - 1
                 /\ UNCHANGED <<current, procq>>
              \/ /\ quantum = 1
                 /\ current # NULL
                 /\ SwitchAny(EnqueueReady(TickRunq, current),
                              [TickStatus EXCEPT ![current] = "READY"])
              \/ /\ quantum = 1
                 /\ current = NULL
                 /\ SwitchAny(TickRunq, TickStatus)
  BY DEF Tick, DueLen, TickWoken, TickLeft, TickStatus, TickRunq

\* The tick wakes the sleepers whose last tick this is, and no others.
LEMMA WokenAreDue ==
    ASSUME Inv
    PROVE  /\ TickWoken \in Seq(Thread) /\ NoRepeat(TickWoken)
           /\ \A t \in Thread :
                Occurs(TickWoken, t) <=> status[t] = "SLEEPING" /\ remaining[t] = 1
<1>1. /\ sleepq \in Seq(Thread) /\ Len(sleepq) \in Nat
      /\ \A i \in 1..Len(sleepq) : sleepq[i] \in Thread
      /\ \A i \in 1..Len(sleepq) : remaining[sleepq[i]] \in Nat
      /\ \A i, j \in 1..Len(sleepq) : sleepq[i] = sleepq[j] => i = j
      /\ \A t \in Thread :
           status[t] = "SLEEPING" <=> \E i \in 1..Len(sleepq) : sleepq[i] = t
      /\ \A t \in Thread : status[t] = "SLEEPING" <=> remaining[t] > 0
      /\ \A t \in Thread : remaining[t] \in Nat
  <2>1. sleepq \in Seq(Thread) /\ remaining \in [Thread -> Nat]
    BY DEF Inv, TypeOK
  <2>2. /\ Len(sleepq) \in Nat
        /\ \A i \in 1..Len(sleepq) : sleepq[i] \in Thread
        /\ \A t : Occurs(sleepq, t) <=> \E i \in 1..Len(sleepq) : sleepq[i] = t
        /\ NoRepeat(sleepq)
             <=> \A i, j \in 1..Len(sleepq) : sleepq[i] = sleepq[j] => i = j
    BY <2>1, OccursIn
  <2>3. QED
    BY <2>1, <2>2 DEF Inv, QueuesExact, SleepersCount
<1>2. /\ DueLen \in 0..Len(sleepq)
      /\ \A i \in 1..DueLen : remaining[sleepq[i]] <= 1
      /\ DueLen < Len(sleepq) => ~(remaining[sleepq[DueLen + 1]] <= 1)
  <2>1. /\ DueLen \in 0..Len(sleepq)
        /\ \A i \in 1..DueLen : sleepq[i] \in Due
        /\ DueLen < Len(sleepq) => sleepq[DueLen + 1] \notin Due
    BY <1>1, PrefixFacts DEF DueLen
  <2>2. DueLen < Len(sleepq) => DueLen + 1 \in 1..Len(sleepq)
    BY <1>1, <2>1
  <2>3. QED
    BY <1>1, <2>1, <2>2 DEF Due
<1>3. /\ TickWoken \in Seq(Thread) /\ Len(TickWoken) = DueLen
      /\ \A i \in 1..DueLen : TickWoken[i] = sleepq[i]
  BY <1>1, <1>2, CutQueue DEF TickWoken
<1>4. \A i \in 1..DueLen : i \in 1..Len(sleepq)
  BY <1>1, <1>2
<1>5. ASSUME NEW i \in 1..DueLen
      PROVE  status[sleepq[i]] = "SLEEPING" /\ remaining[sleepq[i]] = 1
  <2>1. /\ i \in 1..Len(sleepq) /\ sleepq[i] \in Thread
        /\ remaining[sleepq[i]] \in Nat /\ remaining[sleepq[i]] <= 1
    BY <1>1, <1>2, <1>4
  <2>2. status[sleepq[i]] = "SLEEPING"
    BY <1>1, <2>1
  <2>3. remaining[sleepq[i]] > 0
    BY <1>1, <2>1, <2>2
  <2>4. QED
    BY <2>1, <2>2, <2>3
<1>6. ASSUME NEW i \in 1..Len(sleepq), remaining[sleepq[i]] = 1
      PROVE  i \in 1..DueLen
  <2>1. SUFFICES ASSUME i > DueLen PROVE FALSE
    BY <1>1, <1>2
  <2>2. DueLen < Len(sleepq) /\ DueLen + 1 \in 1..Len(sleepq) /\ DueLen + 1 <= i
    BY <1>1, <1>2, <2>1
  <2>3. remaining[sleepq[DueLen + 1]] <= remaining[sleepq[i]]
    BY <2>2 DEF Inv, SleepSorted
  <2>4. QED
    BY <1>1, <1>2, <1>6, <2>2, <2>3
<1>7. \A t : Occurs(TickWoken, t) <=> \E i \in 1..DueLen : sleepq[i] = t
  BY <1>3, OccursIn
<1>8. NoRepeat(TickWoken)
  BY <1>1, <1>3, <1>4, OccursIn
<1>9. ASSUME NEW t \in Thread
      PROVE  Occurs(TickWoken, t) <=> status[t] = "SLEEPING" /\ remaining[t] = 1
  BY <1>1, <1>5, <1>6, <1>7
<1>10. QED
  BY <1>3, <1>8, <1>9

\* What is left of the sleep queue is in order, with one tick less to sleep.
LEMMA TickSleepers ==
    ASSUME Inv, remaining' = TickLeft,
           sleepq' = SubSeq(sleepq, DueLen + 1, Len(sleepq))
    PROVE  /\ sleepq' \in Seq(Thread) /\ remaining' \in [Thread -> Nat]
           /\ NoRepeat(sleepq') /\ SleepSorted'
           /\ \A t \in Thread : Occurs(sleepq', t) <=> TickStatus[t] = "SLEEPING"
           /\ \A t \in Thread : TickStatus[t] = "SLEEPING" <=> remaining'[t] > 0
<1>1. /\ sleepq \in Seq(Thread) /\ Len(sleepq) \in Nat
      /\ \A i \in 1..Len(sleepq) : sleepq[i] \in Thread
      /\ \A i, j \in 1..Len(sleepq) : sleepq[i] = sleepq[j] => i = j
      /\ \A t \in Thread :
           status[t] = "SLEEPING" <=> \E i \in 1..Len(sleepq) : sleepq[i] = t
      /\ \A t \in Thread : status[t] = "SLEEPING" <=> remaining[t] > 0
      /\ remaining \in [Thread -> Nat]
  <2>1. sleepq \in Seq(Thread) /\ remaining \in [Thread -> Nat]
    BY DEF Inv, TypeOK
  <2>2. /\ Len(sleepq) \in Nat
        /\ \A i \in 1..Len(sleepq) : sleepq[i] \in Thread
        /\ \A t : Occurs(sleepq, t) <=> \E i \in 1..Len(sleepq) : sleepq[i] = t
        /\ NoRepeat(sleepq)
             <=> \A i, j \in 1..Len(sleepq) : sleepq[i] = sleepq[j] => i = j
    BY <2>1, OccursIn
  <2>3. QED
    BY <2>1, <2>2 DEF Inv, QueuesExact, SleepersCount
<1>2. DueLen \in 0..Len(sleepq)
  BY <1>1, PrefixFacts DEF DueLen
<1>3. \A i \in 1..DueLen : TickWoken[i] = sleepq[i]
  BY <1>1, <1>2, CutQueue DEF TickWoken
<1>4. TickWoken \in Seq(Thread) /\ Len(TickWoken) = DueLen
  BY <1>1, <1>2, CutQueue DEF TickWoken
<1>5. /\ sleepq' \in Seq(Thread) /\ Len(sleepq') = Len(sleepq) - DueLen
      /\ \A i \in 1..(Len(sleepq) - DueLen) : sleepq'[i] = sleepq[DueLen + i]
  <2>1. /\ SubSeq(sleepq, DueLen + 1, Len(sleepq)) \in Seq(Thread)
        /\ Len(SubSeq(sleepq, DueLen + 1, Len(sleepq))) = Len(sleepq) - DueLen
        /\ \A i \in 1..(Len(sleepq) - DueLen) :
             SubSeq(sleepq, DueLen + 1, Len(sleepq))[i] = sleepq[DueLen + i]
    BY <1>1, <1>2, CutQueue
  <2>2. QED
    BY <2>1
<1>6. \A i \in 1..Len(sleepq') :
        DueLen + i \in 1..Len(sleepq) /\ sleepq'[i] = sleepq[DueLen + i]
  BY <1>1, <1>2, <1>5
<1>7. /\ remaining' \in [Thread -> Nat]
      /\ \A t \in Thread :
           remaining'[t] = IF remaining[t] > 0 THEN remaining[t] - 1 ELSE 0
  BY <1>1 DEF TickLeft
<1>8. NoRepeat(sleepq')
  <2>1. ASSUME NEW i \in 1..Len(sleepq'), NEW j \in 1..Len(sleepq'),
               sleepq'[i] = sleepq'[j]
        PROVE  i = j
    <3>1. /\ DueLen + i \in 1..Len(sleepq) /\ DueLen + j \in 1..Len(sleepq)
          /\ sleepq[DueLen + i] = sleepq[DueLen + j]
      BY <1>6, <2>1
    <3>2. DueLen + i = DueLen + j
      BY <1>1, <3>1
    <3>3. DueLen \in Nat /\ i \in Nat /\ j \in Nat
      BY <1>1, <1>2, <1>5
    <3>4. QED
      BY <3>2, <3>3
  <2>2. QED
    BY <1>5, <2>1, OccursIn
<1>9. SleepSorted'
  <2>1. ASSUME NEW i \in 1..Len(sleepq'), NEW j \in 1..Len(sleepq'), i <= j
        PROVE  remaining'[sleepq'[i]] <= remaining'[sleepq'[j]]
    <3>1. /\ DueLen + i \in 1..Len(sleepq) /\ DueLen + j \in 1..Len(sleepq)
          /\ DueLen + i <= DueLen + j
      BY <1>1, <1>2, <1>6, <2>1
    <3>2. remaining[sleepq[DueLen + i]] <= remaining[sleepq[DueLen + j]]
      BY <3>1 DEF Inv, SleepSorted
    <3>3. /\ sleepq'[i] = sleepq[DueLen + i] /\ sleepq'[j] = sleepq[DueLen + j]
          /\ sleepq'[i] \in Thread /\ sleepq'[j] \in Thread
      BY <1>1, <1>6, <3>1
    <3>4. /\ remaining[sleepq'[i]] <= remaining[sleepq'[j]]
          /\ remaining[sleepq'[i]] \in Nat /\ remaining[sleepq'[j]] \in Nat
      BY <1>1, <3>2, <3>3
    <3> DEFINE a == remaining[sleepq'[i]]
               b == remaining[sleepq'[j]]
    <3>5. /\ remaining'[sleepq'[i]] = IF a > 0 THEN a - 1 ELSE 0
          /\ remaining'[sleepq'[j]] = IF b > 0 THEN b - 1 ELSE 0
      BY <1>7, <3>3
    <3>6. a \in Nat /\ b \in Nat /\ a <= b
      BY <3>4
    <3> HIDE DEF a, b
    <3>7. (IF a > 0 THEN a - 1 ELSE 0) <= (IF b > 0 THEN b - 1 ELSE 0)
      BY <3>6
    <3>8. QED
      BY <3>5, <3>7
  <2>2. QED
    BY <2>1 DEF SleepSorted
<1>10. \A t : Occurs(TickWoken, t) <=> \E i \in 1..DueLen : sleepq[i] = t
  BY <1>3, <1>4, OccursIn
<1>11. \A t \in Thread : Occurs(sleepq', t)
         <=> \E i \in 1..Len(sleepq') : sleepq[DueLen + i] = t
  <2>1. sleepq' \in Seq(Thread)
    BY <1>5
  <2>2. DOMAIN sleepq' = 1..Len(sleepq')
    BY <2>1, LenProperties
  <2>3. QED
    BY <1>6, <2>2 DEF Occurs
<1>12. ASSUME NEW t \in Thread
       PROVE  Occurs(sleepq', t) <=> status[t] = "SLEEPING" /\ ~Occurs(TickWoken, t)
  <2>1. ASSUME NEW i \in 1..Len(sleepq'), sleepq[DueLen + i] = t
        PROVE  status[t] = "SLEEPING" /\ ~Occurs(TickWoken, t)
    <3>1. DueLen + i \in 1..Len(sleepq)
      BY <1>6
    <3>2. ASSUME NEW j \in 1..DueLen, sleepq[j] = t PROVE FALSE
      <4>1. j \in 1..Len(sleepq) /\ j # DueLen + i
        BY <1>1, <1>2, <1>5
      <4>2. QED
        BY <1>1, <2>1, <3>1, <3>2, <4>1
    <3>3. QED
      BY <1>1, <1>10, <2>1, <3>1, <3>2
  <2>2. ASSUME status[t] = "SLEEPING", ~Occurs(TickWoken, t)
        PROVE  \E i \in 1..Len(sleepq') : sleepq[DueLen + i] = t
    <3>1. PICK i \in 1..Len(sleepq) : sleepq[i] = t
      BY <1>1, <2>2
    <3>2. i \notin 1..DueLen
      BY <1>10, <2>2, <3>1
    <3>3. i - DueLen \in 1..Len(sleepq') /\ DueLen + (i - DueLen) = i
      BY <1>1, <1>2, <1>5, <3>2
    <3>4. QED
      BY <3>1, <3>3
  <2>3. QED
    BY <1>11, <2>1, <2>2
<1>13. \A t \in Thread :
         TickStatus[t] = IF Occurs(TickWoken, t) THEN "READY" ELSE status[t]
  BY DEF TickStatus
<1>14. \A t \in Thread : Occurs(sleepq', t) <=> TickStatus[t] = "SLEEPING"
  BY <1>12, <1>13
<1>15. ASSUME NEW t \in Thread
       PROVE  TickStatus[t] = "SLEEPING" <=> remaining'[t] > 0
  <2>1. Occurs(TickWoken, t) <=> status[t] = "SLEEPING" /\ remaining[t] = 1
    BY WokenAreDue
  <2>2. remaining[t] \in Nat /\ (status[t] = "SLEEPING" <=> remaining[t] > 0)
    BY <1>1
  <2>3. remaining'[t] = IF remaining[t] > 0 THEN remaining[t] - 1 ELSE 0
    BY <1>7
  <2>4. TickStatus[t] = "SLEEPING" <=> status[t] = "SLEEPING" /\ remaining[t] # 1
    BY <1>13, <2>1
  <2>5. QED
    BY <2>2, <2>3, <2>4
<1>16. QED
  BY <1>5, <1>7, <1>8, <1>9, <1>14, <1>15

\* The run queues once the sleepers are awake.
LEMMA TickQueues ==
    ASSUME Inv
    PROVE  /\ TickStatus \in [Thread -> Status]
           /\ TickRunq \in [Process -> Seq(Thread)]
           /\ \A p \in Process : NoRepeat(TickRunq[p])
           /\ \A p \in Process, t \in Thread : Occurs(TickRunq[p], t)
                <=> p = ProcessOf[t] /\ TickStatus[t] = "READY" /\ t # current
           /\ \A t \in Thread : TickStatus[t] =
                IF status[t] = "SLEEPING" /\ remaining[t] = 1 THEN "READY"
                                                            ELSE status[t]
<1>1. /\ runq \in [Process -> Seq(Thread)] /\ status \in [Thread -> Status]
      /\ \A p \in Process : NoRepeat(runq[p])
      /\ \A p \in Process, t \in Thread : Occurs(runq[p], t)
           <=> p = ProcessOf[t] /\ status[t] = "READY" /\ t # current
      /\ \A t \in Thread : t = current => status[t] # "SLEEPING"
  <2>1. \A t \in Thread : t = current => status[t] # "SLEEPING"
    BY SchedAssumption DEF Inv, RunningExact
  <2>2. QED
    BY <2>1 DEF Inv, TypeOK, QueuesExact
<1>2. /\ TickWoken \in Seq(Thread) /\ NoRepeat(TickWoken)
      /\ \A t \in Thread :
           Occurs(TickWoken, t) <=> status[t] = "SLEEPING" /\ remaining[t] = 1
  BY WokenAreDue
<1>3. \A t \in Thread :
         TickStatus[t] = IF Occurs(TickWoken, t) THEN "READY" ELSE status[t]
  BY DEF TickStatus
<1>4. TickStatus \in [Thread -> Status]
  BY <1>1 DEF TickStatus, Status
<1>5. \A p \in Process, t \in Thread :
        Occurs(TickWoken, t) => ~Occurs(runq[p], t)
  BY <1>1, <1>2
<1>6. /\ EnqueueAll(runq, TickWoken) \in [Process -> Seq(Thread)]
      /\ \A p \in Process : NoRepeat(EnqueueAll(runq, TickWoken)[p])
      /\ \A p \in Process, t \in Thread : Occurs(EnqueueAll(runq, TickWoken)[p], t)
           <=> Occurs(runq[p], t) \/ (Occurs(TickWoken, t) /\ p = ProcessOf[t])
  BY <1>1, <1>2, <1>5, EnqueueAllFacts
<1>7. /\ TickRunq \in [Process -> Seq(Thread)]
      /\ \A p \in Process : NoRepeat(TickRunq[p])
      /\ \A p \in Process, t \in Thread : Occurs(TickRunq[p], t)
           <=> Occurs(runq[p], t) \/ (Occurs(TickWoken, t) /\ p = ProcessOf[t])
  BY <1>6 DEF TickRunq
<1>8. ASSUME NEW p \in Process, NEW t \in Thread
      PROVE  Occurs(TickRunq[p], t)
               <=> p = ProcessOf[t] /\ TickStatus[t] = "READY" /\ t # current
  BY <1>1, <1>2, <1>3, <1>7
<1>9. QED
  BY <1>2, <1>3, <1>4, <1>7, <1>8

\* The queues and statuses between the countdown and the switch of a tick:
\* those of the sleepers awake, with the running thread put back.
LEMMA TickSettled ==
    ASSUME Inv
    PROVE  /\ current # NULL => Settled(EnqueueReady(TickRunq, current),
                                        [TickStatus EXCEPT ![current] = "READY"])
           /\ current = NULL => Settled(TickRunq, TickStatus)
<1>1. /\ current \in Thread \cup {NULL} /\ NULL \notin Thread
      /\ \A t \in Thread : ProcessOf[t] \in Process
      /\ status \in [Thread -> Status]
      /\ \A t \in Thread : status[t] = "RUNNING" => t = current
      /\ \A t \in Thread : t = current => status[t] # "NEW"
      /\ \A t \in Thread : status[t] # "NEW" => Occurs(procq, ProcessOf[t])
  BY SchedAssumption DEF Inv, TypeOK, RunningExact, Listed
<1>2. /\ TickStatus \in [Thread -> Status]
      /\ TickRunq \in [Process -> Seq(Thread)]
      /\ \A p \in Process : NoRepeat(TickRunq[p])
      /\ \A p \in Process, t \in Thread : Occurs(TickRunq[p], t)
           <=> p = ProcessOf[t] /\ TickStatus[t] = "READY" /\ t # current
  BY TickQueues
<1>3. \A t \in Thread : TickStatus[t] =
        IF status[t] = "SLEEPING" /\ remaining[t] = 1 THEN "READY" ELSE status[t]
  BY TickQueues
<1>4. ASSUME current # NULL
      PROVE  Settled(EnqueueReady(TickRunq, current),
                     [TickStatus EXCEPT ![current] = "READY"])
  <2> DEFINE rq == EnqueueReady(TickRunq, current)
             st == [TickStatus EXCEPT ![current] = "READY"]
  <2>1. /\ current \in Thread /\ ProcessOf[current] \in Process
        /\ ~Occurs(TickRunq[ProcessOf[current]], current)
    BY <1>1, <1>2, <1>4
  <2>2. /\ st \in [Thread -> Status]
        /\ \A t \in Thread : st[t] = IF t = current THEN "READY" ELSE TickStatus[t]
    BY <1>2 DEF Status
  <2>3. rq \in [Process -> Seq(Thread)]
    BY <1>2, <2>1, EnqueueReadyFacts
  <2>4. \A p \in Process : NoRepeat(TickRunq[p]) => NoRepeat(rq[p])
    BY <1>2, <2>1, EnqueueReadyFacts
  <2>5. \A p \in Process, t \in Thread : Occurs(rq[p], t)
          <=> Occurs(TickRunq[p], t) \/ (t = current /\ p = ProcessOf[current])
    BY <1>2, <2>1, EnqueueReadyFacts
  <2> HIDE DEF rq, st
  <2>6. \A t \in Thread : /\ st[t] # "RUNNING"
                          /\ st[t] # "NEW" => Occurs(procq, ProcessOf[t])
    BY <1>1, <1>3, <2>1, <2>2
  <2>7. \A p \in Process, t \in Thread :
          Occurs(rq[p], t) <=> p = ProcessOf[t] /\ st[t] = "READY"
    BY <1>2, <2>2, <2>5
  <2>8. Settled(rq, st)
    BY <1>2, <2>2, <2>3, <2>4, <2>6, <2>7 DEF Settled
  <2>9. QED
    BY <2>8 DEF rq, st
<1>5. ASSUME current = NULL PROVE Settled(TickRunq, TickStatus)
  <2>1. \A t \in Thread : /\ t # current /\ TickStatus[t] # "RUNNING"
                          /\ TickStatus[t] # "NEW" => Occurs(procq, ProcessOf[t])
    BY <1>1, <1>3, <1>5
  <2>2. QED
    BY <1>2, <2>1 DEF Settled
<1>6. QED
  BY <1>4, <1>5

LEMMA InvTick ==
    ASSUME Inv, Tick
    PROVE  Inv'
<1>1. /\ remaining' = TickLeft
      /\ sleepq' = SubSeq(sleepq, DueLen + 1, Len(sleepq))
  BY TickPieces
<1>2. /\ sleepq' \in Seq(Thread) /\ remaining' \in [Thread -> Nat]
      /\ NoRepeat(sleepq') /\ SleepSorted'
  BY <1>1, TickSleepers
<1>3. \A t \in Thread : Occurs(sleepq', t) <=> TickStatus[t] = "SLEEPING"
  BY <1>1, TickSleepers
<1>4. \A t \in Thread : TickStatus[t] = "SLEEPING" <=> remaining'[t] > 0
  BY <1>1, TickSleepers
<1>5. /\ TickStatus \in [Thread -> Status]
      /\ TickRunq \in [Process -> Seq(Thread)]
      /\ \A p \in Process : NoRepeat(TickRunq[p])
      /\ \A p \in Process, t \in Thread : Occurs(TickRunq[p], t)
           <=> p = ProcessOf[t] /\ TickStatus[t] = "READY" /\ t # current
  BY TickQueues
<1>6. \A t \in Thread : TickStatus[t] =
        IF status[t] = "SLEEPING" /\ remaining[t] = 1 THEN "READY" ELSE status[t]
  BY TickQueues
<1>7. procq \in Seq(Process) /\ current \in Thread \cup {NULL}
  BY DEF Inv, TypeOK
<1>8. CASE /\ quantum > 1 /\ quantum' = quantum - 1
           /\ status' = TickStatus /\ runq' = TickRunq
           /\ UNCHANGED <<current, procq>>
  <2>1. TypeOK'
    <3>1. quantum' \in Nat \ {0}
      BY <1>8 DEF Inv, TypeOK
    <3>2. QED
      BY <1>2, <1>5, <1>7, <1>8, <3>1 DEF TypeOK
  <2>2. QueuesExact'
    BY <1>2, <1>3, <1>5, <1>8 DEF QueuesExact
  <2>3. RunningExact' /\ Listed'
    BY <1>6, <1>7, <1>8, SchedAssumption DEF Inv, RunningExact, Listed
  <2>4. IdleQuantum'
    BY <1>8 DEF Inv, TypeOK, IdleQuantum
  <2>5. SleepersCount'
    BY <1>4, <1>8 DEF SleepersCount
  <2>6. QED
    BY <1>2, <2>1, <2>2, <2>3, <2>4, <2>5 DEF Inv
<1>9. CASE /\ current # NULL
           /\ SwitchAny(EnqueueReady(TickRunq, current),
                        [TickStatus EXCEPT ![current] = "READY"])
  <2> DEFINE rq == EnqueueReady(TickRunq, current)
             st == [TickStatus EXCEPT ![current] = "READY"]
  <2>1. Settled(rq, st) /\ SwitchAny(rq, st)
    BY <1>9, TickSettled
  <2>2. /\ current \in Thread /\ TickStatus[current] # "SLEEPING"
        /\ \A t \in Thread : st[t] = IF t = current THEN "READY" ELSE TickStatus[t]
    <3>1. current \in Thread /\ status[current] # "SLEEPING"
      BY <1>7, <1>9 DEF Inv, RunningExact
    <3>2. QED
      BY <1>5, <1>6, <3>1
  <2> HIDE DEF st, rq
  <2>3. \A t \in Thread : /\ Occurs(sleepq', t) <=> st[t] = "SLEEPING"
                          /\ st[t] = "SLEEPING" <=> remaining'[t] > 0
    BY <1>3, <1>4, <2>2
  <2>4. QED
    BY <1>2, <1>7, <2>1, <2>3, InvSwitch
<1>10. CASE current = NULL /\ SwitchAny(TickRunq, TickStatus)
  <2>1. Settled(TickRunq, TickStatus)
    BY <1>10, TickSettled
  <2>2. QED
    BY <1>2, <1>3, <1>4, <1>7, <1>10, <2>1, InvSwitch
<1>11. QED
  BY <1>8, <1>9, <1>10, TickPieces

-----------------------------------------------------------------------------
(* The theorems.                                                           *)

LEMMA InvNext == Inv /\ [Next]_vars => Inv'
<1> SUFFICES ASSUME Inv, [Next]_vars PROVE Inv'
  OBVIOUS
<1>1. ASSUME NEW p \in Process, CreateProcess(p) PROVE Inv'
  BY <1>1, InvCreateProcess
<1>2. ASSUME NEW t \in Thread, CreateThread(t) PROVE Inv'
  BY <1>2, InvMakeReady DEF CreateThread
<1>3. ASSUME NEW t \in Thread, Wake(t) PROVE Inv'
  <2>1. Occurs(procq, ProcessOf[t])
    BY <1>3 DEF Wake, Inv, Listed
  <2>2. QED
    BY <1>3, <2>1, InvMakeReady DEF Wake
<1>4. ASSUME NEW n \in 1..MaxSleep, Sleep(n) PROVE Inv'
  BY <1>4, InvSleep
<1>5. CASE Tick
  BY <1>5, InvTick
<1>6. CASE SleepZero
  BY <1>6, InvLeave DEF SleepZero
<1>7. CASE Block
  <2>1. "BLOCKING" # "READY"
    OBVIOUS
  <2>2. QED
    BY <1>7, <2>1, InvLeave DEF Block
<1>8. CASE End
  <2>1. "DEAD" # "READY"
    OBVIOUS
  <2>2. QED
    BY <1>8, <2>1, InvLeave DEF End
<1>9. CASE UNCHANGED vars
  BY <1>9 DEF vars, Inv, TypeOK, QueuesExact, RunningExact, Listed, IdleQuantum,
              SleepSorted, SleepersCount
<1>10. QED
  BY <1>1, <1>2, <1>3, <1>4, <1>5, <1>6, <1>7, <1>8, <1>9 DEF Next

\* TypeOK and the rest of Inv hold in every state, whatever the threads do.
THEOREM Invariance == Spec => []Inv
<1>1. Inv /\ [Next]_vars => Inv'
  BY InvNext
<1>2. QED
  BY InvInit, <1>1, PTL DEF Spec

\* QueuesExact: the status of a thread names the one queue it is in.
THEOREM OneQueueEach == Spec => []QueuesExact
<1>1. Inv => QueuesExact
  BY DEF Inv
<1>2. QED
  BY Invariance, <1>1, PTL

\* A switch puts nobody to sleep and wakes nobody.
LEMMA SwitchKeepsSleepers ==
    ASSUME procq \in Seq(Process), NEW rq, NEW st, Settled(rq, st),
           SwitchAny(rq, st), NEW t \in Thread
    PROVE  status'[t] = "SLEEPING" <=> st[t] = "SLEEPING"
<1>1. \A u \in Thread : u # current' => status'[u] = st[u]
  BY SwitchFacts
<1>2. \/ /\ current' \in Thread
         /\ st[current'] = "READY"
         /\ status'[current'] \in {"RUNNING", "READY"}
      \/ current' = NULL
  BY SwitchFacts
<1>3. CASE t = current'
  BY <1>2, <1>3, SchedAssumption
<1>4. CASE t # current'
  BY <1>1, <1>4
<1>5. QED
  BY <1>3, <1>4

\* When the running thread leaves, a sleeper sleeps on.
LEMMA LeaveKeepsSleepers ==
    ASSUME Inv, current # NULL, NEW s \in Status \ {"NEW", "RUNNING"}, NEW rq,
           rq = IF s = "READY" THEN EnqueueReady(runq, current) ELSE runq,
           SwitchAny(rq, [status EXCEPT ![current] = s]),
           NEW t \in Thread, status[t] = "SLEEPING"
    PROVE  status'[t] = "SLEEPING"
<1> DEFINE st == [status EXCEPT ![current] = s]
<1>1. Settled(rq, st) /\ SwitchAny(rq, st)
  BY LeaveSettled
<1>2. procq \in Seq(Process)
  BY DEF Inv, TypeOK
<1>3. st[t] = "SLEEPING"
  BY DEF Inv, TypeOK, RunningExact
<1> HIDE DEF st
<1>4. QED
  BY <1>1, <1>2, <1>3, SwitchKeepsSleepers

\* A tick wakes the sleepers whose sleep it ends.
LEMMA TickSleeps ==
    ASSUME Inv, Tick, NEW t \in Thread, status[t] = "SLEEPING"
    PROVE  status'[t] # "SLEEPING" <=> remaining[t] = 1
<1>1. TickStatus[t] # "SLEEPING" <=> remaining[t] = 1
  BY TickQueues
<1>2. procq \in Seq(Process) /\ t # current /\ TickStatus \in [Thread -> Status]
  BY TickQueues, SchedAssumption DEF Inv, TypeOK, RunningExact
<1>3. CASE status' = TickStatus
  BY <1>1, <1>3
<1>4. CASE /\ current # NULL
           /\ SwitchAny(EnqueueReady(TickRunq, current),
                        [TickStatus EXCEPT ![current] = "READY"])
  <2> DEFINE st == [TickStatus EXCEPT ![current] = "READY"]
             rq == EnqueueReady(TickRunq, current)
  <2>1. Settled(rq, st) /\ SwitchAny(rq, st)
    BY <1>4, TickSettled
  <2>2. st[t] = TickStatus[t]
    BY <1>2
  <2> HIDE DEF st, rq
  <2>3. QED
    BY <1>1, <1>2, <2>1, <2>2, SwitchKeepsSleepers
<1>5. CASE current = NULL /\ SwitchAny(TickRunq, TickStatus)
  <2>1. Settled(TickRunq, TickStatus)
    BY <1>5, TickSettled
  <2>2. QED
    BY <1>1, <1>2, <1>5, <2>1, SwitchKeepsSleepers
<1>6. QED
  BY <1>3, <1>4, <1>5, TickPieces

LEMMA StepSleeps ==
    ASSUME Inv, Next, NEW t \in Thread, status[t] = "SLEEPING"
    PROVE  status'[t] # "SLEEPING" <=> Tick /\ remaining[t] = 1
<1>1. CASE Tick
  BY <1>1, TickSleeps
<1>2. CASE ~Tick
  <2>1. SUFFICES status'[t] = "SLEEPING"
    BY <1>2
  <2>2. status \in [Thread -> Status]
    BY DEF Inv, TypeOK
  <2>3. /\ "SLEEPING" \in Status \ {"NEW", "RUNNING"}
        /\ "READY" \in Status \ {"NEW", "RUNNING"}
        /\ "BLOCKING" \in Status \ {"NEW", "RUNNING"}
        /\ "DEAD" \in Status \ {"NEW", "RUNNING"}
        /\ "SLEEPING" # "READY" /\ "BLOCKING" # "READY" /\ "DEAD" # "READY"
    BY DEF Status
  <2>4. CASE \E p \in Process : CreateProcess(p)
    BY <2>4 DEF CreateProcess
  <2>5. ASSUME NEW u \in Thread, CreateThread(u) \/ Wake(u)
        PROVE  status'[t] = "SLEEPING"
    BY <2>2, <2>5 DEF CreateThread, Wake
  <2>6. ASSUME NEW n \in 1..MaxSleep, Sleep(n) PROVE status'[t] = "SLEEPING"
    <3>1. current # NULL /\ SwitchAny(runq, [status EXCEPT ![current] = "SLEEPING"])
      BY <2>6 DEF Sleep
    <3>2. QED
      BY <2>3, <3>1, LeaveKeepsSleepers
  <2>7. CASE SleepZero
    BY <2>3, <2>7, LeaveKeepsSleepers DEF SleepZero
  <2>8. CASE Block
    BY <2>3, <2>8, LeaveKeepsSleepers DEF Block
  <2>9. CASE End
    BY <2>3, <2>9, LeaveKeepsSleepers DEF End
  <2>10. QED
    BY <1>2, <2>4, <2>5, <2>6, <2>7, <2>8, <2>9 DEF Next
<1>3. QED
  BY <1>1, <1>2

\* SleepsExactly: the tick that ends a sleep wakes the sleeper, and nothing
\* else does.
THEOREM SleepersWokenInTime == Spec => SleepsExactly
<1>1. Inv /\ [Next]_vars =>
        [\A t \in Thread :
           status[t] = "SLEEPING" =>
             (status'[t] # "SLEEPING" <=> Tick /\ remaining[t] = 1)]_vars
  BY StepSleeps
<1>2. QED
  BY Invariance, <1>1, PTL DEF Spec, SleepsExactly

\* IdleEndsAtTick: a thread made ready over the idle loop waits for one tick
\* at most.
THEOREM IdleIsShort == Spec => IdleEndsAtTick
<1>1. ASSUME Inv, Tick, current = NULL, NEW t \in Thread, status[t] = "READY"
      PROVE  current' # NULL
  <2>1. quantum = 1 /\ procq \in Seq(Process)
    BY <1>1 DEF Inv, IdleQuantum, TypeOK
  <2>2. SwitchAny(TickRunq, TickStatus)
    BY <1>1, <2>1, TickPieces
  <2>3. Settled(TickRunq, TickStatus)
    BY <1>1, TickSettled
  <2>4. TickStatus[t] = "READY"
    BY <1>1, TickQueues
  <2>5. current' \in Thread \/ \A u \in Thread : TickStatus[u] # "READY"
    BY <2>1, <2>2, <2>3, SwitchFacts
  <2>6. QED
    BY <2>4, <2>5, SchedAssumption
<1>2. Inv /\ [Next]_vars =>
        [\A t \in Thread :
           Tick /\ current = NULL /\ status[t] = "READY" => current' # NULL]_vars
  BY <1>1
<1>3. QED
  BY Invariance, <1>2, PTL DEF Spec, IdleEndsAtTick

-----------------------------------------------------------------------------
(* The contract of Dispatch.                                               *)

\* The two round robins make one of the choices Dispatch leaves open.
LEMMA SwitchIsContract ==
    ASSUME procq \in Seq(Process), NEW rq, NEW st, Settled(rq, st),
           SwitchAny(rq, st)
    PROVE  Contract!SwitchAny(st)
<1>1. /\ st \in [Thread -> Status]
      /\ \A t \in Thread : st[t] # "RUNNING"
  BY DEF Settled
<1>2. \A t \in Thread : t # current' => status'[t] = st[t]
  BY SwitchFacts
<1>3. \/ /\ current' \in Thread
         /\ st[current'] = "READY"
      \/ /\ current' = NULL
         /\ \A t \in Thread : st[t] # "READY"
  BY SwitchFacts
<1>4. \A t \in Thread : ShownStatus'[t] = IF t = current' THEN "RUNNING" ELSE st[t]
  BY <1>2 DEF ShownStatus
<1>5. ShownStatus' = [t \in Thread |-> IF t = current' THEN "RUNNING" ELSE st[t]]
  BY <1>2 DEF ShownStatus
<1>6. CASE current' \in Thread /\ st[current'] = "READY"
  <2>1. ShownStatus' = [st EXCEPT ![current'] = "RUNNING"]
    BY <1>1, <1>5
  <2>2. current' \in Contract!ReadyIn(st)
    BY <1>6 DEF Contract!ReadyIn
  <2>3. QED
    BY <2>1, <2>2 DEF Contract!SwitchAny
<1>7. CASE current' = NULL /\ \A t \in Thread : st[t] # "READY"
  <2>1. ShownStatus' = st
    BY <1>1, <1>5, <1>7, SchedAssumption
  <2>2. Contract!ReadyIn(st) = {}
    BY <1>7 DEF Contract!ReadyIn
  <2>3. QED
    BY <1>7, <2>1, <2>2 DEF Contract!SwitchAny
<1>8. QED
  BY <1>3, <1>6, <1>7

LEMMA LeaveIsContract ==
    ASSUME Inv, current # NULL, NEW s \in Status \ {"NEW", "RUNNING"}, NEW rq,
           rq = IF s = "READY" THEN EnqueueReady(runq, current) ELSE runq,
           SwitchAny(rq, [status EXCEPT ![current] = s])
    PROVE  Contract!DispatchLeave
<1> DEFINE st == [status EXCEPT ![current] = s]
<1>1. Settled(rq, st) /\ SwitchAny(rq, st)
  BY LeaveSettled
<1>2. procq \in Seq(Process) /\ status \in [Thread -> Status]
  BY DEF Inv, TypeOK
<1>3. Contract!SwitchAny(st)
  BY <1>1, <1>2, SwitchIsContract
<1>4. st = Contract!Woken([ShownStatus EXCEPT ![current] = s], {})
  BY <1>2 DEF Contract!Woken, ShownStatus
<1>5. s \in Contract!Status \ {"RUNNING"}
  BY DEF Status, Contract!Status, Contract!Waiting
<1> HIDE DEF st
<1>6. Contract!SwitchAny(Contract!Woken([ShownStatus EXCEPT ![current] = s], {}))
  BY <1>3, <1>4
<1>7. {} \in SUBSET Contract!WaitingThreads
  OBVIOUS
<1>8. QED
  BY <1>5, <1>6, <1>7 DEF Contract!DispatchLeave

LEMMA TickIsContract ==
    ASSUME Inv, Tick
    PROVE  Contract!DispatchNext
<1> DEFINE W == {t \in Thread : status[t] = "SLEEPING" /\ remaining[t] = 1}
<1>1. /\ TickStatus \in [Thread -> Status]
      /\ \A t \in Thread : TickStatus[t] = IF t \in W THEN "READY" ELSE status[t]
  BY TickQueues
<1>2. /\ procq \in Seq(Process) /\ current \in Thread \cup {NULL}
      /\ current # NULL => status[current] # "SLEEPING"
      /\ status \in [Thread -> Status] /\ NULL \notin Thread
  BY SchedAssumption DEF Inv, TypeOK, RunningExact
<1>3. W \in SUBSET Contract!WaitingThreads
  BY <1>2 DEF Contract!WaitingThreads, Contract!Waiting, ShownStatus
<1>4. TickStatus = [t \in Thread |-> IF t \in W THEN "READY" ELSE status[t]]
  BY <1>1
<1>5. current \notin W
  BY <1>2
<1> HIDE DEF W
<1>6. CASE status' = TickStatus /\ UNCHANGED current
  <2>1. ShownStatus' = Contract!Woken(ShownStatus, W)
    BY <1>4, <1>5, <1>6 DEF Contract!Woken, ShownStatus
  <2>2. QED
    BY <1>3, <1>6, <2>1 DEF Contract!DispatchNext, Contract!DispatchWake
<1>7. CASE /\ current # NULL
           /\ SwitchAny(EnqueueReady(TickRunq, current),
                        [TickStatus EXCEPT ![current] = "READY"])
  <2> DEFINE st == [TickStatus EXCEPT ![current] = "READY"]
             rq == EnqueueReady(TickRunq, current)
  <2>1. Settled(rq, st) /\ SwitchAny(rq, st)
    BY <1>7, TickSettled
  <2>2. st = Contract!Woken([ShownStatus EXCEPT ![current] = "READY"], W)
    BY <1>4 DEF Contract!Woken, ShownStatus
  <2> HIDE DEF st, rq
  <2>3. Contract!SwitchAny(st)
    BY <1>2, <2>1, SwitchIsContract
  <2>4. Contract!SwitchAny(Contract!Woken([ShownStatus EXCEPT ![current] = "READY"], W))
    BY <2>2, <2>3
  <2>5. "READY" \in Contract!Status \ {"RUNNING"}
    BY DEF Contract!Status
  <2>6. QED
    BY <1>3, <1>7, <2>4, <2>5 DEF Contract!DispatchNext, Contract!DispatchLeave
<1>8. CASE current = NULL /\ SwitchAny(TickRunq, TickStatus)
  <2>1. Settled(TickRunq, TickStatus)
    BY <1>8, TickSettled
  <2>2. Contract!SwitchAny(TickStatus)
    BY <1>2, <1>8, <2>1, SwitchIsContract
  <2>3. TickStatus = Contract!Woken(ShownStatus, W)
    BY <1>2, <1>4, <1>8 DEF Contract!Woken, ShownStatus
  <2>4. Contract!SwitchAny(Contract!Woken(ShownStatus, W))
    BY <2>2, <2>3
  <2>5. QED
    BY <1>3, <1>8, <2>4 DEF Contract!DispatchNext, Contract!DispatchIdleTick
<1>9. QED
  BY <1>6, <1>7, <1>8, TickPieces

LEMMA StepIsContract ==
    ASSUME Inv, [Next]_vars
    PROVE  [Contract!DispatchNext]_(Contract!dispatchVars)
<1>1. status \in [Thread -> Status] /\ current \in Thread \cup {NULL}
      /\ (current # NULL => status[current] \in {"RUNNING", "READY"})
  BY DEF Inv, TypeOK, RunningExact
<1>2. /\ "SLEEPING" \in Status \ {"NEW", "RUNNING"}
      /\ "READY" \in Status \ {"NEW", "RUNNING"}
      /\ "BLOCKING" \in Status \ {"NEW", "RUNNING"}
      /\ "DEAD" \in Status \ {"NEW", "RUNNING"}
      /\ "SLEEPING" # "READY" /\ "BLOCKING" # "READY" /\ "DEAD" # "READY"
  BY DEF Status
<1>3. CASE UNCHANGED <<current, status>>
  BY <1>3 DEF Contract!dispatchVars, ShownStatus
<1>4. ASSUME NEW t \in Thread, CreateThread(t) PROVE Contract!DispatchNext
  <2>1. /\ current # NULL /\ current' = current /\ t # current
        /\ status[t] = "NEW" /\ status' = [status EXCEPT ![t] = "READY"]
    BY <1>1, <1>4 DEF CreateThread
  <2>2. ShownStatus[t] = "NEW" /\ ShownStatus' = Contract!Woken(ShownStatus, {t})
    BY <1>1, <2>1 DEF Contract!Woken, ShownStatus
  <2>3. QED
    BY <2>1, <2>2 DEF Contract!DispatchNext, Contract!DispatchCreate
<1>5. ASSUME NEW t \in Thread, Wake(t) PROVE Contract!DispatchNext
  <2>1. /\ current' = current /\ t # current
        /\ status[t] = "BLOCKING" /\ status' = [status EXCEPT ![t] = "READY"]
    BY <1>1, <1>5, SchedAssumption DEF Wake
  <2>2. ShownStatus' = Contract!Woken(ShownStatus, {t})
    BY <1>1, <2>1 DEF Contract!Woken, ShownStatus
  <2>3. {t} \in SUBSET Contract!WaitingThreads
    BY <2>1 DEF Contract!WaitingThreads, Contract!Waiting, ShownStatus
  <2>4. QED
    BY <2>1, <2>2, <2>3 DEF Contract!DispatchNext, Contract!DispatchWake
<1>6. ASSUME NEW n \in 1..MaxSleep, Sleep(n) PROVE Contract!DispatchNext
  <2>1. current # NULL /\ SwitchAny(runq, [status EXCEPT ![current] = "SLEEPING"])
    BY <1>6 DEF Sleep
  <2>2. Contract!DispatchLeave
    BY <1>2, <2>1, LeaveIsContract
  <2>3. QED
    BY <2>2 DEF Contract!DispatchNext
<1>7. ASSUME SleepZero \/ Block \/ End PROVE Contract!DispatchNext
  <2>1. CASE SleepZero
    BY <1>2, <2>1, LeaveIsContract DEF SleepZero, Contract!DispatchNext
  <2>2. CASE Block
    BY <1>2, <2>2, LeaveIsContract DEF Block, Contract!DispatchNext
  <2>3. CASE End
    BY <1>2, <2>3, LeaveIsContract DEF End, Contract!DispatchNext
  <2>4. QED
    BY <1>7, <2>1, <2>2, <2>3
<1>8. CASE Tick
  BY <1>8, TickIsContract
<1>9. ASSUME NEW p \in Process, CreateProcess(p) PROVE UNCHANGED <<current, status>>
  BY <1>9 DEF CreateProcess
<1>10. CASE UNCHANGED vars
  BY <1>3, <1>10 DEF vars
<1>11. QED
  BY <1>3, <1>4, <1>5, <1>6, <1>7, <1>8, <1>9, <1>10 DEF Next

\* ImplementsDispatch: the run queues, the queue of processes, the sleep queue
\* and the quantum give the locks the scheduler that Dispatch promises.
THEOREM KeepsContract == Spec => ImplementsDispatch
<1>1. Init => Contract!DispatchInit
  BY SchedAssumption DEF Init, Contract!DispatchInit, ShownStatus
<1>2. Inv /\ [Next]_vars => [Contract!DispatchNext]_(Contract!dispatchVars)
  BY StepIsContract
<1>3. QED
  BY <1>1, <1>2, Invariance, PTL
  DEF Spec, ImplementsDispatch, Contract!DispatchSpec

-----------------------------------------------------------------------------
(* The linked queues, module ThreadQueue, for any items, queues and keys.  *)
(*                                                                         *)
(* Behind the links of each queue there is a sequence (Shape): the links   *)
(* go through its items in order and end after the last, in_queue says     *)
(* whose sequence an item is in, and the sleep queue's is sorted.  That    *)
(* in_queue decides it makes the queues disjoint, so that the one link of  *)
(* an item serves all of them.                                             *)

Has(s, x) == \E i \in 1..Len(s) : s[i] = x

\* f and nx link the items of s, each once and in this order.
Links(f, nx, s) ==
    /\ \A i, j \in 1..Len(s) : s[i] = s[j] => i = j
    /\ f = IF Len(s) = 0 THEN NIL ELSE s[1]
    /\ \A i \in 1..Len(s) : nx[s[i]] = IF i = Len(s) THEN NIL ELSE s[i + 1]

LinksTypeOK ==
    /\ first \in [Queue -> Item \cup {NIL}]
    /\ last \in [Queue -> Item \cup {NIL}]
    /\ next \in [Item -> Item \cup {NIL}]
    /\ inQueue \in [Item -> Queue \cup {NIL}]
    /\ key \in [Item -> Key]

\* What the pointers show of the contents c of the queues.
LinksShow(c) == \A q \in Queue : Links(first[q], next, c[q])
BackPointersShow(c) == \A q \in Queue, x \in Item : inQueue[x] = q <=> Has(c[q], x)
LastShows(c) ==
    /\ \A q \in Queue \ {SleepQueue} :
         last[q] = IF Len(c[q]) = 0 THEN NIL ELSE c[q][Len(c[q])]
    /\ last[SleepQueue] = NIL
Sorted(c) ==
    \A i, j \in 1..Len(c[SleepQueue]) :
        i < j => key[c[SleepQueue][i]] <= key[c[SleepQueue][j]]

Shape(c) == LinksShow(c) /\ BackPointersShow(c) /\ LastShows(c) /\ Sorted(c)

QueueInv == LinksTypeOK /\ \E c \in [Queue -> Seq(Item)] : Shape(c)

-----------------------------------------------------------------------------
(* Following links.                                                        *)

\* The walk of Nth over any links.
Walk(f, nx) ==
    CHOOSE w : w = [i \in 1..Cardinality(Item) |->
                      IF i = 1 THEN f
                      ELSE IF w[i - 1] = NIL THEN NIL ELSE nx[w[i - 1]]]

LEMMA NthIsWalk == ASSUME NEW q PROVE Nth(q) = Walk(first[q], next)
  BY DEF Nth, Walk

\* It goes over the items in their order, and there is room for all of them.
LEMMA WalkFacts ==
    ASSUME NEW q \in Seq(Item), NEW f, NEW nx, Links(f, nx, q)
    PROVE  /\ Len(q) \in Nat /\ Cardinality(Item) \in Nat /\ Len(q) <= Cardinality(Item)
           /\ \A i \in 1..Cardinality(Item) :
                Walk(f, nx)[i] = IF i <= Len(q) THEN q[i] ELSE NIL
<1> DEFINE N == Cardinality(Item)
           g == [i \in 1..N |-> IF i <= Len(q) THEN q[i] ELSE NIL]
           w == Walk(f, nx)
<1>1. /\ Len(q) \in Nat /\ N \in Nat /\ Len(q) <= N
      /\ \A i \in 1..Len(q) : q[i] \in Item
  <2>1. Len(q) \in Nat /\ q \in [1..Len(q) -> Item]
    BY LenProperties
  <2>2. q \in Injection(1..Len(q), Item)
    BY <2>1 DEF Links, Injection, IsInjective
  <2>3. Cardinality(1..Len(q)) = Len(q)
    BY <2>1, FS_Interval
  <2>4. QED
    BY <2>1, <2>2, <2>3, QueueAssumption, FS_Injection, FS_CardinalityType
<1>2. g = [i \in 1..N |-> IF i = 1 THEN f
                         ELSE IF g[i - 1] = NIL THEN NIL ELSE nx[g[i - 1]]]
  <2>1. ASSUME NEW i \in 1..N
        PROVE  g[i] = IF i = 1 THEN f
                      ELSE IF g[i - 1] = NIL THEN NIL ELSE nx[g[i - 1]]
    <3>1. CASE i = 1
      BY <1>1, <3>1 DEF Links
    <3>2. CASE i # 1 /\ i - 1 \in 1..Len(q)
      <4>1. g[i - 1] = q[i - 1] /\ q[i - 1] # NIL
        BY <1>1, <3>2, QueueAssumption
      <4>2. nx[q[i - 1]] = IF i - 1 = Len(q) THEN NIL ELSE q[(i - 1) + 1]
        BY <3>2 DEF Links
      <4>3. QED
        BY <1>1, <3>2, <4>1, <4>2
    <3>3. CASE i # 1 /\ i - 1 \notin 1..Len(q)
      BY <1>1, <3>3
    <3>4. QED
      BY <3>1, <3>2, <3>3
  <2> HIDE DEF N
  <2>2. QED
    BY <2>1
<1>3. w = [i \in 1..N |-> IF i = 1 THEN f
                         ELSE IF w[i - 1] = NIL THEN NIL ELSE nx[w[i - 1]]]
  <2> HIDE DEF g
  <2>1. QED
    BY <1>2 DEF Walk
<1> HIDE DEF N, w
<1>4. \A i \in 1..N : w[i] = g[i]
  <2> HIDE DEF g
  <2> DEFINE S == {i \in 1..N : w[i] # g[i]}
  <2>1. SUFFICES ASSUME S # {} PROVE FALSE
    OBVIOUS
  <2>2. PICK n \in S : \A m \in S : n <= m
    <3>1. S \in SUBSET Nat
      BY <1>1
    <3> HIDE DEF S
    <3>2. QED
      BY <2>1, <3>1, LeastNat
  <2>3. n \in 1..N /\ w[n] # g[n]
    BY <2>2
  <2>4. CASE n = 1
    <3>1. w[n] = f
      BY <1>3, <2>3, <2>4
    <3>2. g[n] = f
      BY <1>2, <2>3, <2>4
    <3>3. QED
      BY <2>3, <3>1, <3>2
  <2>5. CASE n # 1
    <3>1. n - 1 \in 1..N /\ ~(n <= n - 1)
      BY <1>1, <2>3, <2>5
    <3>2. w[n - 1] = g[n - 1]
      BY <2>2, <3>1
    <3>3. w[n] = IF w[n - 1] = NIL THEN NIL ELSE nx[w[n - 1]]
      BY <1>3, <2>3, <2>5
    <3>4. g[n] = IF g[n - 1] = NIL THEN NIL ELSE nx[g[n - 1]]
      BY <1>2, <2>3, <2>5
    <3>5. QED
      BY <2>3, <3>2, <3>3, <3>4
  <2>6. QED
    BY <2>4, <2>5
<1>5. \A i \in 1..N : w[i] = IF i <= Len(q) THEN q[i] ELSE NIL
  BY <1>4
<1>6. QED
  BY <1>1, <1>5 DEF N, w

\* Contents over any links.
WalkLength(f, nx) == Cardinality({i \in 1..Cardinality(Item) : Walk(f, nx)[i] # NIL})
WalkContents(f, nx) == [i \in 1..WalkLength(f, nx) |-> Walk(f, nx)[i]]

LEMMA ContentsAreWalked ==
    ASSUME NEW q
    PROVE  /\ Length(q) = WalkLength(first[q], next)
           /\ Contents(q) = WalkContents(first[q], next)
           /\ Nth(q)' = Walk(first'[q], next')
           /\ Contents(q)' = WalkContents(first'[q], next')
  BY DEF Length, Contents, Nth, Walk, WalkLength, WalkContents

LEMMA LinksDetermine ==
    ASSUME NEW q \in Seq(Item), NEW f, NEW nx, Links(f, nx, q)
    PROVE  WalkLength(f, nx) = Len(q) /\ WalkContents(f, nx) = q
<1>1. /\ Len(q) \in Nat /\ Cardinality(Item) \in Nat /\ Len(q) <= Cardinality(Item)
      /\ \A i \in 1..Cardinality(Item) :
           Walk(f, nx)[i] = IF i <= Len(q) THEN q[i] ELSE NIL
  BY WalkFacts
<1>2. \A i \in 1..Len(q) : q[i] \in Item /\ q[i] # NIL
  BY ElementOfSeq, QueueAssumption
<1>3. {i \in 1..Cardinality(Item) : Walk(f, nx)[i] # NIL} = 1..Len(q)
  BY <1>1, <1>2
<1>4. WalkLength(f, nx) = Len(q)
  <2>1. Len(q) \in Nat
    BY <1>1
  <2>2. Cardinality(1..Len(q)) = IF 1 > Len(q) THEN 0 ELSE Len(q) - 1 + 1
    BY <2>1, FS_Interval
  <2>3. Cardinality(1..Len(q)) = Len(q)
    BY <2>1, <2>2
  <2>4. QED
    BY <1>3, <2>3 DEF WalkLength
<1>5. WalkContents(f, nx) = [i \in 1..Len(q) |-> q[i]]
  BY <1>1, <1>4 DEF WalkContents
<1>6. QED
  <2>1. q = [i \in 1..Len(q) |-> q[i]]
    OBVIOUS
  <2>2. QED
    BY <1>4, <1>5, <2>1

-----------------------------------------------------------------------------
(* Changing links.                                                         *)

\* s with x behind its first k items.
InsertAt(s, k, x) == SubSeq(s, 1, k) \o <<x>> \o SubSeq(s, k + 1, Len(s))

LEMMA InsertAtFacts ==
    ASSUME NEW s \in Seq(Item), NEW k \in 0..Len(s), NEW x \in Item, NEW r,
           r = InsertAt(s, k, x)
    PROVE  /\ r \in Seq(Item) /\ Len(r) = Len(s) + 1
           /\ \A i \in 1..Len(r) :
                r[i] = IF i <= k THEN s[i] ELSE IF i = k + 1 THEN x ELSE s[i - 1]
<1> DEFINE front == SubSeq(s, 1, k)
           back == SubSeq(s, k + 1, Len(s))
           mid == front \o <<x>>
<1>1. Len(s) \in Nat /\ k \in Nat /\ k <= Len(s) /\ \A i \in 1..Len(s) : s[i] \in Item
  BY LenProperties, ElementOfSeq
<1>2. front \in Seq(Item) /\ Len(front) = k /\ \A i \in 1..k : front[i] = s[i]
  <2>1. \A i \in 1..k : s[i] \in Item
    BY <1>1
  <2>2. /\ SubSeq(s, 1, k) \in Seq(Item)
        /\ Len(SubSeq(s, 1, k)) = IF 1 <= k THEN k - 1 + 1 ELSE 0
        /\ \A i \in 1..(k - 1 + 1) : SubSeq(s, 1, k)[i] = s[1 + i - 1]
    BY <1>1, <2>1, SubSeqProperties
  <2>3. QED
    BY <1>1, <2>2
<1>3. /\ back \in Seq(Item) /\ Len(back) = Len(s) - k
      /\ \A i \in 1..(Len(s) - k) : back[i] = s[k + i]
  <2>1. \A i \in (k + 1)..Len(s) : s[i] \in Item
    BY <1>1
  <2>2. /\ back \in Seq(Item)
        /\ Len(back) = IF k + 1 <= Len(s) THEN Len(s) - (k + 1) + 1 ELSE 0
        /\ \A i \in 1..(Len(s) - (k + 1) + 1) : back[i] = s[k + 1 + i - 1]
    BY <1>1, <2>1, SubSeqProperties
  <2>3. QED
    BY <1>1, <2>2
<1>4. <<x>> \in Seq(Item) /\ Len(<<x>>) = 1 /\ <<x>>[1] = x
  OBVIOUS
<1>5. r = mid \o back
  BY DEF InsertAt
<1> HIDE DEF front, back
<1>6. /\ mid \in Seq(Item) /\ Len(mid) = k + 1
      /\ \A i \in 1..(k + 1) : mid[i] = IF i <= k THEN front[i] ELSE <<x>>[i - k]
  <2>1. /\ front \o <<x>> \in Seq(Item)
        /\ Len(front \o <<x>>) = Len(front) + Len(<<x>>)
        /\ \A i \in 1..Len(front) + Len(<<x>>) : (front \o <<x>>)[i] =
             IF i <= Len(front) THEN front[i] ELSE <<x>>[i - Len(front)]
    BY <1>2, <1>4, ConcatProperties
  <2>2. QED
    BY <1>2, <1>4, <2>1
<1> HIDE DEF mid
<1>7. /\ r \in Seq(Item) /\ Len(r) = Len(s) + 1
      /\ \A i \in 1..(Len(s) + 1) :
           r[i] = IF i <= k + 1 THEN mid[i] ELSE back[i - (k + 1)]
  <2>1. /\ mid \o back \in Seq(Item)
        /\ Len(mid \o back) = Len(mid) + Len(back)
        /\ \A i \in 1..Len(mid) + Len(back) : (mid \o back)[i] =
             IF i <= Len(mid) THEN mid[i] ELSE back[i - Len(mid)]
    BY <1>3, <1>6, ConcatProperties
  <2>2. Len(mid) + Len(back) = Len(s) + 1
    BY <1>1, <1>3, <1>6
  <2>3. QED
    BY <1>5, <1>6, <2>1, <2>2
<1>8. ASSUME NEW i \in 1..Len(r)
      PROVE  r[i] = IF i <= k THEN s[i] ELSE IF i = k + 1 THEN x ELSE s[i - 1]
  <2>1. i \in Nat /\ 1 <= i /\ i <= Len(s) + 1
    BY <1>1, <1>7
  <2>2. CASE i <= k
    BY <1>1, <1>2, <1>6, <1>7, <2>1, <2>2
  <2>3. CASE i = k + 1
    BY <1>1, <1>4, <1>6, <1>7, <2>1, <2>3
  <2>4. CASE i > k + 1
    <3>1. /\ i - (k + 1) \in 1..(Len(s) - k) /\ k + (i - (k + 1)) = i - 1
          /\ ~(i <= k) /\ ~(i <= k + 1) /\ i # k + 1 /\ i \in 1..(Len(s) + 1)
      BY <1>1, <2>1, <2>4
    <3>2. back[i - (k + 1)] = s[i - 1]
      BY <1>3, <3>1
    <3>3. QED
      BY <1>7, <3>1, <3>2
  <2>5. QED
    BY <1>1, <2>1, <2>2, <2>3, <2>4
<1>9. QED
  BY <1>7, <1>8

\* The same of the term itself.
LEMMA InsertAtItems ==
    ASSUME NEW s \in Seq(Item), NEW k \in 0..Len(s), NEW x \in Item
    PROVE  /\ Len(InsertAt(s, k, x)) = Len(s) + 1
           /\ \A i \in 1..(Len(s) + 1) :
                InsertAt(s, k, x)[i] =
                   IF i <= k THEN s[i] ELSE IF i = k + 1 THEN x ELSE s[i - 1]
<1> DEFINE r == InsertAt(s, k, x)
<1>1. /\ r \in Seq(Item) /\ Len(r) = Len(s) + 1
      /\ \A i \in 1..Len(r) :
           r[i] = IF i <= k THEN s[i] ELSE IF i = k + 1 THEN x ELSE s[i - 1]
  BY InsertAtFacts
<1>2. QED
  BY <1>1

LEMMA InsertAtEnd ==
    ASSUME NEW s \in Seq(Item), NEW k \in 0..Len(s), NEW x \in Item
    PROVE  k = Len(s) => InsertAt(s, k, x) = Append(s, x)
<1> DEFINE r == InsertAt(s, k, x)
           t == Append(s, x)
<1>1. /\ r \in Seq(Item) /\ Len(r) = Len(s) + 1
      /\ \A i \in 1..Len(r) :
           r[i] = IF i <= k THEN s[i] ELSE IF i = k + 1 THEN x ELSE s[i - 1]
  BY InsertAtFacts
<1> HIDE DEF r
<1>2. /\ t \in Seq(Item) /\ Len(t) = Len(s) + 1 /\ Len(s) \in Nat
      /\ \A i \in 1..Len(s) : t[i] = s[i]
      /\ t[Len(s) + 1] = x
  OBVIOUS
<1> HIDE DEF t
<1>3. ASSUME k = Len(s), NEW i \in 1..Len(r) PROVE r[i] = t[i]
  BY <1>1, <1>2, <1>3
<1>4. ASSUME k = Len(s) PROVE r = t
  BY <1>1, <1>2, <1>3, <1>4, SeqEqual
<1>5. QED
  BY <1>4 DEF r, t

\* The links that put x behind the first k items of s.
LinksIn(f, nx, s, k, x, f2, nx2) ==
    /\ f2 = IF k = 0 THEN x ELSE f
    /\ nx2[x] = IF k = 0 THEN f ELSE nx[s[k]]
    /\ \A i \in 1..Len(s) : nx2[s[i]] = IF i = k THEN x ELSE nx[s[i]]

LEMMA InsertLinks ==
    ASSUME NEW s \in Seq(Item), NEW f, NEW nx, Links(f, nx, s),
           NEW k \in 0..Len(s), NEW x \in Item, ~Has(s, x),
           NEW f2, NEW nx2, LinksIn(f, nx, s, k, x, f2, nx2)
    PROVE  /\ Links(f2, nx2, InsertAt(s, k, x))
           /\ \A y \in Item : Has(InsertAt(s, k, x), y) <=> Has(s, y) \/ y = x
<1> DEFINE r == InsertAt(s, k, x)
           old(i) == IF i <= k THEN i ELSE i - 1
<1>1. /\ Len(s) \in Nat /\ k \in Nat /\ k <= Len(s)
      /\ \A i \in 1..Len(s) : s[i] \in Item /\ s[i] # x
  BY LenProperties, ElementOfSeq DEF Has
<1>2. /\ r \in Seq(Item) /\ Len(r) = Len(s) + 1
      /\ \A i \in 1..Len(r) :
           r[i] = IF i <= k THEN s[i] ELSE IF i = k + 1 THEN x ELSE s[i - 1]
  BY InsertAtFacts
<1> HIDE DEF r
<1>3. /\ \A i, j \in 1..Len(s) : s[i] = s[j] => i = j
      /\ f = IF Len(s) = 0 THEN NIL ELSE s[1]
      /\ \A i \in 1..Len(s) : nx[s[i]] = IF i = Len(s) THEN NIL ELSE s[i + 1]
  BY DEF Links
<1>4. \A i \in 1..Len(r) : i # k + 1 => old(i) \in 1..Len(s) /\ r[i] = s[old(i)]
  BY <1>1, <1>2
<1>5. r[k + 1] = x /\ k + 1 \in 1..Len(r)
  BY <1>1, <1>2
<1>6. \A i, j \in 1..Len(r) : r[i] = r[j] => i = j
  <2> SUFFICES ASSUME NEW i \in 1..Len(r), NEW j \in 1..Len(r), r[i] = r[j]
               PROVE  i = j
    OBVIOUS
  <2>1. CASE i = k + 1 \/ j = k + 1
    <3> HIDE DEF old
    <3>1. QED
      BY <1>1, <1>4, <1>5, <2>1
  <2>2. CASE i # k + 1 /\ j # k + 1
    <3>1. old(i) = old(j)
      <4> HIDE DEF old
      <4>1. old(i) \in 1..Len(s) /\ r[i] = s[old(i)]
        BY <1>4, <2>2
      <4>2. old(j) \in 1..Len(s) /\ r[j] = s[old(j)]
        BY <1>4, <2>2
      <4>3. QED
        BY <1>3, <4>1, <4>2
    <3>2. i \in Nat /\ j \in Nat
      BY <1>1, <1>2
    <3>3. QED
      BY <1>1, <2>2, <3>1, <3>2
  <2>3. QED
    BY <2>1, <2>2
<1>7. f2 = r[1] /\ Len(r) # 0
  <2>1. 1 \in 1..Len(r)
    BY <1>1, <1>2
  <2>2. QED
    BY <1>1, <1>2, <1>3, <2>1 DEF LinksIn
<1>8. ASSUME NEW i \in 1..Len(r)
      PROVE  nx2[r[i]] = IF i = Len(r) THEN NIL ELSE r[i + 1]
  <2>1. i \in Nat /\ 1 <= i /\ i <= Len(s) + 1
    BY <1>1, <1>2
  <2>2. CASE i = k + 1
    <3>1. nx2[x] = IF k = 0 THEN f ELSE nx[s[k]]
      BY DEF LinksIn
    <3>2. i # Len(r) => r[i + 1] = s[i] /\ i <= Len(s)
      BY <1>1, <1>2, <2>1, <2>2
    <3>3. CASE k = 0
      BY <1>1, <1>2, <1>3, <1>5, <2>1, <2>2, <3>1, <3>2, <3>3
    <3>4. CASE k # 0
      <4>1. nx[s[k]] = IF k = Len(s) THEN NIL ELSE s[k + 1]
        BY <1>1, <1>3, <3>4
      <4>2. QED
        BY <1>1, <1>2, <1>5, <2>1, <2>2, <3>1, <3>2, <3>4, <4>1
    <3>5. QED
      BY <3>3, <3>4
  <2>3. CASE i # k + 1
    <3>1. /\ old(i) \in 1..Len(s) /\ r[i] = s[old(i)]
          /\ nx2[s[old(i)]] = IF old(i) = k THEN x ELSE nx[s[old(i)]]
          /\ nx[s[old(i)]] = IF old(i) = Len(s) THEN NIL ELSE s[old(i) + 1]
      <4>1. old(i) \in 1..Len(s) /\ r[i] = s[old(i)]
        BY <1>4, <2>3
      <4> HIDE DEF old
      <4>2. QED
        BY <1>3, <4>1 DEF LinksIn
    <3>2. CASE i = k
      BY <1>1, <1>2, <1>5, <2>1, <3>1, <3>2
    <3>3. CASE i < k
      BY <1>1, <1>2, <2>1, <3>1, <3>3
    <3>4. CASE i > k + 1
      BY <1>1, <1>2, <2>1, <3>1, <3>4
    <3>5. QED
      BY <1>1, <2>1, <2>3, <3>2, <3>3, <3>4
  <2>4. QED
    BY <2>2, <2>3
<1>9. Links(f2, nx2, r)
  BY <1>6, <1>7, <1>8 DEF Links
<1>10. ASSUME NEW y \in Item PROVE Has(r, y) <=> Has(s, y) \/ y = x
  <2>1. ASSUME NEW i \in 1..Len(r), r[i] = y PROVE Has(s, y) \/ y = x
    <3> HIDE DEF old
    <3>1. QED
      BY <1>4, <1>5, <2>1 DEF Has
  <2>2. ASSUME NEW i \in 1..Len(s), s[i] = y PROVE Has(r, y)
    <3>1. CASE i <= k
      <4>1. i \in 1..Len(r) /\ r[i] = y
        BY <1>1, <1>2, <2>2, <3>1
      <4>2. QED
        BY <4>1 DEF Has
    <3>2. CASE i > k
      <4>1. i + 1 \in 1..Len(r) /\ r[i + 1] = y
        BY <1>1, <1>2, <2>2, <3>2
      <4>2. QED
        BY <4>1 DEF Has
    <3>3. QED
      BY <1>1, <3>1, <3>2
  <2>3. Has(r, x)
    BY <1>5 DEF Has
  <2>4. QED
    BY <2>1, <2>2, <2>3 DEF Has
<1>11. QED
  BY <1>9, <1>10 DEF r

\* first moved on to the second item.
LEMMA TailLinks ==
    ASSUME NEW s \in Seq(Item), NEW f, NEW nx, Links(f, nx, s), f # NIL
    PROVE  /\ s # <<>> /\ Len(s) # 0 /\ f = s[1] /\ f \in Item /\ Has(s, f)
           /\ Tail(s) \in Seq(Item) /\ Len(Tail(s)) = Len(s) - 1
           /\ \A i \in 1..Len(Tail(s)) : Tail(s)[i] = s[i + 1]
           /\ Links(nx[f], nx, Tail(s))
           /\ \A y \in Item : Has(Tail(s), y) <=> Has(s, y) /\ y # f
<1> DEFINE r == Tail(s)
<1>1. /\ Len(s) \in Nat /\ \A i \in 1..Len(s) : s[i] \in Item
      /\ \A i, j \in 1..Len(s) : s[i] = s[j] => i = j
      /\ f = IF Len(s) = 0 THEN NIL ELSE s[1]
      /\ \A i \in 1..Len(s) : nx[s[i]] = IF i = Len(s) THEN NIL ELSE s[i + 1]
  BY LenProperties, ElementOfSeq DEF Links
<1>2. s # <<>> /\ Len(s) # 0 /\ 1 \in 1..Len(s) /\ f = s[1] /\ f \in Item
  BY <1>1, EmptySeq
<1>3. r \in Seq(Item) /\ Len(r) = Len(s) - 1 /\ \A i \in 1..Len(r) : r[i] = s[i + 1]
  BY <1>2, HeadTailProperties
<1> HIDE DEF r
<1>4. \A i \in 1..Len(r) : i + 1 \in 1..Len(s) /\ i + 1 # 1 /\ i \in Nat
  BY <1>1, <1>2, <1>3
<1>5. Links(nx[f], nx, r)
  <2>1. \A i, j \in 1..Len(r) : r[i] = r[j] => i = j
    <3> SUFFICES ASSUME NEW i \in 1..Len(r), NEW j \in 1..Len(r), r[i] = r[j]
                 PROVE  i = j
      OBVIOUS
    <3>1. i + 1 = j + 1
      BY <1>1, <1>3, <1>4
    <3>2. QED
      BY <1>4, <3>1
  <2>2. nx[f] = IF Len(r) = 0 THEN NIL ELSE r[1]
    BY <1>1, <1>2, <1>3
  <2>3. ASSUME NEW i \in 1..Len(r)
        PROVE  nx[r[i]] = IF i = Len(r) THEN NIL ELSE r[i + 1]
    <3>1. nx[s[i + 1]] = IF i + 1 = Len(s) THEN NIL ELSE s[(i + 1) + 1]
      BY <1>1, <1>4
    <3>2. i # Len(r) => i + 1 \in 1..Len(r)
      BY <1>1, <1>3, <1>4
    <3>3. QED
      BY <1>1, <1>3, <1>4, <3>1, <3>2
  <2>4. QED
    BY <2>1, <2>2, <2>3 DEF Links
<1>6. ASSUME NEW y \in Item PROVE Has(r, y) <=> Has(s, y) /\ y # f
  <2>1. ASSUME NEW i \in 1..Len(r), r[i] = y PROVE Has(s, y) /\ y # f
    BY <1>1, <1>2, <1>3, <1>4, <2>1 DEF Has
  <2>2. ASSUME NEW i \in 1..Len(s), s[i] = y, y # f PROVE Has(r, y)
    <3>1. i - 1 \in 1..Len(r) /\ (i - 1) + 1 = i
      BY <1>1, <1>2, <1>3, <2>2
    <3>2. QED
      BY <1>3, <2>2, <3>1 DEF Has
  <2>3. QED
    BY <2>1, <2>2 DEF Has
<1>7. Has(s, f)
  BY <1>2 DEF Has
<1>8. QED
  BY <1>2, <1>3, <1>5, <1>6, <1>7 DEF r

-----------------------------------------------------------------------------
(* The actions.  Each is given the contents before it, and gives those     *)
(* after it together with the step of Fifo.                                *)

\* Of the contents, only those of q change, to r.
Becomes(c, d, q, r) ==
    /\ d \in [Queue -> Seq(Item)]
    /\ \A p \in Queue : d[p] = IF p = q THEN r ELSE c[p]

\* An item that is in no queue is in none of the sequences, and one that is
\* in one is in no other.
LEMMA InOneQueue ==
    ASSUME NEW c, BackPointersShow(c), NEW x \in Item
    PROVE  /\ inQueue[x] = NIL => \A q \in Queue : ~Has(c[q], x)
           /\ \A p, q \in Queue : Has(c[p], x) /\ Has(c[q], x) => p = q
  BY QueueAssumption DEF BackPointersShow

\* Links that an operation on q does not touch keep the other queues.
LEMMA OthersKeepLinks ==
    ASSUME NEW s \in Seq(Item), NEW f, NEW nx, NEW nx2, Links(f, nx, s),
           \A y \in Item : Has(s, y) => nx2[y] = nx[y]
    PROVE  Links(f, nx2, s)
<1>1. \A i \in 1..Len(s) : s[i] \in Item /\ Has(s, s[i])
  BY ElementOfSeq DEF Has
<1>2. \A i \in 1..Len(s) : nx2[s[i]] = nx[s[i]]
  BY <1>1
<1>3. QED
  BY <1>2 DEF Links

LEMMA LeaveKeepsShape ==
    ASSUME LinksTypeOK, NEW c \in [Queue -> Seq(Item)], Shape(c),
           NEW q \in Queue, Dequeue(q)
    PROVE  /\ LinksTypeOK'
           /\ c[q] # <<>>
           /\ \E d : Becomes(c, d, q, Tail(c[q])) /\ Shape(d)'
<1> DEFINE x == first[q]
           s == c[q]
           d == [c EXCEPT ![q] = Tail(s)]
<1>1. /\ x # NIL
      /\ first' = [first EXCEPT ![q] = next[x]]
      /\ inQueue' = [inQueue EXCEPT ![x] = NIL]
      /\ last' = IF last[q] = x THEN [last EXCEPT ![q] = NIL] ELSE last
      /\ UNCHANGED <<next, key>>
  BY DEF Dequeue
<1>2. /\ s \in Seq(Item) /\ Links(x, next, s)
      /\ \A p \in Queue : c[p] \in Seq(Item) /\ Links(first[p], next, c[p])
  BY DEF Shape, LinksShow
<1> DEFINE nx == next
           r == Tail(s)
<1>3. /\ s # <<>> /\ Len(s) # 0 /\ x = s[1] /\ x \in Item /\ Has(s, x)
      /\ r \in Seq(Item) /\ Len(r) = Len(s) - 1
      /\ \A i \in 1..Len(r) : r[i] = s[i + 1]
      /\ Links(nx[x], nx, r)
      /\ \A y \in Item : Has(r, y) <=> Has(s, y) /\ y # x
  <2>1. Links(x, nx, s) /\ x # NIL /\ s \in Seq(Item)
    BY <1>1, <1>2
  <2> HIDE DEF x, nx, s
  <2>2. QED
    BY <2>1, TailLinks
<1>4. /\ \A p \in Queue : first'[p] = IF p = q THEN nx[x] ELSE first[p]
      /\ \A y \in Item : inQueue'[y] = IF y = x THEN NIL ELSE inQueue[y]
      /\ \A p \in Queue : last'[p] = IF p = q /\ last[q] = x THEN NIL ELSE last[p]
      /\ nx[x] \in Item \cup {NIL}
  BY <1>1, <1>3 DEF LinksTypeOK
<1>5. LinksTypeOK'
  BY <1>1, <1>3 DEF LinksTypeOK
<1>6. Becomes(c, d, q, r)
  BY <1>3 DEF Becomes
<1> HIDE DEF d
<1>7. LinksShow(d)'
  <2>1. \A p \in Queue : Links(first'[p], next, d[p])
    BY <1>2, <1>3, <1>4, <1>6 DEF Becomes
  <2>2. QED
    BY <1>1, <2>1 DEF LinksShow
<1>8. BackPointersShow(d)'
  <2> SUFFICES ASSUME NEW p \in Queue, NEW y \in Item
               PROVE  inQueue'[y] = p <=> Has(d[p], y)
    BY DEF BackPointersShow
  <2>1. /\ inQueue[y] = p <=> Has(c[p], y)
        /\ inQueue[x] = q
    BY <1>3 DEF Shape, BackPointersShow
  <2>2. CASE p = q
    <3>1. d[p] = r /\ q # NIL
      BY <1>6, <2>2, QueueAssumption DEF Becomes
    <3>2. Has(r, y) <=> Has(s, y) /\ y # x
      BY <1>3
    <3>3. inQueue[y] = q <=> Has(s, y)
      BY <2>1, <2>2
    <3> HIDE DEF s, r, x
    <3>4. QED
      BY <1>4, <2>2, <3>1, <3>2, <3>3
  <2>3. CASE p # q
    <3>1. d[p] = c[p] /\ p # NIL
      BY <1>6, <2>3, QueueAssumption DEF Becomes
    <3> HIDE DEF s, r, x
    <3>2. QED
      BY <1>4, <2>1, <2>3, <3>1
  <2>4. QED
    BY <2>2, <2>3
<1>9. LastShows(d)'
  <2>1. last'[SleepQueue] = NIL
    BY <1>4, QueueAssumption DEF Shape, LastShows
  <2>2. ASSUME NEW p \in Queue \ {SleepQueue}
        PROVE  last'[p] = IF Len(d[p]) = 0 THEN NIL ELSE d[p][Len(d[p])]
    <3>1. last[p] = IF Len(c[p]) = 0 THEN NIL ELSE c[p][Len(c[p])]
      BY DEF Shape, LastShows
    <3>2. CASE p # q
      BY <1>4, <1>6, <3>1, <3>2 DEF Becomes
    <3>3. CASE p = q
      <4>1. Len(s) \in Nat /\ Len(s) \in 1..Len(s) /\ last[q] = s[Len(s)]
        BY <1>2, <1>3, <3>1, <3>3, LenProperties
      <4>2. last[q] = x <=> Len(s) = 1
        <5>1. \A i, j \in 1..Len(s) : s[i] = s[j] => i = j
          BY <1>2 DEF Links
        <5>2. 1 \in 1..Len(s) /\ x = s[1]
          BY <1>3, <4>1
        <5> HIDE DEF x, s
        <5>3. QED
          BY <4>1, <5>1, <5>2
      <4>3. d[p] = r
        BY <1>6, <3>3 DEF Becomes
      <4>4. CASE Len(s) = 1
        BY <1>3, <1>4, <3>3, <4>2, <4>3, <4>4
      <4>5. CASE Len(s) # 1
        <5>1. Len(r) \in 1..Len(r) /\ r[Len(r)] = s[Len(s)] /\ Len(r) # 0
          BY <1>3, <4>1, <4>5
        <5>2. QED
          BY <1>4, <3>3, <4>1, <4>2, <4>3, <4>5, <5>1
      <4>6. QED
        BY <4>4, <4>5
    <3>4. QED
      BY <3>2, <3>3
  <2>3. QED
    BY <2>1, <2>2 DEF LastShows
<1>10. Sorted(d)'
  <2> DEFINE z == c[SleepQueue]
             e == d[SleepQueue]
  <2>1. /\ \A i, j \in 1..Len(z) : i < j => key[z[i]] <= key[z[j]]
        /\ Len(z) \in Nat
    BY <1>2, QueueAssumption, LenProperties DEF Shape, Sorted
  <2>2. CASE q # SleepQueue
    <3>1. e = z
      BY <1>6, <2>2, QueueAssumption DEF Becomes
    <3>2. QED
      BY <1>1, <2>1, <3>1 DEF Sorted
  <2>3. CASE q = SleepQueue
    <3>1. e = r /\ z = s
      BY <1>6, <2>3, QueueAssumption DEF Becomes
    <3>2. \A i \in 1..Len(r) : i \in Nat /\ i + 1 \in 1..Len(s)
      BY <1>3, <2>1, <3>1
    <3>3. \A i, j \in 1..Len(r) : i < j => i + 1 < j + 1
      BY <3>2
    <3>4. \A i, j \in 1..Len(r) : i < j => key[r[i]] <= key[r[j]]
      BY <1>3, <2>1, <3>1, <3>2, <3>3
    <3>5. QED
      BY <1>1, <3>1, <3>4 DEF Sorted
  <2>4. QED
    BY <2>2, <2>3
<1>11. Shape(d)'
  BY <1>7, <1>8, <1>9, <1>10 DEF Shape
<1>12. QED
  BY <1>3, <1>5, <1>6, <1>11

\* The writes that put x behind the first k items of q.
PutsIn(c, q, k, x) ==
    /\ \A p \in Queue : first'[p] = IF p = q /\ k = 0 THEN x ELSE first[p]
    /\ \A y \in Item : next'[y] =
          IF y = x THEN (IF k = 0 THEN first[q] ELSE next[c[q][k]])
          ELSE IF k # 0 /\ y = c[q][k] THEN x ELSE next[y]
    /\ \A y \in Item : inQueue'[y] = IF y = x THEN q ELSE inQueue[y]

LEMMA PutInKeepsLinks ==
    ASSUME LinksTypeOK, NEW c \in [Queue -> Seq(Item)], Shape(c),
           NEW q \in Queue, NEW x \in Item, inQueue[x] = NIL,
           NEW k \in 0..Len(c[q]), PutsIn(c, q, k, x)
    PROVE  \E d : /\ Becomes(c, d, q, InsertAt(c[q], k, x))
                  /\ LinksShow(d)' /\ BackPointersShow(d)'
<1> DEFINE s == c[q]
           r == InsertAt(s, k, x)
           d == [c EXCEPT ![q] = r]
<1>1. /\ s \in Seq(Item) /\ Len(s) \in Nat /\ k \in 0..Len(s)
      /\ \A i \in 1..Len(s) : s[i] \in Item /\ Has(s, s[i])
      /\ \A p \in Queue : c[p] \in Seq(Item) /\ Links(first[p], next, c[p])
  <2>1. s \in Seq(Item)
    OBVIOUS
  <2>2. Len(s) \in Nat /\ \A i \in 1..Len(s) : s[i] \in Item /\ Has(s, s[i])
    BY <2>1, LenProperties, ElementOfSeq DEF Has
  <2>3. QED
    BY <2>1, <2>2 DEF Shape, LinksShow
<1>2. /\ \A p \in Queue : ~Has(c[p], x)
      /\ \A p \in Queue, y \in Item : p # q /\ Has(c[p], y) => ~Has(s, y)
  BY InOneQueue DEF Shape
<1>3. /\ Links(first'[q], next', r)
      /\ \A y \in Item : Has(r, y) <=> Has(s, y) \/ y = x
  <2> DEFINE f == first[q]
             nx == next
             f2 == first'[q]
             nx2 == next'
  <2>1. /\ f2 = IF k = 0 THEN x ELSE f
        /\ nx2[x] = IF k = 0 THEN f ELSE nx[s[k]]
    BY DEF PutsIn
  <2>2. \A i \in 1..Len(s) : nx2[s[i]] = IF i = k THEN x ELSE nx[s[i]]
    <3> SUFFICES ASSUME NEW i \in 1..Len(s)
                 PROVE  nx2[s[i]] = IF i = k THEN x ELSE nx[s[i]]
      OBVIOUS
    <3>1. s[i] \in Item /\ s[i] # x
      BY <1>1, <1>2
    <3>2. nx2[s[i]] = IF k # 0 /\ s[i] = s[k] THEN x ELSE nx[s[i]]
      BY <3>1 DEF PutsIn
    <3>3. k # 0 => (s[i] = s[k] <=> i = k)
      BY <1>1 DEF Links
    <3>4. i # 0
      BY <1>1
    <3> HIDE DEF s, nx, nx2
    <3>5. QED
      BY <3>2, <3>3, <3>4
  <2>3. Links(f, nx, s) /\ LinksIn(f, nx, s, k, x, f2, nx2) /\ ~Has(s, x)
    BY <1>1, <1>2, <2>1, <2>2 DEF LinksIn
  <2> HIDE DEF s, f, nx, f2, nx2
  <2>4. /\ Links(f2, nx2, InsertAt(s, k, x))
        /\ \A y \in Item : Has(InsertAt(s, k, x), y) <=> Has(s, y) \/ y = x
    BY <1>1, <2>3, InsertLinks
  <2>5. QED
    BY <2>4 DEF f2, nx2
<1>4. r \in Seq(Item)
  <2> HIDE DEF s
  <2>1. QED
    BY <1>1, InsertAtFacts
<1>5. Becomes(c, d, q, r)
  BY <1>4 DEF Becomes
<1> HIDE DEF d, r
<1>6. LinksShow(d)'
  <2> SUFFICES ASSUME NEW p \in Queue PROVE Links(first'[p], next', d[p])
    BY DEF LinksShow
  <2>1. CASE p = q
    BY <1>3, <1>5, <2>1 DEF Becomes
  <2>2. CASE p # q
    <3> DEFINE nx == next
               nx2 == next'
               f == first[p]
               t == c[p]
    <3>1. d[p] = t /\ first'[p] = f /\ t \in Seq(Item) /\ Links(f, nx, t)
      BY <1>1, <1>5, <2>2 DEF Becomes, PutsIn
    <3>2. ASSUME NEW y \in Item, Has(t, y) PROVE nx2[y] = nx[y]
      <4>1. y # x /\ ~Has(s, y)
        BY <1>2, <2>2, <3>2
      <4>2. ~(k # 0 /\ y = s[k])
        BY <1>1, <4>1
      <4>3. QED
        BY <4>1, <4>2 DEF PutsIn
    <3> HIDE DEF nx, nx2, f, t
    <3>3. Links(f, nx2, t)
      BY <3>1, <3>2, OthersKeepLinks
    <3>4. QED
      BY <3>1, <3>3 DEF nx2
  <2>3. QED
    BY <2>1, <2>2
<1>7. BackPointersShow(d)'
  <2> SUFFICES ASSUME NEW p \in Queue, NEW y \in Item
               PROVE  inQueue'[y] = p <=> Has(d[p], y)
    BY DEF BackPointersShow
  <2>1. /\ inQueue[y] = p <=> Has(c[p], y)
        /\ inQueue'[y] = IF y = x THEN q ELSE inQueue[y]
        /\ ~Has(c[p], x)
    BY <1>2 DEF Shape, BackPointersShow, PutsIn
  <2>2. CASE p = q
    <3>1. d[p] = r /\ (Has(r, y) <=> Has(s, y) \/ y = x)
      BY <1>3, <1>5, <2>2 DEF Becomes
    <3>2. QED
      BY <2>1, <2>2, <3>1
  <2>3. CASE p # q
    <3>1. d[p] = c[p]
      BY <1>5, <2>3 DEF Becomes
    <3>2. QED
      BY <2>1, <2>3, <3>1
  <2>4. QED
    BY <2>2, <2>3
<1>8. QED
  BY <1>5, <1>6, <1>7 DEF r

\* An enqueue: x joins at the back.
LEMMA JoinKeepsShape ==
    ASSUME LinksTypeOK, NEW c \in [Queue -> Seq(Item)], Shape(c),
           NEW q \in Queue, NEW x \in Item, Enqueue(q, x)
    PROVE  /\ LinksTypeOK'
           /\ q # SleepQueue /\ \A p \in Queue : ~Has(c[p], x)
           /\ \E d : Becomes(c, d, q, Append(c[q], x)) /\ Shape(d)'
<1> DEFINE s == c[q]
           k == Len(s)
           r == Append(s, x)
<1>1. /\ q # SleepQueue /\ inQueue[x] = NIL
      /\ first' = IF first[q] = NIL THEN [first EXCEPT ![q] = x] ELSE first
      /\ next' = IF first[q] = NIL
                    THEN [next EXCEPT ![x] = NIL]
                    ELSE [next EXCEPT ![last[q]] = x, ![x] = NIL]
      /\ inQueue' = [inQueue EXCEPT ![x] = q]
      /\ last' = [last EXCEPT ![q] = x]
      /\ key' = key
  BY DEF Enqueue, EnqueueWrites
<1>2. /\ s \in Seq(Item) /\ k \in Nat /\ \A i \in 1..k : s[i] \in Item
      /\ Links(first[q], next, s)
      /\ last[q] = IF k = 0 THEN NIL ELSE s[k]
      /\ \A p \in Queue : ~Has(c[p], x)
  <2>1. s \in Seq(Item)
    OBVIOUS
  <2>2. k \in Nat /\ \A i \in 1..k : s[i] \in Item
    BY <2>1, LenProperties, ElementOfSeq
  <2>3. QED
    BY <1>1, <2>1, <2>2, InOneQueue DEF Shape, LinksShow, LastShows
<1>3. /\ first[q] = IF k = 0 THEN NIL ELSE s[1]
      /\ k # 0 => /\ next[s[k]] = NIL /\ last[q] = s[k] /\ s[k] \in Item
                  /\ s[k] # x /\ first[q] # NIL
      /\ k = 0 => first[q] = NIL
  <2>1. first[q] = IF k = 0 THEN NIL ELSE s[1]
    BY <1>2 DEF Links
  <2>2. ASSUME k # 0
        PROVE  /\ next[s[k]] = NIL /\ last[q] = s[k] /\ s[k] \in Item
               /\ s[k] # x /\ first[q] # NIL
    <3>1. k \in 1..Len(s) /\ 1 \in 1..k
      BY <1>2, <2>2
    <3>2. s[1] # NIL /\ s[k] \in Item
      BY <1>2, <3>1, QueueAssumption
    <3>3. s[k] # x
      BY <1>2, <3>1 DEF Has
    <3>4. QED
      BY <1>2, <2>1, <2>2, <3>1, <3>2, <3>3 DEF Links
  <2>3. QED
    BY <2>1, <2>2
<1> HIDE DEF k
<1>4. LinksTypeOK'
  BY <1>1, <1>2, <1>3 DEF LinksTypeOK
<1>5. PutsIn(c, q, k, x)
  <2>1. \A p \in Queue : first'[p] = IF p = q /\ k = 0 THEN x ELSE first[p]
    BY <1>1, <1>3 DEF LinksTypeOK
  <2>2. \A y \in Item : next'[y] =
          IF y = x THEN (IF k = 0 THEN first[q] ELSE next[c[q][k]])
          ELSE IF k # 0 /\ y = c[q][k] THEN x ELSE next[y]
    BY <1>1, <1>3 DEF LinksTypeOK
  <2>3. \A y \in Item : inQueue'[y] = IF y = x THEN q ELSE inQueue[y]
    BY <1>1 DEF LinksTypeOK
  <2>4. QED
    BY <2>1, <2>2, <2>3 DEF PutsIn
<1>6. k \in 0..Len(c[q]) /\ k = Len(s)
  BY <1>2 DEF k
<1>7. PICK d : Becomes(c, d, q, InsertAt(s, k, x)) /\ LinksShow(d)' /\ BackPointersShow(d)'
  BY <1>1, <1>5, <1>6, PutInKeepsLinks
<1>8. Becomes(c, d, q, r)
  <2>1. InsertAt(s, k, x) = r
    BY <1>2, <1>6, InsertAtEnd
  <2>2. QED
    BY <1>7, <2>1
<1>9. LastShows(d)'
  <2>1. \A p \in Queue : last'[p] = IF p = q THEN x ELSE last[p]
    BY <1>1 DEF LinksTypeOK
  <2>2. last'[SleepQueue] = NIL
    BY <1>1, <2>1, QueueAssumption DEF Shape, LastShows
  <2>3. ASSUME NEW p \in Queue \ {SleepQueue}
        PROVE  last'[p] = IF Len(d[p]) = 0 THEN NIL ELSE d[p][Len(d[p])]
    <3>1. CASE p = q
      <4>1. Len(r) = k + 1 /\ r[k + 1] = x /\ d[p] = r
        BY <1>2, <1>6, <1>8, <3>1 DEF Becomes
      <4>2. Len(r) # 0
        BY <1>2, <4>1
      <4> HIDE DEF r
      <4>3. QED
        BY <2>1, <3>1, <4>1, <4>2
    <3>2. CASE p # q
      BY <1>8, <2>1, <3>2 DEF Becomes, Shape, LastShows
    <3>3. QED
      BY <3>1, <3>2
  <2>4. QED
    BY <2>2, <2>3 DEF LastShows
<1>10. Sorted(d)'
  <2>1. d[SleepQueue] = c[SleepQueue]
    BY <1>1, <1>8, QueueAssumption DEF Becomes
  <2>2. QED
    BY <1>1, <2>1 DEF Shape, Sorted
<1>11. Shape(d)'
  BY <1>7, <1>9, <1>10 DEF Shape
<1>12. QED
  BY <1>1, <1>2, <1>4, <1>8, <1>11

\* Enqueued again, an item that is alone in its queue: nothing changes.
LEMMA AgainChangesNothing ==
    ASSUME LinksTypeOK, NEW c \in [Queue -> Seq(Item)], Shape(c),
           NEW q \in Queue, NEW x \in Item, EnqueueAgain(q, x)
    PROVE  UNCHANGED queueVars
<1> DEFINE s == c[q]
<1>1. /\ first[q] = x /\ last[q] = x /\ x # NIL
      /\ first' = first /\ key' = key
      /\ next' = [next EXCEPT ![x] = x, ![x] = NIL]
      /\ inQueue' = [inQueue EXCEPT ![x] = q]
      /\ last' = [last EXCEPT ![q] = x]
  BY QueueAssumption DEF EnqueueAgain, EnqueueWrites
<1>2. /\ s \in Seq(Item) /\ Len(s) \in Nat
      /\ \A i, j \in 1..Len(s) : s[i] = s[j] => i = j
      /\ x = s[1] /\ Len(s) # 0
      /\ \A i \in 1..Len(s) : next[s[i]] = IF i = Len(s) THEN NIL ELSE s[i + 1]
  <2>1. Links(first[q], next, s) /\ s \in Seq(Item)
    BY DEF Shape, LinksShow
  <2>2. QED
    BY <1>1, <2>1, LenProperties DEF Links
<1>3. Len(s) \in 1..Len(s) /\ 1 \in 1..Len(s)
  BY <1>2
<1>4. x = s[Len(s)]
  <2>1. q # SleepQueue
    BY <1>1 DEF Shape, LastShows
  <2>2. QED
    BY <1>1, <1>2, <2>1 DEF Shape, LastShows
<1>5. next[x] = NIL /\ inQueue[x] = q
  <2>1. next[x] = NIL
    BY <1>2, <1>3, <1>4
  <2>2. Has(s, x)
    BY <1>2, <1>3 DEF Has
  <2>3. QED
    BY <2>1, <2>2 DEF Shape, BackPointersShow
<1>6. next' = next /\ inQueue' = inQueue /\ last' = last
  <2>1. next' = next
    BY <1>1, <1>5 DEF LinksTypeOK
  <2>2. inQueue' = inQueue
    BY <1>1, <1>5 DEF LinksTypeOK
  <2>3. last' = last
    BY <1>1 DEF LinksTypeOK
  <2>4. QED
    BY <2>1, <2>2, <2>3
<1>7. QED
  BY <1>1, <1>6 DEF queueVars

\* The search of sched_sleep ends behind the items that are due earlier.
LEMMA SearchFacts ==
    ASSUME LinksTypeOK, NEW c \in [Queue -> Seq(Item)], Shape(c),
           NEW x \in Item, NEW k \in Key, InsertSorted(x, k)
    PROVE  \E n \in 0..Len(c[SleepQueue]) :
             /\ PutsIn(c, SleepQueue, n, x)
             /\ \A j \in 1..Len(c[SleepQueue]) : j <= n <=> key[c[SleepQueue][j]] < k
<1> DEFINE q == SleepQueue
           s == c[q]
<1>1. /\ q \in Queue /\ s \in Seq(Item) /\ Len(s) \in Nat
      /\ \A i \in 1..Len(s) : s[i] \in Item
      /\ Links(first[q], next, s)
      /\ \A i, j \in 1..Len(s) : i < j => key[s[i]] <= key[s[j]]
  <2>1. q \in Queue /\ s \in Seq(Item)
    BY QueueAssumption
  <2>2. Len(s) \in Nat /\ \A i \in 1..Len(s) : s[i] \in Item
    BY <2>1, LenProperties, ElementOfSeq
  <2>3. QED
    BY <2>1, <2>2 DEF Shape, LinksShow, Sorted
<1>2. \A i \in 1..Len(s) : key[s[i]] \in Nat /\ k \in Nat /\ s[i] # NIL
  BY <1>1, QueueAssumption DEF LinksTypeOK
<1>3. inQueue' = [inQueue EXCEPT ![x] = q] /\ inQueue[x] = NIL
  BY DEF InsertSorted
<1>4. \A i \in 1..Len(s) : s[i] # x
  <2>1. ~Has(s, x)
    BY <1>1, <1>3, InOneQueue DEF Shape
  <2>2. QED
    BY <2>1 DEF Has
<1>5. \A y \in Item : inQueue'[y] = IF y = x THEN q ELSE inQueue[y]
  BY <1>3 DEF LinksTypeOK
<1>6. CASE /\ DueNoEarlier(first[q], k)
           /\ next' = [next EXCEPT ![x] = first[q]]
           /\ first' = [first EXCEPT ![q] = x]
  <2>1. 0 \in 0..Len(s)
    BY <1>1
  <2>2. PutsIn(c, q, 0, x)
    BY <1>1, <1>5, <1>6 DEF PutsIn, LinksTypeOK
  <2>3. \A j \in 1..Len(s) : ~(key[s[j]] < k)
    <3> SUFFICES ASSUME NEW j \in 1..Len(s) PROVE ~(key[s[j]] < k)
      OBVIOUS
    <3>1. 1 \in 1..Len(s) /\ first[q] = s[1] /\ j \in Nat /\ (j = 1 \/ 1 < j)
      BY <1>1 DEF Links
    <3>2. key[s[1]] >= k
      BY <1>2, <1>6, <3>1 DEF DueNoEarlier
    <3>3. key[s[1]] <= key[s[j]]
      BY <1>1, <1>2, <3>1
    <3>4. QED
      BY <1>2, <3>1, <3>2, <3>3
  <2>4. \A j \in 1..Len(s) : ~(j <= 0)
    BY <1>1
  <2>5. QED
    BY <2>1, <2>2, <2>3, <2>4
<1>7. ASSUME ~DueNoEarlier(first[q], k),
             NEW n \in 1..Cardinality(Item),
             \A i \in 2..n : ~DueNoEarlier(Nth(q)[i], k),
             DueNoEarlier(next[Nth(q)[n]], k),
             next' = [next EXCEPT ![x] = next[Nth(q)[n]], ![Nth(q)[n]] = x],
             first' = first
      PROVE  \E m \in 0..Len(s) :
               /\ PutsIn(c, q, m, x)
               /\ \A j \in 1..Len(s) : j <= m <=> key[s[j]] < k
  <2>1. /\ Cardinality(Item) \in Nat /\ Len(s) <= Cardinality(Item)
        /\ \A i \in 1..Cardinality(Item) : Nth(q)[i] = IF i <= Len(s) THEN s[i] ELSE NIL
    <3> DEFINE f == first[q]
               nx == next
    <3>1. Links(f, nx, s) /\ s \in Seq(Item)
      BY <1>1
    <3>2. Nth(q) = Walk(f, nx)
      BY NthIsWalk
    <3> HIDE DEF f, nx, s
    <3>3. /\ Cardinality(Item) \in Nat /\ Len(s) <= Cardinality(Item)
          /\ \A i \in 1..Cardinality(Item) : Walk(f, nx)[i] = IF i <= Len(s) THEN s[i] ELSE NIL
      BY <3>1, WalkFacts
    <3>4. QED
      BY <3>2, <3>3
  <2>2. first[q] # NIL /\ key[first[q]] < k
    <3>1. first[q] # NIL /\ ~(key[first[q]] >= k)
      BY <1>7 DEF DueNoEarlier
    <3>2. Len(s) # 0 /\ first[q] = s[1] /\ 1 \in 1..Len(s)
      BY <1>1, <3>1 DEF Links
    <3>3. QED
      BY <1>2, <3>1, <3>2
  <2>3. n <= Len(s)
    <3>1. CASE n = 1
      BY <1>1, <2>2, <3>1 DEF Links
    <3>2. CASE n # 1
      <4>1. n \in 2..n /\ n \in Nat
        BY <2>1, <3>2
      <4>2. Nth(q)[n] # NIL
        BY <1>7, <4>1 DEF DueNoEarlier
      <4>3. QED
        BY <2>1, <4>2
    <3>3. QED
      BY <3>1, <3>2
  <2>4. n \in 1..Len(s) /\ n \in 0..Len(s) /\ n # 0 /\ n \in Nat /\ Nth(q)[n] = s[n]
        /\ n <= Cardinality(Item)
    BY <1>1, <2>1, <2>3
  <2>5. \A i \in 1..n : key[s[i]] < k
    <3> SUFFICES ASSUME NEW i \in 1..n PROVE key[s[i]] < k
      OBVIOUS
    <3>1. i \in 1..Len(s) /\ i \in Nat
      BY <1>1, <2>4
    <3>2. CASE i = 1
      BY <1>1, <2>2, <2>4, <3>2 DEF Links
    <3>3. CASE i # 1
      <4>1. i \in 2..n /\ i \in 1..Cardinality(Item) /\ i <= Len(s)
        BY <2>1, <2>4, <3>1, <3>3
      <4>2. Nth(q)[i] = s[i] /\ ~DueNoEarlier(Nth(q)[i], k)
        BY <1>7, <2>1, <4>1
      <4>3. ~(key[s[i]] >= k)
        BY <4>2 DEF DueNoEarlier
      <4>4. QED
        BY <1>2, <3>1, <4>3
    <3>4. QED
      BY <3>2, <3>3
  <2>6. \A j \in 1..Len(s) : j > n => ~(key[s[j]] < k)
    <3> SUFFICES ASSUME NEW j \in 1..Len(s), j > n PROVE ~(key[s[j]] < k)
      OBVIOUS
    <3>1. n + 1 \in 1..Len(s) /\ n # Len(s) /\ j \in Nat /\ (j = n + 1 \/ n + 1 < j)
      BY <1>1, <2>4
    <3>2. next[s[n]] = s[n + 1]
      BY <1>1, <2>4, <3>1 DEF Links
    <3>3. key[s[n + 1]] >= k
      BY <1>2, <1>7, <2>4, <3>1, <3>2 DEF DueNoEarlier
    <3>4. key[s[n + 1]] <= key[s[j]]
      BY <1>1, <1>2, <3>1
    <3>5. QED
      BY <1>2, <3>1, <3>3, <3>4
  <2>7. \A j \in 1..Len(s) : j <= n <=> key[s[j]] < k
    <3> SUFFICES ASSUME NEW j \in 1..Len(s) PROVE j <= n <=> key[s[j]] < k
      OBVIOUS
    <3>1. j <= n => j \in 1..n
      BY <2>4
    <3>2. ~(j <= n) => j > n
      BY <1>1, <2>4
    <3>3. QED
      BY <2>5, <2>6, <3>1, <3>2
  <2>8. PutsIn(c, q, n, x)
    <3>1. /\ s[n] \in Item /\ s[n] # x
          /\ next' = [next EXCEPT ![x] = next[s[n]], ![s[n]] = x]
      BY <1>1, <1>4, <1>7, <2>4
    <3>2. \A y \in Item : next'[y] = IF y = x THEN next[s[n]]
                                     ELSE IF y = s[n] THEN x ELSE next[y]
      BY <3>1 DEF LinksTypeOK
    <3>3. \A p \in Queue : first'[p] = IF p = q /\ n = 0 THEN x ELSE first[p]
      BY <1>7, <2>4
    <3>4. QED
      BY <1>5, <2>4, <3>2, <3>3 DEF PutsIn
  <2>9. QED
    BY <2>4, <2>7, <2>8
<1>8. QED
  BY <1>6, <1>7 DEF InsertSorted

\* A sleep: x joins where the queue stays sorted.
LEMMA SleepKeepsShape ==
    ASSUME LinksTypeOK, NEW c \in [Queue -> Seq(Item)], Shape(c),
           NEW x \in Item, NEW k \in Key, InsertSorted(x, k)
    PROVE  /\ LinksTypeOK'
           /\ \A p \in Queue : ~Has(c[p], x)
           /\ key' = [key EXCEPT ![x] = k]
           /\ \E n \in 0..Len(c[SleepQueue]) : \E d :
                /\ \A j \in 1..Len(c[SleepQueue]) :
                      j <= n <=> key[c[SleepQueue][j]] < k
                /\ Becomes(c, d, SleepQueue, InsertAt(c[SleepQueue], n, x))
                /\ Shape(d)'
<1> DEFINE q == SleepQueue
           s == c[q]
<1>1. /\ inQueue[x] = NIL /\ last' = last
      /\ key' = [key EXCEPT ![x] = k] /\ inQueue' = [inQueue EXCEPT ![x] = q]
      /\ q \in Queue /\ s \in Seq(Item)
  BY QueueAssumption DEF InsertSorted
<1>2. PICK n \in 0..Len(s) :
        /\ PutsIn(c, q, n, x)
        /\ \A j \in 1..Len(s) : j <= n <=> key[s[j]] < k
  BY SearchFacts
<1>3. PICK d : Becomes(c, d, q, InsertAt(s, n, x)) /\ LinksShow(d)' /\ BackPointersShow(d)'
  BY <1>1, <1>2, PutInKeepsLinks
<1>4. /\ Len(s) \in Nat /\ \A i \in 1..Len(s) : s[i] \in Item
      /\ \A p \in Queue : ~Has(c[p], x)
      /\ \A i \in 1..Len(s) : s[i] # x
  <2>1. Len(s) \in Nat /\ \A i \in 1..Len(s) : s[i] \in Item
    BY <1>1, LenProperties, ElementOfSeq
  <2>2. \A p \in Queue : ~Has(c[p], x)
    BY <1>1, InOneQueue DEF Shape
  <2>3. \A i \in 1..Len(s) : s[i] # x
    BY <1>1, <2>2 DEF Has
  <2>4. QED
    BY <2>1, <2>2, <2>3
<1>5. \A y \in Item : key'[y] = IF y = x THEN k ELSE key[y]
  BY <1>1 DEF LinksTypeOK
<1>6. LinksTypeOK'
  <2>1. /\ \A p \in Queue : first'[p] \in Item \cup {NIL}
        /\ \A y \in Item : next'[y] \in Item \cup {NIL}
    <3>1. n # 0 => s[n] \in Item
      BY <1>4
    <3>2. QED
      BY <1>1, <1>2, <3>1 DEF PutsIn, LinksTypeOK
  <2>2. \E f \in [Queue -> Item \cup {NIL}] : first' = f
    BY <2>1 DEF InsertSorted, LinksTypeOK
  <2>3. \E f \in [Item -> Item \cup {NIL}] : next' = f
    <3>1. DOMAIN next' = Item /\ next' = [y \in DOMAIN next' |-> next'[y]]
      BY DEF InsertSorted, LinksTypeOK
    <3>2. QED
      BY <2>1, <3>1
  <2>4. QED
    BY <1>1, <2>2, <2>3 DEF LinksTypeOK
<1>7. LastShows(d)'
  <2>1. \A p \in Queue \ {SleepQueue} : d[p] = c[p]
    BY <1>3 DEF Becomes
  <2>2. QED
    BY <1>1, <2>1 DEF Shape, LastShows
<1>8. Sorted(d)'
  <2> DEFINE r == InsertAt(s, n, x)
  <2>1. d[q] = r
    BY <1>1, <1>3 DEF Becomes
  <2>2. /\ Len(r) = Len(s) + 1 /\ n \in Nat /\ n <= Len(s)
        /\ \A i \in 1..Len(r) :
             r[i] = IF i <= n THEN s[i] ELSE IF i = n + 1 THEN x ELSE s[i - 1]
    <3>1. n \in Nat /\ n <= Len(s) /\ s \in Seq(Item) /\ n \in 0..Len(s)
      BY <1>1, <1>2, <1>4
    <3> HIDE DEF s
    <3>2. /\ Len(InsertAt(s, n, x)) = Len(s) + 1
          /\ \A i \in 1..(Len(s) + 1) :
               InsertAt(s, n, x)[i] =
                  IF i <= n THEN s[i] ELSE IF i = n + 1 THEN x ELSE s[i - 1]
      BY <3>1, InsertAtItems
    <3> HIDE DEF r
    <3>3. r = InsertAt(s, n, x)
      BY DEF r
    <3>4. QED
      BY <3>1, <3>2, <3>3
  <2>3. /\ \A i, j \in 1..Len(s) : i < j => key[s[i]] <= key[s[j]]
        /\ \A i \in 1..Len(s) : key[s[i]] \in Nat /\ key'[s[i]] = key[s[i]]
        /\ key'[x] = k /\ k \in Nat
    BY <1>4, <1>5, QueueAssumption DEF LinksTypeOK, Shape, Sorted
  <2> HIDE DEF r
  <2>4. ASSUME NEW i \in 1..Len(r), NEW j \in 1..Len(r), i < j
        PROVE  key'[r[i]] <= key'[r[j]]
    <3>1. i \in Nat /\ j \in Nat /\ 1 <= i /\ j <= Len(s) + 1
      BY <1>4, <2>2
    <3> HIDE DEF s, q
    <3>2. CASE j <= n
      <4>1. i \in 1..Len(s) /\ j \in 1..Len(s) /\ r[i] = s[i] /\ r[j] = s[j]
        BY <1>4, <2>2, <2>4, <3>1, <3>2
      <4>2. QED
        BY <2>3, <2>4, <4>1
    <3>3. CASE j = n + 1
      <4>1. i \in 1..Len(s) /\ i <= n /\ r[i] = s[i] /\ r[j] = x
        BY <1>4, <2>2, <2>4, <3>1, <3>3
      <4>2. key[s[i]] < k
        BY <1>2, <4>1
      <4>3. QED
        BY <2>3, <4>1, <4>2
    <3>4. CASE j > n + 1
      <4>1. j - 1 \in 1..Len(s) /\ ~(j - 1 <= n) /\ r[j] = s[j - 1]
        BY <1>4, <2>2, <2>4, <3>1, <3>4
      <4>2. ~(key[s[j - 1]] < k)
        BY <1>2, <4>1
      <4>3. CASE i = n + 1
        <5>1. r[i] = x
          BY <2>2, <3>1, <4>3
        <5>2. QED
          BY <2>3, <4>1, <4>2, <5>1
      <4>4. CASE i <= n
        <5>1. i \in 1..Len(s) /\ i < j - 1 /\ r[i] = s[i]
          BY <1>4, <2>2, <3>1, <3>4, <4>4
        <5>2. QED
          BY <2>3, <4>1, <5>1
      <4>5. CASE i > n + 1
        <5>1. i - 1 \in 1..Len(s) /\ i - 1 < j - 1 /\ r[i] = s[i - 1]
          BY <1>4, <2>2, <2>4, <3>1, <4>5
        <5>2. QED
          BY <2>3, <4>1, <5>1
      <4>6. QED
        BY <2>2, <3>1, <4>3, <4>4, <4>5
    <3>5. QED
      BY <2>2, <3>1, <3>2, <3>3, <3>4
  <2>5. QED
    BY <2>1, <2>4 DEF Sorted
<1>9. Shape(d)'
  BY <1>3, <1>7, <1>8 DEF Shape
<1>10. QED
  BY <1>1, <1>2, <1>3, <1>4, <1>6, <1>9

-----------------------------------------------------------------------------

LEMMA QueueStart == QueueInit => QueueInv
<1> SUFFICES ASSUME QueueInit PROVE QueueInv
  OBVIOUS
<1> DEFINE c == [q \in Queue |-> <<>>]
<1>1. LinksTypeOK
  BY DEF QueueInit, LinksTypeOK
<1>2. c \in [Queue -> Seq(Item)] /\ \A q \in Queue : c[q] = <<>> /\ Len(c[q]) = 0
  OBVIOUS
<1> HIDE DEF c
<1>3. LinksShow(c) /\ LastShows(c)
  BY <1>2, QueueAssumption DEF QueueInit, LinksShow, Links, LastShows
<1>4. BackPointersShow(c)
  BY <1>2, QueueAssumption DEF QueueInit, BackPointersShow, Has
<1>5. Sorted(c)
  BY <1>2, QueueAssumption DEF Sorted
<1>6. QED
  BY <1>1, <1>2, <1>3, <1>4, <1>5 DEF QueueInv, Shape

LEMMA QueueStep == QueueInv /\ [QueueNext]_queueVars => QueueInv'
<1> SUFFICES ASSUME QueueInv, [QueueNext]_queueVars PROVE QueueInv'
  OBVIOUS
<1>1. PICK c \in [Queue -> Seq(Item)] : Shape(c)
  BY DEF QueueInv
<1>2. LinksTypeOK
  BY DEF QueueInv
<1>3. CASE UNCHANGED queueVars
  <2>1. Shape(c)' /\ LinksTypeOK'
    BY <1>1, <1>2, <1>3
    DEF queueVars, Shape, LinksShow, BackPointersShow, LastShows, Sorted, LinksTypeOK
  <2>2. QED
    BY <2>1 DEF QueueInv
<1>4. ASSUME NEW q \in Queue, NEW x \in Item, Enqueue(q, x) PROVE QueueInv'
  <2>1. PICK d : Becomes(c, d, q, Append(c[q], x)) /\ Shape(d)' /\ LinksTypeOK'
    BY <1>1, <1>2, <1>4, JoinKeepsShape
  <2>2. QED
    BY <2>1 DEF QueueInv, Becomes
<1>5. ASSUME NEW q \in Queue, NEW x \in Item, EnqueueAgain(q, x) PROVE QueueInv'
  BY <1>1, <1>2, <1>3, <1>5, AgainChangesNothing
<1>6. ASSUME NEW q \in Queue, Dequeue(q) PROVE QueueInv'
  <2>1. PICK d : Becomes(c, d, q, Tail(c[q])) /\ Shape(d)' /\ LinksTypeOK'
    BY <1>1, <1>2, <1>6, LeaveKeepsShape
  <2>2. QED
    BY <2>1 DEF QueueInv, Becomes
<1>7. ASSUME NEW x \in Item, NEW k \in Key, InsertSorted(x, k) PROVE QueueInv'
  <2>1. PICK n \in 0..Len(c[SleepQueue]) :
           \E d : Becomes(c, d, SleepQueue, InsertAt(c[SleepQueue], n, x))
                   /\ Shape(d)' /\ LinksTypeOK'
    BY <1>1, <1>2, <1>7, SleepKeepsShape
  <2>2. QED
    BY <2>1 DEF QueueInv, Becomes
<1>8. QED
  BY <1>3, <1>4, <1>5, <1>6, <1>7 DEF QueueNext

\* The invariant that the theorems below rest on.
THEOREM QueueInvariance == QueueSpec => []QueueInv
<1>1. QED
  BY QueueStart, QueueStep, PTL DEF QueueSpec

\* in_queue and last agree with the links after any sequence of enqueues,
\* dequeues and sorted insertions, whatever stale links the items start with
\* and keep from the queues they left (core/sched.c).
THEOREM PointersAgree == QueueSpec => []BackPointersAgree
<1>1. QueueInv => BackPointersAgree
  <2> SUFFICES ASSUME QueueInv PROVE BackPointersAgree
    OBVIOUS
  <2>1. PICK c \in [Queue -> Seq(Item)] : Shape(c)
    BY DEF QueueInv
  <2>2. ASSUME NEW q \in Queue
        PROVE  Length(q) = Len(c[q]) /\ \A i \in 1..Length(q) : Nth(q)[i] = c[q][i]
    <3> DEFINE f == first[q]
               nx == next
               s == c[q]
    <3>1. s \in Seq(Item) /\ Links(f, nx, s)
      BY <2>1 DEF Shape, LinksShow
    <3>2. Length(q) = WalkLength(f, nx) /\ Nth(q) = Walk(f, nx)
      BY ContentsAreWalked, NthIsWalk
    <3> HIDE DEF f, nx, s
    <3>3. Length(q) = Len(s)
      BY <3>1, <3>2, LinksDetermine
    <3>4. /\ Len(s) \in Nat /\ Cardinality(Item) \in Nat /\ Len(s) <= Cardinality(Item)
          /\ \A i \in 1..Cardinality(Item) : Nth(q)[i] = IF i <= Len(s) THEN s[i] ELSE NIL
      BY <3>1, <3>2, WalkFacts
    <3>5. \A i \in 1..Length(q) : Nth(q)[i] = s[i]
      BY <3>3, <3>4
    <3>6. QED
      BY <3>3, <3>5 DEF s
  <2>3. \A q \in Queue, x \in Item :
           inQueue[x] = q <=> \E i \in 1..Length(q) : Nth(q)[i] = x
    BY <2>1, <2>2 DEF Shape, BackPointersShow, Has
  <2>4. /\ \A q \in Queue \ {SleepQueue} :
             last[q] = IF Length(q) = 0 THEN NIL ELSE Nth(q)[Length(q)]
        /\ last[SleepQueue] = NIL
    <3>1. \A q \in Queue : Len(c[q]) # 0 => Len(c[q]) \in 1..Len(c[q])
      BY LenProperties
    <3>2. QED
      BY <2>1, <2>2, <3>1 DEF Shape, LastShows
  <2>5. QED
    BY <2>3, <2>4 DEF BackPointersAgree
<1>2. QED
  BY <1>1, QueueInvariance, PTL

-----------------------------------------------------------------------------
(* The queues implement Fifo.                                              *)

AbsContents == [q \in Queue |-> Contents(q)]

LEMMA ShapeGivesContents ==
    ASSUME NEW c \in [Queue -> Seq(Item)]
    PROVE  /\ Shape(c) => AbsContents = c
           /\ Shape(c)' => AbsContents' = c
<1>1. ASSUME Shape(c) PROVE AbsContents = c
  <2>1. ASSUME NEW q \in Queue PROVE Contents(q) = c[q]
    <3> DEFINE f == first[q]
               nx == next
               s == c[q]
    <3>1. s \in Seq(Item) /\ Links(f, nx, s) /\ Contents(q) = WalkContents(f, nx)
      BY <1>1, ContentsAreWalked DEF Shape, LinksShow
    <3> HIDE DEF f, nx, s
    <3>2. Contents(q) = s
      BY <3>1, LinksDetermine
    <3>3. QED
      BY <3>2 DEF s
  <2>2. QED
    BY <2>1 DEF AbsContents
<1>2. ASSUME Shape(c)' PROVE AbsContents' = c
  <2>1. ASSUME NEW q \in Queue PROVE Contents(q)' = c[q]
    <3> DEFINE f == first'[q]
               nx == next'
               s == c[q]
    <3>1. s \in Seq(Item) /\ Links(f, nx, s) /\ Contents(q)' = WalkContents(f, nx)
      BY <1>2, ContentsAreWalked DEF Shape, LinksShow
    <3> HIDE DEF f, nx, s
    <3>2. Contents(q)' = s
      BY <3>1, LinksDetermine
    <3>3. QED
      BY <3>2 DEF s
  <2>2. QED
    BY <2>1 DEF AbsContents
<1>3. QED
  BY <1>1, <1>2

LEMMA StepIsFifo ==
    ASSUME QueueInv, [QueueNext]_queueVars
    PROVE  [Abstract!FifoNext]_<<AbsContents, key>>
<1>1. PICK c \in [Queue -> Seq(Item)] : Shape(c)
  BY DEF QueueInv
<1>2. LinksTypeOK
  BY DEF QueueInv
<1>3. AbsContents = c
  BY <1>1, ShapeGivesContents
<1>4. ASSUME NEW d, NEW q \in Queue, NEW r, Becomes(c, d, q, r), Shape(d)'
      PROVE  AbsContents' = [c EXCEPT ![q] = r]
  <2>1. d \in [Queue -> Seq(Item)] /\ d = [c EXCEPT ![q] = r]
    BY <1>4 DEF Becomes
  <2>2. QED
    BY <1>4, <2>1, ShapeGivesContents
<1>5. ASSUME NEW x \in Item, \A p \in Queue : ~Has(c[p], x)
      PROVE  ~Abstract!Queued(x)
  <2>1. \A p \in Queue : DOMAIN c[p] = 1..Len(c[p])
    BY LenProperties
  <2>2. QED
    BY <1>3, <1>5, <2>1 DEF Abstract!Queued, Has, AbsContents
<1>6. CASE UNCHANGED queueVars
  <2>1. AbsContents' = AbsContents /\ key' = key
    BY <1>6 DEF queueVars, AbsContents, Contents, Length, Nth
  <2>2. QED
    BY <2>1
<1>7. ASSUME NEW q \in Queue, NEW x \in Item, Enqueue(q, x) PROVE Abstract!FifoNext
  <2>1. PICK d : /\ q # SleepQueue /\ \A p \in Queue : ~Has(c[p], x)
                 /\ Becomes(c, d, q, Append(c[q], x)) /\ Shape(d)'
    BY <1>1, <1>2, <1>7, JoinKeepsShape
  <2>2. AbsContents' = [AbsContents EXCEPT ![q] = Append(@, x)]
    BY <1>3, <1>4, <2>1
  <2>3. ~Abstract!Queued(x) /\ key' = key
    BY <1>5, <1>7, <2>1 DEF Enqueue, EnqueueWrites
  <2>4. Abstract!Join(q, x)
    BY <2>1, <2>2, <2>3 DEF Abstract!Join, AbsContents
  <2>5. QED
    BY <2>4 DEF Abstract!FifoNext
<1>8. ASSUME NEW q \in Queue, NEW x \in Item, EnqueueAgain(q, x)
      PROVE  UNCHANGED <<AbsContents, key>>
  <2>1. UNCHANGED queueVars
    BY <1>1, <1>2, <1>8, AgainChangesNothing
  <2>2. QED
    BY <2>1 DEF queueVars, AbsContents, Contents, Length, Nth
<1>9. ASSUME NEW q \in Queue, Dequeue(q) PROVE Abstract!FifoNext
  <2>1. PICK d : c[q] # <<>> /\ Becomes(c, d, q, Tail(c[q])) /\ Shape(d)'
    BY <1>1, <1>2, <1>9, LeaveKeepsShape
  <2>2. AbsContents' = [AbsContents EXCEPT ![q] = Tail(@)]
    BY <1>3, <1>4, <2>1
  <2>3. AbsContents[q] # <<>> /\ key' = key
    BY <1>3, <1>9, <2>1 DEF Dequeue
  <2>4. Abstract!Leave(q)
    BY <2>2, <2>3 DEF Abstract!Leave, AbsContents
  <2>5. QED
    BY <2>4 DEF Abstract!FifoNext
<1>10. ASSUME NEW x \in Item, NEW k \in Key, InsertSorted(x, k) PROVE Abstract!FifoNext
  <2> DEFINE s == c[SleepQueue]
  <2>1. PICK n \in 0..Len(s) : \E d :
          /\ \A p \in Queue : ~Has(c[p], x)
          /\ key' = [key EXCEPT ![x] = k]
          /\ \A j \in 1..Len(s) : j <= n <=> key[s[j]] < k
          /\ Becomes(c, d, SleepQueue, InsertAt(s, n, x)) /\ Shape(d)'
    BY <1>1, <1>2, <1>10, SleepKeepsShape
  <2>2. PICK d :
          /\ \A p \in Queue : ~Has(c[p], x)
          /\ key' = [key EXCEPT ![x] = k]
          /\ \A j \in 1..Len(s) : j <= n <=> key[s[j]] < k
          /\ Becomes(c, d, SleepQueue, InsertAt(s, n, x)) /\ Shape(d)'
    BY <2>1
  <2>3. AbsContents' = [AbsContents EXCEPT ![SleepQueue] =
                          SubSeq(s, 1, n) \o <<x>> \o SubSeq(s, n + 1, Len(s))]
    BY <1>3, <1>4, <2>2, QueueAssumption DEF InsertAt
  <2>4. ~Abstract!Queued(x) /\ s = AbsContents[SleepQueue]
    BY <1>3, <1>5, <2>2
  <2>5. Abstract!JoinSorted(x, k)
    BY <2>2, <2>3, <2>4 DEF Abstract!JoinSorted, AbsContents
  <2>6. QED
    BY <2>5 DEF Abstract!FifoNext
<1>11. QED
  BY <1>6, <1>7, <1>8, <1>9, <1>10 DEF QueueNext

\* ImplementsFifo: to their users the linked queues of core/sched.c are the
\* sequences of Fifo, first come first served, and the sleep queue is sorted.
THEOREM QueuesAreFifo == QueueSpec => ImplementsFifo
<1>1. QueueInit => Abstract!FifoInit
  <2> SUFFICES ASSUME QueueInit PROVE Abstract!FifoInit
    OBVIOUS
  <2> DEFINE c == [q \in Queue |-> <<>>]
  <2>1. PICK b \in [Queue -> Seq(Item)] : Shape(b)
    BY QueueStart DEF QueueInv
  <2>2. AbsContents = b
    BY <2>1, ShapeGivesContents
  <2>3. ASSUME NEW q \in Queue PROVE b[q] = <<>>
    <3>1. b[q] \in Seq(Item) /\ Links(NIL, next, b[q])
      BY <2>1 DEF Shape, LinksShow, QueueInit
    <3>2. Len(b[q]) = 0
      <4>1. Len(b[q]) \in Nat /\ (Len(b[q]) # 0 => b[q][1] \in Item)
        BY <3>1, LenProperties, ElementOfSeq
      <4>2. QED
        BY <3>1, <4>1, QueueAssumption DEF Links
    <3>3. QED
      BY <3>1, <3>2, EmptySeq
  <2>4. AbsContents = c
    BY <2>2, <2>3
  <2>5. QED
    BY <2>4 DEF Abstract!FifoInit, AbsContents, QueueInit
<1>2. QueueInv /\ [QueueNext]_queueVars => [Abstract!FifoNext]_<<AbsContents, key>>
  BY StepIsFifo
<1>3. QED
  BY <1>1, <1>2, QueueInvariance, PTL
  DEF QueueSpec, ImplementsFifo, Abstract!FifoSpec, AbsContents
==============================================================================
