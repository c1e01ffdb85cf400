---------------------------- MODULE RwLockProofs -----------------------------
(***************************************************************************)
(* Proofs about module RwLock, for any set of threads.                     *)
(*                                                                         *)
(* The right to the lock passes through wake-ups: a releasing thread gives *)
(* it to threads that have yet to run.  What is inductive is therefore     *)
(* said of ReadersIn and WritersIn, which have the woken threads as well   *)
(* as those whose acquire has returned.                                    *)
(***************************************************************************)
EXTENDS RwLock, DispatchProofs, FiniteSetTheorems

\* Who has the lock, or was given it and will return with it; and the threads
\* that the counter of writers stands for.
ReadersIn == With("read") \cup Woke("wantRead")
WritersIn == With("write") \cup Woke("wantWrite")
AllWriters == With("write") \cup With("wantWrite")

TypeOK ==
    /\ DispatchTypeOK
    /\ readers \in Nat /\ writers \in Nat
    /\ readq \in Seq(Thread) /\ writeq \in Seq(Thread)
    /\ mode \in [Thread -> Mode]
    /\ crashed = "no"

\* A thread is blocked exactly while it is, once, in the queue of its kind.
QueuesMatch ==
    /\ \A t \in Thread :
         /\ InSeq(readq, t) <=> mode[t] = "wantRead" /\ status[t] = "BLOCKING"
         /\ InSeq(writeq, t) <=> mode[t] = "wantWrite" /\ status[t] = "BLOCKING"
         /\ status[t] = "BLOCKING" => mode[t] \in {"wantRead", "wantWrite"}
    /\ \A i, j \in 1..Len(readq) : readq[i] = readq[j] => i = j
    /\ \A i, j \in 1..Len(writeq) : writeq[i] = writeq[j] => i = j

\* At most one writer is in, and no readers beside it.
Excluded ==
    /\ \A t, u \in WritersIn : t = u
    /\ WritersIn # {} => ReadersIn = {}

Counted ==
    /\ IsFiniteSet(ReadersIn) /\ readers = Cardinality(ReadersIn)
    /\ IsFiniteSet(AllWriters) /\ writers = Cardinality(AllWriters)

\* Waiters wait for somebody who is in.
SomeoneIn ==
    /\ writeq # <<>> => ReadersIn \cup WritersIn # {}
    /\ readq # <<>> => AllWriters # {}

Inv == TypeOK /\ QueuesMatch /\ Excluded /\ Counted /\ SomeoneIn

-----------------------------------------------------------------------------
(* Counting.                                                               *)

\* A queue without repetitions is as long as the set of its members is large.
LEMMA QueueCardinality ==
    ASSUME NEW q \in Seq(Thread),
           \A i, j \in 1..Len(q) : q[i] = q[j] => i = j
    PROVE  IsFiniteSet(Elements(q)) /\ Cardinality(Elements(q)) = Len(q)
<1> DEFINE f == [i \in 1..Len(q) |-> q[i]]
<1>1. Len(q) \in Nat
  OBVIOUS
<1>2. f \in Bijection(1..Len(q), Elements(q))
  BY DEF Elements, Bijection, Injection, Surjection, IsInjective
<1>3. IsFiniteSet(1..Len(q)) /\ Cardinality(1..Len(q)) = Len(q)
  <2>1. /\ IsFiniteSet(1..Len(q))
        /\ Cardinality(1..Len(q)) = IF 1 > Len(q) THEN 0 ELSE Len(q) - 1 + 1
    BY <1>1, FS_Interval
  <2>2. QED
    BY <1>1, <2>1
<1>4. QED
  BY <1>2, <1>3, FS_Bijection DEF ExistsBijection

\* A counter at zero says that there is nobody.
LEMMA NoneCounted ==
    ASSUME Inv
    PROVE  /\ readers = 0 <=> ReadersIn = {}
           /\ writers = 0 <=> AllWriters = {}
           /\ WritersIn \subseteq AllWriters
  BY FS_EmptySet DEF Inv, Counted, WritersIn, AllWriters, Woke

-----------------------------------------------------------------------------
(* The inductive invariant.                                                *)

\* Nobody is in, nobody waits.
LEMMA InvInit == Init => Inv
<1> SUFFICES ASSUME Init PROVE Inv
  OBVIOUS
<1>1. TypeOK
  BY DispatchAssumption DEF Init, TypeOK, DispatchTypeOK, Status, Waiting, Mode
<1>2. ReadersIn = {} /\ WritersIn = {} /\ AllWriters = {}
  BY DEF Init, ReadersIn, WritersIn, AllWriters, With, Woke
<1>3. QueuesMatch
  BY DEF Init, QueuesMatch, InSeq
<1>4. Counted
  BY <1>2, FS_EmptySet DEF Init, Counted
<1>5. QED
  BY <1>1, <1>2, <1>3, <1>4 DEF Init, Inv, Excluded, SomeoneIn

\* A thread that joins those who are in, or leaves them, and wakes nobody:
\* what the queues and the statuses say is not touched.
LEMMA QueuesUntouched ==
    ASSUME Inv, NEW t \in Thread, current = t, NEW m \in Mode,
           m \notin {"wantRead", "wantWrite"},
           mode' = [mode EXCEPT ![t] = m],
           UNCHANGED <<current, status, readq, writeq>>
    PROVE  QueuesMatch' /\ DispatchTypeOK' /\ mode' \in [Thread -> Mode]
<1>1. mode \in [Thread -> Mode] /\ status[t] # "BLOCKING" /\ DispatchTypeOK
  BY DEF Inv, TypeOK, DispatchTypeOK
<1>2. DispatchTypeOK'
  BY <1>1 DEF DispatchTypeOK
<1>3. ASSUME NEW u \in Thread
      PROVE  /\ (InSeq(readq, u) <=> mode[u] = "wantRead" /\ status[u] = "BLOCKING")'
             /\ (InSeq(writeq, u) <=> mode[u] = "wantWrite" /\ status[u] = "BLOCKING")'
             /\ (status[u] = "BLOCKING" => mode[u] \in {"wantRead", "wantWrite"})'
  <2>1. CASE u = t
    BY <1>1, <2>1 DEF Inv, QueuesMatch, InSeq
  <2>2. CASE u # t
    BY <1>1, <2>2 DEF Inv, QueuesMatch, InSeq
  <2>3. QED
    BY <2>1, <2>2
<1>4. QED
  BY <1>1, <1>2, <1>3 DEF Inv, QueuesMatch

\* A reader comes in, no writer being counted.
LEMMA InvReadEnter ==
    ASSUME Inv, NEW t \in Thread, ReadEnter(t)
    PROVE  Inv'
<1>1. /\ current = t /\ mode[t] = "none" /\ writers = 0 /\ crashed = "no"
      /\ readers' = readers + 1 /\ mode' = [mode EXCEPT ![t] = "read"]
      /\ UNCHANGED <<current, status, writers, readq, writeq, crashed>>
  BY DEF ReadEnter, At, dispatchVars
<1>2. mode \in [Thread -> Mode] /\ readers \in Nat
  BY DEF Inv, TypeOK
<1>3. QueuesMatch' /\ DispatchTypeOK' /\ mode' \in [Thread -> Mode]
  BY <1>1, QueuesUntouched DEF Mode
<1>4. /\ ReadersIn' = ReadersIn \cup {t} /\ t \notin ReadersIn
      /\ AllWriters' = AllWriters /\ WritersIn' = WritersIn
  BY <1>1, <1>2 DEF ReadersIn, AllWriters, WritersIn, With, Woke
<1>5. AllWriters = {} /\ WritersIn = {}
  BY <1>1, NoneCounted
<1>6. TypeOK'
  BY <1>1, <1>2, <1>3 DEF Inv, TypeOK
<1>7. Counted'
  BY <1>1, <1>4, FS_AddElement DEF Inv, Counted
<1>8. QED
  BY <1>1, <1>3, <1>4, <1>5, <1>6, <1>7 DEF Inv, Excluded, SomeoneIn

\* A writer comes in, nobody being counted.
LEMMA InvWriteEnter ==
    ASSUME Inv, NEW t \in Thread, WriteEnter(t)
    PROVE  Inv'
<1>1. /\ current = t /\ mode[t] = "none" /\ writers = 0 /\ readers = 0
      /\ crashed = "no" /\ writers' = 1 /\ mode' = [mode EXCEPT ![t] = "write"]
      /\ UNCHANGED <<current, status, readers, readq, writeq, crashed>>
  BY DEF WriteEnter, At, dispatchVars
<1>2. mode \in [Thread -> Mode]
  BY DEF Inv, TypeOK
<1>3. QueuesMatch' /\ DispatchTypeOK' /\ mode' \in [Thread -> Mode]
  BY <1>1, QueuesUntouched DEF Mode
<1>4. /\ ReadersIn' = ReadersIn
      /\ AllWriters' = AllWriters \cup {t} /\ t \notin AllWriters
      /\ WritersIn' = WritersIn \cup {t}
  BY <1>1, <1>2 DEF ReadersIn, AllWriters, WritersIn, With, Woke
<1>5. AllWriters = {} /\ WritersIn = {} /\ ReadersIn = {}
  BY <1>1, NoneCounted
<1>6. TypeOK'
  BY <1>1, <1>2, <1>3 DEF Inv, TypeOK
<1>7. Counted'
  <2>1. AllWriters' = {t}
    BY <1>4, <1>5
  <2>2. IsFiniteSet({t}) /\ Cardinality({t}) = 1
    BY FS_Singleton
  <2>3. QED
    BY <1>1, <1>4, <2>1, <2>2 DEF Inv, Counted
<1>8. QED
  BY <1>1, <1>3, <1>4, <1>5, <1>6, <1>7 DEF Inv, Excluded, SomeoneIn

\* The woken thread returns from its acquire: it was in already.
LEMMA InvAcquireReturn ==
    ASSUME Inv, NEW t \in Thread, AcquireReturn(t)
    PROVE  Inv'
<1> DEFINE m == IF mode[t] = "wantRead" THEN "read" ELSE "write"
<1>1. /\ current = t /\ mode[t] \in {"wantRead", "wantWrite"}
      /\ mode' = [mode EXCEPT ![t] = m]
      /\ UNCHANGED <<current, status, readers, writers, readq, writeq, crashed>>
  BY DEF AcquireReturn, At, dispatchVars, lockVars
<1>2. mode \in [Thread -> Mode] /\ status[t] # "BLOCKING"
  BY <1>1 DEF Inv, TypeOK, DispatchTypeOK
<1>3. QueuesMatch' /\ DispatchTypeOK' /\ mode' \in [Thread -> Mode]
  BY <1>1, QueuesUntouched DEF Mode
<1>4. /\ ReadersIn' = ReadersIn
      /\ AllWriters' = AllWriters /\ WritersIn' = WritersIn
  BY <1>1, <1>2 DEF ReadersIn, AllWriters, WritersIn, With, Woke
<1>5. TypeOK'
  BY <1>1, <1>2, <1>3 DEF Inv, TypeOK
<1>6. QED
  BY <1>1, <1>3, <1>4, <1>5 DEF Inv, Excluded, SomeoneIn, Counted

\* A tick.
LEMMA InvPreempt ==
    ASSUME Inv, Preempt
    PROVE  Inv'
<1>1. /\ PreemptSwitch
      /\ UNCHANGED <<readers, writers, readq, writeq, mode, crashed>>
  BY DEF Preempt, lockVars
<1>2. /\ DispatchTypeOK'
      /\ \A u \in Thread : status'[u] = "BLOCKING" <=> status[u] = "BLOCKING"
  BY <1>1, PreemptFacts DEF Inv, TypeOK
<1>3. /\ ReadersIn' = ReadersIn
      /\ AllWriters' = AllWriters /\ WritersIn' = WritersIn
  BY <1>1, <1>2 DEF ReadersIn, AllWriters, WritersIn, With, Woke
<1>4. TypeOK' /\ QueuesMatch'
  BY <1>1, <1>2 DEF Inv, TypeOK, QueuesMatch, InSeq
<1>5. QED
  BY <1>1, <1>3, <1>4 DEF Inv, Excluded, SomeoneIn, Counted

\* A reader queues behind a writer.
LEMMA InvReadBlock ==
    ASSUME Inv, NEW t \in Thread, ReadBlock(t)
    PROVE  Inv'
<1>1. /\ current = t /\ mode[t] = "none" /\ writers # 0
      /\ readq' = Append(readq, t) /\ mode' = [mode EXCEPT ![t] = "wantRead"]
      /\ BlockSwitch(t, {})
      /\ UNCHANGED <<readers, writers, writeq, crashed>>
  BY DEF ReadBlock, At
<1>2. /\ mode \in [Thread -> Mode] /\ readq \in Seq(Thread)
      /\ ~InSeq(readq, t) /\ ~InSeq(writeq, t)
  BY <1>1 DEF Inv, TypeOK, QueuesMatch
<1>3. /\ DispatchTypeOK'
      /\ \A u \in Thread :
           status'[u] = "BLOCKING" <=> u = t \/ status[u] = "BLOCKING"
  BY <1>1, BlockFacts DEF Inv, TypeOK
<1>4. /\ readq' \in Seq(Thread) /\ readq' # <<>>
      /\ \A u \in Thread : InSeq(readq, u)' <=> InSeq(readq, u) \/ u = t
      /\ \A i, j \in 1..Len(readq') : readq'[i] = readq'[j] => i = j
  <2>1. \A i \in 1..Len(readq) : readq[i] # t
    BY <1>2 DEF InSeq
  <2>2. \A i, j \in 1..Len(readq) : readq[i] = readq[j] => i = j
    BY DEF Inv, QueuesMatch
  <2>3. \A u \in Thread : InSeq(readq, u)' <=> InSeq(readq, u) \/ u = t
    BY <1>1, <1>2, AppendMembers DEF InSeq
  <2>4. \A i, j \in 1..Len(readq') : readq'[i] = readq'[j] => i = j
    BY <1>1, <1>2, <2>1, <2>2, AppendOnce
  <2>5. QED
    BY <1>1, <1>2, <2>3, <2>4, AppendFacts
<1>5. /\ ReadersIn' = ReadersIn
      /\ AllWriters' = AllWriters /\ WritersIn' = WritersIn
  BY <1>1, <1>2, <1>3 DEF ReadersIn, AllWriters, WritersIn, With, Woke
<1>6. TypeOK'
  BY <1>1, <1>2, <1>3, <1>4 DEF Inv, TypeOK, Mode
<1>7. QueuesMatch'
  <2>1. ASSUME NEW u \in Thread
        PROVE  /\ (InSeq(readq, u) <=> mode[u] = "wantRead" /\ status[u] = "BLOCKING")'
               /\ (InSeq(writeq, u) <=> mode[u] = "wantWrite" /\ status[u] = "BLOCKING")'
               /\ (status[u] = "BLOCKING" => mode[u] \in {"wantRead", "wantWrite"})'
    <3>1. mode'[u] = IF u = t THEN "wantRead" ELSE mode[u]
      BY <1>1, <1>2
    <3>2. InSeq(writeq, u)' <=> InSeq(writeq, u)
      BY <1>1 DEF InSeq
    <3>3. QED
      BY <1>2, <1>3, <1>4, <3>1, <3>2 DEF Inv, QueuesMatch
  <2>2. QED
    BY <1>1, <1>4, <2>1 DEF Inv, QueuesMatch
<1>8. AllWriters # {}
  BY <1>1, NoneCounted
<1>9. QED
  BY <1>1, <1>5, <1>6, <1>7, <1>8 DEF Inv, Excluded, SomeoneIn, Counted

\* A writer counts itself and queues behind whoever is in.
LEMMA InvWriteBlock ==
    ASSUME Inv, NEW t \in Thread, WriteBlock(t)
    PROVE  Inv'
<1>1. /\ current = t /\ mode[t] = "none" /\ ~(writers = 0 /\ readers = 0)
      /\ writers' = writers + 1
      /\ writeq' = Append(writeq, t) /\ mode' = [mode EXCEPT ![t] = "wantWrite"]
      /\ BlockSwitch(t, {})
      /\ UNCHANGED <<readers, readq, crashed>>
  BY DEF WriteBlock, At
<1>2. /\ mode \in [Thread -> Mode] /\ writeq \in Seq(Thread) /\ writers \in Nat
      /\ ~InSeq(readq, t) /\ ~InSeq(writeq, t)
  BY <1>1 DEF Inv, TypeOK, QueuesMatch
<1>3. /\ DispatchTypeOK'
      /\ \A u \in Thread :
           status'[u] = "BLOCKING" <=> u = t \/ status[u] = "BLOCKING"
  BY <1>1, BlockFacts DEF Inv, TypeOK
<1>4. /\ writeq' \in Seq(Thread) /\ writeq' # <<>>
      /\ \A u \in Thread : InSeq(writeq, u)' <=> InSeq(writeq, u) \/ u = t
      /\ \A i, j \in 1..Len(writeq') : writeq'[i] = writeq'[j] => i = j
  <2>1. \A i \in 1..Len(writeq) : writeq[i] # t
    BY <1>2 DEF InSeq
  <2>2. \A i, j \in 1..Len(writeq) : writeq[i] = writeq[j] => i = j
    BY DEF Inv, QueuesMatch
  <2>3. \A u \in Thread : InSeq(writeq, u)' <=> InSeq(writeq, u) \/ u = t
    BY <1>1, <1>2, AppendMembers DEF InSeq
  <2>4. \A i, j \in 1..Len(writeq') : writeq'[i] = writeq'[j] => i = j
    BY <1>1, <1>2, <2>1, <2>2, AppendOnce
  <2>5. QED
    BY <1>1, <1>2, <2>3, <2>4, AppendFacts
<1>5. /\ ReadersIn' = ReadersIn /\ WritersIn' = WritersIn
      /\ AllWriters' = AllWriters \cup {t} /\ t \notin AllWriters
  BY <1>1, <1>2, <1>3 DEF ReadersIn, AllWriters, WritersIn, With, Woke
<1>6. TypeOK'
  BY <1>1, <1>2, <1>3, <1>4 DEF Inv, TypeOK, Mode
<1>7. QueuesMatch'
  <2>1. ASSUME NEW u \in Thread
        PROVE  /\ (InSeq(readq, u) <=> mode[u] = "wantRead" /\ status[u] = "BLOCKING")'
               /\ (InSeq(writeq, u) <=> mode[u] = "wantWrite" /\ status[u] = "BLOCKING")'
               /\ (status[u] = "BLOCKING" => mode[u] \in {"wantRead", "wantWrite"})'
    <3>1. mode'[u] = IF u = t THEN "wantWrite" ELSE mode[u]
      BY <1>1, <1>2
    <3>2. InSeq(readq, u)' <=> InSeq(readq, u)
      BY <1>1 DEF InSeq
    <3>3. QED
      BY <1>2, <1>3, <1>4, <3>1, <3>2 DEF Inv, QueuesMatch
  <2>2. QED
    BY <1>1, <1>4, <2>1 DEF Inv, QueuesMatch
<1>8. Counted'
  BY <1>1, <1>5, FS_AddElement DEF Inv, Counted
<1>9. ReadersIn \cup WritersIn # {}
  <2>1. CASE readers # 0
    BY <2>1, NoneCounted
  <2>2. CASE writers # 0 /\ writeq # <<>>
    BY <2>2 DEF Inv, SomeoneIn
  <2>3. CASE writers # 0 /\ writeq = <<>>
    <3>1. PICK u \in Thread : mode[u] = "write" \/ mode[u] = "wantWrite"
      BY <2>3, NoneCounted DEF AllWriters, With
    <3>2. ~InSeq(writeq, u)
      BY <2>3 DEF InSeq
    <3>3. u \in WritersIn
      BY <3>1, <3>2 DEF Inv, QueuesMatch, WritersIn, With, Woke
    <3>4. QED
      BY <3>3
  <2>4. QED
    BY <1>1, <2>1, <2>2, <2>3
<1>10. QED
  BY <1>1, <1>5, <1>6, <1>7, <1>8, <1>9 DEF Inv, Excluded, SomeoneIn

\* Who is in a queue is waiting for the lock, and counted if it is a writer.
LEMMA QueuedCount ==
    ASSUME Inv, writeq # <<>>
    PROVE  /\ Head(writeq) \in Thread
           /\ mode[Head(writeq)] = "wantWrite" /\ status[Head(writeq)] = "BLOCKING"
           /\ AllWriters # {}
<1>1. /\ Head(writeq) \in Thread /\ Head(writeq) = writeq[1]
      /\ Len(writeq) \in Nat \ {0}
  BY TailFacts DEF Inv, TypeOK
<1>2. InSeq(writeq, Head(writeq))
  BY <1>1 DEF InSeq
<1>3. QED
  BY <1>1, <1>2 DEF Inv, QueuesMatch, AllWriters, With

\* A counted writer that is not in is in the queue.
LEMMA CountedQueue ==
    ASSUME Inv, NEW u \in AllWriters, u \notin WritersIn
    PROVE  writeq # <<>>
<1>1. InSeq(writeq, u)
  BY DEF Inv, QueuesMatch, AllWriters, WritersIn, With, Woke
<1>2. QED
  BY <1>1 DEF InSeq

\* The running t leaves the lock and wakes the first writer, w.
LEMMA WriterWoken ==
    ASSUME Inv, NEW t \in Thread, current = t, mode[t] \in {"read", "write"},
           mode' = [mode EXCEPT ![t] = "none"],
           writeq # <<>>, NEW w, w = Head(writeq),
           writeq' = Tail(writeq), status' = Woken(status, {w}),
           UNCHANGED <<current, readq>>
    PROVE  /\ DispatchTypeOK' /\ QueuesMatch'
           /\ mode' \in [Thread -> Mode] /\ writeq' \in Seq(Thread)
           /\ w \in Thread /\ w # t /\ mode[w] = "wantWrite"
           /\ \A u \in Thread : status'[u] = IF u = w THEN "READY" ELSE status[u]
<1>1. /\ mode \in [Thread -> Mode] /\ writeq \in Seq(Thread)
      /\ DispatchTypeOK /\ status[t] = "RUNNING"
  BY DEF Inv, TypeOK, DispatchTypeOK
<1>2. w \in Thread /\ mode[w] = "wantWrite" /\ status[w] = "BLOCKING" /\ w # t
  BY QueuedCount
<1>3. /\ DispatchTypeOK'
      /\ \A u \in Thread : status'[u] = IF u = w THEN "READY" ELSE status[u]
  <2>1. {w} \in SUBSET Thread /\ current \notin {w}
    BY <1>2
  <2>2. /\ DispatchTypeOK'
        /\ \A u \in Thread :
             status'[u] = IF u \in {w} THEN "READY" ELSE status[u]
    BY <1>1, <2>1, WakeFacts
  <2>3. QED
    BY <2>2
<1>4. \A i, j \in 1..Len(writeq) : writeq[i] = writeq[j] => i = j
  BY DEF Inv, QueuesMatch
<1>5. \A u \in Thread : InSeq(writeq, u)' <=> InSeq(writeq, u) /\ u # w
  BY <1>1, <1>4, TailMembers DEF InSeq
<1>6. \A i, j \in 1..Len(writeq') : writeq'[i] = writeq'[j] => i = j
  BY <1>1, <1>4, TailOnce
<1>7. ASSUME NEW u \in Thread
      PROVE  /\ (InSeq(readq, u) <=> mode[u] = "wantRead" /\ status[u] = "BLOCKING")'
             /\ (InSeq(writeq, u) <=> mode[u] = "wantWrite" /\ status[u] = "BLOCKING")'
             /\ (status[u] = "BLOCKING" => mode[u] \in {"wantRead", "wantWrite"})'
  <2>1. mode'[u] = IF u = t THEN "none" ELSE mode[u]
    BY <1>1
  <2>2. InSeq(readq, u)' <=> InSeq(readq, u)
    BY DEF InSeq
  <2>3. QED
    BY <1>1, <1>2, <1>3, <1>5, <2>1, <2>2 DEF Inv, QueuesMatch
<1>8. QueuesMatch'
  <2>1. \A i, j \in 1..Len(readq') : readq'[i] = readq'[j] => i = j
    BY DEF Inv, QueuesMatch
  <2>2. QED
    BY <1>6, <1>7, <2>1 DEF QueuesMatch
<1>9. writeq' \in Seq(Thread)
  BY <1>1, TailFacts
<1>10. mode' \in [Thread -> Mode]
  BY <1>1 DEF Mode
<1>11. QED
  BY <1>2, <1>3, <1>8, <1>9, <1>10

\* A reader leaves; the last one wakes a writer.
LEMMA InvReadRelease ==
    ASSUME Inv, NEW t \in Thread, ReadRelease(t)
    PROVE  Inv'
<1>1. /\ current = t /\ mode[t] = "read" /\ crashed = "no"
      /\ readers' = readers - 1 /\ mode' = [mode EXCEPT ![t] = "none"]
      /\ UNCHANGED <<current, writers, readq>>
  BY DEF ReadRelease, At
<1>2. /\ mode \in [Thread -> Mode] /\ readers \in Nat /\ writers \in Nat
      /\ status[t] = "RUNNING"
  BY <1>1 DEF Inv, TypeOK, DispatchTypeOK
<1>3. t \in ReadersIn /\ WritersIn = {} /\ t \notin AllWriters
  BY <1>1 DEF Inv, Excluded, ReadersIn, AllWriters, With
<1>4. readers' \in Nat
  BY <1>1, <1>2, <1>3, NoneCounted
<1>5. CASE ~(readers' = 0 /\ writers # 0)
  <2>1. UNCHANGED <<writeq, status, crashed>>
    BY <1>5 DEF ReadRelease
  <2>2. QueuesMatch' /\ DispatchTypeOK' /\ mode' \in [Thread -> Mode]
    BY <1>1, <2>1, QueuesUntouched DEF Mode
  <2>3. /\ ReadersIn' = ReadersIn \ {t}
        /\ AllWriters' = AllWriters /\ WritersIn' = WritersIn
    BY <1>1, <1>2, <2>1 DEF ReadersIn, AllWriters, WritersIn, With, Woke
  <2>4. TypeOK'
    BY <1>1, <1>4, <2>1, <2>2 DEF Inv, TypeOK
  <2>5. Counted'
    BY <1>1, <1>3, <2>3, FS_RemoveElement DEF Inv, Counted
  <2>6. writeq # <<>> => ReadersIn' # {}
    <3>1. writeq # <<>> => readers' # 0
      BY <1>5, QueuedCount, NoneCounted
    <3>2. readers' = 0 <=> ReadersIn' = {}
      BY <2>5, FS_EmptySet DEF Counted
    <3>3. QED
      BY <3>1, <3>2
  <2>7. QED
    BY <1>1, <1>3, <2>1, <2>2, <2>3, <2>4, <2>5, <2>6
    DEF Inv, Excluded, SomeoneIn
<1>6. CASE readers' = 0 /\ writers # 0
  <2> DEFINE w == Head(writeq)
  <2>1. writeq # <<>>
    BY <1>3, <1>6, NoneCounted, CountedQueue
  <2>2. writeq' = Tail(writeq) /\ status' = Woken(status, {w}) /\ UNCHANGED crashed
    BY <1>6, <2>1 DEF ReadRelease, WakeWriter
  <2> HIDE DEF w
  <2>3. /\ DispatchTypeOK' /\ QueuesMatch'
        /\ mode' \in [Thread -> Mode] /\ writeq' \in Seq(Thread)
        /\ w \in Thread /\ w # t /\ mode[w] = "wantWrite"
        /\ \A u \in Thread : status'[u] = IF u = w THEN "READY" ELSE status[u]
    BY <1>1, <2>1, <2>2, WriterWoken DEF w
  <2>4. /\ ReadersIn' = ReadersIn \ {t}
        /\ AllWriters' = AllWriters /\ WritersIn' = WritersIn \cup {w}
    BY <1>1, <1>2, <2>3 DEF ReadersIn, AllWriters, WritersIn, With, Woke
  <2>5. TypeOK'
    BY <1>1, <1>4, <2>2, <2>3 DEF Inv, TypeOK
  <2>6. Counted'
    BY <1>1, <1>3, <2>4, FS_RemoveElement DEF Inv, Counted
  <2>7. ReadersIn' = {}
    BY <1>6, <2>6, FS_EmptySet DEF Counted
  <2>8. QED
    BY <1>1, <1>3, <2>3, <2>4, <2>5, <2>6, <2>7 DEF Inv, Excluded, SomeoneIn
<1>7. QED
  BY <1>5, <1>6

\* A writer leaves, to the next writer or else to all readers that wait.
LEMMA InvWriteRelease ==
    ASSUME Inv, NEW t \in Thread, WriteRelease(t)
    PROVE  Inv'
<1>1. /\ current = t /\ mode[t] = "write" /\ readers = 0 /\ crashed = "no"
      /\ writers' = writers - 1 /\ mode' = [mode EXCEPT ![t] = "none"]
      /\ UNCHANGED current
  BY DEF WriteRelease, At
<1>2. /\ mode \in [Thread -> Mode] /\ writers \in Nat /\ readq \in Seq(Thread)
      /\ status[t] = "RUNNING"
  BY <1>1 DEF Inv, TypeOK, DispatchTypeOK
<1>3. /\ t \in AllWriters /\ WritersIn = {t} /\ ReadersIn = {}
  BY <1>1 DEF Inv, Excluded, AllWriters, WritersIn, With
<1>4. /\ IsFiniteSet(AllWriters \ {t})
      /\ Cardinality(AllWriters \ {t}) = writers'
  BY <1>1, <1>3, FS_RemoveElement DEF Inv, Counted
<1>5. writers' \in Nat /\ (writers' = 0 <=> AllWriters \ {t} = {})
  BY <1>4, FS_CardinalityType, FS_EmptySet
<1>6. CASE writers' # 0
  <2> DEFINE w == Head(writeq)
  <2>1. writeq # <<>>
    BY <1>3, <1>5, <1>6, CountedQueue
  <2>2. /\ writeq' = Tail(writeq) /\ status' = Woken(status, {w})
        /\ UNCHANGED <<readers, readq, crashed>>
    BY <1>6, <2>1 DEF WriteRelease, WakeWriter
  <2> HIDE DEF w
  <2>3. /\ DispatchTypeOK' /\ QueuesMatch'
        /\ mode' \in [Thread -> Mode] /\ writeq' \in Seq(Thread)
        /\ w \in Thread /\ w # t /\ mode[w] = "wantWrite"
        /\ \A u \in Thread : status'[u] = IF u = w THEN "READY" ELSE status[u]
    BY <1>1, <2>1, <2>2, WriterWoken DEF w
  <2>4. /\ ReadersIn' = ReadersIn
        /\ AllWriters' = AllWriters \ {t} /\ WritersIn' = (WritersIn \ {t}) \cup {w}
    BY <1>1, <1>2, <2>3 DEF ReadersIn, AllWriters, WritersIn, With, Woke
  <2>5. TypeOK'
    BY <1>5, <2>2, <2>3 DEF Inv, TypeOK
  <2>6. Counted'
    BY <1>4, <2>2, <2>4 DEF Inv, Counted
  <2>7. QED
    BY <1>3, <1>5, <1>6, <2>2, <2>3, <2>4, <2>5, <2>6 DEF Inv, Excluded, SomeoneIn
<1>7. CASE writers' = 0
  <2>1. /\ readers' = Len(readq) /\ status' = Woken(status, Elements(readq))
        /\ readq' = <<>> /\ UNCHANGED <<writeq, crashed>>
    BY <1>1, <1>2, <1>7 DEF WriteRelease
  <2>2. \A u \in Thread : u \in Elements(readq)
                            <=> mode[u] = "wantRead" /\ status[u] = "BLOCKING"
    BY DEF Elements, InSeq, Inv, QueuesMatch
  <2>3. Elements(readq) \in SUBSET Thread /\ t \notin Elements(readq)
    BY <1>1, <1>2, <2>2 DEF Elements
  <2>4. /\ DispatchTypeOK'
        /\ \A u \in Thread :
             status'[u] = IF u \in Elements(readq) THEN "READY" ELSE status[u]
    BY <1>1, <2>1, <2>3, WakeFacts DEF Inv, TypeOK
  <2>5. /\ IsFiniteSet(Elements(readq))
        /\ Cardinality(Elements(readq)) = Len(readq)
    BY <1>2, QueueCardinality DEF Inv, QueuesMatch
  <2>6. \A u \in Thread : mode'[u] = IF u = t THEN "none" ELSE mode[u]
    BY <1>1, <1>2
  <2>7. AllWriters' = {} /\ WritersIn' = {}
    BY <1>5, <1>7, <2>6 DEF AllWriters, WritersIn, With, Woke
  <2>8. ReadersIn' = Elements(readq)
    <3>1. ASSUME NEW u \in Thread
          PROVE  u \in ReadersIn' <=> u \in Elements(readq)
      BY <1>1, <1>3, <2>2, <2>4, <2>6 DEF ReadersIn, With, Woke
    <3>2. ReadersIn' \subseteq Thread
      BY DEF ReadersIn, With, Woke
    <3>3. QED
      BY <2>3, <3>1, <3>2
  <2>9. TypeOK'
    BY <1>1, <1>2, <1>5, <2>1, <2>4 DEF Inv, TypeOK, Mode
  <2>10. QueuesMatch'
    <3>1. ASSUME NEW u \in Thread
          PROVE  /\ (InSeq(readq, u) <=> mode[u] = "wantRead" /\ status[u] = "BLOCKING")'
                 /\ (InSeq(writeq, u) <=> mode[u] = "wantWrite" /\ status[u] = "BLOCKING")'
                 /\ (status[u] = "BLOCKING" => mode[u] \in {"wantRead", "wantWrite"})'
      <4>1. ~InSeq(readq, u)' /\ (InSeq(writeq, u)' <=> InSeq(writeq, u))
        BY <2>1 DEF InSeq
      <4>2. QED
        BY <1>1, <1>2, <2>2, <2>4, <2>6, <4>1 DEF Inv, QueuesMatch
    <3>2. QED
      BY <2>1, <3>1 DEF Inv, QueuesMatch
  <2>11. Counted'
    BY <1>7, <2>1, <2>5, <2>7, <2>8, FS_EmptySet DEF Counted
  <2>12. writeq = <<>>
    <3>1. ASSUME writeq # <<>> PROVE FALSE
      <4>1. Head(writeq) \in AllWriters \ {t}
        BY <1>1, <3>1, QueuedCount DEF AllWriters, With
      <4>2. QED
        BY <1>5, <1>7, <4>1
    <3>2. QED
      BY <3>1
  <2>13. QED
    BY <2>1, <2>7, <2>9, <2>10, <2>11, <2>12 DEF Inv, Excluded, SomeoneIn
<1>8. QED
  BY <1>6, <1>7

LEMMA InvNext == Inv /\ [Next]_vars => Inv'
<1> SUFFICES ASSUME Inv, [Next]_vars PROVE Inv'
  OBVIOUS
<1>1. CASE \E t \in Thread : ReadEnter(t) \/ TryRead(t)
  BY <1>1, InvReadEnter DEF TryRead
<1>2. CASE \E t \in Thread : ReadBlock(t)
  BY <1>2, InvReadBlock
<1>3. CASE \E t \in Thread : WriteEnter(t)
  BY <1>3, InvWriteEnter
<1>4. CASE \E t \in Thread : WriteBlock(t)
  BY <1>4, InvWriteBlock
<1>5. CASE \E t \in Thread : AcquireReturn(t)
  BY <1>5, InvAcquireReturn
<1>6. CASE \E t \in Thread : ReadRelease(t)
  BY <1>6, InvReadRelease
<1>7. CASE \E t \in Thread : WriteRelease(t)
  BY <1>7, InvWriteRelease
<1>8. CASE Preempt
  BY <1>8, InvPreempt
<1>9. CASE UNCHANGED vars
  <2>1. /\ ReadersIn' = ReadersIn
        /\ AllWriters' = AllWriters /\ WritersIn' = WritersIn
    BY <1>9 DEF vars, ReadersIn, AllWriters, WritersIn, With, Woke
  <2>2. TypeOK' /\ QueuesMatch'
    BY <1>9 DEF vars, Inv, TypeOK, DispatchTypeOK, QueuesMatch, InSeq
  <2>3. QED
    BY <1>9, <2>1, <2>2 DEF vars, Inv, Excluded, SomeoneIn, Counted
<1>10. QED
  BY <1>1, <1>2, <1>3, <1>4, <1>5, <1>6, <1>7, <1>8, <1>9 DEF Next

-----------------------------------------------------------------------------
(* The theorems.                                                           *)

\* Every reachable state of the lock satisfies Inv.
THEOREM Invariance == Spec => []Inv
<1>1. QED
  BY InvInit, InvNext, PTL DEF Spec

\* A writer whose acquire has returned is alone, although the woken thread
\* does not look at the counts again.
THEOREM WriterAlone == Spec => []WriterExcludes
<1>1. Inv => WriterExcludes
  <2>1. ASSUME Inv, NEW t \in Thread, NEW u \in Thread,
               t # u, mode[t] = "write", mode[u] \in {"read", "write"}
        PROVE  FALSE
    <3>1. t \in WritersIn /\ (u \in WritersIn \/ u \in ReadersIn)
      BY <2>1 DEF WritersIn, ReadersIn, With
    <3>2. QED
      BY <2>1, <3>1 DEF Inv, Excluded
  <2>2. QED
    BY <2>1 DEF WriterExcludes
<1>2. QED
  BY <1>1, Invariance, PTL

\* Both counters are the numbers of the threads they stand for, whoever wrote
\* them last.
THEOREM CountersCount == Spec => []CountsExact
<1>1. Inv => CountsExact
  BY DEF Inv, Counted, CountsExact, ReadersIn, AllWriters
<1>2. QED
  BY <1>1, Invariance, PTL

\* Who waits in a queue waits for somebody that has, or was given, the lock.
THEOREM WaiterNotStranded == Spec => []NoStrandedWaiter
<1>1. Inv => NoStrandedWaiter
  BY NoneCounted DEF Inv, SomeoneIn, NoStrandedWaiter, WritersIn
<1>2. QED
  BY <1>1, Invariance, PTL

\* While rwlock_try_acquire_write is not used, the assertion of a releasing
\* writer always holds (WriteReleaseAssert cannot be taken) and no release
\* looks for a writer in an empty queue.
THEOREM AssertionsHold ==
    Spec => [](/\ crashed = "no"
               /\ \A t \in Thread : mode[t] = "write" => readers = 0)
<1>1. Inv => /\ crashed = "no"
             /\ \A t \in Thread : mode[t] = "write" => readers = 0
  BY NoneCounted DEF Inv, TypeOK, Excluded, WritersIn, With
<1>2. QED
  BY <1>1, Invariance, PTL

\* What the lock does to the processor and to the statuses of the threads is
\* what Dispatch allows: it wakes only threads that wait, and blocks only the
\* one that runs.
THEOREM KeepsContract == Spec => DispatchSpec
<1>1. Init => DispatchInit
  BY DispatchAssumption DEF Init, DispatchInit
<1>2. ASSUME Inv, [Next]_vars PROVE [DispatchNext]_dispatchVars
  <2>1. DispatchTypeOK
    BY <1>2 DEF Inv, TypeOK
  <2>2. {} \in SUBSET WaitingThreads
    OBVIOUS
  <2>3. ASSUME NEW t \in Thread, ReadBlock(t) \/ WriteBlock(t) PROVE DispatchNext
    BY <2>2, <2>3, BlockIsDispatch DEF ReadBlock, WriteBlock, At
  <2>4. ASSUME current' = current, WakeWriter PROVE [DispatchNext]_dispatchVars
    <3>1. CASE writeq # <<>>
      <4>1. {Head(writeq)} \in SUBSET WaitingThreads
        BY <1>2, <3>1, QueuedCount DEF WaitingThreads, Waiting
      <4>2. QED
        BY <2>4, <3>1, <4>1, WakeIsDispatch DEF WakeWriter
    <3>2. CASE writeq = <<>>
      BY <2>4, <3>2 DEF WakeWriter, dispatchVars
    <3>3. QED
      BY <3>1, <3>2
  <2>5. ASSUME NEW t \in Thread, ReadRelease(t)
        PROVE  [DispatchNext]_dispatchVars
    BY <2>4, <2>5 DEF ReadRelease, dispatchVars
  <2>6. ASSUME NEW t \in Thread, WriteRelease(t)
        PROVE  [DispatchNext]_dispatchVars
    <3>1. Elements(readq) \in SUBSET WaitingThreads
      <4>1. \A u \in Elements(readq) : u \in Thread /\ InSeq(readq, u)
        BY <1>2 DEF Inv, TypeOK, Elements, InSeq
      <4>2. QED
        BY <1>2, <4>1 DEF Inv, QueuesMatch, WaitingThreads, Waiting
    <3>2. QED
      BY <2>4, <2>6, <3>1, WakeIsDispatch DEF WriteRelease
  <2>7. CASE Preempt
    BY <2>1, <2>7, PreemptIsDispatch DEF Preempt
  <2>8. CASE \/ \E t \in Thread : \/ ReadEnter(t) \/ TryRead(t)
                                  \/ WriteEnter(t) \/ AcquireReturn(t)
             \/ UNCHANGED vars
    BY <2>8 DEF ReadEnter, TryRead, WriteEnter, AcquireReturn, vars, dispatchVars
  <2>9. QED
    BY <1>2, <2>3, <2>5, <2>6, <2>7, <2>8 DEF Next
<1>3. QED
  BY <1>1, <1>2, Invariance, PTL DEF Spec, DispatchSpec
=============================================================================
