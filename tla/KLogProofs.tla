----------------------------- MODULE KLogProofs -----------------------------
(***************************************************************************)
(* Proofs about modules Semaphore and KLog, for any set of threads, any    *)
(* first value, any bound on the signals and any number of messages.       *)
(*                                                                         *)
(* That no signal is used twice rests on the value counting the waiters,   *)
(* and the other way round: the last credit is there for a thread that     *)
(* returns because all queued threads are inside semaphore_wait and it is  *)
(* not one of them.  The semaphore's invariant is kept by the log's steps  *)
(* too, so its guarantees hold of a semaphore that is drained and that is  *)
(* signalled from interrupts; from it follows how many messages are on the *)
(* list.                                                                   *)
(***************************************************************************)
EXTENDS KLog, DispatchProofs, FiniteSetTheorems, SequenceTheorems

(***************************************************************************)
(* The semaphore.                                                          *)
(***************************************************************************)

TypeOK ==
    /\ DispatchTypeOK
    /\ value \in Int /\ credit \in Int
    /\ semq \in Seq(Thread)
    /\ inWait \in SUBSET Thread /\ IsFiniteSet(inWait)

Inv == TypeOK /\ CreditsMatch /\ ValueCountsWaiters

-----------------------------------------------------------------------------

\* A queue without repetitions is no longer than a set that has its members.
LEMMA QueueWithin ==
    ASSUME NEW q \in Seq(Thread), NEW S, IsFiniteSet(S),
           \A i \in 1..Len(q) : q[i] \in S,
           \A i, j \in 1..Len(q) : q[i] = q[j] => i = j
    PROVE  Len(q) <= Cardinality(S)
<1> DEFINE f == [i \in 1..Len(q) |-> q[i]]
<1>1. Len(q) \in Nat
  OBVIOUS
<1>2. f \in Injection(1..Len(q), S)
  BY DEF Injection, IsInjective
<1>3. Cardinality(1..Len(q)) <= Cardinality(S)
  BY <1>2, FS_Injection
<1>4. Cardinality(1..Len(q)) = Len(q)
  <2>1. Cardinality(1..Len(q)) = IF 1 > Len(q) THEN 0 ELSE Len(q) - 1 + 1
    BY <1>1, FS_Interval
  <2>2. QED
    BY <1>1, <2>1
<1>5. QED
  BY <1>3, <1>4

LEMMA InvInit == Init => Inv
<1> SUFFICES ASSUME Init PROVE Inv
  OBVIOUS
<1>1. IsFiniteSet(inWait) /\ Cardinality(inWait) = 0
  BY FS_EmptySet DEF Init, SemaphoreInit
<1>2. TypeOK
  BY <1>1, DispatchAssumption, SemaphoreAssumption
  DEF Init, SemaphoreInit, TypeOK, DispatchTypeOK, Status, Waiting
<1>3. CreditsMatch
  BY <1>1, SemaphoreAssumption DEF Init, SemaphoreInit, CreditsMatch
<1>4. ValueCountsWaiters
  BY SemaphoreAssumption
  DEF Init, SemaphoreInit, ValueCountsWaiters, Queued
<1>5. QED
  BY <1>2, <1>3, <1>4 DEF Inv

\* A wait or a try that finds the value above zero takes one credit.
LEMMA InvTakeOne ==
    ASSUME Inv, value > 0, value' = value - 1, credit' = credit - 1,
           UNCHANGED <<current, status, semq, inWait>>
    PROVE  Inv'
<1>1. Cardinality(inWait) \in Nat
  BY FS_CardinalityType DEF Inv, TypeOK
<1>2. TypeOK'
  BY DEF Inv, TypeOK, DispatchTypeOK
<1>3. CreditsMatch'
  BY <1>1 DEF Inv, TypeOK, CreditsMatch
<1>4. ValueCountsWaiters'
  BY DEF Inv, TypeOK, ValueCountsWaiters, Queued
<1>5. QED
  BY <1>2, <1>3, <1>4 DEF Inv

LEMMA InvWaitBlock ==
    ASSUME Inv, NEW t \in Thread, WaitBlock(t)
    PROVE  Inv'
<1> USE DispatchAssumption
<1> DEFINE st == Woken([status EXCEPT ![t] = "BLOCKING"], {})
<1>1. /\ current = t /\ t \notin inWait /\ value <= 0 /\ SwitchAny(st)
      /\ value' = value - 1 /\ semq' = Append(semq, t)
      /\ inWait' = inWait \cup {t} /\ credit' = credit
  BY DEF WaitBlock, BlockSwitch
<1>2. /\ status \in [Thread -> Status] /\ semq \in Seq(Thread)
      /\ value \in Int /\ credit \in Int
      /\ inWait \in SUBSET Thread /\ IsFiniteSet(inWait)
      /\ \A u \in Thread : u # t => status[u] # "RUNNING"
  BY <1>1 DEF Inv, TypeOK, DispatchTypeOK
<1>3. /\ st \in [Thread -> Status]
      /\ \A u \in Thread : st[u] = IF u = t THEN "BLOCKING" ELSE status[u]
  <2>1. st = [u \in Thread |-> IF u = t THEN "BLOCKING" ELSE status[u]]
    BY <1>2 DEF Woken
  <2>2. "BLOCKING" \in Status
    BY DEF Status, Waiting
  <2> HIDE DEF st
  <2>3. QED
    BY <1>2, <2>1, <2>2
<1> HIDE DEF st
<1>4. /\ DispatchTypeOK'
      /\ \A u \in Thread : status'[u] = "BLOCKING" <=> st[u] = "BLOCKING"
  <2>1. \A u \in Thread : st[u] # "RUNNING"
    BY <1>2, <1>3
  <2>2. QED
    BY <1>1, <1>3, <2>1, SwitchFacts
<1>5. /\ IsFiniteSet(inWait') /\ Cardinality(inWait') = Cardinality(inWait) + 1
      /\ Cardinality(inWait) \in Nat
  BY <1>1, <1>2, FS_AddElement, FS_CardinalityType
<1>6. TypeOK'
  BY <1>1, <1>2, <1>4, <1>5, AppendFacts DEF TypeOK
<1>7. CreditsMatch'
  BY <1>1, <1>2, <1>5 DEF Inv, CreditsMatch
<1>8. ValueCountsWaiters'
  <2>1. \A u \in Thread : Queued(u)' <=> Queued(u) \/ u = t
    BY <1>1, <1>2, AppendMembers DEF Queued
  <2>2. ~Queued(t)
    BY <1>1 DEF Inv, ValueCountsWaiters
  <2>3. Len(semq') = Len(semq) + 1 /\ Len(semq) \in Nat
    BY <1>1, <1>2, AppendFacts
  <2>4. Len(semq') = IF value' < 0 THEN -value' ELSE 0
    BY <1>1, <1>2, <2>3 DEF Inv, ValueCountsWaiters
  <2>5. \A u \in Thread : Queued(u)' <=> status'[u] = "BLOCKING"
    BY <1>3, <1>4, <2>1 DEF Inv, ValueCountsWaiters
  <2>6. \A u \in Thread : Queued(u)' => u \in inWait'
    BY <1>1, <2>1 DEF Inv, ValueCountsWaiters
  <2>7. ASSUME NEW i \in 1..Len(semq'), NEW j \in 1..Len(semq'),
               semq'[i] = semq'[j]
        PROVE  i = j
    <3>1. \A k \in 1..Len(semq) : semq[k] # t
      BY <2>2 DEF Queued
    <3>2. /\ \A k \in 1..Len(semq) : semq'[k] = semq[k]
          /\ semq'[Len(semq) + 1] = t
      BY <1>1, <1>2, AppendFacts
    <3>3. \A k \in 1..Len(semq') : k \in 1..Len(semq) \/ k = Len(semq) + 1
      BY <2>3
    <3>4. QED
      BY <2>7, <3>1, <3>2, <3>3 DEF Inv, ValueCountsWaiters
  <2>8. QED
    BY <2>4, <2>5, <2>6, <2>7 DEF ValueCountsWaiters
<1>9. QED
  BY <1>6, <1>7, <1>8 DEF Inv

\* The one that returns is not queued, so a credit is left for it.
LEMMA InvWaitReturn ==
    ASSUME Inv, NEW t \in Thread, WaitReturn(t)
    PROVE  Inv'
<1>1. /\ current = t /\ t \in inWait
      /\ inWait' = inWait \ {t} /\ credit' = credit - 1
      /\ UNCHANGED <<current, status, value, semq>>
  BY DEF WaitReturn
<1>2. /\ semq \in Seq(Thread) /\ value \in Int /\ credit \in Int
      /\ inWait \in SUBSET Thread /\ IsFiniteSet(inWait)
      /\ Len(semq) \in Nat
  BY DEF Inv, TypeOK
<1>3. ~Queued(t)
  BY <1>1 DEF Inv, TypeOK, DispatchTypeOK, ValueCountsWaiters
<1>4. /\ IsFiniteSet(inWait \ {t}) /\ Cardinality(inWait \ {t}) \in Nat
      /\ Cardinality(inWait \ {t}) = Cardinality(inWait) - 1
      /\ Cardinality(inWait) \in Nat
  BY <1>1, <1>2, FS_RemoveElement, FS_CardinalityType
<1>5. Len(semq) <= Cardinality(inWait \ {t})
  <2>1. \A i \in 1..Len(semq) : semq[i] \in inWait \ {t}
    BY <1>2, <1>3 DEF Inv, ValueCountsWaiters, Queued
  <2>2. \A i, j \in 1..Len(semq) : semq[i] = semq[j] => i = j
    BY DEF Inv, ValueCountsWaiters
  <2>3. QED
    BY <1>2, <1>4, <2>1, <2>2, QueueWithin
<1>6. TypeOK'
  BY <1>1, <1>2, <1>4 DEF Inv, TypeOK, DispatchTypeOK
<1>7. CreditsMatch'
  BY <1>1, <1>2, <1>4, <1>5 DEF Inv, CreditsMatch, ValueCountsWaiters
<1>8. ValueCountsWaiters'
  BY <1>1, <1>3 DEF Inv, ValueCountsWaiters, Queued
<1>9. QED
  BY <1>6, <1>7, <1>8 DEF Inv

\* The first waiter, if there is one, leaves the queue and becomes ready.
LEMMA InvSignal ==
    ASSUME Inv, Signal
    PROVE  Inv'
<1>0. /\ value' = value + 1 /\ credit' = credit + 1
      /\ UNCHANGED <<current, inWait>>
  BY DEF Signal
<1>1. /\ semq \in Seq(Thread) /\ value \in Int /\ credit \in Int
      /\ inWait \in SUBSET Thread /\ Cardinality(inWait) \in Nat
      /\ status \in [Thread -> Status] /\ Len(semq) \in Nat
  BY FS_CardinalityType DEF Inv, TypeOK, DispatchTypeOK
<1>2. CreditsMatch'
  BY <1>0, <1>1 DEF Inv, CreditsMatch
<1>3. CASE value >= 0
  <2>1. UNCHANGED <<semq, status>>
    BY <1>1, <1>3 DEF Signal
  <2>2. TypeOK'
    BY <1>0, <1>1, <2>1 DEF Inv, TypeOK, DispatchTypeOK
  <2>3. ValueCountsWaiters'
    BY <1>0, <1>1, <1>3, <2>1 DEF Inv, ValueCountsWaiters, Queued
  <2>4. QED
    BY <1>2, <2>2, <2>3 DEF Inv
<1>4. CASE value < 0
  <2> DEFINE h == Head(semq)
  <2>1. semq' = Tail(semq) /\ status' = Woken(status, {h})
    BY <1>1, <1>4 DEF Signal
  <2>2. semq # <<>>
    BY <1>1, <1>4 DEF Inv, ValueCountsWaiters
  <2>3. /\ h \in Thread /\ h = semq[1] /\ semq' \in Seq(Thread)
        /\ Len(semq') = Len(semq) - 1 /\ Len(semq) \in Nat \ {0}
        /\ \A i \in 1..Len(semq') : semq'[i] = semq[i + 1]
    BY <1>1, <2>1, <2>2, TailFacts
  <2>4. status' = [u \in Thread |-> IF u = h THEN "READY" ELSE status[u]]
    BY <2>1 DEF Woken
  <2> HIDE DEF h
  <2>5. Queued(h)
    <3>1. 1 \in 1..Len(semq) /\ semq[1] = h
      BY <2>3
    <3>2. QED
      BY <3>1 DEF Queued
  <2>6. \A u \in Thread : Queued(u)' <=> Queued(u) /\ u # h
    <3>1. ASSUME NEW u \in Thread, NEW i \in 1..Len(semq'), semq'[i] = u
          PROVE  Queued(u) /\ u # h
      <4>1. i + 1 \in 1..Len(semq) /\ 1 \in 1..Len(semq) /\ i + 1 # 1
        BY <2>3
      <4>2. semq[i + 1] = u
        BY <2>3, <3>1
      <4>3. semq[i + 1] # semq[1]
        BY <4>1 DEF Inv, ValueCountsWaiters
      <4>4. QED
        BY <2>3, <4>1, <4>2, <4>3 DEF Queued
    <3>2. ASSUME NEW u \in Thread, NEW i \in 1..Len(semq), semq[i] = u, u # h
          PROVE  \E j \in 1..Len(semq') : semq'[j] = u
      <4>1. i - 1 \in 1..Len(semq') /\ (i - 1) + 1 = i
        BY <2>3, <3>2
      <4>2. semq'[i - 1] = u
        BY <2>3, <3>2, <4>1
      <4>3. QED
        BY <4>1, <4>2
    <3>3. QED
      BY <3>1, <3>2 DEF Queued
  <2>7. TypeOK'
    <3>1. "READY" \in Status
      BY DEF Status
    <3>2. status[h] = "BLOCKING"
      BY <2>3, <2>5 DEF Inv, ValueCountsWaiters
    <3>3. DispatchTypeOK'
      BY <1>0, <1>1, <2>4, <3>1, <3>2 DEF Inv, TypeOK, DispatchTypeOK
    <3>4. QED
      BY <1>0, <1>1, <2>3, <3>3 DEF Inv, TypeOK
  <2>8. ValueCountsWaiters'
    <3>1. Len(semq') = IF value' < 0 THEN -value' ELSE 0
      BY <1>0, <1>1, <1>4, <2>3 DEF Inv, ValueCountsWaiters
    <3>2. \A u \in Thread : Queued(u)' <=> status'[u] = "BLOCKING"
      BY <1>1, <2>4, <2>6 DEF Inv, ValueCountsWaiters
    <3>3. \A u \in Thread : Queued(u)' => u \in inWait'
      BY <1>0, <2>6 DEF Inv, ValueCountsWaiters
    <3>4. ASSUME NEW i \in 1..Len(semq'), NEW j \in 1..Len(semq'),
                 semq'[i] = semq'[j]
          PROVE  i = j
      <4>1. i + 1 \in 1..Len(semq) /\ j + 1 \in 1..Len(semq)
        BY <2>3
      <4>2. semq[i + 1] = semq[j + 1]
        BY <2>3, <3>4
      <4>3. i + 1 = j + 1
        BY <4>1, <4>2 DEF Inv, ValueCountsWaiters
      <4>4. QED
        BY <2>3, <4>3
    <3>5. QED
      BY <3>1, <3>2, <3>3, <3>4 DEF ValueCountsWaiters
  <2>9. QED
    BY <1>2, <2>7, <2>8 DEF Inv
<1>5. QED
  BY <1>1, <1>3, <1>4

\* A preemption blocks and wakes no one.
LEMMA InvPreempt ==
    ASSUME Inv, Preempt
    PROVE  Inv'
<1> USE DispatchAssumption
<1>1. /\ status \in [Thread -> Status] /\ current \in Thread \cup {NULL}
      /\ \A u \in Thread : status[u] = "RUNNING" <=> current = u
  BY DEF Inv, TypeOK, DispatchTypeOK
<1>2. /\ DispatchTypeOK'
      /\ \A u \in Thread : status'[u] = "BLOCKING" <=> status[u] = "BLOCKING"
  <2>1. CASE current = NULL /\ SwitchAny(status)
    BY <1>1, <2>1, SwitchFacts
  <2>2. CASE current # NULL
             /\ SwitchAny([status EXCEPT ![current] = "READY"])
    <3> DEFINE st == [status EXCEPT ![current] = "READY"]
    <3>1. "READY" \in Status
      BY DEF Status
    <3>2. /\ st \in [Thread -> Status]
          /\ \A u \in Thread : st[u] = IF u = current THEN "READY" ELSE status[u]
      BY <1>1, <3>1
    <3>3. SwitchAny(st)
      BY <2>2
    <3> HIDE DEF st
    <3>4. /\ \A u \in Thread : st[u] # "RUNNING"
          /\ \A u \in Thread : st[u] = "BLOCKING" <=> status[u] = "BLOCKING"
      BY <1>1, <3>2
    <3>5. QED
      BY <3>2, <3>3, <3>4, SwitchFacts
  <2>3. QED
    BY <2>1, <2>2 DEF Preempt, PreemptSwitch
<1>3. UNCHANGED <<value, semq, inWait, credit>>
  BY DEF Preempt, semVars
<1>4. TypeOK'
  BY <1>2, <1>3 DEF Inv, TypeOK
<1>5. CreditsMatch'
  BY <1>3 DEF Inv, CreditsMatch
<1>6. ValueCountsWaiters'
  BY <1>2, <1>3 DEF Inv, ValueCountsWaiters, Queued
<1>7. QED
  BY <1>4, <1>5, <1>6 DEF Inv

LEMMA InvNext == Inv /\ [Next]_vars => Inv'
<1> SUFFICES ASSUME Inv, [Next]_vars PROVE Inv'
  OBVIOUS
<1>1. CASE \E t \in Thread : WaitTake(t)
  BY <1>1, InvTakeOne DEF WaitTake
<1>2. CASE \E t \in Thread : WaitBlock(t)
  BY <1>2, InvWaitBlock
<1>3. CASE \E t \in Thread : WaitReturn(t)
  BY <1>3, InvWaitReturn
<1>4. CASE TryWait
  BY <1>4, InvTakeOne DEF TryWait
<1>5. CASE Signal
  BY <1>5, InvSignal
<1>6. CASE Preempt
  BY <1>6, InvPreempt
<1>7. CASE UNCHANGED vars
  BY <1>7 DEF vars, Inv, TypeOK, DispatchTypeOK, CreditsMatch,
              ValueCountsWaiters, Queued
<1>8. QED
  BY <1>1, <1>2, <1>3, <1>4, <1>5, <1>6, <1>7 DEF Next

LEMMA Invariance == Spec => []Inv
<1>1. QED
  BY InvInit, InvNext, PTL DEF Spec

\* No wait and no try returns without a signal of its own, for any number of
\* threads and signals.
THEOREM NoSignalUsedTwice == Spec => []CreditsMatch
<1>1. Inv => CreditsMatch
  BY DEF Inv
<1>2. QED
  BY <1>1, Invariance, PTL

\* The value counts the blocked threads exactly, so no signal is given to a
\* queue that is empty and none passes a waiter by.
THEOREM EveryWaiterCounted == Spec => []ValueCountsWaiters
<1>1. Inv => ValueCountsWaiters
  BY DEF Inv
<1>2. QED
  BY <1>1, Invariance, PTL

\* A signal that finds the value below zero wakes a thread that waits.
LEMMA SignalWakesWaiter ==
    ASSUME Inv, Signal
    PROVE  [DispatchNext]_dispatchVars
<1>1. value \in Int /\ semq \in Seq(Thread) /\ Len(semq) \in Nat
  BY DEF Inv, TypeOK
<1>2. CASE value < 0
  <2>1. semq # <<>>
    BY <1>1, <1>2 DEF Inv, ValueCountsWaiters
  <2>2. Queued(Head(semq)) /\ Head(semq) \in Thread
    BY <1>1, <2>1, TailFacts DEF Queued
  <2>3. {Head(semq)} \in SUBSET WaitingThreads
    BY <2>2 DEF Inv, ValueCountsWaiters, WaitingThreads, Waiting
  <2>4. status' = Woken(status, {Head(semq)}) /\ current' = current
    BY <1>1, <1>2 DEF Signal
  <2>5. QED
    BY <2>3, <2>4, WakeIsDispatch
<1>3. CASE value >= 0
  BY <1>1, <1>3 DEF Signal, dispatchVars
<1>4. QED
  BY <1>1, <1>2, <1>3

\* What the semaphore does to the processor and to the statuses of the
\* threads is what Dispatch allows.
THEOREM KeepsContract == Spec => DispatchSpec
<1>1. Init => DispatchInit
  BY DispatchAssumption DEF Init, DispatchInit
<1>2. ASSUME Inv, [Next]_vars PROVE [DispatchNext]_dispatchVars
  <2>1. DispatchTypeOK /\ {} \in SUBSET WaitingThreads
    BY <1>2 DEF Inv, TypeOK
  <2>2. ASSUME NEW t \in Thread, WaitBlock(t) PROVE DispatchNext
    BY <2>1, <2>2, BlockIsDispatch DEF WaitBlock
  <2>3. CASE Signal
    BY <1>2, <2>3, SignalWakesWaiter
  <2>4. CASE Preempt
    BY <2>1, <2>4, PreemptIsDispatch DEF Preempt
  <2>5. CASE \/ \E t \in Thread : WaitTake(t) \/ WaitReturn(t)
             \/ TryWait \/ UNCHANGED vars
    BY <2>5 DEF WaitTake, WaitReturn, TryWait, vars, dispatchVars
  <2>6. QED
    BY <1>2, <2>2, <2>3, <2>4, <2>5 DEF Next
<1>3. QED
  BY <1>1, <1>2, Invariance, PTL DEF Spec, DispatchSpec

-----------------------------------------------------------------------------
(***************************************************************************)
(* The log.                                                                *)
(***************************************************************************)

LogTypeOK ==
    /\ logged \in Nat
    /\ buf \in Seq(Nat) /\ detached \in Seq(Nat) /\ printed \in Seq(Nat)
    /\ place \in {"wait", "locks", "flush", "print"}
    /\ flushThread \in BOOLEAN /\ halted \in BOOLEAN

\* InOrderOnce, message by message.
Listed ==
    /\ \A i \in 1..Len(printed) : printed[i] = i
    /\ \A i \in 1..Len(detached) : detached[i] = Len(printed) + i
    /\ \A i \in 1..Len(buf) : buf[i] = Len(printed) + Len(detached) + i
    /\ Len(printed) + Len(detached) + Len(buf) = logged

\* Only the background thread waits on the semaphore, and only in its place;
\* it takes off no list before it is done with the last; and before it is
\* created nothing is buffered.
Loop ==
    /\ inWait \in SUBSET {Flusher}
    /\ Flusher \in inWait => place = "wait"
    /\ detached # <<>> => place = "print"
    /\ ~flushThread => /\ status[Flusher] = "NEW" /\ place = "wait"
                       /\ buf = <<>> /\ inWait = {}

LogInv ==
    /\ Inv /\ LogTypeOK /\ Loop
    /\ ~halted => Listed
    /\ SignalsMatchMessages
    /\ CrashLosesOnlyDetached

-----------------------------------------------------------------------------
(* The lists of messages.                                                  *)

LEMMA LogAppendFacts ==
    ASSUME NEW q \in Seq(Nat), NEW n \in Nat
    PROVE  /\ Append(q, n) \in Seq(Nat)
           /\ Append(q, n) # <<>>
           /\ Len(Append(q, n)) = Len(q) + 1
           /\ Len(q) \in Nat
           /\ \A i \in 1..Len(q) : Append(q, n)[i] = q[i]
           /\ Append(q, n)[Len(q) + 1] = n
  OBVIOUS

LEMMA LogTailFacts ==
    ASSUME NEW q \in Seq(Nat), q # <<>>
    PROVE  /\ Tail(q) \in Seq(Nat)
           /\ Head(q) \in Nat
           /\ Head(q) = q[1]
           /\ Len(q) \in Nat \ {0}
           /\ Len(Tail(q)) = Len(q) - 1
           /\ \A i \in 1..Len(Tail(q)) : Tail(q)[i] = q[i + 1]
  OBVIOUS

LEMMA LogEmptyFacts ==
    /\ <<>> \in Seq(Nat) /\ Len(<<>>) = 0
    /\ \A q \in Seq(Nat) : Len(q) \in Nat /\ (Len(q) = 0 <=> q = <<>>)
  OBVIOUS

\* What is listed message by message is the list of all that was logged.
LEMMA ListedInOrder ==
    ASSUME LogTypeOK, Listed
    PROVE  printed \o detached \o buf = Numbers(logged)
<1> DEFINE pd == printed \o detached
           s == pd \o buf
<1>1. /\ Len(printed) \in Nat /\ Len(detached) \in Nat /\ Len(buf) \in Nat
      /\ printed \in Seq(Nat) /\ detached \in Seq(Nat) /\ buf \in Seq(Nat)
  BY LogEmptyFacts DEF LogTypeOK
<1>2. /\ pd \in Seq(Nat) /\ Len(pd) = Len(printed) + Len(detached)
      /\ \A i \in 1..Len(printed) + Len(detached) : pd[i] =
           IF i <= Len(printed) THEN printed[i] ELSE detached[i - Len(printed)]
  BY <1>1, ConcatProperties
<1>3. ASSUME NEW i \in 1..Len(pd) PROVE pd[i] = i
  <2>1. CASE i <= Len(printed)
    BY <1>1, <1>2, <2>1 DEF Listed
  <2>2. CASE ~(i <= Len(printed))
    <3>1. i - Len(printed) \in 1..Len(detached)
      BY <1>1, <1>2, <2>2
    <3>2. detached[i - Len(printed)] = Len(printed) + (i - Len(printed))
      BY <3>1 DEF Listed
    <3>3. QED
      BY <1>1, <1>2, <2>2, <3>2
  <2>3. QED
    BY <2>1, <2>2
<1> HIDE DEF pd
<1>4. /\ s \in Seq(Nat) /\ Len(s) = Len(pd) + Len(buf)
      /\ \A i \in 1..Len(pd) + Len(buf) :
           s[i] = IF i <= Len(pd) THEN pd[i] ELSE buf[i - Len(pd)]
  <2>1. pd \in Seq(Nat) /\ buf \in Seq(Nat)
    BY <1>1, <1>2
  <2>2. QED
    BY <2>1, ConcatProperties
<1>5. Len(s) = logged
  BY <1>2, <1>4 DEF Listed
<1>6. ASSUME NEW i \in 1..Len(s) PROVE s[i] = i
  <2>1. CASE i <= Len(pd)
    BY <1>1, <1>2, <1>3, <1>4, <2>1
  <2>2. CASE ~(i <= Len(pd))
    <3>1. i - Len(pd) \in 1..Len(buf)
      BY <1>1, <1>2, <1>4, <2>2
    <3>2. buf[i - Len(pd)] = Len(pd) + (i - Len(pd))
      BY <1>2, <3>1 DEF Listed
    <3>3. QED
      BY <1>1, <1>2, <1>4, <2>2, <3>2
  <2>3. QED
    BY <2>1, <2>2
<1> HIDE DEF s
<1>7. s \in [1..Len(s) -> Nat]
  BY <1>4, LenProperties
<1>8. s = [i \in 1..logged |-> i]
  BY <1>5, <1>6, <1>7
<1>9. QED
  BY <1>8 DEF s, pd, Numbers

-----------------------------------------------------------------------------
(* The semaphore under the steps of the log.                               *)

LEMMA LogInvInit == KLogInit => LogInv
<1> SUFFICES ASSUME KLogInit PROVE LogInv
  OBVIOUS
<1> USE DispatchAssumption, KLogAssumption
<1>1. IsFiniteSet(inWait) /\ Cardinality(inWait) = 0 /\ inWait = {}
  BY FS_EmptySet DEF KLogInit, SemaphoreInit
<1>2. /\ value = 0 /\ credit = 0 /\ semq = <<>> /\ logged = 0
      /\ buf = <<>> /\ detached = <<>> /\ printed = <<>>
      /\ place = "wait" /\ flushThread = FALSE /\ halted = FALSE
      /\ status[Flusher] = "NEW"
  BY DEF KLogInit, SemaphoreInit
<1>3. DispatchTypeOK /\ \A u \in Thread : status[u] # "BLOCKING"
  BY DEF KLogInit, DispatchTypeOK, Status
<1>4. TypeOK
  BY <1>1, <1>2, <1>3 DEF TypeOK
<1>5. CreditsMatch /\ ValueCountsWaiters
  BY <1>1, <1>2, <1>3 DEF CreditsMatch, ValueCountsWaiters, Queued
<1>6. LogTypeOK /\ Listed /\ Loop
  <2>1. LogTypeOK
    BY <1>2, LogEmptyFacts DEF LogTypeOK
  <2>2. /\ Len(printed) = 0 /\ Len(detached) = 0 /\ Len(buf) = 0
        /\ Len(printed) + Len(detached) + Len(buf) = logged
    BY <1>2, LogEmptyFacts
  <2>3. Listed
    BY <2>2 DEF Listed
  <2>4. Loop
    BY <1>1, <1>2 DEF Loop
  <2>5. QED
    BY <2>1, <2>3, <2>4
<1>7. SignalsMatchMessages /\ CrashLosesOnlyDetached
  BY <1>1, <1>2, LogEmptyFacts DEF SignalsMatchMessages, CrashLosesOnlyDetached
<1>8. QED
  BY <1>4, <1>5, <1>6, <1>7 DEF LogInv, Inv

\* Nobody blocks or becomes unblocked, and the semaphore is not touched.
LEMMA InvStatus ==
    ASSUME Inv, DispatchTypeOK', UNCHANGED semVars,
           \A u \in Thread : status'[u] = "BLOCKING" <=> status[u] = "BLOCKING"
    PROVE  Inv'
<1>1. UNCHANGED <<value, semq, inWait, credit>>
  BY DEF semVars
<1>2. TypeOK'
  BY <1>1 DEF Inv, TypeOK
<1>3. CreditsMatch' /\ ValueCountsWaiters'
  BY <1>1 DEF Inv, CreditsMatch, ValueCountsWaiters, Queued
<1>4. QED
  BY <1>2, <1>3 DEF Inv

LEMMA InvSame ==
    ASSUME Inv, UNCHANGED vars
    PROVE  Inv'
  BY DEF vars, Inv, TypeOK, DispatchTypeOK, CreditsMatch, ValueCountsWaiters,
         Queued

\* Draining takes the credits that nobody was woken for.
LEMMA InvDrain ==
    ASSUME Inv, DrainSemaphore
    PROVE  Inv'
<1>1. /\ Cardinality(inWait) \in Nat /\ value \in Int /\ credit \in Int
      /\ Len(semq) \in Nat
  BY FS_CardinalityType DEF Inv, TypeOK
<1>2. /\ value' = IF value > 0 THEN 0 ELSE value
      /\ credit' = credit - (value - value')
      /\ UNCHANGED <<current, status, semq, inWait>>
  BY DEF DrainSemaphore
<1>3. value' \in Int /\ credit' \in Int
  BY <1>1, <1>2
<1>4. TypeOK'
  BY <1>2, <1>3 DEF Inv, TypeOK, DispatchTypeOK
<1>5. CreditsMatch'
  <2>1. credit >= 0 /\ value = credit - Cardinality(inWait) /\ inWait' = inWait
    BY <1>2 DEF Inv, CreditsMatch
  <2>2. CASE value > 0
    <3>1. value' = 0 /\ credit' = credit - value
      BY <1>1, <1>2, <2>2
    <3>2. QED
      BY <1>1, <2>1, <3>1 DEF CreditsMatch
  <2>3. CASE ~(value > 0)
    <3>1. value' = value /\ credit' = credit
      BY <1>1, <1>2, <2>3
    <3>2. QED
      BY <1>1, <2>1, <3>1 DEF CreditsMatch
  <2>4. QED
    BY <2>2, <2>3
<1>6. ValueCountsWaiters'
  BY <1>1, <1>2 DEF Inv, ValueCountsWaiters, Queued
<1>7. QED
  BY <1>4, <1>5, <1>6 DEF Inv

\* No switch creates a thread.
LEMMA SwitchCreatesNone ==
    ASSUME NEW st \in [Thread -> Status], NEW t \in Thread, SwitchAny(st)
    PROVE  st[t] = "NEW" => status'[t] = "NEW"
  BY DEF SwitchAny, ReadyIn

LEMMA InvTick ==
    ASSUME Inv, Preempt
    PROVE  Inv' /\ (status[Flusher] = "NEW" => status'[Flusher] = "NEW")
<1> USE DispatchAssumption, KLogAssumption
<1>1. Inv'
  BY InvPreempt
<1>2. /\ status \in [Thread -> Status] /\ current \in Thread \cup {NULL}
      /\ \A u \in Thread : status[u] = "RUNNING" <=> current = u
  BY DEF Inv, TypeOK, DispatchTypeOK
<1>3. CASE current = NULL
  <2>1. SwitchAny(status)
    BY <1>3 DEF Preempt, PreemptSwitch
  <2>2. QED
    BY <1>1, <1>2, <2>1, SwitchCreatesNone
<1>4. CASE current # NULL
  <2> DEFINE st == [status EXCEPT ![current] = "READY"]
  <2>1. SwitchAny(st)
    BY <1>4 DEF Preempt, PreemptSwitch
  <2>2. /\ st \in [Thread -> Status]
        /\ status[Flusher] = "NEW" => st[Flusher] = "NEW"
    BY <1>2, <1>4 DEF Status
  <2> HIDE DEF st
  <2>3. QED
    BY <1>1, <2>1, <2>2, SwitchCreatesNone
<1>5. QED
  BY <1>3, <1>4

\* Another thread goes to sleep, or is woken from a sleep.
LEMMA InvOthers ==
    ASSUME Inv, OthersRun
    PROVE  Inv' /\ (status[Flusher] = "NEW" => status'[Flusher] = "NEW")
<1> USE DispatchAssumption, KLogAssumption
<1>1. /\ DispatchTypeOK /\ status \in [Thread -> Status]
      /\ current \in Thread \cup {NULL}
      /\ \A u \in Thread : status[u] = "RUNNING" <=> current = u
      /\ UNCHANGED semVars
  BY DEF Inv, TypeOK, DispatchTypeOK, OthersRun
<1>2. CASE current \in Thread \ {Flusher}
             /\ SwitchAny([status EXCEPT ![current] = "SLEEPING"])
  <2> DEFINE st == [status EXCEPT ![current] = "SLEEPING"]
  <2>1. SwitchAny(st)
    BY <1>2
  <2>2. /\ st \in [Thread -> Status]
        /\ \A u \in Thread : st[u] # "RUNNING"
        /\ \A u \in Thread : st[u] = "BLOCKING" <=> status[u] = "BLOCKING"
        /\ status[Flusher] = "NEW" => st[Flusher] = "NEW"
    BY <1>1, <1>2 DEF Status, Waiting
  <2> HIDE DEF st
  <2>3. /\ DispatchTypeOK'
        /\ \A u \in Thread : status'[u] = "BLOCKING" <=> status[u] = "BLOCKING"
    BY <2>1, <2>2, SwitchFacts
  <2>4. status[Flusher] = "NEW" => status'[Flusher] = "NEW"
    BY <2>1, <2>2, SwitchCreatesNone
  <2>5. QED
    BY <1>1, <2>3, <2>4, InvStatus
<1>3. ASSUME NEW t \in Thread, status[t] = "SLEEPING",
             status' = Woken(status, {t}), current' = current
      PROVE  Inv' /\ (status[Flusher] = "NEW" => status'[Flusher] = "NEW")
  <2>1. {t} \in SUBSET Thread /\ current \notin {t}
    BY <1>1, <1>3
  <2>2. /\ DispatchTypeOK'
        /\ \A u \in Thread : status'[u] = IF u \in {t} THEN "READY" ELSE status[u]
    BY <1>1, <1>3, <2>1, WakeFacts
  <2>3. \A u \in Thread : status'[u] = "BLOCKING" <=> status[u] = "BLOCKING"
    BY <1>3, <2>2
  <2>4. status[Flusher] = "NEW" => status'[Flusher] = "NEW"
    BY <1>3, <2>2
  <2>5. QED
    BY <1>1, <2>2, <2>3, <2>4, InvStatus
<1>4. QED
  BY <1>2, <1>3 DEF OthersRun

-----------------------------------------------------------------------------
(* The steps of the log.                                                   *)

\* The background thread runs only once it is created.
LEMMA FlusherFacts ==
    ASSUME LogInv, current = Flusher
    PROVE  /\ flushThread /\ status[Flusher] = "RUNNING"
           /\ value \in Int /\ Len(semq) \in Nat /\ Len(buf) \in Nat
           /\ Flusher \notin inWait => inWait = {}
           /\ value >= 0 \/ Flusher \notin inWait
           /\ place # "wait" => inWait = {} /\ value >= 0
<1>1. /\ status[Flusher] = "RUNNING" /\ value \in Int /\ Len(semq) \in Nat
      /\ Len(buf) \in Nat
  BY KLogAssumption, LogEmptyFacts
  DEF LogInv, LogTypeOK, Inv, TypeOK, DispatchTypeOK
<1>2. inWait \in SUBSET {Flusher} /\ flushThread
  BY <1>1 DEF LogInv, LogTypeOK, Loop
<1>3. \A i \in 1..Len(semq) : semq[i] = Flusher
  BY <1>2 DEF LogInv, Inv, TypeOK, ValueCountsWaiters, Queued
<1>4. ~Queued(Flusher)
  BY <1>1, KLogAssumption DEF LogInv, Inv, ValueCountsWaiters
<1>5. value >= 0
  <2>1. ~(1 \in 1..Len(semq))
    BY <1>3, <1>4 DEF Queued
  <2>2. Len(semq) = 0
    BY <1>1, <2>1
  <2>3. QED
    BY <1>1, <2>2 DEF LogInv, Inv, ValueCountsWaiters
<1>6. QED
  BY <1>1, <1>2, <1>5 DEF LogInv, Loop

\* Steps of the processor.
LEMMA LogSame ==
    ASSUME LogInv, Inv', UNCHANGED <<value, inWait>>, UNCHANGED logVars,
           status[Flusher] = "NEW" => status'[Flusher] = "NEW"
    PROVE  LogInv'
<1>1. UNCHANGED <<logged, buf, detached, printed, place, flushThread, halted>>
  BY DEF logVars
<1>2. LogTypeOK' /\ Loop' /\ (~halted => Listed)'
  BY <1>1 DEF LogInv, LogTypeOK, Loop, Listed
<1>3. SignalsMatchMessages' /\ CrashLosesOnlyDetached'
  BY <1>1 DEF LogInv, SignalsMatchMessages, CrashLosesOnlyDetached
<1>4. QED
  BY <1>2, <1>3 DEF LogInv

LEMMA LogStart ==
    ASSUME LogInv, ~halted, StartFlusher
    PROVE  LogInv'
<1>1. /\ status' = Woken(status, {Flusher}) /\ current' = current
      /\ current # Flusher /\ status[Flusher] = "NEW" /\ flushThread' = TRUE
      /\ UNCHANGED semVars
      /\ UNCHANGED <<logged, buf, detached, printed, place, halted>>
  BY DEF StartFlusher
<1>2. /\ DispatchTypeOK'
      /\ \A u \in Thread : status'[u] =
           IF u \in {Flusher} THEN "READY" ELSE status[u]
  <2>1. /\ DispatchTypeOK /\ {Flusher} \in SUBSET Thread
        /\ current \notin {Flusher}
    BY <1>1, KLogAssumption DEF LogInv, Inv, TypeOK
  <2>2. QED
    BY <1>1, <2>1, WakeFacts
<1>3. \A u \in Thread : status'[u] = "BLOCKING" <=> status[u] = "BLOCKING"
  BY <1>1, <1>2
<1>4. Inv'
  BY <1>1, <1>2, <1>3, InvStatus DEF LogInv
<1>5. UNCHANGED <<value, inWait>>
  BY <1>1 DEF semVars
<1>6. LogTypeOK' /\ Loop'
  BY <1>1, <1>5 DEF LogInv, LogTypeOK, Loop
<1>7. Listed' /\ SignalsMatchMessages' /\ CrashLosesOnlyDetached'
  BY <1>1, <1>5
  DEF LogInv, Listed, SignalsMatchMessages, CrashLosesOnlyDetached
<1>8. QED
  BY <1>4, <1>6, <1>7 DEF LogInv

\* Without the background thread both lists are empty, so the message that is
\* printed at once is the next in the order.
LEMMA LogPrintsDirectly ==
    ASSUME LogInv, ~halted, LogDirect
    PROVE  LogInv'
<1>1. /\ logged' = logged + 1 /\ printed' = Append(printed, logged + 1)
      /\ ~flushThread /\ UNCHANGED vars
      /\ UNCHANGED <<buf, detached, place, flushThread, halted>>
  BY DEF LogDirect
<1>2. /\ buf = <<>> /\ detached = <<>> /\ Len(buf) = 0 /\ Len(detached) = 0
      /\ printed \in Seq(Nat) /\ logged \in Nat /\ Len(printed) \in Nat
  BY <1>1, LogEmptyFacts DEF LogInv, LogTypeOK, Loop
<1>3. Inv' /\ UNCHANGED <<value, inWait, status>>
  BY <1>1, InvSame DEF LogInv, vars
<1>4. /\ printed' \in Seq(Nat) /\ Len(printed') = Len(printed) + 1
      /\ \A i \in 1..Len(printed) : printed'[i] = printed[i]
      /\ printed'[Len(printed) + 1] = logged + 1
  BY <1>1, <1>2, LogAppendFacts
<1>5. LogTypeOK' /\ Loop'
  BY <1>1, <1>2, <1>3, <1>4 DEF LogInv, LogTypeOK, Loop
<1>6. Listed'
  <2>1. Len(printed) = logged /\ \A i \in 1..Len(printed) : printed[i] = i
    BY <1>2 DEF LogInv, Listed
  <2>2. ASSUME NEW i \in 1..Len(printed') PROVE printed'[i] = i
    <3>1. i \in 1..Len(printed) \/ i = Len(printed) + 1
      BY <1>2, <1>4
    <3>2. QED
      BY <1>4, <2>1, <3>1
  <2>3. QED
    BY <1>1, <1>2, <1>4, <2>1, <2>2 DEF Listed
<1>7. SignalsMatchMessages' /\ CrashLosesOnlyDetached'
  BY <1>1, <1>3 DEF LogInv, SignalsMatchMessages, CrashLosesOnlyDetached
<1>8. QED
  BY <1>3, <1>5, <1>6, <1>7 DEF LogInv

\* One message more on the list, and one signal more.
LEMMA LogBuffers ==
    ASSUME LogInv, ~halted, LogBuffered
    PROVE  LogInv'
<1>1. /\ logged' = logged + 1 /\ buf' = Append(buf, logged + 1)
      /\ flushThread /\ Signal /\ value' = value + 1 /\ inWait' = inWait
      /\ UNCHANGED <<detached, printed, place, flushThread, halted>>
  BY DEF LogBuffered, Signal
<1>2. /\ buf \in Seq(Nat) /\ logged \in Nat /\ Len(buf) \in Nat
      /\ Len(printed) \in Nat /\ Len(detached) \in Nat /\ value \in Int
  BY LogEmptyFacts DEF LogInv, LogTypeOK, Inv, TypeOK
<1>3. Inv'
  BY <1>1, InvSignal DEF LogInv
<1>4. /\ buf' \in Seq(Nat) /\ Len(buf') = Len(buf) + 1
      /\ \A i \in 1..Len(buf) : buf'[i] = buf[i]
      /\ buf'[Len(buf) + 1] = logged + 1
  BY <1>1, <1>2, LogAppendFacts
<1>5. LogTypeOK' /\ Loop'
  BY <1>1, <1>2, <1>4 DEF LogInv, LogTypeOK, Loop
<1>6. Listed'
  <2>1. /\ Len(printed) + Len(detached) + Len(buf) = logged
        /\ \A i \in 1..Len(buf) : buf[i] = Len(printed) + Len(detached) + i
    BY DEF LogInv, Listed
  <2>2. ASSUME NEW i \in 1..Len(buf')
        PROVE  buf'[i] = Len(printed) + Len(detached) + i
    <3>1. i \in 1..Len(buf) \/ i = Len(buf) + 1
      BY <1>2, <1>4
    <3>2. QED
      BY <1>2, <1>4, <2>1, <3>1
  <2>3. QED
    BY <1>1, <1>2, <1>4, <2>1, <2>2 DEF LogInv, Listed
<1>7. SignalsMatchMessages'
  <2> DEFINE used == IF Flusher \in inWait \/ place \in {"locks", "flush"}
                     THEN 1 ELSE 0
  <2>1. value = Len(buf) - used /\ used \in Nat /\ used' = used
    BY <1>1 DEF LogInv, SignalsMatchMessages
  <2> HIDE DEF used
  <2>2. value' = Len(buf') - used'
    BY <1>1, <1>2, <1>4, <2>1
  <2>3. QED
    BY <2>2 DEF SignalsMatchMessages, used
<1>8. CrashLosesOnlyDetached'
  BY <1>1 DEF CrashLosesOnlyDetached
<1>9. QED
  BY <1>3, <1>5, <1>6, <1>7, <1>8 DEF LogInv

\* semaphore_wait uses the signal of one message.
LEMMA LogWaits ==
    ASSUME LogInv, ~halted, FlushWait
    PROVE  LogInv'
<1>1. /\ current = Flusher /\ place = "wait" /\ detached = <<>>
      /\ UNCHANGED <<logged, buf, detached, printed, flushThread, halted>>
  BY DEF FlushWait, FlusherAt, LogInv, Loop
<1>2. /\ flushThread /\ value \in Int /\ Len(buf) \in Nat
      /\ Flusher \notin inWait => inWait = {}
      /\ inWait \in SUBSET {Flusher}
      /\ value = Len(buf) - IF Flusher \in inWait THEN 1 ELSE 0
  BY <1>1, FlusherFacts DEF LogInv, SignalsMatchMessages, Loop
<1>3. CASE WaitTake(Flusher)
  <2>1. /\ Flusher \notin inWait /\ value > 0 /\ value' = value - 1
        /\ credit' = credit - 1 /\ UNCHANGED <<current, status, semq, inWait>>
        /\ place' = "locks"
    BY <1>1, <1>3 DEF FlushWait, WaitTake, WaitBlock, WaitReturn
  <2>2. Inv'
    BY <2>1, InvTakeOne DEF LogInv
  <2>3. LogTypeOK' /\ Loop' /\ Listed' /\ CrashLosesOnlyDetached'
    BY <1>1, <1>2, <2>1
    DEF LogInv, LogTypeOK, Loop, Listed, CrashLosesOnlyDetached
  <2>4. SignalsMatchMessages'
    BY <1>1, <1>2, <2>1 DEF SignalsMatchMessages
  <2>5. QED
    BY <2>2, <2>3, <2>4 DEF LogInv
<1>4. CASE WaitBlock(Flusher)
  <2>1. /\ Flusher \notin inWait /\ value' = value - 1
        /\ inWait' = {Flusher} /\ place' = "wait"
    BY <1>1, <1>2, <1>4 DEF FlushWait, WaitTake, WaitBlock, WaitReturn
  <2>2. Inv'
    BY <1>4, InvWaitBlock, KLogAssumption DEF LogInv
  <2>3. LogTypeOK' /\ Loop' /\ Listed' /\ CrashLosesOnlyDetached'
    BY <1>1, <1>2, <2>1
    DEF LogInv, LogTypeOK, Loop, Listed, CrashLosesOnlyDetached
  <2>4. SignalsMatchMessages'
    BY <1>1, <1>2, <2>1 DEF SignalsMatchMessages
  <2>5. QED
    BY <2>2, <2>3, <2>4 DEF LogInv
<1>5. CASE WaitReturn(Flusher)
  <2>1. /\ Flusher \in inWait /\ value' = value
        /\ inWait' = {} /\ place' = "locks"
    BY <1>1, <1>2, <1>5 DEF FlushWait, WaitTake, WaitBlock, WaitReturn
  <2>2. Inv'
    BY <1>5, InvWaitReturn, KLogAssumption DEF LogInv
  <2>3. LogTypeOK' /\ Loop' /\ Listed' /\ CrashLosesOnlyDetached'
    BY <1>1, <1>2, <2>1
    DEF LogInv, LogTypeOK, Loop, Listed, CrashLosesOnlyDetached
  <2>4. SignalsMatchMessages'
    BY <1>1, <1>2, <2>1 DEF SignalsMatchMessages
  <2>5. QED
    BY <2>2, <2>3, <2>4 DEF LogInv
<1>6. QED
  BY <1>3, <1>4, <1>5 DEF FlushWait

\* klog_flush takes the whole list, and all signals with it: the one that got
\* it here was of a message on the list.
LEMMA LogDetaches ==
    ASSUME LogInv, ~halted, FlushDetach
    PROVE  LogInv'
<1>1. /\ current = Flusher /\ place = "flush" /\ detached = <<>>
      /\ flushThread /\ inWait = {} /\ value >= 0 /\ value \in Int
  BY FlusherFacts DEF FlushDetach, FlusherAt, LogInv, Loop
<1>2. /\ DrainSemaphore /\ detached' = buf /\ buf' = <<>> /\ place' = "print"
      /\ UNCHANGED <<logged, printed, flushThread, halted>>
      /\ inWait' = {} /\ value' = 0 /\ status' = status
  BY <1>1 DEF FlushDetach, DrainSemaphore
<1>3. Inv'
  BY <1>2, InvDrain DEF LogInv
<1>4. /\ Len(detached) = 0 /\ Len(buf') = 0 /\ Len(buf) \in Nat
      /\ Len(printed) \in Nat /\ buf' \in Seq(Nat)
  BY <1>1, <1>2, LogEmptyFacts DEF LogInv, LogTypeOK
<1>5. LogTypeOK' /\ Loop'
  BY <1>1, <1>2, <1>4 DEF LogInv, LogTypeOK, Loop
<1>6. Listed'
  BY <1>2, <1>4 DEF LogInv, Listed
<1>7. SignalsMatchMessages' /\ CrashLosesOnlyDetached'
  BY <1>2, <1>4 DEF SignalsMatchMessages, CrashLosesOnlyDetached
<1>8. QED
  BY <1>3, <1>5, <1>6, <1>7 DEF LogInv

LEMMA LogPrints ==
    ASSUME LogInv, ~halted, FlushPrint
    PROVE  LogInv'
<1>1. /\ place = "print" /\ detached # <<>> /\ UNCHANGED vars
      /\ printed' = Append(printed, Head(detached)) /\ detached' = Tail(detached)
      /\ UNCHANGED <<logged, buf, place, flushThread, halted>>
  BY DEF FlushPrint, FlusherAt
<1>2. Inv' /\ UNCHANGED <<value, inWait, status>>
  BY <1>1, InvSame DEF LogInv, vars
<1>3. /\ printed \in Seq(Nat) /\ detached \in Seq(Nat) /\ Len(buf) \in Nat
      /\ Len(printed) \in Nat
  BY LogEmptyFacts DEF LogInv, LogTypeOK
<1>4. /\ Head(detached) \in Nat /\ Head(detached) = detached[1]
      /\ detached' \in Seq(Nat) /\ Len(detached) \in Nat \ {0}
      /\ Len(detached') = Len(detached) - 1
      /\ \A i \in 1..Len(detached') : detached'[i] = detached[i + 1]
  BY <1>1, <1>3, LogTailFacts
<1>5. /\ printed' \in Seq(Nat) /\ Len(printed') = Len(printed) + 1
      /\ \A i \in 1..Len(printed) : printed'[i] = printed[i]
      /\ printed'[Len(printed) + 1] = Head(detached)
  BY <1>1, <1>3, <1>4, LogAppendFacts
<1>6. LogTypeOK' /\ Loop'
  BY <1>1, <1>2, <1>4, <1>5 DEF LogInv, LogTypeOK, Loop
<1>7. Listed'
  <2>1. /\ \A i \in 1..Len(printed) : printed[i] = i
        /\ \A i \in 1..Len(detached) : detached[i] = Len(printed) + i
        /\ \A i \in 1..Len(buf) : buf[i] = Len(printed) + Len(detached) + i
        /\ Len(printed) + Len(detached) + Len(buf) = logged
    BY DEF LogInv, Listed
  <2>2. Head(detached) = Len(printed) + 1
    BY <1>4, <2>1
  <2>3. ASSUME NEW i \in 1..Len(printed') PROVE printed'[i] = i
    <3>1. i \in 1..Len(printed) \/ i = Len(printed) + 1
      BY <1>3, <1>5
    <3>2. QED
      BY <1>5, <2>1, <2>2, <3>1
  <2>4. ASSUME NEW i \in 1..Len(detached')
        PROVE  detached'[i] = Len(printed') + i
    <3>1. i + 1 \in 1..Len(detached)
      BY <1>4
    <3>2. QED
      BY <1>3, <1>4, <1>5, <2>1, <3>1
  <2>5. Len(printed') + Len(detached') = Len(printed) + Len(detached)
    BY <1>3, <1>4, <1>5
  <2>6. QED
    BY <1>1, <2>1, <2>3, <2>4, <2>5 DEF Listed
<1>8. SignalsMatchMessages' /\ CrashLosesOnlyDetached'
  BY <1>1, <1>2 DEF LogInv, SignalsMatchMessages, CrashLosesOnlyDetached
<1>9. QED
  BY <1>2, <1>6, <1>7, <1>8 DEF LogInv

LEMMA LogGoesOn ==
    ASSUME LogInv, ~halted, FlushLocked \/ FlushDone
    PROVE  LogInv'
<1>1. /\ UNCHANGED vars
      /\ UNCHANGED <<logged, buf, detached, printed, flushThread, halted>>
      /\ \/ place = "locks" /\ place' = "flush"
         \/ place = "print" /\ place' = "wait" /\ detached = <<>>
      /\ current = Flusher
  BY DEF FlushLocked, FlushDone, FlusherAt
<1>2. Inv' /\ UNCHANGED <<value, inWait, status>>
  BY <1>1, InvSame DEF LogInv, vars
<1>3. flushThread /\ inWait = {}
  BY <1>1, FlusherFacts
<1>4. LogTypeOK' /\ Loop' /\ Listed'
  BY <1>1, <1>2, <1>3 DEF LogInv, LogTypeOK, Loop, Listed
<1>5. SignalsMatchMessages' /\ CrashLosesOnlyDetached'
  BY <1>1, <1>2, <1>3
  DEF LogInv, SignalsMatchMessages, CrashLosesOnlyDetached
<1>6. QED
  BY <1>2, <1>4, <1>5 DEF LogInv

\* What the crash prints continues what was printed behind the gap that the
\* list of the background thread leaves.
LEMMA LogCrashes ==
    ASSUME LogInv, ~halted, CrashFlush
    PROVE  LogInv'
<1> DEFINE p == Len(printed)
           d == Len(detached)
           b == Len(buf)
<1>1. /\ halted' = TRUE /\ UNCHANGED <<logged, detached, place, flushThread>>
      /\ inWait' = inWait /\ status' = status
  BY DEF CrashFlush, DrainSemaphore, vars
<1>2. /\ Inv' /\ buf' = <<>>
      /\ printed' = printed \o buf
      /\ printed \in Seq(Nat) /\ detached \in Seq(Nat) /\ buf \in Seq(Nat)
  <2>1. printed \in Seq(Nat) /\ detached \in Seq(Nat) /\ buf \in Seq(Nat)
    BY DEF LogInv, LogTypeOK
  <2>2. CASE flushThread
    BY <2>1, <2>2, InvDrain DEF LogInv, CrashFlush
  <2>3. CASE ~flushThread
    <3>1. buf = <<>> /\ UNCHANGED <<vars, printed, buf>>
      BY <2>3 DEF LogInv, Loop, CrashFlush
    <3>2. printed \o buf = printed
      BY <2>1, <3>1, ConcatEmptySeq
    <3>3. Inv'
      BY <3>1, InvSame DEF LogInv
    <3>4. QED
      BY <2>1, <3>1, <3>2, <3>3
  <2>4. QED
    BY <2>2, <2>3
<1>3. p \in Nat /\ d \in Nat /\ b \in Nat
  BY <1>2, LogEmptyFacts
<1>4. /\ printed' \in Seq(Nat) /\ Len(printed') = p + b
      /\ \A i \in 1..p + b :
           printed'[i] = IF i <= p THEN printed[i] ELSE buf[i - p]
  <2>1. printed \in Seq(Nat) /\ buf \in Seq(Nat)
    BY <1>2
  <2>2. QED
    BY <1>2, <2>1, ConcatProperties
<1>5. LogTypeOK' /\ Loop'
  BY <1>1, <1>2, <1>4, LogEmptyFacts DEF LogInv, LogTypeOK, Loop
<1>6. /\ \A i \in 1..p : printed[i] = i
      /\ \A i \in 1..d : detached[i] = p + i
      /\ \A i \in 1..b : buf[i] = p + d + i
      /\ p + d + b = logged
  BY DEF LogInv, Listed
<1> HIDE DEF p, d, b
<1>7. p \in 0..logged /\ logged - d = p + b
  BY <1>3, <1>6
<1>8. ASSUME NEW i \in 1..p + b
      PROVE  printed'[i] = IF i <= p THEN i ELSE i + d
  <2>1. CASE i <= p
    BY <1>3, <1>4, <1>6, <2>1
  <2>2. CASE ~(i <= p)
    <3>1. i - p \in 1..b
      BY <1>3, <2>2
    <3>2. buf[i - p] = p + d + (i - p)
      BY <1>6, <3>1
    <3>3. QED
      BY <1>3, <1>4, <2>2, <3>2
  <2>3. QED
    BY <2>1, <2>2
<1>9. printed' = [i \in 1..(logged - d) |-> IF i <= p THEN i ELSE i + d]
  <2>1. printed' \in [1..(p + b) -> Nat]
    BY <1>4, LenProperties
  <2>2. QED
    BY <1>7, <1>8, <2>1
<1>10. detached = [i \in 1..d |-> p + i]
  <2>1. detached \in [1..d -> Nat]
    BY <1>2, LenProperties DEF d
  <2>2. QED
    BY <1>6, <2>1
<1>11. CrashLosesOnlyDetached'
  <2>1. d = Len(detached') /\ logged' = logged /\ detached' = detached
    BY <1>1 DEF d
  <2>2. QED
    BY <1>2, <1>7, <1>9, <1>10, <2>1 DEF CrashLosesOnlyDetached
<1>12. SignalsMatchMessages' /\ (~halted => Listed)'
  BY <1>1 DEF SignalsMatchMessages
<1>13. QED
  BY <1>2, <1>5, <1>11, <1>12 DEF LogInv

LEMMA LogInvNext == LogInv /\ [KLogNext]_allVars => LogInv'
<1> SUFFICES ASSUME LogInv, [KLogNext]_allVars PROVE LogInv'
  OBVIOUS
<1>1. CASE ~halted /\ (StartFlusher \/ LogDirect \/ LogBuffered \/ CrashFlush)
  BY <1>1, LogStart, LogPrintsDirectly, LogBuffers, LogCrashes
<1>2. CASE ~halted /\ FlusherStep
  BY <1>2, LogWaits, LogDetaches, LogPrints, LogGoesOn DEF FlusherStep
<1>3. CASE ~halted /\ OthersRun
  <2>1. UNCHANGED logVars /\ UNCHANGED <<value, inWait>>
    BY <1>3 DEF OthersRun, semVars
  <2>2. Inv' /\ (status[Flusher] = "NEW" => status'[Flusher] = "NEW")
    BY <1>3, InvOthers DEF LogInv
  <2>3. QED
    BY <2>1, <2>2, LogSame
<1>4. CASE ~halted /\ Tick
  <2>1. UNCHANGED logVars /\ UNCHANGED <<value, inWait>> /\ Preempt
    BY <1>4 DEF Tick, Preempt, semVars
  <2>2. Inv' /\ (status[Flusher] = "NEW" => status'[Flusher] = "NEW")
    BY <2>1, InvTick DEF LogInv
  <2>3. QED
    BY <2>1, <2>2, LogSame
<1>5. CASE UNCHANGED allVars
  <2>1. UNCHANGED logVars /\ UNCHANGED <<value, inWait>> /\ UNCHANGED vars
        /\ status' = status
    BY <1>5 DEF allVars, vars
  <2>2. Inv'
    BY <2>1, InvSame DEF LogInv
  <2>3. QED
    BY <2>1, <2>2, LogSame
<1>6. QED
  BY <1>1, <1>2, <1>3, <1>4, <1>5 DEF KLogNext

-----------------------------------------------------------------------------
(* What holds in every behaviour of the log.                               *)

\* The inductive invariant of the log and its semaphore together.
THEOREM LogInvariance == KLogSpec => []LogInv
<1>1. QED
  BY LogInvInit, LogInvNext, PTL DEF KLogSpec

\* The consoles get every message once and in the order of logging, whoever
\* logs while the background thread prints.
THEOREM MessagesInOrder == KLogSpec => []InOrderOnce
<1>1. LogInv => InOrderOnce
  BY ListedInOrder DEF LogInv, InOrderOnce
<1>2. QED
  BY <1>1, LogInvariance, PTL

\* The background thread never sleeps on a message, and draining the semaphore
\* loses no wake-up.
THEOREM NoMessageForgotten == KLogSpec => []SignalsMatchMessages
<1>1. LogInv => SignalsMatchMessages
  BY DEF LogInv
<1>2. QED
  BY <1>1, LogInvariance, PTL

\* A crash loses nothing but the list the background thread had taken.
THEOREM CrashPrintsRest == KLogSpec => []CrashLosesOnlyDetached
<1>1. LogInv => CrashLosesOnlyDetached
  BY DEF LogInv
<1>2. QED
  BY <1>1, LogInvariance, PTL

\* The semaphore of the log, drained and signalled from interrupts, still
\* accounts for every signal.
THEOREM LogCreditsMatch == KLogSpec => []CreditsMatch
<1>1. LogInv => CreditsMatch
  BY DEF LogInv, Inv
<1>2. QED
  BY <1>1, LogInvariance, PTL

\* And its value still counts the waiters.
THEOREM LogWaitersCounted == KLogSpec => []ValueCountsWaiters
<1>1. LogInv => ValueCountsWaiters
  BY DEF LogInv, Inv
<1>2. QED
  BY <1>1, LogInvariance, PTL

\* What the log, its background thread and the others do to the processor is
\* what Dispatch allows, the creation of that thread included.
THEOREM LogKeepsContract == KLogSpec => DispatchSpec
<1> USE DispatchAssumption, KLogAssumption
<1>1. KLogInit => DispatchInit
  BY DEF KLogInit, DispatchInit
<1>2. ASSUME LogInv, [KLogNext]_allVars PROVE [DispatchNext]_dispatchVars
  <2>1. DispatchTypeOK /\ {} \in SUBSET WaitingThreads
    BY <1>2 DEF LogInv, Inv, TypeOK
  <2>2. CASE StartFlusher
    BY <2>2 DEF StartFlusher, DispatchNext, DispatchCreate
  <2>3. CASE LogBuffered
    BY <1>2, <2>3, SignalWakesWaiter DEF LogBuffered, LogInv
  <2>4. CASE FlushWait
    <3>1. ASSUME WaitBlock(Flusher) PROVE DispatchNext
      BY <2>1, <3>1, BlockIsDispatch DEF WaitBlock
    <3>2. QED
      BY <2>4, <3>1 DEF FlushWait, WaitTake, WaitReturn, dispatchVars
  <2>5. CASE OthersRun
    <3>1. CASE current # NULL
               /\ SwitchAny([status EXCEPT ![current] = "SLEEPING"])
      <4> DEFINE st == [status EXCEPT ![current] = "SLEEPING"]
      <4>1. Woken(st, {}) = st
        BY <2>1 DEF Woken, DispatchTypeOK
      <4>2. SwitchAny(Woken(st, {})) /\ "SLEEPING" \in Status \ {"RUNNING"}
        BY <3>1, <4>1 DEF Status, Waiting
      <4>3. QED
        BY <2>1, <3>1, <4>2 DEF DispatchNext, DispatchLeave
    <3>2. ASSUME NEW t \in Thread, status[t] = "SLEEPING",
                 status' = Woken(status, {t}), current' = current
          PROVE  DispatchNext
      <4>1. {t} \in SUBSET WaitingThreads
        BY <3>2 DEF WaitingThreads, Waiting
      <4>2. QED
        BY <3>2, <4>1, WakeIsDispatch
    <3>3. QED
      BY <2>5, <3>1, <3>2 DEF OthersRun
  <2>6. CASE Tick
    BY <2>1, <2>6, PreemptIsDispatch DEF Tick, Preempt
  <2>7. CASE \/ LogDirect \/ FlushLocked \/ FlushDetach \/ FlushPrint
             \/ FlushDone \/ CrashFlush \/ UNCHANGED allVars
    BY <2>7 DEF LogDirect, FlushLocked, FlushDetach, FlushPrint, FlushDone,
                CrashFlush, DrainSemaphore, allVars, vars, dispatchVars
  <2>8. QED
    BY <1>2, <2>2, <2>3, <2>4, <2>5, <2>6, <2>7 DEF KLogNext, FlusherStep
<1>3. QED
  BY <1>1, <1>2, LogInvariance, PTL DEF KLogSpec, DispatchSpec
=============================================================================
