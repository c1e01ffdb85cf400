---------------------------- MODULE SerialProofs ----------------------------
(***************************************************************************)
(* Proofs about modules Mutex, CondVar and Serial, each of which extends   *)
(* the one before: of the mutexes alone, of mutexes and condition          *)
(* variables, and of the serial port that waits on them.  The first two    *)
(* hold for any threads, mutexes and variables, any binding of variables   *)
(* to mutexes and any lock order of the callers, and use no assumption of  *)
(* Serial; the third for rings of any size and lines of any length.        *)
(*                                                                         *)
(* No property of Mutex is inductive alone: a hand-off keeps the held      *)
(* lists exact only because the first waiter is not the releasing thread,  *)
(* which needs the queue to name exactly the blocked threads, which needs  *)
(* what each thread may be doing.  Inv is their conjunction.               *)
(*                                                                         *)
(* Inv does not hold of CondVar: a thread that waits on a variable is in   *)
(* the place "acquire" without being in the queue of a mutex, awake or     *)
(* not.  CondInv says where a thread is from inCond, and that is what      *)
(* makes the two queues a thread may be in, one after the other, exact.    *)
(*                                                                         *)
(* CondInv holds of Serial as well.  That lines mix only at waits needs it *)
(* for the mutex of the tty, and that a writer inside of its line either   *)
(* has that mutex and wrote last, or waited for room (KeepsLine).          *)
(***************************************************************************)
EXTENDS Serial, DispatchProofs, SequenceTheorems

(***************************************************************************)
(* The mutexes alone.                                                      *)
(***************************************************************************)

Inv ==
    /\ TypeOK
    /\ OwnershipByPlace
    /\ HeldListExact
    /\ WaitersHaveOwner
    /\ BlockedIffQueued

-----------------------------------------------------------------------------
(* The inductive invariant.                                                *)

\* Nobody has anything and every queue is empty.
LEMMA InvInit == Init => Inv
<1> SUFFICES ASSUME Init PROVE Inv
  OBVIOUS
<1>1. TypeOK
  BY DispatchAssumption
  DEF Init, TypeOK, DispatchTypeOK, Status, Waiting, PC
<1>2. QED
  BY <1>1, DispatchAssumption, MutexAssumption
  DEF Init, Inv, OwnershipByPlace, HeldListExact, WaitersHaveOwner,
      BlockedIffQueued, InQueue

\* The two ways of taking a free mutex.
LEMMA InvTake ==
    ASSUME Inv, NEW t \in Thread, NEW m \in Mutex,
           pc[t] = "client", ~taken[m], Take(t, m)
    PROVE  Inv'
<1> USE DispatchAssumption, MutexAssumption
<1>0. /\ owner[m] = NULL /\ target[t] = NULL
      /\ waitq[m] = <<>>
  BY DEF Inv, OwnershipByPlace, WaitersHaveOwner
<1>1. TypeOK'
  BY DEF Inv, TypeOK, Take, dispatchVars, DispatchTypeOK
<1>2. OwnershipByPlace'
  BY <1>0 DEF Inv, TypeOK, Take, dispatchVars, OwnershipByPlace
<1>3. HeldListExact'
  BY <1>0 DEF Inv, TypeOK, Take, dispatchVars, HeldListExact
<1>4. WaitersHaveOwner'
  BY <1>0 DEF Inv, TypeOK, Take, dispatchVars, WaitersHaveOwner, InQueue
<1>5. BlockedIffQueued'
  BY DEF Inv, TypeOK, Take, dispatchVars, BlockedIffQueued, InQueue
<1>6. QED
  BY <1>1, <1>2, <1>3, <1>4, <1>5 DEF Inv

\* A crash leaves the mutexes as they are.
LEMMA InvCrash ==
    ASSUME Inv, NEW m \in Mutex, NEW r \in {"recursive", "nonowner", "corrupted"},
           CrashWith(r, m)
    PROVE  Inv'
  BY DEF Inv, CrashWith, TypeOK, DispatchTypeOK, Crash, OwnershipByPlace,
         HeldListExact, WaitersHaveOwner, BlockedIffQueued, InQueue,
         dispatchVars, mutexVars, clientVars

\* The thread that blocks joins one queue, and the switch wakes no one.
LEMMA InvAcquireBlock ==
    ASSUME Inv, NEW t \in Thread, NEW m \in Mutex, AcquireBlock(t, m)
    PROVE  Inv'
<1> USE DispatchAssumption, MutexAssumption
<1> DEFINE st == Woken([status EXCEPT ![t] = "BLOCKING"], {})
<1>0. /\ current = t /\ pc[t] = "client" /\ target[t] = NULL
      /\ owner[m] # t /\ owner[m] \in Thread /\ taken[m]
  BY DEF Inv, TypeOK, AcquireBlock, MayCall, At, OwnershipByPlace
<1>1. /\ st \in [Thread -> Status]
      /\ \A u \in Thread : st[u] = IF u = t THEN "BLOCKING" ELSE status[u]
      /\ \A u \in Thread : st[u] # "RUNNING"
  <2>1. /\ status \in [Thread -> Status]
        /\ \A u \in Thread : u # t => status[u] # "RUNNING"
    BY <1>0 DEF Inv, TypeOK, DispatchTypeOK
  <2>2. st = [u \in Thread |-> IF u = t THEN "BLOCKING" ELSE status[u]]
    BY <2>1 DEF Woken
  <2>3. "BLOCKING" \in Status
    BY DEF Status, Waiting
  <2> HIDE DEF st
  <2>4. QED
    BY <2>1, <2>2, <2>3
<1>2. /\ DispatchTypeOK'
      /\ \A u \in Thread : status'[u] = "BLOCKING" <=> st[u] = "BLOCKING"
  <2>1. SwitchAny(st)
    BY DEF AcquireBlock, BlockSwitch
  <2> HIDE DEF st
  <2>2. QED
    BY <1>1, <2>1, SwitchFacts
<1> HIDE DEF st
<1>3. /\ waitq' = [waitq EXCEPT ![m] = Append(waitq[m], t)]
      /\ pc' = [pc EXCEPT ![t] = "acquire"]
      /\ target' = [target EXCEPT ![t] = m]
      /\ UNCHANGED <<taken, owner, held, has, crashed>>
  BY DEF AcquireBlock
<1>4. waitq[m] \in Seq(Thread)
  BY DEF Inv, TypeOK
<1>5. TypeOK'
  BY <1>2, <1>3, <1>4, AppendFacts DEF Inv, TypeOK, PC
<1>6. OwnershipByPlace'
  <2>1. ASSUME NEW u \in Thread
        PROVE  /\ (pc[u] = "client" <=> target[u] = NULL)'
               /\ (pc[u] = "release" => owner[target[u]] = u)'
               /\ (pc[u] = "acquire" /\ status[u] # "BLOCKING"
                    => owner[target[u]] = u)'
    BY <1>0, <1>1, <1>2, <1>3 DEF Inv, TypeOK, OwnershipByPlace
  <2>2. ASSUME NEW u \in Thread
        PROVE  (has[u] = {n \in Mutex : owner[n] = u /\ n # target[u]})'
    BY <1>0, <1>3 DEF Inv, TypeOK, OwnershipByPlace
  <2>3. \A n \in Mutex : (taken[n] <=> owner[n] # NULL)'
    BY <1>3 DEF Inv, OwnershipByPlace
  <2>4. QED
    BY <2>1, <2>2, <2>3 DEF OwnershipByPlace
<1>7. HeldListExact'
  BY <1>0, <1>3 DEF Inv, TypeOK, HeldListExact
<1>8. \A n \in Mutex, u \in Thread :
        InQueue(n, u)' <=> InQueue(n, u) \/ (n = m /\ u = t)
  <2>1. ASSUME NEW n \in Mutex, NEW u \in Thread
        PROVE  InQueue(n, u)' <=> InQueue(n, u) \/ (n = m /\ u = t)
    <3>1. CASE n = m
      BY <1>3, <1>4, <3>1, AppendMembers DEF Inv, TypeOK, InQueue
    <3>2. CASE n # m
      BY <1>3, <3>2 DEF Inv, TypeOK, InQueue
    <3>3. QED
      BY <3>1, <3>2
  <2>2. QED
    BY <2>1
<1>9. WaitersHaveOwner'
  <2>1. ASSUME NEW n \in Mutex, waitq'[n] # <<>>
        PROVE  taken[n] /\ owner[n] \in Thread
    BY <1>0, <1>3, <2>1 DEF Inv, TypeOK, WaitersHaveOwner
  <2>2. ASSUME NEW n \in Mutex, waitq'[n] # <<>>
        PROVE  ~InQueue(n, owner[n])
    <3>1. CASE waitq[n] # <<>>
      BY <3>1 DEF Inv, WaitersHaveOwner
    <3>2. CASE waitq[n] = <<>>
      BY <3>2 DEF InQueue
    <3>3. QED
      BY <3>1, <3>2
  <2>3. ASSUME NEW n \in Mutex, waitq'[n] # <<>>
        PROVE  ~InQueue(n, owner[n])'
    <3>1. ~(n = m /\ owner[n] = t) /\ owner'[n] = owner[n]
      BY <1>0, <1>3
    <3>2. QED
      BY <1>3, <1>8, <2>1, <2>2, <2>3, <3>1 DEF InQueue
  <2>4. QED
    BY <1>3, <2>1, <2>3, DispatchAssumption DEF WaitersHaveOwner
<1>10. ~InQueue(m, t)
  BY <1>0 DEF Inv, BlockedIffQueued
<1>11. BlockedIffQueued'
  <2>1. \A u \in Thread, n \in Mutex :
          InQueue(n, u)' <=> (pc[u] = "acquire" /\ target[u] = n
                                /\ status[u] = "BLOCKING")'
    <3>1. ASSUME NEW n \in Mutex
          PROVE  InQueue(n, t)' <=> (pc[t] = "acquire" /\ target[t] = n
                                       /\ status[t] = "BLOCKING")'
      <4>1. ~InQueue(n, t)
        BY <1>0 DEF Inv, BlockedIffQueued
      <4>2. pc'[t] = "acquire" /\ target'[t] = m /\ status'[t] = "BLOCKING"
        BY <1>1, <1>2, <1>3 DEF Inv, TypeOK
      <4>3. QED
        BY <1>8, <4>1, <4>2
    <3>2. ASSUME NEW n \in Mutex, NEW u \in Thread, u # t
          PROVE  InQueue(n, u)' <=> (pc[u] = "acquire" /\ target[u] = n
                                       /\ status[u] = "BLOCKING")'
      <4>1. /\ pc'[u] = pc[u] /\ target'[u] = target[u]
            /\ status'[u] = "BLOCKING" <=> status[u] = "BLOCKING"
        BY <1>1, <1>2, <1>3, <3>2 DEF Inv, TypeOK
      <4>2. InQueue(n, u)' <=> InQueue(n, u)
        BY <1>8, <3>2
      <4>3. QED
        BY <4>1, <4>2 DEF Inv, BlockedIffQueued
    <3>3. QED
      BY <3>1, <3>2
  <2>2. \A u \in Thread : (status[u] = "BLOCKING" => pc[u] = "acquire")'
    BY <1>1, <1>2, <1>3 DEF Inv, TypeOK, BlockedIffQueued
  <2>3. ASSUME NEW n \in Mutex,
               NEW i \in 1..Len(waitq'[n]), NEW j \in 1..Len(waitq'[n]),
               waitq'[n][i] = waitq'[n][j]
        PROVE  i = j
    <3>1. CASE n # m
      BY <1>3, <2>3, <3>1 DEF Inv, TypeOK, BlockedIffQueued
    <3>2. CASE n = m
      BY <1>3, <1>4, <1>10, <2>3, <3>2, AppendFacts
      DEF Inv, TypeOK, BlockedIffQueued, InQueue
    <3>3. QED
      BY <3>1, <3>2
  <2>4. QED
    BY <2>1, <2>2, <2>3 DEF BlockedIffQueued
<1>12. QED
  BY <1>5, <1>6, <1>7, <1>9, <1>11 DEF Inv

\* The woken waiter owns the mutex already, and now its caller knows.
LEMMA InvAcquireReturn ==
    ASSUME Inv, NEW t \in Thread, AcquireReturn(t)
    PROVE  Inv'
<1> USE DispatchAssumption, MutexAssumption
<1>1. /\ current = t /\ pc[t] = "acquire" /\ status[t] = "RUNNING"
      /\ target[t] \in Mutex /\ owner[target[t]] = t
  BY DEF Inv, TypeOK, DispatchTypeOK, AcquireReturn, At, OwnershipByPlace
<1>2. TypeOK'
  BY <1>1 DEF Inv, TypeOK, AcquireReturn, dispatchVars, mutexVars,
              DispatchTypeOK, PC
<1>3. OwnershipByPlace'
  BY <1>1 DEF Inv, TypeOK, AcquireReturn, dispatchVars, mutexVars, OwnershipByPlace
<1>4. HeldListExact'
  BY <1>1 DEF Inv, TypeOK, AcquireReturn, dispatchVars, mutexVars, HeldListExact
<1>5. WaitersHaveOwner'
  BY DEF Inv, AcquireReturn, dispatchVars, mutexVars, WaitersHaveOwner, InQueue
<1>6. BlockedIffQueued'
  <2>1. UNCHANGED <<waitq, status>>
    BY DEF AcquireReturn, dispatchVars, mutexVars
  <2>2. /\ pc \in [Thread -> PC] /\ pc' = [pc EXCEPT ![t] = "client"]
        /\ target \in [Thread -> Mutex \cup {NULL}]
        /\ target' = [target EXCEPT ![t] = NULL]
    BY DEF Inv, TypeOK, AcquireReturn
  <2>3. \A u \in Thread : status[u] = "BLOCKING" =>
                             u # t /\ pc'[u] = pc[u] /\ target'[u] = target[u]
    BY <1>1, <2>2
  <2>4. ASSUME NEW u \in Thread, status[u] # "BLOCKING", NEW m \in Mutex
        PROVE  ~InQueue(m, u)
    BY <2>4 DEF Inv, BlockedIffQueued
  <2>5. ASSUME NEW u \in Thread, NEW m \in Mutex
        PROVE  InQueue(m, u)' <=>
                 (pc[u] = "acquire" /\ target[u] = m /\ status[u] = "BLOCKING")'
    <3>1. InQueue(m, u)' <=> InQueue(m, u)
      BY <2>1 DEF InQueue
    <3>2. CASE status[u] = "BLOCKING"
      <4>1. InQueue(m, u) <=> pc[u] = "acquire" /\ target[u] = m
        BY <3>2 DEF Inv, BlockedIffQueued
      <4>2. QED
        BY <2>1, <2>3, <3>1, <3>2, <4>1
    <3>3. CASE status[u] # "BLOCKING"
      BY <2>1, <2>4, <3>1, <3>3
    <3>4. QED
      BY <3>2, <3>3
  <2>6. \A u \in Thread : (status[u] = "BLOCKING" => pc[u] = "acquire")'
    BY <2>1, <2>3 DEF Inv, BlockedIffQueued
  <2>7. (\A m \in Mutex : \A i, j \in 1..Len(waitq[m]) :
           waitq[m][i] = waitq[m][j] => i = j)'
    BY <2>1 DEF Inv, BlockedIffQueued
  <2>8. QED
    BY <2>5, <2>6, <2>7 DEF BlockedIffQueued
<1>7. QED
  BY <1>2, <1>3, <1>4, <1>5, <1>6 DEF Inv

\* The held list loses the mutex, and the releasing thread is known by pc.
LEMMA InvUnlink ==
    ASSUME Inv, NEW t \in Thread, NEW m \in Mutex, ReleaseUnlink(t, m)
    PROVE  Inv'
<1> USE DispatchAssumption, MutexAssumption
<1>1. CASE \E r \in {"nonowner", "corrupted"} : CrashWith(r, m)
  BY <1>1, InvCrash
<1>2. CASE /\ owner[m] = t
           /\ held' = [held EXCEPT ![t] = @ \ {m}]
           /\ has' = [has EXCEPT ![t] = @ \ {m}]
           /\ pc' = [pc EXCEPT ![t] = "release"]
           /\ target' = [target EXCEPT ![t] = m]
           /\ UNCHANGED <<dispatchVars, taken, owner, waitq, crashed>>
  <2>1. pc[t] = "client" /\ target[t] = NULL /\ status[t] # "BLOCKING"
    BY DEF Inv, TypeOK, DispatchTypeOK, ReleaseUnlink, At, OwnershipByPlace
  <2>2. TypeOK'
    BY <1>2 DEF Inv, TypeOK, dispatchVars, DispatchTypeOK, PC
  <2>3. OwnershipByPlace'
    BY <1>2, <2>1 DEF Inv, TypeOK, dispatchVars, OwnershipByPlace
  <2>4. HeldListExact'
    BY <1>2, <2>1 DEF Inv, TypeOK, HeldListExact
  <2>5. WaitersHaveOwner'
    BY <1>2 DEF Inv, WaitersHaveOwner, InQueue
  <2>6. BlockedIffQueued'
    BY <1>2, <2>1 DEF Inv, TypeOK, dispatchVars, BlockedIffQueued, InQueue
  <2>7. QED
    BY <2>2, <2>3, <2>4, <2>5, <2>6 DEF Inv
<1>3. QED
  BY <1>1, <1>2 DEF ReleaseUnlink

\* A tick only moves the processor: the preempted thread stays ready.
LEMMA InvPreempt == ASSUME Inv, Preempt PROVE Inv'
<1> USE DispatchAssumption, MutexAssumption
<1> DEFINE st == IF current = NULL THEN status
                                   ELSE [status EXCEPT ![current] = "READY"]
<1>1. SwitchAny(st)
  BY DEF Preempt, PreemptSwitch
<1>2. /\ st \in [Thread -> Status]
      /\ \A u \in Thread : st[u] # "RUNNING"
      /\ \A u \in Thread : st[u] = "BLOCKING" <=> status[u] = "BLOCKING"
  BY DEF Inv, TypeOK, DispatchTypeOK, Status
<1> HIDE DEF st
<1>3. /\ DispatchTypeOK'
      /\ \A u \in Thread : status'[u] = "BLOCKING" <=> status[u] = "BLOCKING"
  BY <1>1, <1>2, SwitchFacts
<1>4. UNCHANGED <<taken, owner, held, waitq, pc, target, has, crashed>>
  BY DEF Preempt, mutexVars, clientVars
<1>5. TypeOK'
  BY <1>3, <1>4 DEF Inv, TypeOK
<1>6. QED
  BY <1>3, <1>4, <1>5 DEF Inv, OwnershipByPlace, HeldListExact,
     WaitersHaveOwner, BlockedIffQueued, InQueue

\* The mutex goes to the first waiter w, which is not the releasing thread.
LEMMA InvHandOff ==
    ASSUME Inv, NEW t \in Thread, NEW m \in Mutex, NEW w \in Thread,
           ReleaseHandOff(t), m = target[t],
           waitq[m] # <<>>, w = Head(waitq[m])
    PROVE  Inv'
<1> USE DispatchAssumption, MutexAssumption
<1>1. /\ current = t /\ pc[t] = "release" /\ m \in Mutex /\ owner[m] = t
      /\ status[t] = "RUNNING" /\ taken[m]
  BY DEF Inv, TypeOK, DispatchTypeOK, ReleaseHandOff, At, OwnershipByPlace
<1>2. /\ pc' = [pc EXCEPT ![t] = "client"]
      /\ target' = [target EXCEPT ![t] = NULL]
      /\ owner' = [owner EXCEPT ![m] = w]
      /\ held' = [held EXCEPT ![w] = @ \cup {m}]
      /\ waitq' = [waitq EXCEPT ![m] = Tail(@)]
      /\ status' = Woken(status, {w})
      /\ UNCHANGED <<taken, current, has, crashed>>
  BY DEF ReleaseHandOff
<1>3. /\ waitq[m] \in Seq(Thread) /\ waitq[m] # <<>>
      /\ Len(waitq[m]) \in Nat \ {0}
  BY <1>1, TailFacts DEF Inv, TypeOK
<1>4. w \in Thread /\ w = waitq[m][1] /\ InQueue(m, w)
  BY <1>3, TailFacts DEF InQueue
<1>5. pc[w] = "acquire" /\ target[w] = m /\ status[w] = "BLOCKING" /\ w # t
  BY <1>1, <1>4 DEF Inv, BlockedIffQueued
<1>6. /\ status' \in [Thread -> Status] /\ status'[w] = "READY"
      /\ \A u \in Thread : u # w => status'[u] = status[u]
  BY <1>2, <1>4 DEF Inv, TypeOK, DispatchTypeOK, Woken, Status
<1>7. TypeOK'
  <2>1. DispatchTypeOK'
    BY <1>1, <1>2, <1>4, <1>5, <1>6 DEF Inv, TypeOK, DispatchTypeOK
  <2>2. Tail(waitq[m]) \in Seq(Thread)
    BY <1>3, TailFacts
  <2>3. waitq' \in [Mutex -> Seq(Thread)]
    BY <1>2, <2>2 DEF Inv, TypeOK
  <2>4. QED
    BY <1>1, <1>2, <1>4, <2>1, <2>3 DEF Inv, TypeOK, PC
<1>8. OwnershipByPlace'
  <2>1. ASSUME NEW u \in Thread
        PROVE  /\ (pc[u] = "client" <=> target[u] = NULL)'
               /\ (pc[u] = "release" => owner[target[u]] = u)'
               /\ (pc[u] = "acquire" /\ status[u] # "BLOCKING"
                    => owner[target[u]] = u)'
    <3>1. CASE u = w
      BY <1>1, <1>2, <1>5, <3>1 DEF Inv, TypeOK
    <3>2. CASE u = t
      BY <1>1, <1>2, <1>5, <3>2 DEF Inv, TypeOK
    <3>3. CASE u # w /\ u # t
      <4>1. /\ pc'[u] = pc[u] /\ target'[u] = target[u]
            /\ status'[u] = status[u]
        BY <1>2, <1>6, <3>3 DEF Inv, TypeOK
      <4>2. ASSUME owner[target[u]] = u, target[u] \in Mutex
            PROVE  owner'[target[u]] = u
        BY <1>1, <1>2, <3>3, <4>2 DEF Inv, TypeOK
      <4>3. pc[u] # "client" => target[u] \in Mutex
        BY DEF Inv, TypeOK, OwnershipByPlace
      <4>4. QED
        BY <4>1, <4>2, <4>3 DEF Inv, OwnershipByPlace
    <3>4. QED
      BY <3>1, <3>2, <3>3
  <2>2. ASSUME NEW u \in Thread
        PROVE  (has[u] = {n \in Mutex : owner[n] = u /\ n # target[u]})'
    BY <1>1, <1>2, <1>4, <1>5 DEF Inv, TypeOK, OwnershipByPlace
  <2>3. \A n \in Mutex : (taken[n] <=> owner[n] # NULL)'
    BY <1>1, <1>2, <1>4 DEF Inv, TypeOK, OwnershipByPlace
  <2>4. QED
    BY <2>1, <2>2, <2>3 DEF OwnershipByPlace
<1>9. HeldListExact'
  BY <1>1, <1>2, <1>4, <1>5 DEF Inv, TypeOK, HeldListExact
<1>10. \A n \in Mutex, u \in Thread :
         InQueue(n, u)' <=> InQueue(n, u) /\ ~(n = m /\ u = w)
  <2>1. ASSUME NEW u \in Thread
        PROVE  InQueue(m, u)' <=> InQueue(m, u) /\ u # w
    <3>1. waitq'[m] = Tail(waitq[m])
      BY <1>1, <1>2 DEF Inv, TypeOK
    <3>2. \A i, j \in 1..Len(waitq[m]) : waitq[m][i] = waitq[m][j] => i = j
      BY <1>1 DEF Inv, BlockedIffQueued
    <3>3. ASSUME NEW i \in 1..Len(waitq'[m]), waitq'[m][i] = u
          PROVE  InQueue(m, u) /\ u # w
      <4>1. i + 1 \in 1..Len(waitq[m]) /\ waitq[m][i + 1] = u
        BY <1>3, <3>1, <3>3, TailFacts
      <4>2. 1 \in 1..Len(waitq[m]) /\ i + 1 # 1
        BY <1>3, <3>1, TailFacts
      <4>3. QED
        BY <1>4, <3>2, <4>1, <4>2 DEF InQueue
    <3>4. ASSUME NEW i \in 1..Len(waitq[m]), waitq[m][i] = u, u # w
          PROVE  InQueue(m, u)'
      <4>1. i - 1 \in 1..Len(waitq'[m]) /\ waitq'[m][i - 1] = u
        BY <1>3, <1>4, <3>1, <3>4, TailFacts
      <4>2. QED
        BY <4>1 DEF InQueue
    <3>5. QED
      BY <3>3, <3>4 DEF InQueue
  <2>2. ASSUME NEW n \in Mutex, NEW u \in Thread, n # m
        PROVE  InQueue(n, u)' <=> InQueue(n, u)
    BY <1>2, <2>2 DEF Inv, TypeOK, InQueue
  <2>3. QED
    BY <2>1, <2>2
<1>11. WaitersHaveOwner'
  <2>1. ASSUME NEW n \in Mutex, n # m, waitq'[n] # <<>>
        PROVE  taken'[n] /\ owner'[n] # NULL /\ ~InQueue(n, owner[n])'
    <3>1. /\ waitq[n] # <<>> /\ owner'[n] = owner[n] /\ taken'[n] = taken[n]
          /\ owner[n] \in Thread
      BY <1>2, <2>1 DEF Inv, TypeOK, WaitersHaveOwner
    <3>2. ~InQueue(n, owner[n])
      BY <3>1 DEF Inv, WaitersHaveOwner
    <3>3. QED
      BY <1>10, <2>1, <3>1, <3>2 DEF Inv, WaitersHaveOwner, InQueue
  <2>2. taken'[m] /\ owner'[m] # NULL /\ ~InQueue(m, owner[m])'
    <3>1. owner'[m] = w /\ taken'[m]
      BY <1>1, <1>2 DEF Inv, TypeOK
    <3>2. ~InQueue(m, w)'
      BY <1>1, <1>4, <1>10
    <3>3. QED
      BY <1>4, <3>1, <3>2 DEF InQueue
  <2>3. QED
    BY <2>1, <2>2 DEF WaitersHaveOwner
<1>12. BlockedIffQueued'
  <2>1. ASSUME NEW u \in Thread, NEW n \in Mutex
        PROVE  (InQueue(n, u) <=> pc[u] = "acquire" /\ target[u] = n
                                    /\ status[u] = "BLOCKING")'
    <3>1. InQueue(n, u) <=> pc[u] = "acquire" /\ target[u] = n
                              /\ status[u] = "BLOCKING"
      BY DEF Inv, BlockedIffQueued
    <3>2. CASE u = w
      BY <1>1, <1>2, <1>5, <1>6, <1>10, <3>1, <3>2 DEF Inv, TypeOK
    <3>3. CASE u = t
      BY <1>1, <1>2, <1>5, <1>10, <3>1, <3>3 DEF Inv, TypeOK
    <3>4. CASE u # w /\ u # t
      BY <1>2, <1>6, <1>10, <3>1, <3>4 DEF Inv, TypeOK
    <3>5. QED
      BY <3>2, <3>3, <3>4
  <2>2. \A u \in Thread : (status[u] = "BLOCKING" => pc[u] = "acquire")'
    <3>1. ASSUME NEW u \in Thread, status'[u] = "BLOCKING"
          PROVE  u # w /\ u # t /\ pc[u] = "acquire"
      BY <1>1, <1>5, <1>6, <3>1 DEF Inv, BlockedIffQueued
    <3>2. QED
      BY <1>2, <3>1 DEF Inv, TypeOK
  <2>3. ASSUME NEW n \in Mutex,
               NEW i \in 1..Len(waitq'[n]), NEW j \in 1..Len(waitq'[n]),
               waitq'[n][i] = waitq'[n][j]
        PROVE  i = j
    <3>1. CASE n # m
      BY <1>2, <2>3, <3>1 DEF Inv, TypeOK, BlockedIffQueued
    <3>2. CASE n = m
      <4>1. /\ i + 1 \in 1..Len(waitq[m]) /\ j + 1 \in 1..Len(waitq[m])
            /\ waitq[m][i + 1] = waitq[m][j + 1]
        BY <1>1, <1>2, <1>3, <2>3, <3>2, TailFacts DEF Inv, TypeOK
      <4>2. i + 1 = j + 1
        BY <1>1, <4>1 DEF Inv, BlockedIffQueued
      <4>3. QED
        BY <4>2
    <3>3. QED
      BY <3>1, <3>2
  <2>4. QED
    BY <2>1, <2>2, <2>3 DEF BlockedIffQueued
<1>13. QED
  BY <1>7, <1>8, <1>9, <1>11, <1>12 DEF Inv

\* Nobody waits: the mutex becomes free.
LEMMA InvFree ==
    ASSUME Inv, NEW t \in Thread, NEW m \in Mutex,
           ReleaseHandOff(t), m = target[t], waitq[m] = <<>>
    PROVE  Inv'
<1> USE DispatchAssumption, MutexAssumption
<1>1. /\ current = t /\ pc[t] = "release" /\ m \in Mutex /\ owner[m] = t
      /\ status[t] = "RUNNING" /\ waitq[m] = <<>>
  BY DEF Inv, TypeOK, DispatchTypeOK, ReleaseHandOff, At, OwnershipByPlace
<1>2. /\ pc' = [pc EXCEPT ![t] = "client"]
      /\ target' = [target EXCEPT ![t] = NULL]
      /\ owner' = [owner EXCEPT ![m] = NULL]
      /\ taken' = [taken EXCEPT ![m] = FALSE]
      /\ UNCHANGED <<held, waitq, status, current, has, crashed>>
  BY DEF ReleaseHandOff
<1>3. TypeOK'
  BY <1>1, <1>2 DEF Inv, TypeOK, DispatchTypeOK, PC
<1>4. OwnershipByPlace'
  <2>1. ASSUME NEW u \in Thread
        PROVE  /\ (pc[u] = "client" <=> target[u] = NULL)'
               /\ (pc[u] = "release" => owner[target[u]] = u)'
               /\ (pc[u] = "acquire" /\ status[u] # "BLOCKING"
                    => owner[target[u]] = u)'
    BY <1>1, <1>2 DEF Inv, TypeOK, OwnershipByPlace
  <2>2. ASSUME NEW u \in Thread
        PROVE  (has[u] = {n \in Mutex : owner[n] = u /\ n # target[u]})'
    BY <1>1, <1>2 DEF Inv, TypeOK, OwnershipByPlace
  <2>3. \A n \in Mutex : (taken[n] <=> owner[n] # NULL)'
    BY <1>1, <1>2 DEF Inv, TypeOK, OwnershipByPlace
  <2>4. QED
    BY <2>1, <2>2, <2>3 DEF OwnershipByPlace
<1>5. HeldListExact'
  BY <1>1, <1>2 DEF Inv, TypeOK, HeldListExact
<1>6. WaitersHaveOwner'
  BY <1>1, <1>2 DEF Inv, TypeOK, WaitersHaveOwner, InQueue
<1>7. BlockedIffQueued'
  BY <1>1, <1>2 DEF Inv, TypeOK, BlockedIffQueued, InQueue
<1>8. QED
  BY <1>3, <1>4, <1>5, <1>6, <1>7 DEF Inv

\* Every step of Next, and a stutter, keep the invariant.
LEMMA InvNext == Inv /\ [Next]_vars => Inv'
<1> SUFFICES ASSUME Inv, [Next]_vars PROVE Inv'
  OBVIOUS
<1>1. ASSUME NEW t \in Thread, NEW m \in Mutex, AcquireRecursive(t, m)
      PROVE  Inv'
  BY <1>1, InvCrash DEF AcquireRecursive
<1>2. ASSUME NEW t \in Thread, NEW m \in Mutex, AcquireFree(t, m)
      PROVE  Inv'
  BY <1>2, InvTake DEF AcquireFree, MayCall, At
<1>3. ASSUME NEW t \in Thread, NEW m \in Mutex, AcquireBlock(t, m)
      PROVE  Inv'
  BY <1>3, InvAcquireBlock
<1>4. ASSUME NEW t \in Thread, NEW m \in Mutex, TryAcquire(t, m)
      PROVE  Inv'
  BY <1>4, InvTake, InvCrash DEF TryAcquire, At
<1>5. ASSUME NEW t \in Thread, NEW m \in Mutex, ReleaseUnlink(t, m)
      PROVE  Inv'
  BY <1>5, InvUnlink
<1>6. ASSUME NEW t \in Thread, AcquireReturn(t)
      PROVE  Inv'
  BY <1>6, InvAcquireReturn
<1>7. ASSUME NEW t \in Thread, ReleaseHandOff(t)
      PROVE  Inv'
  <2>1. target[t] \in Mutex
    BY <1>7, DispatchAssumption
    DEF Inv, TypeOK, ReleaseHandOff, At, OwnershipByPlace
  <2>2. CASE waitq[target[t]] # <<>>
    <3>1. Head(waitq[target[t]]) \in Thread
      BY <2>1, <2>2, TailFacts DEF Inv, TypeOK
    <3>2. QED
      BY <1>7, <2>1, <2>2, <3>1, InvHandOff
  <2>3. CASE waitq[target[t]] = <<>>
    BY <1>7, <2>1, <2>3, InvFree
  <2>4. QED
    BY <2>2, <2>3
<1>8. CASE Preempt
  BY <1>8, InvPreempt
<1>9. CASE UNCHANGED vars
  BY <1>9 DEF vars, Inv, TypeOK, DispatchTypeOK, OwnershipByPlace,
     HeldListExact, WaitersHaveOwner, BlockedIffQueued, InQueue
<1>10. QED
  BY <1>1, <1>2, <1>3, <1>4, <1>5, <1>6, <1>7, <1>8, <1>9 DEF Next, Halted

-----------------------------------------------------------------------------
(* The theorems.                                                           *)

\* Every reachable state of the mutexes, at every size, satisfies Inv.
THEOREM Invariance == Spec => []Inv
<1>1. QED
  BY InvInit, InvNext, PTL DEF Spec

\* The variables keep their types; the running thread is the only one whose
\* status says so.
THEOREM TypeCorrect == Spec => []TypeOK
<1>1. Inv => TypeOK
  BY DEF Inv
<1>2. QED
  BY <1>1, Invariance, PTL

\* Two threads never both hold a mutex they acquired, although a woken
\* waiter returns from mutex_acquire without another look at it.
THEOREM Exclusion == Spec => []MutualExclusion
<1>1. Inv => MutualExclusion
  BY DEF Inv, OwnershipByPlace, MutualExclusion
<1>2. QED
  BY <1>1, Invariance, PTL

\* The held list of every thread agrees with the owner fields at all times
\* but for the window inside mutex_release.
THEOREM HeldLists == Spec => []HeldListExact
<1>1. Inv => HeldListExact
  BY DEF Inv
<1>2. QED
  BY <1>1, Invariance, PTL

\* What a thread may conclude from where it is: a woken waiter owns the mutex
\* although nobody looked at it again, a releasing thread owns it until the
\* spinlock, and taken agrees with owner.
THEOREM WokenOwns == Spec => []OwnershipByPlace
<1>1. Inv => OwnershipByPlace
  BY DEF Inv
<1>2. QED
  BY <1>1, Invariance, PTL

\* A queue of waiters always has an owner outside it who will hand it on.
THEOREM NoStrandedWaiter == Spec => []WaitersHaveOwner
<1>1. Inv => WaitersHaveOwner
  BY DEF Inv
<1>2. QED
  BY <1>1, Invariance, PTL

\* A thread is blocked exactly while it is once in one wait queue.
THEOREM BlockedAreQueued == Spec => []BlockedIffQueued
<1>1. Inv => BlockedIffQueued
  BY DEF Inv
<1>2. QED
  BY <1>1, Invariance, PTL

\* A mutex with waiters passes to the first of them and to nobody else, and
\* is never free on the way.
THEOREM FirstWaiterNext == Spec => NoBarging
<1> DEFINE Fair(m) == waitq[m] # <<>> /\ owner'[m] # owner[m] =>
                        /\ owner'[m] = Head(waitq[m])
                        /\ taken'[m]
                        /\ waitq'[m] = Tail(waitq[m])
<1>1. ASSUME Inv, [Next]_vars, NEW m \in Mutex PROVE Fair(m)
  <2>1. ASSUME NEW t \in Thread, NEW n \in Mutex, ~taken[n], Take(t, n)
        PROVE  Fair(m)
    BY <1>1, <2>1 DEF Take, Inv, TypeOK, WaitersHaveOwner
  <2>2. ASSUME UNCHANGED owner PROVE Fair(m)
    BY <2>2
  <2>3. ASSUME NEW t \in Thread, ReleaseHandOff(t) PROVE Fair(m)
    BY <1>1, <2>3 DEF ReleaseHandOff, Inv, TypeOK, WaitersHaveOwner
  <2>4. ASSUME NEW t \in Thread, NEW n \in Mutex,
               \/ AcquireRecursive(t, n) \/ AcquireFree(t, n)
               \/ AcquireBlock(t, n) \/ TryAcquire(t, n) \/ ReleaseUnlink(t, n)
        PROVE  Fair(m)
    BY <2>1, <2>2, <2>4
    DEF AcquireRecursive, AcquireFree, AcquireBlock, TryAcquire,
        ReleaseUnlink, CrashWith, mutexVars
  <2>5. ASSUME NEW t \in Thread, AcquireReturn(t) PROVE Fair(m)
    BY <2>2, <2>5 DEF AcquireReturn, mutexVars
  <2>6. CASE Preempt \/ Halted \/ UNCHANGED vars
    BY <2>2, <2>6 DEF Preempt, Halted, mutexVars, vars
  <2>7. QED
    BY <1>1, <2>3, <2>4, <2>5, <2>6 DEF Next
<1>2. Inv /\ [Next]_vars => [\A m \in Mutex : Fair(m)]_vars
  BY <1>1
<1>3. QED
  BY <1>2, Invariance, PTL DEF Spec, NoBarging

\* crash() reports recursion, and releases by a thread that is not the owner,
\* only when that is what the caller did.
THEOREM CrashOnMisuse == Spec => []CrashOnlyOnMisuse
<1> USE DispatchAssumption, MutexAssumption
<1>1. Init => CrashOnlyOnMisuse
  BY DEF Init, CrashOnlyOnMisuse
<1>2. ASSUME Inv, CrashOnlyOnMisuse, [Next]_vars PROVE CrashOnlyOnMisuse'
  <2>1. CASE ~Alive
    BY <1>2, <2>1 DEF Next, vars, Halted, AcquireRecursive, AcquireFree,
       AcquireBlock, MayCall, TryAcquire, ReleaseUnlink, AcquireReturn,
       ReleaseHandOff, At, Preempt, CrashOnlyOnMisuse
  <2>2. CASE Alive /\ UNCHANGED crashed
    BY <2>2 DEF Alive, CrashOnlyOnMisuse
  <2>3. ASSUME NEW t \in Thread, NEW m \in Mutex, At(t, "client"),
               \/ owner[m] = t /\ CrashWith("recursive", m)
               \/ owner[m] # t /\ CrashWith("nonowner", m)
        PROVE  CrashOnlyOnMisuse'
    <3>1. has[current] = {n \in Mutex : owner[n] = current}
      BY <1>2, <2>3 DEF Inv, TypeOK, At, OwnershipByPlace
    <3>2. QED
      BY <2>3, <3>1
      DEF At, CrashWith, CrashOnlyOnMisuse, dispatchVars, clientVars
  <2>4. ASSUME NEW t \in Thread, NEW m \in Mutex, At(t, "client"), owner[m] = t
        PROVE  m \in held[t]
    BY <1>2, <2>4 DEF Inv, At, HeldListExact
  <2>5. CASE Alive /\ ~UNCHANGED crashed
    BY <1>2, <2>3, <2>4, <2>5
    DEF Next, vars, Halted, AcquireRecursive, AcquireFree, AcquireBlock,
        MayCall, TryAcquire, ReleaseUnlink, AcquireReturn, ReleaseHandOff,
        Preempt, Take
  <2>6. QED
    BY <2>1, <2>2, <2>5
<1>3. QED
  BY <1>1, <1>2, Invariance, PTL DEF Spec


\* What the mutexes do to the processor and to the statuses of the threads is
\* what Dispatch allows: a hand-off wakes a thread that waits, an acquire
\* blocks the thread that runs.
THEOREM KeepsContract == Spec => DispatchSpec
<1> USE DispatchAssumption, MutexAssumption
<1>1. Init => DispatchInit
  BY DEF Init, DispatchInit
<1>2. ASSUME Inv, [Next]_vars PROVE [DispatchNext]_dispatchVars
  <2>1. DispatchTypeOK
    BY <1>2 DEF Inv, TypeOK
  <2>2. ASSUME NEW t \in Thread, NEW m \in Mutex, AcquireBlock(t, m)
        PROVE  DispatchNext
    <3>1. {} \in SUBSET WaitingThreads
      OBVIOUS
    <3>2. QED
      BY <2>2, <3>1, BlockIsDispatch DEF AcquireBlock, MayCall, At
  <2>3. ASSUME NEW t \in Thread, ReleaseHandOff(t)
        PROVE  [DispatchNext]_dispatchVars
    <3> DEFINE m == target[t]
    <3>1. m \in Mutex /\ waitq[m] \in Seq(Thread)
      BY <1>2, <2>3 DEF Inv, TypeOK, OwnershipByPlace, ReleaseHandOff, At
    <3>2. CASE waitq[m] # <<>>
      <4>1. InQueue(m, Head(waitq[m])) /\ Head(waitq[m]) \in Thread
        BY <3>1, <3>2, TailFacts DEF InQueue
      <4>2. {Head(waitq[m])} \in SUBSET WaitingThreads
        BY <1>2, <3>1, <4>1 DEF Inv, BlockedIffQueued, WaitingThreads, Waiting
      <4>3. status' = Woken(status, {Head(waitq[m])}) /\ current' = current
        BY <2>3, <3>2 DEF ReleaseHandOff
      <4>4. QED
        BY <4>2, <4>3, WakeIsDispatch
    <3>3. CASE waitq[m] = <<>>
      BY <2>3, <3>3 DEF ReleaseHandOff, dispatchVars
    <3>4. QED
      BY <3>2, <3>3
  <2>4. CASE Preempt
    BY <2>1, <2>4, PreemptIsDispatch DEF Preempt
  <2>5. ASSUME NEW t \in Thread, NEW m \in Mutex,
               \/ AcquireRecursive(t, m) \/ AcquireFree(t, m)
               \/ TryAcquire(t, m) \/ ReleaseUnlink(t, m)
        PROVE  UNCHANGED dispatchVars
    BY <2>5 DEF AcquireRecursive, AcquireFree, TryAcquire, ReleaseUnlink,
                Take, CrashWith, dispatchVars
  <2>6. CASE (\E t \in Thread : AcquireReturn(t)) \/ Halted \/ UNCHANGED vars
    BY <2>6 DEF AcquireReturn, Halted, vars, dispatchVars
  <2>7. QED
    BY <1>2, <2>2, <2>3, <2>4, <2>5, <2>6 DEF Next
<1>3. QED
  BY <1>1, <1>2, Invariance, PTL DEF Spec, DispatchSpec

-----------------------------------------------------------------------------
(***************************************************************************)
(* The mutexes and the condition variables.                                *)
(***************************************************************************)

TypesOK ==
    /\ TypeOK
    /\ condq \in [Cond -> Seq(Thread)]
    /\ inCond \in [Thread -> Cond \cup {NULL}]

\* What a thread may be doing in each place.
Places ==
    \A t \in Thread :
      /\ pc[t] = "client" => target[t] = NULL
      /\ inCond[t] # NULL => pc[t] = "acquire"
      /\ pc[t] # "client" /\ inCond[t] = NULL => target[t] \in Mutex
      /\ pc[t] = "release" => owner[target[t]] = t
      /\ status[t] = "BLOCKING" => pc[t] = "acquire"

\* OneQueue, and the same for the queues of the mutexes.
Queues ==
    /\ \A c \in Cond, t \in Thread :
         QueuedIn(condq, c, t) <=> inCond[t] = c /\ status[t] = "BLOCKING"
    /\ \A m \in Mutex, t \in Thread :
         QueuedIn(waitq, m, t) <=>
            /\ pc[t] = "acquire" /\ inCond[t] = NULL
            /\ target[t] = m /\ status[t] = "BLOCKING"
    /\ OnceEach(condq)
    /\ OnceEach(waitq)

\* WaitersHaveOwner.
Served ==
    \A m \in Mutex :
      waitq[m] # <<>> =>
        taken[m] /\ owner[m] # NULL /\ ~QueuedIn(waitq, m, owner[m])

CondInv ==
    /\ TypesOK /\ Places /\ Queues /\ Served
    /\ OwnershipAcrossWaits /\ HeldListExact

-----------------------------------------------------------------------------
(* The inductive invariant.                                                *)

LEMMA CondInvInit == CondInit => CondInv
<1> SUFFICES ASSUME CondInit PROVE CondInv
  OBVIOUS
<1> USE DispatchAssumption, MutexAssumption, CondAssumption
<1>1. TypesOK
  BY DEF CondInit, Init, TypesOK, TypeOK, DispatchTypeOK, Status, Waiting, PC
<1>2. Queues
  BY DEF CondInit, Init, Queues, QueuedIn, OnceEach
<1>3. Places /\ Served /\ OwnershipAcrossWaits /\ HeldListExact
  BY DEF CondInit, Init, Places, Served, OwnershipAcrossWaits, HeldListExact
<1>4. QED
  BY <1>1, <1>2, <1>3 DEF CondInv

\* Nothing but the processor moves, and nobody falls asleep or wakes up.
LEMMA CondInvSchedule ==
    ASSUME CondInv, DispatchTypeOK',
           \A u \in Thread : status'[u] = "BLOCKING" <=> status[u] = "BLOCKING",
           crashed' \in Crash \cup {<<>>},
           UNCHANGED <<mutexVars, clientVars, condq, inCond>>
    PROVE  CondInv'
<1>1. UNCHANGED <<taken, owner, held, waitq, pc, target, has, condq, inCond>>
  BY DEF mutexVars, clientVars
<1>2. TypesOK'
  BY <1>1 DEF CondInv, TypesOK, TypeOK
<1>3. Places' /\ Queues'
  BY <1>1 DEF CondInv, Places, Queues, QueuedIn, OnceEach
<1>4. Served' /\ OwnershipAcrossWaits' /\ HeldListExact'
  BY <1>1 DEF CondInv, Served, QueuedIn, OwnershipAcrossWaits, HeldListExact
<1>5. QED
  BY <1>2, <1>3, <1>4 DEF CondInv

\* Where the running thread is, outside of this code: in no queue and in the
\* middle of no call.
LEMMA ClientFacts ==
    ASSUME CondInv, NEW t \in Thread, At(t, "client")
    PROVE  /\ current = t /\ pc[t] = "client" /\ target[t] = NULL
           /\ inCond[t] = NULL /\ status[t] = "RUNNING"
           /\ \A m \in Mutex : ~QueuedIn(waitq, m, t)
           /\ \A c \in Cond : ~QueuedIn(condq, c, t)
           /\ has[t] = {m \in Mutex : owner[m] = t}
<1>1. current = t /\ pc[t] = "client" /\ status[t] = "RUNNING"
  BY DEF CondInv, TypesOK, TypeOK, DispatchTypeOK, At
<1>2. target[t] = NULL /\ inCond[t] = NULL
  BY <1>1 DEF CondInv, Places
<1>3. has[t] = {m \in Mutex : owner[m] = t}
  BY <1>2, MutexAssumption DEF CondInv, OwnershipAcrossWaits
<1>4. QED
  BY <1>1, <1>2, <1>3, CondAssumption DEF CondInv, Queues

\* A free mutex is taken.
LEMMA CondInvTake ==
    ASSUME CondInv, NEW t \in Thread, NEW m \in Mutex,
           At(t, "client"), ~taken[m], Take(t, m), UNCHANGED condVars
    PROVE  CondInv'
<1> USE DispatchAssumption, MutexAssumption
<1>1. /\ owner[m] = NULL /\ waitq[m] = <<>>
      /\ pc[t] = "client" /\ target[t] = NULL /\ inCond[t] = NULL
  BY ClientFacts DEF CondInv, Served, OwnershipAcrossWaits
<1>2. /\ taken' = [taken EXCEPT ![m] = TRUE]
      /\ owner' = [owner EXCEPT ![m] = t]
      /\ held' = [held EXCEPT ![t] = @ \cup {m}]
      /\ has' = [has EXCEPT ![t] = @ \cup {m}]
      /\ UNCHANGED <<current, status, waitq, pc, target, crashed, condq, inCond>>
  BY DEF Take, dispatchVars, condVars
<1>3. TypesOK'
  BY <1>2 DEF CondInv, TypesOK, TypeOK, DispatchTypeOK
<1>4. Places'
  BY <1>1, <1>2 DEF CondInv, TypesOK, TypeOK, Places
<1>5. Queues'
  BY <1>2 DEF CondInv, Queues, QueuedIn, OnceEach
<1>6. Served'
  BY <1>1, <1>2 DEF CondInv, TypesOK, TypeOK, Served, QueuedIn
<1>7. OwnershipAcrossWaits'
  <2>1. ASSUME NEW u \in Thread
        PROVE  (has[u] = {n \in Mutex : owner[n] = u /\ n # target[u]})'
    BY <1>1, <1>2 DEF CondInv, TypesOK, TypeOK, OwnershipAcrossWaits
  <2>2. ASSUME NEW u \in Thread
        PROVE  (/\ inCond[u] # NULL /\ target[u] # NULL => owner[target[u]] # u
                /\ pc[u] = "acquire" /\ inCond[u] = NULL /\ status[u] # "BLOCKING"
                     => owner[target[u]] = u)'
    BY <1>1, <1>2 DEF CondInv, TypesOK, TypeOK, Places, OwnershipAcrossWaits
  <2>3. \A n \in Mutex : (taken[n] <=> owner[n] # NULL)'
    BY <1>1, <1>2 DEF CondInv, TypesOK, TypeOK, OwnershipAcrossWaits
  <2>4. QED
    BY <2>1, <2>2, <2>3 DEF OwnershipAcrossWaits
<1>8. HeldListExact'
  BY <1>1, <1>2 DEF CondInv, TypesOK, TypeOK, HeldListExact
<1>9. QED
  BY <1>3, <1>4, <1>5, <1>6, <1>7, <1>8 DEF CondInv

JoinsQueue(t, m) ==
    /\ waitq' = [waitq EXCEPT ![m] = Append(@, t)]
    /\ pc' = [pc EXCEPT ![t] = "acquire"]
    /\ target' = [target EXCEPT ![t] = m]
    /\ inCond' = [inCond EXCEPT ![t] = NULL]
    /\ BlockSwitch(t, {})
    /\ UNCHANGED <<taken, owner, held, has, crashed, condq>>

\* The running t, a caller of mutex_acquire or a woken waiter that goes on to
\* mutex_acquire, finds the mutex taken and queues for it.
LEMMA CondInvEnqueue ==
    ASSUME CondInv, NEW t \in Thread, NEW m \in Mutex, current = t,
           \/ pc[t] = "client"
           \/ pc[t] = "acquire" /\ inCond[t] # NULL /\ target[t] = m,
           taken[m], owner[m] # t, JoinsQueue(t, m)
    PROVE  CondInv'
<1> USE DispatchAssumption, MutexAssumption, CondAssumption
<1>1. /\ status[t] = "RUNNING"
      /\ \A n \in Mutex : ~QueuedIn(waitq, n, t)
      /\ \A c \in Cond : ~QueuedIn(condq, c, t)
      /\ owner[m] \in Thread
  BY DEF CondInv, TypesOK, TypeOK, DispatchTypeOK, Queues, OwnershipAcrossWaits
<1>2. /\ DispatchTypeOK'
      /\ \A u \in Thread :
           status'[u] = "BLOCKING" <=> u = t \/ status[u] = "BLOCKING"
  <2>1. /\ DispatchTypeOK /\ current = t /\ {} \in SUBSET Thread /\ t \notin {}
        /\ BlockSwitch(t, {})
    BY DEF CondInv, TypesOK, TypeOK, JoinsQueue
  <2>2. /\ DispatchTypeOK'
        /\ \A u \in Thread :
             status'[u] = "BLOCKING"
                <=> u = t \/ (status[u] = "BLOCKING" /\ u \notin {})
    BY <2>1, BlockFacts
  <2>3. QED
    BY <2>2
<1>3. /\ waitq \in [Mutex -> Seq(Thread)]
      /\ OnceEach(waitq)
  BY DEF CondInv, TypesOK, TypeOK, Queues
<1>4. /\ waitq' \in [Mutex -> Seq(Thread)]
      /\ \A n \in Mutex, u \in Thread :
           QueuedIn(waitq', n, u) <=> QueuedIn(waitq, n, u) \/ (n = m /\ u = t)
      /\ \A n \in Mutex : waitq'[n] = <<>> <=> waitq[n] = <<>> /\ n # m
      /\ OnceEach(waitq')
  <2>1. waitq[m] \in Seq(Thread) /\ ~QueuedIn(waitq, m, t)
    BY <1>1, <1>3
  <2>2. Enqueues(waitq, waitq', Mutex, m, t)
    BY <1>3, <2>1, AppendFacts DEF JoinsQueue, Enqueues, Replaced
  <2>3. \A n \in Mutex, u \in Thread :
          QueuedIn(waitq', n, u) <=> QueuedIn(waitq, n, u) \/ (n = m /\ u = t)
    BY <1>3, <2>1, <2>2, EnqueueFacts
  <2>4. \A n \in Mutex : waitq'[n] = <<>> <=> waitq[n] = <<>> /\ n # m
    BY <1>3, <2>1, <2>2, EnqueueFacts
  <2>5. OnceEach(waitq')
    BY <1>3, <2>1, <2>2, EnqueueFacts
  <2>6. QED
    BY <2>2, <2>3, <2>4, <2>5 DEF Enqueues, Replaced
<1>5. /\ \A u \in Thread : pc'[u] = IF u = t THEN "acquire" ELSE pc[u]
      /\ \A u \in Thread : target'[u] = IF u = t THEN m ELSE target[u]
      /\ \A u \in Thread : inCond'[u] = IF u = t THEN NULL ELSE inCond[u]
      /\ pc' \in [Thread -> PC] /\ target' \in [Thread -> Mutex \cup {NULL}]
      /\ inCond' \in [Thread -> Cond \cup {NULL}]
      /\ UNCHANGED <<taken, owner, held, has, crashed, condq>>
  BY DEF CondInv, TypesOK, TypeOK, PC, JoinsQueue
<1>6. TypesOK'
  BY <1>2, <1>4, <1>5 DEF CondInv, TypesOK, TypeOK
<1>7. Places'
  BY <1>2, <1>5 DEF CondInv, Places
<1>8. Queues'
  <2>1. ASSUME NEW c \in Cond, NEW u \in Thread
        PROVE  QueuedIn(condq', c, u) <=> inCond'[u] = c /\ status'[u] = "BLOCKING"
    BY <1>1, <1>2, <1>5 DEF CondInv, Queues
  <2>2. ASSUME NEW n \in Mutex, NEW u \in Thread
        PROVE  QueuedIn(waitq', n, u) <=>
                  /\ pc'[u] = "acquire" /\ inCond'[u] = NULL
                  /\ target'[u] = n /\ status'[u] = "BLOCKING"
    <3>1. CASE u = t
      <4>1. QueuedIn(waitq', n, t) <=> n = m
        BY <1>1, <1>4
      <4>2. /\ pc'[t] = "acquire" /\ inCond'[t] = NULL
            /\ target'[t] = m /\ status'[t] = "BLOCKING"
        BY <1>2, <1>5
      <4>3. QED
        BY <3>1, <4>1, <4>2
    <3>2. CASE u # t
      <4>1. QueuedIn(waitq', n, u) <=> QueuedIn(waitq, n, u)
        BY <1>4, <3>2
      <4>2. /\ pc'[u] = pc[u] /\ inCond'[u] = inCond[u] /\ target'[u] = target[u]
            /\ status'[u] = "BLOCKING" <=> status[u] = "BLOCKING"
        BY <1>2, <1>5, <3>2
      <4>3. QED
        BY <4>1, <4>2 DEF CondInv, Queues
    <3>3. QED
      BY <3>1, <3>2
  <2>3. QED
    BY <1>4, <1>5, <2>1, <2>2 DEF CondInv, Queues
<1>9. Served'
  <2>1. ASSUME NEW n \in Mutex, waitq'[n] # <<>>
        PROVE  taken[n] /\ owner[n] # NULL /\ ~QueuedIn(waitq', n, owner[n])
    <3>1. CASE n = m /\ waitq[m] = <<>>
      <4>1. ~QueuedIn(waitq, m, owner[m])
        BY <3>1 DEF QueuedIn
      <4>2. QED
        BY <1>1, <1>4, <1>5, <3>1, <4>1
    <3>2. CASE waitq[n] # <<>>
      <4>1. owner[n] \in Thread
        BY <3>2 DEF CondInv, Served, TypesOK, TypeOK
      <4>2. QED
        BY <1>4, <3>2, <4>1 DEF CondInv, Served
    <3>3. QED
      BY <1>4, <2>1, <3>1, <3>2
  <2>2. QED
    BY <1>5, <2>1 DEF Served
<1>10. OwnershipAcrossWaits'
  <2>1. ASSUME NEW u \in Thread
        PROVE  (has[u] = {n \in Mutex : owner[n] = u /\ n # target[u]})'
    BY <1>5 DEF CondInv, Places, OwnershipAcrossWaits
  <2>2. ASSUME NEW u \in Thread
        PROVE  (/\ inCond[u] # NULL /\ target[u] # NULL => owner[target[u]] # u
                /\ pc[u] = "acquire" /\ inCond[u] = NULL /\ status[u] # "BLOCKING"
                     => owner[target[u]] = u)'
    BY <1>2, <1>5 DEF CondInv, OwnershipAcrossWaits
  <2>3. QED
    BY <1>5, <2>1, <2>2 DEF CondInv, OwnershipAcrossWaits
<1>11. HeldListExact'
  BY <1>5 DEF CondInv, HeldListExact, Places
<1>12. QED
  BY <1>6, <1>7, <1>8, <1>9, <1>10, <1>11 DEF CondInv

\* mutex_release up to the spinlock.
LEMMA CondInvUnlink ==
    ASSUME CondInv, NEW t \in Thread, NEW m \in Mutex, At(t, "client"),
           owner[m] = t,
           held' = [held EXCEPT ![t] = @ \ {m}],
           has' = [has EXCEPT ![t] = @ \ {m}],
           pc' = [pc EXCEPT ![t] = "release"],
           target' = [target EXCEPT ![t] = m],
           UNCHANGED <<current, status, taken, owner, waitq, crashed, condq, inCond>>
    PROVE  CondInv'
<1> USE DispatchAssumption, MutexAssumption
<1>1. /\ pc[t] = "client" /\ target[t] = NULL /\ inCond[t] = NULL
      /\ status[t] # "BLOCKING"
  BY ClientFacts
<1>2. TypesOK'
  BY DEF CondInv, TypesOK, TypeOK, DispatchTypeOK, PC
<1>3. Places'
  BY <1>1 DEF CondInv, TypesOK, TypeOK, Places
<1>4. Queues'
  BY <1>1 DEF CondInv, TypesOK, TypeOK, Queues, QueuedIn, OnceEach
<1>5. Served'
  BY DEF CondInv, Served, QueuedIn
<1>6. OwnershipAcrossWaits'
  BY <1>1 DEF CondInv, TypesOK, TypeOK, OwnershipAcrossWaits
<1>7. HeldListExact'
  BY <1>1 DEF CondInv, TypesOK, TypeOK, HeldListExact
<1>8. QED
  BY <1>2, <1>3, <1>4, <1>5, <1>6, <1>7 DEF CondInv

\* t returns to its caller from mutex_acquire, owning what it waited for, or
\* from a wait on a variable without a mutex.
LEMMA CondInvReturn ==
    ASSUME CondInv, NEW t \in Thread, At(t, "acquire"),
           \/ inCond[t] = NULL
           \/ target[t] = NULL,
           pc' = [pc EXCEPT ![t] = "client"],
           target' = [target EXCEPT ![t] = NULL],
           inCond' = [inCond EXCEPT ![t] = NULL],
           has' = IF target[t] = NULL THEN has
                  ELSE [has EXCEPT ![t] = @ \cup {target[t]}],
           UNCHANGED <<current, status, taken, owner, held, waitq, crashed, condq>>
    PROVE  CondInv'
<1> USE DispatchAssumption, MutexAssumption, CondAssumption
<1>1. /\ current = t /\ pc[t] = "acquire" /\ status[t] = "RUNNING"
      /\ target[t] \in Mutex \cup {NULL}
      /\ target[t] # NULL => owner[target[t]] = t
  BY DEF CondInv, TypesOK, TypeOK, DispatchTypeOK, At, Places, OwnershipAcrossWaits
<1>2. TypesOK'
  BY <1>1 DEF CondInv, TypesOK, TypeOK, DispatchTypeOK, PC
<1>3. Places'
  BY <1>1 DEF CondInv, TypesOK, TypeOK, Places
<1>4. Queues'
  BY <1>1 DEF CondInv, TypesOK, TypeOK, Queues, QueuedIn, OnceEach
<1>5. Served'
  BY DEF CondInv, Served, QueuedIn
<1>6. OwnershipAcrossWaits'
  BY <1>1 DEF CondInv, TypesOK, TypeOK, OwnershipAcrossWaits
<1>7. HeldListExact'
  BY <1>1 DEF CondInv, TypesOK, TypeOK, HeldListExact
<1>8. QED
  BY <1>2, <1>3, <1>4, <1>5, <1>6, <1>7 DEF CondInv

\* A woken waiter takes its mutex.
LEMMA CondInvRetake ==
    ASSUME CondInv, NEW t \in Thread, NEW m \in Mutex, At(t, "acquire"),
           inCond[t] # NULL, target[t] = m, ~taken[m],
           pc' = [pc EXCEPT ![t] = "client"],
           target' = [target EXCEPT ![t] = NULL],
           inCond' = [inCond EXCEPT ![t] = NULL],
           taken' = [taken EXCEPT ![m] = TRUE],
           owner' = [owner EXCEPT ![m] = t],
           held' = [held EXCEPT ![t] = @ \cup {m}],
           has' = [has EXCEPT ![t] = @ \cup {m}],
           UNCHANGED <<current, status, waitq, crashed, condq>>
    PROVE  CondInv'
<1> USE DispatchAssumption, MutexAssumption, CondAssumption
<1>1. /\ current = t /\ pc[t] = "acquire" /\ status[t] = "RUNNING"
      /\ owner[m] = NULL /\ waitq[m] = <<>>
  BY DEF CondInv, TypesOK, TypeOK, DispatchTypeOK, At, Served, OwnershipAcrossWaits
<1>2. TypesOK'
  BY DEF CondInv, TypesOK, TypeOK, DispatchTypeOK, PC
<1>3. Places'
  BY <1>1 DEF CondInv, TypesOK, TypeOK, Places
<1>4. Queues'
  BY <1>1 DEF CondInv, TypesOK, TypeOK, Queues, QueuedIn, OnceEach
<1>5. Served'
  BY <1>1 DEF CondInv, TypesOK, TypeOK, Served, QueuedIn
<1>6. OwnershipAcrossWaits'
  <2>1. ASSUME NEW u \in Thread
        PROVE  (has[u] = {n \in Mutex : owner[n] = u /\ n # target[u]})'
    BY <1>1 DEF CondInv, TypesOK, TypeOK, OwnershipAcrossWaits
  <2>2. ASSUME NEW u \in Thread
        PROVE  (/\ inCond[u] # NULL /\ target[u] # NULL => owner[target[u]] # u
                /\ pc[u] = "acquire" /\ inCond[u] = NULL /\ status[u] # "BLOCKING"
                     => owner[target[u]] = u)'
    BY <1>1 DEF CondInv, TypesOK, TypeOK, Places, OwnershipAcrossWaits
  <2>3. \A n \in Mutex : (taken[n] <=> owner[n] # NULL)'
    BY <1>1 DEF CondInv, TypesOK, TypeOK, OwnershipAcrossWaits
  <2>4. QED
    BY <2>1, <2>2, <2>3 DEF OwnershipAcrossWaits
<1>7. HeldListExact'
  BY <1>1 DEF CondInv, TypesOK, TypeOK, HeldListExact
<1>8. QED
  BY <1>2, <1>3, <1>4, <1>5, <1>6, <1>7 DEF CondInv

-----------------------------------------------------------------------------
(* The hand-off.                                                           *)

\* t gives m to o, the first of the queue of m, or to nobody when o is NULL.
\* When m is NULL too, nothing happens.
Passes(t, m, o) ==
    /\ o \in Thread \cup {NULL}
    /\ o # NULL => m \in Mutex /\ QueuedIn(waitq, m, o)
    /\ owner' \in [Mutex -> Thread \cup {NULL}]
    /\ taken' \in [Mutex -> BOOLEAN]
    /\ held' \in [Thread -> SUBSET Mutex]
    /\ waitq' \in [Mutex -> Seq(Thread)]
    /\ \A n \in Mutex : owner'[n] = IF n = m THEN o ELSE owner[n]
    /\ \A n \in Mutex : taken'[n] <=> IF n = m THEN o # NULL ELSE taken[n]
    /\ \A n \in Mutex, u \in Thread : n \in held'[u]
         <=> (u = o /\ n = m) \/ (n \in held[u] /\ ~(u = t /\ n = m))
    /\ \A n \in Mutex, u \in Thread :
         QueuedIn(waitq', n, u) <=> QueuedIn(waitq, n, u) /\ ~(n = m /\ u = o)
    /\ OnceEach(waitq')
    /\ \A n \in Mutex : waitq'[n] # <<>> => waitq[n] # <<>> /\ (n = m => o # NULL)

\* The common part of the two ways a mutex is handed on.
Hands(t, m) ==
    \/ /\ waitq[m] # <<>>
       /\ owner' = [owner EXCEPT ![m] = Head(waitq[m])]
       /\ held' = [held EXCEPT ![t] = @ \ {m}, ![Head(waitq[m])] = @ \cup {m}]
       /\ waitq' = [waitq EXCEPT ![m] = Tail(@)]
       /\ UNCHANGED taken
    \/ /\ waitq[m] = <<>>
       /\ owner' = [owner EXCEPT ![m] = NULL]
       /\ taken' = [taken EXCEPT ![m] = FALSE]
       /\ held' = [held EXCEPT ![t] = @ \ {m}]
       /\ UNCHANGED waitq

NewOwner(m) == IF waitq[m] = <<>> THEN NULL ELSE Head(waitq[m])

LEMMA HandsPasses ==
    ASSUME CondInv, NEW t \in Thread, NEW m \in Mutex, owner[m] = t,
           pc[t] # "acquire", Hands(t, m)
    PROVE  Passes(t, m, NewOwner(m))
<1> USE DispatchAssumption, MutexAssumption
<1> DEFINE w == Head(waitq[m])
<1>1. /\ waitq \in [Mutex -> Seq(Thread)] /\ OnceEach(waitq)
      /\ owner \in [Mutex -> Thread \cup {NULL}]
      /\ taken \in [Mutex -> BOOLEAN] /\ taken[m]
      /\ held \in [Thread -> SUBSET Mutex]
      /\ ~QueuedIn(waitq, m, t)
  BY DEF CondInv, TypesOK, TypeOK, Queues, OwnershipAcrossWaits
<1>2. CASE waitq[m] # <<>>
  <2>1. Dequeues(waitq, waitq', Mutex, m)
    <3>1. waitq[m] \in Seq(Thread) /\ Tail(waitq[m]) \in Seq(Thread)
      BY <1>1, <1>2, TailFacts
    <3>2. waitq' = [waitq EXCEPT ![m] = Tail(@)]
      BY <1>2 DEF Hands
    <3>3. /\ waitq' \in [Mutex -> Seq(Thread)]
          /\ waitq'[m] = Tail(waitq[m])
          /\ \A n \in Mutex : n # m => waitq'[n] = waitq[n]
      BY <1>1, <3>1, <3>2
    <3>4. QED
      BY <1>1, <1>2, <3>3 DEF Dequeues, Replaced
  <2>2. /\ w \in Thread /\ QueuedIn(waitq, m, w)
        /\ \A n \in Mutex, u \in Thread :
             QueuedIn(waitq', n, u) <=> QueuedIn(waitq, n, u) /\ ~(n = m /\ u = w)
        /\ OnceEach(waitq')
    BY <1>1, <2>1, DequeueFacts
  <2>3. /\ waitq' \in [Mutex -> Seq(Thread)]
        /\ \A n \in Mutex : n # m => waitq'[n] = waitq[n]
    BY <2>1 DEF Dequeues, Replaced
  <2>4. /\ owner' = [owner EXCEPT ![m] = w]
        /\ held' = [held EXCEPT ![t] = @ \ {m}, ![w] = @ \cup {m}]
        /\ taken' = taken
    BY <1>2 DEF Hands
  <2>5. w # t /\ w # NULL /\ NewOwner(m) = w
    BY <1>1, <1>2, <2>2 DEF NewOwner
  <2> HIDE DEF w
  <2>6. /\ held' \in [Thread -> SUBSET Mutex]
        /\ \A n \in Mutex, u \in Thread : n \in held'[u]
             <=> (u = w /\ n = m) \/ (n \in held[u] /\ ~(u = t /\ n = m))
    BY <1>1, <2>2, <2>4, <2>5
  <2>7. /\ owner' \in [Mutex -> Thread \cup {NULL}]
        /\ \A n \in Mutex : owner'[n] = IF n = m THEN w ELSE owner[n]
        /\ taken' \in [Mutex -> BOOLEAN]
        /\ \A n \in Mutex : taken'[n] <=> IF n = m THEN w # NULL ELSE taken[n]
    BY <1>1, <2>2, <2>4, <2>5
  <2>8. \A n \in Mutex : waitq'[n] # <<>> => waitq[n] # <<>> /\ (n = m => w # NULL)
    BY <1>2, <2>3, <2>5
  <2>9. Passes(t, m, w)
    BY <2>2, <2>3, <2>5, <2>6, <2>7, <2>8 DEF Passes
  <2>10. QED
    BY <2>5, <2>9
<1>3. CASE waitq[m] = <<>>
  <2>1. /\ owner' = [owner EXCEPT ![m] = NULL]
        /\ taken' = [taken EXCEPT ![m] = FALSE]
        /\ held' = [held EXCEPT ![t] = @ \ {m}]
        /\ waitq' = waitq
        /\ NewOwner(m) = NULL
    BY <1>3 DEF Hands, NewOwner
  <2>2. \A n \in Mutex, u \in Thread :
          QueuedIn(waitq', n, u) <=> QueuedIn(waitq, n, u) /\ ~(n = m /\ u = NULL)
    BY <2>1
  <2>3. /\ held' \in [Thread -> SUBSET Mutex]
        /\ \A n \in Mutex, u \in Thread : n \in held'[u]
             <=> (u = NULL /\ n = m) \/ (n \in held[u] /\ ~(u = t /\ n = m))
    BY <1>1, <2>1
  <2>4. /\ owner' \in [Mutex -> Thread \cup {NULL}]
        /\ \A n \in Mutex : owner'[n] = IF n = m THEN NULL ELSE owner[n]
        /\ taken' \in [Mutex -> BOOLEAN]
        /\ \A n \in Mutex : taken'[n] <=> IF n = m THEN NULL # NULL ELSE taken[n]
    BY <1>1, <2>1
  <2>5. Passes(t, m, NULL)
    BY <1>1, <1>3, <2>1, <2>2, <2>3, <2>4 DEF Passes
  <2>6. QED
    BY <2>1, <2>5
<1>4. QED
  BY <1>2, <1>3

\* The new owner waited for the mutex, blocked.
LEMMA PassedWaits ==
    ASSUME CondInv, NEW t, NEW m, NEW o, Passes(t, m, o), o # NULL
    PROVE  /\ o \in Thread /\ pc[o] = "acquire" /\ inCond[o] = NULL
           /\ target[o] = m /\ status[o] = "BLOCKING"
  BY DEF Passes, CondInv, Queues

\* What a hand-off does to the mutexes, whatever the releasing thread does next
\* outside of mutex_release.
LEMMA PassedMutexes ==
    ASSUME CondInv, NEW t \in Thread, NEW m \in Mutex \cup {NULL}, NEW o,
           Passes(t, m, o), m # NULL => owner[m] = t,
           pc[t] = "client" \/ (pc[t] = "release" /\ target[t] = m),
           pc'[t] # "release",
           \A u \in Thread : u # t => pc'[u] = pc[u] /\ target'[u] = target[u]
    PROVE  Served' /\ HeldListExact'
<1> USE DispatchAssumption, MutexAssumption
<1>1. Served'
  <2>1. ASSUME NEW n \in Mutex, waitq'[n] # <<>>
        PROVE  taken'[n] /\ owner'[n] # NULL /\ ~QueuedIn(waitq', n, owner'[n])
    <3>1. /\ waitq[n] # <<>> /\ (n = m => o # NULL)
          /\ owner'[n] = IF n = m THEN o ELSE owner[n]
          /\ taken'[n] <=> IF n = m THEN o # NULL ELSE taken[n]
          /\ owner[n] \in Thread \cup {NULL} /\ o \in Thread \cup {NULL}
      BY <2>1 DEF CondInv, TypesOK, TypeOK, Passes
    <3>2. taken[n] /\ owner[n] # NULL /\ ~QueuedIn(waitq, n, owner[n])
      BY <3>1 DEF CondInv, Served
    <3>3. \A u \in Thread :
            QueuedIn(waitq', n, u) <=> QueuedIn(waitq, n, u) /\ ~(n = m /\ u = o)
      BY DEF Passes
    <3>4. CASE n = m
      BY <3>1, <3>3, <3>4
    <3>5. CASE n # m
      BY <3>1, <3>2, <3>3, <3>5
    <3>6. QED
      BY <3>4, <3>5
  <2>2. QED
    BY <2>1 DEF Served
<1>2. HeldListExact'
  <2>1. ASSUME NEW u \in Thread, NEW n \in Mutex
        PROVE  n \in held'[u]
                 <=> owner'[n] = u /\ ~(pc'[u] = "release" /\ target'[u] = n)
    <3>1. /\ n \in held'[u]
                <=> (u = o /\ n = m) \/ (n \in held[u] /\ ~(u = t /\ n = m))
          /\ owner'[n] = IF n = m THEN o ELSE owner[n]
          /\ n \in held[u]
                <=> owner[n] = u /\ ~(pc[u] = "release" /\ target[u] = n)
      BY DEF Passes, CondInv, HeldListExact
    <3>2. o # NULL => o # t /\ pc[o] = "acquire"
      BY PassedWaits
    <3>3. CASE u = t
      BY <3>1, <3>2, <3>3
    <3>4. CASE u # t
      BY <3>1, <3>2, <3>4
    <3>5. QED
      BY <3>3, <3>4
  <2>2. QED
    BY <2>1 DEF HeldListExact
<1>3. QED
  BY <1>1, <1>2

\* The rest of mutex_release.
LEMMA CondInvHandOff ==
    ASSUME CondInv, NEW t \in Thread, ReleaseHandOff(t), UNCHANGED condVars
    PROVE  CondInv'
<1> USE DispatchAssumption, MutexAssumption, CondAssumption
<1> DEFINE m == target[t]
           o == NewOwner(m)
           W == IF o = NULL THEN {} ELSE {o}
<1>1. /\ current = t /\ pc[t] = "release" /\ m \in Mutex /\ owner[m] = t
      /\ status[t] = "RUNNING" /\ inCond[t] = NULL
  BY DEF CondInv, TypesOK, TypeOK, DispatchTypeOK, ReleaseHandOff, At, Places
<1>2. /\ pc' = [pc EXCEPT ![t] = "client"]
      /\ target' = [target EXCEPT ![t] = NULL]
      /\ UNCHANGED <<current, has, crashed, condq, inCond>>
  BY DEF ReleaseHandOff, condVars
<1>3. Passes(t, m, o)
  <2>1. m \notin held[t] /\ held \in [Thread -> SUBSET Mutex]
    BY <1>1 DEF CondInv, TypesOK, TypeOK, HeldListExact
  <2>2. CASE waitq[m] # <<>>
    <3>1. /\ owner' = [owner EXCEPT ![m] = Head(waitq[m])]
          /\ held' = [held EXCEPT ![Head(waitq[m])] = @ \cup {m}]
          /\ waitq' = [waitq EXCEPT ![m] = Tail(@)]
          /\ UNCHANGED taken
      BY <2>2 DEF ReleaseHandOff
    <3>2. [held EXCEPT ![t] = @ \ {m}] = held
      BY <2>1
    <3>3. [held EXCEPT ![t] = @ \ {m}, ![Head(waitq[m])] = @ \cup {m}] =
            [[held EXCEPT ![t] = @ \ {m}] EXCEPT ![Head(waitq[m])] = @ \cup {m}]
      OBVIOUS
    <3>4. Hands(t, m)
      BY <2>2, <3>1, <3>2, <3>3 DEF Hands
    <3>5. QED
      BY <1>1, <3>4, HandsPasses
  <2>3. CASE waitq[m] = <<>>
    <3>1. [held EXCEPT ![t] = @ \ {m}] = held
      BY <2>1
    <3>2. Hands(t, m)
      BY <2>3, <3>1 DEF Hands, ReleaseHandOff
    <3>3. QED
      BY <1>1, <3>2, HandsPasses
  <2>4. QED
    BY <2>2, <2>3
<1>4. /\ DispatchTypeOK'
      /\ \A u \in Thread : status'[u] = "BLOCKING" <=> status[u] = "BLOCKING" /\ u # o
  <2>1. DispatchTypeOK
    BY DEF CondInv, TypesOK, TypeOK
  <2>2. CASE waitq[m] # <<>>
    <3>1. /\ status' = Woken(status, {o}) /\ current' = current /\ o = Head(waitq[m])
      BY <2>2 DEF ReleaseHandOff, NewOwner
    <3>2. o \in Thread /\ o # current
      <4>1. o # NULL
        <5>1. waitq[m] \in Seq(Thread)
          BY <1>1 DEF CondInv, TypesOK, TypeOK
        <5>2. QED
          BY <2>2, <3>1, <5>1, TailFacts
      <4> HIDE DEF o
      <4>2. QED
        BY <1>1, <1>3, <4>1, PassedWaits
    <3> HIDE DEF o
    <3>3. /\ DispatchTypeOK'
          /\ \A u \in Thread : status'[u] = IF u \in {o} THEN "READY" ELSE status[u]
      BY <2>1, <3>1, <3>2, WakeFacts
    <3>4. QED
      BY <3>3
  <2>3. CASE waitq[m] = <<>>
    BY <1>2, <2>1, <2>3 DEF ReleaseHandOff, NewOwner, DispatchTypeOK
  <2>4. QED
    BY <2>2, <2>3
<1>5. o # NULL => /\ o \in Thread /\ pc[o] = "acquire" /\ inCond[o] = NULL
                  /\ target[o] = m /\ status[o] = "BLOCKING"
  BY <1>3, PassedWaits
<1> HIDE DEF o, m
<1>6. /\ \A u \in Thread : pc'[u] = IF u = t THEN "client" ELSE pc[u]
      /\ \A u \in Thread : target'[u] = IF u = t THEN NULL ELSE target[u]
      /\ pc' \in [Thread -> PC] /\ target' \in [Thread -> Mutex \cup {NULL}]
      /\ target[t] = m
  BY <1>2 DEF CondInv, TypesOK, TypeOK, PC, m
<1>7. /\ \A n \in Mutex : owner'[n] = IF n = m THEN o ELSE owner[n]
      /\ \A n \in Mutex : taken'[n] <=> IF n = m THEN o # NULL ELSE taken[n]
      /\ \A n \in Mutex, u \in Thread :
           QueuedIn(waitq', n, u) <=> QueuedIn(waitq, n, u) /\ ~(n = m /\ u = o)
      /\ OnceEach(waitq') /\ o \in Thread \cup {NULL}
  BY <1>3 DEF Passes
<1>8. TypesOK'
  BY <1>2, <1>3, <1>4, <1>6 DEF CondInv, TypesOK, TypeOK, Passes
<1>9. Served' /\ HeldListExact'
  BY <1>1, <1>3, <1>6, PassedMutexes
<1>10. Places'
  <2>1. ASSUME NEW u \in Thread, u # t, pc[u] = "release"
        PROVE  owner'[target[u]] = u
    BY <1>1, <1>7, <2>1 DEF CondInv, TypesOK, Places
  <2>2. QED
    BY <1>1, <1>2, <1>4, <1>6, <2>1 DEF CondInv, Places
<1>11. Queues'
  <2>1. ASSUME NEW c \in Cond, NEW u \in Thread
        PROVE  QueuedIn(condq', c, u) <=> inCond'[u] = c /\ status'[u] = "BLOCKING"
    BY <1>2, <1>4, <1>5 DEF CondInv, Queues
  <2>2. ASSUME NEW n \in Mutex, NEW u \in Thread
        PROVE  QueuedIn(waitq', n, u) <=>
                  /\ pc'[u] = "acquire" /\ inCond'[u] = NULL
                  /\ target'[u] = n /\ status'[u] = "BLOCKING"
    <3>1. QueuedIn(waitq, n, u) <=>
            /\ pc[u] = "acquire" /\ inCond[u] = NULL
            /\ target[u] = n /\ status[u] = "BLOCKING"
      BY DEF CondInv, Queues
    <3>2. CASE u = t
      BY <1>1, <1>6, <1>7, <3>1, <3>2
    <3>3. CASE u # t
      BY <1>2, <1>4, <1>5, <1>6, <1>7, <3>1, <3>3
    <3>4. QED
      BY <3>2, <3>3
  <2>3. QED
    BY <1>2, <1>7, <2>1, <2>2 DEF CondInv, Queues
<1>12. OwnershipAcrossWaits'
  <2>1. ASSUME NEW u \in Thread
        PROVE  (has[u] = {n \in Mutex : owner[n] = u /\ n # target[u]})'
    <3>1. /\ has[u] = {n \in Mutex : owner[n] = u /\ n # target[u]}
          /\ has'[u] = has[u]
      BY <1>2 DEF CondInv, OwnershipAcrossWaits
    <3>2. ASSUME NEW n \in Mutex
          PROVE  owner[n] = u /\ n # target[u] <=> owner'[n] = u /\ n # target'[u]
      BY <1>1, <1>5, <1>6, <1>7
    <3>3. QED
      BY <3>1, <3>2
  <2>2. ASSUME NEW u \in Thread
        PROVE  (/\ inCond[u] # NULL /\ target[u] # NULL => owner[target[u]] # u
                /\ pc[u] = "acquire" /\ inCond[u] = NULL /\ status[u] # "BLOCKING"
                     => owner[target[u]] = u)'
    <3>1. /\ inCond[u] # NULL /\ target[u] # NULL => owner[target[u]] # u
          /\ pc[u] = "acquire" /\ inCond[u] = NULL /\ status[u] # "BLOCKING"
               => owner[target[u]] = u
      BY DEF CondInv, OwnershipAcrossWaits
    <3>2. /\ target[u] \in Mutex \cup {NULL}
          /\ pc[u] = "acquire" /\ inCond[u] = NULL => target[u] \in Mutex
      BY DEF CondInv, TypesOK, TypeOK, Places
    <3>3. CASE u = t
      BY <1>1, <1>2, <1>6, <3>3
    <3>4. CASE u # t
      BY <1>1, <1>2, <1>4, <1>5, <1>6, <1>7, <3>1, <3>2, <3>4
    <3>5. QED
      BY <3>3, <3>4
  <2>3. \A n \in Mutex : (taken[n] <=> owner[n] # NULL)'
    BY <1>7 DEF CondInv, OwnershipAcrossWaits
  <2>4. QED
    BY <2>1, <2>2, <2>3 DEF OwnershipAcrossWaits
<1>13. QED
  BY <1>8, <1>9, <1>10, <1>11, <1>12 DEF CondInv

-----------------------------------------------------------------------------
(* Waits and signals.                                                      *)

\* The caller queues for c, gives up m if there is one, and leaves the
\* processor: it is in one queue, the new owner of m in none.
LEMMA CondInvSleep ==
    ASSUME CondInv, NEW t \in Thread, NEW c \in Cond, NEW m \in Mutex \cup {NULL},
           At(t, "client"), m # NULL => owner[m] = t,
           Sleep(t, c, m), UNCHANGED crashed
    PROVE  CondInv'
<1> USE DispatchAssumption, MutexAssumption, CondAssumption
<1> DEFINE o == IF m = NULL THEN NULL ELSE NewOwner(m)
           W == IF o = NULL THEN {} ELSE {o}
<1>1. /\ current = t /\ pc[t] = "client" /\ target[t] = NULL
      /\ inCond[t] = NULL /\ status[t] = "RUNNING"
      /\ \A n \in Mutex : ~QueuedIn(waitq, n, t)
      /\ \A d \in Cond : ~QueuedIn(condq, d, t)
      /\ has[t] = {n \in Mutex : owner[n] = t}
  BY ClientFacts
<1>2. /\ condq' = [condq EXCEPT ![c] = Append(@, t)]
      /\ inCond' = [inCond EXCEPT ![t] = c]
      /\ pc' = [pc EXCEPT ![t] = "acquire"]
      /\ target' = [target EXCEPT ![t] = m]
      /\ has' = [has EXCEPT ![t] = @ \ {m}]
      /\ crashed' = crashed
  BY DEF Sleep
<1>3. Passes(t, m, o) /\ BlockSwitch(t, W)
  <2>1. CASE m = NULL
    <3>1. BlockSwitch(t, {}) /\ UNCHANGED <<taken, owner, held, waitq>>
      BY <2>1 DEF Sleep, mutexVars
    <3>2. Passes(t, m, NULL)
      <4>1. /\ owner' \in [Mutex -> Thread \cup {NULL}]
            /\ taken' \in [Mutex -> BOOLEAN]
            /\ held' \in [Thread -> SUBSET Mutex]
            /\ waitq' \in [Mutex -> Seq(Thread)]
            /\ OnceEach(waitq')
        BY <3>1 DEF CondInv, TypesOK, TypeOK, Queues, OnceEach
      <4>2. /\ \A n \in Mutex : n # m /\ owner'[n] = owner[n]
            /\ \A n \in Mutex : taken'[n] <=> taken[n]
            /\ \A n \in Mutex : waitq'[n] = waitq[n]
            /\ \A u \in Thread : held'[u] = held[u]
        BY <2>1, <3>1
      <4>3. \A n \in Mutex, u \in Thread :
              QueuedIn(waitq', n, u) <=> QueuedIn(waitq, n, u)
        BY <3>1
      <4>4. QED
        BY <4>1, <4>2, <4>3 DEF Passes
    <3>3. QED
      BY <2>1, <3>1, <3>2
  <2>2. CASE m # NULL
    <3>1. m \in Mutex /\ owner[m] = t /\ HandOver(t, m)
      BY <2>2 DEF Sleep
    <3>2. Hands(t, m)
      BY <3>1 DEF Hands, HandOver
    <3>3. Passes(t, m, NewOwner(m))
      BY <1>1, <3>1, <3>2, HandsPasses
    <3>4. CASE waitq[m] # <<>>
      <4>1. Head(waitq[m]) \in Thread
        BY <3>1, <3>4, TailFacts DEF CondInv, TypesOK, TypeOK
      <4>2. BlockSwitch(t, {Head(waitq[m])})
        BY <3>1, <3>4 DEF HandOver
      <4>3. QED
        BY <2>2, <3>3, <3>4, <4>1, <4>2 DEF NewOwner
    <3>5. CASE waitq[m] = <<>>
      <4>1. BlockSwitch(t, {})
        BY <3>1, <3>5 DEF HandOver
      <4>2. QED
        BY <2>2, <3>3, <3>5, <4>1 DEF NewOwner
    <3>6. QED
      BY <3>4, <3>5
  <2>3. QED
    BY <2>1, <2>2
<1> HIDE DEF o
<1>4. o # NULL => /\ o \in Thread /\ pc[o] = "acquire" /\ inCond[o] = NULL
                  /\ target[o] = m /\ status[o] = "BLOCKING"
  BY <1>3, PassedWaits
<1>5. /\ DispatchTypeOK'
      /\ \A u \in Thread : status'[u] = "BLOCKING"
           <=> u = t \/ (status[u] = "BLOCKING" /\ u # o)
  <2>1. DispatchTypeOK /\ W \in SUBSET Thread /\ t \notin W
    BY <1>1, <1>4 DEF CondInv, TypesOK, TypeOK
  <2>2. \A u \in Thread : u \in W <=> u = o
    OBVIOUS
  <2> HIDE DEF W
  <2>3. /\ DispatchTypeOK'
        /\ \A u \in Thread : status'[u] = "BLOCKING"
             <=> u = t \/ (status[u] = "BLOCKING" /\ u \notin W)
    BY <1>1, <1>3, <2>1, BlockFacts
  <2>4. QED
    BY <2>2, <2>3
<1>6. /\ \A u \in Thread : pc'[u] = IF u = t THEN "acquire" ELSE pc[u]
      /\ \A u \in Thread : target'[u] = IF u = t THEN m ELSE target[u]
      /\ \A u \in Thread : inCond'[u] = IF u = t THEN c ELSE inCond[u]
      /\ \A u \in Thread : has'[u] = IF u = t THEN has[t] \ {m} ELSE has[u]
      /\ pc' \in [Thread -> PC] /\ target' \in [Thread -> Mutex \cup {NULL}]
      /\ inCond' \in [Thread -> Cond \cup {NULL}]
      /\ has' \in [Thread -> SUBSET Mutex]
  BY <1>2 DEF CondInv, TypesOK, TypeOK, PC
<1>7. /\ condq' \in [Cond -> Seq(Thread)] /\ OnceEach(condq')
      /\ \A d \in Cond, u \in Thread :
           QueuedIn(condq', d, u) <=> QueuedIn(condq, d, u) \/ (d = c /\ u = t)
  <2>1. /\ condq \in [Cond -> Seq(Thread)] /\ OnceEach(condq)
        /\ ~QueuedIn(condq, c, t) /\ condq[c] \in Seq(Thread)
    BY <1>1 DEF CondInv, TypesOK, Queues
  <2>2. Append(condq[c], t) \in Seq(Thread)
    BY <2>1, AppendFacts
  <2>3. /\ condq' \in [Cond -> Seq(Thread)]
        /\ condq'[c] = Append(condq[c], t)
        /\ \A d \in Cond : d # c => condq'[d] = condq[d]
    BY <1>2, <2>1, <2>2
  <2>4. Enqueues(condq, condq', Cond, c, t)
    BY <2>1, <2>3 DEF Enqueues, Replaced
  <2>5. \A d \in Cond, u \in Thread :
          QueuedIn(condq', d, u) <=> QueuedIn(condq, d, u) \/ (d = c /\ u = t)
    BY <2>4, EnqueueFacts
  <2>6. OnceEach(condq')
    BY <2>1, <2>4, EnqueueFacts
  <2>7. QED
    BY <2>3, <2>5, <2>6
<1>8. /\ \A n \in Mutex : owner'[n] = IF n = m THEN o ELSE owner[n]
      /\ \A n \in Mutex : taken'[n] <=> IF n = m THEN o # NULL ELSE taken[n]
      /\ \A n \in Mutex, u \in Thread :
           QueuedIn(waitq', n, u) <=> QueuedIn(waitq, n, u) /\ ~(n = m /\ u = o)
      /\ OnceEach(waitq') /\ o \in Thread \cup {NULL}
  BY <1>3 DEF Passes
<1>9. TypesOK'
  BY <1>2, <1>3, <1>5, <1>6, <1>7 DEF CondInv, TypesOK, TypeOK, Passes
<1>10. Served' /\ HeldListExact'
  BY <1>1, <1>3, <1>6, PassedMutexes
<1>11. Places'
  <2>1. ASSUME NEW u \in Thread, u # t, pc[u] = "release"
        PROVE  owner'[target[u]] = u
    <3>1. target[u] \in Mutex /\ owner[target[u]] = u
      BY <2>1 DEF CondInv, TypesOK, TypeOK, Places
    <3>2. target[u] # m
      BY <2>1, <3>1
    <3>3. QED
      BY <1>8, <3>1, <3>2
  <2>2. QED
    BY <1>1, <1>5, <1>6, <2>1 DEF CondInv, Places
<1>12. Queues'
  <2>1. ASSUME NEW d \in Cond, NEW u \in Thread
        PROVE  QueuedIn(condq', d, u) <=> inCond'[u] = d /\ status'[u] = "BLOCKING"
    <3>1. QueuedIn(condq, d, u) <=> inCond[u] = d /\ status[u] = "BLOCKING"
      BY DEF CondInv, Queues
    <3>2. CASE u = t
      BY <1>1, <1>5, <1>6, <1>7, <3>2
    <3>3. CASE u # t
      BY <1>4, <1>5, <1>6, <1>7, <3>1, <3>3
    <3>4. QED
      BY <3>2, <3>3
  <2>2. ASSUME NEW n \in Mutex, NEW u \in Thread
        PROVE  QueuedIn(waitq', n, u) <=>
                  /\ pc'[u] = "acquire" /\ inCond'[u] = NULL
                  /\ target'[u] = n /\ status'[u] = "BLOCKING"
    <3>1. QueuedIn(waitq, n, u) <=>
            /\ pc[u] = "acquire" /\ inCond[u] = NULL
            /\ target[u] = n /\ status[u] = "BLOCKING"
      BY DEF CondInv, Queues
    <3>2. CASE u = t
      BY <1>1, <1>6, <1>8, <3>2
    <3>3. CASE u # t
      BY <1>4, <1>5, <1>6, <1>8, <3>1, <3>3
    <3>4. QED
      BY <3>2, <3>3
  <2>3. QED
    BY <1>7, <1>8, <2>1, <2>2 DEF Queues
<1>13. OwnershipAcrossWaits'
  <2>1. ASSUME NEW u \in Thread
        PROVE  (has[u] = {n \in Mutex : owner[n] = u /\ n # target[u]})'
    <3>1. has[u] = {n \in Mutex : owner[n] = u /\ n # target[u]}
      BY DEF CondInv, OwnershipAcrossWaits
    <3>2. CASE u = t
      <4>1. has'[u] = {n \in Mutex : owner[n] = t} \ {m} /\ target'[u] = m
        BY <1>1, <1>6, <3>2
      <4>2. \A n \in Mutex : n # m => owner'[n] = owner[n]
        BY <1>8
      <4>3. QED
        BY <3>2, <4>1, <4>2
    <3>3. CASE u # t
      <4>1. has'[u] = has[u] /\ target'[u] = target[u]
        BY <1>6, <3>3
      <4>2. ASSUME NEW n \in Mutex
            PROVE  owner[n] = u /\ n # target[u] <=> owner'[n] = u /\ n # target[u]
        BY <1>4, <1>8, <3>3
      <4>3. QED
        BY <3>1, <4>1, <4>2
    <3>4. QED
      BY <3>2, <3>3
  <2>2. ASSUME NEW u \in Thread
        PROVE  (/\ inCond[u] # NULL /\ target[u] # NULL => owner[target[u]] # u
                /\ pc[u] = "acquire" /\ inCond[u] = NULL /\ status[u] # "BLOCKING"
                     => owner[target[u]] = u)'
    <3>1. /\ inCond[u] # NULL /\ target[u] # NULL => owner[target[u]] # u
          /\ pc[u] = "acquire" /\ inCond[u] = NULL /\ status[u] # "BLOCKING"
               => owner[target[u]] = u
      BY DEF CondInv, OwnershipAcrossWaits
    <3>2. /\ target[u] \in Mutex \cup {NULL}
          /\ pc[u] = "acquire" /\ inCond[u] = NULL => target[u] \in Mutex
      BY DEF CondInv, TypesOK, TypeOK, Places
    <3>3. CASE u = t
      BY <1>1, <1>4, <1>6, <1>8, <3>3
    <3>4. CASE u # t
      BY <1>4, <1>5, <1>6, <1>8, <3>1, <3>2, <3>4
    <3>5. QED
      BY <3>3, <3>4
  <2>3. \A n \in Mutex : (taken[n] <=> owner[n] # NULL)'
    BY <1>8 DEF CondInv, OwnershipAcrossWaits
  <2>4. QED
    BY <2>1, <2>2, <2>3 DEF OwnershipAcrossWaits
<1>14. QED
  BY <1>9, <1>10, <1>11, <1>12, <1>13 DEF CondInv

\* The threads of W leave the queue of c and become ready.
Wakes(c, W) ==
    /\ W \in SUBSET Thread
    /\ \A u \in W : QueuedIn(condq, c, u)
    /\ condq' \in [Cond -> Seq(Thread)]
    /\ \A d \in Cond, u \in Thread :
         QueuedIn(condq', d, u) <=> QueuedIn(condq, d, u) /\ ~(d = c /\ u \in W)
    /\ OnceEach(condq')
    /\ status' = Woken(status, W)
    /\ UNCHANGED <<current, mutexVars, clientVars, crashed, inCond, misuse>>

\* A signal wakes the first, a broadcast all.
LEMMA SignalWakes ==
    ASSUME CondInv, NEW t \in Thread, NEW c \in Cond, CondSignal(t, c)
    PROVE  Wakes(c, {Head(condq[c])})
<1>1. /\ condq \in [Cond -> Seq(Thread)] /\ OnceEach(condq)
      /\ condq[c] # <<>> /\ condq[c] \in Seq(Thread)
      /\ condq' = [condq EXCEPT ![c] = Tail(@)]
  BY DEF CondSignal, CondInv, TypesOK, Queues
<1>2. Tail(condq[c]) \in Seq(Thread)
  BY <1>1, TailFacts
<1>3. /\ condq' \in [Cond -> Seq(Thread)] /\ condq'[c] = Tail(condq[c])
      /\ \A d \in Cond : d # c => condq'[d] = condq[d]
  BY <1>1, <1>2
<1>4. Dequeues(condq, condq', Cond, c)
  BY <1>1, <1>3 DEF Dequeues, Replaced
<1>5. /\ Head(condq[c]) \in Thread /\ QueuedIn(condq, c, Head(condq[c]))
      /\ \A d \in Cond, u \in Thread : QueuedIn(condq', d, u)
           <=> QueuedIn(condq, d, u) /\ ~(d = c /\ u = Head(condq[c]))
      /\ OnceEach(condq')
  BY <1>1, <1>4, DequeueFacts
<1>6. QED
  BY <1>3, <1>5 DEF CondSignal, Wakes

LEMMA BroadcastWakes ==
    ASSUME CondInv, NEW c \in Cond, CondSBroadcast(c)
    PROVE  Wakes(c, {u \in Thread : OnCond(c, u)})
<1> DEFINE W == {u \in Thread : OnCond(c, u)}
<1>1. /\ condq \in [Cond -> Seq(Thread)] /\ OnceEach(condq)
      /\ condq' = [condq EXCEPT ![c] = <<>>] /\ status' = Woken(status, W)
  BY DEF CondSBroadcast, WakeAll, CondInv, TypesOK, Queues
<1>2. /\ condq' \in [Cond -> Seq(Thread)] /\ condq'[c] = <<>>
      /\ \A d \in Cond : d # c => condq'[d] = condq[d]
  BY <1>1
<1>3. Empties(condq, condq', Cond, c)
  BY <1>1, <1>2 DEF Empties, Replaced
<1>4. \A d \in Cond, u \in Thread :
        QueuedIn(condq', d, u) <=> QueuedIn(condq, d, u) /\ d # c
  BY <1>3, EmptiedFacts
<1>5. OnceEach(condq')
  BY <1>1, <1>3, EmptiedFacts
<1>6. \A u \in Thread : u \in W <=> QueuedIn(condq, c, u)
  BY DEF OnCond, QueuedIn
<1>7. /\ W \in SUBSET Thread
      /\ UNCHANGED <<current, mutexVars, clientVars, crashed, inCond, misuse>>
  BY DEF CondSBroadcast
<1> HIDE DEF W
<1>8. Wakes(c, W)
  BY <1>1, <1>2, <1>4, <1>5, <1>6, <1>7 DEF Wakes
<1>9. QED
  BY <1>8 DEF W

LEMMA WakesFacts ==
    ASSUME CondInv, NEW c \in Cond, NEW W, Wakes(c, W)
    PROVE  /\ W \in SUBSET WaitingThreads
           /\ \A u \in W : inCond[u] = c
           /\ DispatchTypeOK'
           /\ \A u \in Thread :
                status'[u] = "BLOCKING" <=> status[u] = "BLOCKING" /\ u \notin W
<1>1. /\ W \in SUBSET Thread /\ status' = Woken(status, W) /\ current' = current
      /\ \A u \in W : QueuedIn(condq, c, u)
  BY DEF Wakes
<1>2. \A u \in W : inCond[u] = c /\ status[u] = "BLOCKING"
  BY <1>1 DEF CondInv, Queues
<1>3. DispatchTypeOK /\ current \notin W
  <2>1. DispatchTypeOK
    BY DEF CondInv, TypesOK, TypeOK
  <2>2. ASSUME current \in W PROVE FALSE
    <3>1. current \in Thread
      BY <1>1, <2>2
    <3>2. status[current] = "RUNNING" /\ status[current] = "BLOCKING"
      BY <1>2, <2>1, <2>2, <3>1 DEF DispatchTypeOK
    <3>3. QED
      BY <3>2
  <2>3. QED
    BY <2>1, <2>2
<1>4. /\ DispatchTypeOK'
      /\ \A u \in Thread : status'[u] = IF u \in W THEN "READY" ELSE status[u]
  BY <1>1, <1>3, WakeFacts
<1>5. W \in SUBSET WaitingThreads
  BY <1>1, <1>2 DEF WaitingThreads, Waiting
<1>6. QED
  BY <1>2, <1>4, <1>5

\* A woken thread is still in its wait, in no queue and without its mutex.
LEMMA CondInvWakes ==
    ASSUME CondInv, NEW c \in Cond, NEW W, Wakes(c, W)
    PROVE  CondInv'
<1> USE CondAssumption
<1>1. /\ \A u \in W : inCond[u] = c /\ inCond[u] # NULL
      /\ DispatchTypeOK'
      /\ \A u \in Thread :
           status'[u] = "BLOCKING" <=> status[u] = "BLOCKING" /\ u \notin W
  BY WakesFacts
<1>2. /\ condq' \in [Cond -> Seq(Thread)] /\ OnceEach(condq')
      /\ \A d \in Cond, u \in Thread :
           QueuedIn(condq', d, u) <=> QueuedIn(condq, d, u) /\ ~(d = c /\ u \in W)
      /\ UNCHANGED <<current, taken, owner, held, waitq, pc, target, has,
                     crashed, inCond>>
  BY DEF Wakes, mutexVars, clientVars
<1>3. TypesOK'
  BY <1>1, <1>2 DEF CondInv, TypesOK, TypeOK
<1>4. Places'
  BY <1>1, <1>2 DEF CondInv, Places
<1>5. Queues'
  <2>1. ASSUME NEW d \in Cond, NEW u \in Thread
        PROVE  QueuedIn(condq', d, u) <=> inCond'[u] = d /\ status'[u] = "BLOCKING"
    BY <1>1, <1>2 DEF CondInv, Queues
  <2>2. ASSUME NEW n \in Mutex, NEW u \in Thread
        PROVE  QueuedIn(waitq', n, u) <=>
                  /\ pc'[u] = "acquire" /\ inCond'[u] = NULL
                  /\ target'[u] = n /\ status'[u] = "BLOCKING"
    BY <1>1, <1>2 DEF CondInv, Queues
  <2>3. QED
    BY <1>2, <2>1, <2>2 DEF CondInv, Queues
<1>6. Served' /\ HeldListExact'
  BY <1>2 DEF CondInv, Served, QueuedIn, HeldListExact
<1>7. OwnershipAcrossWaits'
  BY <1>1, <1>2 DEF CondInv, OwnershipAcrossWaits
<1>8. QED
  BY <1>3, <1>4, <1>5, <1>6, <1>7 DEF CondInv

-----------------------------------------------------------------------------
(* Every step.                                                             *)

\* A crash, of either kind, changes nothing but its record.
LEMMA CondInvCrash ==
    ASSUME CondInv, UNCHANGED <<dispatchVars, mutexVars, clientVars, condq, inCond>>,
           crashed' \in Crash \cup {<<>>}
    PROVE  CondInv'
<1>1. DispatchTypeOK' /\ \A u \in Thread : status'[u] = status[u]
  BY DEF CondInv, TypesOK, TypeOK, DispatchTypeOK, dispatchVars
<1>2. UNCHANGED <<mutexVars, clientVars, condq, inCond>>
  OBVIOUS
<1>3. QED
  BY <1>1, <1>2, CondInvSchedule

\* A step of Mutex, by a thread that is not in a wait.
LEMMA CondInvMutexStep ==
    ASSUME CondInv, MutexStep
    PROVE  CondInv'
<1> USE DispatchAssumption, MutexAssumption, CondAssumption
<1>1. UNCHANGED condVars /\ UNCHANGED <<condq, inCond>>
  BY DEF MutexStep, condVars
<1>2. ASSUME NEW t \in Thread, NEW m \in Mutex,
             \/ AcquireRecursive(t, m)
             \/ TryAcquire(t, m) /\ CrashWith("recursive", m)
             \/ ReleaseUnlink(t, m) /\ \E r \in {"nonowner", "corrupted"} :
                                          CrashWith(r, m)
      PROVE  CondInv'
  BY <1>1, <1>2, CondInvCrash DEF AcquireRecursive, CrashWith, Crash
<1>3. ASSUME NEW t \in Thread, NEW m \in Mutex,
             AcquireFree(t, m) \/ (TryAcquire(t, m) /\ Take(t, m))
      PROVE  CondInv'
  <2>1. At(t, "client") /\ ~taken[m] /\ Take(t, m)
    <3>1. CASE AcquireFree(t, m)
      BY <3>1 DEF AcquireFree, MayCall
    <3>2. CASE TryAcquire(t, m) /\ Take(t, m)
      <4>1. taken' = [taken EXCEPT ![m] = TRUE] /\ owner[m] # t /\ At(t, "client")
            /\ ~taken[m]
        <5>1. ASSUME owner[m] = t PROVE FALSE
          <6>1. crashed' = <<"recursive", m>> /\ crashed' = crashed /\ crashed = <<>>
            BY <3>2, <5>1 DEF TryAcquire, Take, CrashWith, At, Alive
          <6>2. QED
            BY <6>1
        <5>2. QED
          BY <3>2, <5>1 DEF TryAcquire, Take
      <4>2. QED
        BY <3>2, <4>1
    <3>3. QED
      BY <1>3, <3>1, <3>2
  <2>2. QED
    BY <1>1, <2>1, CondInvTake
<1>4. ASSUME NEW t \in Thread, NEW m \in Mutex, AcquireBlock(t, m)
      PROVE  CondInv'
  <2>1. /\ current = t /\ pc[t] = "client" /\ taken[m] /\ owner[m] # t
        /\ At(t, "client")
    BY <1>4 DEF AcquireBlock, MayCall, At
  <2>2. inCond' = [inCond EXCEPT ![t] = NULL]
    <3>1. inCond[t] = NULL /\ inCond \in [Thread -> Cond \cup {NULL}]
      BY <2>1, ClientFacts DEF CondInv, TypesOK
    <3>2. QED
      BY <1>1, <3>1
  <2>3. JoinsQueue(t, m)
    BY <1>1, <1>4, <2>2 DEF AcquireBlock, JoinsQueue
  <2>4. QED
    BY <2>1, <2>3, CondInvEnqueue
<1>5. ASSUME NEW t \in Thread, NEW m \in Mutex,
             At(t, "client"), owner[m] = t, m \in held[t],
             held' = [held EXCEPT ![t] = @ \ {m}],
             has' = [has EXCEPT ![t] = @ \ {m}],
             pc' = [pc EXCEPT ![t] = "release"],
             target' = [target EXCEPT ![t] = m],
             UNCHANGED <<dispatchVars, taken, owner, waitq, crashed>>
      PROVE  CondInv'
  BY <1>1, <1>5, CondInvUnlink DEF dispatchVars
<1>6. ASSUME NEW t \in Thread, AcquireReturn(t) PROVE CondInv'
  <2>1. /\ At(t, "acquire") /\ inCond[t] = NULL /\ target[t] \in Mutex
        /\ inCond \in [Thread -> Cond \cup {NULL}]
    <3>1. At(t, "acquire") /\ current = t /\ pc[t] = "acquire"
      BY <1>6 DEF AcquireReturn, At
    <3>2. inCond[t] = NULL
      BY <3>1 DEF MutexStep
    <3>3. QED
      BY <3>1, <3>2 DEF CondInv, TypesOK, Places
  <2>2. /\ inCond' = [inCond EXCEPT ![t] = NULL]
        /\ has' = IF target[t] = NULL THEN has
                  ELSE [has EXCEPT ![t] = @ \cup {target[t]}]
        /\ pc' = [pc EXCEPT ![t] = "client"]
        /\ target' = [target EXCEPT ![t] = NULL]
        /\ UNCHANGED <<current, status, taken, owner, held, waitq, crashed, condq>>
    BY <1>1, <1>6, <2>1 DEF AcquireReturn, dispatchVars, mutexVars
  <2>3. QED
    BY <2>1, <2>2, CondInvReturn
<1>7. ASSUME NEW t \in Thread, ReleaseHandOff(t) PROVE CondInv'
  BY <1>1, <1>7, CondInvHandOff
<1>8. CASE Preempt
  <2>1. /\ DispatchTypeOK /\ PreemptSwitch /\ crashed \in Crash \cup {<<>>}
        /\ UNCHANGED <<mutexVars, clientVars, crashed>>
    BY <1>8 DEF CondInv, TypesOK, TypeOK, Preempt
  <2>2. /\ DispatchTypeOK'
        /\ \A u \in Thread : status'[u] = "BLOCKING" <=> status[u] = "BLOCKING"
    BY <2>1, PreemptFacts
  <2>3. UNCHANGED <<mutexVars, clientVars, condq, inCond>> /\ crashed' = crashed
    BY <1>1, <2>1
  <2>4. QED
    BY <2>1, <2>2, <2>3, CondInvSchedule
<1>9. CASE Halted
  <2>1. /\ UNCHANGED <<dispatchVars, mutexVars, clientVars, condq, inCond>>
        /\ crashed' = crashed /\ crashed \in Crash \cup {<<>>}
    BY <1>1, <1>9
    DEF Halted, vars, dispatchVars, mutexVars, clientVars, CondInv, TypesOK, TypeOK
  <2>2. QED
    BY <2>1, CondInvCrash
<1>10. ASSUME NEW t \in Thread, NEW m \in Mutex, TryAcquire(t, m)
       PROVE  CondInv'
  BY <1>2, <1>3, <1>10 DEF TryAcquire
<1>11. ASSUME NEW t \in Thread, NEW m \in Mutex, ReleaseUnlink(t, m)
       PROVE  CondInv'
  BY <1>2, <1>5, <1>11 DEF ReleaseUnlink
<1>12. QED
  BY <1>2, <1>3, <1>4, <1>6, <1>7, <1>8, <1>9, <1>10, <1>11 DEF MutexStep, Next

\* A woken thread goes on: it takes its mutex, needs none, or queues for it.
LEMMA CondInvWoken ==
    ASSUME CondInv, NEW t \in Thread, CondReturn(t)
    PROVE  CondInv'
<1> USE MutexAssumption
<1> DEFINE m == target[t]
<1>1. /\ At(t, "acquire") /\ inCond[t] # NULL
      /\ inCond' = [inCond EXCEPT ![t] = NULL]
      /\ pc' = [pc EXCEPT ![t] = "client"]
      /\ target' = [target EXCEPT ![t] = NULL]
      /\ UNCHANGED <<current, status, crashed, condq>>
  BY DEF CondReturn, Up, dispatchVars
<1>2. CASE m = NULL
  <2>1. UNCHANGED <<taken, owner, held, waitq, has>>
    BY <1>2 DEF CondReturn, mutexVars
  <2>2. has' = IF target[t] = NULL THEN has
               ELSE [has EXCEPT ![t] = @ \cup {target[t]}]
    BY <1>2, <2>1
  <2>3. UNCHANGED <<current, status, taken, owner, held, waitq, crashed, condq>>
    BY <1>1, <2>1
  <2>4. QED
    BY <1>1, <1>2, <2>2, <2>3, CondInvReturn
<1>3. CASE m # NULL
  <2>1. /\ m \in Mutex /\ ~taken[m]
        /\ taken' = [taken EXCEPT ![m] = TRUE]
        /\ owner' = [owner EXCEPT ![m] = t]
        /\ held' = [held EXCEPT ![t] = @ \cup {m}]
        /\ has' = [has EXCEPT ![t] = @ \cup {m}]
        /\ waitq' = waitq
    BY <1>3 DEF CondReturn, CondInv, TypesOK, TypeOK
  <2>2. UNCHANGED <<current, status, waitq, crashed, condq>>
    BY <1>1, <2>1
  <2> HIDE DEF m
  <2>3. target[t] = m
    BY DEF m
  <2>4. QED
    BY <1>1, <2>1, <2>2, <2>3, CondInvRetake
<1>4. QED
  BY <1>2, <1>3

LEMMA CondInvReblock ==
    ASSUME CondInv, NEW t \in Thread, CondReblock(t)
    PROVE  CondInv'
<1> DEFINE m == target[t]
<1>1. /\ current = t /\ pc[t] = "acquire" /\ inCond[t] # NULL
      /\ m \in Mutex /\ taken[m] /\ owner[m] # t
  BY DEF CondReblock, Up, At, CondInv, TypesOK, TypeOK, OwnershipAcrossWaits
<1>2. /\ pc' = [pc EXCEPT ![t] = "acquire"]
      /\ target' = [target EXCEPT ![t] = m]
      /\ UNCHANGED <<taken, owner, held, has, crashed, condq>>
  BY <1>1 DEF CondReblock, CondInv, TypesOK, TypeOK, clientVars
<1>3. JoinsQueue(t, m)
  BY <1>2 DEF CondReblock, JoinsQueue
<1> HIDE DEF m
<1>4. target[t] = m
  BY DEF m
<1>5. QED
  BY <1>1, <1>3, <1>4, CondInvEnqueue

LEMMA CondInvNext == CondInv /\ [CondNext]_allVars => CondInv'
<1> SUFFICES ASSUME CondInv, [CondNext]_allVars PROVE CondInv'
  OBVIOUS
<1>1. ASSUME NEW t \in Thread, NEW c \in Cond, CondWait(t, c) PROVE CondInv'
  <2>1. /\ At(t, "client") /\ LockOf[c] \in Mutex \cup {NULL}
        /\ LockOf[c] # NULL => owner[LockOf[c]] = t
        /\ Sleep(t, c, LockOf[c]) /\ UNCHANGED crashed
    BY <1>1, CondAssumption DEF CondWait, Unowned
  <2>2. QED
    BY <2>1, CondInvSleep
<1>2. ASSUME NEW t \in Thread, NEW c \in Cond,
             CondSignal(t, c) \/ CondBroadcast(t, c)
      PROVE  CondInv'
  BY <1>2, SignalWakes, BroadcastWakes, CondInvWakes
  DEF CondBroadcast, CondSBroadcast
<1>3. ASSUME NEW t \in Thread, CondReturn(t) \/ CondReblock(t) PROVE CondInv'
  BY <1>3, CondInvWoken, CondInvReblock
<1>4. CASE \/ \E t \in Thread, c \in Cond : CondCrash(c, t)
           \/ Stopped \/ UNCHANGED allVars
  <2>1. /\ UNCHANGED <<dispatchVars, mutexVars, clientVars, condq, inCond>>
        /\ crashed' = crashed /\ crashed \in Crash \cup {<<>>}
    BY <1>4 DEF CondCrash, Stopped, allVars, condVars, vars, dispatchVars,
                mutexVars, clientVars, CondInv, TypesOK, TypeOK
  <2>2. QED
    BY <2>1, CondInvCrash
<1>5. CASE MutexStep
  BY <1>5, CondInvMutexStep
<1>6. QED
  BY <1>1, <1>2, <1>3, <1>4, <1>5 DEF CondNext

-----------------------------------------------------------------------------
(* What holds in every behaviour of the mutexes and condition variables.   *)

\* The inductive invariant: where each thread is, in which queue, and who owns
\* what, over condvar.c and mutex.c together.
THEOREM CondInvariance == CondSpec => []CondInv
<1>1. QED
  BY CondInvInit, CondInvNext, PTL DEF CondSpec

\* No wake-up is lost in the two waits of cond_var_wait, and the one link of a
\* thread is never in two queues.
THEOREM NoLostWakeUp == CondSpec => []OneQueue
<1>1. CondInv => OneQueue
  <2>1. ASSUME CondInv, NEW c \in Cond, NEW t \in Thread
        PROVE  OnCond(c, t) <=> inCond[t] = c /\ status[t] = "BLOCKING"
    BY <2>1 DEF CondInv, Queues, QueuedIn, OnCond
  <2>2. ASSUME CondInv, NEW m \in Mutex, NEW t \in Thread
        PROVE  InQueue(m, t) <=>
                  /\ pc[t] = "acquire" /\ inCond[t] = NULL
                  /\ target[t] = m /\ status[t] = "BLOCKING"
    BY <2>2 DEF CondInv, Queues, QueuedIn, InQueue
  <2>3. ASSUME CondInv
        PROVE  \A c \in Cond : \A i, j \in 1..Len(condq[c]) :
                 condq[c][i] = condq[c][j] => i = j
    BY <2>3 DEF CondInv, TypesOK, Queues, OnceEach
  <2>4. QED
    BY <2>1, <2>2, <2>3 DEF OneQueue
<1>2. QED
  BY <1>1, CondInvariance, PTL

\* cond_var_wait returns with the mutex it was called with, and what a thread
\* believes to own is what the mutexes say it owns, before, in and after a
\* wait.
THEOREM ReturnsWithMutex == CondSpec => []OwnershipAcrossWaits
<1>1. CondInv => OwnershipAcrossWaits
  BY DEF CondInv
<1>2. QED
  BY <1>1, CondInvariance, PTL

\* The held lists and the owners agree also when a wait releases the mutex and
\* hands it on.
THEOREM HeldListsAgree == CondSpec => []HeldListExact
<1>1. CondInv => HeldListExact
  BY DEF CondInv
<1>2. QED
  BY <1>1, CondInvariance, PTL

\* No wait on a variable strands a thread that queues for the mutex it gives
\* up.
THEOREM NoOneStranded == CondSpec => []WaitersHaveOwner
<1>1. CondInv => WaitersHaveOwner
  <2>1. ASSUME NEW m \in Mutex, NEW t
        PROVE  QueuedIn(waitq, m, t) <=> InQueue(m, t)
    BY DEF QueuedIn, InQueue
  <2>2. QED
    BY <2>1 DEF CondInv, Served, WaitersHaveOwner
<1>2. QED
  BY <1>1, CondInvariance, PTL

\* A woken waiter does not get its mutex ahead of the threads that queue for
\* it: mutexes with waiters pass in the order of the queue, in waits too.
THEOREM SignalNeverBarges == CondSpec => NoBarging
<1> DEFINE Fair(m) == waitq[m] # <<>> /\ owner'[m] # owner[m] =>
                        /\ owner'[m] = Head(waitq[m])
                        /\ taken'[m]
                        /\ waitq'[m] = Tail(waitq[m])
<1>1. ASSUME CondInv, [CondNext]_allVars, NEW m \in Mutex PROVE Fair(m)
  <2>1. ASSUME NEW t \in Thread, NEW n \in Mutex, ~taken[n],
               owner' = [owner EXCEPT ![n] = t]
        PROVE  Fair(m)
    BY <1>1, <2>1 DEF CondInv, TypesOK, TypeOK, Served
  <2>2. ASSUME UNCHANGED owner PROVE Fair(m)
    BY <2>2
  <2>3. ASSUME NEW n \in Mutex, owner[n] # NULL,
               \/ /\ waitq[n] # <<>>
                  /\ owner' = [owner EXCEPT ![n] = Head(waitq[n])]
                  /\ waitq' = [waitq EXCEPT ![n] = Tail(@)]
                  /\ UNCHANGED taken
               \/ waitq[n] = <<>> /\ owner' = [owner EXCEPT ![n] = NULL]
        PROVE  Fair(m)
    BY <1>1, <2>3 DEF CondInv, TypesOK, TypeOK, Served
  <2>4. ASSUME NEW t \in Thread, ReleaseHandOff(t) PROVE Fair(m)
    <3>1. target[t] \in Mutex /\ owner[target[t]] # NULL
      BY <1>1, <2>4, DispatchAssumption, MutexAssumption
      DEF ReleaseHandOff, At, CondInv, TypesOK, TypeOK, Places
    <3>2. QED
      BY <2>3, <2>4, <3>1 DEF ReleaseHandOff
  <2>5. ASSUME NEW t \in Thread, NEW c \in Cond, CondWait(t, c) PROVE Fair(m)
    <3>1. CASE LockOf[c] = NULL
      BY <2>2, <2>5, <3>1 DEF CondWait, Sleep, mutexVars
    <3>2. CASE LockOf[c] # NULL
      <4>1. /\ LockOf[c] \in Mutex /\ owner[LockOf[c]] # NULL
            /\ HandOver(t, LockOf[c])
        BY <2>5, <3>2, CondAssumption, DispatchAssumption
        DEF CondWait, Sleep, Unowned
      <4>2. QED
        BY <2>3, <4>1 DEF HandOver
    <3>3. QED
      BY <3>1, <3>2
  <2>6. ASSUME NEW t \in Thread, CondReturn(t) PROVE Fair(m)
    <3>1. CASE target[t] = NULL
      BY <2>2, <2>6, <3>1 DEF CondReturn, mutexVars
    <3>2. CASE target[t] # NULL
      BY <1>1, <2>1, <2>6, <3>2 DEF CondReturn, CondInv, TypesOK, TypeOK
    <3>3. QED
      BY <3>1, <3>2
  <2>7. ASSUME NEW t \in Thread, NEW c \in Cond,
               CondCrash(c, t) \/ CondSignal(t, c) \/ CondBroadcast(t, c)
        PROVE  Fair(m)
    BY <2>2, <2>7 DEF CondCrash, CondSignal, CondBroadcast, vars, mutexVars
  <2>8. ASSUME NEW t \in Thread, NEW n \in Mutex,
               \/ AcquireRecursive(t, n) \/ AcquireFree(t, n)
               \/ AcquireBlock(t, n) \/ TryAcquire(t, n) \/ ReleaseUnlink(t, n)
        PROVE  Fair(m)
    BY <2>1, <2>2, <2>8
    DEF AcquireRecursive, AcquireFree, AcquireBlock, TryAcquire,
        ReleaseUnlink, CrashWith, Take, mutexVars
  <2>9. ASSUME NEW t \in Thread, AcquireReturn(t) \/ CondReblock(t)
        PROVE  Fair(m)
    BY <2>2, <2>9 DEF AcquireReturn, CondReblock, mutexVars
  <2>10. CASE Preempt \/ Halted \/ Stopped \/ UNCHANGED allVars
    BY <2>2, <2>10 DEF Preempt, Halted, Stopped, mutexVars, vars, allVars
  <2>11. QED
    BY <1>1, <2>4, <2>5, <2>6, <2>7, <2>8, <2>9, <2>10
    DEF CondNext, MutexStep, Next
<1>2. CondInv /\ [CondNext]_allVars => [\A m \in Mutex : Fair(m)]_vars
  BY <1>1
<1>3. QED
  BY <1>2, CondInvariance, PTL DEF CondSpec, NoBarging

\* The mutexes, used by the waits of condition variables, still report
\* recursion and foreign releases only of callers that are guilty of them.
THEOREM CondCrashOnMisuse == CondSpec => []CrashOnlyOnMisuse
<1> USE DispatchAssumption, MutexAssumption
<1>1. CondInit => CrashOnlyOnMisuse
  BY DEF CondInit, Init, CrashOnlyOnMisuse
<1>2. ASSUME CondInv, CrashOnlyOnMisuse, [CondNext]_allVars PROVE CrashOnlyOnMisuse'
  <2>1. CASE ~Alive /\ UNCHANGED <<crashed, current, has>>
    BY <1>2, <2>1 DEF CrashOnlyOnMisuse
  <2>2. CASE crashed' = <<>>
    BY <2>2 DEF CrashOnlyOnMisuse
  <2>3. ASSUME NEW t \in Thread, NEW m \in Mutex, At(t, "client"),
               \/ owner[m] = t /\ CrashWith("recursive", m)
               \/ owner[m] # t /\ CrashWith("nonowner", m)
        PROVE  CrashOnlyOnMisuse'
    <3>1. has[current] = {n \in Mutex : owner[n] = current}
      BY <1>2, <2>3, ClientFacts
    <3>2. QED
      BY <2>3, <3>1
      DEF At, CrashWith, CrashOnlyOnMisuse, dispatchVars, clientVars
  <2>4. ASSUME NEW t \in Thread, NEW m \in Mutex, At(t, "client"), owner[m] = t
        PROVE  m \in held[t]
    BY <1>2, <2>4 DEF CondInv, At, HeldListExact
  <2>5. ASSUME MutexStep, Alive, crashed' # <<>> PROVE CrashOnlyOnMisuse'
    BY <2>3, <2>4, <2>5
    DEF MutexStep, Next, AcquireRecursive, AcquireFree, AcquireBlock, Alive,
        MayCall, TryAcquire, ReleaseUnlink, AcquireReturn, ReleaseHandOff,
        Preempt, Halted, Take
  <2>6. ASSUME MutexStep, ~Alive PROVE UNCHANGED <<crashed, current, has>>
    BY <2>6
    DEF MutexStep, Next, vars, Halted, AcquireRecursive, AcquireFree,
        AcquireBlock, MayCall, TryAcquire, ReleaseUnlink, AcquireReturn,
        ReleaseHandOff, At, Preempt
  <2>7. ASSUME NEW t \in Thread, NEW c \in Cond,
               \/ CondCrash(c, t) \/ CondWait(t, c)
               \/ CondSignal(t, c) \/ CondBroadcast(t, c)
        PROVE  crashed' = <<>>
    BY <2>7 DEF CondCrash, CondWait, CondSignal, CondBroadcast, Up, At, Alive,
                vars
  <2>8. ASSUME NEW t \in Thread, CondReturn(t) \/ CondReblock(t)
        PROVE  crashed' = <<>>
    BY <2>8 DEF CondReturn, CondReblock, Up, Alive
  <2>9. CASE Stopped \/ UNCHANGED allVars
    BY <1>2, <2>9 DEF Stopped, allVars, vars, CrashOnlyOnMisuse
  <2>10. QED
    BY <1>2, <2>1, <2>2, <2>5, <2>6, <2>7, <2>8, <2>9 DEF CondNext
<1>3. QED
  BY <1>1, <1>2, CondInvariance, PTL DEF CondSpec

\* What waits, signals and hand-offs do to the processor and to the statuses of
\* the threads is what Dispatch allows: only the running thread blocks, and
\* only threads that wait are woken.
THEOREM CondKeepsContract == CondSpec => DispatchSpec
<1> USE DispatchAssumption, MutexAssumption
<1>1. CondInit => DispatchInit
  BY DEF CondInit, Init, DispatchInit
<1>2. ASSUME CondInv, [CondNext]_allVars PROVE [DispatchNext]_dispatchVars
  <2>1. DispatchTypeOK /\ {} \in SUBSET WaitingThreads
    BY <1>2 DEF CondInv, TypesOK, TypeOK
  <2>2. ASSUME NEW m \in Mutex, waitq[m] # <<>>
        PROVE  {Head(waitq[m])} \in SUBSET WaitingThreads
    <3>1. waitq[m] \in Seq(Thread)
      BY <1>2 DEF CondInv, TypesOK, TypeOK
    <3>2. Head(waitq[m]) \in Thread /\ QueuedIn(waitq, m, Head(waitq[m]))
      BY <2>2, <3>1, TailFacts DEF QueuedIn
    <3>3. QED
      BY <1>2, <3>2 DEF CondInv, Queues, WaitingThreads, Waiting
  <2>3. ASSUME NEW t \in Thread, NEW c \in Cond, CondWait(t, c)
        PROVE  DispatchNext
    <3>1. current = t
      BY <2>3 DEF CondWait, At
    <3>2. CASE LockOf[c] = NULL
      BY <2>1, <2>3, <3>1, <3>2, BlockIsDispatch DEF CondWait, Sleep
    <3>3. CASE LockOf[c] # NULL
      <4>1. LockOf[c] \in Mutex /\ HandOver(t, LockOf[c])
        BY <2>3, <3>3, CondAssumption DEF CondWait, Sleep
      <4>2. QED
        BY <2>1, <2>2, <3>1, <4>1, BlockIsDispatch DEF HandOver
    <3>4. QED
      BY <3>2, <3>3
  <2>4. ASSUME NEW t \in Thread, CondReblock(t) PROVE DispatchNext
    BY <2>1, <2>4, BlockIsDispatch DEF CondReblock, At
  <2>5. ASSUME NEW t \in Thread, NEW m \in Mutex, AcquireBlock(t, m)
        PROVE  DispatchNext
    BY <2>1, <2>5, BlockIsDispatch DEF AcquireBlock, MayCall, At
  <2>6. ASSUME NEW t \in Thread, ReleaseHandOff(t)
        PROVE  [DispatchNext]_dispatchVars
    <3>1. target[t] \in Mutex
      BY <1>2, <2>6 DEF ReleaseHandOff, At, CondInv, TypesOK, TypeOK, Places
    <3>2. CASE waitq[target[t]] # <<>>
      BY <2>2, <2>6, <3>1, <3>2, WakeIsDispatch DEF ReleaseHandOff
    <3>3. CASE waitq[target[t]] = <<>>
      BY <2>6, <3>3 DEF ReleaseHandOff, dispatchVars
    <3>4. QED
      BY <3>2, <3>3
  <2>7. ASSUME NEW t \in Thread, NEW c \in Cond,
               CondSignal(t, c) \/ CondBroadcast(t, c)
        PROVE  DispatchNext
    <3>1. ASSUME NEW W, Wakes(c, W) PROVE DispatchNext
      <4>1. W \in SUBSET WaitingThreads
        BY <1>2, <3>1, WakesFacts
      <4>2. status' = Woken(status, W) /\ current' = current
        BY <3>1 DEF Wakes
      <4>3. QED
        BY <4>1, <4>2, WakeIsDispatch
    <3>2. QED
      BY <1>2, <2>7, <3>1, SignalWakes, BroadcastWakes
      DEF CondBroadcast, CondSBroadcast
  <2>8. CASE Preempt
    BY <2>1, <2>8, PreemptIsDispatch DEF Preempt
  <2>9. CASE Halted \/ Stopped \/ UNCHANGED allVars
    BY <2>9 DEF Halted, Stopped, allVars, vars, dispatchVars
  <2>10. ASSUME NEW t \in Thread, AcquireReturn(t) \/ CondReturn(t)
         PROVE  UNCHANGED dispatchVars
    BY <2>10 DEF AcquireReturn, CondReturn, dispatchVars
  <2>11. ASSUME NEW t \in Thread, NEW m \in Mutex,
               \/ AcquireRecursive(t, m) \/ AcquireFree(t, m)
               \/ TryAcquire(t, m) \/ ReleaseUnlink(t, m)
         PROVE  UNCHANGED dispatchVars
    BY <2>11 DEF AcquireRecursive, AcquireFree, TryAcquire, ReleaseUnlink,
                 Take, CrashWith, dispatchVars
  <2>12. ASSUME NEW t \in Thread, NEW c \in Cond, CondCrash(c, t)
         PROVE  UNCHANGED dispatchVars
    BY <2>12 DEF CondCrash, vars, dispatchVars
  <2>13. QED
    BY <1>2, <2>3, <2>4, <2>5, <2>6, <2>7, <2>8, <2>9, <2>10, <2>11, <2>12
    DEF CondNext, MutexStep, Next
<1>3. QED
  BY <1>1, <1>2, CondInvariance, PTL DEF CondSpec, DispatchSpec

-----------------------------------------------------------------------------
(***************************************************************************)
(* The serial port.                                                        *)
(***************************************************************************)

(* Rings and sequences.                                                    *)

\* What is in a ring, as a sequence.
LEMMA RingSeq ==
    ASSUME NEW S, NEW n \in Nat, NEW buf \in [0..(n - 1) -> S],
           NEW i \in 0..(n - 1), NEW len \in 0..n
    PROVE  Ring(buf, i, len, n) \in Seq(S)
<1>1. \A k \in 1..len : Wrap(i + k - 1, n) \in 0..(n - 1)
  BY DEF Wrap
<1>2. \A k \in 1..len : buf[Wrap(i + k - 1, n)] \in S
  BY <1>1
<1>3. [k \in 1..len |-> buf[Wrap(i + k - 1, n)]] \in Seq(S)
  BY <1>2, IsASeq
<1>4. QED
  BY <1>3 DEF Ring

LEMMA RingItems ==
    ASSUME NEW buf, NEW i, NEW len \in Nat, NEW n
    PROVE  /\ Len(Ring(buf, i, len, n)) = len
           /\ \A k \in 1..len : Ring(buf, i, len, n)[k] = buf[Wrap(i + k - 1, n)]
           /\ len = 0 => Ring(buf, i, len, n) = <<>>
BY DEF Ring

\* A buffer of n cells for elements of S, of which len from i on are used.
IsRing(S, n, buf, i, len) ==
    /\ n \in Nat /\ buf \in [0..(n - 1) -> S]
    /\ i \in 0..(n - 1) /\ len \in 0..n

LEMMA RingTyped ==
    ASSUME NEW S, NEW n, NEW buf, NEW i, NEW len, IsRing(S, n, buf, i, len)
    PROVE  /\ Ring(buf, i, len, n) \in Seq(S)
           /\ Len(Ring(buf, i, len, n)) = len
           /\ \A k \in 1..len : Ring(buf, i, len, n)[k] = buf[Wrap(i + k - 1, n)]
<1>1. /\ n \in Nat /\ buf \in [0..(n - 1) -> S] /\ i \in 0..(n - 1)
      /\ len \in 0..n
  BY DEF IsRing
<1>2. len \in Nat
  BY <1>1
<1>3. Ring(buf, i, len, n) \in Seq(S)
  BY <1>1, RingSeq
<1>4. QED
  BY <1>2, <1>3, RingItems

\* new is the ring with c in the cell behind its last.
Puts(S, n, buf, i, len, c, new) ==
    /\ IsRing(S, n, buf, i, len) /\ len < n /\ c \in S
    /\ new = [buf EXCEPT ![Wrap(i + len, n)] = c]

\* Writing to the index behind the last of a ring appends.
LEMMA RingGrows ==
    ASSUME NEW S, NEW n, NEW buf, NEW i, NEW len, NEW c, NEW new,
           Puts(S, n, buf, i, len, c, new)
    PROVE  /\ IsRing(S, n, new, i, len + 1)
           /\ Wrap(Wrap(i + len, n) + 1, n) = Wrap(i + (len + 1), n)
BY DEF Puts, IsRing, Wrap

LEMMA RingAppend ==
    ASSUME NEW S, NEW n, NEW buf, NEW i, NEW len, NEW c, NEW new,
           Puts(S, n, buf, i, len, c, new)
    PROVE  Ring(new, i, len + 1, n) = Append(Ring(buf, i, len, n), c)
<1> DEFINE end == Wrap(i + len, n)
           r == Ring(buf, i, len, n)
           s == Ring(new, i, len + 1, n)
           a == Append(r, c)
<1>0. IsRing(S, n, buf, i, len)
  BY DEF Puts
<1>1. /\ c \in S
      /\ n \in Nat /\ i \in 0..(n - 1) /\ len \in 0..(n - 1) /\ len \in Nat
  BY DEF Puts, IsRing
<1>2. new[end] = c /\ \A k \in 0..(n - 1) : k # end => new[k] = buf[k]
  <2>1. end \in 0..(n - 1)
    BY <1>1 DEF Wrap
  <2>2. QED
    BY <2>1 DEF Puts, IsRing
<1>3. IsRing(S, n, new, i, len + 1)
  BY RingGrows
<1>4. /\ r \in Seq(S) /\ Len(r) = len
      /\ \A k \in 1..len : r[k] = buf[Wrap(i + k - 1, n)]
  BY <1>0, RingTyped
<1>5. /\ s \in Seq(S) /\ Len(s) = len + 1
      /\ \A k \in 1..(len + 1) : s[k] = new[Wrap(i + k - 1, n)]
  BY <1>3, RingTyped
<1>6. \A k \in 1..len : /\ Wrap(i + k - 1, n) \in 0..(n - 1)
                        /\ Wrap(i + k - 1, n) # end
  BY <1>1 DEF Wrap
<1>7. i + (len + 1) - 1 = i + len
  BY <1>1
<1> HIDE DEF r, s
<1>8. /\ a \in Seq(S) /\ Len(a) = len + 1
      /\ \A k \in 1..len : a[k] = r[k]
      /\ a[len + 1] = c
  BY <1>1, <1>4, AppendProperties
<1> HIDE DEF a
<1>9. ASSUME NEW k \in 1..(len + 1) PROVE s[k] = a[k]
  <2>1. CASE k \in 1..len
    BY <1>2, <1>4, <1>5, <1>6, <1>8, <2>1
  <2>2. CASE k = len + 1
    BY <1>1, <1>2, <1>5, <1>7, <1>8, <2>2
  <2>3. QED
    BY <1>1, <2>1, <2>2
<1>10. s = a
  BY <1>5, <1>8, <1>9, SeqEqual
<1>11. QED
  BY <1>10 DEF s, r, a

\* s with c in front.
Cons(c, s) == <<c>> \o s

\* Going on from the first index of a ring takes its first away.
LEMMA RingShrinks ==
    ASSUME NEW S, NEW n, NEW buf, NEW i, NEW len,
           IsRing(S, n, buf, i, len), len > 0
    PROVE  /\ IsRing(S, n, buf, Wrap(i + 1, n), len - 1)
           /\ Wrap(Wrap(i + 1, n) + (len - 1), n) = Wrap(i + len, n)
           /\ buf[i] \in S
BY DEF IsRing, Wrap

LEMMA RingRest ==
    ASSUME NEW S, NEW n, NEW buf, NEW i, NEW len,
           IsRing(S, n, buf, i, len), len > 0
    PROVE  Ring(buf, i, len, n) = Cons(buf[i], Ring(buf, Wrap(i + 1, n), len - 1, n))
<1> DEFINE r == Ring(buf, i, len, n)
           s == Ring(buf, Wrap(i + 1, n), len - 1, n)
           c == buf[i]
<1>1. n \in Nat /\ i \in 0..(n - 1) /\ len \in 1..n /\ len \in Nat /\ len - 1 \in Nat
  BY DEF IsRing
<1>2. IsRing(S, n, buf, Wrap(i + 1, n), len - 1) /\ c \in S
  BY RingShrinks
<1>3. /\ r \in Seq(S) /\ Len(r) = len
      /\ \A k \in 1..len : r[k] = buf[Wrap(i + k - 1, n)]
  BY RingTyped
<1>4. /\ s \in Seq(S) /\ Len(s) = len - 1
      /\ \A k \in 1..(len - 1) : s[k] = buf[Wrap(Wrap(i + 1, n) + k - 1, n)]
  BY <1>2, RingTyped
<1>5. \A k \in 1..(len - 1) :
        Wrap(Wrap(i + 1, n) + k - 1, n) = Wrap(i + (k + 1) - 1, n)
  BY <1>1 DEF Wrap
<1>6. r[1] = c
  BY <1>1, <1>3 DEF Wrap
<1> HIDE DEF r, s, c
<1>7. ASSUME NEW k \in 1..(len - 1) PROVE s[k] = r[k + 1]
  <2>1. k + 1 \in 1..len
    BY <1>1
  <2>2. QED
    BY <1>3, <1>4, <1>5, <2>1
<1>8. /\ <<c>> \o s \in Seq(S) /\ Len(<<c>> \o s) = len
      /\ \A k \in 1..len : (<<c>> \o s)[k] = IF k <= 1 THEN c ELSE s[k - 1]
  <2>1. <<c>> \in Seq(S) /\ Len(<<c>>) = 1 /\ <<c>>[1] = c
    BY <1>2
  <2>2. QED
    BY <1>1, <1>4, <2>1, ConcatProperties
<1>9. \A k \in 1..len : r[k] = (<<c>> \o s)[k]
  BY <1>1, <1>6, <1>7, <1>8
<1>10. r = <<c>> \o s
  BY <1>3, <1>8, <1>9, SeqEqual
<1>11. QED
  BY <1>10 DEF r, s, c, Cons

Parts(S, s, t, c) == s \in Seq(S) /\ t \in Seq(S) /\ c \in S

\* The first of what is to come becomes the last of what was.
LEMMA FirstToLast ==
    ASSUME NEW S, NEW s, NEW t, NEW c, Parts(S, s, t, c)
    PROVE  Append(s, c) \o t = s \o Cons(c, t)
<1>1. s \in Seq(S) /\ t \in Seq(S) /\ c \in S /\ <<c>> \in Seq(S)
  BY DEF Parts
<1>2. Append(s, c) = s \o <<c>>
  BY <1>1, AppendIsConcat
<1>3. QED
  BY <1>1, <1>2, ConcatAssociative DEF Cons

LEMMA LastOfBoth ==
    ASSUME NEW S, NEW s, NEW t, NEW c, Parts(S, s, t, c)
    PROVE  s \o Append(t, c) = Append(s \o t, c)
<1>1. s \in Seq(S) /\ t \in Seq(S) /\ c \in S /\ <<c>> \in Seq(S)
  BY DEF Parts
<1>2. Append(t, c) = t \o <<c>>
  BY <1>1, AppendIsConcat
<1>3. s \o t \in Seq(S)
  BY <1>1, ConcatProperties
<1>4. Append(s \o t, c) = (s \o t) \o <<c>>
  BY <1>1, <1>3, AppendIsConcat
<1>5. QED
  BY <1>1, <1>2, <1>4, ConcatAssociative

-----------------------------------------------------------------------------
(* The characters that are sent.                                           *)

Char == (Thread \X Nat) \cup {Message}

SendRing ==
    /\ IsRing(Char, SendMax, send, shead, slen)
    /\ stail = Wrap(shead + slen, SendMax)
    /\ wire \in Seq(Char)
    /\ done \in [Thread -> Nat]

SendInv == SendRing /\ SentInOrder

LEMMA SendInvInit == SerialInit => SendInv
<1> SUFFICES ASSUME SerialInit PROVE SendInv
  OBVIOUS
<1>1. SendMax \in Nat \ {0} /\ Message \in Char
  BY SerialAssumption DEF Char
<1>2. SendRing
  <2>1. IsRing(Char, SendMax, send, 0, 0) /\ Wrap(0 + 0, SendMax) = 0
    BY <1>1 DEF SerialInit, IsRing, Wrap
  <2>2. wire \in Seq(Char) /\ done \in [Thread -> Nat]
    BY DEF SerialInit
  <2>3. QED
    BY <2>1, <2>2 DEF SerialInit, SendRing
<1>3. Unsent = <<>>
  BY RingItems DEF SerialInit, Unsent
<1>4. SentInOrder
  <2>1. wire = <<>> /\ given = <<>> /\ <<>> \in Seq(Char)
    BY DEF SerialInit
  <2>2. QED
    BY <1>3, <2>1, ConcatEmptySeq DEF SentInOrder
<1>5. QED
  BY <1>2, <1>4 DEF SendInv

\* What SendRing says of the sequences.
LEMMA SendFacts ==
    ASSUME SendRing
    PROVE  /\ Unsent \in Seq(Char)
           /\ slen = 0 => Unsent = <<>>
<1>1. Unsent \in Seq(Char)
  BY RingTyped DEF SendRing, Unsent
<1>2. slen = 0 => Unsent = <<>>
  BY RingItems DEF Unsent
<1>3. QED
  BY <1>1, <1>2

\* Nothing goes in or out.
LEMMA SendQuiet ==
    ASSUME SendInv, UNCHANGED <<sendVars, wire, given>>,
           done' \in [Thread -> Nat]
    PROVE  SendInv'
BY DEF SendInv, SendRing, SentInOrder, Unsent, Ring, sendVars

\* A character goes straight to the port.
LEMMA SendDirect ==
    ASSUME SendInv, NEW c \in Char, slen = 0,
           wire' = Append(wire, c), given' = Append(given, c),
           UNCHANGED sendVars, done' \in [Thread -> Nat]
    PROVE  SendInv'
<1>1. wire \in Seq(Char) /\ Unsent = <<>> /\ wire \o Unsent = given
  BY SendFacts DEF SendInv, SendRing, SentInOrder
<1>2. Append(wire, c) \in Seq(Char) /\ given = wire
  BY <1>1, AppendProperties, ConcatEmptySeq
<1>3. SendRing'
  BY <1>2 DEF SendInv, SendRing, sendVars
<1>4. Unsent' = <<>>
  BY <1>3, SendFacts, <1>1 DEF Unsent, Ring, sendVars
<1>5. SentInOrder'
  BY <1>2, <1>4, ConcatEmptySeq DEF SentInOrder
<1>6. QED
  BY <1>3, <1>5 DEF SendInv

\* A character goes into the ring.
LEMMA SendEnqueue ==
    ASSUME SendInv, NEW c \in Char, slen < SendMax, Enqueue(c),
           wire' = wire, given' = Append(given, c), done' \in [Thread -> Nat]
    PROVE  SendInv'
<1>1. /\ Puts(Char, SendMax, send, shead, slen, c, send')
      /\ stail = Wrap(shead + slen, SendMax)
  BY DEF SendInv, SendRing, Puts, Enqueue
<1>2. /\ slen' = slen + 1
      /\ stail' = Wrap(stail + 1, SendMax) /\ shead' = shead
  BY DEF Enqueue
<1>3. /\ IsRing(Char, SendMax, send', shead', slen')
      /\ stail' = Wrap(shead' + slen', SendMax)
  BY <1>1, <1>2, RingGrows
<1>4. Ring(send', shead, slen + 1, SendMax) =
        Append(Ring(send, shead, slen, SendMax), c)
  BY <1>1, RingAppend
<1>5. Unsent' = Append(Unsent, c)
  BY <1>2, <1>4 DEF Unsent
<1>6. wire \o Append(Unsent, c) = Append(wire \o Unsent, c)
  <2>1. Parts(Char, wire, Unsent, c)
    BY SendFacts DEF SendInv, SendRing, Parts
  <2>2. QED
    BY <2>1, LastOfBoth
<1>7. QED
  BY <1>3, <1>5, <1>6 DEF SendInv, SendRing, SentInOrder

LEMMA UnsentRest ==
    ASSUME SendRing, slen > 0
    PROVE  Ring(send, shead, slen, SendMax) =
             Cons(send[shead], Ring(send, Wrap(shead + 1, SendMax), slen - 1, SendMax))
<1>1. IsRing(Char, SendMax, send, shead, slen)
  BY DEF SendRing
<1>2. QED
  BY <1>1, RingRest

\* The first character of the ring goes out.
LEMMA SendNext ==
    ASSUME SendInv, slen > 0, wire' = Append(wire, send[shead]),
           shead' = Wrap(shead + 1, SendMax), slen' = slen - 1,
           UNCHANGED <<send, stail, given>>, done' \in [Thread -> Nat]
    PROVE  SendInv'
<1>1. /\ IsRing(Char, SendMax, send, shead, slen)
      /\ stail = Wrap(shead + slen, SendMax)
      /\ wire \in Seq(Char)
  BY DEF SendInv, SendRing
<1>2. /\ IsRing(Char, SendMax, send, Wrap(shead + 1, SendMax), slen - 1)
      /\ Wrap(Wrap(shead + 1, SendMax) + (slen - 1), SendMax) =
           Wrap(shead + slen, SendMax)
      /\ send[shead] \in Char
  BY <1>1, RingShrinks
<1>3. Ring(send, shead, slen, SendMax) =
        Cons(send[shead], Ring(send, Wrap(shead + 1, SendMax), slen - 1, SendMax))
  BY UnsentRest DEF SendInv
<1>4. Append(wire, send[shead]) \in Seq(Char)
  BY <1>1, <1>2, AppendProperties
<1>5. SendRing'
  BY <1>1, <1>2, <1>4 DEF SendRing
<1>6. Unsent' \in Seq(Char) /\ Unsent = Cons(send[shead], Unsent')
  <2>1. Ring(send, shead', slen', SendMax) \in Seq(Char)
    BY <1>2, RingTyped
  <2>2. QED
    BY <1>3, <2>1 DEF Unsent
<1>7. Append(wire, send[shead]) \o Unsent' = wire \o Cons(send[shead], Unsent')
  <2>1. Parts(Char, wire, Unsent', send[shead])
    BY <1>1, <1>2, <1>6 DEF Parts
  <2>2. QED
    BY <2>1, FirstToLast
<1>8. QED
  BY <1>5, <1>6, <1>7 DEF SendInv, SentInOrder

\* A crash sends the ring and its message.
LEMMA SendAll ==
    ASSUME SendInv, CrashStop
    PROVE  SendInv'
<1>1. /\ IsRing(Char, SendMax, send, shead, slen)
      /\ stail = Wrap(shead + slen, SendMax)
      /\ wire \in Seq(Char) /\ Unsent \in Seq(Char) /\ Message \in Char
      /\ done \in [Thread -> Nat]
  BY SendFacts DEF SendInv, SendRing, Char
<1>2. /\ wire' = wire \o Unsent \o <<Message>> /\ given' = Append(given, Message)
      /\ slen' = 0 /\ shead' = stail /\ UNCHANGED <<send, stail, done>>
  BY DEF CrashStop, callVars
<1>3. IsRing(Char, SendMax, send', shead', slen') /\ stail' = Wrap(shead' + slen', SendMax)
  BY <1>1, <1>2 DEF IsRing, Wrap
<1>4. wire \o Unsent \in Seq(Char) /\ wire \o Unsent = given
  <2>1. wire \in Seq(Char) /\ Unsent \in Seq(Char)
    BY <1>1
  <2>2. QED
    BY <2>1, ConcatProperties DEF SendInv, SentInOrder
<1>5. wire' = Append(given, Message) /\ wire' \in Seq(Char)
  <2>1. given \in Seq(Char) /\ Message \in Char /\ wire' = given \o <<Message>>
    BY <1>1, <1>2, <1>4
  <2>2. QED
    BY <2>1, AppendIsConcat, AppendProperties
<1>6. SendRing'
  BY <1>1, <1>2, <1>3, <1>5 DEF SendRing
<1>7. wire' \o Unsent' = wire'
  <2>1. Unsent' = <<>>
    BY <1>2, <1>6, SendFacts, RingItems DEF Unsent
  <2>2. QED
    BY <1>5, <2>1, ConcatEmptySeq
<1>8. QED
  BY <1>2, <1>5, <1>6, <1>7 DEF SendInv, SentInOrder

LEMMA SendInvNext == SendInv /\ [SerialNext]_serialVars => SendInv'
<1> SUFFICES ASSUME SendInv, [SerialNext]_serialVars PROVE SendInv'
  OBVIOUS
<1>0. done \in [Thread -> Nat]
  BY DEF SendInv, SendRing
<1>1. ASSUME NEW t \in Thread, SendChar(t) PROVE SendInv'
  <2> DEFINE c == <<t, done[t] + 1>>
  <2>1. done' \in [Thread -> Nat] /\ c \in Char
    BY <1>0, <1>1 DEF SendChar, Char
  <2>2. given' = Append(given, c) /\ slen < SendMax
    BY <1>1 DEF SendChar
  <2>3. \/ slen = 0 /\ wire' = Append(wire, c) /\ UNCHANGED sendVars
        \/ Enqueue(c) /\ wire' = wire
    BY <1>1 DEF SendChar, Out
  <2> HIDE DEF c
  <2>4. QED
    BY <2>1, <2>2, <2>3, SendDirect, SendEnqueue
<1>2. ASSUME NEW t \in Thread, ReadChar(t) PROVE SendInv'
  <2>1. UNCHANGED <<sendVars, wire, given>> /\ done' \in [Thread -> Nat]
    BY <1>0, <1>2 DEF ReadChar
  <2>2. QED
    BY <2>1, SendQuiet
<1>3. ASSUME NEW t \in Thread,
             \/ LockTty(t) \/ UnlockTty(t) \/ SendWait(t) \/ ReadWait(t)
             \/ WaitOver(t)
      PROVE  SendInv'
  <2>1. UNCHANGED <<sendVars, wire, given, done>>
    BY <1>3 DEF LockTty, UnlockTty, SendWait, ReadWait, WaitOver, callVars,
                historyVars
  <2>2. QED
    BY <1>0, <2>1, SendQuiet
<1>4. CASE Drained \/ Arrive \/ Tick \/ UNCHANGED serialVars
  <2>1. UNCHANGED <<sendVars, wire, given, done>>
    BY <1>4 DEF Drained, Arrive, Tick, callVars, historyVars, serialVars
  <2>2. QED
    BY <1>0, <2>1, SendQuiet
<1>5. CASE Interrupt
  <2>1. given' = given /\ done' \in [Thread -> Nat]
    BY <1>0, <1>5 DEF Interrupt, callVars
  <2>2. CASE UNCHANGED <<sendVars, wire>>
    BY <2>1, <2>2, SendQuiet
  <2>3. CASE SendFromRing
    <3>1. send' = send /\ stail' = stail
      BY <2>3 DEF SendFromRing
    <3>2. \/ /\ slen > 0 /\ wire' = Append(wire, send[shead])
             /\ shead' = Wrap(shead + 1, SendMax) /\ slen' = slen - 1
          \/ UNCHANGED <<wire, shead, slen>>
      BY <2>3 DEF SendFromRing
    <3>3. CASE UNCHANGED <<wire, shead, slen>>
      BY <2>1, <3>1, <3>3, SendQuiet DEF sendVars
    <3>4. QED
      BY <2>1, <3>1, <3>2, <3>3, SendNext
  <2>4. QED
    BY <1>5, <2>2, <2>3 DEF Interrupt
<1>6. CASE CrashStop
  BY <1>6, SendAll
<1>7. QED
  BY <1>1, <1>2, <1>3, <1>4, <1>5, <1>6 DEF SerialNext, ThreadStep

\* Whatever a character goes through, the port itself, the ring and the
\* interrupt handler, or the crash that empties the ring, it is sent once and
\* in its place.
THEOREM SentOnce == SerialSpec => []SentInOrder
<1>1. SendInv => SentInOrder
  BY DEF SendInv
<1>2. QED
  BY <1>1, SendInvInit, SendInvNext, PTL DEF SerialSpec

-----------------------------------------------------------------------------
(* An idle transmitter.                                                    *)

\* A transmitter that is idle with characters in the ring has an interrupt
\* latched: the ring takes a first character only when the transmitter is
\* busy, and the interrupt handler leaves none behind an idle one.
THEOREM NeverIdle == SerialSpec => []RingIsServed
<1> DEFINE I == slen \in Nat /\ RingIsServed
<1>1. SerialInit => I
  BY DEF SerialInit, RingIsServed
<1>2. ASSUME I, [SerialNext]_serialVars, slen' \in Nat PROVE I'
  <2>1. ASSUME NEW t \in Thread, SendChar(t) PROVE RingIsServed'
    <3>1. halted' = halted
      BY <2>1 DEF SendChar
    <3>2. CASE slen = 0 /\ ready /\ UNCHANGED sendVars
      BY <1>2, <3>2 DEF RingIsServed, sendVars
    <3>3. CASE ~(slen = 0 /\ ready) /\ UNCHANGED chipVars
      BY <1>2, <3>1, <3>3 DEF RingIsServed, chipVars
    <3>4. QED
      BY <2>1, <3>2, <3>3 DEF SendChar
  <2>2. CASE UNCHANGED <<slen, ready, thri, halted>>
    BY <1>2, <2>2 DEF RingIsServed
  <2>3. ASSUME NEW t \in Thread,
               \/ LockTty(t) \/ UnlockTty(t) \/ SendWait(t) \/ ReadChar(t)
               \/ ReadWait(t) \/ WaitOver(t)
        PROVE  UNCHANGED <<slen, ready, thri, halted>>
    BY <2>3 DEF LockTty, UnlockTty, SendWait, ReadChar, ReadWait, WaitOver,
                sendVars, chipVars
  <2>4. CASE Arrive \/ Tick \/ UNCHANGED serialVars
    BY <2>2, <2>4 DEF Arrive, Tick, sendVars, chipVars, serialVars
  <2>5. CASE Drained
    BY <1>2, <2>5 DEF Drained, RingIsServed
  <2>6. CASE Interrupt
    <3>1. CASE UNCHANGED <<sendVars, ready, thri>>
      BY <1>2, <2>2, <2>6, <3>1 DEF Interrupt, sendVars
    <3>2. CASE SendFromRing
      BY <1>2, <3>2 DEF SendFromRing, RingIsServed
    <3>3. QED
      BY <2>6, <3>1, <3>2 DEF Interrupt
  <2>7. CASE CrashStop
    BY <1>2, <2>7 DEF CrashStop, RingIsServed
  <2>8. QED
    BY <1>2, <2>1, <2>2, <2>3, <2>4, <2>5, <2>6, <2>7 DEF SerialNext, ThreadStep
<1>3. SendInv /\ I /\ [SerialNext]_serialVars => SendInv' /\ I'
  <2>1. SendInv' => slen' \in Nat
    BY SerialAssumption DEF SendInv, SendRing, IsRing
  <2>2. QED
    BY <1>2, <2>1, SendInvNext
<1>4. I => RingIsServed
  OBVIOUS
<1> HIDE DEF I
<1>5. QED
  BY <1>1, <1>3, <1>4, SendInvInit, PTL DEF SerialSpec

-----------------------------------------------------------------------------
(* The characters that are received.                                       *)

\* s holds the numbers up to a without those of d, in order.
InOrder(s, a, d) ==
    /\ s \in Seq(Nat) /\ a \in Nat /\ d \subseteq 1..a
    /\ \A i, j \in 1..Len(s) : i < j => s[i] < s[j]
    /\ \A v : v \in 1..a /\ v \notin d <=> \E i \in 1..Len(s) : s[i] = v

\* The next number comes.
LEMMA InOrderArrive ==
    ASSUME NEW s, NEW a, NEW d, InOrder(s, a, d)
    PROVE  InOrder(Append(s, a + 1), a + 1, d)
<1> DEFINE r == Append(s, a + 1)
<1>1. /\ s \in Seq(Nat) /\ a \in Nat /\ a + 1 \in Nat /\ d \subseteq 1..a
      /\ \A i, j \in 1..Len(s) : i < j => s[i] < s[j]
      /\ \A v : v \in 1..a /\ v \notin d <=> \E i \in 1..Len(s) : s[i] = v
  BY DEF InOrder
<1>2. /\ r \in Seq(Nat) /\ Len(r) = Len(s) + 1 /\ Len(s) \in Nat
      /\ \A i \in 1..Len(s) : r[i] = s[i]
      /\ r[Len(s) + 1] = a + 1
  BY <1>1, AppendProperties, LenProperties
<1> HIDE DEF r
<1>3. \A i \in 1..Len(s) : s[i] \in 1..a
  BY <1>1
<1>4. ASSUME NEW i \in 1..Len(r), NEW j \in 1..Len(r), i < j PROVE r[i] < r[j]
  <2>1. CASE j \in 1..Len(s)
    <3>1. i \in 1..Len(s)
      BY <1>2, <1>4, <2>1
    <3>2. s[i] < s[j] /\ r[i] = s[i] /\ r[j] = s[j]
      BY <1>1, <1>2, <1>4, <2>1, <3>1
    <3>3. QED
      BY <3>2
  <2>2. CASE j = Len(s) + 1
    <3>1. i \in 1..Len(s)
      BY <1>2, <1>4, <2>2
    <3>2. r[i] \in 1..a /\ r[j] = a + 1
      BY <1>2, <1>3, <2>2, <3>1
    <3>3. QED
      BY <1>1, <3>2
  <2>3. QED
    BY <1>2, <2>1, <2>2
<1>5. ASSUME NEW v, v \in 1..(a + 1) /\ v \notin d
      PROVE  \E i \in 1..Len(r) : r[i] = v
  <2>1. CASE v \in 1..a
    <3>1. PICK i \in 1..Len(s) : s[i] = v
      BY <1>1, <1>5, <2>1
    <3>2. i \in 1..Len(r) /\ r[i] = v
      BY <1>2, <3>1
    <3>3. QED
      BY <3>2
  <2>2. CASE v = a + 1
    <3>1. Len(s) + 1 \in 1..Len(r) /\ r[Len(s) + 1] = v
      BY <1>2, <2>2
    <3>2. QED
      BY <3>1
  <2>3. QED
    BY <1>1, <1>5, <2>1, <2>2
<1>6. ASSUME NEW i \in 1..Len(r) PROVE r[i] \in 1..(a + 1) /\ r[i] \notin d
  <2>1. CASE i \in 1..Len(s)
    <3>1. s[i] \in 1..a /\ s[i] \notin d /\ r[i] = s[i]
      BY <1>1, <1>2, <2>1
    <3>2. QED
      BY <1>1, <3>1
  <2>2. CASE i = Len(s) + 1
    BY <1>1, <1>2, <2>2
  <2>3. QED
    BY <1>2, <2>1, <2>2
<1>7. d \subseteq 1..(a + 1)
  BY <1>1
<1>8. InOrder(r, a + 1, d)
  BY <1>1, <1>2, <1>4, <1>5, <1>6, <1>7 DEF InOrder
<1>9. QED
  BY <1>8 DEF r

\* The last number is dropped.
LEMMA InOrderDrop ==
    ASSUME NEW s \in Seq(Nat), NEW x \in Nat, NEW a, NEW d,
           InOrder(Append(s, x), a, d)
    PROVE  InOrder(s, a, d \cup {x})
<1> DEFINE r == Append(s, x)
<1>1. /\ r \in Seq(Nat) /\ Len(r) = Len(s) + 1 /\ Len(s) \in Nat
      /\ \A i \in 1..Len(s) : r[i] = s[i]
      /\ r[Len(s) + 1] = x
  BY AppendProperties, LenProperties
<1>2. InOrder(r, a, d)
  OBVIOUS
<1> HIDE DEF r
<1>3. /\ a \in Nat /\ d \subseteq 1..a
      /\ \A i, j \in 1..Len(r) : i < j => r[i] < r[j]
      /\ \A v : v \in 1..a /\ v \notin d <=> \E i \in 1..Len(r) : r[i] = v
  BY <1>2 DEF InOrder
<1>4. \A i, j \in 1..Len(s) : i < j => s[i] < s[j]
  BY <1>1, <1>3
<1>5. x \in 1..a
  BY <1>1, <1>3
<1>6. \A i \in 1..Len(s) : s[i] \in 1..a /\ s[i] \notin d /\ s[i] # x
  <2>1. ASSUME NEW i \in 1..Len(s) PROVE s[i] \in 1..a /\ s[i] \notin d
    <3>1. i \in 1..Len(r) /\ r[i] = s[i]
      BY <1>1
    <3>2. QED
      BY <1>3, <3>1
  <2>2. ASSUME NEW i \in 1..Len(s) PROVE s[i] # x
    <3>1. /\ i \in 1..Len(r) /\ Len(s) + 1 \in 1..Len(r) /\ i < Len(s) + 1
          /\ r[i] = s[i] /\ s[i] \in Nat
      BY <1>1
    <3>2. s[i] < x
      BY <1>1, <1>3, <3>1
    <3>3. QED
      BY <3>1, <3>2
  <2>3. QED
    BY <2>1, <2>2
<1>7. ASSUME NEW v, v \in 1..a, v \notin d \cup {x}
      PROVE  \E i \in 1..Len(s) : s[i] = v
  <2>1. PICK i \in 1..Len(r) : r[i] = v
    BY <1>3, <1>7
  <2>2. i \in 1..Len(s)
    BY <1>1, <1>7, <2>1
  <2>3. QED
    BY <1>1, <2>1, <2>2
<1>8. QED
  BY <1>3, <1>4, <1>5, <1>6, <1>7 DEF InOrder

RecvRing ==
    /\ IsRing(Nat, RecvMax, recv, rtail, rlen)
    /\ rhead = Wrap(rtail + rlen, RecvMax)
    /\ got \in Seq(Nat) /\ rx \in Nat

\* What was read and what is to be read.
Queue == got \o Unread

RecvInv == RecvRing /\ InOrder(Received, arrived, dropped)

LEMMA BehindQueue ==
    ASSUME NEW g \in Seq(Nat), NEW u \in Seq(Nat), NEW x \in Nat
    PROVE  /\ g \o u \in Seq(Nat)
           /\ x = 0 => g \o u \o (IF x # 0 THEN <<x>> ELSE <<>>) = g \o u
           /\ x # 0 => g \o u \o (IF x # 0 THEN <<x>> ELSE <<>>) = Append(g \o u, x)
<1>1. g \o u \in Seq(Nat)
  BY ConcatProperties
<1>2. x = 0 => g \o u \o (IF x # 0 THEN <<x>> ELSE <<>>) = g \o u
  BY <1>1, ConcatEmptySeq
<1>3. x # 0 => g \o u \o (IF x # 0 THEN <<x>> ELSE <<>>) = Append(g \o u, x)
  BY <1>1, AppendIsConcat
<1>4. QED
  BY <1>1, <1>2, <1>3

\* The same of a state and of the next one.
LEMMA RecvFacts ==
    ASSUME RecvRing
    PROVE  /\ Unread \in Seq(Nat) /\ Queue \in Seq(Nat)
           /\ rx = 0 => Received = Queue
           /\ rx # 0 => Received = Append(Queue, rx)
<1>1. got \in Seq(Nat) /\ rx \in Nat /\ Unread \in Seq(Nat)
  BY RingTyped DEF RecvRing, Unread
<1>2. QED
  BY <1>1, BehindQueue DEF Received, Queue

LEMMA RecvFactsNext ==
    ASSUME RecvRing'
    PROVE  /\ Unread' \in Seq(Nat) /\ Queue' \in Seq(Nat)
           /\ rx' = 0 => Received' = Queue'
           /\ rx' # 0 => Received' = Append(Queue', rx')
<1>1. got' \in Seq(Nat) /\ rx' \in Nat /\ Unread' \in Seq(Nat)
  BY RingTyped DEF RecvRing, Unread
<1>2. QED
  BY <1>1, BehindQueue DEF Received, Queue

LEMMA RecvInvInit == SerialInit => RecvInv
<1> SUFFICES ASSUME SerialInit PROVE RecvInv
  OBVIOUS
<1>1. RecvRing
  <2>1. RecvMax \in Nat \ {0}
    BY SerialAssumption
  <2>2. IsRing(Nat, RecvMax, recv, 0, 0) /\ Wrap(0 + 0, RecvMax) = 0
    BY <2>1 DEF SerialInit, IsRing, Wrap
  <2>3. got \in Seq(Nat) /\ rx \in Nat
    BY DEF SerialInit
  <2>4. QED
    BY <2>2, <2>3 DEF SerialInit, RecvRing
<1>2. Received = <<>>
  <2>1. Unread = <<>>
    BY RingItems DEF SerialInit, Unread
  <2>2. got = <<>> /\ <<>> \in Seq(Nat) /\ rx = 0
    BY DEF SerialInit
  <2>3. QED
    BY <1>1, <2>1, <2>2, RecvFacts, ConcatEmptySeq DEF Queue
<1>3. InOrder(<<>>, 0, {})
  BY DEF InOrder
<1>4. QED
  BY <1>1, <1>2, <1>3 DEF RecvInv, SerialInit

\* Nothing is received or read.
LEMMA RecvQuiet ==
    ASSUME RecvInv, UNCHANGED <<recvVars, rx, arrived, dropped, got>>
    PROVE  RecvInv'
BY DEF RecvInv, RecvRing, Received, Unread, recvVars

LEMMA RecvArrive ==
    ASSUME RecvInv, Arrive
    PROVE  RecvInv'
<1>1. /\ rx = 0 /\ arrived' = arrived + 1 /\ rx' = arrived + 1
      /\ UNCHANGED <<recv, rhead, rtail, rlen, dropped, got>>
  BY DEF Arrive, recvVars
<1>2. arrived \in Nat
  BY DEF RecvInv, InOrder
<1>3. RecvRing'
  BY <1>1, <1>2 DEF RecvInv, RecvRing
<1>4. Queue' = Queue /\ rx' # 0
  BY <1>1, <1>2 DEF Queue, Unread
<1>5. Received = Queue /\ Received' = Append(Queue, arrived + 1)
  BY <1>1, <1>3, <1>4, RecvFacts, RecvFactsNext DEF RecvInv
<1>6. InOrder(Append(Queue, arrived + 1), arrived + 1, dropped)
  BY <1>5, InOrderArrive DEF RecvInv
<1>7. QED
  BY <1>1, <1>3, <1>5, <1>6 DEF RecvInv

LEMMA RecvSink ==
    ASSUME RecvInv, Sink, rx # 0, UNCHANGED <<arrived, got>>
    PROVE  RecvInv'
<1>1. /\ Queue \in Seq(Nat) /\ rx \in Nat /\ got \in Seq(Nat)
      /\ InOrder(Append(Queue, rx), arrived, dropped)
  BY RecvFacts DEF RecvInv, RecvRing
<1>2. IsRing(Nat, RecvMax, recv, rtail, rlen) /\ rhead = Wrap(rtail + rlen, RecvMax)
  BY DEF RecvInv, RecvRing
<1>3. rx' = 0 /\ rtail' = rtail
  BY DEF Sink
<1>4. CASE /\ rlen < RecvMax /\ recv' = [recv EXCEPT ![rhead] = rx]
           /\ rhead' = Wrap(rhead + 1, RecvMax) /\ rlen' = rlen + 1
           /\ dropped' = dropped
  <2>1. Puts(Nat, RecvMax, recv, rtail, rlen, rx, recv')
    BY <1>1, <1>2, <1>4 DEF Puts
  <2>2. IsRing(Nat, RecvMax, recv', rtail', rlen') /\ rhead' = Wrap(rtail' + rlen', RecvMax)
    BY <1>2, <1>3, <1>4, <2>1, RingGrows
  <2>3. RecvRing'
    BY <1>1, <1>3, <2>2 DEF RecvRing
  <2>4. Ring(recv', rtail, rlen + 1, RecvMax) = Append(Ring(recv, rtail, rlen, RecvMax), rx)
    BY <2>1, RingAppend
  <2>5. Unread' = Append(Unread, rx)
    BY <1>3, <1>4, <2>4 DEF Unread
  <2>6. got \o Append(Unread, rx) = Append(got \o Unread, rx)
    <3>1. Parts(Nat, got, Unread, rx)
      BY <1>1, RecvFacts DEF RecvInv, Parts
    <3>2. QED
      BY <3>1, LastOfBoth
  <2>7. Received' = Append(Queue, rx)
    BY <1>3, <2>3, <2>5, <2>6, RecvFactsNext DEF Queue
  <2>8. QED
    BY <1>1, <1>4, <2>3, <2>7 DEF RecvInv
<1>5. CASE dropped' = dropped \cup {rx} /\ UNCHANGED <<recv, rhead, rlen>>
  <2>1. RecvRing'
    BY <1>1, <1>2, <1>3, <1>5 DEF RecvRing
  <2>2. Received' = Queue
    BY <1>3, <1>5, <2>1, RecvFactsNext DEF Queue, Unread
  <2>3. InOrder(Queue, arrived, dropped \cup {rx})
    BY <1>1, InOrderDrop
  <2>4. QED
    BY <1>5, <2>1, <2>2, <2>3 DEF RecvInv
<1>6. QED
  BY <1>4, <1>5 DEF Sink

LEMMA UnreadRest ==
    ASSUME RecvRing, rlen > 0
    PROVE  Unread = Cons(recv[rtail], Ring(recv, Wrap(rtail + 1, RecvMax), rlen - 1, RecvMax))
<1>1. IsRing(Nat, RecvMax, recv, rtail, rlen)
  BY DEF RecvRing
<1>2. QED
  BY <1>1, RingRest DEF Unread

LEMMA RecvRead ==
    ASSUME RecvInv, NEW t, ReadChar(t)
    PROVE  RecvInv'
<1>1. /\ rlen > 0 /\ got' = Append(got, recv[rtail])
      /\ rtail' = Wrap(rtail + 1, RecvMax) /\ rlen' = rlen - 1
      /\ UNCHANGED <<recv, rhead, rx, arrived, dropped>>
  BY DEF ReadChar, chipVars
<1>2. IsRing(Nat, RecvMax, recv, rtail, rlen) /\ rhead = Wrap(rtail + rlen, RecvMax)
      /\ got \in Seq(Nat) /\ rx \in Nat
  BY DEF RecvInv, RecvRing
<1>3. /\ IsRing(Nat, RecvMax, recv, Wrap(rtail + 1, RecvMax), rlen - 1)
      /\ Wrap(Wrap(rtail + 1, RecvMax) + (rlen - 1), RecvMax) =
           Wrap(rtail + rlen, RecvMax)
      /\ recv[rtail] \in Nat
  BY <1>1, <1>2, RingShrinks
<1>4. Append(got, recv[rtail]) \in Seq(Nat)
  BY <1>2, <1>3, AppendProperties
<1>5. RecvRing'
  BY <1>1, <1>2, <1>3, <1>4 DEF RecvRing
<1>6. Unread = Cons(recv[rtail], Unread') /\ Unread' \in Seq(Nat)
  BY <1>1, <1>5, UnreadRest, RecvFactsNext DEF RecvInv, Unread
<1>7. Queue' = Queue
  <2>1. Parts(Nat, got, Unread', recv[rtail])
    BY <1>2, <1>3, <1>6 DEF Parts
  <2>2. Append(got, recv[rtail]) \o Unread' = got \o Cons(recv[rtail], Unread')
    BY <2>1, FirstToLast
  <2>3. QED
    BY <1>1, <1>6, <2>2 DEF Queue
<1>8. Received' = Received
  BY <1>1, <1>2, <1>5, <1>7, RecvFacts, RecvFactsNext DEF RecvInv
<1>9. QED
  BY <1>1, <1>5, <1>8 DEF RecvInv

LEMMA RecvInvNext == RecvInv /\ [SerialNext]_serialVars => RecvInv'
<1> SUFFICES ASSUME RecvInv, [SerialNext]_serialVars PROVE RecvInv'
  OBVIOUS
<1>1. ASSUME NEW t \in Thread, ReadChar(t) PROVE RecvInv'
  BY <1>1, RecvRead
<1>2. ASSUME NEW t \in Thread,
             \/ LockTty(t) \/ UnlockTty(t) \/ SendChar(t) \/ SendWait(t)
             \/ ReadWait(t) \/ WaitOver(t)
      PROVE  RecvInv'
  <2>1. UNCHANGED <<recvVars, rx, arrived, dropped, got>>
    BY <1>2 DEF LockTty, UnlockTty, SendChar, SendWait, ReadWait, WaitOver,
                Out, chipVars, historyVars
  <2>2. QED
    BY <2>1, RecvQuiet
<1>3. CASE Drained \/ Tick \/ CrashStop \/ UNCHANGED serialVars
  <2>1. UNCHANGED <<recvVars, rx, arrived, dropped, got>>
    BY <1>3 DEF Drained, Tick, CrashStop, chipVars, historyVars, serialVars
  <2>2. QED
    BY <2>1, RecvQuiet
<1>4. CASE Arrive
  BY <1>4, RecvArrive
<1>5. CASE Interrupt
  <2>1. arrived' = arrived /\ got' = got
    BY <1>5 DEF Interrupt
  <2>2. CASE rx # 0 /\ Sink
    BY <2>1, <2>2, RecvSink
  <2>3. CASE UNCHANGED <<recvVars, rx, dropped>>
    BY <2>1, <2>3, RecvQuiet
  <2>4. QED
    BY <1>5, <2>2, <2>3 DEF Interrupt
<1>6. QED
  BY <1>1, <1>2, <1>3, <1>4, <1>5 DEF SerialNext, ThreadStep

\* The reader gets the characters that arrive in their order and each once,
\* and misses the ones that found the ring full and no other.
THEOREM ReadOnce == SerialSpec => []ReadInOrder
<1>1. ASSUME RecvInv PROVE ReadInOrder
  <2>1. /\ Received \in Seq(Nat)
        /\ \A i, j \in 1..Len(Received) : i < j => Received[i] < Received[j]
        /\ \A v : v \in 1..arrived /\ v \notin dropped
             <=> \E i \in 1..Len(Received) : Received[i] = v
    BY <1>1 DEF RecvInv, InOrder
  <2>2. DOMAIN Received = 1..Len(Received)
    BY <2>1
  <2>3. {Received[i] : i \in DOMAIN Received} = (1..arrived) \ dropped
    BY <2>1, <2>2
  <2>4. QED
    BY <2>1, <2>2, <2>3 DEF ReadInOrder
<1>2. QED
  BY <1>1, RecvInvInit, RecvInvNext, PTL DEF SerialSpec

-----------------------------------------------------------------------------
(* The mutex of the tty and the waits.                                     *)

\* A call of the mutex by a thread in no wait, or a tick.
LEMMA IsMutexStep ==
    ASSUME CondInv, misuse = <<>>, Next, UNCHANGED condVars,
           current # NULL => pc[current] # "acquire"
    PROVE  CondInv'
<1>1. current # NULL => inCond[current] = NULL
  BY DEF CondInv, TypesOK, TypeOK, DispatchTypeOK, Places
<1>2. QED
  BY <1>1, CondInvMutexStep DEF MutexStep

LEMMA ClientOwns ==
    ASSUME CondInv, NEW t \in Thread, At(t, "client"), Tty \in has[t]
    PROVE  owner[Tty] = t /\ Tty \in Mutex /\ Tty # NULL
BY ClientFacts, SerialAssumption, MutexAssumption

LEMMA SerialCondInv ==
    CondInv /\ misuse = <<>> /\ [SerialNext]_serialVars => CondInv' /\ misuse' = <<>>
<1> SUFFICES ASSUME CondInv, misuse = <<>>, [SerialNext]_serialVars
             PROVE  CondInv' /\ misuse' = <<>>
  OBVIOUS
<1>0. {SendReady, RecvReady} \subseteq Cond /\ Tty \in Mutex
  BY SerialAssumption
<1>1. ASSUME NEW t \in Thread, LockTty(t) PROVE CondInv' /\ misuse' = <<>>
  <2>1. /\ current = t /\ pc[t] = "client" /\ UNCHANGED condVars
        /\ AcquireFree(t, Tty) \/ AcquireBlock(t, Tty)
    BY <1>1 DEF LockTty, Running, At
  <2>2. Next
    BY <1>0, <2>1 DEF Next
  <2>3. QED
    BY <2>1, <2>2, IsMutexStep DEF condVars
<1>2. ASSUME NEW t \in Thread, UnlockTty(t) PROVE CondInv' /\ misuse' = <<>>
  <2>1. /\ ReleaseUnlink(t, Tty) \/ ReleaseHandOff(t)
        /\ UNCHANGED condVars
    BY <1>2 DEF UnlockTty
  <2>2. current = t /\ pc[t] # "acquire"
    BY <2>1 DEF ReleaseUnlink, ReleaseHandOff, At
  <2>3. Next
    BY <1>0, <2>1 DEF Next
  <2>4. QED
    BY <2>1, <2>2, <2>3, IsMutexStep DEF condVars
<1>3. CASE Tick
  <2>1. Preempt /\ UNCHANGED condVars
    BY <1>3 DEF Tick
  <2>2. Next /\ (current # NULL => pc[current] # "acquire")
    BY <2>1 DEF Next, Preempt
  <2>3. QED
    BY <2>1, <2>2, IsMutexStep DEF condVars
<1>4. ASSUME NEW t \in Thread, NEW c \in Cond, Tty \in has[t], CondSWait(t, c, Tty)
      PROVE  CondInv' /\ misuse' = <<>>
  <2>1. /\ At(t, "client") /\ Sleep(t, c, Tty) /\ UNCHANGED <<crashed, misuse>>
    BY <1>4 DEF CondSWait
  <2>2. owner[Tty] = t
    BY <1>4, <2>1, ClientOwns
  <2>3. QED
    BY <1>0, <2>1, <2>2, CondInvSleep
<1>5. ASSUME NEW t \in Thread, SendWait(t) \/ ReadWait(t)
      PROVE  CondInv' /\ misuse' = <<>>
  BY <1>0, <1>4, <1>5 DEF SendWait, ReadWait, Writing, Reading
<1>6. ASSUME NEW t \in Thread, WaitOver(t) PROVE CondInv' /\ misuse' = <<>>
  <2>1. CASE CondReblock(t) \/ CondReturn(t)
    BY <2>1, CondInvWoken, CondInvReblock DEF CondReblock, CondReturn
  <2>2. CASE inCond[t] = NULL /\ AcquireReturn(t) /\ UNCHANGED condVars
    <3>1. /\ At(t, "acquire") /\ target[t] \in Mutex
          /\ inCond \in [Thread -> Cond \cup {NULL}]
      BY <2>2 DEF AcquireReturn, At, CondInv, TypesOK, Places
    <3>2. /\ inCond' = [inCond EXCEPT ![t] = NULL]
          /\ has' = IF target[t] = NULL THEN has
                    ELSE [has EXCEPT ![t] = @ \cup {target[t]}]
          /\ pc' = [pc EXCEPT ![t] = "client"]
          /\ target' = [target EXCEPT ![t] = NULL]
          /\ UNCHANGED <<current, status, taken, owner, held, waitq, crashed, condq>>
          /\ misuse' = misuse
      BY <2>2, <3>1, MutexAssumption
      DEF AcquireReturn, dispatchVars, mutexVars, condVars
    <3>3. QED
      BY <2>2, <3>1, <3>2, CondInvReturn
  <2>3. QED
    BY <1>6, <2>1, <2>2 DEF WaitOver
<1>7. ASSUME NEW c \in Cond, CondSBroadcast(c) PROVE CondInv' /\ misuse' = <<>>
  BY <1>7, BroadcastWakes, CondInvWakes DEF CondSBroadcast
<1>8. CASE UNCHANGED lockVars
  <2>1. /\ UNCHANGED <<dispatchVars, mutexVars, clientVars, condq, inCond>>
        /\ crashed' = crashed /\ misuse' = misuse /\ crashed \in Crash \cup {<<>>}
    BY <1>8 DEF lockVars, condVars, vars, dispatchVars, mutexVars, clientVars,
                CondInv, TypesOK, TypeOK
  <2>2. QED
    BY <2>1, CondInvCrash
<1>9. CASE Interrupt
  BY <1>0, <1>7, <1>8, <1>9 DEF Interrupt, Sink, SendFromRing
<1>10. ASSUME NEW t \in Thread, SendChar(t) \/ ReadChar(t)
       PROVE  UNCHANGED lockVars
  BY <1>10 DEF SendChar, ReadChar
<1>11. CASE Drained \/ Arrive \/ CrashStop \/ UNCHANGED serialVars
  BY <1>8, <1>11 DEF Drained, Arrive, CrashStop, serialVars
<1>12. QED
  BY <1>1, <1>2, <1>3, <1>5, <1>6, <1>8, <1>9, <1>10, <1>11
  DEF SerialNext, ThreadStep

-----------------------------------------------------------------------------
(* The lines.                                                              *)

\* What was given to the port came from the writers, each character once.
Written ==
    /\ done \in [Thread -> Nat]
    /\ given \in Seq(Char)
    /\ \A i \in 1..Len(given) :
         given[i] # Message =>
           /\ given[i] \in Thread \X Nat
           /\ given[i][2] \in 1..done[given[i][1]]
    /\ \A i, j \in 1..Len(given) :
         given[i] # Message /\ given[i] = given[j] => i = j

\* A writer inside of its line, that did not have to wait for room, has the
\* mutex of the tty, and nobody has written behind it.
KeepsLine(t) ==
    done[t] \in 1..(Line[t] - 1) =>
      \/ <<t, done[t] + 1>> \in waited
      \/ /\ Tty \in has[t] /\ given # <<>>
         /\ given[Len(given)] = <<t, done[t]>>

LineInv ==
    /\ CondInv /\ misuse = <<>>
    /\ Written
    /\ ~halted => \A t \in Thread : KeepsLine(t)
    /\ LinesMixOnlyAtWaits

LEMMA LineInvInit == SerialInit => LineInv
<1> SUFFICES ASSUME SerialInit PROVE LineInv
  OBVIOUS
<1>1. CondInv /\ misuse = <<>>
  BY CondInvInit DEF SerialInit, CondInit
<1>2. given = <<>> /\ done = [t \in Thread |-> 0]
  BY DEF SerialInit
<1>3. Written /\ LinesMixOnlyAtWaits
  BY <1>2 DEF Written, LinesMixOnlyAtWaits
<1>4. \A t \in Thread : KeepsLine(t)
  BY <1>2 DEF KeepsLine
<1>5. QED
  BY <1>1, <1>3, <1>4 DEF LineInv

\* The next character of t is given to the port.
LEMMA WrittenNext ==
    ASSUME Written, NEW t \in Thread,
           given' = Append(given, <<t, done[t] + 1>>),
           done' = [done EXCEPT ![t] = @ + 1]
    PROVE  /\ Written'
           /\ Len(given') = Len(given) + 1 /\ Len(given) \in Nat
           /\ \A i \in 1..Len(given) : given'[i] = given[i]
           /\ given'[Len(given) + 1] = <<t, done[t] + 1>>
           /\ <<t, done[t] + 1>> # Message
<1> DEFINE c == <<t, done[t] + 1>>
<1>1. /\ given \in Seq(Char) /\ done[t] \in Nat /\ done \in [Thread -> Nat]
      /\ \A i \in 1..Len(given) :
           given[i] # Message =>
             /\ given[i] \in Thread \X Nat
             /\ given[i][2] \in 1..done[given[i][1]]
      /\ \A i, j \in 1..Len(given) :
           given[i] # Message /\ given[i] = given[j] => i = j
  BY DEF Written
<1>2. /\ c \in Thread \X Nat /\ c \in Char /\ c # Message
      /\ c[1] = t /\ c[2] = done[t] + 1
  BY <1>1, SerialAssumption DEF Char
<1> HIDE DEF c
<1>3. given' = Append(given, c)
  BY DEF c
<1>4. /\ given' \in Seq(Char) /\ Len(given') = Len(given) + 1 /\ Len(given) \in Nat
      /\ \A i \in 1..Len(given) : given'[i] = given[i]
      /\ given'[Len(given) + 1] = c
  <2>1. given \in Seq(Char) /\ c \in Char
    BY <1>1, <1>2
  <2>2. QED
    BY <1>3, <2>1, AppendProperties, LenProperties
<1>5. /\ done' \in [Thread -> Nat] /\ done'[t] = done[t] + 1
      /\ \A u \in Thread : done[u] \in Nat /\ done'[u] \in Nat /\ done[u] <= done'[u]
  BY <1>1
<1>6. ASSUME NEW i \in 1..Len(given'), given'[i] # Message
      PROVE  /\ given'[i] \in Thread \X Nat
             /\ given'[i][2] \in 1..done'[given'[i][1]]
  <2>1. CASE i \in 1..Len(given)
    <3>1. /\ given'[i] = given[i] /\ given[i] \in Thread \X Nat
          /\ given[i][1] \in Thread /\ given[i][2] \in 1..done[given[i][1]]
      BY <1>1, <1>4, <1>6, <2>1
    <3>2. QED
      BY <1>5, <3>1
  <2>2. CASE i = Len(given) + 1
    BY <1>1, <1>2, <1>4, <1>5, <2>2
  <2>3. QED
    BY <1>4, <2>1, <2>2
<1>7. ASSUME NEW i \in 1..Len(given) PROVE given[i] # c
  <2>1. ASSUME given[i] = c PROVE FALSE
    <3>1. given[i][1] = t /\ given[i][2] = done[t] + 1 /\ given[i] # Message
      BY <1>2, <2>1
    <3>2. given[i][2] \in 1..done[t]
      BY <1>1, <3>1
    <3>3. QED
      BY <1>1, <3>1, <3>2
  <2>2. QED
    BY <2>1
<1>8. ASSUME NEW i \in 1..Len(given'), NEW j \in 1..Len(given'),
             given'[i] # Message, given'[i] = given'[j]
      PROVE  i = j
  <2>1. CASE i \in 1..Len(given) /\ j \in 1..Len(given)
    BY <1>1, <1>4, <1>8, <2>1
  <2>2. CASE i \in 1..Len(given) /\ j = Len(given) + 1
    BY <1>4, <1>7, <1>8, <2>2
  <2>3. CASE i = Len(given) + 1 /\ j \in 1..Len(given)
    BY <1>4, <1>7, <1>8, <2>3
  <2>4. QED
    BY <1>4, <2>1, <2>2, <2>3
<1>9. Written'
  BY <1>4, <1>5, <1>6, <1>8 DEF Written
<1>10. QED
  BY <1>2, <1>4, <1>9 DEF c

\* Other writers do not come in between: the mutex is one thread's.
LEMMA OnlyOwnerHas ==
    ASSUME CondInv, NEW t \in Thread, NEW u \in Thread,
           Tty \in has[t], Tty \in has[u]
    PROVE  t = u
BY SerialAssumption DEF CondInv, OwnershipAcrossWaits

LEMMA LineSend ==
    ASSUME LineInv, NEW t \in Thread, SendChar(t)
    PROVE  Written' /\ (\A u \in Thread : KeepsLine(u)') /\ LinesMixOnlyAtWaits'
<1> DEFINE c == <<t, done[t] + 1>>
           n == Len(given)
<1>1. /\ ~halted /\ Tty \in has[t] /\ done[t] < Line[t]
      /\ given' = Append(given, c) /\ done' = [done EXCEPT ![t] = @ + 1]
      /\ waited' = waited
  BY DEF SendChar, Writing, Running
<1>2. has' = has
  BY DEF SendChar, lockVars, vars
<1>3. CondInv /\ Written /\ (\A u \in Thread : KeepsLine(u)) /\ LinesMixOnlyAtWaits
  BY <1>1 DEF LineInv
<1>4. /\ Written'
      /\ Len(given') = n + 1 /\ n \in Nat
      /\ \A i \in 1..n : given'[i] = given[i]
      /\ given'[n + 1] = c /\ c # Message
  BY <1>1, <1>3, WrittenNext
<1>5. /\ done \in [Thread -> Nat] /\ done[t] \in Nat
      /\ given \in Seq(Char) /\ DOMAIN given = 1..n
      /\ given' \in Seq(Char) /\ DOMAIN given' = 1..(n + 1)
      /\ \A i \in 1..n :
           given[i] # Message =>
             /\ given[i] \in Thread \X Nat
             /\ given[i][2] \in 1..done[given[i][1]]
      /\ \A i, j \in 1..n : given[i] # Message /\ given[i] = given[j] => i = j
  BY <1>3, <1>4, LenProperties DEF Written
<1>6. Line \in [Thread -> Nat]
  BY SerialAssumption
<1>7. ASSUME NEW u \in Thread PROVE KeepsLine(u)'
  <2>1. CASE u = t
    <3>1. done'[t] = done[t] + 1
      BY <1>1, <1>5
    <3>2. given'[Len(given')] = <<t, done'[t]>> /\ given' # <<>>
      BY <1>4, <1>5, <3>1
    <3>3. QED
      BY <1>1, <1>2, <2>1, <3>2 DEF KeepsLine
  <2>2. CASE u # t
    <3>1. done'[u] = done[u] /\ Tty \notin has[u]
      BY <1>1, <1>3, <1>5, <2>2, OnlyOwnerHas
    <3>2. done[u] \in 1..(Line[u] - 1) => <<u, done[u] + 1>> \in waited
      BY <1>3, <3>1 DEF KeepsLine
    <3>3. QED
      BY <1>1, <3>1, <3>2 DEF KeepsLine
  <2>3. QED
    BY <2>1, <2>2
<1> HIDE DEF c
<1>8. c[1] = t /\ c[2] = done[t] + 1
  BY DEF c
<1>9. ASSUME NEW i \in 1..(n + 1), NEW j \in 1..(n + 1),
             Message \notin {given'[i], given'[j]},
             given'[j] = <<given'[i][1], given'[i][2] + 1>>,
             given'[j] \notin waited
      PROVE  j = i + 1
  <2>1. CASE i \in 1..n /\ j \in 1..n
    <3>1. /\ Message \notin {given[i], given[j]}
          /\ given[j] = <<given[i][1], given[i][2] + 1>>
          /\ given[j] \notin waited
      BY <1>4, <1>9, <2>1
    <3>2. QED
      BY <1>3, <1>5, <2>1, <3>1 DEF LinesMixOnlyAtWaits
  <2>2. CASE i \in 1..n /\ j = n + 1
    <3>1. /\ given[i] # Message /\ c = <<given[i][1], given[i][2] + 1>>
          /\ c \notin waited
      BY <1>4, <1>9, <2>2
    <3>2. /\ given[i] \in Thread \X Nat
          /\ given[i][2] \in 1..done[given[i][1]]
      BY <1>5, <2>2, <3>1
    <3>3. given[i][1] = t /\ given[i][2] = done[t]
      BY <1>5, <1>8, <3>1, <3>2
    <3>4. given[i] = <<t, done[t]>> /\ done[t] \in 1..(Line[t] - 1)
      BY <1>1, <1>5, <1>6, <3>2, <3>3
    <3>5. given # <<>> /\ given[n] = <<t, done[t]>>
      BY <1>3, <3>1, <3>4 DEF KeepsLine, c
    <3>6. n \in 1..n
      BY <1>4, <2>2
    <3>7. i = n
      BY <1>5, <2>2, <3>1, <3>4, <3>5, <3>6
    <3>8. QED
      BY <1>4, <2>2, <3>7
  <2>3. CASE i = n + 1 /\ j \in 1..n
    <3>1. given[j] # Message /\ given[j] = <<t, done[t] + 1 + 1>>
      BY <1>4, <1>8, <1>9, <2>3
    <3>2. given[j][1] = t /\ given[j][2] = done[t] + 1 + 1
      BY <3>1
    <3>3. given[j][2] \in 1..done[t]
      BY <1>5, <2>3, <3>1, <3>2
    <3>4. QED
      BY <1>5, <3>2, <3>3
  <2>4. CASE i = n + 1 /\ j = n + 1
    <3>1. c = <<t, done[t] + 1 + 1>>
      BY <1>4, <1>8, <1>9, <2>4
    <3>2. QED
      BY <1>5, <1>8, <3>1
  <2>5. QED
    BY <1>4, <2>1, <2>2, <2>3, <2>4
<1>10. LinesMixOnlyAtWaits'
  BY <1>1, <1>5, <1>9 DEF LinesMixOnlyAtWaits
<1>11. QED
  BY <1>4, <1>7, <1>10

\* Nothing is given to the port, and who is inside of a line keeps the mutex
\* or waits for room.
LEMMA LineKept ==
    ASSUME LineInv, given' = given, waited \subseteq waited', halted' = halted,
           done' \in [Thread -> Nat],
           \A u \in Thread : \/ done'[u] = done[u]
                             \/ Line[u] <= done[u] /\ done[u] <= done'[u],
           \A u \in Thread : Tty \in has[u] /\ done[u] < Line[u] =>
                               Tty \in has'[u] \/ <<u, done[u] + 1>> \in waited'
    PROVE  /\ Written' /\ LinesMixOnlyAtWaits'
           /\ ~halted' => \A u \in Thread : KeepsLine(u)'
<1>1. /\ given \in Seq(Char) /\ done \in [Thread -> Nat]
      /\ \A i \in 1..Len(given) :
           given[i] # Message =>
             /\ given[i] \in Thread \X Nat
             /\ given[i][2] \in 1..done[given[i][1]]
      /\ \A i, j \in 1..Len(given) :
           given[i] # Message /\ given[i] = given[j] => i = j
      /\ LinesMixOnlyAtWaits
  BY DEF LineInv, Written
<1>2. \A u \in Thread : /\ done[u] \in Nat /\ done'[u] \in Nat /\ Line[u] \in Nat
                        /\ done[u] <= done'[u]
  BY <1>1, SerialAssumption
<1>3. ASSUME NEW i \in 1..Len(given), given[i] # Message
      PROVE  /\ given[i] \in Thread \X Nat
             /\ given[i][2] \in 1..done'[given[i][1]]
  <2>1. /\ given[i] \in Thread \X Nat /\ given[i][1] \in Thread
        /\ given[i][2] \in 1..done[given[i][1]]
    BY <1>1, <1>3
  <2>2. QED
    BY <1>2, <2>1
<1>4. Written'
  BY <1>1, <1>3 DEF Written
<1>5. LinesMixOnlyAtWaits'
  BY <1>1 DEF LinesMixOnlyAtWaits
<1>6. ASSUME ~halted', NEW u \in Thread PROVE KeepsLine(u)'
  <2>1. KeepsLine(u)
    BY <1>6 DEF LineInv
  <2>2. CASE done'[u] = done[u]
    <3>1. ASSUME done[u] \in 1..(Line[u] - 1)
          PROVE  \/ <<u, done[u] + 1>> \in waited'
                 \/ /\ Tty \in has'[u] /\ given # <<>>
                    /\ given[Len(given)] = <<u, done[u]>>
      <4>1. done[u] < Line[u]
        BY <1>2, <3>1
      <4>2. QED
        BY <2>1, <3>1, <4>1 DEF KeepsLine
    <3>2. QED
      BY <2>2, <3>1 DEF KeepsLine
  <2>3. CASE Line[u] <= done[u]
    <3>1. ~(done'[u] \in 1..(Line[u] - 1))
      BY <1>2, <2>3
    <3>2. QED
      BY <3>1 DEF KeepsLine
  <2>4. QED
    BY <2>2, <2>3
<1>7. QED
  BY <1>4, <1>5, <1>6

\* The message of a crash is of no line.
LEMMA LineCrash ==
    ASSUME LineInv, CrashStop
    PROVE  Written' /\ LinesMixOnlyAtWaits' /\ halted'
<1> DEFINE n == Len(given)
<1>1. /\ given' = Append(given, Message) /\ halted' /\ waited' = waited /\ done' = done
  BY DEF CrashStop, callVars
<1>2. /\ given \in Seq(Char) /\ done \in [Thread -> Nat]
      /\ \A i \in 1..n :
           given[i] # Message =>
             /\ given[i] \in Thread \X Nat
             /\ given[i][2] \in 1..done[given[i][1]]
      /\ \A i, j \in 1..n : given[i] # Message /\ given[i] = given[j] => i = j
      /\ LinesMixOnlyAtWaits
  BY DEF LineInv, Written
<1>3. /\ given' \in Seq(Char) /\ Len(given') = n + 1 /\ n \in Nat
      /\ \A i \in 1..n : given'[i] = given[i]
      /\ given'[n + 1] = Message
  <2>1. given \in Seq(Char) /\ Message \in Char
    BY <1>2 DEF Char
  <2>2. QED
    BY <1>1, <2>1, AppendProperties, LenProperties
<1>4. DOMAIN given = 1..n /\ DOMAIN given' = 1..(n + 1)
  BY <1>2, <1>3, LenProperties
<1>5. \A i \in 1..(n + 1) : given'[i] # Message => i \in 1..n
  BY <1>3
<1>6. Written'
  BY <1>1, <1>2, <1>3, <1>5 DEF Written
<1>7. LinesMixOnlyAtWaits'
  <2>1. ASSUME NEW i \in 1..(n + 1), NEW j \in 1..(n + 1),
               Message \notin {given'[i], given'[j]},
               given'[j] = <<given'[i][1], given'[i][2] + 1>>,
               given'[j] \notin waited
        PROVE  j = i + 1
    <3>1. i \in 1..n /\ j \in 1..n /\ given'[i] = given[i] /\ given'[j] = given[j]
      BY <1>3, <1>5, <2>1
    <3>2. QED
      BY <1>2, <1>4, <2>1, <3>1 DEF LinesMixOnlyAtWaits
  <2>2. QED
    BY <1>1, <1>4, <2>1 DEF LinesMixOnlyAtWaits
<1>8. QED
  BY <1>1, <1>6, <1>7

LEMMA LineInvNext == LineInv /\ [SerialNext]_serialVars => LineInv'
<1> SUFFICES ASSUME LineInv, [SerialNext]_serialVars PROVE LineInv'
  OBVIOUS
<1>1. CondInv' /\ misuse' = <<>>
  BY SerialCondInv DEF LineInv
<1>2. /\ done \in [Thread -> Nat] /\ \A u \in Thread : done[u] \in Nat /\ Line[u] \in Nat /\ Answer[u] \in Nat
      /\ has \in [Thread -> SUBSET Mutex]
  BY SerialAssumption DEF LineInv, Written, CondInv, TypesOK, TypeOK
<1> DEFINE Rest == /\ Written' /\ LinesMixOnlyAtWaits'
                   /\ ~halted' => \A u \in Thread : KeepsLine(u)'
<1>3. ASSUME NEW t \in Thread, SendChar(t) PROVE Rest
  BY <1>3, LineSend
<1>4. ASSUME NEW t \in Thread, LockTty(t) \/ UnlockTty(t) \/ WaitOver(t) PROVE Rest
  <2>1. UNCHANGED <<given, waited, halted, done>>
    BY <1>4 DEF LockTty, UnlockTty, WaitOver, callVars, historyVars
  <2>2. ASSUME NEW u \in Thread, Tty \in has[u], done[u] < Line[u]
        PROVE  Tty \in has'[u]
    <3>1. CASE LockTty(t)
      BY <1>2, <2>2, <3>1 DEF LockTty, AcquireFree, AcquireBlock, Take
    <3>2. CASE UnlockTty(t)
      <4>1. CASE has' = has
        BY <2>2, <4>1
      <4>2. CASE Finished(t) /\ has' = [has EXCEPT ![t] = @ \ {Tty}]
        <5>1. u # t
          <6>1. done[t] >= Line[t]
            BY <1>2, <4>2 DEF Finished
          <6>2. QED
            BY <1>2, <2>2, <6>1
        <5>2. QED
          BY <1>2, <2>2, <4>2, <5>1
      <4>3. QED
        BY <3>2, <4>1, <4>2
        DEF UnlockTty, ReleaseUnlink, ReleaseHandOff, CrashWith, clientVars
    <3>3. CASE WaitOver(t)
      BY <1>2, <2>2, <3>3
      DEF WaitOver, CondReblock, CondReturn, AcquireReturn, clientVars
    <3>4. QED
      BY <1>4, <3>1, <3>2, <3>3
  <2>3. QED
    BY <1>2, <2>1, <2>2, LineKept
<1>5. ASSUME NEW t \in Thread, SendWait(t) PROVE Rest
  <2>1. /\ UNCHANGED <<given, halted, done>>
        /\ waited' = waited \cup {<<t, done[t] + 1>>}
        /\ has' = [has EXCEPT ![t] = @ \ {Tty}]
    BY <1>5 DEF SendWait, CondSWait, Sleep
  <2>2. QED
    BY <1>2, <2>1, LineKept
<1>6. ASSUME NEW t \in Thread, ReadWait(t) PROVE Rest
  <2>1. /\ UNCHANGED <<given, halted, done, waited>> /\ done[t] >= Line[t]
        /\ has' = [has EXCEPT ![t] = @ \ {Tty}]
    BY <1>6 DEF ReadWait, Reading, CondSWait, Sleep, historyVars
  <2>2. ASSUME NEW u \in Thread, Tty \in has[u], done[u] < Line[u]
        PROVE  Tty \in has'[u]
    <3>1. u # t
      BY <1>2, <2>1, <2>2
    <3>2. QED
      BY <1>2, <2>1, <2>2, <3>1
  <2>3. QED
    BY <1>2, <2>1, <2>2, LineKept
<1>7. ASSUME NEW t \in Thread, ReadChar(t) PROVE Rest
  <2>1. /\ UNCHANGED <<given, waited, halted, lockVars>> /\ done[t] >= Line[t]
        /\ done' = [done EXCEPT ![t] = @ + 1]
    BY <1>7 DEF ReadChar, Reading
  <2>2. has' = has
    BY <2>1 DEF lockVars, vars
  <2>3. /\ done' \in [Thread -> Nat]
        /\ \A u \in Thread : \/ done'[u] = done[u]
                             \/ Line[u] <= done[u] /\ done[u] <= done'[u]
    BY <1>2, <2>1
  <2>4. QED
    BY <2>1, <2>2, <2>3, LineKept
<1>8. ASSUME Drained \/ Arrive \/ Interrupt \/ Tick \/ UNCHANGED serialVars
      PROVE  Rest
  <2>1. UNCHANGED <<given, waited, halted, done>>
    BY <1>8 DEF Drained, Arrive, Interrupt, Tick, callVars, historyVars, serialVars
  <2>2. has' = has
    <3>1. CASE UNCHANGED lockVars
      BY <3>1 DEF lockVars, vars
    <3>2. CASE \E c \in {SendReady, RecvReady} : CondSBroadcast(c)
      BY <3>2 DEF CondSBroadcast, clientVars
    <3>3. CASE Tick
      BY <3>3 DEF Tick, Preempt, clientVars
    <3>4. QED
      BY <1>8, <3>1, <3>2, <3>3
      DEF Drained, Arrive, Interrupt, Sink, SendFromRing, serialVars
  <2>3. QED
    BY <1>2, <2>1, <2>2, LineKept
<1>9. ASSUME CrashStop PROVE Rest
  BY <1>9, LineCrash
<1>10. Rest
  BY <1>3, <1>4, <1>5, <1>6, <1>7, <1>8, <1>9 DEF SerialNext, ThreadStep
<1>11. QED
  BY <1>1, <1>10 DEF LineInv

\* The mutex of the tty keeps the characters of a line together in all that
\* the writers, the waits for room and for input and the interrupt handler
\* do, except where the writer of the line waited for room.
THEOREM LinesStayTogether == SerialSpec => []LinesMixOnlyAtWaits
<1>1. LineInv => LinesMixOnlyAtWaits
  BY DEF LineInv
<1>2. QED
  BY <1>1, LineInvInit, LineInvNext, PTL DEF SerialSpec

\* What CondVar promises of cond_var_wait holds of cond_var_s_wait and the
\* broadcasts of interrupt handlers, as the serial port uses them: the writer
\* and the reader come back with the mutex of the tty.
THEOREM PortReturnsWithMutex == SerialSpec => []OwnershipAcrossWaits
<1>1. LineInv => OwnershipAcrossWaits
  BY DEF LineInv, CondInv
<1>2. QED
  BY <1>1, LineInvInit, LineInvNext, PTL DEF SerialSpec
=============================================================================
