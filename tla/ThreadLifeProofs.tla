--------------------------- MODULE ThreadLifeProofs ---------------------------
(***************************************************************************)
(* Proofs about module ThreadLife, for any threads and stacks.             *)
(*                                                                         *)
(* Spec has no preemption in the middle of sched_thread_create, so the     *)
(* thread that creates another one runs all the while (OneCreator), and    *)
(* whenever the processor changes hands every thread is complete.  What    *)
(* the new thread has at each point of its creation is NewThread; what a   *)
(* complete one has, Complete.  A record that was used before is Boot's,   *)
(* with the registers of the boot stack still in it (FreeSlots).           *)
(***************************************************************************)
EXTENDS ThreadLife, DispatchProofs, FiniteSetTheorems, SequenceTheorems,
        WellFoundedInduction

-----------------------------------------------------------------------------
(* The inductive invariant.                                                *)

LifeTypeOK ==
    /\ DispatchTypeOK
    /\ slots \in SUBSET Thread /\ stacks \in SUBSET Stack
    /\ firstThread \in Thread \cup {NULL}
    /\ nextIn \in [Thread -> Thread \cup {NULL}]
    /\ esp \in [Thread -> Stack \cup {BootStack, NULL}]
    /\ low \in [Thread -> Stack \cup {NULL}]
    /\ high \in [Thread -> Stack \cup {NULL}]
    /\ pc \in [Thread -> PC]
    /\ stackOf \in [Thread -> Stack \cup {NULL}]
    /\ child \in [Thread -> Thread \cup {NULL}]

\* A thread in the middle of sched_thread_create runs, and has the new stack.
OneCreator ==
    \A t \in Thread :
        /\ pc[t] = "client" => stackOf[t] = NULL
        /\ pc[t] # "client" => current = t /\ stackOf[t] \in stacks
        /\ pc[t] \in {"client", "slot"} <=> child[t] = NULL

\* The thread that t creates, as far as it got.
NewThread ==
    \A t, u \in Thread : child[t] = u =>
        /\ u \in slots /\ u # t
        /\ pc[t] = "publish" <=> status[u] = "NEW"
        /\ pc[t] = "publish" => nextIn[u] = firstThread
        /\ pc[t] \in {"publish", "registers"} => esp[u] \in {NULL, BootStack}
        /\ pc[t] \in {"low", "high"} => esp[u] = stackOf[t]
        /\ low[u] = IF pc[t] = "high" THEN stackOf[t] ELSE NULL

\* Any other allocated thread runs on its stack; Boot, on that of the boot.
Complete ==
    \A u \in slots : (\A t \in Thread : child[t] # u) =>
        /\ status[u] # "NEW"
        /\ esp[u] # NULL
        /\ low[u] = NULL => u = Boot /\ esp[u] = BootStack
        /\ low[u] # NULL => esp[u] = low[u] /\ high[u] = low[u] /\ low[u] \in stacks

\* What is in a free slot, of an earlier life or of none.
FreeSlots ==
    \A u \in Thread \ slots : esp[u] \in {NULL, BootStack} /\ status[u] = "NEW"

\* Nobody shares a stack.
OwnStacks ==
    /\ \A t, u \in Thread : t # u /\ esp[t] # NULL => esp[t] # esp[u]
    /\ \A t, u \in Thread : stackOf[t] # NULL /\ child[t] # u => esp[u] # stackOf[t]

NoLeak == \A s \in stacks : \E t \in slots : low[t] = s \/ stackOf[t] = s

LifeInv == /\ LifeTypeOK /\ OneCreator /\ NewThread /\ Complete /\ FreeSlots
           /\ OwnStacks /\ NoLeak

-----------------------------------------------------------------------------

LEMMA LifeInit == Init => LifeInv
<1> SUFFICES ASSUME Init PROVE LifeInv
  OBVIOUS
<1> USE ThreadLifeAssumption, DispatchAssumption DEF Init
<1>1. /\ current = Boot /\ Boot \in Thread /\ slots = {Boot} /\ stacks = {}
      /\ \A t \in Thread :
            /\ status[t] = (IF t = Boot THEN "RUNNING" ELSE "NEW")
            /\ esp[t] = (IF t = Boot THEN BootStack ELSE NULL)
            /\ nextIn[t] = NULL /\ low[t] = NULL /\ high[t] = NULL
            /\ pc[t] = "client" /\ stackOf[t] = NULL /\ child[t] = NULL
  OBVIOUS
<1>2. LifeTypeOK
  BY DEF LifeTypeOK, DispatchTypeOK, Status, PC
<1>3. OneCreator /\ NewThread
  BY <1>1 DEF OneCreator, NewThread
<1>4. Complete /\ FreeSlots /\ OwnStacks /\ NoLeak
  BY <1>1 DEF Complete, FreeSlots, OwnStacks, NoLeak
<1>5. QED
  BY <1>2, <1>3, <1>4 DEF LifeInv

\* Beside the thread that runs nobody is creating one.
LEMMA OthersAreDone ==
    ASSUME LifeInv, NEW u \in Thread, u # current
    PROVE  pc[u] = "client" /\ stackOf[u] = NULL /\ child[u] = NULL
  BY DEF LifeInv, OneCreator

\* Where the processor changes hands every thread is complete.
LEMMA AllComplete ==
    ASSUME LifeInv, \A t \in Thread : current = t => pc[t] = "client"
    PROVE  /\ \A t \in Thread : pc[t] = "client" /\ stackOf[t] = NULL /\ child[t] = NULL
           /\ \A u \in slots :
                /\ status[u] # "NEW"
                /\ esp[u] # NULL
                /\ low[u] = NULL => u = Boot /\ esp[u] = BootStack
                /\ low[u] # NULL => esp[u] = low[u] /\ high[u] = low[u] /\ low[u] \in stacks
<1>1. \A t \in Thread : pc[t] = "client" /\ stackOf[t] = NULL /\ child[t] = NULL
  BY DEF LifeInv, OneCreator
<1>2. \A u \in slots, t \in Thread : child[t] # u
  BY <1>1, DispatchAssumption DEF LifeInv, LifeTypeOK
<1>3. QED
  BY <1>1, <1>2 DEF LifeInv, Complete

\* The registers of a thread point nowhere but into allocated stacks.
LEMMA EspAllocated ==
    ASSUME LifeInv, NEW u \in Thread
    PROVE  esp[u] \in stacks \cup {BootStack, NULL}
<1>1. CASE u \notin slots
  BY <1>1 DEF LifeInv, FreeSlots
<1>2. CASE u \in slots /\ \A t \in Thread : child[t] # u
  BY <1>2 DEF LifeInv, Complete
<1>3. ASSUME NEW t \in Thread, child[t] = u
      PROVE  esp[u] \in stacks \cup {BootStack, NULL}
  <2>1. pc[t] # "client"
    BY <1>3, DispatchAssumption DEF LifeInv, OneCreator
  <2>2. stackOf[t] \in stacks
    BY <2>1 DEF LifeInv, OneCreator
  <2>3. pc[t] \in {"publish", "registers", "low", "high"}
    BY <1>3, DispatchAssumption DEF LifeInv, LifeTypeOK, OneCreator, PC
  <2>4. QED
    BY <1>3, <2>2, <2>3 DEF LifeInv, NewThread
<1>4. QED
  BY <1>1, <1>2, <1>3

-----------------------------------------------------------------------------
(* Steps that switch.                                                      *)

\* A switch between complete threads.
LEMMA SwitchKeepsLife ==
    ASSUME LifeInv, \A t \in Thread : current = t => pc[t] = "client",
           DispatchTypeOK',
           \A u \in Thread : status'[u] = "NEW" <=> status[u] = "NEW",
           UNCHANGED lifeVars
    PROVE  LifeInv'
<1>1. UNCHANGED <<slots, stacks, firstThread, nextIn, esp, low, high, pc, stackOf,
                  child, irqOff, faulted>>
  BY DEF lifeVars
<1>2. LifeTypeOK'
  BY <1>1 DEF LifeInv, LifeTypeOK
<1>3. OneCreator'
  BY <1>1, AllComplete, DispatchAssumption, ThreadLifeAssumption
  DEF LifeInv, OneCreator
<1>4. NewThread'
  BY <1>1 DEF LifeInv, NewThread, LifeTypeOK
<1>5. Complete' /\ FreeSlots'
  BY <1>1 DEF LifeInv, Complete, FreeSlots, LifeTypeOK
<1>6. OwnStacks' /\ NoLeak'
  BY <1>1 DEF LifeInv, OwnStacks, NoLeak
<1>7. QED
  BY <1>2, <1>3, <1>4, <1>5, <1>6 DEF LifeInv

\* A preemption makes the running thread ready, which is not new.
LEMMA PreemptKeepsNew ==
    ASSUME DispatchTypeOK, PreemptSwitch
    PROVE  /\ DispatchTypeOK'
           /\ \A u \in Thread : status'[u] = "NEW" <=> status[u] = "NEW"
<1> DEFINE st == IF current = NULL THEN status
                                   ELSE [status EXCEPT ![current] = "READY"]
<1>1. SwitchAny(st)
  BY DEF PreemptSwitch
<1>2. \A u \in Thread : st[u] = "NEW" <=> status[u] = "NEW"
  BY DispatchAssumption DEF DispatchTypeOK, Status
<1>3. st \in [Thread -> Status]
  BY DispatchAssumption DEF DispatchTypeOK, Status
<1> HIDE DEF st
<1>4. \A u \in Thread : status'[u] = "NEW" <=> st[u] = "NEW"
  BY <1>1, <1>3 DEF SwitchAny, ReadyIn
<1>5. QED
  BY <1>2, <1>4, PreemptFacts

LEMMA YieldKeepsLife ==
    ASSUME LifeInv, NEW t \in Thread, Yield(t) PROVE LifeInv'
<1>1. PreemptSwitch /\ UNCHANGED lifeVars /\ DispatchTypeOK
      /\ current = t /\ pc[t] = "client"
  BY DEF Yield, At, LifeInv, LifeTypeOK
<1>2. QED
  BY <1>1, PreemptKeepsNew, SwitchKeepsLife

LEMMA IdleTickKeepsLife ==
    ASSUME LifeInv, IdleTick PROVE LifeInv'
<1>1. PreemptSwitch /\ UNCHANGED lifeVars /\ DispatchTypeOK /\ current \notin Thread
  BY DispatchAssumption DEF IdleTick, LifeInv, LifeTypeOK
<1>2. \A t \in Thread : current = t => pc[t] = "client"
  BY <1>1
<1>3. QED
  BY <1>1, <1>2, PreemptKeepsNew, SwitchKeepsLife

\* Boot ends, or another thread does and nothing changes any more.
LEMMA EndKeepsLife ==
    ASSUME LifeInv, NEW t \in Thread, End(t) PROVE LifeInv'
<1> DEFINE st == [status EXCEPT ![t] = "NEW"]
<1>1. /\ current = t /\ pc[t] = "client" /\ SwitchAny(st) /\ Unlist(t)
      /\ low[t] = NULL /\ slots' = slots \ {t}
      /\ UNCHANGED <<stacks, esp, low, high, pc, stackOf, child>>
  BY DEF End, At
<1>2. LifeTypeOK
  BY DEF LifeInv
<1>3. /\ st \in [Thread -> Status]
      /\ \A u \in Thread : st[u] = IF u = t THEN "NEW" ELSE status[u]
      /\ \A u \in Thread : st[u] # "RUNNING"
  BY <1>1, <1>2 DEF LifeTypeOK, DispatchTypeOK, Status
<1> HIDE DEF st
<1>4. DispatchTypeOK'
  BY <1>1, <1>3, SwitchFacts
<1>5. \A u \in Thread : status'[u] = "NEW" <=> u = t \/ status[u] = "NEW"
  <2>1. \A u \in Thread : status'[u] = "NEW" <=> st[u] = "NEW"
    BY <1>1, <1>3 DEF SwitchAny, ReadyIn
  <2>2. QED
    BY <1>3, <2>1
<1>6. firstThread' \in Thread \cup {NULL} /\ nextIn' \in [Thread -> Thread \cup {NULL}]
  <2>1. CASE firstThread = t /\ firstThread' = nextIn[t] /\ UNCHANGED nextIn
    BY <1>2, <2>1 DEF LifeTypeOK
  <2>2. CASE /\ nextIn' = [p \in Thread |-> IF p \in Listed /\ nextIn[p] = t
                                            THEN nextIn[t] ELSE nextIn[p]]
             /\ UNCHANGED firstThread
    BY <1>2, <2>2 DEF LifeTypeOK
  <2>3. QED
    BY <1>1, <2>1, <2>2 DEF Unlist
<1>8. LifeTypeOK'
  BY <1>1, <1>2, <1>4, <1>6 DEF LifeTypeOK
<1>9. /\ \A u \in Thread : pc[u] = "client" /\ stackOf[u] = NULL /\ child[u] = NULL
      /\ \A u \in slots :
            /\ status[u] # "NEW"
            /\ esp[u] # NULL
            /\ low[u] = NULL => u = Boot /\ esp[u] = BootStack
            /\ low[u] # NULL => esp[u] = low[u] /\ high[u] = low[u] /\ low[u] \in stacks
  <2>1. \A u \in Thread : current = u => pc[u] = "client"
    BY <1>1
  <2>2. QED
    BY <2>1, AllComplete
<1>10. t \in slots
  <2>1. status[t] # "NEW"
    BY <1>1, <1>2 DEF LifeTypeOK, DispatchTypeOK
  <2>2. QED
    BY <2>1 DEF LifeInv, FreeSlots
<1>11. OneCreator' /\ NewThread'
  BY <1>1, <1>9, DispatchAssumption DEF OneCreator, NewThread
<1>7. t = Boot /\ esp[t] = BootStack
  BY <1>1, <1>9, <1>10
<1>12. Complete'
  <2>1. \A u \in slots' : u \in slots /\ u \in Thread /\ u # t
    BY <1>1, <1>2 DEF LifeTypeOK
  <2>2. QED
    BY <1>1, <1>5, <1>9, <2>1 DEF Complete
<1>13. FreeSlots'
  BY <1>1, <1>5, <1>7 DEF LifeInv, FreeSlots
<1>14. OwnStacks'
  BY <1>1, <1>9 DEF LifeInv, OwnStacks
<1>15. NoLeak'
  BY <1>1, <1>9, ThreadLifeAssumption DEF LifeInv, NoLeak, LifeTypeOK
<1>16. QED
  BY <1>8, <1>11, <1>12, <1>13, <1>14, <1>15 DEF LifeInv

LEMMA EndFaultsKeepsLife ==
    ASSUME LifeInv, NEW t \in Thread, EndFaults(t) PROVE LifeInv'
  BY DEF EndFaults, dispatchVars, LifeInv, LifeTypeOK, DispatchTypeOK, OneCreator,
     NewThread, Complete, FreeSlots, OwnStacks, NoLeak

-----------------------------------------------------------------------------
(* Steps of sched_thread_create.                                           *)

LEMMA CreateStackKeepsLife ==
    ASSUME LifeInv, NEW t \in Thread, CreateStack(t) PROVE LifeInv'
<1>1. PICK s \in Stack \ stacks :
        /\ stacks' = stacks \cup {s}
        /\ stackOf' = [stackOf EXCEPT ![t] = s]
        /\ pc' = [pc EXCEPT ![t] = "slot"]
  BY DEF CreateStack
<1>2. /\ current = t /\ pc[t] = "client"
      /\ UNCHANGED <<current, status, slots, firstThread, nextIn, esp, low, high,
                     child>>
  BY DEF CreateStack, At, dispatchVars
<1>3. LifeTypeOK
  BY DEF LifeInv
<1>4. /\ \A u \in Thread : stackOf'[u] = IF u = t THEN s ELSE stackOf[u]
      /\ \A u \in Thread : pc'[u] = IF u = t THEN "slot" ELSE pc[u]
  BY <1>1, <1>3 DEF LifeTypeOK
<1>5. LifeTypeOK'
  BY <1>1, <1>2, <1>3 DEF LifeTypeOK, DispatchTypeOK, PC
<1>6. \A u \in Thread : stackOf[u] = NULL /\ child[u] = NULL /\ pc[u] = "client"
  BY <1>2, AllComplete
<1>7. OneCreator' /\ NewThread'
  BY <1>1, <1>2, <1>4, <1>6, DispatchAssumption DEF OneCreator, NewThread
<1>8. Complete' /\ FreeSlots'
  BY <1>1, <1>2 DEF LifeInv, Complete, FreeSlots
<1>9. \A u \in Thread : esp[u] # s
  BY <1>1, EspAllocated, ThreadLifeAssumption
<1>10. OwnStacks'
  BY <1>2, <1>4, <1>6, <1>9 DEF LifeInv, OwnStacks
<1>11. NoLeak'
  <2>1. t \in slots
    BY <1>2, <1>3 DEF LifeInv, FreeSlots, LifeTypeOK, DispatchTypeOK
  <2>2. stackOf'[t] = s
    BY <1>4
  <2>3. \A x \in stacks : \E u \in slots : low[u] = x
    BY <1>1, <1>3, <1>6, ThreadLifeAssumption DEF LifeInv, NoLeak, LifeTypeOK
  <2>4. QED
    BY <1>1, <1>2, <2>1, <2>2, <2>3 DEF NoLeak
<1>12. QED
  BY <1>5, <1>7, <1>8, <1>10, <1>11 DEF LifeInv

\* A new slot: its list link is read, its bounds are cleared.
LEMMA CreateSlotKeepsLife ==
    ASSUME LifeInv, NEW t \in Thread, CreateSlot(t) PROVE LifeInv'
<1>1. PICK n \in Thread \ slots :
        /\ slots' = slots \cup {n}
        /\ child' = [child EXCEPT ![t] = n]
        /\ low' = [low EXCEPT ![n] = NULL]
        /\ high' = [high EXCEPT ![n] = NULL]
        /\ nextIn' = [nextIn EXCEPT ![n] = firstThread]
        /\ pc' = [pc EXCEPT ![t] = "publish"]
  BY DEF CreateSlot
<1>2. /\ current = t /\ pc[t] = "slot"
      /\ UNCHANGED <<current, status, stacks, firstThread, esp, stackOf>>
  BY DEF CreateSlot, At, dispatchVars
<1>3. LifeTypeOK
  BY DEF LifeInv
<1>4. /\ \A u \in Thread : child'[u] = IF u = t THEN n ELSE child[u]
      /\ \A u \in Thread : low'[u] = IF u = n THEN NULL ELSE low[u]
      /\ \A u \in Thread : nextIn'[u] = IF u = n THEN firstThread ELSE nextIn[u]
      /\ \A u \in Thread : pc'[u] = IF u = t THEN "publish" ELSE pc[u]
  BY <1>1, <1>3 DEF LifeTypeOK
<1>5. LifeTypeOK'
  BY <1>1, <1>2, <1>3 DEF LifeTypeOK, DispatchTypeOK, PC
<1>6. /\ \A u \in Thread : child[u] = NULL
      /\ \A u \in Thread : u # t => pc[u] = "client" /\ stackOf[u] = NULL
      /\ stackOf[t] # NULL /\ stackOf[t] \in stacks
  <2>1. child[t] = NULL /\ stackOf[t] \in stacks
    BY <1>2 DEF LifeInv, OneCreator
  <2>2. \A u \in Thread : u # t => pc[u] = "client" /\ stackOf[u] = NULL /\ child[u] = NULL
    BY <1>2, OthersAreDone
  <2>3. QED
    BY <1>3, <2>1, <2>2, ThreadLifeAssumption DEF LifeTypeOK
<1>7. esp[n] \in {NULL, BootStack} /\ status[n] = "NEW" /\ n \in Thread
  BY <1>1 DEF LifeInv, FreeSlots
<1>8. OneCreator'
  BY <1>2, <1>4, <1>6, <1>7, DispatchAssumption DEF OneCreator
<1>9. NewThread'
  <2>1. t \in slots
    BY <1>2, <1>3 DEF LifeInv, FreeSlots, LifeTypeOK, DispatchTypeOK
  <2>2. n # t
    BY <1>1, <2>1
  <2>3. QED
    BY <1>1, <1>2, <1>4, <1>6, <1>7, <2>2, DispatchAssumption DEF NewThread
<1>10. Complete'
  <2>1. \A u \in slots :
            /\ status[u] # "NEW"
            /\ esp[u] # NULL
            /\ low[u] = NULL => u = Boot /\ esp[u] = BootStack
            /\ low[u] # NULL => esp[u] = low[u] /\ high[u] = low[u] /\ low[u] \in stacks
    <3>1. \A u \in slots, v \in Thread : child[v] # u
      BY <1>3, <1>6, DispatchAssumption DEF LifeTypeOK
    <3>2. QED
      BY <3>1 DEF LifeInv, Complete
  <2>2. \A u \in slots : u \in Thread /\ u # n
    BY <1>1, <1>3 DEF LifeTypeOK
  <2>3. child'[t] = n
    BY <1>4
  <2>4. QED
    BY <1>1, <1>2, <1>4, <2>1, <2>2, <2>3 DEF Complete
<1>11. FreeSlots'
  BY <1>1, <1>2 DEF LifeInv, FreeSlots
<1>12. OwnStacks'
  BY <1>2, <1>4, <1>6, DispatchAssumption DEF LifeInv, OwnStacks
<1>13. NoLeak'
  <2>1. ASSUME NEW x \in stacks PROVE \E u \in slots' : low'[u] = x \/ stackOf[u] = x
    <3>1. PICK u \in slots : low[u] = x \/ stackOf[u] = x
      BY <2>1 DEF LifeInv, NoLeak
    <3>2. u \in Thread /\ u # n
      BY <1>1, <1>3, <3>1 DEF LifeTypeOK
    <3>3. QED
      BY <1>1, <1>4, <3>1, <3>2
  <2>2. QED
    BY <1>2, <2>1 DEF NoLeak
<1>14. QED
  BY <1>5, <1>8, <1>9, <1>10, <1>11, <1>12, <1>13 DEF LifeInv

\* No slot: the stack is given back.
LEMMA CreateFailsKeepsLife ==
    ASSUME LifeInv, NEW t \in Thread, CreateFails(t) PROVE LifeInv'
<1>1. /\ current = t /\ pc[t] = "slot"
      /\ stacks' = stacks \ {stackOf[t]}
      /\ stackOf' = [stackOf EXCEPT ![t] = NULL]
      /\ pc' = [pc EXCEPT ![t] = "client"]
      /\ UNCHANGED <<current, status, slots, firstThread, nextIn, esp, low, high, child>>
  BY DEF CreateFails, At, dispatchVars
<1>2. LifeTypeOK
  BY DEF LifeInv
<1>3. /\ \A u \in Thread : stackOf'[u] = IF u = t THEN NULL ELSE stackOf[u]
      /\ \A u \in Thread : pc'[u] = IF u = t THEN "client" ELSE pc[u]
  BY <1>1, <1>2 DEF LifeTypeOK
<1>4. LifeTypeOK'
  BY <1>1, <1>2 DEF LifeTypeOK, DispatchTypeOK, PC
<1>5. /\ \A u \in Thread : child[u] = NULL
      /\ \A u \in Thread : u # t => pc[u] = "client" /\ stackOf[u] = NULL
      /\ stackOf[t] # NULL
  <2>1. child[t] = NULL /\ stackOf[t] \in stacks
    BY <1>1 DEF LifeInv, OneCreator
  <2>2. \A u \in Thread : u # t => pc[u] = "client" /\ stackOf[u] = NULL /\ child[u] = NULL
    BY <1>1, OthersAreDone
  <2>3. QED
    BY <1>2, <2>1, <2>2, ThreadLifeAssumption DEF LifeTypeOK
<1>6. \A u \in Thread : pc'[u] = "client" /\ stackOf'[u] = NULL /\ child'[u] = NULL
  BY <1>1, <1>3, <1>5
<1>7. OneCreator' /\ NewThread'
  BY <1>6, DispatchAssumption DEF OneCreator, NewThread
<1>8. \A u \in Thread : esp[u] # stackOf[t]
  BY <1>5, DispatchAssumption DEF LifeInv, OwnStacks
<1>9. Complete' /\ FreeSlots'
  BY <1>1, <1>2, <1>8 DEF LifeInv, Complete, FreeSlots, LifeTypeOK
<1>10. OwnStacks'
  BY <1>1, <1>6 DEF LifeInv, OwnStacks
<1>11. NoLeak'
  <2>1. ASSUME NEW x \in stacks, x # stackOf[t] PROVE \E u \in slots : low[u] = x
    <3>1. PICK u \in slots : low[u] = x \/ stackOf[u] = x
      BY <2>1 DEF LifeInv, NoLeak
    <3>2. stackOf[u] # x
      BY <1>2, <1>5, <2>1, ThreadLifeAssumption DEF LifeTypeOK
    <3>3. QED
      BY <3>1, <3>2
  <2>2. QED
    BY <1>1, <2>1 DEF NoLeak
<1>12. QED
  BY <1>4, <1>7, <1>9, <1>10, <1>11 DEF LifeInv

\* What holds of the creator, the new thread n and the rest meanwhile.
LEMMA WhileCreating ==
    ASSUME LifeInv, NEW t \in Thread, current = t, pc[t] \notin {"client", "slot"}
    PROVE  \E n \in slots :
             /\ n \in Thread /\ n # t /\ child[t] = n
             /\ stackOf[t] # NULL /\ stackOf[t] \in stacks
             /\ \A u \in Thread : u # t =>
                   pc[u] = "client" /\ stackOf[u] = NULL /\ child[u] = NULL
             /\ pc[t] = "publish" <=> status[n] = "NEW"
             /\ pc[t] = "publish" => nextIn[n] = firstThread
             /\ pc[t] \in {"publish", "registers"} => esp[n] \in {NULL, BootStack}
             /\ pc[t] \in {"low", "high"} => esp[n] = stackOf[t]
             /\ low[n] = IF pc[t] = "high" THEN stackOf[t] ELSE NULL
             /\ \A u \in slots : u # n =>
                  /\ status[u] # "NEW"
                  /\ esp[u] # NULL
                  /\ low[u] = NULL => u = Boot /\ esp[u] = BootStack
                  /\ low[u] # NULL => esp[u] = low[u] /\ high[u] = low[u] /\ low[u] \in stacks
             /\ \A u \in Thread : u # n => esp[u] # stackOf[t]
<1> DEFINE n == child[t]
<1>1. LifeTypeOK /\ n # NULL /\ stackOf[t] \in stacks
  BY DEF LifeInv, OneCreator
<1>2. n \in Thread /\ stackOf[t] # NULL
  BY <1>1, ThreadLifeAssumption DEF LifeTypeOK
<1>3. /\ n \in slots /\ n # t
      /\ pc[t] = "publish" <=> status[n] = "NEW"
      /\ pc[t] = "publish" => nextIn[n] = firstThread
      /\ pc[t] \in {"publish", "registers"} => esp[n] \in {NULL, BootStack}
      /\ pc[t] \in {"low", "high"} => esp[n] = stackOf[t]
      /\ low[n] = IF pc[t] = "high" THEN stackOf[t] ELSE NULL
  BY <1>2 DEF LifeInv, NewThread
<1>4. \A u \in Thread : u # t =>
         pc[u] = "client" /\ stackOf[u] = NULL /\ child[u] = NULL
  BY OthersAreDone
<1>5. \A u \in slots : u # n => \A v \in Thread : child[v] # u
  BY <1>1, <1>4, DispatchAssumption DEF LifeTypeOK
<1>6. \A u \in slots : u # n =>
         /\ status[u] # "NEW"
         /\ esp[u] # NULL
         /\ low[u] = NULL => u = Boot /\ esp[u] = BootStack
         /\ low[u] # NULL => esp[u] = low[u] /\ high[u] = low[u] /\ low[u] \in stacks
  BY <1>5 DEF LifeInv, Complete
<1>7. \A u \in Thread : u # n => esp[u] # stackOf[t]
  BY <1>2 DEF LifeInv, OwnStacks
<1> HIDE DEF n
<1>8. n = child[t]
  BY DEF n
<1>9. QED
  BY <1>1, <1>2, <1>3, <1>4, <1>6, <1>7, <1>8

LEMMA CreatePublishKeepsLife ==
    ASSUME LifeInv, NEW t \in Thread, CreatePublish(t) PROVE LifeInv'
<1>1. /\ current = t /\ pc[t] = "publish"
      /\ firstThread' = child[t] /\ status' = Woken(status, {child[t]})
      /\ pc' = [pc EXCEPT ![t] = "registers"]
      /\ UNCHANGED <<current, slots, stacks, nextIn, esp, low, high, stackOf, child>>
  BY DEF CreatePublish, At
<1>2. LifeTypeOK
  BY DEF LifeInv
<1>3. PICK n \in slots :
        /\ n \in Thread /\ n # t /\ child[t] = n
        /\ stackOf[t] # NULL /\ stackOf[t] \in stacks
        /\ \A u \in Thread : u # t =>
              pc[u] = "client" /\ stackOf[u] = NULL /\ child[u] = NULL
        /\ status[n] = "NEW" /\ esp[n] \in {NULL, BootStack} /\ low[n] = NULL
        /\ \A u \in slots : u # n =>
             /\ status[u] # "NEW"
             /\ esp[u] # NULL
             /\ low[u] = NULL => u = Boot /\ esp[u] = BootStack
             /\ low[u] # NULL => esp[u] = low[u] /\ high[u] = low[u] /\ low[u] \in stacks
  BY <1>1, WhileCreating
<1>4. DispatchTypeOK' /\ \A u \in Thread : status'[u] = IF u = n THEN "READY" ELSE status[u]
  <2>1. current \notin {n} /\ {n} \in SUBSET Thread /\ DispatchTypeOK
    BY <1>1, <1>2, <1>3 DEF LifeTypeOK, DispatchTypeOK
  <2>2. status' = Woken(status, {n}) /\ current' = current
    BY <1>1, <1>3
  <2>3. DispatchTypeOK' /\ \A u \in Thread : status'[u] = IF u \in {n} THEN "READY" ELSE status[u]
    BY <2>1, <2>2, WakeFacts
  <2>4. QED
    BY <2>3
<1>5. \A u \in Thread : pc'[u] = IF u = t THEN "registers" ELSE pc[u]
  BY <1>1, <1>2 DEF LifeTypeOK
<1>6. LifeTypeOK'
  BY <1>1, <1>2, <1>3, <1>4 DEF LifeTypeOK, PC
<1>7. OneCreator' /\ NewThread'
  BY <1>1, <1>3, <1>4, <1>5, DispatchAssumption DEF OneCreator, NewThread
<1>8. Complete'
  <2>1. \A u \in slots : (\A v \in Thread : child[v] # u) => u # n /\ u \in Thread
    BY <1>2, <1>3 DEF LifeTypeOK
  <2>2. QED
    BY <1>1, <1>3, <1>4, <2>1 DEF Complete
<1>9. FreeSlots' /\ OwnStacks' /\ NoLeak'
  BY <1>1, <1>3, <1>4 DEF LifeInv, FreeSlots, OwnStacks, NoLeak
<1>10. QED
  BY <1>6, <1>7, <1>8, <1>9 DEF LifeInv

LEMMA CreateRegistersKeepsLife ==
    ASSUME LifeInv, NEW t \in Thread, CreateRegisters(t) PROVE LifeInv'
<1>1. /\ current = t /\ pc[t] = "registers"
      /\ esp' = [esp EXCEPT ![child[t]] = stackOf[t]]
      /\ pc' = [pc EXCEPT ![t] = "low"]
      /\ UNCHANGED <<current, status, slots, stacks, firstThread, nextIn, low, high,
                     stackOf, child>>
  BY DEF CreateRegisters, At, dispatchVars
<1>2. LifeTypeOK
  BY DEF LifeInv
<1>3. PICK n \in slots :
        /\ n \in Thread /\ n # t /\ child[t] = n
        /\ stackOf[t] # NULL /\ stackOf[t] \in stacks
        /\ \A u \in Thread : u # t =>
              pc[u] = "client" /\ stackOf[u] = NULL /\ child[u] = NULL
        /\ status[n] # "NEW" /\ esp[n] \in {NULL, BootStack} /\ low[n] = NULL
        /\ \A u \in slots : u # n =>
             /\ status[u] # "NEW"
             /\ esp[u] # NULL
             /\ low[u] = NULL => u = Boot /\ esp[u] = BootStack
             /\ low[u] # NULL => esp[u] = low[u] /\ high[u] = low[u] /\ low[u] \in stacks
        /\ \A u \in Thread : u # n => esp[u] # stackOf[t]
  BY <1>1, WhileCreating
<1>4. /\ \A u \in Thread : esp'[u] = IF u = n THEN stackOf[t] ELSE esp[u]
      /\ \A u \in Thread : pc'[u] = IF u = t THEN "low" ELSE pc[u]
  BY <1>1, <1>2, <1>3 DEF LifeTypeOK
<1>5. LifeTypeOK'
  BY <1>1, <1>2, <1>3 DEF LifeTypeOK, DispatchTypeOK, PC
<1>6. OneCreator' /\ NewThread'
  BY <1>1, <1>3, <1>4, DispatchAssumption DEF OneCreator, NewThread
<1>7. Complete'
  <2>1. \A u \in slots : (\A v \in Thread : child[v] # u) => u # n /\ u \in Thread
    BY <1>2, <1>3 DEF LifeTypeOK
  <2>2. QED
    BY <1>1, <1>3, <1>4, <2>1 DEF Complete
<1>8. FreeSlots' /\ NoLeak'
  BY <1>1, <1>3, <1>4 DEF LifeInv, FreeSlots, NoLeak
<1>9. OwnStacks'
  <2>1. ASSUME NEW u \in Thread, NEW v \in Thread, u # v, esp'[u] # NULL
        PROVE  esp'[u] # esp'[v]
    BY <1>3, <1>4, <2>1 DEF LifeInv, OwnStacks
  <2>2. \A u, v \in Thread : stackOf[u] # NULL /\ child[u] # v => esp'[v] # stackOf[u]
    BY <1>3, <1>4
  <2>3. QED
    BY <1>1, <2>1, <2>2 DEF OwnStacks
<1>10. QED
  BY <1>5, <1>6, <1>7, <1>8, <1>9 DEF LifeInv

LEMMA CreateLowKeepsLife ==
    ASSUME LifeInv, NEW t \in Thread, CreateLow(t) PROVE LifeInv'
<1>1. /\ current = t /\ pc[t] = "low"
      /\ low' = [low EXCEPT ![child[t]] = stackOf[t]]
      /\ pc' = [pc EXCEPT ![t] = "high"]
      /\ UNCHANGED <<current, status, slots, stacks, firstThread, nextIn, esp, high,
                     stackOf, child>>
  BY DEF CreateLow, At, dispatchVars
<1>2. LifeTypeOK
  BY DEF LifeInv
<1>3. PICK n \in slots :
        /\ n \in Thread /\ n # t /\ child[t] = n
        /\ stackOf[t] # NULL /\ stackOf[t] \in stacks
        /\ \A u \in Thread : u # t =>
              pc[u] = "client" /\ stackOf[u] = NULL /\ child[u] = NULL
        /\ status[n] # "NEW" /\ esp[n] = stackOf[t] /\ low[n] = NULL
        /\ \A u \in slots : u # n =>
             /\ status[u] # "NEW"
             /\ esp[u] # NULL
             /\ low[u] = NULL => u = Boot /\ esp[u] = BootStack
             /\ low[u] # NULL => esp[u] = low[u] /\ high[u] = low[u] /\ low[u] \in stacks
  BY <1>1, WhileCreating
<1>4. /\ \A u \in Thread : low'[u] = IF u = n THEN stackOf[t] ELSE low[u]
      /\ \A u \in Thread : pc'[u] = IF u = t THEN "high" ELSE pc[u]
  BY <1>1, <1>2, <1>3 DEF LifeTypeOK
<1>5. LifeTypeOK'
  BY <1>1, <1>2, <1>3 DEF LifeTypeOK, DispatchTypeOK, PC
<1>6. OneCreator' /\ NewThread'
  BY <1>1, <1>3, <1>4, DispatchAssumption DEF OneCreator, NewThread
<1>7. Complete'
  <2>1. \A u \in slots : (\A v \in Thread : child[v] # u) => u # n /\ u \in Thread
    BY <1>2, <1>3 DEF LifeTypeOK
  <2>2. QED
    BY <1>1, <1>3, <1>4, <2>1 DEF Complete
<1>8. FreeSlots' /\ OwnStacks'
  BY <1>1 DEF LifeInv, FreeSlots, OwnStacks
<1>9. NoLeak'
  <2>1. \A u \in slots : low'[u] = low[u] \/ low[u] = NULL
    BY <1>2, <1>3, <1>4 DEF LifeTypeOK
  <2>2. QED
    BY <1>1, <1>2, <2>1, ThreadLifeAssumption DEF LifeInv, NoLeak, LifeTypeOK
<1>10. QED
  BY <1>5, <1>6, <1>7, <1>8, <1>9 DEF LifeInv

LEMMA CreateHighKeepsLife ==
    ASSUME LifeInv, NEW t \in Thread, CreateHigh(t) PROVE LifeInv'
<1>1. /\ current = t /\ pc[t] = "high"
      /\ high' = [high EXCEPT ![child[t]] = stackOf[t]]
      /\ stackOf' = [stackOf EXCEPT ![t] = NULL]
      /\ child' = [child EXCEPT ![t] = NULL]
      /\ pc' = [pc EXCEPT ![t] = "client"]
      /\ UNCHANGED <<current, status, slots, stacks, firstThread, nextIn, esp, low>>
  BY DEF CreateHigh, At, dispatchVars
<1>2. LifeTypeOK
  BY DEF LifeInv
<1>3. PICK n \in slots :
        /\ n \in Thread /\ n # t /\ child[t] = n
        /\ stackOf[t] # NULL /\ stackOf[t] \in stacks
        /\ \A u \in Thread : u # t =>
              pc[u] = "client" /\ stackOf[u] = NULL /\ child[u] = NULL
        /\ status[n] # "NEW" /\ esp[n] = stackOf[t] /\ low[n] = stackOf[t]
        /\ \A u \in slots : u # n =>
             /\ status[u] # "NEW"
             /\ esp[u] # NULL
             /\ low[u] = NULL => u = Boot /\ esp[u] = BootStack
             /\ low[u] # NULL => esp[u] = low[u] /\ high[u] = low[u] /\ low[u] \in stacks
  BY <1>1, WhileCreating
<1>4. \A u \in Thread : pc'[u] = "client" /\ stackOf'[u] = NULL /\ child'[u] = NULL
  BY <1>1, <1>2, <1>3 DEF LifeTypeOK
<1>5. LifeTypeOK'
  BY <1>1, <1>2, <1>3 DEF LifeTypeOK, DispatchTypeOK, PC
<1>6. OneCreator' /\ NewThread'
  BY <1>4, DispatchAssumption DEF OneCreator, NewThread
<1>7. Complete'
  <2>1. \A u \in slots : u \in Thread /\ high'[u] = IF u = n THEN stackOf[t] ELSE high[u]
    BY <1>1, <1>2, <1>3 DEF LifeTypeOK
  <2>2. QED
    BY <1>1, <1>3, <2>1 DEF Complete
<1>8. FreeSlots' /\ OwnStacks'
  BY <1>1, <1>4 DEF LifeInv, FreeSlots, OwnStacks
<1>9. NoLeak'
  <2>1. ASSUME NEW x \in stacks PROVE \E u \in slots : low[u] = x
    <3>1. PICK u \in slots : low[u] = x \/ stackOf[u] = x
      BY <2>1 DEF LifeInv, NoLeak
    <3>2. u \in Thread /\ x # NULL
      BY <1>2, <2>1, <3>1, ThreadLifeAssumption DEF LifeTypeOK
    <3>3. CASE low[u] = x
      BY <3>1, <3>3
    <3>4. CASE stackOf[u] = x
      BY <1>3, <3>2, <3>4
    <3>5. QED
      BY <3>1, <3>3, <3>4
  <2>2. QED
    BY <1>1, <2>1 DEF NoLeak
<1>10. QED
  BY <1>5, <1>6, <1>7, <1>8, <1>9 DEF LifeInv

-----------------------------------------------------------------------------

LEMMA LifeStep == LifeInv /\ [Next]_vars => LifeInv'
<1> SUFFICES ASSUME LifeInv, [Next]_vars PROVE LifeInv'
  OBVIOUS
<1>1. ASSUME NEW t \in Thread, CreateStack(t) PROVE LifeInv'
  BY <1>1, CreateStackKeepsLife
<1>2. ASSUME NEW t \in Thread, CreateSlot(t) PROVE LifeInv'
  BY <1>2, CreateSlotKeepsLife
<1>3. ASSUME NEW t \in Thread, CreateFails(t) PROVE LifeInv'
  BY <1>3, CreateFailsKeepsLife
<1>4. ASSUME NEW t \in Thread, CreatePublish(t) PROVE LifeInv'
  BY <1>4, CreatePublishKeepsLife
<1>5. ASSUME NEW t \in Thread, CreateRegisters(t) PROVE LifeInv'
  BY <1>5, CreateRegistersKeepsLife
<1>6. ASSUME NEW t \in Thread, CreateLow(t) PROVE LifeInv'
  BY <1>6, CreateLowKeepsLife
<1>7. ASSUME NEW t \in Thread, CreateHigh(t) PROVE LifeInv'
  BY <1>7, CreateHighKeepsLife
<1>8. ASSUME NEW t \in Thread, End(t) PROVE LifeInv'
  BY <1>8, EndKeepsLife
<1>13. ASSUME NEW t \in Thread, EndFaults(t) PROVE LifeInv'
  BY <1>13, EndFaultsKeepsLife
<1>9. ASSUME NEW t \in Thread, Yield(t) PROVE LifeInv'
  BY <1>9, YieldKeepsLife
<1>10. CASE IdleTick
  BY <1>10, IdleTickKeepsLife
<1>11. CASE UNCHANGED vars \/ Reset
  BY <1>11 DEF Reset, vars, lifeVars, dispatchVars, LifeInv, LifeTypeOK, DispatchTypeOK,
     OneCreator, NewThread, Complete, FreeSlots, OwnStacks, NoLeak
<1>12. QED
  BY <1>1, <1>2, <1>3, <1>4, <1>5, <1>6, <1>7, <1>8, <1>9, <1>10, <1>11, <1>13 DEF Next

\* The invariant that the theorems below rest on holds in every state of the
\* kernel without preemption, for any number of threads and stacks.
THEOREM LifeInvariance == Spec => []LifeInv
<1>1. QED
  BY LifeInit, LifeStep, PTL DEF Spec

\* sched_switch_thread runs every thread that sched_thread_create completed on
\* registers that were written for it, in a stack that is its own and still
\* allocated, also where the record has been used before by Boot; and Boot on
\* the stack of the boot (core/sched.c, lines 59 to 94 and 281 to 316).
THEOREM OwnStackEach == Spec => []RunsOnOwnStack
<1>1. LifeInv => RunsOnOwnStack
  <2> SUFFICES ASSUME LifeInv, current # NULL
               PROVE  /\ current \in slots
                      /\ low[current] = NULL => current = Boot /\ esp[current] = BootStack
                      /\ low[current] # NULL =>
                            /\ esp[current] = low[current] /\ high[current] = low[current]
                            /\ low[current] \in stacks
                      /\ \A t \in slots \ {current} : esp[t] # esp[current]
    BY DEF RunsOnOwnStack
  <2>1. current \in Thread /\ slots \subseteq Thread /\ status[current] = "RUNNING"
    BY DEF LifeInv, LifeTypeOK, DispatchTypeOK
  <2>2. current \in slots
    BY <2>1 DEF LifeInv, FreeSlots
  <2>3. \A t \in Thread : child[t] # current
    <3> SUFFICES ASSUME NEW t \in Thread, child[t] = current PROVE FALSE
      OBVIOUS
    <3>1. pc[t] # "client"
      BY <2>1, DispatchAssumption DEF LifeInv, OneCreator
    <3>2. current = t
      BY <3>1 DEF LifeInv, OneCreator
    <3>3. QED
      BY <3>2 DEF LifeInv, NewThread
  <2>4. /\ esp[current] # NULL
        /\ low[current] = NULL => current = Boot /\ esp[current] = BootStack
        /\ low[current] # NULL =>
              /\ esp[current] = low[current] /\ high[current] = low[current]
              /\ low[current] \in stacks
    BY <2>2, <2>3 DEF LifeInv, Complete
  <2>5. \A t \in slots \ {current} : esp[t] # esp[current]
    BY <2>1, <2>4 DEF LifeInv, OwnStacks
  <2>6. QED
    BY <2>2, <2>4, <2>5
<1>2. QED
  BY <1>1, LifeInvariance, PTL

\* The stacks that are allocated are those of the threads and the one that the
\* running thread allocated for the next: no path of sched_thread_create,
\* failing or not, leaks one or gives it to two threads.  (A thread that has a
\* stack does not live to give it back: EndFaults.)
THEOREM NoStackLeaks == Spec => []StacksAccounted
<1>1. LifeInv => StacksAccounted
  <2> SUFFICES ASSUME LifeInv PROVE StacksAccounted
    OBVIOUS
  <2>1. LifeTypeOK
    BY DEF LifeInv
  <2>2. ASSUME NEW u \in slots, low[u] # NULL
        PROVE  low[u] \in stacks /\ esp[u] = low[u]
    <3>1. u \in Thread
      BY <2>1 DEF LifeTypeOK
    <3>2. CASE \A t \in Thread : child[t] # u
      BY <2>2, <3>2 DEF LifeInv, Complete
    <3>3. ASSUME NEW t \in Thread, child[t] = u
          PROVE  low[u] \in stacks /\ esp[u] = low[u]
      <4>1. low[u] = stackOf[t] /\ pc[t] = "high" /\ esp[u] = stackOf[t]
        BY <2>2, <3>1, <3>3 DEF LifeInv, NewThread
      <4>2. stackOf[t] \in stacks
        BY <4>1 DEF LifeInv, OneCreator
      <4>3. QED
        BY <4>1, <4>2
    <3>4. QED
      BY <3>2, <3>3
  <2>3. ASSUME NEW u \in slots, stackOf[u] # NULL PROVE stackOf[u] \in stacks
    BY <2>1, <2>3 DEF LifeInv, OneCreator, LifeTypeOK
  <2>4. NULL \notin stacks
    BY <2>1, ThreadLifeAssumption DEF LifeTypeOK
  <2>5. stacks = ({low[t] : t \in slots} \cup {stackOf[t] : t \in slots}) \ {NULL}
    <3>1. ASSUME NEW x \in stacks
          PROVE  x \in ({low[t] : t \in slots} \cup {stackOf[t] : t \in slots}) \ {NULL}
      BY <2>4 DEF LifeInv, NoLeak
    <3>2. ASSUME NEW x \in ({low[t] : t \in slots} \cup {stackOf[t] : t \in slots}) \ {NULL}
          PROVE  x \in stacks
      BY <2>2, <2>3
    <3>3. QED
      BY <3>1, <3>2
  <2>6. ASSUME NEW t \in slots, NEW u \in slots, t # u, low[t] # NULL
        PROVE  low[t] # low[u]
    <3>1. t \in Thread /\ u \in Thread
      BY <2>1 DEF LifeTypeOK
    <3>2. esp[t] = low[t] /\ (low[u] # NULL => esp[u] = low[u])
      BY <2>2, <2>6
    <3>3. QED
      BY <2>6, <3>1, <3>2 DEF LifeInv, OwnStacks
  <2>7. QED
    BY <2>5, <2>6 DEF StacksAccounted
<1>2. QED
  BY <1>1, LifeInvariance, PTL

-----------------------------------------------------------------------------
(* The list of the process.                                                *)

\* first and next link the threads of q, each once and in this order.
Links(first, next, q) ==
    /\ \A i, j \in 1..Len(q) : q[i] = q[j] => i = j
    /\ first = IF Len(q) = 0 THEN NULL ELSE q[1]
    /\ \A i \in 1..Len(q) : next[q[i]] = IF i = Len(q) THEN NULL ELSE q[i + 1]

\* There is such a list, and the threads in it are those that live.
ListInv ==
    \E q \in Seq(Thread) :
        /\ Links(firstThread, nextIn, q)
        /\ \A t \in Thread : status[t] # "NEW" <=> \E i \in 1..Len(q) : q[i] = t

\* The walk of Listed over any links.
Walk(first, next) ==
    CHOOSE f : f = [i \in 1..Cardinality(Thread) |->
                      IF i = 1 THEN first
                      ELSE IF f[i - 1] = NULL THEN NULL ELSE next[f[i - 1]]]

Walked(first, next) ==
    {Walk(first, next)[i] : i \in 1..Cardinality(Thread)} \ {NULL}

LEMMA ListedIsWalked == Listed = Walked(firstThread, nextIn)
  BY DEF Listed, Walked, Walk

LEMMA LeastNat ==
    ASSUME NEW S \in SUBSET Nat, S # {}
    PROVE  \E n \in S : \A m \in S : n <= m
<1>1. IsWellFoundedOn({r \in Nat \X Nat : r[1] < r[2]}, Nat)
  BY NatLessThanWellFounded DEF OpToRel
<1>2. PICK n \in S : \A m \in S : <<m, n>> \notin {r \in Nat \X Nat : r[1] < r[2]}
  BY <1>1, WFMin
<1>3. ASSUME NEW m \in S PROVE n <= m
  <2>1. <<m, n>> \in Nat \X Nat /\ ~(m < n)
    BY <1>2
  <2>2. QED
    BY <2>1
<1>4. QED
  BY <1>3

\* The walk is long enough for the list, and goes over it in its order.
LEMMA WalkFacts ==
    ASSUME NEW q \in Seq(Thread), NEW first, NEW next, Links(first, next, q)
    PROVE  /\ Walked(first, next) \subseteq Thread
           /\ \A t \in Thread :
                t \in Walked(first, next) <=> \E i \in 1..Len(q) : q[i] = t
<1> DEFINE N == Cardinality(Thread)
           g == [i \in 1..N |-> IF i <= Len(q) THEN q[i] ELSE NULL]
           w == Walk(first, next)
<1>1. /\ Len(q) \in Nat /\ N \in Nat /\ Len(q) <= N
      /\ \A i \in 1..Len(q) : q[i] \in Thread
  <2>1. Len(q) \in Nat /\ q \in [1..Len(q) -> Thread]
    BY LenProperties
  <2>2. q \in Injection(1..Len(q), Thread)
    BY <2>1 DEF Links, Injection, IsInjective
  <2>3. Cardinality(1..Len(q)) = Len(q)
    BY <2>1, FS_Interval
  <2>4. QED
    BY <2>1, <2>2, <2>3, FiniteThreads, FS_Injection, FS_CardinalityType
<1>2. g = [i \in 1..N |-> IF i = 1 THEN first
                         ELSE IF g[i - 1] = NULL THEN NULL ELSE next[g[i - 1]]]
  <2>1. ASSUME NEW i \in 1..N
        PROVE  g[i] = IF i = 1 THEN first
                      ELSE IF g[i - 1] = NULL THEN NULL ELSE next[g[i - 1]]
    <3>1. CASE i = 1
      BY <1>1, <3>1 DEF Links
    <3>2. CASE i # 1 /\ i - 1 \in 1..Len(q)
      <4>1. g[i - 1] = q[i - 1] /\ q[i - 1] # NULL
        BY <1>1, <3>2, DispatchAssumption
      <4>2. next[q[i - 1]] = IF i - 1 = Len(q) THEN NULL ELSE q[(i - 1) + 1]
        BY <3>2 DEF Links
      <4>3. QED
        BY <1>1, <3>2, <4>1, <4>2
    <3>3. CASE i # 1 /\ i - 1 \notin 1..Len(q)
      BY <1>1, <3>3
    <3>4. QED
      BY <3>1, <3>2, <3>3
  <2> HIDE DEF N
  <2>2. QED
    BY <2>1
<1>3. w = [i \in 1..N |-> IF i = 1 THEN first
                         ELSE IF w[i - 1] = NULL THEN NULL ELSE next[w[i - 1]]]
  <2> HIDE DEF g
  <2>1. QED
    BY <1>2 DEF Walk
<1> HIDE DEF N, w
<1>4. \A i \in 1..N : w[i] = g[i]
  <2> HIDE DEF g
  <2> DEFINE S == {i \in 1..N : w[i] # g[i]}
  <2>1. SUFFICES ASSUME S # {} PROVE FALSE
    OBVIOUS
  <2>2. PICK n \in S : \A m \in S : n <= m
    <3>1. S \in SUBSET Nat
      BY <1>1
    <3> HIDE DEF S
    <3>2. QED
      BY <2>1, <3>1, LeastNat
  <2>3. n \in 1..N /\ w[n] # g[n]
    BY <2>2
  <2>4. CASE n = 1
    <3>1. w[n] = first
      BY <1>3, <2>3, <2>4
    <3>2. g[n] = first
      BY <1>2, <2>3, <2>4
    <3>3. QED
      BY <2>3, <3>1, <3>2
  <2>5. CASE n # 1
    <3>1. n - 1 \in 1..N /\ ~(n <= n - 1)
      BY <1>1, <2>3, <2>5
    <3>2. w[n - 1] = g[n - 1]
      BY <2>2, <3>1
    <3>3. w[n] = IF w[n - 1] = NULL THEN NULL ELSE next[w[n - 1]]
      BY <1>3, <2>3, <2>5
    <3>4. g[n] = IF g[n - 1] = NULL THEN NULL ELSE next[g[n - 1]]
      BY <1>2, <2>3, <2>5
    <3>5. QED
      BY <2>3, <3>2, <3>3, <3>4
  <2>6. QED
    BY <2>4, <2>5
<1>5. Walked(first, next) = {w[i] : i \in 1..N} \ {NULL}
  BY DEF Walked, N, w
<1>6. ASSUME NEW i \in 1..N, w[i] # NULL
      PROVE  i \in 1..Len(q) /\ w[i] = q[i]
  BY <1>1, <1>4, <1>6
<1>7. ASSUME NEW t \in Thread, NEW i \in 1..Len(q), q[i] = t
      PROVE  i \in 1..N /\ w[i] = t
  BY <1>1, <1>4, <1>7
<1>8. ASSUME NEW t \in Thread
      PROVE  t \in Walked(first, next) <=> \E i \in 1..Len(q) : q[i] = t
  <2>1. t # NULL
    BY DispatchAssumption
  <2>2. t \in Walked(first, next) <=> \E i \in 1..N : w[i] = t
    BY <1>5, <2>1
  <2>3. ASSUME NEW i \in 1..N, w[i] = t PROVE \E j \in 1..Len(q) : q[j] = t
    BY <1>6, <2>1, <2>3
  <2>4. ASSUME NEW j \in 1..Len(q), q[j] = t PROVE \E i \in 1..N : w[i] = t
    BY <1>7, <2>4
  <2>5. QED
    BY <2>2, <2>3, <2>4
<1>9. Walked(first, next) \subseteq Thread
  BY <1>1, <1>5, <1>6
<1>10. QED
  BY <1>8, <1>9

\* The links from t on are those of a list of t and the threads of q.
PutBefore(t, next, q) ==
    \E r \in Seq(Thread) :
      /\ Links(t, next, r)
      /\ \A u \in Thread : (\E i \in 1..Len(r) : r[i] = u)
                          <=> u = t \/ \E i \in 1..Len(q) : q[i] = u

\* The list with t in front.
LEMMA PutFirst ==
    ASSUME NEW q \in Seq(Thread), NEW first, NEW next, Links(first, next, q),
           NEW t \in Thread, next[t] = first, \A i \in 1..Len(q) : q[i] # t
    PROVE  PutBefore(t, next, q)
<1> DEFINE r == [i \in 1..(Len(q) + 1) |-> IF i = 1 THEN t ELSE q[i - 1]]
<1>1. Len(q) \in Nat /\ \A i \in 1..Len(q) : q[i] \in Thread
  BY LenProperties
<1>2. /\ r \in Seq(Thread) /\ Len(r) = Len(q) + 1 /\ r[1] = t
      /\ \A i \in 1..Len(q) : r[i + 1] = q[i]
      /\ \A i \in 1..Len(r) : i = 1 \/ (i - 1 \in 1..Len(q) /\ r[i] = q[i - 1])
  <2>1. r \in [1..(Len(q) + 1) -> Thread] /\ Len(q) + 1 \in Nat
    BY <1>1
  <2>2. r \in Seq(Thread)
    BY <2>1
  <2>3. Len(r) = Len(q) + 1
    BY <2>1, <2>2, LenProperties
  <2>4. QED
    BY <1>1, <2>2, <2>3
<1> HIDE DEF r
<1>3. Links(t, next, r)
  <2>1. \A i, j \in 1..Len(r) : r[i] = r[j] => i = j
    <3>1. ASSUME NEW i \in 1..Len(r), NEW j \in 1..Len(r), r[i] = r[j] PROVE i = j
      <4>1. CASE i = 1 \/ j = 1
        BY <1>2, <3>1, <4>1
      <4>2. CASE i # 1 /\ j # 1
        <5>1. i - 1 \in 1..Len(q) /\ j - 1 \in 1..Len(q) /\ q[i - 1] = q[j - 1]
          BY <1>2, <3>1, <4>2
        <5>2. i - 1 = j - 1
          BY <5>1 DEF Links
        <5>3. QED
          BY <5>2
      <4>3. QED
        BY <4>1, <4>2
    <3>2. QED
      BY <3>1
  <2>2. ASSUME NEW i \in 1..Len(r)
        PROVE  next[r[i]] = IF i = Len(r) THEN NULL ELSE r[i + 1]
    <3>1. CASE i = 1
      BY <1>1, <1>2, <3>1 DEF Links
    <3>2. CASE i # 1
      <4>1. i - 1 \in 1..Len(q) /\ r[i] = q[i - 1]
        BY <1>2, <3>2
      <4>2. next[q[i - 1]] = IF i - 1 = Len(q) THEN NULL ELSE q[(i - 1) + 1]
        BY <4>1 DEF Links
      <4>3. QED
        BY <1>1, <1>2, <4>1, <4>2
    <3>3. QED
      BY <3>1, <3>2
  <2>3. QED
    BY <1>1, <1>2, <2>1, <2>2 DEF Links
<1>4. ASSUME NEW u \in Thread
      PROVE  (\E i \in 1..Len(r) : r[i] = u)
                <=> u = t \/ \E i \in 1..Len(q) : q[i] = u
  <2>1. ASSUME NEW i \in 1..Len(r), r[i] = u
        PROVE  u = t \/ \E j \in 1..Len(q) : q[j] = u
    BY <1>2, <2>1
  <2>2. ASSUME NEW i \in 1..Len(q), q[i] = u PROVE \E j \in 1..Len(r) : r[j] = u
    <3>1. i + 1 \in 1..Len(r) /\ r[i + 1] = u
      BY <1>1, <1>2, <2>2
    <3>2. QED
      BY <3>1
  <2>3. u = t => \E j \in 1..Len(r) : r[j] = u
    <3>1. 1 \in 1..Len(r)
      BY <1>1, <1>2
    <3>2. QED
      BY <1>2, <3>1
  <2>4. QED
    BY <2>1, <2>2, <2>3
<1>5. QED
  BY <1>2, <1>3, <1>4 DEF PutBefore

\* What points to the k-th thread of q, first or a link, is moved on.
Skips(first, next, q, k, first2, next2) ==
    /\ first2 = IF k = 1 THEN next[q[k]] ELSE first
    /\ \A i \in 1..Len(q) : i # k =>
          next2[q[i]] = IF i + 1 = k THEN next[q[k]] ELSE next[q[i]]

\* Then the list goes on without that thread.
LEMMA TakeOut ==
    ASSUME NEW q \in Seq(Thread), NEW first, NEW next, Links(first, next, q),
           NEW k \in 1..Len(q), NEW first2, NEW next2,
           Skips(first, next, q, k, first2, next2)
    PROVE  \E r \in Seq(Thread) :
             /\ Links(first2, next2, r)
             /\ \A u \in Thread : (\E i \in 1..Len(r) : r[i] = u)
                                 <=> u # q[k] /\ \E i \in 1..Len(q) : q[i] = u
<1> DEFINE r == [i \in 1..(Len(q) - 1) |-> IF i < k THEN q[i] ELSE q[i + 1]]
           at(i) == IF i < k THEN i ELSE i + 1
<1>1. /\ Len(q) \in Nat /\ k \in Nat /\ 1 <= k /\ k <= Len(q)
      /\ \A i \in 1..Len(q) : q[i] \in Thread
      /\ \A i, j \in 1..Len(q) : q[i] = q[j] => i = j
  BY LenProperties DEF Links
<1>2. r \in Seq(Thread) /\ Len(r) = Len(q) - 1
  <2>1. r \in [1..(Len(q) - 1) -> Thread] /\ Len(q) - 1 \in Nat
    BY <1>1
  <2>2. r \in Seq(Thread)
    BY <2>1
  <2>3. QED
    BY <2>1, <2>2, LenProperties
<1>3. \A i \in 1..Len(r) : /\ r[i] = q[at(i)] /\ at(i) \in 1..Len(q) /\ at(i) # k
                          /\ i \in Nat /\ i <= Len(q) - 1
  BY <1>1, <1>2
<1>4. \A j \in 1..Len(q) : j # k => \E i \in 1..Len(r) : at(i) = j
  <2>1. ASSUME NEW j \in 1..Len(q), j < k PROVE j \in 1..Len(r) /\ at(j) = j
    BY <1>1, <1>2, <2>1
  <2>2. ASSUME NEW j \in 1..Len(q), j > k PROVE j - 1 \in 1..Len(r) /\ at(j - 1) = j
    BY <1>1, <1>2, <2>2
  <2> HIDE DEF at, r
  <2>3. \A j \in 1..Len(q) : j # k => j < k \/ j > k
    BY <1>1
  <2>4. QED
    BY <2>1, <2>2, <2>3
<1>5. \A i, j \in 1..Len(r) : at(i) = at(j) => i = j
  BY <1>1, <1>3
<1>6. \A i \in 1..Len(r) :
         next2[q[at(i)]] = IF i = Len(r) THEN NULL ELSE q[at(i + 1)]
  <2> SUFFICES ASSUME NEW i \in 1..Len(r)
               PROVE  next2[q[at(i)]] = IF i = Len(r) THEN NULL ELSE q[at(i + 1)]
    OBVIOUS
  <2>1. \A j \in 1..Len(q) : next[q[j]] = IF j = Len(q) THEN NULL ELSE q[j + 1]
    BY DEF Links
  <2>2. next2[q[at(i)]] = IF at(i) + 1 = k THEN next[q[k]] ELSE next[q[at(i)]]
    BY <1>3 DEF Skips
  <2> HIDE DEF r
  <2>3. CASE i + 1 = k
    BY <1>1, <1>2, <1>3, <2>1, <2>2, <2>3
  <2>4. CASE i + 1 # k
    BY <1>1, <1>2, <1>3, <2>1, <2>2, <2>4
  <2>5. QED
    BY <2>3, <2>4
<1>7. first2 = IF Len(r) = 0 THEN NULL ELSE q[at(1)]
  <2> HIDE DEF r
  <2>1. /\ first = q[1]
        /\ next[q[k]] = IF k = Len(q) THEN NULL ELSE q[k + 1]
        /\ first2 = IF k = 1 THEN next[q[k]] ELSE first
    BY <1>1 DEF Links, Skips
  <2>2. QED
    BY <1>1, <1>2, <2>1
<1> HIDE DEF at, r
<1>8. Links(first2, next2, r)
  <2>1. \A i, j \in 1..Len(r) : r[i] = r[j] => i = j
    BY <1>1, <1>3, <1>5
  <2>2. Len(r) \in Nat /\ (Len(r) # 0 => 1 \in 1..Len(r))
    BY <1>1, <1>2
  <2>3. first2 = IF Len(r) = 0 THEN NULL ELSE r[1]
    BY <1>3, <1>7, <2>2
  <2>4. ASSUME NEW i \in 1..Len(r)
        PROVE  next2[r[i]] = IF i = Len(r) THEN NULL ELSE r[i + 1]
    <3>1. i # Len(r) => i + 1 \in 1..Len(r)
      BY <2>2
    <3>2. QED
      BY <1>3, <1>6, <3>1
  <2>5. QED
    BY <2>1, <2>3, <2>4 DEF Links
<1>9. ASSUME NEW u \in Thread
      PROVE  (\E i \in 1..Len(r) : r[i] = u)
                <=> u # q[k] /\ \E i \in 1..Len(q) : q[i] = u
  <2>1. ASSUME NEW i \in 1..Len(r), r[i] = u
        PROVE  u # q[k] /\ \E j \in 1..Len(q) : q[j] = u
    BY <1>1, <1>3, <2>1
  <2>2. ASSUME NEW j \in 1..Len(q), q[j] = u, u # q[k]
        PROVE  \E i \in 1..Len(r) : r[i] = u
    <3>1. PICK i \in 1..Len(r) : at(i) = j
      BY <1>4, <2>2
    <3>2. QED
      BY <1>3, <2>2, <3>1
  <2>3. QED
    BY <2>1, <2>2
<1>10. QED
  BY <1>2, <1>8, <1>9

-----------------------------------------------------------------------------

LEMMA ListInit == Init => ListInv
<1> SUFFICES ASSUME Init PROVE ListInv
  OBVIOUS
<1>1. /\ Boot \in Thread /\ firstThread = Boot /\ nextIn[Boot] = NULL
      /\ \A t \in Thread : status[t] # "NEW" <=> t = Boot
  BY ThreadLifeAssumption DEF Init
<1> DEFINE q == <<Boot>>
<1>2. /\ q \in Seq(Thread) /\ Len(q) = 1 /\ q[1] = Boot
      /\ \A i \in 1..Len(q) : i = 1
  BY <1>1
<1> HIDE DEF q
<1>3. Links(firstThread, nextIn, q)
  BY <1>1, <1>2 DEF Links
<1>4. \A t \in Thread : (\E i \in 1..Len(q) : q[i] = t) <=> t = Boot
  <2>1. 1 \in 1..Len(q)
    BY <1>2
  <2>2. QED
    BY <1>2, <2>1
<1>5. QED
  BY <1>1, <1>2, <1>3, <1>4 DEF ListInv

LEMMA SameList ==
    ASSUME ListInv, firstThread' = firstThread, nextIn' = nextIn,
           \A u \in Thread : status'[u] = "NEW" <=> status[u] = "NEW"
    PROVE  ListInv'
<1>1. PICK q \in Seq(Thread) :
        /\ Links(firstThread, nextIn, q)
        /\ \A t \in Thread : status[t] # "NEW" <=> \E i \in 1..Len(q) : q[i] = t
  BY DEF ListInv
<1>2. Links(firstThread, nextIn, q)'
  BY <1>1
<1>3. \A t \in Thread : status'[t] # "NEW" <=> \E i \in 1..Len(q) : q[i] = t
  BY <1>1
<1>4. QED
  BY <1>2, <1>3 DEF ListInv

LEMMA CreateSlotKeepsList ==
    ASSUME LifeInv, ListInv, NEW t \in Thread, CreateSlot(t) PROVE ListInv'
<1>1. PICK q \in Seq(Thread) :
        /\ Links(firstThread, nextIn, q)
        /\ \A u \in Thread : status[u] # "NEW" <=> \E i \in 1..Len(q) : q[i] = u
  BY DEF ListInv
<1>2. PICK n \in Thread \ slots : nextIn' = [nextIn EXCEPT ![n] = firstThread]
  BY DEF CreateSlot
<1>3. UNCHANGED <<status, firstThread>>
  BY DEF CreateSlot, dispatchVars
<1>4. \A i \in 1..Len(q) : q[i] \in Thread /\ q[i] # n
  <2>1. status[n] = "NEW"
    BY <1>2 DEF LifeInv, FreeSlots
  <2>2. QED
    BY <1>1, <1>2, <2>1, ElementOfSeq
<1>5. \A i \in 1..Len(q) : nextIn'[q[i]] = nextIn[q[i]]
  BY <1>2, <1>4 DEF LifeInv, LifeTypeOK
<1>6. Links(firstThread', nextIn', q)
  BY <1>1, <1>3, <1>5 DEF Links
<1>7. QED
  BY <1>1, <1>3, <1>6 DEF ListInv

LEMMA CreatePublishKeepsList ==
    ASSUME LifeInv, ListInv, NEW t \in Thread, CreatePublish(t) PROVE ListInv'
<1>1. /\ current = t /\ pc[t] = "publish" /\ firstThread' = child[t]
      /\ status' = Woken(status, {child[t]}) /\ nextIn' = nextIn
  BY DEF CreatePublish, At
<1>2. PICK n \in Thread : child[t] = n /\ status[n] = "NEW" /\ nextIn[n] = firstThread
  BY <1>1, WhileCreating
<1>3. PICK q \in Seq(Thread) :
        /\ Links(firstThread, nextIn, q)
        /\ \A u \in Thread : status[u] # "NEW" <=> \E i \in 1..Len(q) : q[i] = u
  BY DEF ListInv
<1>4. \A i \in 1..Len(q) : q[i] # n
  BY <1>2, <1>3
<1>5. PICK r \in Seq(Thread) :
        /\ Links(n, nextIn, r)
        /\ \A u \in Thread : (\E i \in 1..Len(r) : r[i] = u)
                            <=> u = n \/ \E i \in 1..Len(q) : q[i] = u
  <2> DEFINE f == firstThread
             g == nextIn
  <2>1. Links(f, g, q) /\ g[n] = f
    BY <1>2, <1>3
  <2> HIDE DEF f, g
  <2>2. PutBefore(n, g, q)
    BY <1>4, <2>1, PutFirst
  <2>3. QED
    BY <2>2 DEF g, PutBefore
<1>6. \A u \in Thread : status'[u] # "NEW" <=> u = n \/ status[u] # "NEW"
  BY <1>1, <1>2 DEF Woken
<1>7. Links(firstThread', nextIn', r)
  BY <1>1, <1>2, <1>5
<1>8. \A u \in Thread : status'[u] # "NEW" <=> \E i \in 1..Len(r) : r[i] = u
  BY <1>3, <1>5, <1>6
<1>9. QED
  BY <1>7, <1>8 DEF ListInv

LEMMA EndKeepsList ==
    ASSUME LifeInv, ListInv, NEW t \in Thread, End(t) PROVE ListInv'
<1> DEFINE st == [status EXCEPT ![t] = "NEW"]
<1>1. current = t /\ SwitchAny(st) /\ Unlist(t)
  BY DEF End, At
<1>2. LifeTypeOK
  BY DEF LifeInv
<1>3. PICK q \in Seq(Thread) :
        /\ Links(firstThread, nextIn, q)
        /\ \A u \in Thread : status[u] # "NEW" <=> \E i \in 1..Len(q) : q[i] = u
  BY DEF ListInv
<1>4. \A u \in Thread : status'[u] # "NEW" <=> u # t /\ status[u] # "NEW"
  <2>1. /\ \A u \in Thread : st[u] = IF u = t THEN "NEW" ELSE status[u]
        /\ st \in [Thread -> Status]
    BY <1>2 DEF LifeTypeOK, DispatchTypeOK, Status
  <2> HIDE DEF st
  <2>2. \A u \in Thread : status'[u] = "NEW" <=> st[u] = "NEW"
    BY <1>1, <2>1 DEF SwitchAny, ReadyIn
  <2>3. QED
    BY <2>1, <2>2
<1>5. PICK k \in 1..Len(q) : q[k] = t
  <2>1. status[t] # "NEW"
    BY <1>1, <1>2 DEF LifeTypeOK, DispatchTypeOK
  <2>2. QED
    BY <1>3, <2>1
<1>6. /\ Len(q) \in Nat /\ k \in Nat /\ 1 \in 1..Len(q)
      /\ \A i \in 1..Len(q) : q[i] \in Thread
      /\ \A i, j \in 1..Len(q) : q[i] = q[j] => i = j
      /\ firstThread = q[1]
      /\ \A i \in 1..Len(q) : nextIn[q[i]] = IF i = Len(q) THEN NULL ELSE q[i + 1]
  BY <1>3, <1>5, LenProperties, ElementOfSeq DEF Links
<1>7. firstThread = t <=> k = 1
  BY <1>5, <1>6
<1>8. firstThread' = IF k = 1 THEN nextIn[q[k]] ELSE firstThread
  BY <1>1, <1>5, <1>7 DEF Unlist
<1>9. \A i \in 1..Len(q) : i # k =>
        nextIn'[q[i]] = IF i + 1 = k THEN nextIn[q[k]] ELSE nextIn[q[i]]
  <2> SUFFICES ASSUME NEW i \in 1..Len(q), i # k
               PROVE  nextIn'[q[i]] = IF i + 1 = k THEN nextIn[q[k]] ELSE nextIn[q[i]]
    OBVIOUS
  <2>1. nextIn[q[i]] = t <=> i + 1 = k
    <3>1. t # NULL
      BY DispatchAssumption
    <3>2. i # Len(q) => i + 1 \in 1..Len(q)
      BY <1>6
    <3>3. QED
      BY <1>5, <1>6, <3>1, <3>2
  <2>2. q[i] \in Listed
    BY <1>3, <1>6, WalkFacts, ListedIsWalked
  <2>3. CASE firstThread = t
    <3>1. nextIn' = nextIn
      BY <1>1, <2>3 DEF Unlist
    <3>2. i + 1 # k
      BY <1>6, <1>7, <2>3
    <3>3. QED
      BY <3>1, <3>2
  <2>4. CASE firstThread # t
    <3>1. nextIn' = [p \in Thread |-> IF p \in Listed /\ nextIn[p] = t
                                      THEN nextIn[t] ELSE nextIn[p]]
      BY <1>1, <2>4 DEF Unlist
    <3>2. nextIn'[q[i]] = IF nextIn[q[i]] = t THEN nextIn[t] ELSE nextIn[q[i]]
      BY <1>6, <2>2, <3>1
    <3>3. QED
      BY <1>5, <2>1, <3>2
  <2>5. QED
    BY <2>3, <2>4
<1>10. PICK r \in Seq(Thread) :
        /\ Links(firstThread', nextIn', r)
        /\ \A u \in Thread : (\E i \in 1..Len(r) : r[i] = u)
                            <=> u # q[k] /\ \E i \in 1..Len(q) : q[i] = u
  <2> DEFINE f == firstThread
             g == nextIn
             f2 == firstThread'
             n2 == nextIn'
  <2>1. Links(f, g, q) /\ Skips(f, g, q, k, f2, n2)
    BY <1>3, <1>8, <1>9 DEF Skips
  <2> HIDE DEF f, g, f2, n2
  <2>2. \E r \in Seq(Thread) :
        /\ Links(f2, n2, r)
        /\ \A u \in Thread : (\E i \in 1..Len(r) : r[i] = u)
                            <=> u # q[k] /\ \E i \in 1..Len(q) : q[i] = u
    BY <2>1, TakeOut
  <2>3. QED
    BY <2>2 DEF f2, n2
<1>11. \A u \in Thread : status'[u] # "NEW" <=> \E i \in 1..Len(r) : r[i] = u
  BY <1>3, <1>4, <1>5, <1>10
<1>12. QED
  BY <1>10, <1>11 DEF ListInv

LEMMA ListStep == LifeInv /\ ListInv /\ [Next]_vars => ListInv'
<1> SUFFICES ASSUME LifeInv, ListInv, [Next]_vars PROVE ListInv'
  OBVIOUS
<1>1. ASSUME UNCHANGED <<status, firstThread, nextIn>> PROVE ListInv'
  BY <1>1, SameList
<1>2. ASSUME NEW t \in Thread, \/ CreateStack(t) \/ CreateFails(t) \/ CreateRegisters(t)
                               \/ CreateLow(t) \/ CreateHigh(t) \/ EndFaults(t)
      PROVE  ListInv'
  BY <1>1, <1>2 DEF CreateStack, CreateFails, CreateRegisters, CreateLow, CreateHigh,
     EndFaults, dispatchVars
<1>3. ASSUME NEW t \in Thread, CreateSlot(t) PROVE ListInv'
  BY <1>3, CreateSlotKeepsList
<1>4. ASSUME NEW t \in Thread, CreatePublish(t) PROVE ListInv'
  BY <1>4, CreatePublishKeepsList
<1>5. ASSUME NEW t \in Thread, End(t) PROVE ListInv'
  BY <1>5, EndKeepsList
<1>6. ASSUME PreemptSwitch, UNCHANGED lifeVars PROVE ListInv'
  <2>1. \A u \in Thread : status'[u] = "NEW" <=> status[u] = "NEW"
    BY <1>6, PreemptKeepsNew DEF LifeInv, LifeTypeOK
  <2>2. firstThread' = firstThread /\ nextIn' = nextIn
    BY <1>6 DEF lifeVars
  <2>3. QED
    BY <2>1, <2>2, SameList
<1>7. ASSUME (\E t \in Thread : Yield(t)) \/ IdleTick PROVE ListInv'
  BY <1>6, <1>7 DEF Yield, IdleTick
<1>8. CASE UNCHANGED vars \/ Reset
  BY <1>1, <1>8 DEF Reset, vars, lifeVars
<1>9. QED
  BY <1>2, <1>3, <1>4, <1>5, <1>7, <1>8 DEF Next

\* The list that sched_thread_destroy walks has the threads that were made
\* ready and have not ended, all of them and each once: also when Boot ends,
\* from wherever in the list it is by then, and when its record is used again.
THEOREM ListOfLiving == Spec => []ListExact
<1>1. LifeInv /\ ListInv => ListExact
  <2> SUFFICES ASSUME LifeInv, ListInv PROVE Listed = {t \in slots : status[t] # "NEW"}
    BY DEF ListExact
  <2>1. PICK q \in Seq(Thread) :
          /\ Links(firstThread, nextIn, q)
          /\ \A t \in Thread : status[t] # "NEW" <=> \E i \in 1..Len(q) : q[i] = t
    BY DEF ListInv
  <2>2. /\ Listed \subseteq Thread
        /\ \A t \in Thread : t \in Listed <=> \E i \in 1..Len(q) : q[i] = t
    BY <2>1, WalkFacts, ListedIsWalked
  <2>3. slots \subseteq Thread /\ \A t \in Thread : status[t] # "NEW" => t \in slots
    BY DEF LifeInv, LifeTypeOK, FreeSlots
  <2>4. QED
    BY <2>1, <2>2, <2>3
<1>2. QED
  BY <1>1, ListInit, ListStep, LifeInit, LifeStep, PTL DEF Spec
=============================================================================
