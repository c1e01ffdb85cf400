---------------------------- MODULE MemoryProofs ----------------------------
(***************************************************************************)
(* Proofs about modules FrameAlloc and GlobalPages, for any memory map,    *)
(* sizes, requests and threads.  The two share lemmas about numbers and    *)
(* finite sets and nothing else.                                           *)
(*                                                                         *)
(* FrameAlloc.  Behind the page that is mapped of each stack there is a    *)
(* list of pages (StackPages) that the links lead through, from the one in *)
(* the kernel's image to the one that is mapped; all of them are full but  *)
(* the last.  What IsStack says of a stack is the set of its frames, and a *)
(* push adds one and a pop takes one away.                                 *)
(*                                                                         *)
(* GlobalPages.  The two lists of free regions hold the same regions, with *)
(* gaps between them and the largest first (VirtOK), and every operation   *)
(* of VirtRegions keeps that and adds or takes exactly its pages.  Pages   *)
(* and frames are each split between those who may have them (PagesSplit,  *)
(* FramesSplit), and a step of a thread moves some of them from one owner  *)
(* to another.  Where the allocators below give what they do not have it   *)
(* stops, and nothing is claimed.                                          *)
(***************************************************************************)
EXTENDS FrameAlloc, GlobalPages, FiniteSetTheorems, SequenceTheorems,
        WellFoundedInduction, TLAPS

Frames == 0..(FrameEnd - 1)
PageType == [next : 0..FrameEnd, frames : [1..StackFrames -> 0..FrameEnd]]
MemType == [0..FrameEnd -> PageType]

\* Where the page in the kernel's image links to.
LastLink(c) == IF c = "low" THEN 0 ELSE FRAME_NULL

\* pg are the pages of a stack of class c, the m-th of which is mapped.
StackPages(c, page, mem, m, pg) ==
    /\ m \in Nat /\ pg \in [0..m -> Frames]
    /\ pg[0] = KernelPage[c] /\ pg[m] = page
    /\ mem[KernelPage[c]].next = LastLink(c)
    /\ \A i \in 1..m : mem[pg[i]].next = pg[i - 1]
    /\ \A i, j \in 0..m : pg[i] = pg[j] => i = j

Used(top, m, i) == IF i = m THEN top ELSE StackFrames

\* The entries in use are those of different frames, none of them a page.
Entries(top, mem, m, pg) ==
    /\ \A i, k \in 0..m : \A j \in 1..Used(top, m, i), l \in 1..Used(top, m, k) :
         mem[pg[i]].frames[j] = mem[pg[k]].frames[l] => i = k /\ j = l
    /\ \A i, k \in 0..m : \A j \in 1..Used(top, m, i) : mem[pg[i]].frames[j] # pg[k]

\* f is a page of the stack, but not the kernel's, or is written in one.
Stacked(top, mem, m, pg, f) ==
    \/ \E i \in 1..m : f = pg[i]
    \/ \E i \in 0..m : \E j \in 1..Used(top, m, i) : f = mem[pg[i]].frames[j]

HasPages(c, page, top, mem, S, m, pg) ==
    /\ StackPages(c, page, mem, m, pg)
    /\ Entries(top, mem, m, pg)
    /\ \A f : f \in S <=> Stacked(top, mem, m, pg, f)

\* The stack of class c has the frames of S.
IsStack(c, page, top, mem, S) ==
    /\ mem \in MemType /\ top \in 0..StackFrames
    /\ S \subseteq Frames
    /\ \E m, pg : HasPages(c, page, top, mem, S, m, pg)

-----------------------------------------------------------------------------
(* Stacks.                                                                 *)

LEMMA Constants ==
    /\ {LowEnd, HighBegin, FrameEnd} \subseteq Nat /\ StackFrames \in Nat \ {0}
    /\ FrameEnd \notin Frames /\ 0 \in Frames /\ FrameEnd \in 0..FrameEnd
    /\ Frames \subseteq 0..FrameEnd
    /\ \A c \in Class : KernelPage[c] \in Frames /\ ClassOf(KernelPage[c]) = "free"
BY FrameAllocAssumption DEF Frames, ClassOf, Class

\* Changes elsewhere do not matter.
LEMMA StackSame ==
    ASSUME NEW c \in Class, NEW page, NEW top, NEW mem, NEW S,
           IsStack(c, page, top, mem, S),
           NEW mem2 \in MemType, \A f \in S \cup {KernelPage[c]} : mem2[f] = mem[f]
    PROVE  IsStack(c, page, top, mem2, S)
<1>1. PICK m, pg : HasPages(c, page, top, mem, S, m, pg)
  BY DEF IsStack
<1>2. \A i \in 0..m : mem2[pg[i]] = mem[pg[i]]
  BY <1>1 DEF HasPages, StackPages, Stacked
<1>3. StackPages(c, page, mem2, m, pg)
  BY <1>1, <1>2 DEF HasPages, StackPages
<1>4. Entries(top, mem2, m, pg)
  BY <1>1, <1>2 DEF HasPages, Entries
<1>5. ASSUME NEW f PROVE f \in S <=> Stacked(top, mem2, m, pg, f)
  BY <1>1, <1>2 DEF HasPages, Stacked
<1>6. QED
  BY <1>3, <1>4, <1>5 DEF IsStack, HasPages

\* A frame is written in the page that is mapped.
LEMMA PushEntry ==
    ASSUME NEW c \in Class, NEW page, NEW top, NEW mem, NEW S,
           IsStack(c, page, top, mem, S), top # StackFrames,
           NEW f \in Frames, f \notin S, f # KernelPage[c],
           NEW mem2 \in MemType, \A g \in DOMAIN mem \ {page} : mem2[g] = mem[g],
           mem2[page].next = mem[page].next, mem2[page].frames[top + 1] = f,
           \A j \in 1..top : mem2[page].frames[j] = mem[page].frames[j]
    PROVE  IsStack(c, page, top + 1, mem2, S \cup {f})
<1>1. PICK m, pg : HasPages(c, page, top, mem, S, m, pg)
  BY DEF IsStack
<1>2. /\ top \in 0..StackFrames /\ top + 1 \in 0..StackFrames /\ m \in Nat
      /\ pg \in [0..m -> Frames] /\ pg[m] = page /\ StackFrames \in Nat
      /\ \A i \in 0..m : pg[i] \in DOMAIN mem /\ (pg[i] = page => i = m)
  <2>1. DOMAIN mem = 0..FrameEnd /\ Frames \subseteq 0..FrameEnd
    BY Constants DEF IsStack, MemType
  <2>2. /\ m \in Nat /\ pg \in [0..m -> Frames] /\ pg[m] = page /\ m \in 0..m
        /\ \A i, j \in 0..m : pg[i] = pg[j] => i = j
    BY <1>1 DEF HasPages, StackPages
  <2>3. top \in 0..StackFrames /\ StackFrames \in Nat
    BY Constants DEF IsStack
  <2>4. top + 1 \in 0..StackFrames
    BY <2>3
  <2>5. QED
    BY <2>1, <2>2, <2>3, <2>4
<1>3. \A i \in 0..m : mem2[pg[i]].next = mem[pg[i]].next
  BY <1>2
<1>4. \A i \in 0..m : \A j \in 1..Used(top, m, i) :
        /\ mem2[pg[i]].frames[j] = mem[pg[i]].frames[j]
        /\ j \in 1..Used(top + 1, m, i)
  BY <1>2 DEF Used
<1>5. \A i \in 0..m : \A j \in 1..Used(top + 1, m, i) :
        j \notin 1..Used(top, m, i) => i = m /\ j = top + 1
  BY <1>2 DEF Used
<1>6. \A i \in 0..m : pg[i] # f
  BY <1>1, <1>2 DEF HasPages, StackPages, Stacked
<1>7. \A i \in 0..m : \A j \in 1..Used(top, m, i) : mem[pg[i]].frames[j] # f
  BY <1>1 DEF HasPages, Stacked
<1>8. StackPages(c, page, mem2, m, pg)
  BY <1>1, <1>2, <1>3 DEF HasPages, StackPages
<1>9. Entries(top + 1, mem2, m, pg)
  <2>1. ASSUME NEW i \in 0..m, NEW k \in 0..m,
               NEW j \in 1..Used(top + 1, m, i), NEW l \in 1..Used(top + 1, m, k),
               mem2[pg[i]].frames[j] = mem2[pg[k]].frames[l]
        PROVE  i = k /\ j = l
    <3>1. CASE j \in 1..Used(top, m, i) /\ l \in 1..Used(top, m, k)
      BY <1>1, <1>4, <2>1, <3>1 DEF HasPages, Entries
    <3>2. CASE j \in 1..Used(top, m, i) /\ l \notin 1..Used(top, m, k)
      BY <1>2, <1>4, <1>5, <1>7, <2>1, <3>2
    <3>3. CASE j \notin 1..Used(top, m, i) /\ l \in 1..Used(top, m, k)
      BY <1>2, <1>4, <1>5, <1>7, <2>1, <3>3
    <3>4. CASE j \notin 1..Used(top, m, i) /\ l \notin 1..Used(top, m, k)
      BY <1>5, <3>4
    <3>5. QED
      BY <3>1, <3>2, <3>3, <3>4
  <2>2. ASSUME NEW i \in 0..m, NEW k \in 0..m, NEW j \in 1..Used(top + 1, m, i)
        PROVE  mem2[pg[i]].frames[j] # pg[k]
    BY <1>1, <1>2, <1>4, <1>5, <1>6 DEF HasPages, Entries
  <2>3. QED
    BY <2>1, <2>2 DEF Entries
<1>10. ASSUME NEW g PROVE g \in S \cup {f} <=> Stacked(top + 1, mem2, m, pg, g)
  <2>1. ASSUME g \in S PROVE Stacked(top + 1, mem2, m, pg, g)
    BY <1>1, <1>4, <2>1 DEF HasPages, Stacked
  <2>2. ASSUME g = f PROVE Stacked(top + 1, mem2, m, pg, g)
    <3>1. m \in 0..m /\ top + 1 \in 1..Used(top + 1, m, m)
      BY <1>2 DEF Used
    <3>2. QED
      BY <1>2, <2>2, <3>1 DEF Stacked
  <2>3. ASSUME Stacked(top + 1, mem2, m, pg, g) PROVE g \in S \cup {f}
    <3>1. CASE \E i \in 1..m : g = pg[i]
      BY <1>1, <3>1 DEF HasPages, Stacked
    <3>2. ASSUME NEW i \in 0..m, NEW j \in 1..Used(top + 1, m, i),
                 g = mem2[pg[i]].frames[j]
          PROVE  g \in S \cup {f}
      <4>1. CASE j \in 1..Used(top, m, i)
        BY <1>1, <1>4, <3>2, <4>1 DEF HasPages, Stacked
      <4>2. CASE j \notin 1..Used(top, m, i)
        BY <1>2, <1>5, <3>2, <4>2
      <4>3. QED
        BY <4>1, <4>2
    <3>3. QED
      BY <2>3, <3>1, <3>2 DEF Stacked
  <2>4. QED
    BY <2>1, <2>2, <2>3
<1>11. QED
  BY <1>2, <1>8, <1>9, <1>10 DEF IsStack, HasPages

\* A full stack has a frame for its next page.
LEMMA PushPage ==
    ASSUME NEW c \in Class, NEW page, NEW mem, NEW S,
           IsStack(c, page, StackFrames, mem, S),
           NEW f \in Frames, f \notin S, f # KernelPage[c],
           NEW mem2 \in MemType, \A g \in DOMAIN mem \ {f} : mem2[g] = mem[g],
           mem2[f].next = page
    PROVE  IsStack(c, f, 0, mem2, S \cup {f})
<1>1. PICK m, pg : HasPages(c, page, StackFrames, mem, S, m, pg)
  BY DEF IsStack
<1> DEFINE pg2 == [i \in 0..(m + 1) |-> IF i = m + 1 THEN f ELSE pg[i]]
<1>2. /\ m \in Nat /\ m + 1 \in Nat /\ pg \in [0..m -> Frames] /\ pg[m] = page
      /\ \A i, j \in 0..m : pg[i] = pg[j] => i = j
      /\ pg[0] = KernelPage[c] /\ mem[KernelPage[c]].next = LastLink(c)
      /\ \A i \in 1..m : mem[pg[i]].next = pg[i - 1]
      /\ StackFrames \in Nat
  BY <1>1, Constants DEF HasPages, StackPages
<1>3. \A i \in 0..m : pg[i] # f
  BY <1>1, <1>2 DEF HasPages, Stacked
<1>4. \A i \in 0..m : mem2[pg[i]] = mem[pg[i]]
  BY <1>2, <1>3, Constants DEF IsStack, MemType
<1>5. /\ pg2 \in [0..(m + 1) -> Frames] /\ pg2[m + 1] = f
      /\ \A i \in 0..m : i \in 0..(m + 1) /\ pg2[i] = pg[i] /\ i # m + 1
      /\ \A i \in 0..(m + 1) : i # m + 1 => i \in 0..m
  BY <1>2
<1> HIDE DEF pg2
<1>6. StackPages(c, f, mem2, m + 1, pg2)
  <2>1. pg2[0] = KernelPage[c] /\ mem2[KernelPage[c]].next = LastLink(c)
    <3>1. 0 \in 0..m
      BY <1>2
    <3>2. QED
      BY <1>2, <1>4, <1>5, <3>1
  <2>2. ASSUME NEW i \in 1..(m + 1) PROVE mem2[pg2[i]].next = pg2[i - 1]
    <3>1. CASE i = m + 1
      <4>1. i - 1 = m /\ m \in 0..m
        BY <1>2, <3>1
      <4>2. QED
        BY <1>2, <1>5, <3>1, <4>1
    <3>2. CASE i # m + 1
      <4>1. i \in 1..m /\ i \in 0..m /\ i - 1 \in 0..m
        BY <1>2, <3>2
      <4>2. QED
        BY <1>2, <1>4, <1>5, <4>1
    <3>3. QED
      BY <3>1, <3>2
  <2>3. ASSUME NEW i \in 0..(m + 1), NEW j \in 0..(m + 1), pg2[i] = pg2[j]
        PROVE  i = j
    BY <1>2, <1>3, <1>5, <2>3
  <2>4. QED
    BY <1>2, <1>5, <2>1, <2>2, <2>3 DEF StackPages
<1>7. /\ Used(0, m + 1, m + 1) = 0
      /\ \A i \in 0..m : Used(0, m + 1, i) = Used(StackFrames, m, i)
  BY <1>5 DEF Used
<1>8. \A i \in 0..(m + 1) : \A j \in 1..Used(0, m + 1, i) :
        i \in 0..m /\ mem2[pg2[i]].frames[j] = mem[pg[i]].frames[j]
        /\ j \in 1..Used(StackFrames, m, i)
  <2>1. \A i \in 0..(m + 1) : \A j \in 1..Used(0, m + 1, i) : i # m + 1
    BY <1>7
  <2>2. QED
    BY <1>4, <1>5, <1>7, <2>1
<1>9. Entries(0, mem2, m + 1, pg2)
  <2>1. ASSUME NEW i \in 0..(m + 1), NEW k \in 0..(m + 1),
               NEW j \in 1..Used(0, m + 1, i), NEW l \in 1..Used(0, m + 1, k),
               mem2[pg2[i]].frames[j] = mem2[pg2[k]].frames[l]
        PROVE  i = k /\ j = l
    BY <1>1, <1>8, <2>1 DEF HasPages, Entries
  <2>2. ASSUME NEW i \in 0..(m + 1), NEW k \in 0..(m + 1),
               NEW j \in 1..Used(0, m + 1, i)
        PROVE  mem2[pg2[i]].frames[j] # pg2[k]
    <3>1. CASE k = m + 1
      <4>1. mem[pg[i]].frames[j] \in S
        BY <1>1, <1>8 DEF HasPages, Stacked
      <4>2. QED
        BY <1>5, <1>8, <3>1, <4>1
    <3>2. CASE k # m + 1
      BY <1>1, <1>5, <1>8, <3>2 DEF HasPages, Entries
    <3>3. QED
      BY <3>1, <3>2
  <2>3. QED
    BY <2>1, <2>2 DEF Entries
<1>10. ASSUME NEW g PROVE g \in S \cup {f} <=> Stacked(0, mem2, m + 1, pg2, g)
  <2>1. ASSUME g \in S PROVE Stacked(0, mem2, m + 1, pg2, g)
    <3>1. CASE \E i \in 1..m : g = pg[i]
      <4>1. PICK i \in 1..m : g = pg[i]
        BY <3>1
      <4>2. i \in 1..(m + 1) /\ pg2[i] = pg[i]
        BY <1>2, <1>5
      <4>3. QED
        BY <4>1, <4>2 DEF Stacked
    <3>2. ASSUME NEW i \in 0..m, NEW j \in 1..Used(StackFrames, m, i),
                 g = mem[pg[i]].frames[j]
          PROVE  Stacked(0, mem2, m + 1, pg2, g)
      <4>1. i \in 0..(m + 1) /\ j \in 1..Used(0, m + 1, i)
        BY <1>5, <1>7
      <4>2. QED
        BY <1>8, <3>2, <4>1 DEF Stacked
    <3>3. QED
      BY <1>1, <2>1, <3>1, <3>2 DEF HasPages, Stacked
  <2>2. ASSUME g = f PROVE Stacked(0, mem2, m + 1, pg2, g)
    <3>1. m + 1 \in 1..(m + 1)
      BY <1>2
    <3>2. QED
      BY <1>5, <2>2, <3>1 DEF Stacked
  <2>3. ASSUME NEW i \in 1..(m + 1), g = pg2[i] PROVE g \in S \cup {f}
    <3>1. CASE i = m + 1
      BY <1>5, <2>3, <3>1
    <3>2. CASE i # m + 1
      <4>1. i \in 1..m /\ pg2[i] = pg[i]
        BY <1>2, <1>5, <3>2
      <4>2. QED
        BY <1>1, <2>3, <4>1 DEF HasPages, Stacked
    <3>3. QED
      BY <3>1, <3>2
  <2>4. ASSUME NEW i \in 0..(m + 1), NEW j \in 1..Used(0, m + 1, i),
               g = mem2[pg2[i]].frames[j]
        PROVE  g \in S
    BY <1>1, <1>8, <2>4 DEF HasPages, Stacked
  <2>5. QED
    BY <2>1, <2>2, <2>3, <2>4 DEF Stacked
<1>11. 0 \in 0..StackFrames /\ S \subseteq Frames
  BY <1>2 DEF IsStack
<1>12. QED
  BY <1>6, <1>9, <1>10, <1>11 DEF IsStack, HasPages

\* The last entry of the page that is mapped is taken.
LEMMA PopEntry ==
    ASSUME NEW c \in Class, NEW page, NEW top, NEW mem, NEW S,
           IsStack(c, page, top, mem, S), top # 0,
           NEW mem2 \in MemType, \A g \in DOMAIN mem \ {page} : mem2[g] = mem[g],
           mem2[page].next = mem[page].next,
           \A j \in 1..(top - 1) : mem2[page].frames[j] = mem[page].frames[j]
    PROVE  /\ mem[page].frames[top] \in S
           /\ IsStack(c, page, top - 1, mem2, S \ {mem[page].frames[top]})
<1> DEFINE f == mem[page].frames[top]
<1>1. PICK m, pg : HasPages(c, page, top, mem, S, m, pg)
  BY DEF IsStack
<1>2. /\ top \in 1..StackFrames /\ top - 1 \in 0..StackFrames /\ m \in Nat /\ m \in 0..m
      /\ pg \in [0..m -> Frames] /\ pg[m] = page
      /\ \A i \in 0..m : pg[i] \in DOMAIN mem /\ (pg[i] = page => i = m)
  <2>1. DOMAIN mem = 0..FrameEnd /\ Frames \subseteq 0..FrameEnd
    BY Constants DEF IsStack, MemType
  <2>2. /\ m \in Nat /\ pg \in [0..m -> Frames] /\ pg[m] = page /\ m \in 0..m
        /\ \A i, j \in 0..m : pg[i] = pg[j] => i = j
    BY <1>1 DEF HasPages, StackPages
  <2>3. top \in 0..StackFrames /\ StackFrames \in Nat
    BY Constants DEF IsStack
  <2>4. top \in 1..StackFrames /\ top - 1 \in 0..StackFrames
    BY <2>3
  <2>5. QED
    BY <2>1, <2>2, <2>4
<1>3. \A i \in 0..m : mem2[pg[i]].next = mem[pg[i]].next
  BY <1>2
<1>4. \A i \in 0..m : \A j \in 1..Used(top - 1, m, i) :
        /\ mem2[pg[i]].frames[j] = mem[pg[i]].frames[j]
        /\ j \in 1..Used(top, m, i)
        /\ ~(i = m /\ j = top)
  BY <1>2 DEF Used
<1>5. \A i \in 0..m : \A j \in 1..Used(top, m, i) :
        j \notin 1..Used(top - 1, m, i) => i = m /\ j = top
  BY <1>2 DEF Used
<1>6. top \in 1..Used(top, m, m) /\ f = mem[pg[m]].frames[top]
  BY <1>2 DEF Used
<1> HIDE DEF f
<1>7. f \in S
  BY <1>1, <1>2, <1>6 DEF HasPages, Stacked
<1>8. StackPages(c, page, mem2, m, pg)
  <2>1. 0 \in 0..m /\ pg[0] = KernelPage[c]
    BY <1>1, <1>2 DEF HasPages, StackPages
  <2>2. \A i \in 1..m : i \in 0..m
    BY <1>2
  <2>3. QED
    BY <1>1, <1>2, <1>3, <2>1, <2>2 DEF HasPages, StackPages
<1>9. Entries(top - 1, mem2, m, pg)
  BY <1>1, <1>4 DEF HasPages, Entries
<1>10. ASSUME NEW g PROVE g \in S \ {f} <=> Stacked(top - 1, mem2, m, pg, g)
  <2>1. ASSUME g \in S, g # f PROVE Stacked(top - 1, mem2, m, pg, g)
    <3>1. CASE \E i \in 1..m : g = pg[i]
      BY <3>1 DEF Stacked
    <3>2. ASSUME NEW i \in 0..m, NEW j \in 1..Used(top, m, i),
                 g = mem[pg[i]].frames[j]
          PROVE  Stacked(top - 1, mem2, m, pg, g)
      <4>1. j \in 1..Used(top - 1, m, i)
        BY <1>5, <1>6, <2>1, <3>2
      <4>2. QED
        BY <1>4, <3>2, <4>1 DEF Stacked
    <3>3. QED
      BY <1>1, <2>1, <3>1, <3>2 DEF HasPages, Stacked
  <2>2. ASSUME NEW i \in 1..m, g = pg[i] PROVE g \in S /\ g # f
    <3>1. i \in 0..m
      BY <1>2
    <3>2. QED
      BY <1>1, <1>2, <1>6, <2>2, <3>1 DEF HasPages, Stacked, Entries
  <2>3. ASSUME NEW i \in 0..m, NEW j \in 1..Used(top - 1, m, i),
               g = mem2[pg[i]].frames[j]
        PROVE  g \in S /\ g # f
    <3>1. j \in 1..Used(top, m, i) /\ g = mem[pg[i]].frames[j] /\ ~(i = m /\ j = top)
      BY <1>4, <2>3
    <3>2. g \in S
      BY <1>1, <3>1 DEF HasPages, Stacked
    <3>3. g # f
      BY <1>1, <1>2, <1>6, <3>1 DEF HasPages, Entries
    <3>4. QED
      BY <3>2, <3>3
  <2>4. QED
    BY <2>1, <2>2, <2>3 DEF Stacked
<1>11. S \ {f} \subseteq Frames
  BY DEF IsStack
<1>12. IsStack(c, page, top - 1, mem2, S \ {f})
  BY <1>2, <1>8, <1>9, <1>10, <1>11 DEF IsStack, HasPages
<1>13. QED
  BY <1>7, <1>12 DEF f

\* What the mapped page says of the stack.
LEMMA MappedPage ==
    ASSUME NEW c \in Class, NEW page, NEW top, NEW mem, NEW S,
           IsStack(c, page, top, mem, S)
    PROVE  /\ page \in Frames /\ page \in S \cup {KernelPage[c]}
           /\ page = KernelPage[c] => mem[page].next = LastLink(c)
           /\ page = KernelPage[c] /\ top = 0 => S = {}
           /\ page # KernelPage[c] => mem[page].next \in Frames
           /\ KernelPage[c] \in S => FALSE
<1>1. PICK m, pg : HasPages(c, page, top, mem, S, m, pg)
  BY DEF IsStack
<1>2. /\ m \in Nat /\ m \in 0..m /\ 0 \in 0..m /\ pg \in [0..m -> Frames] /\ pg[m] = page
      /\ \A i, j \in 0..m : pg[i] = pg[j] => i = j
      /\ pg[0] = KernelPage[c] /\ mem[KernelPage[c]].next = LastLink(c)
      /\ \A i \in 1..m : mem[pg[i]].next = pg[i - 1]
  BY <1>1 DEF HasPages, StackPages
<1>3. page = KernelPage[c] <=> m = 0
  BY <1>2
<1>4. page \in Frames /\ page \in S \cup {KernelPage[c]}
  <2>1. m # 0 => m \in 1..m
    BY <1>2
  <2>2. QED
    BY <1>1, <1>2, <1>3, <2>1 DEF HasPages, Stacked
<1>5. ASSUME page = KernelPage[c], top = 0 PROVE S = {}
  <2>1. m = 0
    BY <1>3, <1>5
  <2>2. ASSUME NEW f PROVE ~Stacked(top, mem, m, pg, f)
    BY <1>5, <2>1 DEF Stacked, Used
  <2>3. QED
    BY <1>1, <2>2 DEF HasPages
<1>6. ASSUME page # KernelPage[c] PROVE mem[page].next \in Frames
  <2>1. m \in 1..m /\ m - 1 \in 0..m
    BY <1>2, <1>3, <1>6
  <2>2. QED
    BY <1>2, <2>1
<1>7. KernelPage[c] \notin S
  <2>1. ASSUME NEW i \in 1..m PROVE pg[i] # KernelPage[c]
    <3>1. i \in 0..m /\ i # 0
      BY <1>2
    <3>2. QED
      BY <1>2, <3>1
  <2>2. ASSUME NEW i \in 0..m, NEW j \in 1..Used(top, m, i)
        PROVE  mem[pg[i]].frames[j] # KernelPage[c]
    BY <1>1, <1>2 DEF HasPages, Entries
  <2>3. QED
    BY <1>1, <2>1, <2>2 DEF HasPages, Stacked
<1>8. QED
  BY <1>2, <1>4, <1>5, <1>6, <1>7

\* An empty page is taken, and the one it links to is mapped, which is full.
LEMMA PopPage ==
    ASSUME NEW c \in Class, NEW page, NEW mem, NEW S,
           IsStack(c, page, 0, mem, S), page # KernelPage[c],
           NEW mem2 \in MemType, \A g \in DOMAIN mem \ {page} : mem2[g] = mem[g]
    PROVE  IsStack(c, mem[page].next, StackFrames, mem2, S \ {page})
<1>1. PICK m, pg : HasPages(c, page, 0, mem, S, m, pg)
  BY DEF IsStack
<1>2. /\ m \in Nat /\ 0 \in 0..m /\ pg \in [0..m -> Frames] /\ pg[m] = page
      /\ \A i, j \in 0..m : pg[i] = pg[j] => i = j
      /\ pg[0] = KernelPage[c] /\ mem[KernelPage[c]].next = LastLink(c)
      /\ \A i \in 1..m : mem[pg[i]].next = pg[i - 1]
      /\ StackFrames \in Nat
  BY <1>1, Constants DEF HasPages, StackPages
<1>3. m # 0
  BY <1>2
<1> DEFINE n == m - 1
           pg2 == [i \in 0..n |-> pg[i]]
<1>4. /\ n \in Nat /\ n + 1 = m /\ n \in 0..n /\ 0 \in 0..n /\ m \in 1..m /\ m \in 0..m
      /\ \A i \in 0..n : i \in 0..m /\ i # m
      /\ \A i \in 0..m : i # m => i \in 0..n
      /\ \A i \in 1..n : i \in 1..m /\ i \in 0..n /\ i - 1 \in 0..n
      /\ \A i \in 1..m : i # m => i \in 1..n
      /\ m - 1 = n
  BY <1>2, <1>3
<1> HIDE DEF n
<1>5. pg2 \in [0..n -> Frames] /\ \A i \in 0..n : pg2[i] = pg[i]
  BY <1>2, <1>4
<1> HIDE DEF pg2
<1>6. mem[page].next = pg[n]
  BY <1>2, <1>4
<1>7. \A i \in 0..n : mem2[pg[i]] = mem[pg[i]]
  <2>1. \A i \in 0..n : pg[i] # page /\ pg[i] \in DOMAIN mem
    BY <1>2, <1>4, Constants DEF IsStack, MemType
  <2>2. QED
    BY <2>1
<1>8. StackPages(c, pg[n], mem2, n, pg2)
  <2>1. pg2[0] = KernelPage[c] /\ mem2[KernelPage[c]].next = LastLink(c)
    BY <1>2, <1>4, <1>5, <1>7
  <2>2. pg2[n] = pg[n]
    BY <1>4, <1>5
  <2>3. \A i \in 1..n : mem2[pg2[i]].next = pg2[i - 1]
    BY <1>2, <1>4, <1>5, <1>7
  <2>4. \A i, j \in 0..n : pg2[i] = pg2[j] => i = j
    BY <1>2, <1>4, <1>5
  <2>5. QED
    BY <1>4, <1>5, <2>1, <2>2, <2>3, <2>4 DEF StackPages
<1>9. \A i \in 0..n : Used(StackFrames, n, i) = StackFrames /\ Used(0, m, i) = StackFrames
  BY <1>4 DEF Used
<1>10. Entries(StackFrames, mem2, n, pg2)
  <2>1. \A i \in 0..n : \A j \in 1..Used(StackFrames, n, i) :
          /\ i \in 0..m /\ j \in 1..Used(0, m, i) /\ pg2[i] = pg[i]
          /\ mem2[pg2[i]].frames[j] = mem[pg[i]].frames[j]
    BY <1>4, <1>5, <1>7, <1>9
  <2>2. ASSUME NEW i \in 0..n, NEW k \in 0..n,
               NEW j \in 1..Used(StackFrames, n, i), NEW l \in 1..Used(StackFrames, n, k),
               mem2[pg2[i]].frames[j] = mem2[pg2[k]].frames[l]
        PROVE  i = k /\ j = l
    BY <1>1, <2>1, <2>2 DEF HasPages, Entries
  <2>3. ASSUME NEW i \in 0..n, NEW k \in 0..n, NEW j \in 1..Used(StackFrames, n, i)
        PROVE  mem2[pg2[i]].frames[j] # pg2[k]
    <3>1. pg2[k] = pg[k] /\ k \in 0..m
      BY <1>4, <1>5
    <3>2. QED
      BY <1>1, <2>1, <3>1 DEF HasPages, Entries
  <2>4. QED
    BY <2>2, <2>3 DEF Entries
<1>11. ASSUME NEW g
       PROVE  g \in S \ {page} <=> Stacked(StackFrames, mem2, n, pg2, g)
  <2>1. ASSUME g \in S, g # page PROVE Stacked(StackFrames, mem2, n, pg2, g)
    <3>1. ASSUME NEW i \in 1..m, g = pg[i]
          PROVE  Stacked(StackFrames, mem2, n, pg2, g)
      <4>1. i \in 1..n /\ pg2[i] = pg[i]
        BY <1>2, <1>4, <1>5, <2>1, <3>1
      <4>2. QED
        BY <3>1, <4>1 DEF Stacked
    <3>2. ASSUME NEW i \in 0..m, NEW j \in 1..Used(0, m, i),
                 g = mem[pg[i]].frames[j]
          PROVE  Stacked(StackFrames, mem2, n, pg2, g)
      <4>1. i # m
        BY DEF Used
      <4>2. i \in 0..n /\ j \in 1..Used(StackFrames, n, i)
        BY <1>4, <1>9, <4>1
      <4>3. g = mem2[pg2[i]].frames[j]
        BY <1>5, <1>7, <3>2, <4>2
      <4>4. QED
        BY <4>2, <4>3 DEF Stacked
    <3>3. QED
      BY <1>1, <2>1, <3>1, <3>2 DEF HasPages, Stacked
  <2>2. ASSUME NEW i \in 1..n, g = pg2[i] PROVE g \in S /\ g # page
    BY <1>1, <1>2, <1>4, <1>5, <2>2 DEF HasPages, Stacked
  <2>3. ASSUME NEW i \in 0..n, NEW j \in 1..Used(StackFrames, n, i),
               g = mem2[pg2[i]].frames[j]
        PROVE  g \in S /\ g # page
    <3>1. i \in 0..m /\ j \in 1..Used(0, m, i) /\ g = mem[pg[i]].frames[j]
      BY <1>4, <1>5, <1>7, <1>9, <2>3
    <3>2. g \in S
      BY <1>1, <3>1 DEF HasPages, Stacked
    <3>3. g # page
      BY <1>1, <1>2, <1>4, <3>1 DEF HasPages, Entries
    <3>4. QED
      BY <3>2, <3>3
  <2>4. QED
    BY <2>1, <2>2, <2>3 DEF Stacked
<1>12. StackFrames \in 0..StackFrames /\ S \ {page} \subseteq Frames
  BY <1>2 DEF IsStack
<1>13. QED
  BY <1>6, <1>8, <1>10, <1>11, <1>12 DEF IsStack, HasPages

-----------------------------------------------------------------------------
(* Following the links.                                                    *)

LEMMA LeastNat ==
    ASSUME NEW S \in SUBSET Nat, S # {}
    PROVE  \E n \in S : \A m \in S : n <= m
<1>1. IsWellFoundedOn({r \in Nat \X Nat : r[1] < r[2]}, Nat)
  BY NatLessThanWellFounded DEF OpToRel
<1>2. PICK n \in S : \A m \in S : <<m, n>> \notin {r \in Nat \X Nat : r[1] < r[2]}
  BY <1>1, WFMin
<1>3. ASSUME NEW m \in S PROVE n <= m
  <2>1. <<m, n>> \in Nat \X Nat /\ ~(m < n)
    BY <1>2
  <2>2. QED
    BY <2>1
<1>4. QED
  BY <1>3

LEMMA SetInduction ==
    ASSUME NEW S, 0 \in S, \A n \in Nat : n \in S => n + 1 \in S
    PROVE  Nat \subseteq S
<1>1. SUFFICES ASSUME Nat \ S # {} PROVE FALSE
  OBVIOUS
<1>2. PICK n \in Nat \ S : \A m \in Nat \ S : n <= m
  BY <1>1, LeastNat
<1>3. n # 0 /\ n - 1 \in Nat /\ ~(n <= n - 1) /\ (n - 1) + 1 = n
  BY <1>2
<1>4. n - 1 \in S
  BY <1>2, <1>3
<1>5. QED
  BY <1>2, <1>3, <1>4

LEMMA QuotientBound ==
    ASSUME NEW m \in Nat, NEW d \in Nat \ {0}, NEW n \in Nat, m * d <= n
    PROVE  m <= n \div d
<1> DEFINE q == n \div d
           r == n % d
<1>1. q \in Nat /\ r \in 0..(d - 1) /\ n = d * q + r
  OBVIOUS
<1> HIDE DEF q, r
<1>2. SUFFICES ASSUME m >= q + 1 PROVE FALSE
  BY <1>1 DEF q
<1>3. PICK e \in Nat : m = q + 1 + e
  <2>1. m - (q + 1) \in Nat /\ m = q + 1 + (m - (q + 1))
    BY <1>1, <1>2
  <2>2. QED
    BY <2>1
<1>4. m * d = q * d + d + e * d
  BY <1>1, <1>3
<1>5. e * d \in Nat /\ q * d = d * q
  BY <1>1
<1>6. QED
  BY <1>1, <1>4, <1>5

\* There are not more full pages than fit the memory.
LEMMA PagesFit ==
    ASSUME NEW c \in Class, NEW page, NEW top, NEW mem, NEW S, NEW m, NEW pg,
           IsStack(c, page, top, mem, S), HasPages(c, page, top, mem, S, m, pg)
    PROVE  m \in Nat /\ m <= FrameEnd \div (StackFrames + 1)
<1>1. /\ m \in Nat /\ pg \in [0..m -> Frames]
      /\ StackFrames \in Nat /\ StackFrames + 1 \in Nat \ {0} /\ FrameEnd \in Nat
      /\ S \subseteq Frames
  BY Constants DEF HasPages, StackPages, IsStack
<1> DEFINE A == 0..(m - 1)
           B == 0..StackFrames
           F == [x \in A \X B |-> IF x[2] = 0 THEN pg[x[1] + 1]
                                              ELSE mem[pg[x[1]]].frames[x[2]]]
<1>2. \A i \in A : i \in 0..m /\ i + 1 \in 1..m /\ i + 1 \in 0..m
                   /\ Used(top, m, i) = StackFrames
  BY <1>1 DEF Used
<1>3. \A j \in B : j # 0 => j \in 1..StackFrames
  BY <1>1
<1>4. \A i \in A : F[<<i, 0>>] = pg[i + 1]
  BY <1>1
<1>5. \A i \in A, j \in B : j # 0 => F[<<i, j>>] = mem[pg[i]].frames[j]
  OBVIOUS
<1>6. \A x \in A \X B : F[x] \in S
  <2>1. ASSUME NEW i \in A PROVE F[<<i, 0>>] \in S
    BY <1>2, <1>4 DEF HasPages, Stacked
  <2>2. ASSUME NEW i \in A, NEW j \in B, j # 0 PROVE F[<<i, j>>] \in S
    BY <1>2, <1>3, <1>5, <2>2 DEF HasPages, Stacked
  <2> HIDE DEF A, B, F
  <2>3. QED
    BY <2>1, <2>2
<1>7. F \in [A \X B -> Frames]
  <2>1. F = [x \in A \X B |-> F[x]]
    OBVIOUS
  <2> HIDE DEF F, A, B
  <2>2. QED
    BY <1>1, <1>6, <2>1
<1> HIDE DEF F
<1>8. ASSUME NEW i \in A, NEW j \in B, NEW k \in A, NEW l \in B,
             F[<<i, j>>] = F[<<k, l>>]
      PROVE  i = k /\ j = l
  <2>1. CASE j = 0 /\ l = 0
    <3>1. i + 1 = k + 1
      BY <1>2, <1>4, <1>8, <2>1 DEF HasPages, StackPages
    <3>2. QED
      BY <2>1, <3>1
  <2>2. CASE j # 0 /\ l # 0
    BY <1>2, <1>3, <1>5, <1>8, <2>2 DEF HasPages, Entries
  <2>3. CASE j = 0 /\ l # 0
    BY <1>2, <1>3, <1>4, <1>5, <1>8, <2>3 DEF HasPages, Entries
  <2>4. CASE j # 0 /\ l = 0
    BY <1>2, <1>3, <1>4, <1>5, <1>8, <2>4 DEF HasPages, Entries
  <2>5. QED
    BY <2>1, <2>2, <2>3, <2>4
<1>9. F \in Injection(A \X B, Frames)
  <2>1. \A x, y \in A \X B : F[x] = F[y] => x = y
    BY <1>8
  <2>2. QED
    BY <1>7, <2>1 DEF Injection, IsInjective
<1>10. /\ IsFiniteSet(A) /\ Cardinality(A) = m
       /\ IsFiniteSet(B) /\ Cardinality(B) = StackFrames + 1
       /\ IsFiniteSet(Frames) /\ Cardinality(Frames) = FrameEnd
  <2>1. IsFiniteSet(A) /\ IsFiniteSet(B) /\ IsFiniteSet(Frames)
    <3>1. {0, m - 1, StackFrames, FrameEnd - 1} \subseteq Int
      BY <1>1
    <3>2. QED
      BY <3>1, FS_Interval DEF Frames
  <2>2. Cardinality(A) = IF 0 > m - 1 THEN 0 ELSE (m - 1) - 0 + 1
    BY <1>1, FS_Interval
  <2>3. Cardinality(B) = IF 0 > StackFrames THEN 0 ELSE StackFrames - 0 + 1
    BY <1>1, FS_Interval
  <2>4. Cardinality(Frames) = IF 0 > FrameEnd - 1 THEN 0 ELSE (FrameEnd - 1) - 0 + 1
    BY <1>1, FS_Interval DEF Frames
  <2>5. QED
    BY <1>1, <2>1, <2>2, <2>3, <2>4
<1>11. Cardinality(A \X B) = m * (StackFrames + 1)
  <2> HIDE DEF A, B
  <2>1. QED
    BY <1>10, FS_Product
<1>12. Cardinality(A \X B) <= FrameEnd
  <2> HIDE DEF A, B
  <2>1. QED
    BY <1>9, <1>10, FS_Injection
<1>13. QED
  BY <1>1, <1>11, <1>12, QuotientBound

\* The walk of PagesOf.
Walk(first, next, N) ==
    CHOOSE w : w = [k \in 0..N |-> IF k = 0 THEN first ELSE next[w[k - 1]]]

LEMMA PagesOfIsWalk ==
    ASSUME NEW p, NEW c
    PROVE  PagesOf(p, c) =
             Elements(Walk(p.page[c],
                           [q \in 0..FrameEnd |-> IF q = KernelPage[c] THEN q ELSE p.mem[q].next],
                           FrameEnd \div (StackFrames + 1)))
BY DEF PagesOf, Walk

\* It goes from the m-th page to the first and stays there.
LeadsBack(first, next, m, pg) ==
    /\ first = pg[m] /\ next[pg[0]] = pg[0]
    /\ \A i \in 1..m : next[pg[i]] = pg[i - 1]
WalkOf(w, N, m, pg) ==
    /\ DOMAIN w = 0..N
    /\ \A k \in 0..N : w[k] = IF k <= m THEN pg[m - k] ELSE pg[0]

LEMMA WalkIs ==
    ASSUME NEW N \in Nat, NEW m \in Nat, m <= N, NEW pg, NEW next, NEW first,
           LeadsBack(first, next, m, pg)
    PROVE  WalkOf(Walk(first, next, N), N, m, pg)
<1> DEFINE g == [k \in 0..N |-> IF k <= m THEN pg[m - k] ELSE pg[0]]
           w == Walk(first, next, N)
           Step(h) == [k \in 0..N |-> IF k = 0 THEN first ELSE next[h[k - 1]]]
<1>0. /\ first = pg[m] /\ next[pg[0]] = pg[0]
      /\ \A i \in 1..m : next[pg[i]] = pg[i - 1]
  BY DEF LeadsBack
<1>1. g = Step(g)
  <2>1. ASSUME NEW k \in 0..N
        PROVE  g[k] = IF k = 0 THEN first ELSE next[g[k - 1]]
    <3>1. CASE k = 0
      BY <1>0, <3>1
    <3>2. CASE k # 0 /\ k <= m
      <4>1. k - 1 \in 0..N /\ k - 1 <= m /\ m - (k - 1) \in 1..m
            /\ m - (k - 1) - 1 = m - k
        BY <3>2
      <4>2. g[k - 1] = pg[m - (k - 1)]
        BY <4>1
      <4>3. next[pg[m - (k - 1)]] = pg[m - k]
        BY <1>0, <4>1
      <4>4. QED
        BY <3>2, <4>2, <4>3
    <3>3. CASE ~(k <= m)
      <4>1. k # 0 /\ k - 1 \in 0..N /\ (k - 1 <= m => k - 1 = m) /\ m - m = 0
        BY <3>3
      <4>2. g[k - 1] = pg[0]
        BY <4>1
      <4>3. QED
        BY <1>0, <3>3, <4>1, <4>2
    <3>4. QED
      BY <3>1, <3>2, <3>3
  <2> HIDE DEF g
  <2>2. Step(g) = [k \in 0..N |-> g[k]]
    BY <2>1
  <2>3. g = [k \in 0..N |-> g[k]]
    BY DEF g
  <2>4. QED
    BY <2>2, <2>3
<1>2. w = Step(w)
  <2> HIDE DEF g
  <2>1. QED
    BY <1>1 DEF Walk
<1>3. \A k \in 0..N : g[k] = IF k <= m THEN pg[m - k] ELSE pg[0]
  OBVIOUS
<1>4. \A k \in 0..N : g[k] = IF k = 0 THEN first ELSE next[g[k - 1]]
  <2> HIDE DEF g
  <2>1. \A k \in 0..N : Step(g)[k] = IF k = 0 THEN first ELSE next[g[k - 1]]
    OBVIOUS
  <2>2. QED
    BY <1>1, <2>1
<1>5. \A k \in 0..N : w[k] = IF k = 0 THEN first ELSE next[w[k - 1]]
  <2> HIDE DEF w
  <2>1. \A k \in 0..N : Step(w)[k] = IF k = 0 THEN first ELSE next[w[k - 1]]
    OBVIOUS
  <2>2. QED
    BY <1>2, <2>1
<1>10. DOMAIN w = 0..N
  <2> HIDE DEF w
  <2>1. DOMAIN Step(w) = 0..N
    OBVIOUS
  <2>2. QED
    BY <1>2, <2>1
<1> HIDE DEF g, w, Step
<1> DEFINE T == {k \in Nat : k \in 0..N => w[k] = g[k]}
<1>6. 0 \in T
  <2>1. 0 \in 0..N => w[0] = g[0]
    BY <1>4, <1>5
  <2>2. QED
    BY <2>1
<1>7. ASSUME NEW k \in Nat, k \in T PROVE k + 1 \in T
  <2>1. CASE k + 1 \in 0..N
    <3>1. k \in 0..N /\ (k + 1) - 1 = k /\ k + 1 # 0
      BY <2>1
    <3>2. w[k + 1] = next[w[k]] /\ g[k + 1] = next[g[k]]
      BY <1>4, <1>5, <2>1, <3>1
    <3>3. QED
      BY <1>7, <3>1, <3>2
  <2>2. QED
    BY <2>1
<1> HIDE DEF T
<1>8. Nat \subseteq T
  BY <1>6, <1>7, SetInduction
<1>9. QED
  BY <1>3, <1>8, <1>10 DEF T, w, WalkOf

\* What StackContents finds is what the stack has.
LEMMA ContentsFound ==
    ASSUME NEW c \in Class, NEW p, NEW S, IsStack(c, p.page[c], p.top[c], p.mem, S)
    PROVE  StackContents(p, c) = S
<1> DEFINE N == FrameEnd \div (StackFrames + 1)
           next == [q \in 0..FrameEnd |-> IF q = KernelPage[c] THEN q ELSE p.mem[q].next]
           page == p.page[c]
           top == p.top[c]
           mem == p.mem
<1>1. PICK m, pg : HasPages(c, page, top, mem, S, m, pg)
  BY DEF IsStack
<1>2. /\ m \in Nat /\ m \in 0..m /\ 0 \in 0..m /\ pg \in [0..m -> Frames] /\ pg[m] = page
      /\ \A i, j \in 0..m : pg[i] = pg[j] => i = j
      /\ pg[0] = KernelPage[c]
      /\ \A i \in 1..m : mem[pg[i]].next = pg[i - 1]
  BY <1>1 DEF HasPages, StackPages
<1>3. N \in Nat /\ m <= N
  <2>1. m <= N
    BY <1>1, PagesFit
  <2>2. N \in Nat
    BY Constants
  <2>3. QED
    BY <2>1, <2>2
<1>4. \A i \in 0..m : next[pg[i]] = IF pg[i] = KernelPage[c] THEN pg[i] ELSE mem[pg[i]].next
  BY <1>2, Constants
<1>5. next[pg[0]] = pg[0]
  BY <1>2, <1>4
<1>6. \A i \in 1..m : next[pg[i]] = pg[i - 1]
  <2>1. \A i \in 1..m : i \in 0..m /\ i # 0
    BY <1>2
  <2>2. QED
    BY <1>2, <1>4, <2>1
<1> DEFINE w == Walk(page, next, N)
<1>7. PagesOf(p, c) = Elements(w)
  BY PagesOfIsWalk
<1> HIDE DEF N, next
<1> HIDE DEF page, mem, top
<1>8. /\ DOMAIN w = 0..N
      /\ \A k \in 0..N : w[k] = IF k <= m THEN pg[m - k] ELSE pg[0]
  <2>1. /\ N \in Nat /\ m \in Nat /\ m <= N /\ page = pg[m]
        /\ next[pg[0]] = pg[0] /\ \A i \in 1..m : next[pg[i]] = pg[i - 1]
    BY <1>2, <1>3, <1>5, <1>6
  <2>2. /\ DOMAIN Walk(page, next, N) = 0..N
        /\ \A k \in 0..N :
             Walk(page, next, N)[k] = IF k <= m THEN pg[m - k] ELSE pg[0]
    <3> HIDE DEF w
    <3>1. LeadsBack(page, next, m, pg)
      BY <2>1 DEF LeadsBack
    <3>2. WalkOf(Walk(page, next, N), N, m, pg)
      BY <2>1, <3>1, WalkIs
    <3>3. QED
      BY <3>2 DEF WalkOf
  <2>3. QED
    BY <2>2
<1> USE DEF page, mem, top
<1>10. Elements(w) = {pg[i] : i \in 0..m}
  <2> HIDE DEF w
  <2>1. \A k \in 0..N : \E i \in 0..m : w[k] = pg[i]
    <3>1. \A k \in 0..N : k <= m => m - k \in 0..m
      BY <1>2, <1>3
    <3>2. QED
      BY <1>2, <1>8, <3>1
  <2>2. \A i \in 0..m : \E k \in 0..N : w[k] = pg[i]
    <3>1. ASSUME NEW i \in 0..m PROVE \E k \in 0..N : w[k] = pg[i]
      <4>1. m - i \in 0..N /\ m - i <= m /\ m - (m - i) = i
        BY <1>2, <1>3
      <4>2. w[m - i] = pg[m - (m - i)]
        BY <1>8, <4>1
      <4>3. w[m - i] = pg[i]
        BY <4>1, <4>2
      <4>4. QED
        BY <4>1, <4>3
    <3>2. QED
      BY <3>1
  <2>3. Elements(w) = {w[k] : k \in 0..N}
    BY <1>8 DEF Elements
  <2>4. QED
    BY <2>1, <2>2, <2>3
<1>11. PagesOf(p, c) = {pg[i] : i \in 0..m}
  BY <1>7, <1>10
<1>12. \A i \in 0..m : (IF pg[i] = page THEN top ELSE StackFrames) = Used(top, m, i)
  BY <1>2 DEF Used
<1>13. \A f : f \in StackContents(p, c) <=> Stacked(top, mem, m, pg, f)
  <2>1. \A f : f \in PagesOf(p, c) \ {KernelPage[c]} <=> \E i \in 1..m : f = pg[i]
    <3>1. \A i \in 1..m : i \in 0..m /\ i # 0
      BY <1>2
    <3>2. \A i \in 0..m : i # 0 => i \in 1..m
      BY <1>2
    <3>3. QED
      BY <1>2, <1>11, <3>1, <3>2
  <2>2. \A f : f \in UNION {{mem[q].frames[i] : i \in 1..(IF q = page THEN top ELSE StackFrames)}
                             : q \in PagesOf(p, c)}
                <=> \E i \in 0..m : \E j \in 1..Used(top, m, i) : f = mem[pg[i]].frames[j]
    BY <1>11, <1>12
  <2>3. QED
    BY <2>1, <2>2 DEF StackContents, Stacked
<1>14. QED
  BY <1>1, <1>13 DEF HasPages

-----------------------------------------------------------------------------
(* The stacks together and the emergency stack.                            *)

PoolType ==
    [page : [Class -> Frames], top : [Class -> 0..StackFrames], mem : MemType,
     emerg : Seq(Frames), count : Int]

\* Each stack has frames of its class, and none of the kernel's pages.
Stacks(p) ==
    \A c \in Class :
      /\ IsStack(c, p.page[c], p.top[c], p.mem, StackContents(p, c))
      /\ StackContents(p, c) \subseteq OfClass(c)
      /\ \A d \in Class : KernelPage[d] \notin StackContents(p, c)

\* What a change of one stack leaves of the others.
LEMMA OtherStacks ==
    ASSUME NEW p, Stacks(p), NEW q, q.mem \in MemType, NEW d \in Class,
           q.page[d] = p.page[d], q.top[d] = p.top[d],
           \A f \in StackContents(p, d) \cup {KernelPage[d]} : q.mem[f] = p.mem[f]
    PROVE  /\ IsStack(d, q.page[d], q.top[d], q.mem, StackContents(q, d))
           /\ StackContents(q, d) = StackContents(p, d)
<1>1. IsStack(d, p.page[d], p.top[d], p.mem, StackContents(p, d))
  BY DEF Stacks
<1>2. IsStack(d, q.page[d], q.top[d], q.mem, StackContents(p, d))
  BY <1>1, StackSame
<1>3. StackContents(q, d) = StackContents(p, d)
  BY <1>2, ContentsFound
<1>4. QED
  BY <1>2, <1>3

\* The mapped page of a stack is of no use to the others.
LEMMA PageOfOne ==
    ASSUME NEW p, p \in PoolType, Stacks(p), NEW c \in Class, NEW d \in Class, c # d
    PROVE  p.page[c] \notin StackContents(p, d) \cup {KernelPage[d]}
<1>1. p.page[c] \in StackContents(p, c) \cup {KernelPage[c]}
  BY MappedPage DEF Stacks
<1>2. KernelPage[c] # KernelPage[d]
  BY BootMapAssumption
<1>3. \A f \in OfClass(c) : f \notin OfClass(d)
  BY DEF OfClass
<1>4. QED
  BY <1>1, <1>2, <1>3 DEF Stacks

LEMMA PushStackOK ==
    ASSUME NEW p, p \in PoolType, Stacks(p), NEW c \in Class, NEW f \in OfClass(c),
           f \notin StackContents(p, c), \A d \in Class : f # KernelPage[d]
    PROVE  LET q == PushStack(p, c, f) IN
           /\ q \in PoolType /\ Stacks(q)
           /\ StackContents(q, c) = StackContents(p, c) \cup {f}
           /\ \A d \in Class : d # c => StackContents(q, d) = StackContents(p, d)
           /\ q.emerg = p.emerg /\ q.count = p.count
<1> DEFINE q == PushStack(p, c, f)
           S == StackContents(p, c)
           page == p.page[c]
           top == p.top[c]
           next == p.mem[page].next
<1>1. f \in Frames /\ f \in 0..FrameEnd
  BY Constants DEF OfClass, Frames
<1>2. /\ p.page \in [Class -> Frames] /\ p.top \in [Class -> 0..StackFrames]
      /\ p.mem \in MemType /\ p.emerg \in Seq(Frames) /\ p.count \in Int
      /\ p = [page |-> p.page, top |-> p.top, mem |-> p.mem, emerg |-> p.emerg,
              count |-> p.count]
  BY DEF PoolType
<1>3. IsStack(c, page, top, p.mem, S) /\ S \subseteq OfClass(c)
      /\ page \in Frames /\ page \in 0..FrameEnd /\ page \in S \cup {KernelPage[c]}
      /\ top \in 0..StackFrames /\ f # page
  BY <1>2, Constants, MappedPage DEF Stacks
<1>4. CASE top # StackFrames
  <2> DEFINE mem2 == [p.mem EXCEPT ![page] =
                        [next |-> p.mem[page].next,
                         frames |-> [p.mem[page].frames EXCEPT ![top + 1] = f]]]
  <2>1. top + 1 \in 1..StackFrames /\ top + 1 \in 0..StackFrames
    BY <1>3, <1>4, Constants
  <2>2. p.mem[page] \in PageType
    BY <1>2, <1>3 DEF MemType
  <2>3. q.mem = [p.mem EXCEPT ![page].frames[top + 1] = f]
    BY <1>2, <1>4 DEF PushStack
  <2>4. p.mem[page].next \in 0..FrameEnd /\ p.mem[page].frames \in [1..StackFrames -> 0..FrameEnd]
        /\ p.mem[page] = [next |-> p.mem[page].next, frames |-> p.mem[page].frames]
    BY <2>2 DEF PageType
  <2>5. q.mem = mem2
    BY <2>3, <2>4
  <2>6. /\ q.top = [p.top EXCEPT ![c] = top + 1] /\ q.page = p.page
        /\ q.emerg = p.emerg /\ q.count = p.count
        /\ q = [page |-> q.page, top |-> q.top, mem |-> q.mem, emerg |-> q.emerg,
                count |-> q.count]
    BY <1>2, <1>4 DEF PushStack
  <2>7. mem2 \in MemType
    BY <1>1, <1>2, <1>3, <2>1, <2>4 DEF MemType, PageType
  <2>8. q \in PoolType
    BY <1>2, <2>1, <2>5, <2>6, <2>7 DEF PoolType
  <2>9. /\ \A g \in DOMAIN p.mem \ {page} : mem2[g] = p.mem[g]
        /\ mem2[page].next = p.mem[page].next /\ mem2[page].frames[top + 1] = f
        /\ \A j \in 1..top : mem2[page].frames[j] = p.mem[page].frames[j]
    <3>1. \A j \in 1..top : j \in 1..StackFrames /\ j # top + 1
      BY <1>3, <2>1, Constants
    <3>2. /\ \A g \in DOMAIN p.mem \ {page} : mem2[g] = p.mem[g]
          /\ mem2[page] = [next |-> p.mem[page].next,
                           frames |-> [p.mem[page].frames EXCEPT ![top + 1] = f]]
      BY <1>2, <1>3 DEF MemType
    <3> HIDE DEF mem2
    <3>3. mem2[page].next = p.mem[page].next
          /\ mem2[page].frames = [p.mem[page].frames EXCEPT ![top + 1] = f]
      BY <3>2
    <3> HIDE DEF page, top
    <3>4. QED
      BY <2>1, <2>4, <3>1, <3>2, <3>3
  <2> HIDE DEF q, mem2, page, top, S
  <2>10. IsStack(c, page, top + 1, mem2, S \cup {f})
    BY <1>1, <1>3, <1>4, <2>7, <2>9, PushEntry DEF S
  <2>11. q.page[c] = page /\ q.top[c] = top + 1
    BY <1>2, <2>6 DEF page
  <2>12. StackContents(q, c) = S \cup {f}
    BY <2>5, <2>10, <2>11, ContentsFound
  <2>13. IsStack(c, q.page[c], q.top[c], q.mem, StackContents(q, c))
    BY <2>5, <2>10, <2>11, <2>12
  <2>14. ASSUME NEW d \in Class, d # c
         PROVE  /\ StackContents(q, d) = StackContents(p, d)
                /\ IsStack(d, q.page[d], q.top[d], q.mem, StackContents(q, d))
    <3>1. page \notin StackContents(p, d) \cup {KernelPage[d]}
      BY <2>14, PageOfOne DEF page
    <3>2. StackContents(p, d) \cup {KernelPage[d]} \subseteq DOMAIN p.mem
      BY <1>2, Constants DEF Stacks, IsStack, MemType
    <3>3. \A g \in StackContents(p, d) \cup {KernelPage[d]} : q.mem[g] = p.mem[g]
      BY <2>5, <2>9, <3>1, <3>2
    <3>4. q.page[d] = p.page[d] /\ q.top[d] = p.top[d]
      BY <1>2, <2>6, <2>14
    <3>5. QED
      BY <2>5, <2>7, <3>3, <3>4, OtherStacks
  <2>15. Stacks(q)
    <3>1. S \cup {f} \subseteq OfClass(c) /\ \A d \in Class : KernelPage[d] \notin S \cup {f}
      BY <1>3 DEF Stacks, S
    <3>2. ASSUME NEW e \in Class
          PROVE  /\ IsStack(e, q.page[e], q.top[e], q.mem, StackContents(q, e))
                 /\ StackContents(q, e) \subseteq OfClass(e)
                 /\ \A d \in Class : KernelPage[d] \notin StackContents(q, e)
      <4>1. CASE e = c
        BY <2>12, <2>13, <3>1, <4>1
      <4>2. CASE e # c
        BY <2>14, <4>2 DEF Stacks
      <4>3. QED
        BY <4>1, <4>2
    <3>3. QED
      BY <3>2 DEF Stacks
  <2>16. QED
    BY <2>6, <2>8, <2>12, <2>14, <2>15 DEF q, S
<1>5. CASE top = StackFrames
  <2> DEFINE mem2 == [p.mem EXCEPT ![f] = [next |-> page, frames |-> p.mem[f].frames]]
  <2>2. p.mem[f] \in PageType
    BY <1>1, <1>2 DEF MemType
  <2>3. q.mem = [p.mem EXCEPT ![f].next = page]
    BY <1>2, <1>5 DEF PushStack
  <2>4. p.mem[f].frames \in [1..StackFrames -> 0..FrameEnd]
        /\ p.mem[f] = [next |-> p.mem[f].next, frames |-> p.mem[f].frames]
    BY <2>2 DEF PageType
  <2>5. q.mem = mem2
    BY <2>3, <2>4
  <2>6. /\ q.top = [p.top EXCEPT ![c] = 0] /\ q.page = [p.page EXCEPT ![c] = f]
        /\ q.emerg = p.emerg /\ q.count = p.count
        /\ q = [page |-> q.page, top |-> q.top, mem |-> q.mem, emerg |-> q.emerg,
                count |-> q.count]
    BY <1>2, <1>5 DEF PushStack
  <2>7. mem2 \in MemType
    BY <1>1, <1>2, <1>3, <2>4 DEF MemType, PageType
  <2>1. 0 \in 0..StackFrames
    BY Constants
  <2>8. q \in PoolType
    <3>1. q.page \in [Class -> Frames] /\ q.top \in [Class -> 0..StackFrames]
      BY <1>1, <1>2, <2>1, <2>6
    <3>2. q.mem \in MemType /\ q.emerg \in Seq(Frames) /\ q.count \in Int
      BY <1>2, <2>5, <2>6, <2>7
    <3> HIDE DEF q
    <3>3. QED
      BY <2>6, <3>1, <3>2 DEF PoolType
  <2>9. /\ \A g \in DOMAIN p.mem \ {f} : mem2[g] = p.mem[g]
        /\ mem2[f].next = page
    BY <1>1, <1>2, <2>4 DEF MemType
  <2> HIDE DEF q, mem2, page, top, S
  <2>10. IsStack(c, f, 0, mem2, S \cup {f})
    BY <1>1, <1>3, <1>5, <2>7, <2>9, PushPage DEF S
  <2>11. q.page[c] = f /\ q.top[c] = 0
    BY <1>2, <2>6
  <2>12. StackContents(q, c) = S \cup {f}
    BY <2>5, <2>10, <2>11, ContentsFound
  <2>13. IsStack(c, q.page[c], q.top[c], q.mem, StackContents(q, c))
    BY <2>5, <2>10, <2>11, <2>12
  <2>14. ASSUME NEW d \in Class, d # c
         PROVE  /\ StackContents(q, d) = StackContents(p, d)
                /\ IsStack(d, q.page[d], q.top[d], q.mem, StackContents(q, d))
    <3>1. f \notin StackContents(p, d) \cup {KernelPage[d]}
      BY <2>14 DEF Stacks, OfClass
    <3>2. StackContents(p, d) \cup {KernelPage[d]} \subseteq DOMAIN p.mem
      BY <1>2, Constants DEF Stacks, IsStack, MemType
    <3>3. \A g \in StackContents(p, d) \cup {KernelPage[d]} : q.mem[g] = p.mem[g]
      BY <2>5, <2>9, <3>1, <3>2
    <3>4. q.page[d] = p.page[d] /\ q.top[d] = p.top[d]
      BY <1>2, <2>6, <2>14
    <3>5. QED
      BY <2>5, <2>7, <3>3, <3>4, OtherStacks
  <2>15. Stacks(q)
    <3>1. S \cup {f} \subseteq OfClass(c) /\ \A d \in Class : KernelPage[d] \notin S \cup {f}
      BY <1>3 DEF Stacks, S
    <3>2. ASSUME NEW e \in Class
          PROVE  /\ IsStack(e, q.page[e], q.top[e], q.mem, StackContents(q, e))
                 /\ StackContents(q, e) \subseteq OfClass(e)
                 /\ \A d \in Class : KernelPage[d] \notin StackContents(q, e)
      <4>1. CASE e = c
        BY <2>12, <2>13, <3>1, <4>1
      <4>2. CASE e # c
        BY <2>14, <4>2 DEF Stacks
      <4>3. QED
        BY <4>1, <4>2
    <3>3. QED
      BY <3>2 DEF Stacks
  <2>16. QED
    BY <2>6, <2>8, <2>12, <2>14, <2>15 DEF q, S
<1>6. QED
  BY <1>4, <1>5

LEMMA PoolRecord ==
    ASSUME NEW p, p \in PoolType
    PROVE  /\ p.page \in [Class -> Frames] /\ p.top \in [Class -> 0..StackFrames]
           /\ p.mem \in MemType /\ p.emerg \in Seq(Frames) /\ p.count \in Int
           /\ p = [page |-> p.page, top |-> p.top, mem |-> p.mem, emerg |-> p.emerg,
                   count |-> p.count]
BY DEF PoolType

\* What is written last in the mapped page is in the stack.
LEMMA StackEntry ==
    ASSUME NEW c \in Class, NEW page, NEW top, NEW mem, NEW S,
           IsStack(c, page, top, mem, S), top # 0
    PROVE  mem[page].frames[top] \in S
<1>1. mem \in MemType
  BY DEF IsStack
<1>2. QED
  BY <1>1, PopEntry

\* The low stack never says that it has nothing.
LEMMA LowEndless ==
    ASSUME NEW p, p \in PoolType, Stacks(p)
    PROVE  ~Exhausted(p, "low")
<1>1. SUFFICES ASSUME Exhausted(p, "low") PROVE FALSE
  OBVIOUS
<1> DEFINE c == "low"
<1>2. c \in Class /\ p.top[c] = 0 /\ p.mem[p.page[c]].next = FrameEnd
  BY <1>1 DEF Exhausted, FRAME_NULL, Class
<1>3. IsStack(c, p.page[c], p.top[c], p.mem, StackContents(p, c))
  BY <1>2 DEF Stacks
<1>4. p.mem[p.page[c]].next = 0 \/ p.mem[p.page[c]].next \in Frames
  <2> HIDE DEF c
  <2>1. \/ p.mem[p.page[c]].next = LastLink(c)
        \/ p.mem[p.page[c]].next \in Frames
    BY <1>2, <1>3, MappedPage
  <2>2. QED
    BY <2>1 DEF LastLink, c
<1>5. QED
  BY <1>2, <1>4, Constants

LEMMA NothingStacked ==
    ASSUME NEW p, p \in PoolType, Stacks(p), NEW c \in Class, Exhausted(p, c)
    PROVE  StackContents(p, c) = {}
<1>1. IsStack(c, p.page[c], p.top[c], p.mem, StackContents(p, c))
  BY DEF Stacks
<1>2. p.top[c] = 0 /\ p.mem[p.page[c]].next = FrameEnd
  BY DEF Exhausted, FRAME_NULL, Class
<1>3. p.page[c] = KernelPage[c]
  BY <1>1, <1>2, MappedPage, Constants
<1>4. QED
  BY <1>1, <1>2, <1>3, MappedPage

\* A pop from a stack that has nothing, but is not told so, gets the page of the
\* low stack in the kernel's image; any other pop gets what the stack has.
LEMMA PopGives ==
    ASSUME NEW p, p \in PoolType, Stacks(p), NEW c \in Class, ~Exhausted(p, c)
    PROVE  IF StackContents(p, c) # {}
             THEN PopStack(p, c).frame \in StackContents(p, c)
             ELSE c = "low" /\ PopStack(p, c).frame = KernelPage["low"]
<1> DEFINE S == StackContents(p, c)
           page == p.page[c]
           top == p.top[c]
<1>1. IsStack(c, page, top, p.mem, S)
  BY DEF Stacks
<1>2. p.mem \in MemType
  BY PoolRecord
<1>3. CASE top # 0
  <2>1. PopStack(p, c).frame = p.mem[page].frames[top]
    BY <1>3 DEF PopStack, Popped
  <2> HIDE DEF S, page, top
  <2>2. p.mem[page].frames[top] \in S
    BY <1>1, <1>2, <1>3, StackEntry
  <2>3. QED
    BY <2>1, <2>2 DEF S
<1>4. CASE top = 0
  <2>1. p.mem[page].next # FRAME_NULL
    BY <1>4 DEF Exhausted, Class
  <2>2. PopStack(p, c).frame = page
    BY <1>4, <2>1 DEF PopStack, Popped
  <2> HIDE DEF S, page, top
  <2>3. CASE page = KernelPage[c]
    <3>1. S = {} /\ p.mem[page].next = LastLink(c)
      BY <1>1, <1>4, <2>3, MappedPage
    <3>2. c = "low"
      BY <2>1, <3>1 DEF LastLink
    <3>3. QED
      BY <2>2, <2>3, <3>1, <3>2 DEF S
  <2>4. CASE page # KernelPage[c]
    <3>1. page \in S
      BY <1>1, <2>4, MappedPage
    <3>2. QED
      BY <2>2, <3>1 DEF S
  <2>5. QED
    BY <2>3, <2>4
<1>5. QED
  BY <1>3, <1>4

\* A pop from a stack that has something, unless it gets the page of the low
\* stack in the kernel's image.
LEMMA PopStackOK ==
    ASSUME NEW p, p \in PoolType, Stacks(p), NEW c \in Class, ~Exhausted(p, c),
           PopStack(p, c).frame # KernelPage["low"]
    PROVE  LET q == PopStack(p, c).pool
               f == PopStack(p, c).frame
           IN /\ f \in StackContents(p, c)
              /\ q \in PoolType /\ Stacks(q)
              /\ StackContents(q, c) = StackContents(p, c) \ {f}
              /\ \A d \in Class : d # c => StackContents(q, d) = StackContents(p, d)
              /\ q.emerg = p.emerg /\ q.count = p.count - 1
<1> DEFINE q == PopStack(p, c).pool
           f == PopStack(p, c).frame
           S == StackContents(p, c)
           page == p.page[c]
           top == p.top[c]
<1>1. /\ p.page \in [Class -> Frames] /\ p.top \in [Class -> 0..StackFrames]
      /\ p.mem \in MemType /\ p.emerg \in Seq(Frames) /\ p.count \in Int
      /\ p = [page |-> p.page, top |-> p.top, mem |-> p.mem, emerg |-> p.emerg,
              count |-> p.count]
  BY PoolRecord
<1>2. /\ IsStack(c, page, top, p.mem, S) /\ S \subseteq OfClass(c)
      /\ page \in Frames /\ page \in 0..FrameEnd
      /\ top \in 0..StackFrames /\ p.mem[page] \in PageType
  BY <1>1, Constants DEF Stacks, MemType
<1>3. /\ p.mem[page].next \in 0..FrameEnd
      /\ p.mem[page].frames \in [1..StackFrames -> 0..FrameEnd]
      /\ p.mem[page] = [next |-> p.mem[page].next, frames |-> p.mem[page].frames]
  BY <1>2 DEF PageType
<1>4. ASSUME NEW mem2 \in MemType, NEW page2 \in Frames, NEW top2 \in 0..StackFrames,
             q = [page |-> [p.page EXCEPT ![c] = page2],
                  top |-> [p.top EXCEPT ![c] = top2], mem |-> mem2,
                  emerg |-> p.emerg, count |-> p.count - 1],
             \A g \in DOMAIN p.mem \ {page} : mem2[g] = p.mem[g],
             f \in S, IsStack(c, page2, top2, mem2, S \ {f})
      PROVE  /\ f \in StackContents(p, c)
             /\ q \in PoolType /\ Stacks(q)
             /\ StackContents(q, c) = StackContents(p, c) \ {f}
             /\ \A d \in Class : d # c => StackContents(q, d) = StackContents(p, d)
             /\ q.emerg = p.emerg /\ q.count = p.count - 1
  <2> HIDE DEF q, f, S, page, top
  <2>1. q \in PoolType
    BY <1>1, <1>4 DEF PoolType
  <2>2. /\ q.page[c] = page2 /\ q.top[c] = top2 /\ q.mem = mem2
        /\ q.emerg = p.emerg /\ q.count = p.count - 1
    BY <1>1, <1>4
  <2>8. IsStack(c, q.page[c], q.top[c], q.mem, S \ {f})
    BY <1>4, <2>2
  <2>3. StackContents(q, c) = S \ {f}
    BY <2>8, ContentsFound
  <2>4. IsStack(c, q.page[c], q.top[c], q.mem, StackContents(q, c))
    BY <2>3, <2>8
  <2>5. ASSUME NEW d \in Class, d # c
        PROVE  /\ StackContents(q, d) = StackContents(p, d)
               /\ IsStack(d, q.page[d], q.top[d], q.mem, StackContents(q, d))
    <3>1. page \notin StackContents(p, d) \cup {KernelPage[d]}
      BY <2>5, PageOfOne DEF page
    <3>2. StackContents(p, d) \cup {KernelPage[d]} \subseteq DOMAIN p.mem
      BY <1>1, Constants DEF Stacks, IsStack, MemType
    <3>3. \A g \in StackContents(p, d) \cup {KernelPage[d]} : q.mem[g] = p.mem[g]
      BY <1>4, <2>2, <3>1, <3>2
    <3>4. q.page[d] = p.page[d] /\ q.top[d] = p.top[d]
      BY <1>1, <1>4, <2>5
    <3>5. q.mem \in MemType
      BY <1>4, <2>2
    <3>6. QED
      BY <3>3, <3>4, <3>5, OtherStacks
  <2>6. Stacks(q)
    <3>1. S \ {f} \subseteq OfClass(c) /\ \A d \in Class : KernelPage[d] \notin S \ {f}
      BY <1>2 DEF Stacks, S
    <3>2. ASSUME NEW e \in Class
          PROVE  /\ IsStack(e, q.page[e], q.top[e], q.mem, StackContents(q, e))
                 /\ StackContents(q, e) \subseteq OfClass(e)
                 /\ \A d \in Class : KernelPage[d] \notin StackContents(q, e)
      <4>1. CASE e = c
        BY <2>3, <2>4, <3>1, <4>1
      <4>2. CASE e # c
        BY <2>5, <4>2 DEF Stacks
      <4>3. QED
        BY <4>1, <4>2
    <3>3. QED
      BY <3>2 DEF Stacks
  <2>7. QED
    BY <1>4, <2>1, <2>2, <2>3, <2>5, <2>6 DEF S
<1>5. CASE top # 0
  <2> DEFINE mem2 == [p.mem EXCEPT ![page] =
                        [next |-> p.mem[page].next,
                         frames |-> [p.mem[page].frames EXCEPT ![top] = FRAME_NULL]]]
  <2>1. /\ f = p.mem[page].frames[top]
        /\ q = [p EXCEPT !.mem[page].frames[top] = FRAME_NULL, !.top[c] = @ - 1,
                         !.count = @ - 1]
    BY <1>5 DEF PopStack, Popped
  <2>2. q = [page |-> [p.page EXCEPT ![c] = page],
             top |-> [p.top EXCEPT ![c] = top - 1],
             mem |-> [p.mem EXCEPT ![page].frames[top] = FRAME_NULL],
             emerg |-> p.emerg, count |-> p.count - 1]
    BY <1>1, <2>1
  <2>3. [p.mem EXCEPT ![page].frames[top] = FRAME_NULL] = mem2
    BY <1>3
  <2>4. top \in 1..StackFrames /\ top - 1 \in 0..StackFrames
    BY <1>2, <1>5, Constants
  <2>5. mem2 \in MemType
    <3>1. FRAME_NULL \in 0..FrameEnd
      BY Constants DEF FRAME_NULL
    <3>2. QED
      BY <1>1, <1>2, <1>3, <2>4, <3>1 DEF MemType, PageType
  <2>6. /\ \A g \in DOMAIN p.mem \ {page} : mem2[g] = p.mem[g]
        /\ mem2[page].next = p.mem[page].next
        /\ \A j \in 1..(top - 1) : mem2[page].frames[j] = p.mem[page].frames[j]
    <3>1. \A j \in 1..(top - 1) : j \in 1..StackFrames /\ j # top
      BY <1>2, <2>4, Constants
    <3>2. /\ \A g \in DOMAIN p.mem \ {page} : mem2[g] = p.mem[g]
          /\ mem2[page] = [next |-> p.mem[page].next,
                           frames |-> [p.mem[page].frames EXCEPT ![top] = FRAME_NULL]]
      BY <1>1, <1>2 DEF MemType
    <3> HIDE DEF mem2
    <3>3. mem2[page].next = p.mem[page].next
          /\ mem2[page].frames = [p.mem[page].frames EXCEPT ![top] = FRAME_NULL]
      BY <3>2
    <3> HIDE DEF page, top
    <3>4. QED
      BY <2>4, <1>3, <3>1, <3>2, <3>3
  <2> HIDE DEF q, f, mem2, page, top, S
  <2>7. f \in S /\ IsStack(c, page, top - 1, mem2, S \ {f})
    BY <1>2, <1>5, <2>1, <2>5, <2>6, PopEntry
  <2>8. q = [page |-> [p.page EXCEPT ![c] = page],
             top |-> [p.top EXCEPT ![c] = top - 1], mem |-> mem2,
             emerg |-> p.emerg, count |-> p.count - 1]
    BY <2>2, <2>3
  <2>9. QED
    BY <1>2, <1>4, <2>4, <2>5, <2>6, <2>7, <2>8 DEF q, f
<1>6. CASE top = 0
  <2> DEFINE mem2 == [p.mem EXCEPT ![page] = Blank]
             page2 == p.mem[page].next
  <2>1. page2 # FRAME_NULL
    BY <1>6 DEF Exhausted, Class
  <2>2. /\ f = page
        /\ q = [p EXCEPT !.mem[page] = Blank, !.top[c] = StackFrames,
                         !.page[c] = page2, !.count = @ - 1]
    BY <1>6, <2>1 DEF PopStack, Popped
  <2>3. q = [page |-> [p.page EXCEPT ![c] = page2],
             top |-> [p.top EXCEPT ![c] = StackFrames], mem |-> mem2,
             emerg |-> p.emerg, count |-> p.count - 1]
    BY <1>1, <2>2
  <2>4. Blank \in PageType
    BY Constants DEF Blank, PageType, FRAME_NULL
  <2>5. mem2 \in MemType /\ \A g \in DOMAIN p.mem \ {page} : mem2[g] = p.mem[g]
    BY <1>1, <1>2, <2>4 DEF MemType
  <2> HIDE DEF q, f, mem2, page, top, S
  <2>6. page # KernelPage[c]
    <3>1. SUFFICES ASSUME page = KernelPage[c] PROVE FALSE
      OBVIOUS
    <3>2. page2 = LastLink(c)
      BY <1>2, <3>1, MappedPage
    <3>3. c = "low"
      BY <2>1, <3>2 DEF LastLink
    <3>4. QED
      BY <2>2, <3>1, <3>3 DEF f
  <2>7. page \in S /\ page2 \in Frames
    BY <1>2, <2>6, MappedPage
  <2>8. IsStack(c, page2, StackFrames, mem2, S \ {page})
    BY <1>2, <1>6, <2>5, <2>6, PopPage
  <2>9. StackFrames \in 0..StackFrames
    BY Constants
  <2> HIDE DEF page2
  <2>10. QED
    BY <1>4, <2>2, <2>3, <2>5, <2>7, <2>8, <2>9 DEF q, f
<1>7. QED
  BY <1>5, <1>6

\* The emergency stack has other frames of the middle class, each once, and is
\* full before the stack of that class has any.
EmergencyKept(p) ==
    /\ \A i, j \in DOMAIN p.emerg : p.emerg[i] = p.emerg[j] => i = j
    /\ Elements(p.emerg) \subseteq OfClass("free")
    /\ Elements(p.emerg) \cap StackContents(p, "free") = {}
    /\ \A d \in Class : KernelPage[d] \notin Elements(p.emerg)
    /\ Len(p.emerg) <= EmergStackSize
    /\ Len(p.emerg) # EmergStackSize => StackContents(p, "free") = {}

FramesOf(p) == Elements(p.emerg) \cup UNION {StackContents(p, c) : c \in Class}

PoolOK(p) ==
    /\ p \in PoolType /\ Stacks(p) /\ EmergencyKept(p)
    /\ p.count = Cardinality(FramesOf(p))

LEMMA Classes ==
    /\ \A f \in Frames : ClassOf(f) \in Class /\ f \in OfClass(ClassOf(f))
    /\ \A c, d : \A f \in OfClass(c) : f \in OfClass(d) => c = d
    /\ \A c : OfClass(c) \subseteq Frames
    /\ OfClass("low") \cup OfClass("free") \cup OfClass("high") = Frames
    /\ IsFiniteSet(Frames)
<1>1. IsFiniteSet(Frames)
  <2>1. 0 \in Int /\ FrameEnd - 1 \in Int
    BY Constants
  <2>2. QED
    BY <2>1, FS_Interval DEF Frames
<1>2. \A f \in Frames : ClassOf(f) \in Class /\ f \in OfClass(ClassOf(f))
  BY DEF ClassOf, Class, OfClass, Frames
<1>3. \A c, d : \A f \in OfClass(c) : f \in OfClass(d) => c = d
  BY DEF OfClass
<1>4. \A c : OfClass(c) \subseteq Frames
  BY DEF OfClass, Frames
<1>5. OfClass("low") \cup OfClass("free") \cup OfClass("high") = Frames
  BY <1>2, <1>4 DEF Class
<1>6. QED
  BY <1>1, <1>2, <1>3, <1>4, <1>5

LEMMA FramesByClass ==
    ASSUME NEW p, Stacks(p), Elements(p.emerg) \subseteq OfClass("free")
    PROVE  /\ FramesOf(p) \cap OfClass("low") = StackContents(p, "low")
           /\ FramesOf(p) \cap OfClass("high") = StackContents(p, "high")
           /\ FramesOf(p) \cap OfClass("free") = Elements(p.emerg) \cup StackContents(p, "free")
           /\ FramesOf(p) \subseteq Frames /\ IsFiniteSet(FramesOf(p))
<1>1. "low" \in Class /\ "high" \in Class /\ "free" \in Class
  BY DEF Class
<1>2. /\ StackContents(p, "low") \subseteq OfClass("low")
      /\ StackContents(p, "free") \subseteq OfClass("free")
      /\ StackContents(p, "high") \subseteq OfClass("high")
  BY <1>1 DEF Stacks
<1>3. FramesOf(p) = Elements(p.emerg) \cup StackContents(p, "low")
                      \cup StackContents(p, "free") \cup StackContents(p, "high")
  BY DEF FramesOf, Class
<1>4. FramesOf(p) \subseteq Frames
  BY <1>2, <1>3, Classes
<1>5. IsFiniteSet(FramesOf(p))
  BY <1>4, Classes, FS_Subset
<1>6. QED
  BY <1>2, <1>3, <1>4, <1>5, Classes

LEMMA SameStacks ==
    ASSUME NEW p, p \in PoolType, Stacks(p), NEW q, q.page = p.page, q.top = p.top, q.mem = p.mem
    PROVE  Stacks(q) /\ \A c \in Class : StackContents(q, c) = StackContents(p, c)
<1>1. p.mem \in MemType /\ q.mem \in MemType
  BY PoolRecord
<1>2. ASSUME NEW c \in Class
      PROVE  /\ IsStack(c, q.page[c], q.top[c], q.mem, StackContents(q, c))
             /\ StackContents(q, c) = StackContents(p, c)
  BY <1>1, OtherStacks
<1>3. QED
  BY <1>2 DEF Stacks

\* A frame that is new to the allocator.
LEMMA PushFrameOK ==
    ASSUME NEW p, PoolOK(p), NEW f \in Frames, f \notin FramesOf(p),
           \A d \in Class : f # KernelPage[d]
    PROVE  /\ PoolOK(PushFrame(p, f))
           /\ FramesOf(PushFrame(p, f)) = FramesOf(p) \cup {f}
<1> DEFINE q == [p EXCEPT !.count = @ + 1]
           r == PushFrame(p, f)
<1>1. /\ p.page \in [Class -> Frames] /\ p.top \in [Class -> 0..StackFrames]
      /\ p.mem \in MemType /\ p.emerg \in Seq(Frames) /\ p.count \in Int
      /\ p = [page |-> p.page, top |-> p.top, mem |-> p.mem, emerg |-> p.emerg,
              count |-> p.count]
      /\ p \in PoolType /\ Stacks(p) /\ EmergencyKept(p)
  BY PoolRecord DEF PoolOK
<1>2. q = [page |-> p.page, top |-> p.top, mem |-> p.mem, emerg |-> p.emerg,
           count |-> p.count + 1]
  <2>1. p = [page |-> p.page, top |-> p.top, mem |-> p.mem, emerg |-> p.emerg,
             count |-> p.count]
    BY <1>1
  <2>2. QED
    BY <2>1
<1>3. q \in PoolType
  BY <1>1, <1>2 DEF PoolType
<1>4. q.page = p.page /\ q.top = p.top /\ q.mem = p.mem /\ q.emerg = p.emerg
      /\ q.count = p.count + 1
  BY <1>2
<1>5. /\ r = IF ClassOf(f) = "free" /\ Len(p.emerg) # EmergStackSize
               THEN [q EXCEPT !.emerg = Append(@, f)] ELSE PushStack(q, ClassOf(f), f)
  BY DEF PushFrame
<1> HIDE DEF q, r
<1>6. Stacks(q) /\ \A c \in Class : StackContents(q, c) = StackContents(p, c)
  BY <1>1, <1>4, SameStacks
<1>7. ClassOf(f) \in Class /\ f \in OfClass(ClassOf(f))
  BY Classes
<1>8. /\ f \notin Elements(p.emerg) /\ \A c \in Class : f \notin StackContents(p, c)
      /\ IsFiniteSet(FramesOf(p)) /\ p.count = Cardinality(FramesOf(p))
  BY <1>1, FramesByClass DEF FramesOf, EmergencyKept, PoolOK
<1>9. ASSUME r.count = p.count + 1, FramesOf(r) = FramesOf(p) \cup {f}
      PROVE  r.count = Cardinality(FramesOf(r))
  BY <1>8, <1>9, FS_AddElement
<1>10. CASE ClassOf(f) = "free" /\ Len(p.emerg) # EmergStackSize
  <2>1. r = [q EXCEPT !.emerg = Append(@, f)]
    BY <1>5, <1>10
  <2>2. /\ r = [page |-> p.page, top |-> p.top, mem |-> p.mem,
                emerg |-> Append(p.emerg, f), count |-> p.count + 1]
    BY <1>2, <2>1
  <2>3. /\ r.page = p.page /\ r.top = p.top /\ r.mem = p.mem
        /\ r.emerg = Append(p.emerg, f) /\ r.count = p.count + 1
    BY <2>2
  <2>4. r \in PoolType
    BY <1>1, <2>2 DEF PoolType
  <2>5. Stacks(r) /\ \A c \in Class : StackContents(r, c) = StackContents(p, c)
    BY <1>1, <2>3, SameStacks
  <2>6. /\ Len(p.emerg) \in Nat /\ DOMAIN p.emerg = 1..Len(p.emerg)
        /\ Len(r.emerg) = Len(p.emerg) + 1 /\ DOMAIN r.emerg = 1..(Len(p.emerg) + 1)
        /\ \A i \in DOMAIN p.emerg : r.emerg[i] = p.emerg[i]
        /\ r.emerg[Len(p.emerg) + 1] = f
    BY <1>1, <2>3
  <2>7. \A i \in DOMAIN r.emerg : i \in DOMAIN p.emerg \/ i = Len(p.emerg) + 1
    BY <2>6
  <2>8. Elements(r.emerg) = Elements(p.emerg) \cup {f}
    <3>1. \A i \in DOMAIN p.emerg : i \in DOMAIN r.emerg
      BY <2>6
    <3>2. Len(p.emerg) + 1 \in DOMAIN r.emerg
      BY <2>6
    <3>3. QED
      BY <2>6, <2>7, <3>1, <3>2 DEF Elements
  <2>9. \A i, j \in DOMAIN r.emerg : r.emerg[i] = r.emerg[j] => i = j
    BY <1>1, <1>8, <2>6, <2>7 DEF Elements, EmergencyKept
  <2>10. Len(p.emerg) + 1 <= EmergStackSize
    BY <1>1, <1>10, <2>6, FrameAllocAssumption DEF EmergencyKept
  <2>11. StackContents(r, "free") = {}
    BY <1>1, <1>10, <2>5 DEF EmergencyKept, Class
  <2>12. /\ Elements(r.emerg) \subseteq OfClass("free")
         /\ \A d \in Class : KernelPage[d] \notin Elements(r.emerg)
    BY <1>1, <1>7, <1>10, <2>8 DEF EmergencyKept
  <2>13. EmergencyKept(r)
    BY <2>6, <2>9, <2>10, <2>11, <2>12 DEF EmergencyKept
  <2>14. FramesOf(r) = FramesOf(p) \cup {f}
    BY <2>5, <2>8 DEF FramesOf
  <2>15. QED
    BY <1>9, <2>3, <2>4, <2>5, <2>13, <2>14 DEF PoolOK, r
<1>11. CASE ~(ClassOf(f) = "free" /\ Len(p.emerg) # EmergStackSize)
  <2>1. r = PushStack(q, ClassOf(f), f)
    BY <1>5, <1>11
  <2>2. f \notin StackContents(q, ClassOf(f))
    BY <1>6, <1>7, <1>8
  <2>3. /\ r \in PoolType /\ Stacks(r)
        /\ StackContents(r, ClassOf(f)) = StackContents(q, ClassOf(f)) \cup {f}
        /\ \A d \in Class : d # ClassOf(f) => StackContents(r, d) = StackContents(q, d)
        /\ r.emerg = q.emerg /\ r.count = q.count
    BY <1>3, <1>6, <1>7, <2>1, <2>2, PushStackOK
  <2>4. /\ StackContents(r, ClassOf(f)) = StackContents(p, ClassOf(f)) \cup {f}
        /\ \A d \in Class : d # ClassOf(f) => StackContents(r, d) = StackContents(p, d)
        /\ r.emerg = p.emerg /\ r.count = p.count + 1
    BY <1>4, <1>6, <1>7, <2>3
  <2>5. FramesOf(r) = FramesOf(p) \cup {f}
    BY <1>7, <2>4 DEF FramesOf
  <2>6. Elements(r.emerg) \cap StackContents(r, "free") = {}
    BY <1>1, <1>7, <1>8, <2>4 DEF EmergencyKept, Class
  <2>7. Len(r.emerg) # EmergStackSize => StackContents(r, "free") = {}
    BY <1>1, <1>7, <1>11, <2>4 DEF EmergencyKept, Class
  <2>8. EmergencyKept(r)
    BY <1>1, <2>4, <2>6, <2>7 DEF EmergencyKept
  <2>9. QED
    BY <1>9, <2>3, <2>4, <2>5, <2>8 DEF PoolOK, r
<1>12. QED
  BY <1>10, <1>11

LEMMA PopClassOK ==
    ASSUME NEW p, PoolOK(p), NEW c \in Class, ~Exhausted(p, c),
           PopStack(p, c).frame # KernelPage["low"]
    PROVE  LET q == PopStack(p, c).pool
               f == PopStack(p, c).frame
           IN /\ f \in StackContents(p, c) /\ PoolOK(q)
              /\ FramesOf(q) = FramesOf(p) \ {f}
              /\ StackContents(q, c) = StackContents(p, c) \ {f}
              /\ \A d \in Class : d # c => StackContents(q, d) = StackContents(p, d)
              /\ q.emerg = p.emerg
<1> DEFINE q == PopStack(p, c).pool
           f == PopStack(p, c).frame
<1>1. /\ p \in PoolType /\ Stacks(p) /\ EmergencyKept(p)
      /\ p.count = Cardinality(FramesOf(p))
  BY DEF PoolOK
<1>2. /\ f \in StackContents(p, c)
      /\ q \in PoolType /\ Stacks(q)
      /\ StackContents(q, c) = StackContents(p, c) \ {f}
      /\ \A d \in Class : d # c => StackContents(q, d) = StackContents(p, d)
      /\ q.emerg = p.emerg /\ q.count = p.count - 1
  BY <1>1, PopStackOK
<1> HIDE DEF q, f
<1>3. f \in OfClass(c) /\ IsFiniteSet(FramesOf(p)) /\ f \in FramesOf(p)
  BY <1>1, <1>2, FramesByClass DEF Stacks, EmergencyKept, FramesOf
<1>4. \A d \in Class : d # c => f \notin StackContents(p, d)
  BY <1>1, <1>3, Classes DEF Stacks
<1>5. f \notin Elements(p.emerg)
  <2>1. CASE c = "free"
    BY <1>1, <1>2, <2>1 DEF EmergencyKept
  <2>2. CASE c # "free"
    BY <1>1, <1>3, <2>2, Classes DEF EmergencyKept
  <2>3. QED
    BY <2>1, <2>2
<1>6. FramesOf(q) = FramesOf(p) \ {f}
  BY <1>2, <1>4, <1>5 DEF FramesOf
<1>7. q.count = Cardinality(FramesOf(q))
  BY <1>1, <1>2, <1>3, <1>6, FS_RemoveElement
<1>8. StackContents(q, "free") \subseteq StackContents(p, "free")
  BY <1>2 DEF Class
<1>9. EmergencyKept(q)
  BY <1>1, <1>2, <1>8 DEF EmergencyKept
<1>10. QED
  BY <1>2, <1>6, <1>7, <1>9 DEF PoolOK, q, f

LEMMA PopEmergOK ==
    ASSUME NEW p, PoolOK(p), ~Exhausted(p, "emerg"), StackContents(p, "free") = {}
    PROVE  LET q == PopEmerg(p).pool
               f == PopEmerg(p).frame
           IN /\ f \in Elements(p.emerg) /\ PoolOK(q)
              /\ FramesOf(q) = FramesOf(p) \ {f}
              /\ \A d \in Class : StackContents(q, d) = StackContents(p, d)
              /\ Elements(q.emerg) = Elements(p.emerg) \ {f}
<1> DEFINE q == PopEmerg(p).pool
           f == PopEmerg(p).frame
           n == Len(p.emerg)
           rest == SubSeq(p.emerg, 1, n - 1)
<1>1. /\ p \in PoolType /\ Stacks(p) /\ EmergencyKept(p)
      /\ p.count = Cardinality(FramesOf(p))
  BY DEF PoolOK
<1>2. p.emerg \in Seq(Frames) /\ p.count \in Int
  BY <1>1, PoolRecord
<1>3. n \in Nat /\ n # 0 /\ DOMAIN p.emerg = 1..n
  BY <1>2 DEF Exhausted
<1>4. f = p.emerg[n] /\ q = [[p EXCEPT !.emerg = rest] EXCEPT !.count = @ - 1]
  BY <1>3 DEF PopEmerg, Popped
<1>5. q = [page |-> p.page, top |-> p.top, mem |-> p.mem, emerg |-> rest,
           count |-> p.count - 1]
  <2>1. p = [page |-> p.page, top |-> p.top, mem |-> p.mem, emerg |-> p.emerg,
             count |-> p.count]
    BY <1>1, PoolRecord
  <2>2. QED
    BY <1>4, <2>1
<1>6. /\ rest \in Seq(Frames) /\ Len(rest) = n - 1 /\ DOMAIN rest = 1..(n - 1)
      /\ \A i \in 1..(n - 1) : rest[i] = p.emerg[i]
  BY <1>2, <1>3
<1> HIDE DEF q, f, rest
<1>7. /\ q.page = p.page /\ q.top = p.top /\ q.mem = p.mem /\ q.emerg = rest
      /\ q.count = p.count - 1
  BY <1>5
<1>8. q \in PoolType
  <2>1. p.page \in [Class -> Frames] /\ p.top \in [Class -> 0..StackFrames]
        /\ p.mem \in MemType
    BY <1>1, PoolRecord
  <2>2. QED
    BY <1>2, <1>5, <1>6, <2>1 DEF PoolType
<1>9. Stacks(q) /\ \A d \in Class : StackContents(q, d) = StackContents(p, d)
  BY <1>1, <1>7, SameStacks
<1>10. \A i \in 1..n : i # n => i \in 1..(n - 1)
  BY <1>3
<1>11. n \in 1..n /\ \A i \in 1..(n - 1) : i \in 1..n /\ i # n
  BY <1>3
<1>12. \A i, j \in 1..n : p.emerg[i] = p.emerg[j] => i = j
  BY <1>1, <1>3 DEF EmergencyKept
<1> HIDE DEF n
<1>13. Elements(rest) = Elements(p.emerg) \ {f}
  BY <1>3, <1>4, <1>6, <1>10, <1>11, <1>12 DEF Elements
<1>14. f \in Elements(p.emerg)
  BY <1>3, <1>4, <1>11 DEF Elements
<1>15. \A d \in Class : f \notin StackContents(p, d)
  BY <1>1, <1>14, Classes DEF EmergencyKept, Stacks
<1>16. FramesOf(q) = FramesOf(p) \ {f} /\ f \in FramesOf(p)
  BY <1>7, <1>9, <1>13, <1>14, <1>15 DEF FramesOf
<1>17. q.count = Cardinality(FramesOf(q))
  <2>1. IsFiniteSet(FramesOf(p))
    BY <1>1, FramesByClass DEF EmergencyKept
  <2>2. QED
    BY <1>1, <1>7, <1>16, <2>1, FS_RemoveElement
<1>18. EmergencyKept(q)
  <2>1. \A i, j \in DOMAIN rest : rest[i] = rest[j] => i = j
    BY <1>6, <1>11, <1>12
  <2>2. Len(rest) <= EmergStackSize
    BY <1>1, <1>3, <1>6, FrameAllocAssumption DEF EmergencyKept, n
  <2>3. StackContents(q, "free") = {}
    BY <1>9 DEF Class
  <2>4. /\ Elements(rest) \subseteq OfClass("free")
        /\ \A d \in Class : KernelPage[d] \notin Elements(rest)
    BY <1>1, <1>13 DEF EmergencyKept
  <2>5. QED
    BY <1>7, <2>1, <2>2, <2>3, <2>4 DEF EmergencyKept
<1>19. QED
  BY <1>7, <1>8, <1>9, <1>13, <1>14, <1>16, <1>17, <1>18 DEF PoolOK, q, f

-----------------------------------------------------------------------------
(* Requests.                                                               *)

\* The sources a request may use, and the order in which it looks at them.
Open(fl) ==
    IF "FA_LOW_MEM" \in fl THEN {"low"}
    ELSE (IF "FA_32BIT" \in fl THEN {} ELSE {"high"}) \cup {"free"}
           \cup (IF "FA_EMERG" \in fl THEN {"emerg", "low"} ELSE {})

Rank(s) == IF s = "high" THEN 1 ELSE IF s = "free" THEN 2 ELSE IF s = "emerg" THEN 3 ELSE 4

FramesIn(p, s) == IF s = "emerg" THEN Elements(p.emerg) ELSE StackContents(p, s)

\* The frames that a request can be given.
Obtainable(p, fl) == UNION {FramesIn(p, s) : s \in Open(fl)}

\* Tuples put together.
LEMMA OneAndOne ==
    ASSUME NEW x, NEW y
    PROVE  <<x>> \o <<y>> = <<x, y>>
<1> DEFINE S == {x, y}
           s == <<x>> \o <<y>>
<1>1. /\ <<x>> \in Seq(S) /\ <<y>> \in Seq(S)
      /\ Len(<<x>>) = 1 /\ Len(<<y>>) = 1
  OBVIOUS
<1>2. s \in Seq(S) /\ Len(s) = 2
  BY <1>1
<1>3. s[1] = x /\ s[2] = y
  OBVIOUS
<1> HIDE DEF s
<1>4. s = <<x, y>>
  BY <1>2, <1>3
<1>5. QED
  BY <1>4 DEF s

LEMMA OneAndTwo ==
    ASSUME NEW x, NEW y, NEW z
    PROVE  <<x>> \o <<y, z>> = <<x, y, z>>
<1> DEFINE S == {x, y, z}
           s == <<x>> \o <<y, z>>
<1>1. /\ <<x>> \in Seq(S) /\ <<y, z>> \in Seq(S)
      /\ Len(<<x>>) = 1 /\ Len(<<y, z>>) = 2
  OBVIOUS
<1>2. s \in Seq(S) /\ Len(s) = 3
  BY <1>1
<1>3. s[1] = x /\ s[2] = y /\ s[3] = z
  OBVIOUS
<1> HIDE DEF s
<1>4. s = <<x, y, z>>
  BY <1>2, <1>3
<1>5. QED
  BY <1>4 DEF s

LEMMA TwoAndTwo ==
    ASSUME NEW w, NEW x, NEW y, NEW z
    PROVE  <<w, x>> \o <<y, z>> = <<w, x, y, z>>
<1> DEFINE S == {w, x, y, z}
           s == <<w, x>> \o <<y, z>>
<1>1. /\ <<w, x>> \in Seq(S) /\ <<y, z>> \in Seq(S)
      /\ Len(<<w, x>>) = 2 /\ Len(<<y, z>>) = 2
  OBVIOUS
<1>2. s \in Seq(S) /\ Len(s) = 4
  BY <1>1
<1>3. s[1] = w /\ s[2] = x /\ s[3] = y /\ s[4] = z
  OBVIOUS
<1> HIDE DEF s
<1>4. s = <<w, x, y, z>>
  BY <1>2, <1>3
<1>5. QED
  BY <1>4 DEF s

LEMMA SourcesAre ==
    ASSUME NEW fl
    PROVE  /\ \E n \in Nat : DOMAIN Sources(fl) = 1..n
           /\ Elements(Sources(fl)) = Open(fl)
           /\ \A i, j \in DOMAIN Sources(fl) :
                Rank(Sources(fl)[i]) < Rank(Sources(fl)[j]) => i < j
<1>1. CASE "FA_LOW_MEM" \in fl
  <2>1. Sources(fl) = <<"low">> /\ Open(fl) = {"low"}
    BY <1>1 DEF Sources, Open
  <2>2. QED
    BY <2>1 DEF Elements, Rank
<1>2. CASE "FA_LOW_MEM" \notin fl /\ "FA_32BIT" \in fl /\ "FA_EMERG" \in fl
  <2>1. Sources(fl) = <<"free", "emerg", "low">> /\ Open(fl) = {"free", "emerg", "low"}
    <3>1. Sources(fl) = (<<>> \o <<"free">>) \o <<"emerg", "low">>
      BY <1>2 DEF Sources
    <3>2. <<>> \o <<"free">> = <<"free">>
      OBVIOUS
    <3>3. Sources(fl) = <<"free", "emerg", "low">>
      BY <3>1, <3>2, OneAndTwo
    <3>4. QED
      BY <1>2, <3>3 DEF Open
  <2>2. QED
    BY <2>1 DEF Elements, Rank
<1>3. CASE "FA_LOW_MEM" \notin fl /\ "FA_32BIT" \in fl /\ "FA_EMERG" \notin fl
  <2>1. Sources(fl) = <<"free">> /\ Open(fl) = {"free"}
    <3>1. Sources(fl) = (<<>> \o <<"free">>) \o <<>>
      BY <1>3 DEF Sources
    <3>2. <<>> \o <<"free">> = <<"free">> /\ <<"free">> \o <<>> = <<"free">>
      OBVIOUS
    <3>3. QED
      BY <1>3, <3>1, <3>2 DEF Open
  <2>2. QED
    BY <2>1 DEF Elements, Rank
<1>4. CASE "FA_LOW_MEM" \notin fl /\ "FA_32BIT" \notin fl /\ "FA_EMERG" \in fl
  <2>1. Sources(fl) = <<"high", "free", "emerg", "low">>
        /\ Open(fl) = {"high", "free", "emerg", "low"}
    <3>1. Sources(fl) = (<<"high">> \o <<"free">>) \o <<"emerg", "low">>
      BY <1>4 DEF Sources
    <3>2. <<"high">> \o <<"free">> = <<"high", "free">>
      BY OneAndOne
    <3>3. <<"high", "free">> \o <<"emerg", "low">> = <<"high", "free", "emerg", "low">>
      BY TwoAndTwo
    <3>4. Sources(fl) = <<"high", "free", "emerg", "low">>
      BY <3>1, <3>2, <3>3
    <3>5. QED
      BY <1>4, <3>4 DEF Open
  <2>2. QED
    BY <2>1 DEF Elements, Rank
<1>5. CASE "FA_LOW_MEM" \notin fl /\ "FA_32BIT" \notin fl /\ "FA_EMERG" \notin fl
  <2>1. Sources(fl) = <<"high", "free">> /\ Open(fl) = {"high", "free"}
    <3>1. Sources(fl) = (<<"high">> \o <<"free">>) \o <<>>
      BY <1>5 DEF Sources
    <3>2. <<"high", "free">> \o <<>> = <<"high", "free">>
      OBVIOUS
    <3>3. Sources(fl) = <<"high", "free">>
      BY <3>1, <3>2, OneAndOne
    <3>4. QED
      BY <1>5, <3>3 DEF Open
  <2>2. QED
    BY <2>1 DEF Elements, Rank
<1>6. QED
  BY <1>1, <1>2, <1>3, <1>4, <1>5

LEMMA FirstOf ==
    ASSUME NEW n \in Nat, NEW S \in SUBSET (1..n), S # {}
    PROVE  FirstIndex(S) \in S /\ \A j \in S : FirstIndex(S) <= j
<1>1. S \in SUBSET Nat
  OBVIOUS
<1>2. \E i \in S : \A j \in S : i <= j
  BY <1>1, LeastNat
<1>3. QED
  BY <1>2 DEF FirstIndex

\* A request takes from the first source that has something.
LEMMA FirstSource ==
    ASSUME NEW p, NEW fl
    PROVE  \/ /\ \A s \in Open(fl) : Exhausted(p, s)
              /\ AllocFrame(p, fl) = NothingPopped(p)
           \/ \E s \in Open(fl) :
                /\ ~Exhausted(p, s) /\ AllocFrame(p, fl) = Pop(p, s)
                /\ \A t \in Open(fl) : Rank(t) < Rank(s) => Exhausted(p, t)
<1> DEFINE from == Sources(fl)
           found == {i \in DOMAIN from : ~Exhausted(p, from[i])}
<1>1. PICK n \in Nat : DOMAIN from = 1..n
  BY SourcesAre
<1>2. Elements(from) = Open(fl)
  BY SourcesAre
<1>3. CASE found = {}
  <2>1. AllocFrame(p, fl) = NothingPopped(p)
    BY <1>3 DEF AllocFrame
  <2>2. \A s \in Open(fl) : Exhausted(p, s)
    BY <1>2, <1>3 DEF Elements
  <2>3. QED
    BY <2>1, <2>2
<1>4. CASE found # {}
  <2> DEFINE i == FirstIndex(found)
  <2>1. AllocFrame(p, fl) = Pop(p, from[i])
    BY <1>4 DEF AllocFrame
  <2>2. found \in SUBSET (1..n)
    BY <1>1
  <2>3. i \in found /\ \A j \in found : i <= j
    BY <1>4, <2>2, FirstOf
  <2>4. from[i] \in Open(fl) /\ ~Exhausted(p, from[i])
    BY <1>2, <2>3 DEF Elements
  <2>5. ASSUME NEW t \in Open(fl), Rank(t) < Rank(from[i]) PROVE Exhausted(p, t)
    <3>1. PICK j \in DOMAIN from : t = from[j]
      BY <1>2 DEF Elements
    <3>2. j < i
      BY <2>3, <2>5, <3>1, SourcesAre
    <3>3. j \notin found
      <4>1. i \in Nat /\ j \in Nat
        BY <1>1, <2>2, <2>3, <3>1
      <4> HIDE DEF i, found
      <4>2. QED
        BY <2>3, <3>2, <4>1
    <3>4. QED
      BY <3>1, <3>3
  <2>6. QED
    BY <2>1, <2>4, <2>5
<1>5. QED
  BY <1>3, <1>4

\* What is exhausted has nothing.
LEMMA NothingIn ==
    ASSUME NEW p, PoolOK(p), NEW s, s = "emerg" \/ s \in Class, Exhausted(p, s)
    PROVE  FramesIn(p, s) = {}
<1>1. CASE s = "emerg"
  BY <1>1 DEF FramesIn, Exhausted, Elements
<1>2. CASE s \in Class /\ s # "emerg"
  BY <1>2, NothingStacked DEF FramesIn, PoolOK
<1>3. QED
  BY <1>1, <1>2

\* A request for one frame: it is taken from those that can be obtained, low
\* memory last, and if there is none there is none to be obtained.
LEMMA AllocFrameOK ==
    ASSUME NEW p, PoolOK(p), NEW fl, AllocFrame(p, fl).frame # KernelPage["low"]
    PROVE  LET q == AllocFrame(p, fl).pool
               f == AllocFrame(p, fl).frame
           IN /\ f = FRAME_NULL => q = p /\ Obtainable(p, fl) = {}
              /\ f # FRAME_NULL =>
                   /\ f \in Obtainable(p, fl) /\ f \in FramesOf(p) /\ PoolOK(q)
                   /\ FramesOf(q) = FramesOf(p) \ {f}
                   /\ Obtainable(q, fl) = Obtainable(p, fl) \ {f}
                   /\ f \in OfClass("low") => Obtainable(p, fl) \subseteq OfClass("low")
<1> DEFINE q == AllocFrame(p, fl).pool
           f == AllocFrame(p, fl).frame
<1>1. Open(fl) \subseteq {"emerg", "low", "free", "high"}
  BY DEF Open
<1>2. \A s \in Open(fl) : s # "emerg" => s \in Class
  BY <1>1 DEF Class
<1>3. \A s \in Class : s # "emerg"
  BY DEF Class
<1>4. Stacks(p) /\ EmergencyKept(p) /\ FramesOf(p) \subseteq Frames
  BY FramesByClass DEF PoolOK, EmergencyKept
<1>5. CASE /\ \A s \in Open(fl) : Exhausted(p, s)
           /\ AllocFrame(p, fl) = NothingPopped(p)
  <2>1. q = p /\ f = FRAME_NULL
    BY <1>5 DEF NothingPopped
  <2>2. \A s \in Open(fl) : FramesIn(p, s) = {}
    BY <1>2, <1>5, NothingIn
  <2>3. Obtainable(p, fl) = {}
    BY <2>2 DEF Obtainable
  <2>4. QED
    BY <2>1, <2>3
<1>6. ASSUME NEW s \in Open(fl), ~Exhausted(p, s), AllocFrame(p, fl) = Pop(p, s),
             \A t \in Open(fl) : Rank(t) < Rank(s) => Exhausted(p, t)
      PROVE  /\ f \in Obtainable(p, fl) /\ f \in FramesOf(p) /\ PoolOK(q)
             /\ FramesOf(q) = FramesOf(p) \ {f}
             /\ Obtainable(q, fl) = Obtainable(p, fl) \ {f}
             /\ f \in OfClass("low") => Obtainable(p, fl) \subseteq OfClass("low")
  <2>1. /\ f \in FramesIn(p, s) /\ PoolOK(q)
        /\ FramesOf(q) = FramesOf(p) \ {f}
        /\ FramesIn(q, s) = FramesIn(p, s) \ {f}
        /\ \A t \in Open(fl) : t # s => FramesIn(q, t) = FramesIn(p, t)
    <3>1. CASE s = "emerg"
      <4>1. "free" \in Open(fl) /\ Rank("free") < Rank("emerg")
        BY <3>1 DEF Open, Rank
      <4>2. FramesIn(p, "free") = {}
        BY <1>6, <3>1, <4>1, NothingIn DEF Class
      <4>3. StackContents(p, "free") = {}
        BY <4>2 DEF FramesIn
      <4>4. q = PopEmerg(p).pool /\ f = PopEmerg(p).frame
        BY <1>6, <3>1 DEF Pop
      <4> HIDE DEF q, f
      <4>5. /\ f \in Elements(p.emerg) /\ PoolOK(q)
            /\ FramesOf(q) = FramesOf(p) \ {f}
            /\ \A d \in Class : StackContents(q, d) = StackContents(p, d)
            /\ Elements(q.emerg) = Elements(p.emerg) \ {f}
        BY <1>6, <3>1, <4>3, <4>4, PopEmergOK
      <4>6. QED
        BY <1>2, <3>1, <4>5 DEF FramesIn
    <3>2. CASE s # "emerg"
      <4>1. s \in Class
        BY <1>2, <3>2
      <4>2. q = PopStack(p, s).pool /\ f = PopStack(p, s).frame
            /\ f # KernelPage["low"]
        BY <1>6, <3>2 DEF Pop
      <4> HIDE DEF q, f
      <4>3. /\ f \in StackContents(p, s) /\ PoolOK(q)
            /\ FramesOf(q) = FramesOf(p) \ {f}
            /\ StackContents(q, s) = StackContents(p, s) \ {f}
            /\ \A d \in Class : d # s => StackContents(q, d) = StackContents(p, d)
            /\ q.emerg = p.emerg
        BY <1>6, <4>1, <4>2, PopClassOK
      <4>4. QED
        BY <1>2, <3>2, <4>3 DEF FramesIn
    <3>3. QED
      BY <3>1, <3>2
  <2> HIDE DEF q, f
  <2>2. /\ f \in Obtainable(p, fl)
        /\ f \in FramesOf(p)
    BY <1>2, <2>1 DEF Obtainable, FramesIn, FramesOf
  <2>3. \A t \in Open(fl) : t # s => f \notin FramesIn(p, t)
    <3>1. \A d \in Class : StackContents(p, d) \subseteq OfClass(d)
      BY <1>4 DEF Stacks
    <3>2. \A d \in Class : Elements(p.emerg) \cap StackContents(p, d) = {}
      BY <1>4, <3>1, Classes DEF EmergencyKept
    <3>3. QED
      BY <1>2, <2>1, <3>1, <3>2, Classes DEF FramesIn
  <2>4. Obtainable(q, fl) = Obtainable(p, fl) \ {f}
    BY <2>1, <2>3 DEF Obtainable
  <2>5. ASSUME f \in OfClass("low") PROVE Obtainable(p, fl) \subseteq OfClass("low")
    <3>1. s = "low"
      BY <1>2, <1>4, <2>1, <2>5, Classes DEF FramesIn, Stacks, EmergencyKept
    <3>2. \A t \in Open(fl) : t # "low" => Rank(t) < Rank("low")
      BY <1>1 DEF Rank
    <3>3. \A t \in Open(fl) : t # "low" => FramesIn(p, t) = {}
      BY <1>2, <1>6, <3>1, <3>2, NothingIn
    <3>4. FramesIn(p, "low") \subseteq OfClass("low")
      BY <1>4 DEF FramesIn, Stacks, Class
    <3>5. QED
      BY <3>3, <3>4 DEF Obtainable
  <2>6. QED
    BY <2>1, <2>2, <2>4, <2>5
<1>7. CASE \E s \in Open(fl) :
             /\ ~Exhausted(p, s) /\ AllocFrame(p, fl) = Pop(p, s)
             /\ \A t \in Open(fl) : Rank(t) < Rank(s) => Exhausted(p, t)
  <2>1. /\ f \in Obtainable(p, fl) /\ f \in FramesOf(p) /\ PoolOK(q)
        /\ FramesOf(q) = FramesOf(p) \ {f}
        /\ Obtainable(q, fl) = Obtainable(p, fl) \ {f}
        /\ f \in OfClass("low") => Obtainable(p, fl) \subseteq OfClass("low")
    BY <1>6, <1>7
  <2>2. f # FRAME_NULL
    BY <1>4, <2>1, Constants DEF FRAME_NULL
  <2>3. QED
    BY <2>1, <2>2
<1>8. QED
  BY <1>5, <1>7, FirstSource

\* The page in the kernel's image is given to those, and only those, that go on
\* to low memory when nothing is left for them.
LEMMA FrameGiven ==
    ASSUME NEW p, PoolOK(p), NEW fl
    PROVE  LET f == AllocFrame(p, fl).frame IN
           /\ f = KernelPage["low"] => "low" \in Open(fl) /\ Obtainable(p, fl) = {}
           /\ "low" \in Open(fl) => f # FRAME_NULL
<1> DEFINE f == AllocFrame(p, fl).frame
           kernel == KernelPage["low"]
<1>1. p \in PoolType /\ Stacks(p) /\ EmergencyKept(p)
  BY DEF PoolOK
<1>2. "low" \in Class /\ kernel \in Frames /\ FRAME_NULL \notin Frames
  BY Constants DEF Class, FRAME_NULL
<1>3. \A s \in Open(fl) : s = "emerg" \/ s \in Class
  BY DEF Open, Class
<1>4. CASE /\ \A s \in Open(fl) : Exhausted(p, s)
           /\ AllocFrame(p, fl) = NothingPopped(p)
  <2>1. f = FRAME_NULL
    BY <1>4 DEF NothingPopped
  <2>2. "low" \notin Open(fl)
    BY <1>1, <1>4, LowEndless
  <2>3. QED
    BY <1>2, <2>1, <2>2
<1>5. ASSUME NEW s \in Open(fl), ~Exhausted(p, s), AllocFrame(p, fl) = Pop(p, s),
             \A t \in Open(fl) : Rank(t) < Rank(s) => Exhausted(p, t)
      PROVE  /\ f \in Frames
             /\ f = kernel => "low" \in Open(fl) /\ Obtainable(p, fl) = {}
  <2>1. CASE s = "emerg"
    <3>1. f \in Elements(p.emerg)
      <4>1. f = PopEmerg(p).frame
        BY <1>5, <2>1 DEF Pop
      <4>2. p.emerg # <<>> /\ p.emerg \in Seq(Frames)
        BY <1>1, <1>5, <2>1, PoolRecord DEF Exhausted
      <4>3. Len(p.emerg) # 0 /\ Len(p.emerg) \in DOMAIN p.emerg
        BY <4>2
      <4>4. f = p.emerg[Len(p.emerg)]
        BY <4>1, <4>3 DEF PopEmerg, Popped
      <4>5. QED
        BY <4>3, <4>4 DEF Elements
    <3>2. f # kernel
      BY <1>1, <1>2, <3>1 DEF EmergencyKept
    <3>3. Elements(p.emerg) \subseteq Frames
      BY <1>1, FramesByClass DEF PoolOK, EmergencyKept, FramesOf
    <3>4. QED
      BY <3>1, <3>2, <3>3
  <2>2. CASE s # "emerg"
    <3>1. s \in Class /\ f = PopStack(p, s).frame
      BY <1>3, <1>5, <2>2 DEF Pop
    <3> HIDE DEF f
    <3>2. CASE StackContents(p, s) # {}
      <4>1. f \in StackContents(p, s)
        BY <1>1, <1>5, <3>1, <3>2, PopGives
      <4>2. f # kernel
        BY <1>1, <1>2, <3>1, <4>1 DEF Stacks
      <4>3. StackContents(p, s) \subseteq Frames
        BY <1>1, <3>1 DEF Stacks, IsStack
      <4>4. QED
        BY <4>1, <4>2, <4>3
    <3>3. CASE StackContents(p, s) = {}
      <4>1. s = "low" /\ f = kernel
        BY <1>1, <1>5, <3>1, <3>3, PopGives
      <4>2. \A t \in Open(fl) : t # "low" => Rank(t) < Rank("low")
        BY DEF Open, Rank
      <4>3. \A t \in Open(fl) : t # "low" => FramesIn(p, t) = {}
        BY <1>3, <1>5, <4>1, <4>2, NothingIn
      <4>4. FramesIn(p, "low") = {}
        BY <3>3, <4>1 DEF FramesIn
      <4>5. Obtainable(p, fl) = {}
        BY <4>3, <4>4 DEF Obtainable
      <4>6. QED
        BY <1>2, <4>1, <4>5
    <3>4. QED
      BY <3>2, <3>3
  <2>3. QED
    BY <2>1, <2>2
<1>6. CASE \E s \in Open(fl) :
             /\ ~Exhausted(p, s) /\ AllocFrame(p, fl) = Pop(p, s)
             /\ \A t \in Open(fl) : Rank(t) < Rank(s) => Exhausted(p, t)
  <2>1. f \in Frames /\ (f = kernel => "low" \in Open(fl) /\ Obtainable(p, fl) = {})
    BY <1>5, <1>6
  <2>2. QED
    BY <1>2, <2>1
<1>7. QED
  BY <1>4, <1>6, FirstSource

-----------------------------------------------------------------------------
(* Requests and releases of many frames.                                   *)

\* The function that AllocUpTo defines.
IsAllocation(g, p, n, fl) ==
    g = [k \in 0..n |-> IF k = 0 THEN [pool |-> p, frames |-> {}]
                        ELSE AllocOneMore(g[k - 1], fl)]

LEMMA AllocationExists ==
    ASSUME NEW p, NEW fl, NEW n \in Nat
    PROVE  \E g : IsAllocation(g, p, n, fl)
<1> DEFINE T == {m \in Nat : \E g : IsAllocation(g, p, m, fl)}
<1>1. 0 \in T
  <2> DEFINE g == [k \in 0..0 |-> [pool |-> p, frames |-> {}]]
  <2>1. \A k \in 0..0 : k = 0
    OBVIOUS
  <2>2. IsAllocation(g, p, 0, fl)
    BY <2>1 DEF IsAllocation
  <2>3. QED
    BY <2>2
<1>2. ASSUME NEW m \in Nat, m \in T PROVE m + 1 \in T
  <2>1. PICK g : IsAllocation(g, p, m, fl)
    BY <1>2
  <2> DEFINE h == [k \in 0..(m + 1) |-> IF k = m + 1 THEN AllocOneMore(g[m], fl) ELSE g[k]]
  <2>2. ASSUME NEW k \in 0..(m + 1)
        PROVE  h[k] = IF k = 0 THEN [pool |-> p, frames |-> {}]
                      ELSE AllocOneMore(h[k - 1], fl)
    <3>1. CASE k = m + 1
      <4>1. k # 0 /\ k - 1 = m /\ m \in 0..(m + 1) /\ m # m + 1
        BY <3>1
      <4>2. h[m] = g[m]
        BY <4>1
      <4>3. QED
        BY <3>1, <4>1, <4>2
    <3>2. CASE k # m + 1
      <4>1. k \in 0..m /\ h[k] = g[k]
        BY <3>2
      <4>2. g[k] = IF k = 0 THEN [pool |-> p, frames |-> {}]
                   ELSE AllocOneMore(g[k - 1], fl)
        BY <2>1, <4>1 DEF IsAllocation
      <4>3. k # 0 => h[k - 1] = g[k - 1]
        BY <3>2
      <4> HIDE DEF h
      <4>4. QED
        BY <4>1, <4>2, <4>3
    <3>3. QED
      BY <3>1, <3>2
  <2>3. h = [k \in 0..(m + 1) |-> h[k]]
    OBVIOUS
  <2> HIDE DEF h
  <2>4. IsAllocation(h, p, m + 1, fl)
    BY <2>2, <2>3 DEF IsAllocation
  <2>5. QED
    BY <2>4
<1> HIDE DEF T
<1>3. Nat \subseteq T
  BY <1>1, <1>2, SetInduction
<1>4. QED
  BY <1>3 DEF T

Allocation(p, n, fl) == CHOOSE g : IsAllocation(g, p, n, fl)

\* The frames D were taken for a request, and left q of the allocator p.
Taken(p, q, fl, D) ==
    /\ PoolOK(q) /\ D \subseteq Obtainable(p, fl) /\ D \subseteq FramesOf(p)
    /\ FramesOf(q) = FramesOf(p) \ D
    /\ Obtainable(q, fl) = Obtainable(p, fl) \ D
    /\ D \cap OfClass("low") # {} => Obtainable(p, fl) \subseteq D \cup OfClass("low")

\* As many as asked for, or all there are.
Enough(p, fl, D, n) ==
    Cardinality(D) <= n /\ (D = Obtainable(p, fl) \/ Cardinality(D) = n)

\* A request that goes on to low memory asks for more than there is.
Short(p, fl, n) == "low" \in Open(fl) /\ n > Cardinality(Obtainable(p, fl))

\* What such a request gets, and any other.
Answer(p, fl, n, r) ==
    IF Short(p, fl, n) THEN KernelPage["low"] \in r.frames
    ELSE /\ KernelPage["low"] \notin r.frames
         /\ Taken(p, r.pool, fl, r.frames) /\ Enough(p, fl, r.frames, n)

LEMMA KernelPageNotFree ==
    ASSUME NEW p, PoolOK(p)
    PROVE  KernelPage["low"] \notin FramesOf(p) /\ KernelPage["low"] \in Frames
<1>1. "low" \in Class
  BY DEF Class
<1>2. \A c \in Class : KernelPage["low"] \notin StackContents(p, c)
  BY <1>1 DEF PoolOK, Stacks
<1>3. KernelPage["low"] \notin Elements(p.emerg)
  BY <1>1 DEF PoolOK, EmergencyKept
<1>4. QED
  BY <1>1, <1>2, <1>3, Constants DEF FramesOf

\* The frames that can be obtained are free frames, so they can be counted.
LEMMA ObtainableCounted ==
    ASSUME NEW p, PoolOK(p), NEW fl
    PROVE  IsFiniteSet(Obtainable(p, fl)) /\ Cardinality(Obtainable(p, fl)) \in Nat
<1>1. IsFiniteSet(FramesOf(p))
  BY FramesByClass DEF PoolOK, EmergencyKept
<1>2. \A s \in Open(fl) : s = "emerg" \/ s \in Class
  BY DEF Open, Class
<1>3. Obtainable(p, fl) \in SUBSET FramesOf(p)
  BY <1>2 DEF Obtainable, FramesIn, FramesOf
<1>4. QED
  BY <1>1, <1>3, FS_Subset, FS_CardinalityType

\* One more frame for a request that has been given D so far.
LEMMA OneMoreOK ==
    ASSUME NEW p, PoolOK(p), NEW fl, NEW k \in Nat, NEW done, Answer(p, fl, k, done)
    PROVE  Answer(p, fl, k + 1, AllocOneMore(done, fl))
<1> DEFINE q == done.pool
           D == done.frames
           O == Obtainable(p, fl)
           r == AllocFrame(q, fl)
           more == AllocOneMore(done, fl)
           kernel == KernelPage["low"]
<1>1. D \subseteq more.frames
  BY DEF AllocOneMore
<1>2. IsFiniteSet(O) /\ Cardinality(O) \in Nat
  BY ObtainableCounted
<1>3. CASE Short(p, fl, k)
  <2>1. kernel \in D
    BY <1>3 DEF Answer
  <2> HIDE DEF D, O, more, kernel
  <2>2. Short(p, fl, k + 1)
    BY <1>2, <1>3 DEF Short, O
  <2>3. QED
    BY <1>1, <2>1, <2>2 DEF Answer, more, kernel
<1>4. CASE ~Short(p, fl, k)
  <2>1. kernel \notin D /\ Taken(p, q, fl, D) /\ Enough(p, fl, D, k)
    BY <1>4 DEF Answer
  <2> HIDE DEF q, D
  <2>2. PoolOK(q)
    BY <2>1 DEF Taken
  <2>3. D \subseteq O /\ IsFiniteSet(D) /\ Cardinality(D) \in Nat
    <3>1. D \in SUBSET O
      BY <2>1 DEF Taken
    <3> HIDE DEF O
    <3>2. QED
      BY <1>2, <3>1, FS_Subset, FS_CardinalityType
  <2>4. Obtainable(q, fl) = O \ D
    BY <2>1 DEF Taken
  <2>5. Cardinality(D) <= k /\ (D = O \/ Cardinality(D) = k)
    BY <2>1 DEF Enough
  <2>6. /\ r.frame = kernel => "low" \in Open(fl) /\ Obtainable(q, fl) = {}
        /\ "low" \in Open(fl) => r.frame # FRAME_NULL
    BY <2>2, FrameGiven
  <2>7. kernel # FRAME_NULL
    BY <2>2, KernelPageNotFree, Constants DEF FRAME_NULL
  <2>8. CASE r.frame = kernel
    <3>1. D = O
      BY <2>3, <2>4, <2>6, <2>8
    <3>2. Short(p, fl, k + 1)
      <4> HIDE DEF O, D, r, kernel
      <4>1. k + 1 > Cardinality(O)
        BY <1>2, <2>5, <3>1
      <4>2. QED
        BY <2>6, <2>8, <4>1 DEF Short, O
    <3>3. more.frames = D \cup {kernel}
      BY <2>7, <2>8 DEF AllocOneMore, D, q
    <3> HIDE DEF O, D, r, kernel, more
    <3>4. QED
      BY <3>2, <3>3 DEF Answer, more, kernel
  <2>9. CASE r.frame = FRAME_NULL
    <3>1. more = done
      BY <2>9 DEF AllocOneMore, q
    <3>2. "low" \notin Open(fl)
      BY <2>6, <2>9
    <3>3. ~Short(p, fl, k + 1)
      BY <3>2 DEF Short
    <3>4. Obtainable(q, fl) = {}
      BY <2>2, <2>7, <2>9, AllocFrameOK
    <3>5. D = O
      BY <2>3, <2>4, <3>4
    <3>6. Cardinality(D) <= k + 1
      BY <2>3, <2>5
    <3>7. more.frames = D /\ more.pool = q
      BY <3>1 DEF D, q
    <3>8. Enough(p, fl, D, k + 1)
      BY <3>5, <3>6 DEF Enough
    <3> HIDE DEF more, kernel, r
    <3>9. QED
      BY <2>1, <3>3, <3>7, <3>8 DEF Answer, more, kernel
  <2>10. CASE r.frame # kernel /\ r.frame # FRAME_NULL
    <3>1. more.pool = r.pool /\ more.frames = D \cup {r.frame}
      BY <2>10 DEF AllocOneMore, D, q
    <3>2. /\ r.frame \in Obtainable(q, fl) /\ r.frame \in FramesOf(q) /\ PoolOK(r.pool)
          /\ FramesOf(r.pool) = FramesOf(q) \ {r.frame}
          /\ Obtainable(r.pool, fl) = Obtainable(q, fl) \ {r.frame}
          /\ r.frame \in OfClass("low") => Obtainable(q, fl) \subseteq OfClass("low")
      BY <2>2, <2>10, AllocFrameOK
    <3> HIDE DEF r, more, kernel
    <3> DEFINE E == D \cup {r.frame}
    <3>3. r.frame \in O /\ r.frame \notin D
      BY <2>4, <3>2
    <3>4. Cardinality(E) = Cardinality(D) + 1
      BY <2>3, <3>3, FS_AddElement
    <3>5. Taken(p, r.pool, fl, E)
      BY <2>1, <3>2 DEF Taken
    <3>6. D # O
      BY <3>3
    <3> HIDE DEF O, E
    <3>7. Cardinality(E) = k + 1
      BY <2>3, <2>5, <3>4, <3>6
    <3>8. Enough(p, fl, E, k + 1)
      BY <3>7 DEF Enough
    <3>9. ~Short(p, fl, k + 1)
      <4>1. E \in SUBSET O
        BY <2>3, <3>3 DEF E
      <4>2. Cardinality(E) <= Cardinality(O)
        BY <1>2, <4>1, FS_Subset
      <4>3. QED
        BY <1>2, <3>7, <4>2 DEF Short, O
    <3>10. kernel \notin E
      BY <2>1, <2>10 DEF E
    <3>11. more.frames = E /\ more.pool = r.pool
      BY <3>1 DEF E
    <3>12. QED
      BY <3>5, <3>8, <3>9, <3>10, <3>11 DEF Answer, more, kernel
  <2>11. QED
    BY <2>8, <2>9, <2>10
<1>5. QED
  BY <1>3, <1>4

LEMMA AllocUpToOK ==
    ASSUME NEW p, PoolOK(p), NEW fl, NEW n \in Nat
    PROVE  Answer(p, fl, n, AllocUpTo(p, n, fl))
<1> DEFINE g == Allocation(p, n, fl)
<1>1. AllocUpTo(p, n, fl) = g[n]
  BY DEF AllocUpTo, Allocation, IsAllocation
<1>2. IsAllocation(g, p, n, fl)
  BY AllocationExists DEF Allocation
<1> HIDE DEF g
<1>3. \A k \in 0..n : g[k] = IF k = 0 THEN [pool |-> p, frames |-> {}]
                             ELSE AllocOneMore(g[k - 1], fl)
  BY <1>2 DEF IsAllocation
<1> DEFINE Good(k) == Answer(p, fl, k, g[k])
           T == {k \in Nat : k \in 0..n => Good(k)}
<1>4. Good(0)
  <2>1. g[0] = [pool |-> p, frames |-> {}]
    <3>1. 0 \in 0..n
      OBVIOUS
    <3>2. QED
      BY <1>3, <3>1
  <2>2. g[0].pool = p /\ g[0].frames = {}
    BY <2>1
  <2>3. Taken(p, p, fl, {})
    BY DEF Taken
  <2>4. Enough(p, fl, {}, 0)
    BY FS_EmptySet DEF Enough
  <2>5. ~Short(p, fl, 0)
    BY ObtainableCounted DEF Short
  <2>6. QED
    BY <2>2, <2>3, <2>4, <2>5 DEF Answer
<1>5. ASSUME NEW k \in Nat, k + 1 \in 0..n, Good(k) PROVE Good(k + 1)
  <2>1. k + 1 # 0 /\ (k + 1) - 1 = k
    BY <1>5
  <2>2. g[k + 1] = AllocOneMore(g[k], fl)
    BY <1>3, <1>5, <2>1
  <2>3. QED
    BY <1>5, <2>2, OneMoreOK
<1> HIDE DEF Good
<1>6. Nat \subseteq T
  <2>1. 0 \in T
    BY <1>4
  <2>2. ASSUME NEW k \in Nat, k \in T PROVE k + 1 \in T
    <3>1. k + 1 \in 0..n => k \in 0..n
      OBVIOUS
    <3>2. QED
      BY <1>5, <2>2, <3>1
  <2> HIDE DEF T
  <2>3. QED
    BY <2>1, <2>2, SetInduction
<1>7. Good(n)
  BY <1>6
<1>8. QED
  BY <1>1, <1>7 DEF Good

\* The function that PushAll defines, up to m.
IsRelease(g, p, fs, m) ==
    g = [k \in 0..m |-> IF k = 0 THEN p ELSE PushFrame(g[k - 1], fs[k])]

LEMMA ReleaseExists ==
    ASSUME NEW p, NEW fs, NEW n \in Nat
    PROVE  \E g : IsRelease(g, p, fs, n)
<1> DEFINE T == {m \in Nat : \E g : IsRelease(g, p, fs, m)}
<1>1. 0 \in T
  <2> DEFINE g == [k \in 0..0 |-> p]
  <2>1. \A k \in 0..0 : k = 0
    OBVIOUS
  <2>2. IsRelease(g, p, fs, 0)
    BY <2>1 DEF IsRelease
  <2>3. QED
    BY <2>2
<1>2. ASSUME NEW m \in Nat, m \in T PROVE m + 1 \in T
  <2>1. PICK g : IsRelease(g, p, fs, m)
    BY <1>2
  <2> DEFINE h == [k \in 0..(m + 1) |-> IF k = m + 1 THEN PushFrame(g[m], fs[k]) ELSE g[k]]
  <2>2. ASSUME NEW k \in 0..(m + 1)
        PROVE  h[k] = IF k = 0 THEN p ELSE PushFrame(h[k - 1], fs[k])
    <3>1. CASE k = m + 1
      <4>1. k # 0 /\ k - 1 = m /\ m \in 0..(m + 1) /\ m # m + 1
        BY <3>1
      <4>2. h[m] = g[m]
        BY <4>1
      <4>3. QED
        BY <3>1, <4>1, <4>2
    <3>2. CASE k # m + 1
      <4>1. k \in 0..m /\ h[k] = g[k]
        BY <3>2
      <4>2. g[k] = IF k = 0 THEN p ELSE PushFrame(g[k - 1], fs[k])
        BY <2>1, <4>1 DEF IsRelease
      <4>3. k # 0 => h[k - 1] = g[k - 1]
        BY <3>2
      <4> HIDE DEF h
      <4>4. QED
        BY <4>1, <4>2, <4>3
    <3>3. QED
      BY <3>1, <3>2
  <2>3. h = [k \in 0..(m + 1) |-> h[k]]
    OBVIOUS
  <2> HIDE DEF h
  <2>4. IsRelease(h, p, fs, m + 1)
    BY <2>2, <2>3 DEF IsRelease
  <2>5. QED
    BY <2>4
<1> HIDE DEF T
<1>3. Nat \subseteq T
  BY <1>1, <1>2, SetInduction
<1>4. QED
  BY <1>3 DEF T

\* Frames that are new to the allocator, each once.
LEMMA PushAllOK ==
    ASSUME NEW p, PoolOK(p), NEW fs, Len(fs) \in Nat,
           \A i \in 1..Len(fs) : fs[i] \in Frames /\ fs[i] \notin FramesOf(p),
           \A i \in 1..Len(fs) : \A d \in Class : fs[i] # KernelPage[d],
           \A i, j \in 1..Len(fs) : fs[i] = fs[j] => i = j
    PROVE  /\ PoolOK(PushAll(p, fs))
           /\ FramesOf(PushAll(p, fs)) = FramesOf(p) \cup {fs[i] : i \in 1..Len(fs)}
<1> DEFINE n == Len(fs)
           g == CHOOSE g : IsRelease(g, p, fs, n)
           First(k) == {fs[i] : i \in 1..k}
           Good(k) == PoolOK(g[k]) /\ FramesOf(g[k]) = FramesOf(p) \cup First(k)
           T == {k \in Nat : k \in 0..n => Good(k)}
<1>1. PushAll(p, fs) = g[n]
  BY DEF PushAll, IsRelease
<1>2. IsRelease(g, p, fs, n)
  BY ReleaseExists
<1> HIDE DEF g
<1>3. \A k \in 0..n : g[k] = IF k = 0 THEN p ELSE PushFrame(g[k - 1], fs[k])
  BY <1>2 DEF IsRelease
<1>4. Good(0)
  <2>1. g[0] = p
    <3>1. 0 \in 0..n
      OBVIOUS
    <3>2. QED
      BY <1>3, <3>1
  <2>2. First(0) = {}
    OBVIOUS
  <2>3. QED
    BY <2>1, <2>2
<1>5. ASSUME NEW k \in Nat, k + 1 \in 0..n, Good(k) PROVE Good(k + 1)
  <2>1. k + 1 # 0 /\ (k + 1) - 1 = k /\ k + 1 \in 1..n /\ \A i \in 1..k : i \in 1..n /\ i # k + 1
    BY <1>5
  <2>2. g[k + 1] = PushFrame(g[k], fs[k + 1])
    BY <1>3, <1>5, <2>1
  <2>3. fs[k + 1] \notin First(k)
    BY <2>1
  <2>4. First(k + 1) = First(k) \cup {fs[k + 1]}
    <3>1. \A i \in 1..(k + 1) : i \in 1..k \/ i = k + 1
      BY <1>5
    <3>2. \A i \in 1..k : i \in 1..(k + 1)
      OBVIOUS
    <3>3. k + 1 \in 1..(k + 1)
      OBVIOUS
    <3>4. QED
      BY <3>1, <3>2, <3>3
  <2> HIDE DEF First
  <2>5. fs[k + 1] \in Frames /\ fs[k + 1] \notin FramesOf(g[k])
        /\ \A d \in Class : fs[k + 1] # KernelPage[d]
    BY <1>5, <2>1, <2>3
  <2>6. PoolOK(PushFrame(g[k], fs[k + 1]))
        /\ FramesOf(PushFrame(g[k], fs[k + 1])) = FramesOf(g[k]) \cup {fs[k + 1]}
    BY <1>5, <2>5, PushFrameOK
  <2>7. QED
    BY <1>5, <2>2, <2>4, <2>6
<1> HIDE DEF Good
<1>6. Nat \subseteq T
  <2>1. 0 \in T
    BY <1>4
  <2>2. ASSUME NEW k \in Nat, k \in T PROVE k + 1 \in T
    <3>1. k + 1 \in 0..n => k \in 0..n
      OBVIOUS
    <3>2. QED
      BY <1>5, <2>2, <3>1
  <2> HIDE DEF T
  <2>3. QED
    BY <2>1, <2>2, SetInduction
<1>7. Good(n)
  BY <1>6
<1>8. QED
  BY <1>1, <1>7 DEF Good

-----------------------------------------------------------------------------
(* The start-up.                                                           *)

Bounds == Nat \X Nat
Within(f, r) == r[1] <= f /\ f < r[2]

\* Sequences of regions of which at most one has the frame f.
Apart(f, s) == \A i, j \in DOMAIN s : Within(f, s[i]) /\ Within(f, s[j]) => i = j

Ordered(s) == \A i \in DOMAIN s : s[i][1] <= s[i][2]

LEMMA InConcat ==
    ASSUME NEW s \in Seq(Bounds), NEW t \in Seq(Bounds), NEW f,
           Apart(f, s), Apart(f, t), ~(In(f, s) /\ In(f, t))
    PROVE  /\ In(f, s \o t) <=> In(f, s) \/ In(f, t)
           /\ Apart(f, s \o t)
<1>1. /\ Len(s) \in Nat /\ DOMAIN s = 1..Len(s) /\ Len(t) \in Nat /\ DOMAIN t = 1..Len(t)
      /\ DOMAIN (s \o t) = 1..(Len(s) + Len(t))
      /\ \A i \in 1..(Len(s) + Len(t)) :
           (s \o t)[i] = IF i <= Len(s) THEN s[i] ELSE t[i - Len(s)]
  OBVIOUS
<1> DEFINE u == s \o t
           m == Len(s)
           n == Len(t)
<1>2. /\ m \in Nat /\ n \in Nat /\ DOMAIN s = 1..m /\ DOMAIN t = 1..n /\ DOMAIN u = 1..(m + n)
      /\ \A i \in 1..m : i \in 1..(m + n) /\ u[i] = s[i]
      /\ \A i \in 1..n : m + i \in 1..(m + n) /\ u[m + i] = t[i]
      /\ \A i \in 1..(m + n) : i \in 1..m \/ (i - m \in 1..n /\ u[i] = t[i - m])
  <2> HIDE DEF u
  <2>1. \A i \in 1..m : i \in 1..(m + n) /\ u[i] = s[i]
    BY <1>1 DEF u
  <2>2. ASSUME NEW i \in 1..n PROVE m + i \in 1..(m + n) /\ u[m + i] = t[i]
    <3>1. m + i \in 1..(m + n) /\ ~(m + i <= m) /\ (m + i) - m = i
      BY <1>1
    <3>2. QED
      BY <1>1, <3>1 DEF u
  <2>3. \A i \in 1..(m + n) : i \in 1..m \/ (i - m \in 1..n /\ u[i] = t[i - m])
    BY <1>1 DEF u
  <2>4. QED
    BY <1>1, <2>1, <2>2, <2>3 DEF u
<1> HIDE DEF u, m, n
<1>3. In(f, u) <=> In(f, s) \/ In(f, t)
  BY <1>2 DEF In
<1>4. Apart(f, u)
  <2>1. SUFFICES ASSUME NEW i \in 1..(m + n), NEW j \in 1..(m + n),
                        Within(f, u[i]), Within(f, u[j])
                 PROVE  i = j
    BY <1>2 DEF Apart
  <2>2. CASE i \in 1..m /\ j \in 1..m
    BY <1>2, <2>1, <2>2 DEF Apart
  <2>3. CASE i \notin 1..m /\ j \notin 1..m
    <3>1. i - m \in 1..n /\ j - m \in 1..n /\ Within(f, t[i - m]) /\ Within(f, t[j - m])
      BY <1>2, <2>1, <2>3
    <3>2. i - m = j - m
      BY <1>2, <3>1 DEF Apart
    <3>3. QED
      BY <1>2, <3>2
  <2>4. ASSUME NEW k \in 1..m, NEW l \in 1..(m + n), l \notin 1..m,
               Within(f, u[k]), Within(f, u[l])
        PROVE  FALSE
    <3>1. In(f, s)
      BY <1>2, <2>4 DEF In, Within
    <3>2. In(f, t)
      BY <1>2, <2>4 DEF In, Within
    <3>3. QED
      BY <3>1, <3>2
  <2>5. QED
    BY <2>1, <2>2, <2>3, <2>4
<1>5. QED
  BY <1>3, <1>4 DEF u

LEMMA OrderedConcat ==
    ASSUME NEW s \in Seq(Bounds), NEW t \in Seq(Bounds), Ordered(s), Ordered(t)
    PROVE  s \o t \in Seq(Bounds) /\ Ordered(s \o t)
<1>1. s \o t \in Seq(Bounds)
  OBVIOUS
<1>2. ASSUME NEW i \in DOMAIN (s \o t) PROVE (s \o t)[i][1] <= (s \o t)[i][2]
  <2>1. /\ Len(s) \in Nat /\ Len(t) \in Nat /\ i \in 1..(Len(s) + Len(t))
        /\ (s \o t)[i] = IF i <= Len(s) THEN s[i] ELSE t[i - Len(s)]
    OBVIOUS
  <2>2. CASE i <= Len(s)
    BY <2>1, <2>2 DEF Ordered
  <2>3. CASE ~(i <= Len(s))
    <3>1. i - Len(s) \in DOMAIN t
      BY <2>1, <2>3
    <3>2. QED
      BY <2>1, <2>3, <3>1 DEF Ordered
  <2>4. QED
    BY <2>2, <2>3
<1>3. QED
  BY <1>1, <1>2 DEF Ordered

\* The first region and the others.
LEMMA HeadAndTail ==
    ASSUME NEW s \in Seq(Bounds), s # <<>>, Ordered(s)
    PROVE  /\ Head(s) \in Bounds /\ Head(s)[1] <= Head(s)[2]
           /\ Tail(s) \in Seq(Bounds) /\ Ordered(Tail(s))
           /\ \A f : In(f, s) <=> Within(f, Head(s)) \/ In(f, Tail(s))
           /\ \A f : Apart(f, s) =>
                Apart(f, Tail(s)) /\ ~(Within(f, Head(s)) /\ In(f, Tail(s)))
<1> DEFINE n == Len(s)
           t == Tail(s)
<1>1. /\ n \in Nat /\ n # 0 /\ DOMAIN s = 1..n /\ Head(s) = s[1] /\ s[1] \in Bounds
      /\ t \in Seq(Bounds) /\ DOMAIN t = 1..(n - 1)
      /\ \A i \in 1..(n - 1) : t[i] = s[i + 1]
  <2>1. n \in Nat /\ n # 0 /\ DOMAIN s = 1..n
    OBVIOUS
  <2>2. Head(s) = s[1] /\ s[1] \in Bounds
    BY <2>1
  <2>3. t \in Seq(Bounds) /\ Len(t) = n - 1 /\ \A i \in 1..Len(t) : t[i] = s[i + 1]
    BY HeadTailProperties
  <2>4. DOMAIN t = 1..Len(t)
    BY <2>3
  <2>5. QED
    BY <2>1, <2>2, <2>3, <2>4
<1> HIDE DEF n, t
<1>2. /\ 1 \in 1..n
      /\ \A i \in 1..(n - 1) : i + 1 \in 1..n /\ i + 1 # 1
      /\ \A i \in 1..n : i # 1 => i - 1 \in 1..(n - 1) /\ (i - 1) + 1 = i
  BY <1>1
<1>3. Ordered(t) /\ s[1][1] <= s[1][2]
  BY <1>1, <1>2 DEF Ordered
<1>4. ASSUME NEW f PROVE In(f, s) <=> Within(f, s[1]) \/ In(f, t)
  <2>1. ASSUME NEW i \in 1..n, Within(f, s[i]) PROVE Within(f, s[1]) \/ In(f, t)
    <3>1. CASE i = 1
      BY <2>1, <3>1
    <3>2. CASE i # 1
      <4>1. i - 1 \in 1..(n - 1) /\ t[i - 1] = s[i]
        BY <1>1, <1>2, <3>2
      <4>2. QED
        BY <1>1, <2>1, <4>1 DEF In, Within
    <3>3. QED
      BY <3>1, <3>2
  <2>2. In(f, t) => In(f, s)
    BY <1>1, <1>2 DEF In
  <2>3. Within(f, s[1]) => In(f, s)
    BY <1>1, <1>2 DEF In, Within
  <2>4. In(f, s) => \E i \in 1..n : Within(f, s[i])
    BY <1>1 DEF In, Within
  <2>5. QED
    BY <2>1, <2>2, <2>3, <2>4
<1>5. ASSUME NEW f, Apart(f, s) PROVE Apart(f, t) /\ ~(Within(f, s[1]) /\ In(f, t))
  <2>1. ASSUME NEW i \in 1..(n - 1), NEW j \in 1..(n - 1), Within(f, t[i]), Within(f, t[j])
        PROVE  i = j
    <3>1. i + 1 = j + 1
      BY <1>1, <1>2, <1>5, <2>1 DEF Apart
    <3>2. QED
      BY <3>1
  <2>2. ASSUME NEW i \in 1..(n - 1), Within(f, t[i]), Within(f, s[1]) PROVE FALSE
    BY <1>1, <1>2, <1>5, <2>2 DEF Apart
  <2>3. In(f, t) => \E i \in 1..(n - 1) : Within(f, t[i])
    BY <1>1 DEF In, Within
  <2>4. QED
    BY <1>1, <2>1, <2>2, <2>3 DEF Apart
<1>6. QED
  BY <1>1, <1>3, <1>4, <1>5 DEF t

\* What is left of a region is its frames but those of the reserved one.
LEMMA RemainingOK ==
    ASSUME NEW r \in Bounds, r[1] <= r[2], NEW rr \in Bounds, rr[1] <= rr[2], Meets(r, rr)
    PROVE  /\ Remaining(r, rr) \in Seq(Bounds) /\ Ordered(Remaining(r, rr))
           /\ \A f \in Nat : ~Within(f, rr) =>
                /\ In(f, Remaining(r, rr)) <=> Within(f, r)
                /\ Apart(f, Remaining(r, rr))
<1> DEFINE a == r[1]
           b == r[2]
           c == rr[1]
           d == rr[2]
<1>1. a \in Nat /\ b \in Nat /\ c \in Nat /\ d \in Nat /\ a <= b /\ c <= d
  BY DEF Bounds
<1>2. CASE EndsInside(r, rr) /\ c > a
  <2>1. Remaining(r, rr) = << <<a, c>> >> \o << <<d, b>> >>
    BY <1>2 DEF Remaining
  <2>2. Remaining(r, rr) = << <<a, c>>, <<d, b>> >>
    BY <2>1, OneAndOne
  <2>3. d > a /\ d < b
    BY <1>2 DEF EndsInside
  <2>4. << <<a, c>>, <<d, b>> >> \in Seq(Bounds)
    BY <1>1 DEF Bounds
  <2>5. Ordered(<< <<a, c>>, <<d, b>> >>)
    BY <1>1, <1>2, <2>3 DEF Ordered
  <2>6. ASSUME NEW f \in Nat, ~(c <= f /\ f < d)
        PROVE  /\ In(f, << <<a, c>>, <<d, b>> >>) <=> a <= f /\ f < b
               /\ Apart(f, << <<a, c>>, <<d, b>> >>)
    <3>1. In(f, << <<a, c>>, <<d, b>> >>) <=> (a <= f /\ f < c) \/ (d <= f /\ f < b)
      BY DEF In
    <3>2. ~((a <= f /\ f < c) /\ (d <= f /\ f < b))
      BY <1>1
    <3>3. QED
      BY <1>1, <1>2, <2>3, <2>6, <3>1, <3>2 DEF Apart, Within
  <2>7. QED
    BY <2>2, <2>4, <2>5, <2>6 DEF Within
<1>3. CASE EndsInside(r, rr) /\ ~(c > a)
  <2>1. Remaining(r, rr) = <<>> \o << <<d, b>> >>
    BY <1>3 DEF Remaining
  <2>2. Remaining(r, rr) = << <<d, b>> >>
    BY <2>1
  <2>3. d > a /\ d < b
    BY <1>3 DEF EndsInside
  <2>4. << <<d, b>> >> \in Seq(Bounds) /\ Ordered(<< <<d, b>> >>)
    BY <1>1, <2>3 DEF Bounds, Ordered
  <2>5. ASSUME NEW f \in Nat, ~(c <= f /\ f < d)
        PROVE  /\ In(f, << <<d, b>> >>) <=> a <= f /\ f < b
               /\ Apart(f, << <<d, b>> >>)
    <3>1. In(f, << <<d, b>> >>) <=> d <= f /\ f < b
      BY DEF In
    <3>2. Apart(f, << <<d, b>> >>)
      BY DEF Apart
    <3>3. QED
      BY <1>1, <1>3, <2>3, <2>5, <3>1, <3>2
  <2>6. QED
    BY <2>2, <2>4, <2>5 DEF Within
<1>4. CASE ~EndsInside(r, rr) /\ StartsInside(r, rr)
  <2>1. Remaining(r, rr) = << <<a, d>> >>
    BY <1>4 DEF Remaining
  <2>2. c > a /\ c < b /\ b <= d
    BY <1>1, <1>4 DEF EndsInside, StartsInside
  <2>3. << <<a, d>> >> \in Seq(Bounds) /\ Ordered(<< <<a, d>> >>)
    BY <1>1, <2>2 DEF Bounds, Ordered
  <2>4. ASSUME NEW f \in Nat, ~(c <= f /\ f < d)
        PROVE  /\ In(f, << <<a, d>> >>) <=> a <= f /\ f < b
               /\ Apart(f, << <<a, d>> >>)
    <3>1. In(f, << <<a, d>> >>) <=> a <= f /\ f < d
      BY DEF In
    <3>2. Apart(f, << <<a, d>> >>)
      BY DEF Apart
    <3>3. QED
      BY <1>1, <2>2, <2>4, <3>1, <3>2
  <2>5. QED
    BY <2>1, <2>3, <2>4 DEF Within
<1>5. CASE ~EndsInside(r, rr) /\ ~StartsInside(r, rr)
  <2>1. Remaining(r, rr) = <<>>
    BY <1>5 DEF Remaining
  <2>2. c <= a /\ d >= b
    BY <1>5 DEF Meets, Covers
  <2>3. <<>> \in Seq(Bounds) /\ Ordered(<<>>)
    BY DEF Ordered
  <2>4. ASSUME NEW f \in Nat, ~(c <= f /\ f < d)
        PROVE  /\ In(f, <<>>) <=> a <= f /\ f < b
               /\ Apart(f, <<>>)
    BY <1>1, <2>2, <2>4 DEF In, Apart
  <2>5. QED
    BY <2>1, <2>3, <2>4 DEF Within
<1>6. QED
  BY <1>2, <1>3, <1>4, <1>5

\* A region that meets no reserved one has none of its frames.
LEMMA NotMet ==
    ASSUME NEW r \in Bounds, NEW s \in Seq(Bounds),
           \A i \in DOMAIN s : ~Meets(r, s[i]), NEW f \in Nat, Within(f, r)
    PROVE  ~In(f, s)
<1>1. SUFFICES ASSUME NEW i \in DOMAIN s, s[i][1] <= f, f < s[i][2] PROVE FALSE
  BY DEF In
<1>2. s[i] \in Bounds /\ r \in Bounds
  OBVIOUS
<1>3. s[i][1] \in Nat /\ s[i][2] \in Nat /\ r[1] \in Nat /\ r[2] \in Nat
  BY <1>2 DEF Bounds
<1>4. Meets(r, s[i])
  BY <1>1, <1>3 DEF Meets, EndsInside, StartsInside, Covers, Within
<1>5. QED
  BY <1>4

-----------------------------------------------------------------------------
(* The invariant.                                                          *)

\* What the start-up has yet to push: of every frame that is not reserved, at
\* most one region has it, and it is usable.
WorkOK ==
    /\ work \in Seq(Bounds) /\ Ordered(work)
    /\ \A f \in Nat : ~In(f, bootMap.reserved) =>
         Apart(f, work) /\ (In(f, work) => In(f, bootMap.usable))

\* The frames that were handed out and those of the stacks are what the start-
\* up has pushed of the memory that is available.
FramesOK ==
    /\ PoolOK(pool)
    /\ held \cap FramesOf(pool) = {}
    /\ held \cup FramesOf(pool) = {f \in Available : ~In(f, work)}

Inv ==
    /\ bootMap \in BootMaps
    /\ WorkOK
    /\ work # <<>> => held = {}
    /\ ~Wild => FramesOK

LEMMA MapOK ==
    ASSUME NEW b \in BootMaps
    PROVE  /\ b.usable \in Seq(Bounds) /\ Ordered(b.usable)
           /\ b.reserved \in Seq(Bounds) /\ Ordered(b.reserved)
           /\ \A f \in Nat : Apart(f, b.usable) /\ (In(f, b.usable) => f \in Frames)
           /\ \A c \in Class : In(KernelPage[c], b.reserved)
<1>1. /\ b.usable \in Seq((0..FrameEnd) \X (0..FrameEnd))
      /\ b.reserved \in Seq(Nat \X Nat)
      /\ \A i \in DOMAIN b.usable : b.usable[i][1] <= b.usable[i][2]
      /\ \A i \in DOMAIN b.reserved : b.reserved[i][1] <= b.reserved[i][2]
      /\ \A i, j \in DOMAIN b.usable : i # j =>
           b.usable[i][2] <= b.usable[j][1] \/ b.usable[j][2] <= b.usable[i][1]
      /\ \A c \in Class : In(KernelPage[c], b.reserved)
  BY BootMapAssumption
<1>2. FrameEnd \in Nat
  BY Constants
<1>3. (0..FrameEnd) \X (0..FrameEnd) \subseteq Bounds
  BY <1>2 DEF Bounds
<1>4. b.usable \in Seq(Bounds)
  BY <1>1, <1>3
<1>5. \A i \in DOMAIN b.usable : b.usable[i][1] \in 0..FrameEnd /\ b.usable[i][2] \in 0..FrameEnd
  <2>1. ASSUME NEW i \in DOMAIN b.usable
        PROVE  b.usable[i] \in (0..FrameEnd) \X (0..FrameEnd)
    BY <1>1
  <2>2. QED
    BY <2>1
<1>6. ASSUME NEW f \in Nat PROVE Apart(f, b.usable)
  <2>1. SUFFICES ASSUME NEW i \in DOMAIN b.usable, NEW j \in DOMAIN b.usable, i # j,
                        Within(f, b.usable[i]), Within(f, b.usable[j])
                 PROVE  FALSE
    BY DEF Apart
  <2>2. b.usable[i][2] <= b.usable[j][1] \/ b.usable[j][2] <= b.usable[i][1]
    BY <1>1, <2>1
  <2>3. /\ b.usable[i][1] \in Nat /\ b.usable[i][2] \in Nat
        /\ b.usable[j][1] \in Nat /\ b.usable[j][2] \in Nat
    BY <1>2, <1>5
  <2>4. QED
    BY <2>1, <2>2, <2>3 DEF Within
<1>7. ASSUME NEW f \in Nat, In(f, b.usable) PROVE f \in Frames
  BY <1>2, <1>5, <1>7 DEF In, Frames
<1>8. QED
  BY <1>1, <1>4, <1>6, <1>7 DEF Ordered, Bounds

LEMMA EmptyPool ==
    ASSUME NEW p, p.page = KernelPage, p.emerg = <<>>, p.count = 0,
           p = [page |-> p.page, top |-> p.top, mem |-> p.mem, emerg |-> p.emerg,
                count |-> p.count],
           p.top = [c \in Class |-> 0], p.mem \in MemType,
           \A c \in Class : p.mem[KernelPage[c]].next = LastLink(c)
    PROVE  PoolOK(p) /\ FramesOf(p) = {}
<1>1. ASSUME NEW c \in Class
      PROVE  /\ IsStack(c, p.page[c], p.top[c], p.mem, StackContents(p, c))
             /\ StackContents(p, c) = {}
  <2> DEFINE pg == [i \in 0..0 |-> KernelPage[c]]
  <2>1. /\ \A i \in 0..0 : i = 0
        /\ \A i \in 1..0 : FALSE
        /\ 0 \in 0..0
    OBVIOUS
  <2>2. pg \in [0..0 -> Frames] /\ pg[0] = KernelPage[c]
    BY Constants
  <2> HIDE DEF pg
  <2>3. StackPages(c, KernelPage[c], p.mem, 0, pg)
    BY <2>1, <2>2 DEF StackPages
  <2>4. \A i \in 0..0 : Used(0, 0, i) = 0
    BY <2>1 DEF Used
  <2>5. Entries(0, p.mem, 0, pg) /\ \A f : ~Stacked(0, p.mem, 0, pg, f)
    BY <2>1, <2>4 DEF Entries, Stacked
  <2>6. HasPages(c, KernelPage[c], 0, p.mem, {}, 0, pg)
    BY <2>3, <2>5 DEF HasPages
  <2>7. IsStack(c, KernelPage[c], 0, p.mem, {})
    BY <2>6, Constants DEF IsStack
  <2>8. IsStack(c, p.page[c], p.top[c], p.mem, {})
    BY <2>7
  <2>9. StackContents(p, c) = {}
    BY <2>8, ContentsFound
  <2>10. QED
    BY <2>8, <2>9
<1>2. Stacks(p)
  BY <1>1 DEF Stacks
<1>3. Elements(p.emerg) = {}
  BY DEF Elements
<1>4. FramesOf(p) = {}
  BY <1>1, <1>3 DEF FramesOf
<1>5. p \in PoolType
  <2>1. p.page \in [Class -> Frames]
    BY Constants, FrameAllocAssumption DEF Class
  <2>2. p.top \in [Class -> 0..StackFrames]
    BY Constants
  <2>3. p.emerg \in Seq(Frames) /\ p.count \in Int
    OBVIOUS
  <2>4. QED
    BY <2>1, <2>2, <2>3 DEF PoolType
<1>6. EmergencyKept(p)
  <2>1. StackContents(p, "free") = {}
    BY <1>1 DEF Class
  <2>2. Len(p.emerg) = 0 /\ DOMAIN p.emerg = {}
    OBVIOUS
  <2>3. 0 <= EmergStackSize
    BY FrameAllocAssumption
  <2>4. QED
    BY <1>3, <2>1, <2>2, <2>3 DEF EmergencyKept
<1>7. QED
  BY <1>2, <1>4, <1>5, <1>6, FS_EmptySet DEF PoolOK

LEMMA InitInv ==
    ASSUME Init
    PROVE  Inv
<1>1. bootMap \in BootMaps /\ work = bootMap.usable /\ held = {}
  BY DEF Init
<1>2. WorkOK
  BY <1>1, MapOK DEF WorkOK
<1>3. Blank \in PageType /\ Blank.next = FrameEnd
  BY Constants DEF Blank, PageType, FRAME_NULL
<1>4. [Blank EXCEPT !.next = 0] \in PageType /\ [Blank EXCEPT !.next = 0].next = 0
  BY Constants DEF Blank, PageType, FRAME_NULL
<1> DEFINE mem == [f \in 0..FrameEnd |->
                     IF f = KernelPage["low"] THEN [Blank EXCEPT !.next = 0] ELSE Blank]
<1>5. mem \in MemType
  BY <1>3, <1>4 DEF MemType
<1>6. ASSUME NEW c \in Class PROVE mem[KernelPage[c]].next = LastLink(c)
  <2>1. KernelPage[c] \in 0..FrameEnd
    BY Constants
  <2>2. KernelPage[c] = KernelPage["low"] <=> c = "low"
    BY BootMapAssumption DEF Class
  <2>3. QED
    BY <1>3, <1>4, <2>1, <2>2 DEF LastLink, FRAME_NULL
<1>7. pool = [page |-> KernelPage, top |-> [c \in Class |-> 0], mem |-> mem,
              emerg |-> <<>>, count |-> 0]
  BY DEF Init
<1> HIDE DEF mem
<1>8. PoolOK(pool) /\ FramesOf(pool) = {}
  <2>1. /\ pool.page = KernelPage /\ pool.emerg = <<>> /\ pool.count = 0
        /\ pool.top = [c \in Class |-> 0] /\ pool.mem = mem
        /\ pool = [page |-> pool.page, top |-> pool.top, mem |-> pool.mem,
                   emerg |-> pool.emerg, count |-> pool.count]
    BY <1>7
  <2>2. \A c \in Class : pool.mem[KernelPage[c]].next = LastLink(c)
    BY <1>6, <2>1
  <2>3. QED
    BY <1>5, <2>1, <2>2, EmptyPool
<1>9. FramesOK
  BY <1>1, <1>8 DEF FramesOK, Available
<1>10. QED
  BY <1>1, <1>2, <1>9 DEF Inv

\* The kernel's pages are reserved, so no frame that is free is one of them.
LEMMA AvailableOK ==
    ASSUME bootMap \in BootMaps
    PROVE  /\ Available \subseteq Frames
           /\ \A d \in Class : KernelPage[d] \notin Available
           /\ Frames \subseteq Nat
<1>1. Available \subseteq Frames
  BY DEF Available, Frames
<1>2. \A d \in Class : KernelPage[d] \notin Available
  BY MapOK DEF Available
<1>3. QED
  BY <1>1, <1>2 DEF Frames

LEMMA BootInv ==
    ASSUME Inv, BootStep
    PROVE  Inv' /\ (~Wild' => held' = held /\ work # <<>>)
<1> DEFINE r == Head(work)
           rest == Tail(work)
           met == {i \in DOMAIN bootMap.reserved : Meets(r, bootMap.reserved[i])}
<1>1. /\ bootMap \in BootMaps /\ WorkOK /\ work # <<>> /\ held = {}
      /\ bootMap' = bootMap /\ held' = held
  BY DEF Inv, BootStep
<1>2. FramesOK /\ ~Wild
  BY <1>1 DEF Inv, Wild
<1>3. /\ r \in Bounds /\ r[1] <= r[2]
      /\ rest \in Seq(Bounds) /\ Ordered(rest)
      /\ \A f : In(f, work) <=> Within(f, r) \/ In(f, rest)
      /\ \A f : Apart(f, work) => Apart(f, rest) /\ ~(Within(f, r) /\ In(f, rest))
  BY <1>1, HeadAndTail DEF WorkOK
<1>4. /\ bootMap.reserved \in Seq(Bounds) /\ Ordered(bootMap.reserved)
      /\ \A f \in Nat : In(f, bootMap.usable) => f \in Frames
      /\ \A c \in Class : In(KernelPage[c], bootMap.reserved)
  BY <1>1, MapOK
<1>5. Available \subseteq Frames /\ Frames \subseteq Nat
      /\ \A f \in Available : ~In(f, bootMap.reserved)
  BY <1>1, AvailableOK DEF Available
<1>6. Available' = Available
  BY <1>1 DEF Available
<1>7. CASE met # {} /\ work' = Remaining(r, bootMap.reserved[FirstIndex(met)]) \o rest
           /\ pool' = pool
  <2> DEFINE i == FirstIndex(met)
             rr == bootMap.reserved[i]
             left == Remaining(r, rr)
  <2>1. i \in DOMAIN bootMap.reserved /\ Meets(r, rr)
    <3>1. PICK n \in Nat : DOMAIN bootMap.reserved = 1..n
      BY <1>4
    <3>2. met \in SUBSET (1..n)
      BY <3>1
    <3>3. i \in met
      <4> HIDE DEF met
      <4>1. QED
        BY <1>7, <3>2, FirstOf
    <3>4. QED
      BY <3>3
  <2>2. rr \in Bounds /\ rr[1] <= rr[2]
    <3> HIDE DEF i
    <3>1. QED
      BY <1>4, <2>1 DEF Ordered
  <2> HIDE DEF i
  <2>3. ASSUME NEW f \in Nat, ~In(f, bootMap.reserved) PROVE ~Within(f, rr)
    BY <2>1, <2>3 DEF In, Within
  <2> HIDE DEF rr, r, rest, met
  <2>4. /\ left \in Seq(Bounds) /\ Ordered(left)
        /\ \A f \in Nat : ~In(f, bootMap.reserved) =>
             (In(f, left) <=> Within(f, r)) /\ Apart(f, left)
    BY <1>3, <2>1, <2>2, <2>3, RemainingOK
  <2>5. work' = left \o rest
    BY <1>7 DEF rr, i
  <2> HIDE DEF left
  <2>6. work' \in Seq(Bounds) /\ Ordered(work')
    BY <1>3, <2>4, <2>5, OrderedConcat
  <2>7. ASSUME NEW f \in Nat, ~In(f, bootMap.reserved)
        PROVE  (In(f, work') <=> In(f, work)) /\ Apart(f, work')
    <3>1. Apart(f, work)
      BY <1>1, <2>7 DEF WorkOK
    <3>2. Apart(f, left) /\ Apart(f, rest) /\ ~(In(f, left) /\ In(f, rest))
      BY <1>3, <2>4, <2>7, <3>1
    <3>3. (In(f, left \o rest) <=> In(f, left) \/ In(f, rest)) /\ Apart(f, left \o rest)
      BY <1>3, <2>4, <3>2, InConcat
    <3>4. QED
      BY <1>3, <2>4, <2>5, <2>7, <3>3
  <2>8. WorkOK'
    <3>1. ASSUME NEW f \in Nat, ~In(f, bootMap'.reserved)
          PROVE  Apart(f, work') /\ (In(f, work') => In(f, bootMap'.usable))
      BY <1>1, <2>7, <3>1 DEF WorkOK
    <3>2. QED
      BY <2>6, <3>1 DEF WorkOK
  <2>9. {f \in Available : ~In(f, work')} = {f \in Available : ~In(f, work)}
    BY <1>5, <2>7
  <2>10. FramesOK'
    BY <1>1, <1>2, <1>6, <1>7, <2>9 DEF FramesOK
  <2>11. QED
    BY <1>1, <2>8, <2>10 DEF Inv
<1>8. CASE met = {} /\ work' = rest /\ pool' = PushRegion(pool, r)
  <2>1. \A f \in Nat : Within(f, r) => ~In(f, bootMap.reserved)
    <3>1. \A i \in DOMAIN bootMap.reserved : ~Meets(r, bootMap.reserved[i])
      BY <1>8
    <3> HIDE DEF r
    <3>2. QED
      BY <1>3, <1>4, <3>1, NotMet
  <2> HIDE DEF r, rest, met
  <2> DEFINE n == r[2] - r[1]
             fs == [i \in 1..n |-> r[1] + i - 1]
  <2>2. r[1] \in Nat /\ r[2] \in Nat /\ n \in Nat
    BY <1>3 DEF Bounds
  <2>3. Len(fs) = n /\ \A i \in 1..n : fs[i] = r[1] + i - 1
    BY <2>2
  <2>4. \A i \in 1..n : fs[i] \in Nat /\ Within(fs[i], r)
    <3> HIDE DEF fs
    <3>1. QED
      BY <2>2, <2>3 DEF Within
  <2>5. \A i, j \in 1..n : fs[i] = fs[j] => i = j
    <3> HIDE DEF fs
    <3>1. QED
      BY <2>2, <2>3
  <2>6. {fs[i] : i \in 1..n} = {f \in Nat : Within(f, r)}
    <3>1. ASSUME NEW f \in Nat, Within(f, r) PROVE \E i \in 1..n : f = fs[i]
      <4>1. f - r[1] + 1 \in 1..n /\ r[1] + (f - r[1] + 1) - 1 = f
        BY <2>2, <3>1 DEF Within
      <4>2. fs[f - r[1] + 1] = f
        BY <2>3, <4>1
      <4> HIDE DEF fs, n
      <4>3. QED
        BY <4>1, <4>2
    <3> HIDE DEF fs, n
    <3>2. QED
      BY <2>4, <3>1
  <2>7. pool' = PushAll(pool, fs)
    BY <1>8 DEF PushRegion
  <2> HIDE DEF fs, n
  <2>8. ASSUME NEW f \in Nat, Within(f, r)
        PROVE  /\ f \in Available /\ f \notin FramesOf(pool)
               /\ f \in Frames /\ \A c \in Class : f # KernelPage[c]
               /\ ~In(f, rest)
    <3>1. ~In(f, bootMap.reserved) /\ In(f, work)
      BY <1>3, <2>1, <2>8
    <3>2. In(f, bootMap.usable) /\ Apart(f, work)
      BY <1>1, <3>1 DEF WorkOK
    <3>3. f \in Frames
      BY <1>4, <3>2
    <3>4. f \in Available
      BY <3>1, <3>2, <3>3 DEF Available, Frames
    <3>5. f \notin FramesOf(pool)
      BY <1>2, <3>1, <3>4 DEF FramesOK
    <3>6. ~In(f, rest)
      BY <1>3, <2>8, <3>2
    <3>7. QED
      BY <1>4, <3>1, <3>3, <3>4, <3>5, <3>6
  <2>9. PoolOK(pool') /\ FramesOf(pool') = FramesOf(pool) \cup {f \in Nat : Within(f, r)}
    <3>1. PoolOK(pool)
      BY <1>2 DEF FramesOK
    <3>2. \A i \in 1..n : fs[i] \in Frames /\ fs[i] \notin FramesOf(pool)
      BY <2>4, <2>8
    <3>3. \A i \in 1..n : \A c \in Class : fs[i] # KernelPage[c]
      BY <2>4, <2>8
    <3>4. PoolOK(PushAll(pool, fs))
          /\ FramesOf(PushAll(pool, fs)) = FramesOf(pool) \cup {fs[i] : i \in 1..n}
      <4>1. n = Len(fs) /\ Len(fs) \in Nat
        BY <2>2, <2>3
      <4>2. \A i, j \in 1..Len(fs) : fs[i] = fs[j] => i = j
        BY <2>5, <4>1
      <4> HIDE DEF FramesOf
      <4>3. QED
        BY <3>1, <3>2, <3>3, <4>1, <4>2, PushAllOK
    <3>5. QED
      BY <2>6, <2>7, <3>4
  <2>10. {f \in Available : ~In(f, rest)}
           = {f \in Available : ~In(f, work)} \cup {f \in Nat : Within(f, r)}
    BY <1>3, <1>5, <2>8
  <2>11. FramesOK'
    <3>1. held' \cup FramesOf(pool') = {f \in Available' : ~In(f, work')}
      BY <1>1, <1>2, <1>6, <1>8, <2>9, <2>10 DEF FramesOK
    <3>2. held' \cap FramesOf(pool') = {}
      BY <1>1
    <3>3. QED
      BY <2>9, <3>1, <3>2 DEF FramesOK
  <2>12. WorkOK'
    <3>1. ASSUME NEW f \in Nat, ~In(f, bootMap'.reserved)
          PROVE  Apart(f, work') /\ (In(f, work') => In(f, bootMap'.usable))
      BY <1>1, <1>3, <1>8, <3>1 DEF WorkOK
    <3>2. QED
      BY <1>3, <1>8, <3>1 DEF WorkOK
  <2>13. QED
    BY <1>1, <2>11, <2>12 DEF Inv
<1>9. QED
  BY <1>7, <1>8 DEF BootStep

LEMMA AllocInv ==
    ASSUME Inv, Running, NEW n \in Nat, NEW fl, AllocMany(n, fl), ~Wild'
    PROVE  /\ Inv'
           /\ LET r == AllocUpTo(pool, n, fl) IN
              /\ pool' = r.pool /\ held' = held \cup r.frames
              /\ Taken(pool, r.pool, fl, r.frames) /\ Enough(pool, fl, r.frames, n)
<1> DEFINE r == AllocUpTo(pool, n, fl)
<1>1. /\ pool' = r.pool /\ held' = held \cup r.frames /\ work' = work /\ bootMap' = bootMap
      /\ work = <<>>
  BY DEF AllocMany, Running
<1>2. KernelPage["low"] \notin r.frames
  BY <1>1 DEF Wild
<1>3. FramesOK /\ bootMap \in BootMaps /\ WorkOK
  BY DEF Inv, Running
<1>4. PoolOK(pool)
  BY <1>3 DEF FramesOK
<1>5. Taken(pool, r.pool, fl, r.frames) /\ Enough(pool, fl, r.frames, n)
  BY <1>2, <1>4, AllocUpToOK DEF Answer
<1> HIDE DEF r
<1>6. Available' = Available /\ WorkOK'
  BY <1>1, <1>3 DEF Available, WorkOK
<1>7. FramesOK'
  BY <1>1, <1>3, <1>5, <1>6 DEF FramesOK, Taken
<1>8. Inv'
  BY <1>1, <1>3, <1>6, <1>7 DEF Inv
<1>9. QED
  BY <1>1, <1>5, <1>8 DEF r

LEMMA FreeInv ==
    ASSUME Inv, Running, NEW fs \in HeldSeqs, FreeMany(fs)
    PROVE  /\ Inv' /\ ~Wild'
           /\ Elements(fs) \subseteq held
           /\ FramesOf(pool') = FramesOf(pool) \cup Elements(fs)
<1>1. PICK n \in 1..MaxMany : fs \in [1..n -> held] /\ Cardinality(Elements(fs)) = n
  BY DEF HeldSeqs
<1>2. n \in Nat /\ DOMAIN fs = 1..n /\ Len(fs) = n
  BY <1>1
<1>3. \A i, j \in 1..n : fs[i] = fs[j] => i = j
  <2>1. fs \in Surjection(1..n, Elements(fs))
    BY <1>1, <1>2 DEF Elements, Surjection
  <2>2. IsFiniteSet(1..n) /\ Cardinality(1..n) = n
    <3>1. 1 \in Int /\ n \in Int
      BY <1>2
    <3>2. IsFiniteSet(1..n) /\ Cardinality(1..n) = IF 1 > n THEN 0 ELSE n - 1 + 1
      BY <3>1, FS_Interval
    <3>3. QED
      BY <1>2, <3>2
  <2>3. fs \in Injection(1..n, Elements(fs))
    BY <1>1, <2>1, <2>2, FS_SurjSameCardinalityImpliesInj
  <2>4. QED
    BY <2>3 DEF Injection, IsInjective
<1>4. Elements(fs) = {fs[i] : i \in 1..n} /\ Elements(fs) \subseteq held
  BY <1>1, <1>2 DEF Elements
<1>5. /\ pool' = PushAll(pool, fs) /\ held' = held \ Elements(fs)
      /\ work' = work /\ bootMap' = bootMap /\ work = <<>> /\ ~Wild
  BY DEF FreeMany, Running
<1>6. FramesOK /\ bootMap \in BootMaps /\ WorkOK
  BY <1>5 DEF Inv
<1>7. \A i \in 1..n : fs[i] \in held /\ fs[i] \in Frames /\ fs[i] \notin FramesOf(pool)
                      /\ \A d \in Class : fs[i] # KernelPage[d]
  <2>1. \A i \in 1..n : fs[i] \in held
    BY <1>1
  <2>2. held \subseteq Available
    BY <1>6 DEF FramesOK
  <2>3. QED
    BY <1>6, <2>1, <2>2, AvailableOK DEF FramesOK
<1>8. PoolOK(pool') /\ FramesOf(pool') = FramesOf(pool) \cup Elements(fs)
  <2>1. PoolOK(pool)
    BY <1>6 DEF FramesOK
  <2>2. PoolOK(PushAll(pool, fs))
        /\ FramesOf(PushAll(pool, fs)) = FramesOf(pool) \cup {fs[i] : i \in 1..n}
    BY <1>2, <1>3, <1>7, <2>1, PushAllOK
  <2>3. QED
    BY <1>4, <1>5, <2>2
<1>9. Available' = Available /\ WorkOK' /\ ~Wild'
  BY <1>5, <1>6 DEF Available, WorkOK, Wild
<1>10. FramesOK'
  BY <1>4, <1>5, <1>6, <1>8, <1>9 DEF FramesOK
<1>11. QED
  BY <1>4, <1>5, <1>6, <1>8, <1>9, <1>10 DEF Inv

LEMMA StutterInv ==
    ASSUME Inv, UNCHANGED vars
    PROVE  Inv'
<1>1. pool' = pool /\ held' = held /\ bootMap' = bootMap /\ work' = work
  BY DEF vars
<1>2. Available' = Available /\ (Wild' <=> Wild)
  BY <1>1 DEF Available, Wild
<1>3. WorkOK' <=> WorkOK
  BY <1>1 DEF WorkOK
<1>4. FramesOK' <=> FramesOK
  BY <1>1, <1>2 DEF FramesOK
<1>5. QED
  BY <1>1, <1>2, <1>3, <1>4 DEF Inv

\* Once the page of the low stack is handed out nothing more is claimed.
LEMMA WildInv ==
    ASSUME Inv, Running, NEW n \in Nat, NEW fl, AllocMany(n, fl), Wild'
    PROVE  Inv'
<1>1. bootMap' = bootMap /\ work' = work /\ work = <<>>
  BY DEF AllocMany, Running
<1>2. WorkOK'
  BY <1>1 DEF Inv, WorkOK
<1>3. QED
  BY <1>1, <1>2 DEF Inv

\* In every state of every run, from the memory map at boot on, the stacks of
\* frames are chains of pages that are themselves frames of their class
\* (memory/phys.c); until the page of the low stack is handed out.
THEOREM Invariant == Spec => []Inv
<1>1. Init => Inv
  BY InitInv
<1>2. Inv /\ [Next]_vars => Inv'
  <2>1. SUFFICES ASSUME Inv, [Next]_vars PROVE Inv'
    OBVIOUS
  <2>2. CASE BootStep
    BY <2>1, <2>2, BootInv
  <2>3. CASE Running /\ \E n \in 1..MaxMany, fl \in Flags : AllocMany(n, fl)
    <3>1. PICK n \in 1..MaxMany, fl \in Flags : AllocMany(n, fl)
      BY <2>3
    <3>2. n \in Nat
      OBVIOUS
    <3>3. QED
      BY <2>1, <2>3, <3>1, <3>2, AllocInv, WildInv
  <2>4. CASE Running /\ \E fs \in HeldSeqs : FreeMany(fs)
    BY <2>1, <2>4, FreeInv
  <2>5. CASE UNCHANGED vars
    BY <2>1, <2>5, StutterInv
  <2>6. QED
    BY <2>1, <2>2, <2>3, <2>4, <2>5 DEF Next
<1>3. QED
  BY <1>1, <1>2, PTL DEF Spec

LEMMA ContentsAre == Contents = FramesOf(pool)
BY DEF Contents, FramesOf

\* No frame is lost, handed out twice or free twice, whatever is asked for and
\* given back, and whatever page a stack keeps its frames in.
THEOREM FramesOnce == Spec => []EveryFrameOnce
<1>1. Inv => EveryFrameOnce
  <2>1. SUFFICES ASSUME Inv, Running PROVE held \cap Contents = {} /\ held \cup Contents = Available
                                           /\ pool.count = Cardinality(Contents)
    BY DEF EveryFrameOnce
  <2>2. FramesOK /\ work = <<>>
    BY <2>1 DEF Inv, Running
  <2>3. \A f : ~In(f, work)
    BY <2>2 DEF In
  <2>4. QED
    BY <2>2, <2>3, ContentsAre DEF FramesOK, PoolOK
<1>2. QED
  BY <1>1, Invariant, PTL

-----------------------------------------------------------------------------
(* The promise.                                                            *)

LEMMA DisjointUnion ==
    ASSUME NEW A, NEW B, IsFiniteSet(A), IsFiniteSet(B), A \cap B = {}
    PROVE  /\ Cardinality(A) \in Nat /\ Cardinality(B) \in Nat
           /\ Cardinality(A \cup B) = Cardinality(A) + Cardinality(B)
<1>1. Cardinality(A) \in Nat /\ Cardinality(B) \in Nat /\ Cardinality({}) = 0
  BY FS_CardinalityType, FS_EmptySet
<1>2. Cardinality(A \cup B) = Cardinality(A) + Cardinality(B) - Cardinality(A \cap B)
  BY FS_Union
<1>3. Cardinality(A \cap B) = 0
  BY <1>1
<1>4. QED
  BY <1>1, <1>2, <1>3

LEMMA SameCardinality == ASSUME NEW S PROVE Pool!Cardinality(S) = Cardinality(S)
BY DEF Pool!Cardinality, Cardinality

\* What a request can be given, in terms of the abstract pool: the reserve is
\* what the emergency stack has.
LEMMA SpareIs ==
    ASSUME PoolOK(pool), work = <<>>, NEW fl
    PROVE  /\ Obtainable(pool, fl) \subseteq FreeFrames \cap Pool!Usable(fl)
           /\ IsFiniteSet(Obtainable(pool, fl))
           /\ Cardinality(Obtainable(pool, fl)) = Pool!Spare(fl)
           /\ fl \cap {"FA_LOW_MEM", "FA_EMERG"} # {} =>
                Obtainable(pool, fl) = FreeFrames \cap Pool!Usable(fl)
           /\ fl \cap {"FA_LOW_MEM", "FA_EMERG"} = {} =>
                Pool!Usable(fl) \cap OfClass("low") = {}
<1> DEFINE F == FramesOf(pool)
           E == Elements(pool.emerg)
           L == StackContents(pool, "low")
           M == StackContents(pool, "free")
           H == StackContents(pool, "high")
           LowOnes == OfClass("low")
           MidOnes == OfClass("free")
           HighOnes == OfClass("high")
<1>1. FreeFrames = F
  BY ContentsAre DEF FreeFrames
<1>2. /\ F \cap LowOnes = L /\ F \cap HighOnes = H /\ F \cap MidOnes = E \cup M
      /\ F \subseteq Frames /\ IsFiniteSet(F) /\ EmergencyKept(pool) /\ Stacks(pool)
  BY FramesByClass DEF PoolOK, EmergencyKept
<1>3. /\ LowOnes \cap MidOnes = {} /\ LowOnes \cap HighOnes = {} /\ MidOnes \cap HighOnes = {}
      /\ LowOnes \cup MidOnes \cup HighOnes = Frames
  BY Classes
<1>4. Pool!Usable(fl) = IF "FA_LOW_MEM" \in fl THEN LowOnes
                        ELSE MidOnes \cup (IF "FA_32BIT" \in fl THEN {} ELSE HighOnes)
                                 \cup (IF "FA_EMERG" \in fl THEN LowOnes ELSE {})
  BY DEF Pool!Usable
<1>5. Obtainable(pool, fl) = IF "FA_LOW_MEM" \in fl THEN L
                             ELSE M \cup (IF "FA_32BIT" \in fl THEN {} ELSE H)
                                    \cup (IF "FA_EMERG" \in fl THEN E \cup L ELSE {})
  <2>1. FramesIn(pool, "low") = L /\ FramesIn(pool, "free") = M /\ FramesIn(pool, "high") = H
        /\ FramesIn(pool, "emerg") = E
    BY DEF FramesIn
  <2>2. Obtainable(pool, fl) = UNION {FramesIn(pool, s) : s \in Open(fl)}
    BY DEF Obtainable
  <2> HIDE DEF L, M, H, E
  <2>3. QED
    BY <2>1, <2>2 DEF Open
<1>6. E \cap M = {}
  BY <1>2 DEF EmergencyKept
<1>7. \A S : Pool!FreeOf(S) = Cardinality(F \cap S)
  <2> HIDE DEF F
  <2>1. ASSUME NEW S PROVE Pool!FreeOf(S) = Cardinality(FreeFrames \cap S)
    BY SameCardinality DEF Pool!FreeOf
  <2>2. QED
    BY <1>1, <2>1
<1>8. Pool!Spare(fl) =
        IF fl \cap {"FA_LOW_MEM", "FA_EMERG"} # {}
          THEN Pool!FreeOf(Pool!Usable(fl))
          ELSE Pool!FreeOf(Pool!Usable(fl) \ MidOnes) + Pool!FreeOf(MidOnes)
                 - Pool!Least(Pool!FreeOf(MidOnes), EmergStackSize)
  BY DEF Pool!Spare
<1>9. Pool!Least(Cardinality(E \cup M), EmergStackSize) = Cardinality(E)
      /\ Cardinality(E \cup M) = Cardinality(E) + Cardinality(M)
      /\ Cardinality(E) \in Nat /\ Cardinality(M) \in Nat
  <2>1. IsFiniteSet(E) /\ IsFiniteSet(M)
    BY <1>2, FS_Subset
  <2>2. /\ Cardinality(E) \in Nat /\ Cardinality(M) \in Nat
        /\ Cardinality(E \cup M) = Cardinality(E) + Cardinality(M)
    <3> HIDE DEF E, M
    <3>1. QED
      BY <1>6, <2>1, DisjointUnion
  <2>3. M = {} => E \cup M = E
    OBVIOUS
  <2>4. Cardinality(E) = Len(pool.emerg)
    <3>1. pool.emerg \in Seq(Frames) /\ \A i, j \in DOMAIN pool.emerg :
            pool.emerg[i] = pool.emerg[j] => i = j
      BY <1>2, PoolRecord DEF PoolOK, EmergencyKept
    <3> DEFINE n == Len(pool.emerg)
    <3>2. n \in Nat /\ DOMAIN pool.emerg = 1..n /\ pool.emerg \in [1..n -> E]
      <4>1. n \in Nat /\ DOMAIN pool.emerg = 1..n /\ pool.emerg \in [1..n -> Frames]
        BY <3>1
      <4>2. QED
        BY <4>1 DEF Elements
    <3>3. pool.emerg \in Bijection(1..n, E)
      <4>1. pool.emerg \in Injection(1..n, E)
        BY <3>1, <3>2 DEF Injection, IsInjective
      <4>2. pool.emerg \in Surjection(1..n, E)
        BY <3>2 DEF Surjection, Elements
      <4>3. QED
        BY <4>1, <4>2 DEF Bijection
    <3>4. Cardinality(1..n) = n /\ IsFiniteSet(1..n)
      <4>1. 1 \in Int /\ n \in Int
        BY <3>2
      <4>2. IsFiniteSet(1..n) /\ Cardinality(1..n) = IF 1 > n THEN 0 ELSE n - 1 + 1
        BY <4>1, FS_Interval
      <4>3. QED
        BY <3>2, <4>2
    <3> HIDE DEF E, n
    <3>5. Cardinality(E) = Cardinality(1..n)
      BY <3>3, <3>4, FS_Bijection DEF ExistsBijection
    <3>6. QED
      BY <3>4, <3>5 DEF n
  <2>5. Cardinality(E) <= EmergStackSize /\ (Cardinality(E) # EmergStackSize => M = {})
    BY <1>2, <2>4 DEF EmergencyKept
  <2>6. EmergStackSize \in Nat
    BY FrameAllocAssumption
  <2>7. \A i, j : Pool!Least(i, j) = IF i < j THEN i ELSE j
    BY DEF Pool!Least
  <2> HIDE DEF E, M
  <2>8. CASE Cardinality(E) = EmergStackSize
    BY <2>2, <2>6, <2>7, <2>8
  <2>9. CASE Cardinality(E) # EmergStackSize
    <3>1. M = {} /\ Cardinality(E \cup M) = Cardinality(E) /\ Cardinality(E) < EmergStackSize
      <4>1. M = {}
        BY <2>5, <2>9
      <4>2. Cardinality(E \cup M) = Cardinality(E)
        BY <4>1
      <4>3. Cardinality(E) < EmergStackSize
        BY <2>2, <2>5, <2>6, <2>9
      <4>4. QED
        BY <4>1, <4>2, <4>3
    <3>2. QED
      BY <2>2, <2>7, <3>1
  <2>10. QED
    BY <2>8, <2>9
<1> HIDE DEF F, E, L, M, H, LowOnes, MidOnes, HighOnes
<1>10. Obtainable(pool, fl) \subseteq F \cap Pool!Usable(fl)
  BY <1>2, <1>4, <1>5
<1>11. IsFiniteSet(Obtainable(pool, fl))
  BY <1>2, <1>10, FS_Subset
<1>12. ASSUME fl \cap {"FA_LOW_MEM", "FA_EMERG"} # {}
       PROVE  /\ Obtainable(pool, fl) = F \cap Pool!Usable(fl)
              /\ Cardinality(Obtainable(pool, fl)) = Pool!Spare(fl)
  <2>1. Obtainable(pool, fl) = F \cap Pool!Usable(fl)
    BY <1>2, <1>4, <1>5, <1>12
  <2>2. QED
    BY <1>7, <1>8, <1>12, <2>1
<1>13. ASSUME fl \cap {"FA_LOW_MEM", "FA_EMERG"} = {}
       PROVE  /\ Cardinality(Obtainable(pool, fl)) = Pool!Spare(fl)
              /\ Pool!Usable(fl) \cap LowOnes = {}
  <2> DEFINE U == Pool!Usable(fl) \ MidOnes
  <2>1. "FA_LOW_MEM" \notin fl /\ "FA_EMERG" \notin fl
    BY <1>13
  <2>2. U = IF "FA_32BIT" \in fl THEN {} ELSE HighOnes
    BY <1>3, <1>4, <2>1
  <2>3. Obtainable(pool, fl) = M \cup (F \cap U)
    BY <1>2, <1>5, <2>1, <2>2
  <2>4. M \cap (F \cap U) = {}
    BY <1>2, <1>3, <2>2
  <2>5. IsFiniteSet(M) /\ IsFiniteSet(F \cap U)
    BY <1>2, FS_Subset
  <2>6. /\ Cardinality(F \cap U) \in Nat
        /\ Cardinality(M \cup (F \cap U)) = Cardinality(M) + Cardinality(F \cap U)
    <3> HIDE DEF U
    <3>1. QED
      BY <2>4, <2>5, DisjointUnion
  <2>8. Pool!Spare(fl) = Pool!FreeOf(U) + Pool!FreeOf(MidOnes)
                           - Pool!Least(Pool!FreeOf(MidOnes), EmergStackSize)
    BY <1>8, <1>13
  <2>9. Pool!FreeOf(U) = Cardinality(F \cap U) /\ Pool!FreeOf(MidOnes) = Cardinality(E \cup M)
    BY <1>2, <1>7
  <2>10. Pool!Usable(fl) \cap LowOnes = {}
    BY <1>3, <1>4, <2>1
  <2>11. Pool!Spare(fl) = Cardinality(F \cap U) + (Cardinality(E) + Cardinality(M)) - Cardinality(E)
    BY <1>9, <2>8, <2>9
  <2> HIDE DEF U
  <2>12. QED
    BY <1>9, <2>3, <2>6, <2>10, <2>11
<1>14. QED
  BY <1>1, <1>10, <1>11, <1>12, <1>13 DEF LowOnes

LEMMA FreeFramesNext ==
    work' = <<>> => FreeFrames' = FramesOf(pool')
BY ContentsAre DEF FreeFrames, Contents, FramesOf

\* A page of the kernel is given to the requests that overdraw, and to no other.
LEMMA Overdraws ==
    ASSUME Inv, Running, NEW n \in Nat, NEW fl, AllocMany(n, fl)
    PROVE  Wild' <=> Pool!Overdrawn(n, fl)
<1> DEFINE r == AllocUpTo(pool, n, fl)
           kernel == KernelPage["low"]
<1>1. held' = held \cup r.frames /\ work = <<>> /\ kernel \notin held
  BY DEF AllocMany, Running, Wild
<1>2. PoolOK(pool)
  BY DEF Inv, Running, FramesOK
<1>3. Answer(pool, fl, n, r)
  BY <1>2, AllocUpToOK
<1> HIDE DEF r
<1>4. kernel \in r.frames <=> Short(pool, fl, n)
  BY <1>3 DEF Answer
<1>5. Cardinality(Obtainable(pool, fl)) = Pool!Spare(fl)
  BY <1>1, <1>2, SpareIs
<1>6. "low" \in Open(fl) <=> fl \cap {"FA_LOW_MEM", "FA_EMERG"} # {}
  BY DEF Open
<1>7. Wild' <=> kernel \in r.frames
  BY <1>1 DEF Wild
<1>8. QED
  BY <1>4, <1>5, <1>6, <1>7 DEF Short, Pool!Overdrawn

LEMMA RequestKept ==
    ASSUME Inv, Running, NEW n \in Nat, NEW fl, AllocMany(n, fl), ~Wild'
    PROVE  Pool!Take(n, fl, held' \ held)
<1> DEFINE r == AllocUpTo(pool, n, fl)
           D == r.frames
           S == held' \ held
<1>1. /\ pool' = r.pool /\ held' = held \cup D
      /\ Taken(pool, r.pool, fl, D) /\ Enough(pool, fl, D, n)
  BY AllocInv
<1>2. FramesOK /\ work = <<>> /\ work' = <<>>
  BY DEF Inv, Running, AllocMany
<1>3. PoolOK(pool) /\ held \cap FramesOf(pool) = {}
  BY <1>2 DEF FramesOK
<1> HIDE DEF r, D
<1>4. S = D
  BY <1>1, <1>3 DEF Taken
<1>5. /\ Obtainable(pool, fl) \subseteq FreeFrames \cap Pool!Usable(fl)
      /\ IsFiniteSet(Obtainable(pool, fl))
      /\ Cardinality(Obtainable(pool, fl)) = Pool!Spare(fl)
      /\ fl \cap {"FA_LOW_MEM", "FA_EMERG"} # {} =>
           Obtainable(pool, fl) = FreeFrames \cap Pool!Usable(fl)
  BY <1>2, <1>3, SpareIs
<1>6. D \subseteq Obtainable(pool, fl)
  BY <1>1 DEF Taken
<1>7. D \subseteq FreeFrames \cap Pool!Usable(fl)
  BY <1>5, <1>6
<1>8. Cardinality(D) = Pool!Least(n, Pool!Spare(fl))
  <2>1. /\ Cardinality(D) \in Nat /\ Pool!Spare(fl) \in Nat
        /\ Cardinality(D) <= Pool!Spare(fl)
    <3>1. /\ IsFiniteSet(D) /\ Cardinality(D) <= Cardinality(Obtainable(pool, fl))
      BY <1>5, <1>6, FS_Subset
    <3>2. Cardinality(D) \in Nat /\ Cardinality(Obtainable(pool, fl)) \in Nat
      BY <1>5, <3>1, FS_CardinalityType
    <3>3. QED
      BY <1>5, <3>1, <3>2
  <2>2. Cardinality(D) <= n /\ (Cardinality(D) = Pool!Spare(fl) \/ Cardinality(D) = n)
    BY <1>1, <1>5 DEF Enough
  <2>3. Pool!Least(n, Pool!Spare(fl)) = IF n < Pool!Spare(fl) THEN n ELSE Pool!Spare(fl)
    BY DEF Pool!Least
  <2>4. QED
    BY <2>1, <2>2, <2>3
<1>9. ASSUME "FA_EMERG" \in fl, D \cap OfClass("low") # {}
      PROVE  FreeFrames \cap (Pool!Usable(fl) \ OfClass("low")) \subseteq D
  <2>1. Obtainable(pool, fl) = FreeFrames \cap Pool!Usable(fl)
    BY <1>5, <1>9
  <2>2. Obtainable(pool, fl) \subseteq D \cup OfClass("low")
    BY <1>1, <1>9 DEF Taken
  <2>3. QED
    BY <2>1, <2>2
<1>10. FreeFrames' = FreeFrames \ D
  <2>1. FreeFrames' = FramesOf(pool')
    BY <1>2, FreeFramesNext
  <2>2. FreeFrames = FramesOf(pool)
    BY <1>2, ContentsAre DEF FreeFrames
  <2>3. FramesOf(pool') = FramesOf(pool) \ D
    BY <1>1 DEF Taken
  <2>4. QED
    BY <2>1, <2>2, <2>3
<1>11. Pool!Take(n, fl, D)
  <2>1. Pool!Cardinality(D) = Cardinality(D)
    BY SameCardinality
  <2>2. ~Pool!Overdrawn(n, fl)
    BY Overdraws
  <2>3. QED
    BY <1>7, <1>8, <1>9, <1>10, <2>1, <2>2 DEF Pool!Take
<1>12. QED
  BY <1>4, <1>11 DEF S

LEMMA ReleaseKept ==
    ASSUME Inv, Running, NEW fs \in HeldSeqs, FreeMany(fs)
    PROVE  Pool!Give(held \ held')
<1>1. Elements(fs) \subseteq held /\ FramesOf(pool') = FramesOf(pool) \cup Elements(fs)
  BY FreeInv
<1>2. held' = held \ Elements(fs) /\ work = <<>> /\ work' = <<>>
  BY DEF FreeMany, Running
<1>3. held \ held' = Elements(fs)
  BY <1>1, <1>2
<1>4. FramesOK /\ bootMap \in BootMaps
  BY DEF Inv, Running
<1>5. FreeFrames' = FramesOf(pool') /\ FreeFrames = FramesOf(pool)
  BY <1>2, FreeFramesNext, ContentsAre DEF FreeFrames
<1>6. held \subseteq Frames /\ held \cap FreeFrames = {}
  BY <1>4, <1>5, AvailableOK DEF FramesOK
<1>7. Pool!Frame = Frames
  BY Classes DEF Pool!Frame
<1>8. Elements(fs) \subseteq Pool!Frame \ FreeFrames
  BY <1>1, <1>6, <1>7
<1>9. FreeFrames' = FreeFrames \cup Elements(fs)
  BY <1>1, <1>5
<1>10. Pool!Give(Elements(fs))
  BY <1>8, <1>9 DEF Pool!Give
<1>11. QED
  BY <1>3, <1>10

LEMMA BootKept ==
    ASSUME Inv, BootStep, ~Wild'
    PROVE  FreeFrames' = FreeFrames
<1>1. Inv' /\ work # <<>> /\ held = {} /\ held' = {} /\ Available' = Available
  BY BootInv DEF Inv, BootStep, Available
<1>2. FreeFrames = Available
  BY <1>1 DEF FreeFrames
<1>3. CASE work' = <<>>
  <2>1. FreeFrames' = FramesOf(pool')
    BY <1>3, FreeFramesNext
  <2>2. FramesOK'
    BY <1>1 DEF Inv
  <2>3. FramesOf(pool') = {f \in Available' : ~In(f, work')}
    BY <1>1, <2>2 DEF FramesOK
  <2>4. \A f : ~In(f, work')
    BY <1>3 DEF In
  <2>5. QED
    BY <1>1, <1>2, <2>1, <2>3, <2>4
<1>4. CASE work' # <<>>
  BY <1>1, <1>2, <1>4 DEF FreeFrames
<1>5. QED
  BY <1>3, <1>4

\* Every request gets what the promise of phys.h says, and every release gives
\* the frames back (memory/phys.c).  The exception, and the only one, is the
\* request that goes on to low memory for more than low memory has: it is not
\* told so, but given a page of the kernel.
THEOREM PromiseKept == Spec => KeepsPromise
<1> DEFINE Moves == ~Wild' =>
             /\ work # <<>> => FreeFrames' = FreeFrames
             /\ held \ held' # {} => Pool!Give(held \ held')
           Kept == \A n \in 1..MaxMany, fl \in Flags :
             Running /\ AllocMany(n, fl) =>
               IF Pool!Overdrawn(n, fl) THEN Wild'
                                        ELSE ~Wild' /\ Pool!Take(n, fl, held' \ held)
<1>1. Inv /\ [Next]_vars => [Moves /\ Kept]_vars
  <2>1. SUFFICES ASSUME Inv, Next PROVE Moves /\ Kept
    OBVIOUS
  <2>2. Kept
    <3>1. SUFFICES ASSUME NEW n \in 1..MaxMany, NEW fl \in Flags, Running, AllocMany(n, fl)
                   PROVE  IF Pool!Overdrawn(n, fl) THEN Wild'
                          ELSE ~Wild' /\ Pool!Take(n, fl, held' \ held)
      OBVIOUS
    <3>2. n \in Nat
      OBVIOUS
    <3>3. Wild' <=> Pool!Overdrawn(n, fl)
      BY <2>1, <3>1, <3>2, Overdraws
    <3>4. ~Wild' => Pool!Take(n, fl, held' \ held)
      BY <2>1, <3>1, <3>2, RequestKept
    <3>5. QED
      BY <3>3, <3>4
  <2>3. Moves
    <3>1. SUFFICES ASSUME ~Wild'
                   PROVE  /\ work # <<>> => FreeFrames' = FreeFrames
                          /\ held \ held' # {} => Pool!Give(held \ held')
      OBVIOUS
    <3>2. ASSUME Wild, UNCHANGED vars PROVE FALSE
      BY <3>1, <3>2 DEF Wild, vars
    <3>3. ASSUME work # <<>> PROVE FreeFrames' = FreeFrames
      <4>1. BootStep
        BY <2>1, <3>2, <3>3 DEF Next, Running
      <4>2. QED
        BY <2>1, <3>1, <4>1, BootKept
    <3>4. ASSUME held \ held' # {} PROVE Pool!Give(held \ held')
      <4>1. ~BootStep /\ \A n, fl : ~AllocMany(n, fl)
        BY <3>4 DEF BootStep, AllocMany
      <4>2. Running /\ \E fs \in HeldSeqs : FreeMany(fs)
        BY <2>1, <3>2, <4>1 DEF Next
      <4>3. QED
        BY <2>1, <4>2, ReleaseKept
    <3>5. QED
      BY <3>3, <3>4
  <2>4. QED
    BY <2>2, <2>3
<1>2. QED
  BY <1>1, Invariant, PTL DEF Spec, KeepsPromise

-----------------------------------------------------------------------------
(* Sequences: one element out, one in, and a walk.                         *)

LEMMA RemoveAtFacts ==
    ASSUME NEW S, NEW q \in Seq(S), NEW i \in 1..Len(q), NEW r, r = RemoveAt(q, i)
    PROVE  /\ r \in Seq(S) /\ Len(q) \in Nat /\ Len(r) = Len(q) - 1
           /\ \A j \in 1..(Len(q) - 1) : r[j] = IF j < i THEN q[j] ELSE q[j + 1]
<1>1. Len(q) \in Nat
  OBVIOUS
<1> DEFINE a == SubSeq(q, 1, i - 1)
           b == SubSeq(q, i + 1, Len(q))
<1>2. /\ a \in Seq(S) /\ Len(a) = i - 1 /\ \A j \in 1..(i - 1) : a[j] = q[j]
  <2>1. \A j \in 1..(i - 1) : q[j] \in S
    BY <1>1, ElementOfSeq
  <2>2. Len(a) = i - 1 /\ \A j \in 1..(i - 1) : a[j] = q[1 + j - 1]
    BY <1>1, SubSeqProperties
  <2>3. QED
    BY <1>1, <2>1, <2>2, SubSeqProperties
<1>3. /\ b \in Seq(S) /\ Len(b) = Len(q) - i
      /\ \A j \in 1..(Len(q) - i) : b[j] = q[i + j]
  <2>1. i + 1 \in 1..(Len(q) + 1) /\ Len(q) \in i..Len(q)
    BY <1>1
  <2>2. b \in Seq(S) /\ Len(b) = Len(q) - i
    BY <1>1, <2>1, SubSeqProperties
  <2>3. QED
    BY <1>1, <2>1, <2>2, SubSeqProperties
<1>4. /\ a \o b \in Seq(S)
      /\ Len(a \o b) = Len(a) + Len(b)
      /\ \A j \in 1..(Len(a) + Len(b)) : (a \o b)[j] =
           IF j <= Len(a) THEN a[j] ELSE b[j - Len(a)]
  BY <1>2, <1>3, ConcatProperties
<1>5. r = a \o b
  BY DEF RemoveAt
<1> HIDE DEF a, b
<1>6. r \in Seq(S) /\ Len(r) = Len(q) - 1
  <2>1. Len(a) + Len(b) = Len(q) - 1
    BY <1>1, <1>2, <1>3
  <2>2. QED
    BY <1>4, <1>5, <2>1
<1>7. ASSUME NEW j \in 1..(Len(q) - 1) PROVE r[j] = IF j < i THEN q[j] ELSE q[j + 1]
  <2>1. r[j] = IF j <= i - 1 THEN a[j] ELSE b[j - (i - 1)]
    BY <1>1, <1>2, <1>3, <1>4, <1>5
  <2>2. CASE j < i
    <3>1. j \in 1..(i - 1)
      BY <1>1, <2>2
    <3>2. QED
      BY <1>2, <2>1, <2>2, <3>1
  <2>3. CASE ~(j < i)
    <3>1. /\ j - (i - 1) \in 1..(Len(q) - i) /\ ~(j <= i - 1)
          /\ i + (j - (i - 1)) = j + 1
      BY <1>1, <2>3
    <3>2. b[j - (i - 1)] = q[i + (j - (i - 1))]
      BY <1>3, <3>1
    <3>3. QED
      BY <2>1, <2>3, <3>1, <3>2
  <2>4. QED
    BY <2>2, <2>3
<1>8. QED
  BY <1>1, <1>6, <1>7

LEMMA InsertAtFacts ==
    ASSUME NEW S, NEW q \in Seq(S), NEW e \in S, NEW i \in 1..(Len(q) + 1),
           NEW r, r = InsertAt(q, i, e)
    PROVE  /\ r \in Seq(S) /\ Len(q) \in Nat /\ Len(r) = Len(q) + 1
           /\ \A j \in 1..(i - 1) : r[j] = q[j]
           /\ r[i] = e
           /\ \A j \in i..Len(q) : r[j + 1] = q[j]
<1>1. Len(q) \in Nat
  OBVIOUS
<1> DEFINE a == SubSeq(q, 1, i - 1)
           b == SubSeq(q, i, Len(q))
           c == a \o <<e>>
<1>2. /\ a \in Seq(S) /\ Len(a) = i - 1 /\ \A j \in 1..(i - 1) : a[j] = q[j]
  <2>1. \A j \in 1..(i - 1) : q[j] \in S
    BY <1>1, ElementOfSeq
  <2>2. Len(a) = i - 1 /\ \A j \in 1..(i - 1) : a[j] = q[1 + j - 1]
    BY <1>1, SubSeqProperties
  <2>3. QED
    BY <1>1, <2>1, <2>2, SubSeqProperties
<1>3. /\ b \in Seq(S) /\ Len(b) = Len(q) - i + 1
      /\ \A j \in 1..(Len(q) - i + 1) : b[j] = q[i + j - 1]
  <2>1. i \in 1..(Len(q) + 1) /\ Len(q) \in (i - 1)..Len(q)
    BY <1>1
  <2>2. b \in Seq(S) /\ Len(b) = Len(q) - i + 1
    BY <1>1, <2>1, SubSeqProperties
  <2>3. QED
    BY <1>1, <2>1, <2>2, SubSeqProperties
<1>4. <<e>> \in Seq(S) /\ Len(<<e>>) = 1 /\ <<e>>[1] = e
  OBVIOUS
<1>5. /\ c \in Seq(S) /\ Len(c) = i
      /\ \A j \in 1..i : c[j] = IF j <= i - 1 THEN a[j] ELSE <<e>>[j - (i - 1)]
  <2>1. /\ a \o <<e>> \in Seq(S)
        /\ Len(a \o <<e>>) = Len(a) + Len(<<e>>)
        /\ \A j \in 1..(Len(a) + Len(<<e>>)) : (a \o <<e>>)[j] =
             IF j <= Len(a) THEN a[j] ELSE <<e>>[j - Len(a)]
    BY <1>2, <1>4, ConcatProperties
  <2>2. Len(a) + Len(<<e>>) = i
    BY <1>1, <1>2, <1>4
  <2>3. QED
    BY <1>2, <2>1, <2>2
<1>6. /\ c \o b \in Seq(S)
      /\ Len(c \o b) = Len(c) + Len(b)
      /\ \A j \in 1..(Len(c) + Len(b)) : (c \o b)[j] =
           IF j <= Len(c) THEN c[j] ELSE b[j - Len(c)]
  <2>1. c \in Seq(S) /\ b \in Seq(S)
    BY <1>3, <1>5
  <2> HIDE DEF c, b
  <2>2. QED
    BY <2>1, ConcatProperties
<1>7. r = c \o b
  BY DEF InsertAt
<1> HIDE DEF a, b, c
<1>8. r \in Seq(S) /\ Len(r) = Len(q) + 1
  BY <1>1, <1>3, <1>5, <1>6, <1>7
<1>9. ASSUME NEW j \in 1..(Len(q) + 1)
      PROVE  r[j] = IF j < i THEN q[j] ELSE IF j = i THEN e ELSE q[j - 1]
  <2>1. r[j] = IF j <= i THEN c[j] ELSE b[j - i]
    BY <1>1, <1>3, <1>5, <1>6, <1>7
  <2>2. CASE j < i
    <3>1. j \in 1..(i - 1) /\ j \in 1..i /\ j <= i - 1 /\ j <= i
      BY <1>1, <2>2
    <3>2. QED
      BY <1>2, <1>5, <2>1, <2>2, <3>1
  <2>3. CASE j = i
    <3>1. i \in 1..i /\ ~(i <= i - 1) /\ i - (i - 1) = 1 /\ i <= i /\ ~(i < i)
      BY <1>1
    <3>2. QED
      BY <1>4, <1>5, <2>1, <2>3, <3>1
  <2>4. CASE j > i
    <3>1. /\ j - i \in 1..(Len(q) - i + 1) /\ ~(j <= i) /\ ~(j < i) /\ j # i
          /\ i + (j - i) - 1 = j - 1
      BY <1>1, <2>4
    <3>2. b[j - i] = q[i + (j - i) - 1]
      BY <1>3, <3>1
    <3>3. QED
      BY <2>1, <3>1, <3>2
  <2>5. QED
    BY <1>1, <2>2, <2>3, <2>4
<1>10. r[i] = e
  <2>1. i \in 1..(Len(q) + 1) /\ ~(i < i)
    BY <1>1
  <2>2. QED
    BY <1>9, <2>1
<1>11. ASSUME NEW j \in 1..(i - 1) PROVE r[j] = q[j]
  <2>1. j \in 1..(Len(q) + 1) /\ j < i
    BY <1>1
  <2>2. QED
    BY <1>9, <2>1
<1>12. ASSUME NEW j \in i..Len(q) PROVE r[j + 1] = q[j]
  <2>1. j + 1 \in 1..(Len(q) + 1) /\ ~(j + 1 < i) /\ j + 1 # i /\ (j + 1) - 1 = j
    BY <1>1
  <2>2. QED
    BY <1>9, <2>1
<1>13. QED
  BY <1>1, <1>8, <1>10, <1>11, <1>12

LEMMA WalkLenFacts ==
    ASSUME NEW T, NEW q \in Seq(T), NEW S, NEW k, k = WalkLen(q, S)
    PROVE  /\ Len(q) \in Nat /\ k \in 0..Len(q)
           /\ \A i \in 1..k : q[i] \in S
           /\ k < Len(q) => q[k + 1] \notin S
<1>1. Len(q) \in Nat
  OBVIOUS
<1> DEFINE Out == {i \in Nat : i \in 1..Len(q) /\ q[i] \notin S}
<1>2. \E j \in 0..Len(q) : (\A i \in 1..j : q[i] \in S) /\ (j < Len(q) => q[j + 1] \notin S)
  <2>1. CASE Out = {}
    <3>1. \A i \in 1..Len(q) : q[i] \in S
      BY <1>1, <2>1
    <3>2. Len(q) \in 0..Len(q) /\ ~(Len(q) < Len(q))
      BY <1>1
    <3>3. QED
      BY <3>1, <3>2
  <2>2. CASE Out # {}
    <3>1. PICK n \in Out : \A m \in Out : n <= m
      BY <2>2, LeastNat
    <3>2. n - 1 \in 0..Len(q) /\ (n - 1) + 1 = n /\ q[n] \notin S
      BY <1>1, <3>1
    <3>3. ASSUME NEW i \in 1..(n - 1) PROVE q[i] \in S
      <4>1. i \in Nat /\ i \in 1..Len(q) /\ ~(n <= i)
        BY <1>1, <3>1
      <4>2. QED
        BY <3>1, <4>1
    <3>4. QED
      BY <3>2, <3>3
  <2>3. QED
    BY <2>1, <2>2
<1>3. QED
  BY <1>1, <1>2 DEF WalkLen

-----------------------------------------------------------------------------
(* The two lists of regions.                                               *)

RegionType == [address : Nat, size : Nat \ {0}]
VirtType == [byAddr : Seq(RegionType), bySize : Seq(Nat), spare : Nat]

\* Each region of q ends, and a page more, before those behind it.
GapsIn(q) == \A i, j \in 1..Len(q) : i < j => q[i].address + q[i].size < q[j].address

\* s has the addresses of the regions of q but the x-th, the largest first.
BySizeBut(q, s, x) ==
    /\ \A k \in 1..Len(s) : \E i \in 1..Len(q) : i # x /\ q[i].address = s[k]
    /\ \A i \in 1..Len(q) : i # x => \E k \in 1..Len(s) : s[k] = q[i].address
    /\ \A k, l \in 1..Len(s) : s[k] = s[l] => k = l
    /\ \A k, l \in 1..Len(s), i, j \in 1..Len(q) :
         k < l /\ q[i].address = s[k] /\ q[j].address = s[l] => q[i].size >= q[j].size

VirtOK(v) ==
    /\ v \in VirtType
    /\ GapsIn(v.byAddr)
    /\ Len(v.bySize) = Len(v.byAddr) /\ BySizeBut(v.byAddr, v.bySize, 0)

\* The same when the x-th is out of the list by size.
VirtBut(v, x) ==
    /\ v \in VirtType
    /\ GapsIn(v.byAddr)
    /\ Len(v.bySize) = Len(v.byAddr) - 1 /\ BySizeBut(v.byAddr, v.bySize, x)

LEMMA RegionFacts ==
    ASSUME NEW q \in Seq(RegionType), NEW i \in 1..Len(q)
    PROVE  /\ Len(q) \in Nat /\ q[i] \in RegionType
           /\ q[i].address \in Nat /\ q[i].size \in Nat /\ q[i].size > 0
<1>1. Len(q) \in Nat /\ q[i] \in RegionType
  BY ElementOfSeq, LenProperties
<1>2. q[i].address \in Nat /\ q[i].size \in Nat \ {0}
  BY <1>1 DEF RegionType
<1>3. QED
  BY <1>1, <1>2

\* Regions have different addresses, so that an address has one place.
LEMMA OneAddress ==
    ASSUME NEW q \in Seq(RegionType), GapsIn(q), NEW i \in 1..Len(q), NEW j \in 1..Len(q),
           q[i].address = q[j].address
    PROVE  i = j
<1>1. /\ q[i].address \in Nat /\ q[i].size \in Nat
      /\ q[j].address \in Nat /\ q[j].size \in Nat
  BY RegionFacts
<1>2. ~(i < j)
  BY <1>1 DEF GapsIn
<1>3. ~(j < i)
  BY <1>1 DEF GapsIn
<1>4. QED
  BY <1>2, <1>3

LEMMA PlaceFound ==
    ASSUME NEW v \in VirtType, GapsIn(v.byAddr), NEW i \in 1..Len(v.byAddr)
    PROVE  /\ PlaceOf(v, v.byAddr[i].address) = i
           /\ SizeOf(v, v.byAddr[i].address) = v.byAddr[i].size
<1> DEFINE q == v.byAddr
           a == v.byAddr[i].address
<1>1. q \in Seq(RegionType) /\ DOMAIN q = 1..Len(q)
  BY DEF VirtType
<1>2. \A j \in 1..Len(q) : q[j].address = a => j = i
  BY <1>1, OneAddress
<1>3. PlaceOf(v, a) = i
  BY <1>1, <1>2 DEF PlaceOf
<1>4. QED
  BY <1>3 DEF SizeOf

LEMMA RemoveSizeOK ==
    ASSUME NEW v, VirtOK(v), NEW x \in 1..Len(v.byAddr), NEW w,
           w = RemoveSize(v, v.byAddr[x].address)
    PROVE  VirtBut(w, x) /\ w.byAddr = v.byAddr /\ w.spare = v.spare
<1> DEFINE q == v.byAddr
           s == v.bySize
           a == v.byAddr[x].address
           m == RankOf(v, a)
           t == RemoveAt(s, m)
<1>1. /\ v \in VirtType /\ GapsIn(q) /\ Len(s) = Len(q) /\ BySizeBut(q, s, 0)
      /\ q \in Seq(RegionType) /\ s \in Seq(Nat) /\ v.spare \in Nat
      /\ Len(q) \in Nat /\ DOMAIN s = 1..Len(s)
  BY DEF VirtOK, VirtType
<1>2. m \in 1..Len(s) /\ s[m] = a
  <2>1. \E k \in 1..Len(s) : s[k] = a
    BY <1>1 DEF BySizeBut
  <2>2. QED
    BY <1>1, <2>1 DEF RankOf
<1>3. /\ t \in Seq(Nat) /\ Len(t) = Len(s) - 1
      /\ \A j \in 1..(Len(s) - 1) : t[j] = IF j < m THEN s[j] ELSE s[j + 1]
  <2> DEFINE N == Nat
  <2> HIDE DEF m, s
  <2>1. s \in Seq(N) /\ m \in 1..Len(s) /\ t = RemoveAt(s, m)
    BY <1>1, <1>2
  <2> HIDE DEF N, t
  <2>2. t \in Seq(N) /\ Len(t) = Len(s) - 1
    BY <2>1, RemoveAtFacts
  <2>3. \A j \in 1..(Len(s) - 1) : t[j] = IF j < m THEN s[j] ELSE s[j + 1]
    BY <2>1, RemoveAtFacts
  <2>4. QED
    BY <2>2, <2>3 DEF N
<1>4. w = [v EXCEPT !.bySize = t]
  BY DEF RemoveSize
<1> HIDE DEF m, t
<1>5. /\ w \in VirtType /\ w.byAddr = q /\ w.spare = v.spare /\ w.bySize = t
  BY <1>1, <1>3, <1>4 DEF VirtType
<1>num. Len(s) \in Nat /\ m \in 1..Len(s) /\ Len(t) = Len(s) - 1
  BY <1>1, <1>2, <1>3
<1>order. \A k, l \in 1..Len(s), i, j \in 1..Len(q) :
            k < l /\ q[i].address = s[k] /\ q[j].address = s[l] => q[i].size >= q[j].size
  BY <1>1 DEF BySizeBut
<1> DEFINE At1(j) == IF j < m THEN j ELSE j + 1
<1>6. ASSUME NEW j \in 1..Len(t)
      PROVE  At1(j) \in 1..Len(s) /\ At1(j) # m /\ t[j] = s[At1(j)]
  <2>1. j \in 1..(Len(s) - 1) /\ j \in Nat
    BY <1>3
  <2>2. t[j] = IF j < m THEN s[j] ELSE s[j + 1]
    BY <1>3, <2>1
  <2>3. CASE j < m
    <3>1. At1(j) = j /\ t[j] = s[j]
      BY <2>2, <2>3
    <3>2. j \in 1..Len(s) /\ j # m
      BY <1>num, <2>1, <2>3
    <3>3. QED
      BY <3>1, <3>2
  <2>4. CASE ~(j < m)
    <3>1. At1(j) = j + 1 /\ t[j] = s[j + 1]
      BY <2>2, <2>4
    <3>2. j + 1 \in 1..Len(s) /\ j + 1 # m
      BY <1>num, <2>1, <2>4
    <3>3. QED
      BY <3>1, <3>2
  <2>5. QED
    BY <2>3, <2>4
<1>7. ASSUME NEW j \in 1..Len(t), NEW k \in 1..Len(t)
      PROVE  (At1(j) = At1(k) => j = k) /\ (j < k => At1(j) < At1(k))
  BY <1>num
<1>8. ASSUME NEW n \in 1..Len(s), n # m
      PROVE  \E j \in 1..Len(t) : At1(j) = n
  <2>1. CASE n < m
    <3>1. n \in 1..Len(t) /\ At1(n) = n
      BY <1>1, <1>2, <1>3, <2>1
    <3>2. QED
      BY <3>1
  <2>2. CASE ~(n < m)
    <3>1. n - 1 \in 1..Len(t) /\ At1(n - 1) = n
      BY <1>1, <1>2, <1>3, <1>8, <2>2
    <3>2. QED
      BY <3>1
  <2>3. QED
    BY <2>1, <2>2
<1> HIDE DEF At1
<1>9. ASSUME NEW k \in 1..Len(t)
      PROVE  \E i \in 1..Len(q) : i # x /\ q[i].address = t[k]
  <2>1. At1(k) \in 1..Len(s) /\ At1(k) # m /\ t[k] = s[At1(k)]
    BY <1>6
  <2>2. PICK i \in 1..Len(q) : q[i].address = s[At1(k)]
    BY <1>1, <2>1 DEF BySizeBut
  <2>3. i # x
    BY <1>1, <1>2, <2>1, <2>2 DEF BySizeBut
  <2>4. QED
    BY <2>1, <2>2, <2>3
<1>10. ASSUME NEW i \in 1..Len(q), i # x
       PROVE  \E k \in 1..Len(t) : t[k] = q[i].address
  <2>1. PICK n \in 1..Len(s) : s[n] = q[i].address
    BY <1>1, i # 0 DEF BySizeBut
  <2>2. n # m
    BY <1>1, <1>2, <1>10, <2>1, OneAddress
  <2>3. PICK j \in 1..Len(t) : At1(j) = n
    BY <1>8, <2>2
  <2>4. QED
    BY <1>6, <2>1, <2>3
<1>11. ASSUME NEW k \in 1..Len(t), NEW l \in 1..Len(t), t[k] = t[l] PROVE k = l
  <2>1. /\ At1(k) \in 1..Len(s) /\ t[k] = s[At1(k)]
        /\ At1(l) \in 1..Len(s) /\ t[l] = s[At1(l)]
    BY <1>6
  <2>2. At1(k) = At1(l)
    BY <1>1, <1>11, <2>1 DEF BySizeBut
  <2>3. QED
    BY <1>7, <2>2
<1>12. ASSUME NEW k \in 1..Len(t), NEW l \in 1..Len(t), NEW i \in 1..Len(q),
              NEW j \in 1..Len(q), k < l, q[i].address = t[k], q[j].address = t[l]
       PROVE  q[i].size >= q[j].size
  <2>1. /\ At1(k) \in 1..Len(s) /\ t[k] = s[At1(k)]
        /\ At1(l) \in 1..Len(s) /\ t[l] = s[At1(l)]
    BY <1>6
  <2>2. At1(k) < At1(l)
    BY <1>7, <1>12
  <2>3. q[i].address = s[At1(k)] /\ q[j].address = s[At1(l)]
    BY <1>12, <2>1
  <2>4. QED
    BY <1>order, <2>1, <2>2, <2>3
<1>13. BySizeBut(q, t, x)
  BY <1>9, <1>10, <1>11, <1>12 DEF BySizeBut
<1>14. Len(t) = Len(q) - 1
  BY <1>1, <1>3
<1>15. QED
  BY <1>1, <1>5, <1>13, <1>14 DEF VirtBut

LEMMA InsertSizeOK ==
    ASSUME NEW v, NEW x \in 1..Len(v.byAddr), VirtBut(v, x), NEW w,
           w = InsertSize(v, v.byAddr[x].address)
    PROVE  VirtOK(w) /\ w.byAddr = v.byAddr /\ w.spare = v.spare
<1> DEFINE q == v.byAddr
           s == v.bySize
           a == v.byAddr[x].address
           larger == {b \in ToSet(s) : SizeOf(v, b) > SizeOf(v, a)}
           m == WalkLen(s, larger) + 1
           t == InsertAt(s, m, a)
<1>1. /\ v \in VirtType /\ GapsIn(q) /\ Len(s) = Len(q) - 1 /\ BySizeBut(q, s, x)
      /\ q \in Seq(RegionType) /\ s \in Seq(Nat) /\ v.spare \in Nat
      /\ Len(q) \in Nat /\ Len(s) \in Nat /\ DOMAIN s = 1..Len(s)
  BY DEF VirtBut, VirtType
<1>2. /\ a \in Nat /\ q[x].size \in Nat
  BY <1>1, RegionFacts
<1>3. /\ m \in 1..(Len(s) + 1)
      /\ \A j \in 1..(m - 1) : s[j] \in larger
      /\ m <= Len(s) => s[m] \notin larger
  <2> DEFINE k == WalkLen(s, larger)
  <2> HIDE DEF larger
  <2>1. /\ k \in 0..Len(s)
        /\ \A i \in 1..k : s[i] \in larger
        /\ k < Len(s) => s[k + 1] \notin larger
    BY <1>1, WalkLenFacts
  <2> HIDE DEF k
  <2>2. k + 1 \in 1..(Len(s) + 1) /\ (k + 1) - 1 = k /\ (k + 1 <= Len(s) => k < Len(s))
    BY <1>1, <2>1
  <2>3. m = k + 1
    BY DEF k
  <2>4. QED
    BY <2>1, <2>2, <2>3
<1>4. \A j \in 1..Len(s), i \in 1..Len(q) :
        q[i].address = s[j] => (s[j] \in larger <=> q[i].size > q[x].size)
  <2> SUFFICES ASSUME NEW j \in 1..Len(s), NEW i \in 1..Len(q), q[i].address = s[j]
               PROVE  s[j] \in larger <=> q[i].size > q[x].size
    OBVIOUS
  <2>1. SizeOf(v, q[i].address) = q[i].size /\ SizeOf(v, a) = q[x].size
    BY <1>1, PlaceFound
  <2>2. s[j] \in ToSet(s)
    BY <1>1 DEF ToSet
  <2>3. QED
    BY <2>1, <2>2
<1> HIDE DEF larger
<1>5. /\ t \in Seq(Nat) /\ Len(t) = Len(s) + 1
      /\ \A j \in 1..(m - 1) : t[j] = s[j]
      /\ t[m] = a
      /\ \A j \in m..Len(s) : t[j + 1] = s[j]
  <2> DEFINE N == Nat
  <2> HIDE DEF m, s, a
  <2>1. s \in Seq(N) /\ m \in 1..(Len(s) + 1) /\ a \in N /\ t = InsertAt(s, m, a)
    BY <1>1, <1>2, <1>3
  <2> HIDE DEF N, t
  <2>2. t \in Seq(N) /\ Len(t) = Len(s) + 1
    BY <2>1, InsertAtFacts
  <2>3. t[m] = a
    BY <2>1, InsertAtFacts
  <2>4. \A j \in 1..(m - 1) : t[j] = s[j]
    BY <2>1, InsertAtFacts
  <2>5. \A j \in m..Len(s) : t[j + 1] = s[j]
    BY <2>1, InsertAtFacts
  <2>6. QED
    BY <2>2, <2>3, <2>4, <2>5 DEF N
<1>6. w = [v EXCEPT !.bySize = t]
  BY DEF InsertSize, larger
<1> HIDE DEF m, t
<1>7. /\ w \in VirtType /\ w.byAddr = q /\ w.spare = v.spare /\ w.bySize = t
  BY <1>1, <1>5, <1>6 DEF VirtType
<1>num. Len(s) \in Nat /\ m \in Nat /\ 1 <= m /\ m <= Len(s) + 1 /\ Len(t) = Len(s) + 1
  BY <1>1, <1>3, <1>5
\* The elements in front of a are larger, those behind are not.
<1>8. ASSUME NEW j \in 1..Len(s), NEW i \in 1..Len(q), q[i].address = s[j]
      PROVE  /\ j < m => q[i].size > q[x].size
             /\ j >= m => q[i].size <= q[x].size
  <2>1. q[i].size \in Nat
    BY <1>1, RegionFacts
  <2>2. CASE j < m
    <3>1. j \in 1..(m - 1) /\ ~(j >= m)
      BY <1>1, <1>3, <2>2
    <3>2. QED
      BY <1>3, <1>4, <1>8, <3>1
  <2>3. CASE j >= m
    <3>1. m \in 1..Len(s) /\ m <= Len(s) /\ ~(j < m)
      BY <1>1, <1>3, <2>3
    <3>2. PICK n \in 1..Len(q) : q[n].address = s[m]
      BY <1>1, <3>1 DEF BySizeBut
    <3>3. ~(q[n].size > q[x].size) /\ q[n].size \in Nat
      BY <1>1, <1>3, <1>4, <3>1, <3>2, RegionFacts
    <3>4. q[n].size >= q[i].size
      <4>1. CASE j = m
        <5>1. i = n
          BY <1>1, <1>8, <3>2, <4>1, OneAddress
        <5>2. QED
          BY <3>3, <5>1
      <4>2. CASE m < j
        BY <1>1, <1>8, <3>1, <3>2, <4>2 DEF BySizeBut
      <4>3. QED
        BY <1>3, <2>3, <4>1, <4>2
    <3>5. q[i].size <= q[x].size
      <4> DEFINE y == q[i].size
                 z == q[x].size
                 u == q[n].size
      <4>1. y \in Nat /\ z \in Nat /\ u \in Nat /\ ~(u > z) /\ u >= y
        BY <1>2, <2>1, <3>3, <3>4
      <4> HIDE DEF y, z, u
      <4>2. y <= z
        BY <4>1
      <4>3. QED
        BY <4>2 DEF y, z
    <3>6. QED
      BY <3>1, <3>5
  <2>4. QED
    BY <1>1, <1>3, <2>2, <2>3
<1> DEFINE Old(j) == IF j < m THEN j ELSE j - 1
<1>9. ASSUME NEW j \in 1..Len(t)
      PROVE  \/ j = m /\ t[j] = a
             \/ j # m /\ Old(j) \in 1..Len(s) /\ t[j] = s[Old(j)]
  <2>1. CASE j < m
    <3>1. j \in 1..(m - 1) /\ j # m /\ Old(j) = j /\ j \in 1..Len(s)
      BY <1>num, <2>1
    <3>2. QED
      BY <1>5, <3>1
  <2>2. CASE j = m
    BY <1>5, <2>2
  <2>3. CASE j > m
    <3>1. j - 1 \in m..Len(s) /\ j # m /\ Old(j) = j - 1 /\ j - 1 \in 1..Len(s) /\ (j - 1) + 1 = j
      BY <1>num, <2>3
    <3>2. t[(j - 1) + 1] = s[j - 1]
      BY <1>5, <3>1
    <3>3. QED
      BY <3>1, <3>2
  <2>4. QED
    BY <1>num, <2>1, <2>2, <2>3
<1>10. ASSUME NEW j \in 1..Len(t), NEW k \in 1..Len(t), j # m, k # m
       PROVE  /\ Old(j) = Old(k) => j = k
              /\ j < k => Old(j) < Old(k)
              /\ j < m <=> Old(j) < m
              /\ j > m <=> Old(j) >= m
  BY <1>num, <1>10
<1>11. ASSUME NEW n \in 1..Len(s) PROVE \E j \in 1..Len(t) : t[j] = s[n]
  <2>1. CASE n < m
    <3>1. n \in 1..Len(t) /\ n \in 1..(m - 1)
      BY <1>num, <2>1
    <3>2. QED
      BY <1>5, <2>1, <3>1
  <2>2. CASE ~(n < m)
    <3>1. n \in m..Len(s) /\ n + 1 \in 1..Len(t)
      BY <1>num, <2>2
    <3>2. QED
      BY <1>5, <3>1
  <2>3. QED
    BY <2>1, <2>2
<1>12. m \in 1..Len(t) /\ t[m] = a
  <2>1. m \in 1..Len(t)
    BY <1>num
  <2>2. QED
    BY <1>5, <2>1
<1> HIDE DEF Old
<1>in. ASSUME NEW k \in 1..Len(s), NEW l \in 1..Len(s), s[k] = s[l] PROVE k = l
  BY <1>1, <1>in DEF BySizeBut
<1>one. ASSUME NEW i \in 1..Len(q), q[i].address = a PROVE i = x
  BY <1>1, <1>one, OneAddress
<1>13. ASSUME NEW k \in 1..Len(t)
       PROVE  \E i \in 1..Len(q) : i # 0 /\ q[i].address = t[k]
  <2>1. CASE k = m /\ t[k] = a
    BY <2>1
  <2>2. CASE k # m /\ Old(k) \in 1..Len(s) /\ t[k] = s[Old(k)]
    <3>1. PICK i \in 1..Len(q) : q[i].address = s[Old(k)]
      BY <1>1, <2>2 DEF BySizeBut
    <3>2. i # 0
      OBVIOUS
    <3>3. QED
      BY <2>2, <3>1, <3>2
  <2>3. QED
    BY <1>9, <2>1, <2>2
<1>14. ASSUME NEW i \in 1..Len(q) PROVE \E k \in 1..Len(t) : t[k] = q[i].address
  <2>1. CASE i = x
    BY <1>12, <2>1
  <2>2. CASE i # x
    <3>1. PICK n \in 1..Len(s) : s[n] = q[i].address
      BY <1>1, <2>2 DEF BySizeBut
    <3>2. QED
      BY <1>11, <3>1
  <2>3. QED
    BY <2>1, <2>2
\* a is not in the list it enters.
<1>15. ASSUME NEW k \in 1..Len(s) PROVE s[k] # a
  <2>1. PICK i \in 1..Len(q) : i # x /\ q[i].address = s[k]
    BY <1>1 DEF BySizeBut
  <2>2. QED
    BY <1>1, <2>1, OneAddress
<1>16. ASSUME NEW k \in 1..Len(t), NEW l \in 1..Len(t), t[k] = t[l] PROVE k = l
  <2>1. CASE k = m \/ l = m
    BY <1>9, <1>15, <1>16, <2>1
  <2>2. CASE k # m /\ l # m
    <3>1. /\ Old(k) \in 1..Len(s) /\ t[k] = s[Old(k)]
          /\ Old(l) \in 1..Len(s) /\ t[l] = s[Old(l)]
      BY <1>9, <2>2
    <3>2. Old(k) = Old(l)
      BY <1>16, <1>in, <3>1
    <3>3. QED
      BY <1>10, <2>2, <3>2
  <2>3. QED
    BY <2>1, <2>2
<1>17. ASSUME NEW k \in 1..Len(t), NEW l \in 1..Len(t), NEW i \in 1..Len(q),
              NEW j \in 1..Len(q), k < l, q[i].address = t[k], q[j].address = t[l]
       PROVE  q[i].size >= q[j].size
  <2>1. q[i].size \in Nat /\ q[j].size \in Nat
    BY <1>1, RegionFacts
  <2>2. CASE k = m
    <3>0. l > m /\ l # m
      BY <1>num, <1>17, <2>2
    <3>1. i = x /\ Old(l) \in 1..Len(s) /\ t[l] = s[Old(l)]
      BY <1>9, <1>12, <1>17, <1>one, <2>2, <3>0
    <3>2. l > m
      BY <3>0
    <3>3. Old(l) >= m
      BY <1>num, <3>0, <3>1 DEF Old
    <3>4. q[j].size <= q[x].size
      BY <1>8, <1>17, <3>1, <3>3
    <3>5. QED
      BY <1>2, <2>1, <3>1, <3>4
  <2>3. CASE l = m
    <3>0. k < m /\ k # m
      BY <1>num, <1>17, <2>3
    <3>1. j = x /\ Old(k) \in 1..Len(s) /\ t[k] = s[Old(k)]
      BY <1>9, <1>12, <1>17, <1>one, <2>3, <3>0
    <3>2. Old(k) < m
      BY <1>num, <3>0, <3>1 DEF Old
    <3>3. q[i].size > q[x].size
      BY <1>8, <1>17, <3>1, <3>2
    <3>4. QED
      BY <1>2, <2>1, <3>1, <3>3
  <2>4. CASE k # m /\ l # m
    <3>1. /\ Old(k) \in 1..Len(s) /\ t[k] = s[Old(k)]
          /\ Old(l) \in 1..Len(s) /\ t[l] = s[Old(l)]
      BY <1>9, <2>4
    <3>2. Old(k) < Old(l)
      BY <1>10, <1>17, <2>4
    <3>3. QED
      BY <1>1, <1>17, <3>1, <3>2 DEF BySizeBut
  <2>5. QED
    BY <2>2, <2>3, <2>4
<1>18. BySizeBut(q, t, 0)
  BY <1>13, <1>14, <1>16, <1>17 DEF BySizeBut
<1>19. Len(t) = Len(q)
  BY <1>1, <1>5
<1>20. QED
  BY <1>1, <1>7, <1>18, <1>19 DEF VirtOK

\* The regions of q but the x-th are those of r but the y-th.
SameBut(q, x, r, y) ==
    /\ \A i \in 1..Len(q) : i # x => \E j \in 1..Len(r) : j # y /\ r[j] = q[i]
    /\ \A j \in 1..Len(r) : j # y => \E i \in 1..Len(q) : i # x /\ q[i] = r[j]

\* The list by size is then the same.
LEMMA BySizeMoved ==
    ASSUME NEW q \in Seq(RegionType), NEW r \in Seq(RegionType), GapsIn(r),
           NEW s, NEW x, NEW y, BySizeBut(q, s, x), SameBut(q, x, r, y)
    PROVE  BySizeBut(r, s, y)
<1>1. ASSUME NEW k \in 1..Len(s) PROVE \E j \in 1..Len(r) : j # y /\ r[j].address = s[k]
  <2>1. PICK i \in 1..Len(q) : i # x /\ q[i].address = s[k]
    BY DEF BySizeBut
  <2>2. PICK j \in 1..Len(r) : j # y /\ r[j] = q[i]
    BY <2>1 DEF SameBut
  <2>3. QED
    BY <2>1, <2>2
<1>2. ASSUME NEW j \in 1..Len(r), j # y PROVE \E k \in 1..Len(s) : s[k] = r[j].address
  <2>1. PICK i \in 1..Len(q) : i # x /\ q[i] = r[j]
    BY <1>2 DEF SameBut
  <2>2. PICK k \in 1..Len(s) : s[k] = q[i].address
    BY <2>1 DEF BySizeBut
  <2>3. QED
    BY <2>1, <2>2
<1>3. ASSUME NEW k \in 1..Len(s), NEW j \in 1..Len(r), r[j].address = s[k]
      PROVE  \E i \in 1..Len(q) : q[i] = r[j]
  <2>1. PICK n \in 1..Len(r) : n # y /\ r[n].address = s[k]
    BY <1>1
  <2>2. n = j
    BY <1>3, <2>1, OneAddress
  <2>3. QED
    BY <2>1, <2>2 DEF SameBut
<1>4. ASSUME NEW k \in 1..Len(s), NEW l \in 1..Len(s), NEW i \in 1..Len(r),
             NEW j \in 1..Len(r), k < l, r[i].address = s[k], r[j].address = s[l]
      PROVE  r[i].size >= r[j].size
  <2>1. PICK m \in 1..Len(q) : q[m] = r[i]
    BY <1>3, <1>4
  <2>2. PICK n \in 1..Len(q) : q[n] = r[j]
    BY <1>3, <1>4
  <2>3. q[m].address = s[k] /\ q[n].address = s[l]
    BY <1>4, <2>1, <2>2
  <2>4. q[m].size >= q[n].size
    BY <1>4, <2>3 DEF BySizeBut
  <2>5. QED
    BY <2>1, <2>2, <2>4
<1>5. \A k, l \in 1..Len(s) : s[k] = s[l] => k = l
  BY DEF BySizeBut
<1>6. QED
  BY <1>1, <1>2, <1>4, <1>5 DEF BySizeBut

\* A region in the place of another.
Replaced(q, i, r) == [q EXCEPT ![i] = r]

LEMMA ReplacedFacts ==
    ASSUME NEW q \in Seq(RegionType), NEW i \in 1..Len(q), NEW r \in RegionType
    PROVE  /\ Replaced(q, i, r) \in Seq(RegionType)
           /\ Len(Replaced(q, i, r)) = Len(q) /\ Len(q) \in Nat
           /\ Replaced(q, i, r)[i] = r
           /\ \A j \in 1..Len(q) : j # i => Replaced(q, i, r)[j] = q[j]
  BY ExceptSeq DEF Replaced

LEMMA ReplacedApart ==
    ASSUME NEW q \in Seq(RegionType), GapsIn(q), NEW i \in 1..Len(q), NEW r \in RegionType,
           \A j \in 1..Len(q) : j < i => q[j].address + q[j].size < r.address,
           \A j \in 1..Len(q) : i < j => r.address + r.size < q[j].address
    PROVE  GapsIn(Replaced(q, i, r))
<1>0. PICK p : p = Replaced(q, i, r)
  OBVIOUS
<1>1. /\ p \in Seq(RegionType) /\ Len(p) = Len(q) /\ Len(q) \in Nat
      /\ p[i] = r
      /\ \A j \in 1..Len(q) : j # i => p[j] = q[j]
  BY <1>0, ReplacedFacts
<1>2. ASSUME NEW j \in 1..Len(p), NEW k \in 1..Len(p), j < k
      PROVE  p[j].address + p[j].size < p[k].address
  <2>1. j \in 1..Len(q) /\ k \in 1..Len(q)
    BY <1>1
  <2>2. CASE j = i
    <3>1. k # i /\ i < k
      BY <1>2, <2>1, <2>2
    <3>2. QED
      BY <1>1, <2>1, <2>2, <3>1
  <2>3. CASE k = i
    <3>1. j # i /\ j < i
      BY <1>2, <2>1, <2>3
    <3>2. QED
      BY <1>1, <2>1, <2>3, <3>1
  <2>4. CASE j # i /\ k # i
    <3>1. p[j] = q[j] /\ p[k] = q[k]
      BY <1>1, <2>1, <2>4
    <3>2. QED
      BY <1>2, <2>1, <3>1 DEF GapsIn
  <2>5. QED
    BY <2>2, <2>3, <2>4
<1>3. QED
  BY <1>0, <1>2 DEF GapsIn

LEMMA ResizeOK ==
    ASSUME NEW v, VirtOK(v), NEW i \in 1..Len(v.byAddr), NEW r \in RegionType,
           GapsIn(Replaced(v.byAddr, i, r)), NEW w, w = Resize(v, i, r)
    PROVE  /\ VirtOK(w)
           /\ w.byAddr = Replaced(v.byAddr, i, r) /\ w.spare = v.spare
<1> DEFINE q == v.byAddr
           p == Replaced(q, i, r)
           u == RemoveSize(v, v.byAddr[i].address)
           z == [u EXCEPT !.byAddr[i] = r]
<1>1. VirtBut(u, i) /\ u.byAddr = q /\ u.spare = v.spare
  BY RemoveSizeOK
<1>2. w = InsertSize(z, r.address)
  BY DEF Resize
<1> HIDE DEF u
<1>3. /\ u \in VirtType /\ q \in Seq(RegionType) /\ Len(u.bySize) = Len(q) - 1
      /\ BySizeBut(q, u.bySize, i)
  BY <1>1 DEF VirtBut, VirtType
<1>4. z = [u EXCEPT !.byAddr = p]
  BY <1>1, <1>3 DEF VirtType, Replaced
<1>5. /\ p \in Seq(RegionType) /\ Len(p) = Len(q) /\ Len(q) \in Nat
      /\ p[i] = r
      /\ \A j \in 1..Len(q) : j # i => p[j] = q[j]
  <2>1. i \in 1..Len(q)
    OBVIOUS
  <2> HIDE DEF q
  <2>2. QED
    BY <1>3, <2>1, ReplacedFacts
<1> HIDE DEF p, z
<1>6. /\ z \in VirtType /\ z.byAddr = p /\ z.bySize = u.bySize /\ z.spare = u.spare
  BY <1>3, <1>4, <1>5 DEF VirtType
<1>7. GapsIn(p)
  BY DEF p
<1>8. BySizeBut(p, u.bySize, i)
  <2>1. SameBut(q, i, p, i)
    BY <1>5 DEF SameBut
  <2>2. QED
    BY <1>3, <1>5, <1>7, <2>1, BySizeMoved
<1>9. VirtBut(z, i)
  BY <1>3, <1>5, <1>6, <1>7, <1>8 DEF VirtBut
<1>10. i \in 1..Len(z.byAddr) /\ z.byAddr[i].address = r.address
  BY <1>5, <1>6
<1>11. VirtOK(w) /\ w.byAddr = z.byAddr /\ w.spare = z.spare
  BY <1>2, <1>9, <1>10, InsertSizeOK
<1>12. QED
  BY <1>1, <1>6, <1>11 DEF p

LEMMA RemoveApart ==
    ASSUME NEW q \in Seq(RegionType), GapsIn(q), NEW i \in 1..Len(q), NEW p,
           p = RemoveAt(q, i)
    PROVE  /\ p \in Seq(RegionType) /\ Len(q) \in Nat /\ Len(p) = Len(q) - 1
           /\ GapsIn(p) /\ SameBut(q, i, p, 0)
<1>1. /\ p \in Seq(RegionType) /\ Len(q) \in Nat /\ Len(p) = Len(q) - 1
      /\ \A j \in 1..(Len(q) - 1) : p[j] = IF j < i THEN q[j] ELSE q[j + 1]
  BY RemoveAtFacts
<1> DEFINE Old(j) == IF j < i THEN j ELSE j + 1
<1>2. ASSUME NEW j \in 1..Len(p) PROVE Old(j) \in 1..Len(q) /\ Old(j) # i /\ p[j] = q[Old(j)]
  BY <1>1
<1>3. ASSUME NEW j \in 1..Len(p), NEW k \in 1..Len(p), j < k PROVE Old(j) < Old(k)
  BY <1>1, <1>3
<1>4. ASSUME NEW n \in 1..Len(q), n # i PROVE \E j \in 1..Len(p) : Old(j) = n
  <2>1. CASE n < i
    <3>1. n \in 1..Len(p) /\ Old(n) = n
      BY <1>1, <2>1
    <3>2. QED
      BY <3>1
  <2>2. CASE ~(n < i)
    <3>1. n - 1 \in 1..Len(p) /\ Old(n - 1) = n
      BY <1>1, <1>4, <2>2
    <3>2. QED
      BY <3>1
  <2>3. QED
    BY <2>1, <2>2
<1> HIDE DEF Old
<1>5. GapsIn(p)
  <2> SUFFICES ASSUME NEW j \in 1..Len(p), NEW k \in 1..Len(p), j < k
               PROVE  p[j].address + p[j].size < p[k].address
    BY DEF GapsIn
  <2>1. /\ Old(j) \in 1..Len(q) /\ p[j] = q[Old(j)]
        /\ Old(k) \in 1..Len(q) /\ p[k] = q[Old(k)]
    BY <1>2
  <2>2. Old(j) < Old(k)
    BY <1>3
  <2>3. QED
    BY <2>1, <2>2 DEF GapsIn
<1>6. SameBut(q, i, p, 0)
  <2>1. ASSUME NEW n \in 1..Len(q), n # i PROVE \E j \in 1..Len(p) : j # 0 /\ p[j] = q[n]
    <3>1. PICK j \in 1..Len(p) : Old(j) = n
      BY <1>4, <2>1
    <3>2. j # 0 /\ p[j] = q[n]
      BY <1>2, <3>1
    <3>3. QED
      BY <3>2
  <2>2. ASSUME NEW j \in 1..Len(p), j # 0 PROVE \E n \in 1..Len(q) : n # i /\ q[n] = p[j]
    BY <1>2
  <2>3. QED
    BY <2>1, <2>2 DEF SameBut
<1>7. QED
  BY <1>1, <1>5, <1>6

LEMMA DropOK ==
    ASSUME NEW v, VirtOK(v), NEW i \in 1..Len(v.byAddr), NEW w, w = Drop(v, i)
    PROVE  /\ VirtOK(w)
           /\ w.byAddr = RemoveAt(v.byAddr, i) /\ w.spare = v.spare + 1
<1> DEFINE q == v.byAddr
           p == RemoveAt(q, i)
           u == RemoveSize(v, v.byAddr[i].address)
<1>1. VirtBut(u, i) /\ u.byAddr = q /\ u.spare = v.spare
  BY RemoveSizeOK
<1>2. w = [u EXCEPT !.byAddr = p, !.spare = v.spare + 1]
  BY <1>1 DEF Drop
<1> HIDE DEF u
<1>3. /\ u \in VirtType /\ q \in Seq(RegionType) /\ Len(u.bySize) = Len(q) - 1
      /\ BySizeBut(q, u.bySize, i) /\ u.bySize \in Seq(Nat)
      /\ GapsIn(q) /\ v.spare \in Nat /\ i \in 1..Len(q)
  BY <1>1 DEF VirtBut, VirtType
<1>4. /\ p \in Seq(RegionType) /\ Len(p) = Len(q) - 1
      /\ GapsIn(p) /\ SameBut(q, i, p, 0)
  <2> HIDE DEF q
  <2>1. QED
    BY <1>3, RemoveApart
<1> HIDE DEF p
<1>5. /\ w \in VirtType /\ w.byAddr = p /\ w.bySize = u.bySize /\ w.spare = v.spare + 1
  <2>1. w = [byAddr |-> p, bySize |-> u.bySize, spare |-> v.spare + 1]
    BY <1>2, <1>3 DEF VirtType
  <2>2. v.spare + 1 \in Nat
    BY <1>3
  <2>3. QED
    BY <1>3, <1>4, <2>1, <2>2 DEF VirtType
<1>6. BySizeBut(p, u.bySize, 0)
  BY <1>3, <1>4, BySizeMoved
<1>7. VirtOK(w)
  BY <1>3, <1>4, <1>5, <1>6 DEF VirtOK
<1>8. QED
  BY <1>5, <1>7 DEF p

\* r lies between the regions in front of place i and the others.
Fits(q, i, r) ==
    /\ \A j \in 1..Len(q) : j < i => q[j].address + q[j].size < r.address
    /\ \A j \in 1..Len(q) : i <= j => r.address + r.size < q[j].address

LEMMA InsertApart ==
    ASSUME NEW q \in Seq(RegionType), GapsIn(q), NEW i \in 1..(Len(q) + 1),
           NEW r \in RegionType, Fits(q, i, r), NEW p, p = InsertAt(q, i, r)
    PROVE  /\ p \in Seq(RegionType) /\ Len(q) \in Nat /\ Len(p) = Len(q) + 1
           /\ p[i] = r
           /\ GapsIn(p) /\ SameBut(q, 0, p, i)
<1>1. /\ p \in Seq(RegionType) /\ Len(q) \in Nat /\ Len(p) = Len(q) + 1
      /\ p[i] = r
  BY InsertAtFacts
<1>2. \A j \in 1..(i - 1) : p[j] = q[j]
  BY InsertAtFacts
<1>3. \A j \in i..Len(q) : p[j + 1] = q[j]
  BY InsertAtFacts
<1> DEFINE Old(j) == IF j < i THEN j ELSE j - 1
<1>4. ASSUME NEW j \in 1..Len(p), j # i
      PROVE  /\ Old(j) \in 1..Len(q) /\ p[j] = q[Old(j)]
             /\ (j < i => Old(j) < i) /\ (i < j => i <= Old(j))
  <2>1. CASE j < i
    <3>1. j \in 1..(i - 1) /\ Old(j) = j /\ j \in 1..Len(q)
      BY <1>1, <2>1
    <3>2. QED
      BY <1>2, <2>1, <3>1
  <2>2. CASE j > i
    <3>1. j - 1 \in i..Len(q) /\ Old(j) = j - 1 /\ (j - 1) + 1 = j /\ ~(j < i)
      BY <1>1, <2>2
    <3>2. p[(j - 1) + 1] = q[j - 1]
      BY <1>3, <3>1
    <3>3. QED
      BY <1>1, <2>2, <3>1, <3>2
  <2>3. QED
    BY <1>1, <1>4, <2>1, <2>2
<1>5. ASSUME NEW j \in 1..Len(p), NEW k \in 1..Len(p), j < k, j # i, k # i
      PROVE  Old(j) < Old(k)
  BY <1>1, <1>5
<1>6. ASSUME NEW n \in 1..Len(q) PROVE \E j \in 1..Len(p) : j # i /\ Old(j) = n
  <2>1. CASE n < i
    <3>1. n \in 1..Len(p) /\ Old(n) = n /\ n # i
      BY <1>1, <2>1
    <3>2. QED
      BY <3>1
  <2>2. CASE ~(n < i)
    <3>1. n + 1 \in 1..Len(p) /\ Old(n + 1) = n /\ n + 1 # i
      BY <1>1, <2>2
    <3>2. QED
      BY <3>1
  <2>3. QED
    BY <2>1, <2>2
<1> HIDE DEF Old
<1>7. GapsIn(p)
  <2> SUFFICES ASSUME NEW j \in 1..Len(p), NEW k \in 1..Len(p), j < k
               PROVE  p[j].address + p[j].size < p[k].address
    BY DEF GapsIn
  <2>1. CASE j = i
    <3>1. k # i /\ i < k
      BY <1>1, <2>1
    <3>2. Old(k) \in 1..Len(q) /\ p[k] = q[Old(k)] /\ i <= Old(k)
      BY <1>4, <3>1
    <3>3. QED
      BY <1>1, <2>1, <3>2 DEF Fits
  <2>2. CASE k = i
    <3>1. j # i /\ j < i
      BY <1>1, <2>2
    <3>2. Old(j) \in 1..Len(q) /\ p[j] = q[Old(j)] /\ Old(j) < i
      BY <1>4, <3>1
    <3>3. QED
      BY <1>1, <2>2, <3>2 DEF Fits
  <2>3. CASE j # i /\ k # i
    <3>1. /\ Old(j) \in 1..Len(q) /\ p[j] = q[Old(j)]
          /\ Old(k) \in 1..Len(q) /\ p[k] = q[Old(k)]
      BY <1>4, <2>3
    <3>2. Old(j) < Old(k)
      BY <1>5, <2>3
    <3>3. QED
      BY <3>1, <3>2 DEF GapsIn
  <2>4. QED
    BY <2>1, <2>2, <2>3
<1>8. SameBut(q, 0, p, i)
  <2>1. ASSUME NEW n \in 1..Len(q), n # 0 PROVE \E j \in 1..Len(p) : j # i /\ p[j] = q[n]
    <3>1. PICK j \in 1..Len(p) : j # i /\ Old(j) = n
      BY <1>6
    <3>2. p[j] = q[n]
      BY <1>4, <3>1
    <3>3. QED
      BY <3>1, <3>2
  <2>2. ASSUME NEW j \in 1..Len(p), j # i PROVE \E n \in 1..Len(q) : n # 0 /\ q[n] = p[j]
    <3>1. Old(j) \in 1..Len(q) /\ p[j] = q[Old(j)]
      BY <1>4, <2>2
    <3>2. Old(j) # 0
      BY <3>1
    <3>3. QED
      BY <3>1, <3>2
  <2>3. QED
    BY <2>1, <2>2 DEF SameBut
<1>9. QED
  BY <1>1, <1>7, <1>8

LEMMA InsertOK ==
    ASSUME NEW v, VirtOK(v), v.spare > 0, NEW a \in Nat, NEW n \in Nat \ {0},
           NEW i \in 1..(Len(v.byAddr) + 1), i = Below(v, a) + 1,
           Fits(v.byAddr, i, Region(a, n)), NEW w, w = Insert(v, a, n)
    PROVE  /\ VirtOK(w)
           /\ w.byAddr = InsertAt(v.byAddr, i, Region(a, n)) /\ w.spare = v.spare - 1
<1> DEFINE q == v.byAddr
           r == Region(a, n)
           p == InsertAt(q, i, r)
           z == [v EXCEPT !.byAddr = p, !.spare = v.spare - 1]
<1>1. /\ v \in VirtType /\ q \in Seq(RegionType) /\ GapsIn(q) /\ Len(v.bySize) = Len(q)
      /\ BySizeBut(q, v.bySize, 0) /\ v.bySize \in Seq(Nat) /\ v.spare \in Nat
      /\ i \in 1..(Len(q) + 1)
  BY DEF VirtOK, VirtType
<1>2. r \in RegionType /\ r.address = a /\ r.size = n
  BY DEF Region, RegionType
<1>3. w = InsertSize(z, a)
  BY DEF Insert
<1>4. /\ p \in Seq(RegionType) /\ Len(q) \in Nat /\ Len(p) = Len(q) + 1
      /\ p[i] = r
      /\ GapsIn(p) /\ SameBut(q, 0, p, i)
  <2>1. Fits(q, i, r)
    OBVIOUS
  <2> HIDE DEF q, r
  <2>2. QED
    BY <1>1, <1>2, <2>1, InsertApart
<1> HIDE DEF p, r
<1>5. /\ z \in VirtType /\ z.byAddr = p /\ z.bySize = v.bySize /\ z.spare = v.spare - 1
  <2>0. v \in VirtType
    BY <1>1
  <2> HIDE DEF q
  <2>1. z = [byAddr |-> p, bySize |-> v.bySize, spare |-> v.spare - 1]
    <3>1. z = [v EXCEPT !.byAddr = p, !.spare = v.spare - 1]
      OBVIOUS
    <3> HIDE DEF z
    <3>2. QED
      BY <2>0, <3>1 DEF VirtType
  <2>2. v.spare - 1 \in Nat
    BY <1>1
  <2>3. QED
    BY <1>1, <1>4, <2>1, <2>2 DEF VirtType
<1> HIDE DEF z
<1>6. BySizeBut(p, v.bySize, i)
  BY <1>1, <1>4, BySizeMoved
<1>7. VirtBut(z, i)
  <2>1. Len(z.bySize) = Len(z.byAddr) - 1
    BY <1>1, <1>4, <1>5
  <2>2. QED
    BY <1>4, <1>5, <1>6, <2>1 DEF VirtBut
<1>8. i \in 1..Len(z.byAddr) /\ z.byAddr[i].address = a
  BY <1>2, <1>4, <1>5
<1>9. VirtOK(w) /\ w.byAddr = z.byAddr /\ w.spare = z.spare
  BY <1>3, <1>7, <1>8, InsertSizeOK
<1>10. QED
  BY <1>5, <1>9 DEF p, r

-----------------------------------------------------------------------------
(* Pages.                                                                  *)

LEMMA ExtentIs ==
    ASSUME NEW r, NEW a \in Nat, NEW n \in Nat, r.address = a, r.size = n
    PROVE  Extent(r) = a..(a + n - 1)
  BY DEF Extent, EndOf

\* The pages of the regions of q but the x-th.
PagesBut(q, x) == {p \in Nat : \E i \in 1..Len(q) : i # x /\ p \in Extent(q[i])}

LEMMA FreePagesAre ==
    ASSUME NEW v \in VirtType
    PROVE  FreePages(v) = PagesBut(v.byAddr, 0)
<1> DEFINE q == v.byAddr
<1>1. q \in Seq(RegionType) /\ DOMAIN q = 1..Len(q)
  BY DEF VirtType
<1> HIDE DEF q
<1>2. \A i \in 1..Len(q) : i # 0 /\ Extent(q[i]) \subseteq Nat
  BY <1>1, RegionFacts DEF Extent, EndOf
<1>3. ToSet(q) = {q[i] : i \in 1..Len(q)}
  BY <1>1 DEF ToSet
<1>4. \A p : p \in FreePages(v) <=> \E r \in ToSet(q) : p \in Extent(r)
  BY DEF FreePages, q
<1>5. \A p : p \in FreePages(v) <=> \E i \in 1..Len(q) : p \in Extent(q[i])
  BY <1>3, <1>4
<1>6. \A p : p \in FreePages(v) <=> p \in PagesBut(q, 0)
  BY <1>2, <1>5 DEF PagesBut
<1>7. QED
  BY <1>6 DEF q

LEMMA PagesMoved ==
    ASSUME NEW q, NEW x, NEW r, NEW y, SameBut(q, x, r, y)
    PROVE  PagesBut(q, x) = PagesBut(r, y)
  BY DEF SameBut, PagesBut

LEMMA PagesOfOne ==
    ASSUME NEW q \in Seq(RegionType), GapsIn(q), NEW i \in 1..Len(q)
    PROVE  /\ PagesBut(q, 0) = PagesBut(q, i) \cup Extent(q[i])
           /\ PagesBut(q, i) \cap Extent(q[i]) = {}
<1>1. Len(q) \in Nat /\ \A j \in 1..Len(q) : j # 0 /\ Extent(q[j]) \subseteq Nat
  BY RegionFacts DEF Extent, EndOf
<1>2. PagesBut(q, 0) = PagesBut(q, i) \cup Extent(q[i])
  BY <1>1 DEF PagesBut
<1>3. ASSUME NEW j \in 1..Len(q), j # i, NEW p \in Extent(q[j]), p \in Extent(q[i]) PROVE FALSE
  <2>1. /\ q[i].address \in Nat /\ q[i].size \in Nat
        /\ q[j].address \in Nat /\ q[j].size \in Nat
    BY RegionFacts
  <2>2. /\ p \in Int /\ q[i].address <= p /\ p < q[i].address + q[i].size
        /\ q[j].address <= p /\ p < q[j].address + q[j].size
    BY <1>3, <2>1 DEF Extent, EndOf
  <2>3. j < i \/ i < j
    BY <1>1, <1>3
  <2>4. QED
    BY <2>1, <2>2, <2>3 DEF GapsIn
<1>4. QED
  BY <1>2, <1>3 DEF PagesBut

LEMMA ResizePages ==
    ASSUME NEW v, VirtOK(v), NEW i \in 1..Len(v.byAddr), NEW r \in RegionType,
           GapsIn(Replaced(v.byAddr, i, r)), NEW w, w = Resize(v, i, r)
    PROVE  FreePages(w) = PagesBut(v.byAddr, i) \cup Extent(r)
<1> DEFINE q == v.byAddr
           p == Replaced(q, i, r)
<1>1. VirtOK(w) /\ w.byAddr = p
  BY ResizeOK
<1>2. q \in Seq(RegionType) /\ i \in 1..Len(q)
  BY DEF VirtOK, VirtType
<1>3. FreePages(w) = PagesBut(p, 0)
  BY <1>1, FreePagesAre DEF VirtOK
<1> HIDE DEF q
<1>4. /\ p \in Seq(RegionType) /\ Len(p) = Len(q) /\ p[i] = r
      /\ \A j \in 1..Len(q) : j # i => p[j] = q[j]
  BY <1>2, ReplacedFacts
<1>5. GapsIn(p)
  BY DEF q
<1> HIDE DEF p
<1>6. SameBut(q, i, p, i)
  BY <1>4 DEF SameBut
<1>7. PagesBut(p, 0) = PagesBut(p, i) \cup Extent(r)
  BY <1>2, <1>4, <1>5, PagesOfOne
<1>8. PagesBut(q, i) = PagesBut(p, i)
  BY <1>6, PagesMoved
<1>9. QED
  BY <1>3, <1>7, <1>8 DEF q

LEMMA DropPages ==
    ASSUME NEW v, VirtOK(v), NEW i \in 1..Len(v.byAddr), NEW w, w = Drop(v, i)
    PROVE  FreePages(w) = PagesBut(v.byAddr, i)
<1> DEFINE q == v.byAddr
           p == RemoveAt(q, i)
<1>1. VirtOK(w) /\ w.byAddr = p
  BY DropOK
<1>2. q \in Seq(RegionType) /\ i \in 1..Len(q) /\ GapsIn(q)
  BY DEF VirtOK, VirtType
<1>3. FreePages(w) = PagesBut(p, 0)
  BY <1>1, FreePagesAre DEF VirtOK
<1> HIDE DEF q
<1>4. SameBut(q, i, p, 0)
  BY <1>2, RemoveApart
<1>5. PagesBut(q, i) = PagesBut(p, 0)
  BY <1>4, PagesMoved
<1>6. QED
  BY <1>3, <1>5 DEF q

LEMMA InsertPages ==
    ASSUME NEW v, VirtOK(v), v.spare > 0, NEW a \in Nat, NEW n \in Nat \ {0},
           NEW i \in 1..(Len(v.byAddr) + 1), i = Below(v, a) + 1,
           Fits(v.byAddr, i, Region(a, n)), NEW w, w = Insert(v, a, n)
    PROVE  /\ VirtOK(w) /\ w.spare = v.spare - 1 /\ Len(w.byAddr) = Len(v.byAddr) + 1
           /\ FreePages(w) = FreePages(v) \cup a..(a + n - 1)
<1> DEFINE q == v.byAddr
           r == Region(a, n)
           p == InsertAt(q, i, r)
<1>1. VirtOK(w) /\ w.byAddr = p /\ w.spare = v.spare - 1
  BY InsertOK
<1>2. q \in Seq(RegionType) /\ i \in 1..(Len(q) + 1) /\ GapsIn(q) /\ Fits(q, i, r)
  BY DEF VirtOK, VirtType
<1>3. FreePages(w) = PagesBut(p, 0) /\ FreePages(v) = PagesBut(q, 0)
  BY <1>1, FreePagesAre DEF VirtOK
<1>4. r \in RegionType /\ Extent(r) = a..(a + n - 1)
  BY DEF Region, RegionType, Extent, EndOf
<1> HIDE DEF q, r
<1>5. /\ p \in Seq(RegionType) /\ Len(q) \in Nat /\ Len(p) = Len(q) + 1
      /\ p[i] = r /\ GapsIn(p) /\ SameBut(q, 0, p, i)
  BY <1>2, <1>4, InsertApart
<1> HIDE DEF p
<1>6. i \in 1..Len(p)
  BY <1>2, <1>5
<1>7. PagesBut(p, 0) = PagesBut(p, i) \cup Extent(r)
  BY <1>5, <1>6, PagesOfOne
<1>8. PagesBut(p, i) = PagesBut(q, 0)
  BY <1>5, PagesMoved
<1>9. QED
  BY <1>1, <1>3, <1>4, <1>5, <1>7, <1>8 DEF q

\* Where a region of the pages a.. would go that are not free.
LEMMA BelowFacts ==
    ASSUME NEW v, VirtOK(v), NEW a \in Nat, NEW n \in Nat \ {0},
           a..(a + n - 1) \cap FreePages(v) = {}, NEW i, i = Below(v, a)
    PROVE  /\ v.byAddr \in Seq(RegionType) /\ GapsIn(v.byAddr)
           /\ Len(v.byAddr) \in Nat /\ i \in 0..Len(v.byAddr)
           /\ \A j \in 1..Len(v.byAddr) : j <= i =>
                v.byAddr[j].address + v.byAddr[j].size <= a
           /\ \A j \in 1..Len(v.byAddr) : i < j => a + n <= v.byAddr[j].address
<1> DEFINE q == v.byAddr
           S == {r \in ToSet(q) : r.address <= a}
<1>1. q \in Seq(RegionType) /\ DOMAIN q = 1..Len(q) /\ GapsIn(q)
  BY DEF VirtOK, VirtType
<1>2. FreePages(v) = PagesBut(q, 0)
  BY FreePagesAre DEF VirtOK
<1>3. i = WalkLen(q, S)
  BY DEF Below
<1> HIDE DEF q
<1>4. \A j \in 1..Len(q) : q[j] \in S <=> q[j].address <= a
  BY <1>1 DEF ToSet
<1> HIDE DEF S
<1>5. /\ Len(q) \in Nat /\ i \in 0..Len(q)
      /\ \A j \in 1..i : q[j] \in S
      /\ i < Len(q) => q[i + 1] \notin S
  BY <1>1, <1>3, WalkLenFacts
<1>6. ASSUME NEW j \in 1..Len(q), NEW p \in Nat, q[j].address <= p,
             p < q[j].address + q[j].size
      PROVE  ~(a <= p /\ p < a + n)
  <2>1. p \in Extent(q[j]) /\ j # 0
    BY <1>1, <1>6, RegionFacts DEF Extent, EndOf
  <2>2. p \in FreePages(v)
    BY <1>2, <2>1 DEF PagesBut
  <2>3. p \notin a..(a + n - 1)
    BY <2>2
  <2>4. QED
    BY <2>3
<1>7. ASSUME NEW j \in 1..Len(q), j <= i PROVE q[j].address + q[j].size <= a
  <2>1. j \in 1..i
    BY <1>5, <1>7
  <2>2. q[j].address <= a
    BY <1>4, <1>5, <2>1
  <2>3. q[j].address \in Nat /\ q[j].size \in Nat
    BY <1>1, RegionFacts
  <2>4. ~(a < q[j].address + q[j].size)
    BY <1>6, <2>2, a <= a /\ a < a + n
  <2>5. QED
    BY <2>3, <2>4
<1>8. ASSUME NEW j \in 1..Len(q), i < j PROVE a + n <= q[j].address
  <2>1. i + 1 \in 1..Len(q) /\ i < Len(q)
    BY <1>5, <1>8
  <2>2. ~(q[i + 1].address <= a)
    BY <1>4, <1>5, <2>1
  <2>3. /\ q[i + 1].address \in Nat /\ q[i + 1].size \in Nat
        /\ q[j].address \in Nat /\ q[j].size \in Nat /\ q[j].size > 0
    BY <1>1, <2>1, RegionFacts
  <2>4. q[i + 1].address <= q[j].address
    <3>1. CASE j = i + 1
      BY <2>3, <3>1
    <3>2. CASE i + 1 < j
      BY <1>1, <2>1, <2>3, <3>2 DEF GapsIn
    <3>3. QED
      BY <1>5, <1>8, <3>1, <3>2
  <2>5. ~(a <= q[j].address /\ q[j].address < a + n)
    BY <1>6, <2>3
  <2>6. QED
    BY <2>2, <2>3, <2>4, <2>5
<1>9. QED
  BY <1>1, <1>5, <1>7, <1>8 DEF q

-----------------------------------------------------------------------------
(* _alloc_region                                                           *)

LEMMA ChosenFacts ==
    ASSUME NEW v, VirtOK(v), NEW n \in Nat \ {0}, v.byAddr # <<>>,
           SizeOf(v, Head(v.bySize)) >= n
    PROVE  \E i \in 1..Len(v.byAddr) :
             /\ v.byAddr[i].address = Chosen(v, n) /\ v.byAddr[i].size >= n
             /\ PlaceOf(v, Chosen(v, n)) = i
             /\ SizeOf(v, Chosen(v, n)) = v.byAddr[i].size
<1> DEFINE q == v.byAddr
           s == v.bySize
           larger == {b \in ToSet(s) : SizeOf(v, b) > n}
           k == WalkLen(Tail(s), larger)
<1>1. /\ q \in Seq(RegionType) /\ s \in Seq(Nat) /\ Len(s) = Len(q) /\ GapsIn(q)
      /\ BySizeBut(q, s, 0) /\ v \in VirtType
  BY DEF VirtOK, VirtType
<1>2. s # <<>> /\ Len(s) \in Nat
  BY <1>1
<1>3. /\ Tail(s) \in Seq(Nat) /\ Len(Tail(s)) = Len(s) - 1
      /\ \A j \in 1..(Len(s) - 1) : Tail(s)[j] = s[j + 1]
  BY <1>1, <1>2, HeadTailProperties
<1>4. Chosen(v, n) = s[1 + k]
  BY DEF Chosen
<1> HIDE DEF larger
<1>5. k \in 0..(Len(s) - 1) /\ \A j \in 1..k : Tail(s)[j] \in larger
  BY <1>3, WalkLenFacts
<1> HIDE DEF k, q, s
<1>6. SizeOf(v, s[1 + k]) >= n
  <2>1. CASE k = 0
    <3>1. s[1 + k] = Head(s)
      BY <1>1, <1>2, <2>1
    <3>2. QED
      BY <3>1 DEF s
  <2>2. CASE k # 0
    <3>1. k \in 1..k /\ k \in 1..(Len(s) - 1) /\ 1 + k = k + 1
      BY <1>2, <1>5, <2>2
    <3>2. s[1 + k] \in larger
      BY <1>3, <1>5, <3>1
    <3>3. SizeOf(v, s[1 + k]) > n
      BY <3>2 DEF larger
    <3>4. PICK i \in 1..Len(q) : q[i].address = s[1 + k]
      <4>1. 1 + k \in 1..Len(s)
        BY <1>2, <1>5
      <4>2. QED
        BY <1>1, <4>1 DEF BySizeBut
    <3>5. SizeOf(v, s[1 + k]) = q[i].size /\ q[i].size \in Nat
      BY <1>1, <3>4, PlaceFound, RegionFacts DEF q
    <3>6. QED
      BY <3>3, <3>5
  <2>3. QED
    BY <2>1, <2>2
<1>7. 1 + k \in 1..Len(s)
  BY <1>2, <1>5
<1>8. PICK i \in 1..Len(q) : q[i].address = s[1 + k]
  BY <1>1, <1>7 DEF BySizeBut
<1>9. PlaceOf(v, q[i].address) = i /\ SizeOf(v, q[i].address) = q[i].size
  BY <1>1, PlaceFound DEF q
<1>10. QED
  BY <1>4, <1>6, <1>8, <1>9 DEF q

\* What is taken was free and is free no more.
LEMMA AllocRegionOK ==
    ASSUME NEW v, VirtOK(v), NEW n \in Nat \ {0}, v.byAddr # <<>>,
           SizeOf(v, Head(v.bySize)) >= n, NEW a, a = Chosen(v, n),
           NEW w, w = AllocRegion(v, n)
    PROVE  /\ VirtOK(w) /\ a \in Nat
           /\ a..(a + n - 1) \subseteq FreePages(v)
           /\ FreePages(w) = FreePages(v) \ (a..(a + n - 1))
           /\ w.spare + Len(w.byAddr) = v.spare + Len(v.byAddr)
<1> DEFINE q == v.byAddr
<1>1. PICK i \in 1..Len(q) : /\ q[i].address = a /\ q[i].size >= n
                             /\ PlaceOf(v, a) = i /\ SizeOf(v, a) = q[i].size
  BY ChosenFacts
<1>2. q \in Seq(RegionType) /\ GapsIn(q) /\ Len(q) \in Nat /\ v.spare \in Nat
  BY DEF VirtOK, VirtType
<1>3. a \in Nat /\ q[i].size \in Nat /\ q[i] \in RegionType
  BY <1>1, <1>2, RegionFacts
<1>4. FreePages(v) = PagesBut(q, 0)
  BY FreePagesAre DEF VirtOK
<1>5. /\ PagesBut(q, 0) = PagesBut(q, i) \cup Extent(q[i])
      /\ PagesBut(q, i) \cap Extent(q[i]) = {}
  BY <1>1, <1>2, PagesOfOne
<1>6. Extent(q[i]) = a..(a + q[i].size - 1)
  BY <1>1, <1>3, ExtentIs
<1>7. a..(a + n - 1) \subseteq a..(a + q[i].size - 1)
  BY <1>1, <1>3
<1>8. CASE q[i].size = n
  <2>1. w = Drop(v, i)
    BY <1>1, <1>8 DEF AllocRegion
  <2>2. VirtOK(w) /\ w.byAddr = RemoveAt(q, i) /\ w.spare = v.spare + 1
    BY <2>1, DropOK
  <2>3. FreePages(w) = PagesBut(q, i)
    BY <2>1, DropPages
  <2>4. Len(RemoveAt(q, i)) = Len(q) - 1
    <3> HIDE DEF q
    <3>1. QED
      BY <1>1, <1>2, RemoveAtFacts
  <2>5. w.spare + Len(w.byAddr) = v.spare + Len(q)
    <3>1. w.spare = v.spare + 1 /\ Len(w.byAddr) = Len(q) - 1
      BY <2>2, <2>4
    <3> HIDE DEF q
    <3>2. QED
      BY <1>2, <3>1
  <2>6. FreePages(w) = FreePages(v) \ (a..(a + n - 1))
    BY <1>4, <1>5, <1>6, <1>8, <2>3
  <2>7. QED
    BY <1>3, <1>4, <1>5, <1>6, <1>8, <2>2, <2>5, <2>6
<1>9. CASE q[i].size # n
  <2> DEFINE r == Region(a + n, q[i].size - n)
  <2>1. w = Resize(v, i, r)
    BY <1>1, <1>9 DEF AllocRegion
  <2>2. r.address = a + n /\ r.size = q[i].size - n /\ r \in RegionType
    BY <1>1, <1>3, <1>9 DEF Region, RegionType
  <2> HIDE DEF r
  <2>3. GapsIn(Replaced(q, i, r))
    <3>1. \A j \in 1..Len(q) : j < i => q[j].address + q[j].size < r.address
      <4> SUFFICES ASSUME NEW j \in 1..Len(q), j < i
                   PROVE  q[j].address + q[j].size < r.address
        OBVIOUS
      <4>1. q[j].address + q[j].size < q[i].address
        BY <1>1, <1>2 DEF GapsIn
      <4>2. q[j].address \in Nat /\ q[j].size \in Nat
        BY <1>2, RegionFacts
      <4>3. QED
        BY <1>1, <1>3, <2>2, <4>1, <4>2
    <3>2. \A j \in 1..Len(q) : i < j => r.address + r.size < q[j].address
      <4> SUFFICES ASSUME NEW j \in 1..Len(q), i < j
                   PROVE  r.address + r.size < q[j].address
        OBVIOUS
      <4>1. q[i].address + q[i].size < q[j].address
        BY <1>1, <1>2 DEF GapsIn
      <4>2. q[j].address \in Nat /\ q[j].size \in Nat
        BY <1>2, RegionFacts
      <4>3. QED
        BY <1>1, <1>3, <2>2, <4>1, <4>2
    <3> HIDE DEF q
    <3>3. QED
      BY <1>1, <1>2, <2>2, <3>1, <3>2, ReplacedApart
  <2>4. VirtOK(w) /\ w.byAddr = Replaced(q, i, r) /\ w.spare = v.spare
    BY <1>1, <2>1, <2>2, <2>3, ResizeOK
  <2>5. FreePages(w) = PagesBut(q, i) \cup Extent(r)
    BY <1>1, <2>1, <2>2, <2>3, ResizePages
  <2>6. Len(Replaced(q, i, r)) = Len(q)
    <3> HIDE DEF q
    <3>1. QED
      BY <1>1, <1>2, <2>2, ReplacedFacts
  <2>7. Extent(r) = (a..(a + q[i].size - 1)) \ (a..(a + n - 1))
    <3> DEFINE m == q[i].size
    <3>1. r.address = a + n /\ r.size = m - n /\ m \in Nat /\ m >= n
      BY <1>1, <1>3, <2>2
    <3> HIDE DEF m
    <3>2. a + n \in Nat /\ m - n \in Nat
      BY <1>3, <3>1
    <3>3. Extent(r) = (a + n)..((a + n) + (m - n) - 1)
      BY <3>1, <3>2, ExtentIs
    <3>4. (a + n) + (m - n) - 1 = a + m - 1
      BY <1>3, <3>1
    <3>5. Extent(r) = (a + n)..(a + m - 1)
      BY <3>3, <3>4, Zenon
    <3>6. (a + n)..(a + m - 1) = (a..(a + m - 1)) \ (a..(a + n - 1))
      BY <1>3, <3>1
    <3>7. QED
      BY <3>5, <3>6 DEF m
  <2>8. PagesBut(q, i) \cap (a..(a + n - 1)) = {}
    BY <1>5, <1>6, <1>7
  <2>9. FreePages(w) = FreePages(v) \ (a..(a + n - 1))
    BY <1>4, <1>5, <1>6, <2>5, <2>7, <2>8
  <2>10. QED
    BY <1>3, <1>4, <1>5, <1>6, <1>7, <2>4, <2>6, <2>9
<1>10. QED
  BY <1>8, <1>9

-----------------------------------------------------------------------------
(* _free_region                                                            *)

LEMMA FreeRegionIs ==
    ASSUME NEW v, NEW a, NEW n, NEW i, i = Below(v, a)
    PROVE  /\ EndsAt(v, i, a) /\ StartsAt(v, i + 1, a + n) =>
                FreeRegion(v, a, n) =
                  Resize(Drop(v, i + 1), i,
                         Region(v.byAddr[i].address,
                                v.byAddr[i].size + n + v.byAddr[i + 1].size))
           /\ EndsAt(v, i, a) /\ ~StartsAt(v, i + 1, a + n) =>
                FreeRegion(v, a, n) =
                  Resize(v, i, Region(v.byAddr[i].address, v.byAddr[i].size + n))
           /\ ~EndsAt(v, i, a) /\ StartsAt(v, i + 1, a + n) =>
                FreeRegion(v, a, n) =
                  Resize(v, i + 1, Region(a, n + v.byAddr[i + 1].size))
           /\ NeedsFrame(v, a, n) => FreeRegion(v, a, n) = InsertBehindFrame(v, a, n)
           /\ ~EndsAt(v, i, a) /\ ~StartsAt(v, i + 1, a + n) /\ ~NeedsFrame(v, a, n) =>
                FreeRegion(v, a, n) = Insert(v, a, n)
<1>1. NeedsFrame(v, a, n) => ~EndsAt(v, i, a) /\ ~StartsAt(v, i + 1, a + n)
  BY DEF NeedsFrame
<1>2. EndsAt(v, i, a) /\ StartsAt(v, i + 1, a + n) =>
        FreeRegion(v, a, n) =
          Resize(Drop(v, i + 1), i,
                 Region(v.byAddr[i].address, v.byAddr[i].size + n + v.byAddr[i + 1].size))
  BY <1>1 DEF FreeRegion
<1>3. EndsAt(v, i, a) /\ ~StartsAt(v, i + 1, a + n) =>
        FreeRegion(v, a, n) =
          Resize(v, i, Region(v.byAddr[i].address, v.byAddr[i].size + n))
  BY <1>1 DEF FreeRegion
<1>4. ~EndsAt(v, i, a) /\ StartsAt(v, i + 1, a + n) =>
        FreeRegion(v, a, n) = Resize(v, i + 1, Region(a, n + v.byAddr[i + 1].size))
  BY <1>1 DEF FreeRegion
<1>5. NeedsFrame(v, a, n) => FreeRegion(v, a, n) = InsertBehindFrame(v, a, n)
  BY <1>1 DEF FreeRegion
<1>6. ~EndsAt(v, i, a) /\ ~StartsAt(v, i + 1, a + n) /\ ~NeedsFrame(v, a, n) =>
        FreeRegion(v, a, n) = Insert(v, a, n)
  BY DEF FreeRegion
<1>7. QED
  BY <1>2, <1>3, <1>4, <1>5, <1>6

\* The pages a.. become free in v, which becomes w with as many descriptors.
Freed(v, a, n, w) ==
    /\ VirtOK(w)
    /\ FreePages(w) = FreePages(v) \cup a..(a + n - 1)
    /\ w.spare + Len(w.byAddr) = v.spare + Len(v.byAddr)

LEMMA FreeBetween ==
    ASSUME NEW v, VirtOK(v), NEW a \in Nat, NEW n \in Nat \ {0},
           a..(a + n - 1) \cap FreePages(v) = {},
           EndsAt(v, Below(v, a), a), StartsAt(v, Below(v, a) + 1, a + n),
           NEW w, w = FreeRegion(v, a, n)
    PROVE  Freed(v, a, n, w)
<1> DEFINE q == v.byAddr
           i == Below(v, a)
           u == Drop(v, i + 1)
           d == u.byAddr
           r == Region(q[i].address, q[i].size + n + q[i + 1].size)
<1>1. /\ q \in Seq(RegionType) /\ GapsIn(q) /\ Len(q) \in Nat /\ i \in 0..Len(q)
      /\ \A j \in 1..Len(q) : j <= i => q[j].address + q[j].size <= a
      /\ \A j \in 1..Len(q) : i < j => a + n <= q[j].address
  BY BelowFacts
<1>2. /\ i > 0 /\ q[i].address + q[i].size = a
      /\ i + 1 <= Len(q) /\ q[i + 1].address = a + n
  BY DEF EndsAt, StartsAt, EndOf
<1>3. w = Resize(u, i, r)
  <2>1. i = Below(v, a) /\ EndsAt(v, i, a) /\ StartsAt(v, i + 1, a + n)
    OBVIOUS
  <2> HIDE DEF i
  <2>2. QED
    BY <2>1, FreeRegionIs
<1>4. i \in 1..Len(q) /\ i + 1 \in 1..Len(q)
  BY <1>1, <1>2
<1> HIDE DEF i
<1>5. VirtOK(u) /\ d = RemoveAt(q, i + 1) /\ u.spare = v.spare + 1
  BY <1>4, DropOK
<1>6. FreePages(u) = PagesBut(q, i + 1)
  BY <1>4, DropPages
<1>7. FreePages(u) = PagesBut(d, 0)
  BY <1>5, FreePagesAre DEF VirtOK
<1>8. FreePages(v) = PagesBut(q, 0) /\ v.spare \in Nat
  BY FreePagesAre DEF VirtOK, VirtType
<1> HIDE DEF q, u
<1>9. /\ d \in Seq(RegionType) /\ Len(d) = Len(q) - 1
      /\ \A j \in 1..(Len(q) - 1) : d[j] = IF j < i + 1 THEN q[j] ELSE q[j + 1]
  BY <1>1, <1>4, <1>5, RemoveAtFacts
<1>10. GapsIn(d)
  BY <1>5 DEF VirtOK
<1>11. i \in 1..Len(d) /\ d[i] = q[i]
  <2>1. i \in 1..(Len(q) - 1) /\ i < i + 1
    BY <1>1, <1>4
  <2>2. QED
    BY <1>9, <2>1
<1>12. /\ q[i].address \in Nat /\ q[i].size \in Nat /\ q[i].size > 0
       /\ q[i + 1].size \in Nat /\ q[i + 1].size > 0
  BY <1>1, <1>4, RegionFacts
<1>13. /\ r.address = q[i].address /\ r.size = q[i].size + n + q[i + 1].size
       /\ r \in RegionType
       /\ r.address + r.size = q[i + 1].address + q[i + 1].size
  <2>1. r.address = q[i].address /\ r.size = q[i].size + n + q[i + 1].size
    BY DEF Region
  <2>2. q[i].size + n + q[i + 1].size \in Nat \ {0}
    BY <1>12
  <2>3. r \in RegionType
    BY <1>12, <2>2 DEF Region, RegionType
  <2> HIDE DEF r
  <2>4. r.address + r.size = q[i].address + q[i].size + n + q[i + 1].size
    BY <1>12, <2>1
  <2>5. r.address + r.size = q[i + 1].address + q[i + 1].size
    BY <1>2, <1>12, <2>4
  <2>6. QED
    BY <2>1, <2>3, <2>5
<1> HIDE DEF r
<1>14. GapsIn(Replaced(d, i, r))
  <2>1. \A j \in 1..Len(d) : j < i => d[j].address + d[j].size < r.address
    BY <1>10, <1>11, <1>13 DEF GapsIn
  <2>2. \A j \in 1..Len(d) : i < j => r.address + r.size < d[j].address
    <3> SUFFICES ASSUME NEW j \in 1..Len(d), i < j PROVE r.address + r.size < d[j].address
      OBVIOUS
    <3>1. /\ j \in 1..(Len(q) - 1) /\ ~(j < i + 1)
          /\ j + 1 \in 1..Len(q) /\ i + 1 < j + 1
      BY <1>1, <1>4, <1>9
    <3>2. d[j] = q[j + 1]
      BY <1>9, <3>1
    <3>3. q[i + 1].address + q[i + 1].size < q[j + 1].address
      BY <1>1, <1>4, <3>1 DEF GapsIn
    <3>4. QED
      BY <1>13, <3>2, <3>3
  <2> HIDE DEF d
  <2>3. QED
    BY <1>9, <1>10, <1>11, <1>13, <2>1, <2>2, ReplacedApart
<1>15. VirtOK(w) /\ w.byAddr = Replaced(d, i, r) /\ w.spare = u.spare
  BY <1>3, <1>5, <1>11, <1>13, <1>14, ResizeOK
<1>16. FreePages(w) = PagesBut(d, i) \cup Extent(r)
  BY <1>3, <1>5, <1>11, <1>13, <1>14, ResizePages
<1> HIDE DEF d
<1>17. Len(Replaced(d, i, r)) = Len(d)
  <2>1. d \in Seq(RegionType) /\ i \in 1..Len(d) /\ r \in RegionType
    BY <1>9, <1>11, <1>13
  <2>2. QED
    BY <2>1, ReplacedFacts
<1>18. PagesBut(d, 0) = PagesBut(d, i) \cup Extent(q[i])
  BY <1>9, <1>10, <1>11, PagesOfOne
<1>19. PagesBut(q, 0) = PagesBut(q, i + 1) \cup Extent(q[i + 1])
  BY <1>1, <1>4, PagesOfOne
<1>20. Extent(r) = Extent(q[i]) \cup a..(a + n - 1) \cup Extent(q[i + 1])
  <2> DEFINE b == q[i].address
             k == q[i].size
             l == q[i + 1].size
             m == k + n + l
  <2>1. b \in Nat /\ k \in Nat /\ l \in Nat /\ b + k = a /\ q[i + 1].address = a + n
    BY <1>2, <1>12
  <2>2. Extent(q[i]) = b..(b + k - 1)
    BY <2>1, ExtentIs
  <2>3. Extent(q[i + 1]) = (a + n)..(a + n + l - 1)
    <3>1. a + n \in Nat
      OBVIOUS
    <3>2. QED
      BY <2>1, <3>1, ExtentIs
  <2>4. r.address = b /\ r.size = m /\ m \in Nat
    BY <1>13, <2>1
  <2>5. Extent(r) = b..(b + m - 1)
    <3> HIDE DEF b, m
    <3>1. QED
      BY <2>1, <2>4, ExtentIs
  <2> HIDE DEF b, k, l
  <2>6. b..(b + m - 1) = b..(b + k - 1) \cup a..(a + n - 1) \cup (a + n)..(a + n + l - 1)
    BY <2>1
  <2>7. QED
    BY <2>2, <2>3, <2>5, <2>6
<1>21. FreePages(w) = FreePages(v) \cup a..(a + n - 1)
  BY <1>6, <1>7, <1>8, <1>16, <1>18, <1>19, <1>20
<1>22. w.spare + Len(w.byAddr) = v.spare + Len(q)
  <2>1. w.spare = v.spare + 1 /\ v.spare \in Nat
    BY <1>5, <1>8, <1>15
  <2>2. Len(w.byAddr) = Len(q) - 1 /\ Len(q) \in Nat
    BY <1>1, <1>9, <1>15, <1>17
  <2>3. QED
    BY <2>1, <2>2
<1>23. QED
  BY <1>15, <1>21, <1>22 DEF Freed, q

LEMMA FreeBehind ==
    ASSUME NEW v, VirtOK(v), NEW a \in Nat, NEW n \in Nat \ {0},
           a..(a + n - 1) \cap FreePages(v) = {},
           EndsAt(v, Below(v, a), a), ~StartsAt(v, Below(v, a) + 1, a + n),
           NEW w, w = FreeRegion(v, a, n)
    PROVE  Freed(v, a, n, w)
<1> DEFINE q == v.byAddr
           i == Below(v, a)
           r == Region(q[i].address, q[i].size + n)
<1>1. /\ q \in Seq(RegionType) /\ GapsIn(q) /\ Len(q) \in Nat /\ i \in 0..Len(q)
      /\ \A j \in 1..Len(q) : j <= i => q[j].address + q[j].size <= a
      /\ \A j \in 1..Len(q) : i < j => a + n <= q[j].address
  BY BelowFacts
<1>2. i > 0 /\ q[i].address + q[i].size = a
  BY DEF EndsAt, EndOf
<1>3. i + 1 <= Len(q) => q[i + 1].address # a + n
  BY DEF StartsAt
<1>4. w = Resize(v, i, r)
  <2>1. i = Below(v, a) /\ EndsAt(v, i, a) /\ ~StartsAt(v, i + 1, a + n)
    OBVIOUS
  <2> HIDE DEF i
  <2>2. QED
    BY <2>1, FreeRegionIs
<1>5. i \in 1..Len(q)
  BY <1>1, <1>2
<1> HIDE DEF i
<1>6. FreePages(v) = PagesBut(q, 0)
  BY FreePagesAre DEF VirtOK
<1>7. q[i].address \in Nat /\ q[i].size \in Nat /\ q[i].size > 0
  BY <1>1, <1>5, RegionFacts
<1>8. r.address = q[i].address /\ r.size = q[i].size + n /\ r \in RegionType
  <2>1. r.address = q[i].address /\ r.size = q[i].size + n
    BY DEF Region
  <2>2. q[i].size + n \in Nat \ {0}
    BY <1>7
  <2>3. QED
    BY <1>7, <2>1, <2>2 DEF Region, RegionType
<1> HIDE DEF r
<1>9. GapsIn(Replaced(q, i, r))
  <2>1. \A j \in 1..Len(q) : j < i => q[j].address + q[j].size < r.address
    BY <1>1, <1>5, <1>8 DEF GapsIn
  <2>2. \A j \in 1..Len(q) : i < j => r.address + r.size < q[j].address
    <3> SUFFICES ASSUME NEW j \in 1..Len(q), i < j PROVE r.address + r.size < q[j].address
      OBVIOUS
    <3>1. a + n <= q[j].address /\ q[j].address \in Nat
      BY <1>1, RegionFacts
    <3>2. i + 1 \in 1..Len(q) /\ i + 1 <= Len(q)
      BY <1>1, <1>5
    <3>3. a + n # q[j].address
      <4>1. CASE j = i + 1
        BY <1>3, <3>2, <4>1
      <4>2. CASE i + 1 < j
        <5>1. q[i + 1].address + q[i + 1].size < q[j].address
          BY <1>1, <3>2, <4>2 DEF GapsIn
        <5>2. /\ q[i + 1].address \in Nat /\ q[i + 1].size \in Nat
              /\ a + n <= q[i + 1].address
          BY <1>1, <1>5, <3>2, RegionFacts
        <5>3. QED
          BY <3>1, <5>1, <5>2
      <4>3. QED
        BY <1>5, <4>1, <4>2
    <3> HIDE DEF q
    <3>4. r.address + r.size = a + n /\ a + n \in Nat
      BY <1>2, <1>7, <1>8
    <3>5. QED
      BY <3>1, <3>3, <3>4
  <2> HIDE DEF q
  <2>3. QED
    BY <1>1, <1>5, <1>8, <2>1, <2>2, ReplacedApart
<1>10. VirtOK(w) /\ w.byAddr = Replaced(q, i, r) /\ w.spare = v.spare
  BY <1>4, <1>5, <1>8, <1>9, ResizeOK
<1>11. FreePages(w) = PagesBut(q, i) \cup Extent(r)
  BY <1>4, <1>5, <1>8, <1>9, ResizePages
<1> HIDE DEF q
<1>12. Len(Replaced(q, i, r)) = Len(q)
  BY <1>1, <1>5, <1>8, ReplacedFacts
<1>13. PagesBut(q, 0) = PagesBut(q, i) \cup Extent(q[i])
  BY <1>1, <1>5, PagesOfOne
<1>14. Extent(r) = Extent(q[i]) \cup a..(a + n - 1)
  <2> DEFINE b == q[i].address
             k == q[i].size
             m == k + n
  <2>1. b \in Nat /\ k \in Nat /\ b + k = a
    BY <1>2, <1>7
  <2>2. Extent(q[i]) = b..(b + k - 1)
    BY <2>1, ExtentIs
  <2>3. r.address = b /\ r.size = m /\ m \in Nat
    BY <1>8, <2>1
  <2>4. Extent(r) = b..(b + m - 1)
    <3> HIDE DEF b, m
    <3>1. QED
      BY <2>1, <2>3, ExtentIs
  <2> HIDE DEF b, k
  <2>5. b..(b + m - 1) = b..(b + k - 1) \cup a..(a + n - 1)
    BY <2>1
  <2>6. QED
    BY <2>2, <2>4, <2>5
<1>15. FreePages(w) = FreePages(v) \cup a..(a + n - 1)
  BY <1>6, <1>11, <1>13, <1>14
<1>16. w.spare + Len(w.byAddr) = v.spare + Len(q)
  BY <1>10, <1>12
<1>17. QED
  BY <1>10, <1>15, <1>16 DEF Freed, q

LEMMA FreeInFront ==
    ASSUME NEW v, VirtOK(v), NEW a \in Nat, NEW n \in Nat \ {0},
           a..(a + n - 1) \cap FreePages(v) = {},
           ~EndsAt(v, Below(v, a), a), StartsAt(v, Below(v, a) + 1, a + n),
           NEW w, w = FreeRegion(v, a, n)
    PROVE  Freed(v, a, n, w)
<1> DEFINE q == v.byAddr
           i == Below(v, a)
           r == Region(a, n + q[i + 1].size)
<1>1. /\ q \in Seq(RegionType) /\ GapsIn(q) /\ Len(q) \in Nat /\ i \in 0..Len(q)
      /\ \A j \in 1..Len(q) : j <= i => q[j].address + q[j].size <= a
      /\ \A j \in 1..Len(q) : i < j => a + n <= q[j].address
  BY BelowFacts
<1>2. i > 0 => q[i].address + q[i].size # a
  BY DEF EndsAt, EndOf
<1>3. i + 1 <= Len(q) /\ q[i + 1].address = a + n
  BY DEF StartsAt
<1>4. w = Resize(v, i + 1, r)
  <2>1. i = Below(v, a) /\ ~EndsAt(v, i, a) /\ StartsAt(v, i + 1, a + n)
    OBVIOUS
  <2> HIDE DEF i
  <2>2. QED
    BY <2>1, FreeRegionIs
<1>5. i + 1 \in 1..Len(q) /\ i \in Nat
  BY <1>1, <1>3
<1> HIDE DEF i
<1>6. FreePages(v) = PagesBut(q, 0)
  BY FreePagesAre DEF VirtOK
<1>7. q[i + 1].size \in Nat /\ q[i + 1].size > 0
  BY <1>1, <1>5, RegionFacts
<1>8. r.address = a /\ r.size = n + q[i + 1].size /\ r \in RegionType
  <2>1. r.address = a /\ r.size = n + q[i + 1].size
    BY DEF Region
  <2>2. n + q[i + 1].size \in Nat \ {0}
    BY <1>7
  <2>3. QED
    BY <2>1, <2>2 DEF Region, RegionType
<1> HIDE DEF r
<1>9. GapsIn(Replaced(q, i + 1, r))
  <2>1. \A j \in 1..Len(q) : j < i + 1 => q[j].address + q[j].size < r.address
    <3> SUFFICES ASSUME NEW j \in 1..Len(q), j < i + 1
                 PROVE  q[j].address + q[j].size < a
      BY <1>8
    <3>1. /\ q[j].address \in Nat /\ q[j].size \in Nat /\ q[j].address + q[j].size <= a
      BY <1>1, <1>5, RegionFacts
    <3>2. CASE j = i
      <4>1. i > 0 /\ q[j].address + q[j].size # a
        BY <1>2, <3>2
      <4>2. QED
        BY <3>1, <4>1
    <3>3. CASE j < i
      <4>1. i \in 1..Len(q)
        BY <1>1, <3>3
      <4>2. q[j].address + q[j].size < q[i].address
        BY <1>1, <3>3, <4>1 DEF GapsIn
      <4>3. q[i].address \in Nat /\ q[i].size \in Nat /\ q[i].address + q[i].size <= a
        BY <1>1, <1>5, <4>1, RegionFacts
      <4>4. q[i].address <= a
        BY <4>3
      <4> HIDE DEF q
      <4>5. QED
        BY <3>1, <4>2, <4>3, <4>4
    <3>4. QED
      BY <1>5, <3>2, <3>3
  <2>2. \A j \in 1..Len(q) : i + 1 < j => r.address + r.size < q[j].address
    <3> SUFFICES ASSUME NEW j \in 1..Len(q), i + 1 < j PROVE r.address + r.size < q[j].address
      OBVIOUS
    <3>1. q[i + 1].address + q[i + 1].size < q[j].address
      BY <1>1, <1>5 DEF GapsIn
    <3>2. r.address + r.size = q[i + 1].address + q[i + 1].size
      BY <1>3, <1>7, <1>8
    <3>3. QED
      BY <3>1, <3>2
  <2> HIDE DEF q
  <2>3. QED
    BY <1>1, <1>5, <1>8, <2>1, <2>2, ReplacedApart
<1>10. VirtOK(w) /\ w.byAddr = Replaced(q, i + 1, r) /\ w.spare = v.spare
  BY <1>4, <1>5, <1>8, <1>9, ResizeOK
<1>11. FreePages(w) = PagesBut(q, i + 1) \cup Extent(r)
  BY <1>4, <1>5, <1>8, <1>9, ResizePages
<1> HIDE DEF q
<1>12. Len(Replaced(q, i + 1, r)) = Len(q)
  BY <1>1, <1>5, <1>8, ReplacedFacts
<1>13. PagesBut(q, 0) = PagesBut(q, i + 1) \cup Extent(q[i + 1])
  BY <1>1, <1>5, PagesOfOne
<1>14. Extent(r) = Extent(q[i + 1]) \cup a..(a + n - 1)
  <2> DEFINE k == q[i + 1].size
             m == n + k
  <2>1. k \in Nat /\ a + n \in Nat /\ q[i + 1].address = a + n
    BY <1>3, <1>7
  <2>2. Extent(q[i + 1]) = (a + n)..(a + n + k - 1)
    BY <2>1, ExtentIs
  <2>3. r.address = a /\ r.size = m /\ m \in Nat
    BY <1>8, <2>1
  <2>4. Extent(r) = a..(a + m - 1)
    <3> HIDE DEF m
    <3>1. QED
      BY <2>3, ExtentIs
  <2> HIDE DEF k
  <2>5. a..(a + m - 1) = (a + n)..(a + n + k - 1) \cup a..(a + n - 1)
    BY <2>1
  <2>6. QED
    BY <2>2, <2>4, <2>5
<1>15. FreePages(w) = FreePages(v) \cup a..(a + n - 1)
  BY <1>6, <1>11, <1>13, <1>14
<1>16. w.spare + Len(w.byAddr) = v.spare + Len(q)
  BY <1>10, <1>12
<1>17. QED
  BY <1>10, <1>15, <1>16 DEF Freed, q

\* As a region of their own.
LEMMA InsertFree ==
    ASSUME NEW v, VirtOK(v), v.spare > 0, NEW a \in Nat, NEW n \in Nat \ {0},
           a..(a + n - 1) \cap FreePages(v) = {},
           ~EndsAt(v, Below(v, a), a), ~StartsAt(v, Below(v, a) + 1, a + n),
           NEW w, w = Insert(v, a, n)
    PROVE  Freed(v, a, n, w)
<1> DEFINE q == v.byAddr
           i == Below(v, a)
           r == Region(a, n)
<1>1. /\ q \in Seq(RegionType) /\ GapsIn(q) /\ Len(q) \in Nat /\ i \in 0..Len(q)
      /\ \A j \in 1..Len(q) : j <= i => q[j].address + q[j].size <= a
      /\ \A j \in 1..Len(q) : i < j => a + n <= q[j].address
  BY BelowFacts
<1>2. i > 0 => q[i].address + q[i].size # a
  BY DEF EndsAt, EndOf
<1>3. i + 1 <= Len(q) => q[i + 1].address # a + n
  BY DEF StartsAt
<1>4. i + 1 \in 1..(Len(q) + 1) /\ i \in Nat /\ i = Below(v, a)
  BY <1>1
<1> HIDE DEF i
<1>5. r.address = a /\ r.size = n
  BY DEF Region
<1> HIDE DEF r
<1>6. \A j \in 1..Len(q) : j < i + 1 => q[j].address + q[j].size < r.address
  <2> SUFFICES ASSUME NEW j \in 1..Len(q), j < i + 1
               PROVE  q[j].address + q[j].size < a
    BY <1>5
  <2>1. q[j].address \in Nat /\ q[j].size \in Nat /\ q[j].address + q[j].size <= a
    BY <1>1, <1>4, RegionFacts
  <2>2. CASE j = i
    <3>1. i > 0 /\ q[j].address + q[j].size # a
      BY <1>2, <2>2
    <3>2. QED
      BY <2>1, <3>1
  <2>3. CASE j < i
    <3>1. i \in 1..Len(q)
      BY <1>1, <2>3
    <3>2. q[j].address + q[j].size < q[i].address
      BY <1>1, <2>3, <3>1 DEF GapsIn
    <3>3. q[i].address \in Nat /\ q[i].size \in Nat /\ q[i].address + q[i].size <= a
      BY <1>1, <1>4, <3>1, RegionFacts
    <3>4. q[i].address <= a
      BY <3>3
    <3> HIDE DEF q
    <3>5. QED
      BY <2>1, <3>2, <3>3, <3>4
  <2>4. QED
    BY <1>4, <2>2, <2>3
<1>7. \A j \in 1..Len(q) : i + 1 <= j => r.address + r.size < q[j].address
  <2> SUFFICES ASSUME NEW j \in 1..Len(q), i + 1 <= j PROVE a + n < q[j].address
    BY <1>5
  <2>1. a + n <= q[j].address /\ q[j].address \in Nat
    BY <1>1, <1>4, RegionFacts
  <2>2. i + 1 \in 1..Len(q) /\ i + 1 <= Len(q)
    BY <1>1, <1>4
  <2>3. a + n # q[j].address
    <3>1. CASE j = i + 1
      BY <1>3, <2>2, <3>1
    <3>2. CASE i + 1 < j
      <4>1. q[i + 1].address + q[i + 1].size < q[j].address
        BY <1>1, <2>2, <3>2 DEF GapsIn
      <4>2. /\ q[i + 1].address \in Nat /\ q[i + 1].size \in Nat
            /\ a + n <= q[i + 1].address
        BY <1>1, <1>4, <2>2, RegionFacts
      <4>3. QED
        BY <2>1, <4>1, <4>2
    <3>3. QED
      BY <1>4, <3>1, <3>2
  <2>4. QED
    BY <2>1, <2>3
<1>8. Fits(q, i + 1, r)
  <2> HIDE DEF q
  <2>1. QED
    BY <1>6, <1>7 DEF Fits
<1>9. Fits(v.byAddr, i + 1, Region(a, n))
  BY <1>8 DEF r
<1>10. i + 1 = Below(v, a) + 1 /\ i + 1 \in 1..(Len(v.byAddr) + 1)
  BY <1>4
<1> DEFINE e == i + 1
<1>11. /\ e \in 1..(Len(v.byAddr) + 1) /\ e = Below(v, a) + 1
       /\ Fits(v.byAddr, e, Region(a, n))
  BY <1>9, <1>10
<1> HIDE DEF e, q
<1>12. /\ VirtOK(w) /\ w.spare = v.spare - 1 /\ Len(w.byAddr) = Len(v.byAddr) + 1
       /\ FreePages(w) = FreePages(v) \cup a..(a + n - 1)
  BY <1>11, InsertPages
<1>13. v.spare \in Nat /\ Len(v.byAddr) \in Nat
  BY DEF VirtOK, VirtType
<1>14. w.spare + Len(w.byAddr) = v.spare + Len(v.byAddr)
  BY <1>12, <1>13
<1>15. QED
  BY <1>12, <1>14 DEF Freed

\* The first page becomes one of descriptors and the rest a region.
LEMMA FreeWithFrame ==
    ASSUME NEW v, VirtOK(v), NEW a \in Nat, NEW n \in Nat \ {0},
           a..(a + n - 1) \cap FreePages(v) = {},
           NeedsFrame(v, a, n), NEW w, w = FreeRegion(v, a, n)
    PROVE  /\ VirtOK(w)
           /\ FreePages(w) = FreePages(v) \cup (a + 1)..(a + n - 1)
           /\ w.spare + Len(w.byAddr) = v.spare + Len(v.byAddr) + RegionsPerFrame
<1> DEFINE q == v.byAddr
           i == Below(v, a)
           u == [v EXCEPT !.spare = RegionsPerFrame]
           b == a + 1
           m == n - 1
<1>1. /\ q \in Seq(RegionType) /\ GapsIn(q) /\ Len(q) \in Nat /\ i \in 0..Len(q)
      /\ \A j \in 1..Len(q) : j <= i => q[j].address + q[j].size <= a
      /\ \A j \in 1..Len(q) : i < j => a + n <= q[j].address
  BY BelowFacts
<1>2. v.spare = 0 /\ ~StartsAt(v, i + 1, a + n) /\ i = Below(v, a)
  BY DEF NeedsFrame
<1>3. i + 1 <= Len(q) => q[i + 1].address # a + n
  BY <1>2 DEF StartsAt
<1>4. w = IF n = 1 THEN u ELSE Insert(u, b, m)
  <2>1. w = InsertBehindFrame(v, a, n)
    BY <1>2, FreeRegionIs
  <2>2. QED
    BY <2>1 DEF InsertBehindFrame
<1> HIDE DEF i
<1>5. RegionsPerFrame \in Nat /\ RegionsPerFrame > 0
  BY VirtRegionsAssumption
<1>6. u = [byAddr |-> q, bySize |-> v.bySize, spare |-> RegionsPerFrame]
  <2>1. v \in VirtType
    BY DEF VirtOK
  <2>2. QED
    BY <2>1 DEF VirtType
<1>7. u.byAddr = q /\ u.bySize = v.bySize /\ u.spare = RegionsPerFrame /\ u \in VirtType
  <2>1. v.byAddr \in Seq(RegionType) /\ v.bySize \in Seq(Nat)
    BY DEF VirtOK, VirtType
  <2>2. QED
    BY <1>5, <1>6, <2>1 DEF VirtType
<1> HIDE DEF u
<1>8. VirtOK(u)
  BY <1>7 DEF VirtOK
<1>9. FreePages(u) = FreePages(v)
  BY <1>7 DEF FreePages
<1>10. CASE n = 1
  <2>1. w = u /\ a + n - 1 = a
    BY <1>4, <1>10
  <2>2. (a + 1)..(a + n - 1) = {}
    BY <2>1
  <2>3. w.spare + Len(w.byAddr) = v.spare + Len(v.byAddr) + RegionsPerFrame
    <3>1. w.spare = RegionsPerFrame /\ w.byAddr = q /\ v.spare = 0
      BY <1>2, <1>7, <2>1
    <3>2. Len(w.byAddr) = Len(q) /\ Len(q) \in Nat
      BY <1>1, <3>1
    <3> HIDE DEF q
    <3>3. w.spare + Len(w.byAddr) = v.spare + Len(q) + RegionsPerFrame
      BY <1>5, <3>1, <3>2
    <3>4. QED
      BY <3>3 DEF q
  <2>4. QED
    BY <1>8, <1>9, <2>1, <2>2, <2>3
<1>11. CASE n # 1
  <2>1. w = Insert(u, b, m) /\ b \in Nat /\ m \in Nat \ {0} /\ b + m - 1 = a + n - 1
        /\ b + m = a + n
    BY <1>4, <1>11
  <2>2. b..(b + m - 1) \cap FreePages(u) = {}
    <3>1. b..(a + n - 1) \subseteq a..(a + n - 1)
      OBVIOUS
    <3> HIDE DEF b, m
    <3>2. QED
      BY <1>9, <2>1, <3>1
  <2> DEFINE k == Below(u, b)
  <2> HIDE DEF m, q
  <2>3. /\ k \in 0..Len(q) /\ k = Below(u, b)
        /\ \A j \in 1..Len(q) : j <= k => q[j].address + q[j].size <= b
        /\ \A j \in 1..Len(q) : k < j => b + m <= q[j].address
    <3> HIDE DEF b
    <3>1. QED
      BY <1>7, <1>8, <2>1, <2>2, BelowFacts
  <2> HIDE DEF k
  <2>4. ~EndsAt(u, k, b)
    <3>1. SUFFICES ASSUME k > 0, q[k].address + q[k].size = a + 1 PROVE FALSE
      BY <1>7 DEF EndsAt, EndOf
    <3>2. k \in 1..Len(q) /\ k # 0
      BY <1>1, <2>3, <3>1
    <3>3. q[k].address \in Nat /\ q[k].size \in Nat /\ q[k].size > 0
      BY <1>1, <3>2, RegionFacts
    <3>4. a \in Extent(q[k])
      BY <3>1, <3>3 DEF Extent, EndOf
    <3>5. a \in FreePages(v)
      <4>1. FreePages(v) = PagesBut(q, 0)
        BY FreePagesAre DEF VirtOK, q
      <4>2. QED
        BY <3>2, <3>4, <4>1 DEF PagesBut
    <3>6. a \in a..(a + n - 1)
      OBVIOUS
    <3>7. QED
      BY <3>5, <3>6
  <2>5. ~StartsAt(u, k + 1, b + m)
    <3>1. SUFFICES ASSUME k + 1 <= Len(q), q[k + 1].address = a + n PROVE FALSE
      BY <1>7, <2>1 DEF StartsAt
    <3>2. k + 1 \in 1..Len(q) /\ k \in Nat /\ i \in Nat
      BY <1>1, <2>3, <3>1
    <3>3. q[k + 1].address \in Nat /\ q[k + 1].size \in Nat
      BY <1>1, <3>2, RegionFacts
    <3>4. ~(k + 1 <= i)
      <4>1. SUFFICES ASSUME k + 1 <= i PROVE FALSE
        OBVIOUS
      <4>2. q[k + 1].address + q[k + 1].size <= a
        BY <1>1, <3>2, <4>1
      <4>3. QED
        BY <3>1, <3>3, <4>2
    <3>5. k # i
      BY <1>3, <3>1
    <3>6. i < k
      BY <3>2, <3>4, <3>5
    <3>7. i + 1 \in 1..Len(q) /\ i < i + 1 /\ i + 1 <= k
      BY <1>1, <2>3, <3>2, <3>6
    <3>8. /\ q[i + 1].address \in Nat /\ q[i + 1].size \in Nat /\ q[i + 1].size > 0
      BY <1>1, <3>7, RegionFacts
    <3>9. q[i + 1].address + q[i + 1].size <= a + 1
      BY <2>3, <3>7
    <3>10. a + n <= q[i + 1].address
      BY <1>1, <3>7
    <3>11. QED
      BY <3>8, <3>9, <3>10
  <2>6. u.spare > 0 /\ ~EndsAt(u, Below(u, b), b) /\ ~StartsAt(u, Below(u, b) + 1, b + m)
    BY <1>5, <1>7, <2>3, <2>4, <2>5
  <2> HIDE DEF b
  <2>7. Freed(u, b, m, w)
    BY <1>8, <2>1, <2>2, <2>6, InsertFree
  <2>8. w.spare + Len(w.byAddr) = v.spare + Len(v.byAddr) + RegionsPerFrame
    BY <1>1, <1>2, <1>5, <1>7, <2>7 DEF Freed, q
  <2>9. (a + 1)..(a + n - 1) = b..(b + m - 1)
    BY <2>1 DEF b
  <2>10. QED
    BY <1>9, <2>7, <2>8, <2>9 DEF Freed
<1>12. QED
  BY <1>10, <1>11

\* Pages that are not free are never taken for free, and then become free.
LEMMA FreeRegionOK ==
    ASSUME NEW v, VirtOK(v), NEW a \in Nat, NEW n \in Nat \ {0},
           a..(a + n - 1) \cap FreePages(v) = {}
    PROVE  /\ ~AlreadyFree(v, a)
           /\ ~NeedsFrame(v, a, n) => Freed(v, a, n, FreeRegion(v, a, n))
<1> DEFINE i == Below(v, a)
           q == v.byAddr
<1>1. /\ q \in Seq(RegionType) /\ Len(q) \in Nat /\ i \in 0..Len(q)
      /\ \A j \in 1..Len(q) : j <= i => q[j].address + q[j].size <= a
  BY BelowFacts
<1>2. ~AlreadyFree(v, a)
  <2>1. SUFFICES ASSUME i > 0, a < q[i].address + q[i].size PROVE FALSE
    BY DEF AlreadyFree, EndOf
  <2> HIDE DEF i, q
  <2>2. i \in 1..Len(q) /\ i <= i
    BY <1>1, <2>1
  <2>3. q[i].address \in Nat /\ q[i].size \in Nat /\ q[i].address + q[i].size <= a
    BY <1>1, <2>2, RegionFacts
  <2>4. QED
    BY <2>1, <2>3
<1>3. ASSUME ~NeedsFrame(v, a, n) PROVE Freed(v, a, n, FreeRegion(v, a, n))
  <2>1. CASE EndsAt(v, i, a) /\ StartsAt(v, i + 1, a + n)
    BY <2>1, FreeBetween
  <2>2. CASE EndsAt(v, i, a) /\ ~StartsAt(v, i + 1, a + n)
    BY <2>2, FreeBehind
  <2>3. CASE ~EndsAt(v, i, a) /\ StartsAt(v, i + 1, a + n)
    BY <2>3, FreeInFront
  <2>4. CASE ~EndsAt(v, i, a) /\ ~StartsAt(v, i + 1, a + n)
    <3>1. v.spare \in Nat /\ v.spare # 0
      BY <1>3, <2>4 DEF VirtOK, VirtType, NeedsFrame
    <3>2. FreeRegion(v, a, n) = Insert(v, a, n)
      <4>1. i = Below(v, a)
        OBVIOUS
      <4> HIDE DEF i
      <4>2. QED
        BY <1>3, <2>4, <4>1, FreeRegionIs
    <3>3. v.spare > 0
      BY <3>1
    <3>4. QED
      BY <2>4, <3>2, <3>3, InsertFree
  <2>5. QED
    BY <2>1, <2>2, <2>3, <2>4
<1>4. QED
  BY <1>2, <1>3

LEMMA WellFormedFrom ==
    ASSUME NEW v, VirtOK(v)
    PROVE  WellFormed(v)
<1> DEFINE q == v.byAddr
           s == v.bySize
<1>1. /\ v \in VirtType /\ q \in Seq(RegionType) /\ s \in Seq(Nat)
      /\ Len(s) = Len(q) /\ Len(q) \in Nat /\ GapsIn(q) /\ BySizeBut(q, s, 0)
      /\ DOMAIN q = 1..Len(q) /\ DOMAIN s = 1..Len(s)
  BY DEF VirtOK, VirtType
<1>2. ASSUME NEW i \in 1..Len(q) PROVE SizeOf(v, q[i].address) = q[i].size
  BY <1>1, PlaceFound
<1> HIDE DEF q, s
<1>3. ASSUME NEW i \in DOMAIN q
      PROVE  q[i].size > 0 /\ (i > 1 => EndOf(q[i - 1]) < q[i].address)
  <2>1. i \in 1..Len(q)
    BY <1>1
  <2>2. q[i].size > 0
    BY <1>1, <2>1, RegionFacts
  <2>3. i > 1 => i - 1 \in 1..Len(q) /\ i - 1 < i
    BY <1>1, <2>1
  <2>4. QED
    BY <1>1, <2>1, <2>2, <2>3 DEF GapsIn, EndOf
<1>4. ToSet(s) = {r.address : r \in ToSet(q)}
  <2>1. ToSet(s) = {s[k] : k \in 1..Len(s)} /\ ToSet(q) = {q[i] : i \in 1..Len(q)}
    BY <1>1 DEF ToSet
  <2>2. \A k \in 1..Len(s) : \E i \in 1..Len(q) : q[i].address = s[k]
    BY <1>1 DEF BySizeBut
  <2>3. \A i \in 1..Len(q) : \E k \in 1..Len(s) : s[k] = q[i].address
    <3>1. \A i \in 1..Len(q) : i # 0
      BY <1>1
    <3>2. QED
      BY <1>1, <3>1 DEF BySizeBut
  <2>4. ASSUME NEW x \in ToSet(s) PROVE \E r \in ToSet(q) : x = r.address
    BY <2>1, <2>2
  <2>5. ASSUME NEW r \in ToSet(q) PROVE r.address \in ToSet(s)
    <3>1. PICK i \in 1..Len(q) : r = q[i]
      BY <2>1
    <3>2. PICK k \in 1..Len(s) : s[k] = q[i].address
      BY <2>3
    <3>3. QED
      BY <2>1, <3>1, <3>2
  <2>6. QED
    BY <2>4, <2>5
<1>5. ASSUME NEW k \in 2..Len(s) PROVE SizeOf(v, s[k - 1]) >= SizeOf(v, s[k])
  <2>1. k - 1 \in 1..Len(s) /\ k \in 1..Len(s) /\ k - 1 < k
    BY <1>1
  <2> DEFINE l == k - 1
  <2> HIDE DEF l
  <2>2. l \in 1..Len(s) /\ l < k
    BY <2>1 DEF l
  <2>3. PICK i \in 1..Len(q) : q[i].address = s[l]
    BY <1>1, <2>2 DEF BySizeBut
  <2>4. PICK j \in 1..Len(q) : q[j].address = s[k]
    BY <1>1, <2>1 DEF BySizeBut
  <2>5. q[i].size >= q[j].size
    BY <1>1, <2>1, <2>2, <2>3, <2>4 DEF BySizeBut
  <2>6. SizeOf(v, s[l]) = q[i].size /\ SizeOf(v, s[k]) = q[j].size
    BY <1>2, <2>3, <2>4
  <2>7. QED
    BY <2>5, <2>6 DEF l
<1>6. QED
  BY <1>1, <1>3, <1>4, <1>5 DEF WellFormed, q, s

-----------------------------------------------------------------------------
(* The frames of an array, in their order.                                 *)

\* How many elements of S are in front of f.
RankIn(S, f) == Cardinality({g \in S : g < f})

LEMMA RankGrows ==
    ASSUME NEW S \in SUBSET Nat, IsFiniteSet(S), NEW f \in S, NEW g \in S, f < g
    PROVE  RankIn(S, f) \in Nat /\ RankIn(S, g) \in Nat /\ RankIn(S, f) < RankIn(S, g)
<1> DEFINE A == {h \in S : h < f}
           B == {h \in S : h < g}
<1>1. f \in Nat /\ g \in Nat /\ \A h \in S : h \in Nat
  OBVIOUS
<1>2. A \in SUBSET B /\ f \in B /\ f \notin A /\ B \in SUBSET S
  <2>1. ASSUME NEW h \in A PROVE h \in B
    <3>1. h \in S /\ h < f /\ h \in Nat
      BY <1>1
    <3>2. h < g
      BY <1>1, <3>1
    <3>3. QED
      BY <3>1, <3>2
  <2>2. f \in B /\ f \notin A /\ B \in SUBSET S
    BY <1>1
  <2>3. QED
    BY <2>1, <2>2
<1> HIDE DEF A, B
<1>3. IsFiniteSet(B) /\ Cardinality(B) \in Nat
  BY <1>2, FS_Subset, FS_CardinalityType
<1>4. IsFiniteSet(A) /\ Cardinality(A) \in Nat
  BY <1>2, <1>3, FS_Subset, FS_CardinalityType
<1>5. Cardinality(A) <= Cardinality(B) /\ Cardinality(A) # Cardinality(B)
  BY <1>2, <1>3, FS_Subset
<1>6. Cardinality(A) < Cardinality(B)
  BY <1>3, <1>4, <1>5
<1>7. QED
  BY <1>3, <1>4, <1>6 DEF RankIn, A, B

LEMMA RankOfOne ==
    ASSUME NEW S \in SUBSET Nat, IsFiniteSet(S), NEW f \in S
    PROVE  /\ RankIn(S, f) \in 0..(Cardinality(S) - 1)
           /\ \A g \in S : RankIn(S, g) = RankIn(S, f) => g = f
<1> DEFINE A == {h \in S : h < f}
<1>1. f \in Nat /\ f \notin A /\ A \in SUBSET S
  OBVIOUS
<1> HIDE DEF A
<1>2. /\ IsFiniteSet(A) /\ Cardinality(A) \in Nat /\ Cardinality(S) \in Nat
      /\ Cardinality(A) <= Cardinality(S) /\ Cardinality(A) # Cardinality(S)
  BY <1>1, FS_Subset, FS_CardinalityType
<1>3. RankIn(S, f) \in 0..(Cardinality(S) - 1)
  BY <1>2 DEF RankIn, A
<1>4. ASSUME NEW g \in S, RankIn(S, g) = RankIn(S, f) PROVE g = f
  <2>1. g \in Nat
    OBVIOUS
  <2>2. ~(f < g)
    BY <1>4, RankGrows
  <2>3. ~(g < f)
    BY <1>4, RankGrows
  <2>4. QED
    BY <1>1, <2>1, <2>2, <2>3
<1>5. QED
  BY <1>3, <1>4

LEMMA RankTaken ==
    ASSUME NEW S \in SUBSET Nat, IsFiniteSet(S), NEW k \in 0..(Cardinality(S) - 1)
    PROVE  \E f \in S : RankIn(S, f) = k
<1> DEFINE K == {j \in Nat : j < Cardinality(S) => \E f \in S : RankIn(S, f) = j}
<1>1. Cardinality(S) \in Nat
  BY FS_CardinalityType
<1>2. 0 \in K
  <2>1. SUFFICES ASSUME 0 < Cardinality(S) PROVE \E f \in S : RankIn(S, f) = 0
    OBVIOUS
  <2>2. S # {}
    BY <2>1, FS_EmptySet
  <2>3. PICK f \in S : \A g \in S : f <= g
    BY <2>2, LeastNat
  <2>4. {g \in S : g < f} = {}
    <3>1. ASSUME NEW g \in S PROVE ~(g < f)
      <4>1. f \in Nat /\ g \in Nat /\ f <= g
        BY <2>3
      <4>2. QED
        BY <4>1
    <3>2. QED
      BY <3>1
  <2>5. QED
    BY <2>4, FS_EmptySet DEF RankIn
<1>3. ASSUME NEW j \in Nat, j \in K PROVE j + 1 \in K
  <2>1. SUFFICES ASSUME j + 1 < Cardinality(S) PROVE \E f \in S : RankIn(S, f) = j + 1
    OBVIOUS
  <2>2. PICK f \in S : RankIn(S, f) = j
    BY <1>1, <1>3, <2>1
  <2> DEFINE A == {g \in S : g < f}
             T == {g \in S : f < g}
  <2>3. f \in Nat /\ f \notin A /\ A \in SUBSET S /\ Cardinality(A) = j
    BY <2>2 DEF RankIn
  <2>4. S = A \cup {f} \cup T /\ T \in SUBSET Nat
    <3>1. ASSUME NEW g \in S PROVE g < f \/ g = f \/ f < g
      <4>1. f \in Nat /\ g \in Nat
        OBVIOUS
      <4>2. QED
        BY <4>1
    <3>2. QED
      BY <3>1
  <2>5. \A g \in T : g \in S /\ f < g
    OBVIOUS
  <2>6. /\ IsFiniteSet(A \cup {f}) /\ Cardinality(A \cup {f}) = j + 1
    <3> HIDE DEF A
    <3>1. IsFiniteSet(A)
      BY <2>3, FS_Subset
    <3>2. QED
      BY <2>3, <3>1, FS_AddElement
  <2>7. T # {}
    <3> HIDE DEF A, T
    <3>1. SUFFICES ASSUME T = {} PROVE FALSE
      OBVIOUS
    <3>2. S = A \cup {f}
      BY <2>4, <3>1
    <3>3. QED
      BY <1>1, <2>1, <2>6, <3>2
  <2>8. PICK h \in T : \A g \in T : h <= g
    BY <2>4, <2>7, LeastNat
  <2>9. {g \in S : g < h} = A \cup {f}
    <3>1. h \in Nat /\ f < h /\ h \in S
      BY <2>5, <2>8
    <3>2. ASSUME NEW g \in S, g < h PROVE g \in A \cup {f}
      <4>1. g \in Nat
        OBVIOUS
      <4>2. g \notin T
        BY <2>8, <3>1, <3>2, <4>1
      <4>3. QED
        BY <2>4, <4>2
    <3>3. ASSUME NEW g \in A \cup {f} PROVE g \in S /\ g < h
      BY <2>3, <3>1
    <3>4. QED
      BY <3>2, <3>3
  <2>10. h \in S
    BY <2>5, <2>8
  <2>11. RankIn(S, h) = j + 1
    BY <2>6, <2>9 DEF RankIn
  <2>12. QED
    BY <2>10, <2>11
<1> HIDE DEF K
<1>4. Nat \subseteq K
  BY <1>2, <1>3, SetInduction
<1>5. QED
  BY <1>1, <1>4 DEF K

\* Nth counts S from 0 on.
LEMMA NthFacts ==
    ASSUME NEW S \in SUBSET Nat, IsFiniteSet(S), NEW n, n = Cardinality(S)
    PROVE  /\ n \in Nat
           /\ \A k \in 0..(n - 1) : Nth(S, k) \in S
           /\ \A j, k \in 0..(n - 1) : Nth(S, j) = Nth(S, k) => j = k
           /\ \A f \in S : \E k \in 0..(n - 1) : Nth(S, k) = f
<1>1. ASSUME NEW k \in 0..(n - 1) PROVE Nth(S, k) \in S /\ RankIn(S, Nth(S, k)) = k
  <2>1. \E f \in S : RankIn(S, f) = k
    BY <1>1, RankTaken
  <2>2. Nth(S, k) = CHOOSE f \in S : RankIn(S, f) = k
    BY DEF Nth, RankIn
  <2>3. QED
    BY <2>1, <2>2
<1>2. ASSUME NEW f \in S PROVE \E k \in 0..(n - 1) : Nth(S, k) = f
  <2>1. RankIn(S, f) \in 0..(n - 1)
    BY RankOfOne
  <2>2. Nth(S, RankIn(S, f)) \in S /\ RankIn(S, Nth(S, RankIn(S, f))) = RankIn(S, f)
    BY <1>1, <2>1
  <2>3. \A g \in S : RankIn(S, g) = RankIn(S, f) => g = f
    BY RankOfOne
  <2>4. Nth(S, RankIn(S, f)) = f
    BY <2>2, <2>3
  <2>5. QED
    BY <2>1, <2>4
<1>3. n \in Nat
  BY FS_CardinalityType
<1>4. \A j, k \in 0..(n - 1) : Nth(S, j) = Nth(S, k) => j = k
  BY <1>1
<1>5. QED
  BY <1>1, <1>2, <1>3, <1>4

\* There are k least elements.
LEMMA LeastOfMany ==
    ASSUME NEW S \in SUBSET Nat, IsFiniteSet(S), NEW k \in Nat, k <= Cardinality(S)
    PROVE  LeastOf(S, k) \subseteq S /\ Cardinality(LeastOf(S, k)) = k
<1> DEFINE K == {j \in Nat : j <= Cardinality(S) => Cardinality(LeastOf(S, j)) = j}
           R(f) == RankIn(S, f)
<1>1. Cardinality(S) \in Nat
  BY FS_CardinalityType
<1>2. \A j : LeastOf(S, j) = {f \in S : R(f) < j}
  BY DEF LeastOf, RankIn
<1>3. \A f \in S : R(f) \in Nat
  BY RankOfOne
<1>4. 0 \in K
  <2>1. LeastOf(S, 0) = {}
    <3>1. \A f \in S : ~(R(f) < 0)
      BY <1>3
    <3>2. QED
      BY <1>2, <3>1
  <2>2. QED
    BY <2>1, FS_EmptySet
<1>5. ASSUME NEW j \in Nat, j \in K PROVE j + 1 \in K
  <2>1. SUFFICES ASSUME j + 1 <= Cardinality(S) PROVE Cardinality(LeastOf(S, j + 1)) = j + 1
    OBVIOUS
  <2>2. Cardinality(LeastOf(S, j)) = j
    BY <1>1, <1>5, <2>1
  <2>3. PICK f \in S : R(f) = j
    <3>1. j \in 0..(Cardinality(S) - 1)
      BY <1>1, <2>1
    <3>2. QED
      BY <3>1, RankTaken
  <2>4. \A g \in S : R(g) = R(f) => g = f
    BY RankOfOne
  <2> HIDE DEF R
  <2>5. LeastOf(S, j + 1) = LeastOf(S, j) \cup {f}
    <3>1. \A g \in S : R(g) < j + 1 <=> R(g) < j \/ R(g) = j
      BY <1>3
    <3>2. \A g \in S : R(g) < j + 1 <=> R(g) < j \/ g = f
      BY <2>3, <2>4, <3>1
    <3>3. QED
      BY <1>2, <3>2
  <2>6. f \notin LeastOf(S, j)
    BY <1>2, <2>3
  <2>7. LeastOf(S, j) \in SUBSET S
    BY <1>2
  <2>8. IsFiniteSet(LeastOf(S, j))
    BY <2>7, FS_Subset
  <2>9. QED
    BY <2>2, <2>5, <2>6, <2>8, FS_AddElement
<1> HIDE DEF K
<1>6. Nat \subseteq K
  BY <1>4, <1>5, SetInduction
<1>7. QED
  BY <1>2, <1>6 DEF K

\* A set of one or two elements.
LEMMA OneOrTwo ==
    ASSUME NEW S, IsFiniteSet(S), NEW f \in S, NEW g \in S
    PROVE  /\ Cardinality(S) = 1 => S = {f} /\ g = f
           /\ Cardinality(S) = 2 /\ f # g => S = {f, g}
<1>1. ASSUME Cardinality(S) = 1 PROVE S = {f} /\ g = f
  <2>1. PICK x : S = {x}
    BY <1>1, FS_Singleton
  <2>2. QED
    BY <2>1
<1>2. ASSUME Cardinality(S) = 2, f # g PROVE S = {f, g}
  <2>1. IsFiniteSet(S \ {f}) /\ Cardinality(S \ {f}) = 1
    BY <1>2, FS_RemoveElement
  <2>2. PICK x : S \ {f} = {x}
    BY <2>1, FS_Singleton
  <2>3. QED
    BY <1>2, <2>2
<1>3. QED
  BY <1>1, <1>2

-----------------------------------------------------------------------------
(* The inductive invariant.                                                *)

\* A, B, C and what each thread has make up W, without overlap.
Split(A, B, C, own, W) ==
    /\ A \cup B \cup C \cup UNION {own[t] : t \in Thread} = W
    /\ A \cap B = {} /\ A \cap C = {} /\ B \cap C = {}
    /\ \A t \in Thread : own[t] \cap (A \cup B \cup C) = {}
    /\ \A t, u \in Thread : t # u => own[t] \cap own[u] = {}

KernelPages == (SetupBegin..(SetupEnd - 1)) \cup (AllocEnd..(Top - 1))

\* The pages and the frames that each thread has.
Own == [t \in Thread |-> IF t \in Inside THEN Pages(mine[t]) ELSE {}]
Held == [t \in Thread |-> mine[t].frames]

OneToOne(f, S) == \A x, y \in S : f[x] = f[y] => x = y

Step == {"client", "virt", "map", "undo frames", "unmap", "free virt", "free frames"}
CallType == [page : Nat, n : Nat, frames : SUBSET Frame, i : Nat]
BlockType == [page : Nat, n : Nat \ {0}]

\* What a thread has in its call, by where it is in it.
CallOK(t) ==
    /\ pc[t] = "client" => mine[t] = Nothing
    /\ mine[t].page # 0 => mine[t].n > 0
    /\ pc[t] \in {"map", "unmap", "free virt", "free frames"} => mine[t].page # 0
    /\ pc[t] \in {"virt", "undo frames"} => mine[t].page = 0
    /\ pc[t] = "virt" => mine[t].n > 0 /\ mine[t].i = 0
    /\ pc[t] \in {"virt", "map"} => Cardinality(mine[t].frames) = mine[t].n
    /\ pc[t] \in {"map", "unmap"} => mine[t].i < mine[t].n
    /\ pc[t] = "map" => \A j \in 0..(mine[t].i - 1) :
                           map[mine[t].page + j] = Nth(mine[t].frames, j)

CallsOK ==
    /\ pc \in [Thread -> Step] /\ mine \in [Thread -> CallType]
    /\ \A t \in Thread : CallOK(t)

PagesSplit ==
    /\ blocks \in SUBSET BlockType
    /\ \A b, c \in blocks : b # c => Pages(b) \cap Pages(c) = {}
    /\ Split(FreePages(virt), frPages, BlockPages, Own, KernelPages)

FramesSplit ==
    /\ DOMAIN map = Page
    /\ OneToOne(map, LivePages)
    /\ OneToOne(tables, {i \in DOMAIN tables : tables[i] # EARLY})
    /\ Split(free, LiveFrames, TableFrames, Held, Frame)

RegionsOK ==
    /\ VirtOK(virt)
    /\ frPages \in SUBSET Nat /\ IsFiniteSet(frPages) /\ AllocEnd \in frPages
    /\ virt.spare + Len(virt.byAddr) = RegionsPerFrame * Cardinality(frPages)
    /\ stopped # "misuse"

PagesInv == RegionsOK /\ (stopped = "no" => CallsOK /\ PagesSplit /\ FramesSplit)

\* Only t takes a step, and only pages of t are mapped anew.
StepOf(t) ==
    /\ \A u \in Thread \ {t} : mine'[u] = mine[u] /\ pc'[u] = pc[u]
    /\ pc' \in [Thread -> Step] /\ mine' \in [Thread -> CallType]
    /\ DOMAIN map' = Page
    /\ \A p \in Page \ Own[t] : map'[p] = map[p]

LEMMA Moved ==
    ASSUME NEW A, NEW B, NEW C, NEW own, NEW W, Split(A, B, C, own, W), NEW t \in Thread,
           NEW D, NEW E, NEW F, NEW owned,
           \A u \in Thread \ {t} : owned[u] = own[u],
           D \cup E \cup F \cup owned[t] = A \cup B \cup C \cup own[t],
           D \cap E = {}, D \cap F = {}, E \cap F = {}, owned[t] \cap (D \cup E \cup F) = {}
    PROVE  Split(D, E, F, owned, W)
<1>1. /\ A \cup B \cup C \cup UNION {own[u] : u \in Thread} = W
      /\ \A u \in Thread : own[u] \cap (A \cup B \cup C) = {}
      /\ \A u, w \in Thread : u # w => own[u] \cap own[w] = {}
  BY DEF Split
<1>2. ASSUME NEW u \in Thread, u # t
      PROVE  owned[u] \cap (D \cup E \cup F \cup owned[t]) = {}
  <2>1. owned[u] = own[u] /\ own[u] \cap (A \cup B \cup C) = {} /\ own[u] \cap own[t] = {}
    BY <1>1, <1>2
  <2>2. QED
    BY <2>1
<1>3. \A u \in Thread : owned[u] \cap (D \cup E \cup F) = {}
  BY <1>2
<1>4. ASSUME NEW u \in Thread, NEW w \in Thread, u # w PROVE owned[u] \cap owned[w] = {}
  <2>1. CASE u = t
    BY <1>2, <1>4, <2>1
  <2>2. CASE w = t
    BY <1>2, <1>4, <2>2
  <2>3. CASE u # t /\ w # t
    BY <1>1, <1>4, <2>3
  <2>4. QED
    BY <2>1, <2>2, <2>3
<1>5. D \cup E \cup F \cup UNION {owned[u] : u \in Thread} = W
  <2>1. ASSUME NEW x
        PROVE  x \in W <=> x \in A \cup B \cup C \cup own[t]
                             \/ \E u \in Thread \ {t} : x \in own[u]
    BY <1>1
  <2>2. ASSUME NEW x \in W PROVE x \in D \cup E \cup F \cup UNION {owned[u] : u \in Thread}
    BY <2>1
  <2>3. ASSUME NEW x \in D \cup E \cup F \cup UNION {owned[u] : u \in Thread} PROVE x \in W
    <3>1. CASE x \in D \cup E \cup F \cup owned[t]
      BY <2>1, <3>1
    <3>2. CASE \E u \in Thread \ {t} : x \in owned[u]
      BY <2>1, <3>2
    <3>3. QED
      BY <3>1, <3>2
  <2>4. QED
    BY <2>2, <2>3
<1>6. QED
  BY <1>3, <1>4, <1>5 DEF Split

\* What f gives for L and g for the same, for more or for one less.
Image(f, S) == {f[x] : x \in S}
Agree(f, g, S) == \A x \in S : g[x] = f[x]

LEMMA ImageKept ==
    ASSUME NEW f, NEW g, NEW L, OneToOne(f, L), Agree(f, g, L)
    PROVE  OneToOne(g, L) /\ Image(g, L) = Image(f, L)
  BY DEF OneToOne, Agree, Image

LEMMA ImageMore ==
    ASSUME NEW f, NEW g, NEW L, NEW P, OneToOne(f, L), Agree(f, g, L),
           OneToOne(g, P), Image(g, P) \cap Image(f, L) = {}, NEW M, M = L \cup P
    PROVE  OneToOne(g, M) /\ Image(g, M) = Image(f, L) \cup Image(g, P)
<1>1. ASSUME NEW x \in M, NEW y \in M, g[x] = g[y] PROVE x = y
  <2>1. CASE x \in L /\ y \in L
    BY <1>1, <2>1 DEF OneToOne, Agree
  <2>2. CASE x \in P /\ y \in P
    BY <1>1, <2>2 DEF OneToOne
  <2>3. CASE x \in L /\ y \in P
    <3>1. g[y] \in Image(g, P) /\ f[x] \in Image(f, L) /\ g[x] = f[x]
      BY <2>3 DEF Agree, Image
    <3>2. QED
      BY <1>1, <3>1
  <2>4. CASE x \in P /\ y \in L
    <3>1. g[x] \in Image(g, P) /\ f[y] \in Image(f, L) /\ g[y] = f[y]
      BY <2>4 DEF Agree, Image
    <3>2. QED
      BY <1>1, <3>1
  <2>5. QED
    BY <2>1, <2>2, <2>3, <2>4
<1>2. Image(g, M) = Image(f, L) \cup Image(g, P)
  BY DEF Agree, Image
<1>3. QED
  BY <1>1, <1>2 DEF OneToOne

LEMMA ImageLess ==
    ASSUME NEW f, NEW g, NEW L, NEW y, y \in L, OneToOne(f, L),
           NEW M, M = L \ {y}, Agree(f, g, M)
    PROVE  OneToOne(g, M) /\ Image(g, M) = Image(f, L) \ {f[y]}
<1>1. OneToOne(g, M)
  BY DEF OneToOne, Agree
<1>2. ASSUME NEW z \in Image(g, M) PROVE z \in Image(f, L) \ {f[y]}
  BY DEF OneToOne, Agree, Image
<1>3. ASSUME NEW z \in Image(f, L) \ {f[y]} PROVE z \in Image(g, M)
  BY DEF Agree, Image
<1>4. QED
  BY <1>1, <1>2, <1>3

LEMMA TableAdded ==
    ASSUME NEW i, i \notin DOMAIN tables, NEW f \in Frame, f \notin TableFrames,
           OneToOne(tables, {j \in DOMAIN tables : tables[j] # EARLY}),
           tables' = WithTable(i, f)
    PROVE  /\ OneToOne(tables', {j \in DOMAIN tables' : tables'[j] # EARLY})
           /\ TableFrames' = TableFrames \cup {f}
<1> DEFINE L == {j \in DOMAIN tables : tables[j] # EARLY}
           T == tables'
<1>1. f # EARLY
  BY GlobalPagesAssumption
<1>2. /\ DOMAIN T = {i} \cup DOMAIN tables /\ T[i] = f
      /\ \A j \in DOMAIN tables : T[j] = tables[j]
  BY DEF WithTable
<1>3. TableFrames' = {T[j] : j \in DOMAIN T} \ {EARLY}
  BY DEF TableFrames
<1> HIDE DEF T
<1>4. {j \in DOMAIN T : T[j] # EARLY} = L \cup {i}
  BY <1>1, <1>2
<1>5. Agree(tables, T, L)
  BY <1>2 DEF Agree
<1>6. TableFrames = Image(tables, L)
  BY DEF TableFrames, Image
<1>7. OneToOne(T, {i}) /\ Image(T, {i}) = {f}
  BY <1>2 DEF OneToOne, Image
<1> DEFINE P == {i}
<1> HIDE DEF L, P
<1>8. Image(T, P) \cap Image(tables, L) = {}
  BY <1>6, <1>7 DEF P
<1> DEFINE M == {j \in DOMAIN T : T[j] # EARLY}
<1>9. OneToOne(T, M) /\ Image(T, M) = Image(tables, L) \cup {f}
  <2>1. OneToOne(tables, L) /\ OneToOne(T, P) /\ Image(T, P) = {f} /\ M = L \cup P
    BY <1>4, <1>7 DEF L, P
  <2> HIDE DEF M
  <2>2. QED
    BY <1>5, <1>8, <2>1, ImageMore
<1>10. TableFrames' = Image(T, M)
  <2>1. {T[j] : j \in DOMAIN T} \ {EARLY} = Image(T, M)
    BY DEF Image
  <2>2. QED
    BY <1>3, <2>1
<1>11. QED
  BY <1>6, <1>9, <1>10 DEF T

LEMMA KernelPagesArePages == KernelPages \subseteq Page
<1>1. /\ SetupBegin \in Nat /\ SetupEnd \in Nat /\ AllocEnd \in Nat /\ Top \in Nat
      /\ SetupBegin < SetupEnd /\ SetupEnd < AllocEnd /\ AllocEnd < Top
  BY GlobalPagesAssumption
<1>2. QED
  BY <1>1 DEF KernelPages, Page

LEMMA OwnIs ==
    ASSUME NEW t \in Thread
    PROVE  /\ Held[t] = mine[t].frames
           /\ mine[t].page # 0 /\ pc[t] # "free frames" => Own[t] = Pages(mine[t])
           /\ mine[t].page = 0 \/ pc[t] = "free frames" => Own[t] = {}
  BY DEF Own, Held, Inside

\* The same after a step.
LEMMA OwnIsThen ==
    ASSUME NEW t \in Thread
    PROVE  /\ Held'[t] = mine'[t].frames
           /\ mine'[t].page # 0 /\ pc'[t] # "free frames" => Own'[t] = Pages(mine'[t])
           /\ mine'[t].page = 0 \/ pc'[t] = "free frames" => Own'[t] = {}
  BY DEF Own, Held, Inside, Pages

LEMMA ToUnmapOwn ==
    ASSUME CallsOK, NEW t \in Thread
    PROVE  ToUnmap(t) \subseteq Own[t]
<1>1. SUFFICES ASSUME pc[t] = "unmap" PROVE ToUnmap(t) \subseteq Own[t]
  BY DEF ToUnmap
<1>2. mine[t].page # 0 /\ mine[t] \in CallType
  BY <1>1 DEF CallsOK, CallOK
<1>3. Own[t] = Pages(mine[t])
  BY <1>1, <1>2, OwnIs
<1>4. mine[t].page \in Nat /\ mine[t].n \in Nat /\ mine[t].i \in Nat
  BY <1>2 DEF CallType
<1>5. QED
  BY <1>1, <1>3, <1>4 DEF ToUnmap, Pages

\* Live pages are none that a thread has but those it has yet to unmap.
LEMMA LiveOwn ==
    ASSUME CallsOK, PagesSplit, NEW t \in Thread
    PROVE  LivePages \subseteq Page /\ LivePages \cap Own[t] = ToUnmap(t)
<1>1. /\ FreePages(virt) \cup frPages \cup BlockPages \cup UNION {Own[u] : u \in Thread}
           = KernelPages
      /\ \A u \in Thread : Own[u] \cap (FreePages(virt) \cup frPages \cup BlockPages) = {}
      /\ \A u, w \in Thread : u # w => Own[u] \cap Own[w] = {}
  BY DEF PagesSplit, Split
<1>2. \A u \in Thread : ToUnmap(u) \subseteq Own[u]
  BY ToUnmapOwn
<1>3. LivePages = (frPages \ {AllocEnd}) \cup BlockPages \cup UNION {ToUnmap(u) : u \in Thread}
  BY DEF LivePages
<1>4. LivePages \subseteq KernelPages
  BY <1>1, <1>2, <1>3
<1>5. ASSUME NEW p \in LivePages, p \in Own[t] PROVE p \in ToUnmap(t)
  <2>1. p \notin frPages /\ p \notin BlockPages
    BY <1>1, <1>5
  <2>2. PICK u \in Thread : p \in ToUnmap(u)
    BY <1>3, <1>5, <2>1
  <2>3. p \in Own[u]
    BY <1>2, <2>2
  <2>4. u = t
    BY <1>1, <1>5, <2>3
  <2>5. QED
    BY <2>2, <2>4
<1>6. ToUnmap(t) \subseteq LivePages \cap Own[t]
  BY <1>2, <1>3
<1>7. QED
  BY <1>4, <1>5, <1>6, KernelPagesArePages

LEMMA OthersSame ==
    ASSUME NEW t \in Thread, StepOf(t), NEW u \in Thread \ {t}
    PROVE  /\ mine'[u] = mine[u] /\ pc'[u] = pc[u]
           /\ Own'[u] = Own[u] /\ Held'[u] = Held[u] /\ ToUnmap(u)' = ToUnmap(u)
<1>1. mine'[u] = mine[u] /\ pc'[u] = pc[u]
  BY DEF StepOf
<1>2. ToUnmap(u)' = ToUnmap(u)
  BY <1>1 DEF ToUnmap
<1>3. Held'[u] = Held[u]
  BY <1>1 DEF Held
<1>4. Own'[u] = Own[u]
  BY <1>1 DEF Own, Inside, Pages
<1>5. QED
  BY <1>1, <1>2, <1>3, <1>4

LEMMA CallsKept ==
    ASSUME CallsOK, PagesSplit, NEW t \in Thread, StepOf(t), CallOK(t)'
    PROVE  CallsOK'
<1>1. ASSUME NEW u \in Thread, u # t PROVE CallOK(u)'
  <2>1. CallOK(u) /\ mine[u] \in CallType
    BY DEF CallsOK
  <2>2. mine'[u] = mine[u] /\ pc'[u] = pc[u]
    BY <1>1 DEF StepOf
  <2> DEFINE m == mine[u]
             c == pc[u]
  <2>3. ASSUME c = "map", NEW j \in 0..(m.i - 1) PROVE map'[m.page + j] = Nth(m.frames, j)
    <3>1. m.page # 0 /\ m.i < m.n
      BY <2>1, <2>3 DEF CallOK
    <3>2. m.page \in Nat /\ m.n \in Nat /\ m.i \in Nat
      BY <2>1 DEF CallType
    <3>3. m.page + j \in Pages(m)
      BY <3>1, <3>2 DEF Pages
    <3>4. m.page + j \in Own[u]
      BY <2>3, <3>1, <3>3, OwnIs
    <3>5. m.page + j \in Page /\ m.page + j \notin Own[t]
      <4>1. Own[u] \cap Own[t] = {} /\ Own[u] \subseteq KernelPages
        BY <1>1 DEF PagesSplit, Split
      <4>2. QED
        BY <3>4, <4>1, KernelPagesArePages
    <3>6. map'[m.page + j] = map[m.page + j]
      BY <3>5 DEF StepOf
    <3>7. map[m.page + j] = Nth(m.frames, j)
      BY <2>1, <2>3 DEF CallOK
    <3>8. QED
      BY <3>6, <3>7
  <2>4. pc'[u] = "map" => \A j \in 0..(mine'[u].i - 1) :
           map'[mine'[u].page + j] = Nth(mine'[u].frames, j)
    BY <2>2, <2>3
  <2>5. QED
    BY <2>1, <2>2, <2>4 DEF CallOK
<1>2. QED
  BY <1>1 DEF CallsOK, StepOf

\* The live pages before and after a step of t.
Rest(t) == UNION {ToUnmap(u) : u \in Thread \ {t}}

LEMMA LiveIs ==
    ASSUME NEW t \in Thread, StepOf(t)
    PROVE  /\ LivePages = (frPages \ {AllocEnd}) \cup BlockPages \cup ToUnmap(t) \cup Rest(t)
           /\ LivePages' = (frPages' \ {AllocEnd}) \cup BlockPages' \cup ToUnmap(t)'
                             \cup Rest(t)
<1>1. UNION {ToUnmap(u) : u \in Thread} = ToUnmap(t) \cup Rest(t)
  BY DEF Rest
<1>2. (UNION {ToUnmap(u) : u \in Thread})' = ToUnmap(t)' \cup Rest(t)
  <2>1. \A u \in Thread \ {t} : ToUnmap(u)' = ToUnmap(u)
    BY OthersSame
  <2>2. (UNION {ToUnmap(u) : u \in Thread})' = UNION {ToUnmap(u)' : u \in Thread}
    OBVIOUS
  <2>3. QED
    BY <2>1, <2>2 DEF Rest
<1>3. QED
  BY <1>1, <1>2 DEF LivePages

\* The frames of live pages when these stay and are not mapped anew.
LEMMA LiveKept ==
    ASSUME CallsOK, PagesSplit, FramesSplit, NEW t \in Thread, StepOf(t),
           frPages' = frPages, BlockPages' \cup ToUnmap(t)' = BlockPages \cup ToUnmap(t),
           \A p \in ToUnmap(t) : map'[p] = map[p]
    PROVE  /\ LivePages' = LivePages /\ LiveFrames' = LiveFrames
           /\ OneToOne(map', LivePages')
<1>1. LivePages' = LivePages
  BY LiveIs
<1>2. ASSUME NEW p \in LivePages PROVE map'[p] = map[p]
  BY LiveOwn DEF StepOf
<1>3. OneToOne(map, LivePages)
  BY DEF FramesSplit
<1> DEFINE L == LivePages
           f == map
           g == map'
<1>4. OneToOne(f, L) /\ Agree(f, g, L)
  BY <1>2, <1>3 DEF Agree
<1>5. LiveFrames = Image(f, L) /\ LiveFrames' = Image(g, L)
  BY <1>1 DEF LiveFrames, Image
<1> HIDE DEF L, f, g
<1>6. OneToOne(g, L) /\ Image(g, L) = Image(f, L)
  BY <1>4, ImageKept
<1>7. QED
  BY <1>1, <1>5, <1>6 DEF L, g

\* What stays as it is.
LEMMA RegionsKept ==
    ASSUME RegionsOK, UNCHANGED <<virt, frPages>>, stopped' # "misuse"
    PROVE  RegionsOK'
<1>1. virt' = virt /\ frPages' = frPages
  OBVIOUS
<1>2. VirtOK(virt)' <=> VirtOK(virt')
  OBVIOUS
<1>3. QED
  BY <1>1, <1>2 DEF RegionsOK

\* Nothing more is said of pages and frames when a request gets frames that
\* are not free.
LEMMA OverdrawKeeps ==
    ASSUME RegionsOK, NEW n, NEW fl, Overdraw(n, fl), UNCHANGED <<virt, frPages>>
    PROVE  PagesInv'
<1>1. stopped' = "overdrawn"
  BY DEF Overdraw
<1>2. RegionsOK'
  BY <1>1, RegionsKept
<1>3. QED
  BY <1>1, <1>2 DEF PagesInv

LEMMA PagesKept ==
    ASSUME PagesSplit, NEW t \in Thread, StepOf(t),
           UNCHANGED <<virt, frPages, blocks>>, Own'[t] = Own[t]
    PROVE  PagesSplit'
<1>1. BlockPages' = BlockPages
  BY DEF BlockPages, Pages
<1>2. FreePages(virt)' = FreePages(virt)
  BY DEF FreePages, Extent, EndOf
<1>3. \A u \in Thread : Own'[u] = Own[u]
  BY OthersSame
<1>4. Split(FreePages(virt), frPages, BlockPages, Own', KernelPages)
  BY <1>3, Moved DEF PagesSplit, Split
<1>5. Split(FreePages(virt), frPages, BlockPages, Own, KernelPages)'
  <2>1. frPages' = frPages
    OBVIOUS
  <2>2. QED
    BY <1>1, <1>2, <1>4, <2>1 DEF Split, KernelPages
<1>6. (\A b, c \in blocks : b # c => Pages(b) \cap Pages(c) = {})'
  BY DEF PagesSplit, Pages
<1>7. (blocks \in SUBSET BlockType)'
  BY DEF PagesSplit, BlockType
<1>8. QED
  BY <1>5, <1>6, <1>7 DEF PagesSplit

\* Frames go between t and the free ones.
LEMMA FramesKept ==
    ASSUME CallsOK, PagesSplit, FramesSplit, NEW t \in Thread, StepOf(t), tables' = tables,
           frPages' = frPages, BlockPages' \cup ToUnmap(t)' = BlockPages \cup ToUnmap(t),
           \A p \in ToUnmap(t) : map'[p] = map[p],
           free' \cup Held'[t] = free \cup Held[t], free' \cap Held'[t] = {}
    PROVE  FramesSplit'
<1>1. LivePages' = LivePages /\ LiveFrames' = LiveFrames /\ OneToOne(map', LivePages')
  BY LiveKept
<1>2. TableFrames' = TableFrames
  BY DEF TableFrames
<1>3. \A u \in Thread \ {t} : Held'[u] = Held[u]
  BY OthersSame
<1>4. Split(free, LiveFrames, TableFrames, Held, Frame)
  BY DEF FramesSplit
<1>5. Split(free', LiveFrames, TableFrames, Held', Frame)
  <2> DEFINE L == LiveFrames
             T == TableFrames
             A == free
             B == free'
             H == Held
             I == Held'
  <2>1. /\ A \cap L = {} /\ A \cap T = {} /\ L \cap T = {}
        /\ H[t] \cap (A \cup L \cup T) = {}
    BY <1>4 DEF Split
  <2>2. B \cup I[t] = A \cup H[t] /\ B \cap I[t] = {}
    OBVIOUS
  <2>3. Split(A, L, T, H, Frame) /\ \A u \in Thread \ {t} : I[u] = H[u]
    BY <1>3, <1>4
  <2> HIDE DEF L, T, A, B, H, I
  <2>4. /\ B \cup L \cup T \cup I[t] = A \cup L \cup T \cup H[t]
        /\ B \cap L = {} /\ B \cap T = {} /\ I[t] \cap (B \cup L \cup T) = {}
    BY <2>1, <2>2
  <2>5. Split(B, L, T, I, Frame)
    BY <2>1, <2>3, <2>4, Moved
  <2>6. QED
    BY <2>5 DEF B, L, T, I
<1>6. Split(free, LiveFrames, TableFrames, Held, Frame)'
  BY <1>1, <1>2, <1>5 DEF Split, Frame
<1>7. OneToOne(tables, {i \in DOMAIN tables : tables[i] # EARLY})'
  BY DEF FramesSplit, OneToOne
<1>8. (DOMAIN map = Page /\ OneToOne(map, LivePages))'
  BY <1>1 DEF StepOf, OneToOne, Page
<1>9. QED
  BY <1>6, <1>7, <1>8 DEF FramesSplit

-----------------------------------------------------------------------------
(* The steps.                                                              *)

PagesRunning == stopped = "no" /\ RegionsOK /\ CallsOK /\ PagesSplit /\ FramesSplit

LEMMA CallFacts ==
    ASSUME PagesRunning, NEW t \in Thread
    PROVE  /\ mine[t] \in CallType /\ CallOK(t) /\ pc[t] \in Step
           /\ mine[t].page \in Nat /\ mine[t].n \in Nat /\ mine[t].i \in Nat
           /\ mine[t].frames \subseteq Frame
  BY DEF PagesRunning, CallsOK, CallType

LEMMA NothingIs ==
    Nothing \in CallType /\ Nothing.page = 0 /\ Nothing.frames = {}
  BY DEF Nothing, CallType

LEMMA NewCall ==
    ASSUME NEW n, NEW F, NEW m, m = [Nothing EXCEPT !.n = n, !.frames = F]
    PROVE  m = [page |-> 0, n |-> n, frames |-> F, i |-> 0]
<1>1. DOMAIN Nothing = {"page", "n", "frames", "i"} /\ Nothing.page = 0 /\ Nothing.i = 0
  BY DEF Nothing
<1>2. QED
  BY <1>1 DEF Nothing

LEMMA AllocFramesKeeps ==
    ASSUME PagesRunning, NEW t \in Thread, NEW n \in 1..MaxPages, NEW fl, AllocFrames(t, n, fl),
           ~Overdraw(n, fl)
    PROVE  PagesInv'
<1>1. PICK k \in 0..n :
        LET S == LeastOf(free \cap Usable(fl), k) IN
        /\ At(t, "client")
        /\ k <= FreeOf(Usable(fl))
        /\ Take(n, fl, S)
        /\ mine' = [mine EXCEPT ![t] = [Nothing EXCEPT !.n = n, !.frames = S]]
        /\ Goto(t, IF k = n THEN "virt" ELSE "undo frames")
        /\ UNCHANGED <<virt, frPages, tables, map, stopped, blocks>>
  BY DEF AllocFrames
<1> DEFINE S == LeastOf(free \cap Usable(fl), k)
           m == [Nothing EXCEPT !.n = n, !.frames = S]
<1>2. n \in Nat /\ n > 0 /\ k \in Nat
  BY GlobalPagesAssumption
<1>3. pc[t] = "client" /\ mine[t] = Nothing
  BY <1>1, CallFacts DEF At, CallOK
<1>4. S \subseteq free /\ free' = free \ S /\ free \subseteq Frame
  <2>1. S \subseteq free
    BY DEF LeastOf
  <2>2. free' = free \ S
    BY <1>1 DEF Take
  <2>3. free \subseteq Frame
    BY DEF PagesRunning, FramesSplit, Split
  <2>4. QED
    BY <2>1, <2>2, <2>3
<1>5. Cardinality(S) = k
  <2> DEFINE F == free \cap Usable(fl)
  <2>1. F \in SUBSET Frame /\ Frame \in SUBSET Nat /\ IsFiniteSet(Frame)
    BY <1>4, FramePoolAssumption, GlobalPagesAssumption DEF Frame
  <2>2. F \in SUBSET Nat /\ IsFiniteSet(F)
    BY <2>1, FS_Subset
  <2>3. k <= Cardinality(F)
    BY <1>1 DEF FreeOf
  <2> HIDE DEF F
  <2>4. Cardinality(LeastOf(F, k)) = k
    BY <1>2, <2>2, <2>3, LeastOfMany
  <2>5. QED
    BY <2>4 DEF F
<1> HIDE DEF S
<1>6. m = [page |-> 0, n |-> n, frames |-> S, i |-> 0]
  BY NewCall
<1> HIDE DEF m
<1>7. m \in CallType /\ m.page = 0 /\ m.n = n /\ m.frames = S /\ m.i = 0
  BY <1>2, <1>4, <1>6 DEF CallType
<1>8. /\ mine' = [mine EXCEPT ![t] = m]
      /\ pc' = [pc EXCEPT ![t] = IF k = n THEN "virt" ELSE "undo frames"]
      /\ virt' = virt /\ frPages' = frPages /\ tables' = tables /\ map' = map
      /\ stopped' = stopped /\ blocks' = blocks
  BY <1>1 DEF Goto, S, m
<1>9. pc \in [Thread -> Step] /\ mine \in [Thread -> CallType] /\ DOMAIN map = Page
  BY DEF PagesRunning, CallsOK, FramesSplit
<1>10. mine'[t] = m /\ pc'[t] = (IF k = n THEN "virt" ELSE "undo frames")
  BY <1>8, <1>9
<1>11. StepOf(t)
  BY <1>7, <1>8, <1>9 DEF StepOf, Step
<1>12. CallOK(t)'
  <2>1. m # Nothing \/ TRUE
    OBVIOUS
  <2>2. pc'[t] = "virt" => Cardinality(m.frames) = m.n
    BY <1>5, <1>7, <1>10
  <2>3. QED
    BY <1>2, <1>7, <1>10, <2>2 DEF CallOK
<1>13. CallsOK'
  BY <1>11, <1>12, CallsKept DEF PagesRunning
<1>14. Own[t] = {} /\ Own'[t] = {} /\ Held[t] = {} /\ Held'[t] = S
  <2>1. mine[t].page = 0 /\ mine[t].frames = {} /\ mine'[t].page = 0
    BY <1>3, <1>7, <1>10, NothingIs
  <2>2. QED
    BY <1>7, <1>10, <2>1, OwnIs, OwnIsThen
<1>15. PagesSplit'
  BY <1>8, <1>11, <1>14, PagesKept DEF PagesRunning
<1>16. FramesSplit'
  <2>1. ToUnmap(t) = {} /\ ToUnmap(t)' = {}
    BY <1>3, <1>10 DEF ToUnmap
  <2>2. BlockPages' = BlockPages
    BY <1>8 DEF BlockPages, Pages
  <2>3. free' \cup Held'[t] = free \cup Held[t] /\ free' \cap Held'[t] = {}
    BY <1>4, <1>14
  <2>4. QED
    BY <1>8, <1>11, <2>1, <2>2, <2>3, FramesKept DEF PagesRunning
<1>17. RegionsOK'
  BY <1>8, RegionsKept DEF PagesRunning
<1>18. QED
  BY <1>13, <1>15, <1>16, <1>17 DEF PagesInv

LEMMA UndoFramesKeeps ==
    ASSUME PagesRunning, NEW t \in Thread, UndoFrames(t)
    PROVE  PagesInv'
<1> DEFINE m == mine[t]
           S == mine[t].frames
<1>1. /\ pc[t] = "undo frames"
      /\ S \subseteq Frame \ free /\ free' = free \cup S
      /\ virt' = virt /\ frPages' = frPages /\ tables' = tables /\ map' = map
      /\ stopped' = stopped /\ blocks' = blocks
  BY DEF UndoFrames, At, Give
<1>2. /\ pc \in [Thread -> Step] /\ mine \in [Thread -> CallType] /\ DOMAIN map = Page
      /\ m \in CallType /\ CallOK(t)
  BY DEF PagesRunning, CallsOK, FramesSplit
<1>3. /\ mine' = [mine EXCEPT ![t] = Nothing] /\ pc' = [pc EXCEPT ![t] = "client"]
      /\ mine'[t] = Nothing /\ pc'[t] = "client" /\ CallOK(t)' /\ Own'[t] = Own[t]
  <2>1. mine' = [mine EXCEPT ![t] = Nothing] /\ pc' = [pc EXCEPT ![t] = "client"]
    BY DEF UndoFrames, Return, Goto
  <2>2. mine'[t] = Nothing /\ pc'[t] = "client"
    BY <1>2, <2>1
  <2>3. CallOK(t)'
    BY <2>2, NothingIs DEF CallOK
  <2>4. mine[t].page = 0 /\ mine'[t].page = 0
    BY <1>1, <1>2, <2>2, NothingIs DEF CallOK
  <2>5. Own'[t] = Own[t]
    BY <2>4, OwnIs, OwnIsThen
  <2>6. QED
    BY <2>1, <2>2, <2>3, <2>5
<1>4. StepOf(t)
  BY <1>1, <1>2, <1>3, NothingIs DEF StepOf, Step
<1>5. CallsOK'
  BY <1>3, <1>4, CallsKept DEF PagesRunning
<1>6. PagesSplit'
  BY <1>1, <1>3, <1>4, PagesKept DEF PagesRunning
<1>7. FramesSplit'
  <2>1. ToUnmap(t) = {} /\ ToUnmap(t)' = {}
    BY <1>1, <1>3 DEF ToUnmap
  <2>2. BlockPages' = BlockPages
    BY <1>1 DEF BlockPages, Pages
  <2>3. Held[t] = S /\ Held'[t] = {}
    BY <1>3, NothingIs, OwnIs, OwnIsThen
  <2>4. free' \cup Held'[t] = free \cup Held[t] /\ free' \cap Held'[t] = {}
    BY <1>1, <2>3
  <2>5. QED
    BY <1>1, <1>4, <2>1, <2>2, <2>4, FramesKept DEF PagesRunning
<1>8. RegionsOK'
  BY <1>1, RegionsKept DEF PagesRunning
<1>9. QED
  BY <1>5, <1>6, <1>7, <1>8 DEF PagesInv

LEMMA FreeFrameKeeps ==
    ASSUME PagesRunning, NEW t \in Thread, FreeFrame(t)
    PROVE  PagesInv'
<1> DEFINE m == mine[t]
           S == LeastOf(mine[t].frames, 1)
<1>1. /\ pc[t] = "free frames"
      /\ S \subseteq Frame \ free /\ free' = free \cup S
      /\ virt' = virt /\ frPages' = frPages /\ tables' = tables /\ map' = map
      /\ stopped' = stopped /\ blocks' = blocks
  BY DEF FreeFrame, At, Give
<1>2. /\ pc \in [Thread -> Step] /\ mine \in [Thread -> CallType] /\ DOMAIN map = Page
      /\ m \in CallType /\ CallOK(t)
  BY DEF PagesRunning, CallsOK, FramesSplit
<1>3. S \subseteq m.frames /\ m.page # 0
  BY <1>1, <1>2 DEF LeastOf, CallOK
<1> HIDE DEF S
<1>4. /\ mine' = [mine EXCEPT ![t] = mine'[t]] /\ pc' = [pc EXCEPT ![t] = pc'[t]]
      /\ mine'[t] \in CallType /\ mine'[t].frames = m.frames \ S
      /\ CallOK(t)' /\ Own'[t] = {}
      /\ pc'[t] \in {"client", "free frames"}
  <2>1. CASE m.frames = S
    <3>1. mine' = [mine EXCEPT ![t] = Nothing] /\ pc' = [pc EXCEPT ![t] = "client"]
      BY <2>1 DEF FreeFrame, Return, Goto, S
    <3>2. mine'[t] = Nothing /\ pc'[t] = "client"
      BY <1>2, <3>1
    <3>3. CallOK(t)'
      BY <3>2, NothingIs DEF CallOK
    <3>4. Own'[t] = {}
      BY <3>2, NothingIs, OwnIsThen
    <3>5. QED
      BY <2>1, <3>1, <3>2, <3>3, <3>4, NothingIs
  <2>2. CASE m.frames # S
    <3>1. mine' = [mine EXCEPT ![t].frames = @ \ S] /\ pc' = pc
      BY <2>2 DEF FreeFrame, S
    <3>2. mine'[t] = [m EXCEPT !.frames = m.frames \ S]
      BY <1>2, <3>1
    <3> DEFINE c == mine'[t]
    <3>3. c = [page |-> m.page, n |-> m.n, frames |-> m.frames \ S, i |-> m.i]
      <4>0. c = [m EXCEPT !.frames = m.frames \ S]
        BY <3>2
      <4> HIDE DEF c, m
      <4>1. QED
        BY <1>2, <4>0 DEF CallType
    <3>4. c \in CallType /\ c.page = m.page /\ c.n = m.n /\ c.frames = m.frames \ S
      <4> HIDE DEF c
      <4>1. m.page \in Nat /\ m.n \in Nat /\ m.i \in Nat /\ m.frames \subseteq Frame
        BY <1>2 DEF CallType
      <4>2. QED
        BY <3>3, <4>1 DEF CallType
    <3>5. mine' = [mine EXCEPT ![t] = c] /\ pc'[t] = "free frames"
      BY <1>1, <1>2, <3>1, <3>2
    <3>6. CallOK(t)'
      BY <1>1, <1>2, <3>4, <3>5 DEF CallOK
    <3>7. Own'[t] = {}
      BY <3>5, OwnIsThen
    <3>8. pc' = [pc EXCEPT ![t] = pc'[t]]
      BY <1>2, <3>1
    <3>9. QED
      BY <3>4, <3>5, <3>6, <3>7, <3>8
  <2>3. QED
    BY <2>1, <2>2
<1>5. StepOf(t)
  BY <1>1, <1>2, <1>4 DEF StepOf, Step
<1>6. CallsOK'
  BY <1>4, <1>5, CallsKept DEF PagesRunning
<1>7. PagesSplit'
  <2>1. Own[t] = {}
    BY <1>1, OwnIs
  <2>2. QED
    BY <1>1, <1>4, <1>5, <2>1, PagesKept DEF PagesRunning
<1>8. FramesSplit'
  <2>1. ToUnmap(t) = {} /\ ToUnmap(t)' = {}
    BY <1>1, <1>4 DEF ToUnmap
  <2>2. BlockPages' = BlockPages
    BY <1>1 DEF BlockPages, Pages
  <2>3. Held[t] = m.frames /\ Held'[t] = m.frames \ S /\ Held[t] \cap free = {}
    BY <1>4, OwnIs, OwnIsThen DEF PagesRunning, FramesSplit, Split
  <2>4. free' \cup Held'[t] = free \cup Held[t] /\ free' \cap Held'[t] = {}
    BY <1>1, <1>3, <2>3
  <2>5. QED
    BY <1>1, <1>5, <2>1, <2>2, <2>4, FramesKept DEF PagesRunning
<1>9. RegionsOK'
  BY <1>1, RegionsKept DEF PagesRunning
<1>10. QED
  BY <1>6, <1>7, <1>8, <1>9 DEF PagesInv

\* Pages or frames change hands in a step of t.
LEMMA PagesChanged ==
    ASSUME PagesSplit, NEW t \in Thread, StepOf(t), blocks' \in SUBSET BlockType,
           \A b, c \in blocks' : b # c => Pages(b) \cap Pages(c) = {},
           NEW D, D = FreePages(virt'), NEW F, F = BlockPages',
           D \cup frPages' \cup F \cup Own'[t]
             = FreePages(virt) \cup frPages \cup BlockPages \cup Own[t],
           D \cap frPages' = {}, D \cap F = {}, frPages' \cap F = {},
           Own'[t] \cap (D \cup frPages' \cup F) = {}
    PROVE  PagesSplit'
<1> DEFINE A == FreePages(virt)
           B == frPages
           C == BlockPages
           E == frPages'
           O == Own
           P == Own'
<1>1. Split(A, B, C, O, KernelPages) /\ \A u \in Thread \ {t} : P[u] = O[u]
  BY OthersSame DEF PagesSplit
<1>2. /\ D \cup E \cup F \cup P[t] = A \cup B \cup C \cup O[t]
      /\ D \cap E = {} /\ D \cap F = {} /\ E \cap F = {} /\ P[t] \cap (D \cup E \cup F) = {}
  OBVIOUS
<1> HIDE DEF A, B, C, E, O, P
<1>3. Split(D, E, F, P, KernelPages)
  BY <1>1, <1>2, Moved
<1>4. Split(FreePages(virt), frPages, BlockPages, Own, KernelPages)'
  <2>1. FreePages(virt)' = D
    BY DEF FreePages, Extent, EndOf
  <2>2. QED
    BY <1>3, <2>1 DEF Split, KernelPages, E, P
<1>5. (\A b, c \in blocks : b # c => Pages(b) \cap Pages(c) = {})'
  BY DEF Pages
<1>6. (blocks \in SUBSET BlockType)'
  BY DEF BlockType
<1>7. QED
  BY <1>4, <1>5, <1>6 DEF PagesSplit

LEMMA FramesChanged ==
    ASSUME FramesSplit, NEW t \in Thread, StepOf(t),
           OneToOne(map', LivePages'),
           OneToOne(tables', {i \in DOMAIN tables' : tables'[i] # EARLY}),
           free' \cup LiveFrames' \cup TableFrames' \cup Held'[t]
             = free \cup LiveFrames \cup TableFrames \cup Held[t],
           free' \cap LiveFrames' = {}, free' \cap TableFrames' = {},
           LiveFrames' \cap TableFrames' = {},
           Held'[t] \cap (free' \cup LiveFrames' \cup TableFrames') = {}
    PROVE  FramesSplit'
<1> DEFINE A == free
           B == LiveFrames
           C == TableFrames
           D == free'
           E == LiveFrames'
           F == TableFrames'
           O == Held
           P == Held'
<1>1. Split(A, B, C, O, Frame) /\ \A u \in Thread \ {t} : P[u] = O[u]
  BY OthersSame DEF FramesSplit
<1>2. /\ D \cup E \cup F \cup P[t] = A \cup B \cup C \cup O[t]
      /\ D \cap E = {} /\ D \cap F = {} /\ E \cap F = {} /\ P[t] \cap (D \cup E \cup F) = {}
  OBVIOUS
<1> HIDE DEF A, B, C, D, E, F, O, P
<1>3. Split(D, E, F, P, Frame)
  BY <1>1, <1>2, Moved
<1>4. Split(free, LiveFrames, TableFrames, Held, Frame)'
  BY <1>3 DEF Split, Frame, D, E, F, P
<1>5. OneToOne(map, LivePages)' /\ OneToOne(tables, {i \in DOMAIN tables : tables[i] # EARLY})'
  BY DEF OneToOne
<1>6. (DOMAIN map = Page)'
  BY DEF StepOf, Page
<1>7. QED
  BY <1>4, <1>5, <1>6 DEF FramesSplit

LEMMA BlockFacts ==
    ASSUME PagesSplit, NEW b \in blocks
    PROVE  /\ b \in BlockType /\ b.page \in Nat /\ b.n \in Nat /\ b.n > 0 /\ b.page # 0
           /\ Pages(b) \subseteq BlockPages
<1>1. b \in BlockType
  BY DEF PagesSplit
<1>2. b.page \in Nat /\ b.n \in Nat /\ b.n > 0
  BY <1>1 DEF BlockType
<1>3. Pages(b) \subseteq BlockPages /\ BlockPages \subseteq KernelPages
  BY DEF BlockPages, PagesSplit, Split
<1>4. b.page \in Pages(b)
  BY <1>2 DEF Pages
<1>5. b.page \in SetupBegin..(Top - 1)
  BY <1>3, <1>4, KernelPagesArePages DEF Page
<1>6. SetupBegin \in Nat /\ SetupBegin > 0
  BY GlobalPagesAssumption
<1>7. b.page # 0
  BY <1>5, <1>6
<1>8. QED
  BY <1>1, <1>2, <1>3, <1>7

LEMMA FreeBlockKeeps ==
    ASSUME PagesRunning, NEW t \in Thread, FreeBlock(t)
    PROVE  PagesInv'
<1>1. PICK b \in blocks :
        /\ At(t, "client")
        /\ blocks' = blocks \ {b}
        /\ mine' = [mine EXCEPT ![t] = [Nothing EXCEPT !.page = b.page, !.n = b.n]]
        /\ Goto(t, "unmap")
        /\ UNCHANGED memVars
  BY DEF FreeBlock
<1> DEFINE c == [Nothing EXCEPT !.page = b.page, !.n = b.n]
<1>2. PagesSplit
  BY DEF PagesRunning
<1>3. /\ b \in BlockType /\ b.page \in Nat /\ b.n \in Nat /\ b.n > 0 /\ b.page # 0
      /\ Pages(b) \subseteq BlockPages
  BY <1>2, BlockFacts
<1>4. /\ pc[t] = "client" /\ mine[t] = Nothing
      /\ free' = free /\ virt' = virt /\ frPages' = frPages /\ tables' = tables
      /\ map' = map /\ stopped' = stopped
  BY <1>1, CallFacts DEF At, CallOK, memVars
<1>5. c = [page |-> b.page, n |-> b.n, frames |-> {}, i |-> 0]
  <2>1. c = [Nothing EXCEPT !.page = b.page, !.n = b.n]
    OBVIOUS
  <2>2. DOMAIN Nothing = {"page", "n", "frames", "i"} /\ Nothing.frames = {} /\ Nothing.i = 0
    BY DEF Nothing
  <2> HIDE DEF c
  <2>3. QED
    BY <2>1, <2>2 DEF Nothing
<1>6. mine' = [mine EXCEPT ![t] = c] /\ pc' = [pc EXCEPT ![t] = "unmap"]
  BY <1>1 DEF Goto
<1> HIDE DEF c
<1>7. c \in CallType /\ c.page = b.page /\ c.n = b.n /\ c.frames = {} /\ c.i = 0
  BY <1>3, <1>5 DEF CallType
<1>8. pc \in [Thread -> Step] /\ mine \in [Thread -> CallType] /\ DOMAIN map = Page
  BY DEF PagesRunning, CallsOK, FramesSplit
<1>9. mine'[t] = c /\ pc'[t] = "unmap"
  BY <1>6, <1>8
<1>10. StepOf(t)
  BY <1>4, <1>6, <1>7, <1>8 DEF StepOf, Step
<1>11. CallOK(t)'
  BY <1>3, <1>7, <1>9 DEF CallOK
<1>12. CallsOK'
  BY <1>10, <1>11, CallsKept DEF PagesRunning
<1>13. /\ Own[t] = {} /\ Own'[t] = Pages(b) /\ Held[t] = {} /\ Held'[t] = {}
       /\ ToUnmap(t) = {} /\ ToUnmap(t)' = Pages(b)
  <2>1. mine[t].page = 0 /\ mine[t].frames = {}
    BY <1>4, NothingIs
  <2>2. Own[t] = {} /\ Held[t] = {} /\ Held'[t] = {}
    BY <1>7, <1>9, <2>1, OwnIs, OwnIsThen
  <2>3. Own'[t] = Pages(b)
    <3>1. Own'[t] = Pages(c)
      BY <1>3, <1>7, <1>9, OwnIsThen
    <3>2. QED
      BY <1>7, <3>1 DEF Pages
  <2>4. ToUnmap(t) = {}
    BY <1>4 DEF ToUnmap
  <2>5. ToUnmap(t)' = (c.page + c.i)..(c.page + c.n - 1)
    BY <1>9 DEF ToUnmap
  <2>6. c.page + c.i = b.page /\ c.page + c.n - 1 = b.page + b.n - 1
    BY <1>3, <1>7
  <2>7. ToUnmap(t)' = Pages(b)
    BY <2>5, <2>6, Zenon DEF Pages
  <2>8. QED
    BY <2>2, <2>3, <2>4, <2>7
<1>14. BlockPages' = BlockPages \ Pages(b)
  <2>1. BlockPages' = UNION {Pages(d) : d \in blocks \ {b}}
    BY <1>1 DEF BlockPages, Pages
  <2>2. \A d \in blocks \ {b} : Pages(d) \cap Pages(b) = {}
    BY <1>2 DEF PagesSplit
  <2>3. BlockPages = UNION {Pages(d) : d \in blocks}
    BY DEF BlockPages
  <2>4. QED
    BY <2>1, <2>2, <2>3
<1>15. PagesSplit'
  <2>1. blocks' \in SUBSET BlockType /\ \A d, e \in blocks' : d # e => Pages(d) \cap Pages(e) = {}
    BY <1>1, <1>2 DEF PagesSplit
  <2> DEFINE D == FreePages(virt')
             F == BlockPages'
             A == FreePages(virt)
             C == BlockPages
             R == frPages
  <2>2. D = A /\ F = C \ Pages(b) /\ frPages' = R
    BY <1>4, <1>14
  <2>3. A \cap R = {} /\ A \cap C = {} /\ R \cap C = {}
    BY <1>2 DEF PagesSplit, Split
  <2>4. D = FreePages(virt') /\ F = BlockPages'
    OBVIOUS
  <2> HIDE DEF D, F
  <2>5. /\ D \cup frPages' \cup F \cup Own'[t] = A \cup R \cup C \cup Own[t]
        /\ D \cap frPages' = {} /\ D \cap F = {} /\ frPages' \cap F = {}
        /\ Own'[t] \cap (D \cup frPages' \cup F) = {}
    <3> HIDE DEF A, C, R
    <3>1. Pages(b) \subseteq C
      BY <1>3 DEF C
    <3>2. QED
      BY <1>13, <2>2, <2>3, <3>1
  <2>6. QED
    BY <1>2, <1>10, <2>1, <2>4, <2>5, PagesChanged
<1>16. FramesSplit'
  <2>1. BlockPages' \cup ToUnmap(t)' = BlockPages \cup ToUnmap(t)
    BY <1>3, <1>13, <1>14
  <2>2. free' \cup Held'[t] = free \cup Held[t] /\ free' \cap Held'[t] = {}
    BY <1>4, <1>13
  <2>3. \A p \in ToUnmap(t) : map'[p] = map[p]
    BY <1>4
  <2>4. QED
    BY <1>4, <1>10, <2>1, <2>2, <2>3, FramesKept DEF PagesRunning
<1>17. RegionsOK'
  BY <1>4, RegionsKept DEF PagesRunning
<1>18. QED
  BY <1>12, <1>15, <1>16, <1>17 DEF PagesInv

LEMMA AllocVirtKeeps ==
    ASSUME PagesRunning, NEW t \in Thread, AllocVirt(t)
    PROVE  PagesInv'
<1> DEFINE m == mine[t]
           n == mine[t].n
<1>1. /\ pc[t] = "virt" /\ free' = free /\ frPages' = frPages /\ tables' = tables
      /\ map' = map /\ blocks' = blocks
  BY DEF AllocVirt, At
<1>2. /\ pc \in [Thread -> Step] /\ mine \in [Thread -> CallType] /\ DOMAIN map = Page
      /\ m \in CallType /\ CallOK(t) /\ VirtOK(virt) /\ RegionsOK /\ PagesSplit
      /\ FramesSplit /\ CallsOK /\ stopped = "no"
  BY DEF PagesRunning, RegionsOK, CallsOK, FramesSplit
<1>3. m.page = 0 /\ n \in Nat \ {0} /\ m.i = 0 /\ Cardinality(m.frames) = n
  BY <1>1, <1>2 DEF CallOK, CallType
<1>4. CASE /\ virt.byAddr = <<>>
           /\ Goto(t, "undo frames")
           /\ UNCHANGED <<virt, mine, stopped>>
  <2>1. /\ pc' = [pc EXCEPT ![t] = "undo frames"] /\ mine' = mine /\ virt' = virt
        /\ stopped' = stopped
    BY <1>4 DEF Goto
  <2>2. pc'[t] = "undo frames" /\ mine'[t] = m
    BY <1>2, <2>1
  <2>3. StepOf(t)
    BY <1>1, <1>2, <2>1 DEF StepOf, Step
  <2>4. CallOK(t)'
    BY <1>3, <2>2 DEF CallOK
  <2>5. CallsOK'
    BY <1>2, <2>3, <2>4, CallsKept
  <2>6. Own[t] = {} /\ Own'[t] = {} /\ Held[t] = m.frames /\ Held'[t] = m.frames
    BY <1>3, <2>2, OwnIs, OwnIsThen
  <2>7. PagesSplit'
    BY <1>1, <1>2, <2>1, <2>3, <2>6, PagesKept
  <2>8. FramesSplit'
    <3>1. ToUnmap(t) = {} /\ ToUnmap(t)' = {}
      BY <1>1, <2>2 DEF ToUnmap
    <3>2. BlockPages' = BlockPages
      BY <1>1 DEF BlockPages, Pages
    <3>3. free \cap Held[t] = {}
      BY <1>2 DEF FramesSplit, Split
    <3>4. free' \cup Held'[t] = free \cup Held[t] /\ free' \cap Held'[t] = {}
      BY <1>1, <2>6, <3>3
    <3>5. QED
      BY <1>1, <1>2, <2>3, <3>1, <3>2, <3>4, FramesKept
  <2>9. RegionsOK'
    BY <1>1, <1>2, <2>1, RegionsKept
  <2>10. QED
    BY <2>5, <2>7, <2>8, <2>9 DEF PagesInv
<1>5. CASE /\ virt.byAddr # <<>>
           /\ SizeOf(virt, Head(virt.bySize)) >= n
           /\ virt' = AllocRegion(virt, n)
           /\ mine' = [mine EXCEPT ![t].page = Chosen(virt, n)]
           /\ Goto(t, "map")
           /\ UNCHANGED stopped
  <2> DEFINE v == virt
             w == virt'
             a == Chosen(virt, n)
             N == Nat
             X == a..(a + n - 1)
             A == FreePages(virt)
             c == mine'[t]
  <2>1. /\ VirtOK(w) /\ a \in Nat
        /\ a..(a + n - 1) \subseteq FreePages(v)
        /\ FreePages(w) = FreePages(v) \ (a..(a + n - 1))
        /\ w.spare + Len(w.byAddr) = v.spare + Len(v.byAddr)
    <3>1. VirtOK(v) /\ v.byAddr # <<>> /\ SizeOf(v, Head(v.bySize)) >= n
      BY <1>2, <1>5
    <3>2. a = Chosen(v, n) /\ w = AllocRegion(v, n)
      BY <1>5
    <3>3. n \in Nat \ {0}
      BY <1>3
    <3> HIDE DEF a, w, v, n
    <3>4. QED
      BY <3>1, <3>2, <3>3, AllocRegionOK
  <2>2. A \subseteq KernelPages
    BY <1>2 DEF PagesSplit, Split
  <2> HIDE DEF a
  <2>3. a \in X
    BY <1>3, <2>1
  <2>4. a # 0
    <3>1. a \in SetupBegin..(Top - 1)
      BY <2>1, <2>2, <2>3, KernelPagesArePages DEF Page
    <3>2. SetupBegin \in Nat /\ SetupBegin > 0
      BY GlobalPagesAssumption
    <3>3. QED
      BY <3>1, <3>2
  <2>5. mine' = [mine EXCEPT ![t].page = a] /\ pc' = [pc EXCEPT ![t] = "map"]
        /\ stopped' = stopped
    BY <1>5 DEF Goto, a
  <2>6. c = [m EXCEPT !.page = a] /\ pc'[t] = "map"
    BY <1>2, <2>5
  <2>7. c = [page |-> a, n |-> n, frames |-> m.frames, i |-> m.i]
    <3> HIDE DEF c, m
    <3>1. QED
      BY <1>2, <2>6 DEF CallType, m
  <2>8. mine' = [mine EXCEPT ![t] = c]
    BY <1>2, <2>5, <2>6
  <2> HIDE DEF c
  <2>9. c \in CallType /\ c.page = a /\ c.n = n /\ c.frames = m.frames /\ c.i = 0
    BY <1>2, <1>3, <2>1, <2>7 DEF CallType
  <2>10. mine'[t] = c
    BY DEF c
  <2>11. StepOf(t)
    BY <1>1, <1>2, <2>5, <2>8, <2>9 DEF StepOf, Step
  <2>12. CallOK(t)'
    <3>1. 0..(c.i - 1) = {} /\ c.i < c.n
      BY <1>3, <2>9
    <3>2. QED
      BY <1>3, <2>4, <2>6, <2>9, <2>10, <3>1 DEF CallOK
  <2>13. CallsOK'
    BY <1>2, <2>11, <2>12, CallsKept
  <2>14. Own[t] = {} /\ Own'[t] = X /\ Held[t] = m.frames /\ Held'[t] = m.frames
    <3>1. Own[t] = {} /\ Held[t] = m.frames /\ Held'[t] = m.frames
      BY <1>3, <2>9, <2>10, OwnIs, OwnIsThen
    <3>2. Own'[t] = Pages(c)
      BY <2>4, <2>6, <2>9, <2>10, OwnIsThen
    <3>3. QED
      BY <2>9, <3>1, <3>2 DEF Pages
  <2>15. PagesSplit'
    <3> DEFINE D == FreePages(virt')
               F == BlockPages'
               C == BlockPages
               R == frPages
    <3>1. blocks' \in SUBSET BlockType /\ \A d, e \in blocks' : d # e => Pages(d) \cap Pages(e) = {}
      BY <1>1, <1>2 DEF PagesSplit
    <3>2. D = A \ X /\ F = C /\ frPages' = R /\ X \subseteq A
      BY <1>1, <2>1 DEF BlockPages, Pages
    <3>3. A \cap R = {} /\ A \cap C = {} /\ R \cap C = {}
      BY <1>2 DEF PagesSplit, Split
    <3>4. D = FreePages(virt') /\ F = BlockPages'
      OBVIOUS
    <3> HIDE DEF D, F, X
    <3>5. /\ D \cup frPages' \cup F \cup Own'[t] = A \cup R \cup C \cup Own[t]
          /\ D \cap frPages' = {} /\ D \cap F = {} /\ frPages' \cap F = {}
          /\ Own'[t] \cap (D \cup frPages' \cup F) = {}
      <4> HIDE DEF A, C, R
      <4>1. QED
        BY <2>14, <3>2, <3>3
    <3>6. QED
      BY <1>2, <2>11, <3>1, <3>4, <3>5, PagesChanged
  <2>16. FramesSplit'
    <3>1. ToUnmap(t) = {} /\ ToUnmap(t)' = {}
      BY <1>1, <2>6 DEF ToUnmap
    <3>2. BlockPages' = BlockPages
      BY <1>1 DEF BlockPages, Pages
    <3>3. free \cap Held[t] = {}
      BY <1>2 DEF FramesSplit, Split
    <3>4. free' \cup Held'[t] = free \cup Held[t] /\ free' \cap Held'[t] = {}
      BY <1>1, <2>14, <3>3
    <3>5. QED
      BY <1>1, <1>2, <2>11, <3>1, <3>2, <3>4, FramesKept
  <2>17. RegionsOK'
    <3>1. VirtOK(virt)' <=> VirtOK(virt')
      OBVIOUS
    <3>2. virt'.spare + Len(virt'.byAddr) = RegionsPerFrame * Cardinality(frPages)
      BY <1>2, <2>1 DEF RegionsOK
    <3>3. QED
      BY <1>1, <1>2, <2>1, <2>5, <3>1, <3>2 DEF RegionsOK
  <2>18. QED
    BY <2>13, <2>15, <2>16, <2>17 DEF PagesInv
<1>6. CASE /\ virt.byAddr # <<>>
           /\ SizeOf(virt, Head(virt.bySize)) < n
           /\ stopped' = "overrun"
           /\ UNCHANGED <<virt, mine, pc>>
  <2>1. RegionsOK'
    BY <1>1, <1>2, <1>6, RegionsKept
  <2>2. QED
    BY <1>6, <2>1 DEF PagesInv
<1>7. QED
  BY <1>4, <1>5, <1>6 DEF AllocVirt

LEMMA UnmapPageKeeps ==
    ASSUME PagesRunning, NEW t \in Thread, UnmapPage(t)
    PROVE  PagesInv'
<1> DEFINE m == mine[t]
           p == mine[t].page + mine[t].i
           c == mine'[t]
<1>1. /\ pc[t] = "unmap" /\ free' = free /\ virt' = virt /\ frPages' = frPages
      /\ tables' = tables /\ blocks' = blocks
  BY DEF UnmapPage, At
<1>2. /\ pc \in [Thread -> Step] /\ mine \in [Thread -> CallType] /\ DOMAIN map = Page
      /\ m \in CallType /\ CallOK(t) /\ RegionsOK /\ PagesSplit
      /\ FramesSplit /\ CallsOK /\ stopped = "no"
  BY DEF PagesRunning, RegionsOK, CallsOK, FramesSplit
<1>3. /\ m.page # 0 /\ m.page \in Nat /\ m.n \in Nat /\ m.i \in Nat /\ m.i < m.n
      /\ m.frames \subseteq Frame
  BY <1>1, <1>2 DEF CallOK, CallType
<1>4. ToUnmap(t) = p..(m.page + m.n - 1) /\ p \in ToUnmap(t) /\ Own[t] = Pages(m)
  <2>1. ToUnmap(t) = p..(m.page + m.n - 1)
    BY <1>1 DEF ToUnmap
  <2>2. p \in p..(m.page + m.n - 1)
    BY <1>3
  <2>3. QED
    BY <1>1, <1>3, <2>1, <2>2, OwnIs
<1>5. p \in LivePages /\ p \in Own[t] /\ p \in Page
  <2>1. p \in LivePages
    BY <1>4 DEF LivePages
  <2>2. QED
    BY <1>2, <1>4, <2>1, LiveOwn
<1>6. map[p] \in LiveFrames /\ map[p] \in Frame
  BY <1>2, <1>5 DEF LiveFrames, FramesSplit, Split
<1>7. map[p] # NONE
  BY <1>6, GlobalPagesAssumption
<1>8. /\ map' = [map EXCEPT ![p] = NONE]
      /\ mine' = [mine EXCEPT ![t].i = @ + 1, ![t].frames = @ \cup {map[p]}]
      /\ IF mine'[t].i = mine[t].n THEN Goto(t, "free virt") ELSE UNCHANGED pc
      /\ stopped' = stopped
  BY <1>7 DEF UnmapPage
<1> HIDE DEF p
<1>9. c = [page |-> m.page, n |-> m.n, frames |-> m.frames \cup {map[p]}, i |-> m.i + 1]
  <2>1. c = [m EXCEPT !.i = m.i + 1, !.frames = m.frames \cup {map[p]}]
    BY <1>2, <1>8
  <2> HIDE DEF c, m
  <2>2. QED
    BY <1>2, <2>1 DEF CallType
<1>10. mine' = [mine EXCEPT ![t] = c]
  BY <1>2, <1>8
<1> HIDE DEF c
<1>11. /\ c \in CallType /\ c.page = m.page /\ c.n = m.n
       /\ c.frames = m.frames \cup {map[p]} /\ c.i = m.i + 1
  BY <1>3, <1>6, <1>9 DEF CallType
<1>12. mine'[t] = c
  BY DEF c
<1>13. /\ pc' \in [Thread -> Step] /\ \A u \in Thread \ {t} : pc'[u] = pc[u]
       /\ pc'[t] = IF c.i = m.n THEN "free virt" ELSE "unmap"
  <2>1. CASE c.i = m.n
    <3>1. pc' = [pc EXCEPT ![t] = "free virt"]
      BY <1>8, <2>1 DEF Goto, c
    <3>2. QED
      BY <1>2, <2>1, <3>1 DEF Step
  <2>2. CASE c.i # m.n
    <3>1. pc' = pc
      BY <1>8, <2>2 DEF c
    <3>2. QED
      BY <1>1, <1>2, <2>2, <3>1
  <2>3. QED
    BY <2>1, <2>2
<1>14. StepOf(t)
  <2>1. DOMAIN map' = Page /\ \A x \in Page \ Own[t] : map'[x] = map[x]
    BY <1>2, <1>5, <1>8
  <2>2. mine' \in [Thread -> CallType] /\ \A u \in Thread \ {t} : mine'[u] = mine[u]
    BY <1>2, <1>10, <1>11
  <2>3. QED
    BY <1>13, <2>1, <2>2 DEF StepOf
<1>15. CallOK(t)'
  <2>1. c.i # m.n => c.i < c.n
    BY <1>3, <1>11
  <2>2. c.n > 0
    BY <1>3, <1>11
  <2>3. QED
    BY <1>3, <1>11, <1>12, <1>13, <2>1, <2>2 DEF CallOK
<1>16. CallsOK'
  BY <1>2, <1>14, <1>15, CallsKept
<1>17. /\ Own'[t] = Own[t] /\ Held[t] = m.frames /\ Held'[t] = m.frames \cup {map[p]}
  <2>1. Held[t] = m.frames /\ Held'[t] = m.frames \cup {map[p]}
    BY <1>11, <1>12, OwnIs, OwnIsThen
  <2>2. Own'[t] = Pages(c)
    BY <1>3, <1>11, <1>12, <1>13, OwnIsThen
  <2>3. QED
    BY <1>4, <1>11, <2>1, <2>2 DEF Pages
<1>18. PagesSplit'
  BY <1>1, <1>2, <1>14, <1>17, PagesKept
<1>19. RegionsOK'
  BY <1>1, <1>2, <1>8, RegionsKept
<1>20. LivePages' = LivePages \ {p}
  <2>1. ToUnmap(t)' = ToUnmap(t) \ {p}
    <3>1. CASE c.i = m.n
      <4>1. ToUnmap(t)' = {}
        BY <1>12, <1>13, <3>1 DEF ToUnmap
      <4>2. ToUnmap(t) = {p}
        <5>1. p = m.page + m.n - 1 /\ p \in Nat
          BY <1>3, <1>11, <3>1 DEF p
        <5>2. p..p = {p}
          BY <5>1
        <5>3. QED
          BY <1>4, <5>1, <5>2
      <4>3. QED
        BY <4>1, <4>2
    <3>2. CASE c.i # m.n
      <4>1. ToUnmap(t)' = (c.page + c.i)..(c.page + c.n - 1)
        BY <1>12, <1>13, <3>2 DEF ToUnmap
      <4>2. c.page + c.i = p + 1 /\ c.page + c.n - 1 = m.page + m.n - 1 /\ p \in Nat
        BY <1>3, <1>11 DEF p
      <4>3. ToUnmap(t)' = (p + 1)..(m.page + m.n - 1)
        BY <4>1, <4>2, Zenon
      <4>4. (p + 1)..(m.page + m.n - 1) = (p..(m.page + m.n - 1)) \ {p}
        BY <1>3, <4>2
      <4>5. QED
        BY <1>4, <4>3, <4>4
    <3>3. QED
      BY <3>1, <3>2
  <2>2. BlockPages' = BlockPages
    BY <1>1 DEF BlockPages, Pages
  <2>3. /\ LivePages = (frPages \ {AllocEnd}) \cup BlockPages \cup ToUnmap(t) \cup Rest(t)
        /\ LivePages' = (frPages' \ {AllocEnd}) \cup BlockPages' \cup ToUnmap(t)'
                          \cup Rest(t)
    BY <1>14, LiveIs
  <2>4. p \notin frPages /\ p \notin BlockPages
    BY <1>2, <1>5 DEF PagesSplit, Split
  <2>5. p \notin Rest(t)
    <3>1. SUFFICES ASSUME NEW u \in Thread \ {t} PROVE p \notin ToUnmap(u)
      BY DEF Rest
    <3>2. ToUnmap(u) \subseteq Own[u] /\ Own[u] \cap Own[t] = {}
      BY <1>2, ToUnmapOwn DEF PagesSplit, Split
    <3>3. QED
      BY <1>5, <3>2
  <2>6. QED
    BY <1>1, <2>1, <2>2, <2>3, <2>4, <2>5
<1>21. LiveFrames' = LiveFrames \ {map[p]} /\ OneToOne(map', LivePages')
  <2> DEFINE L == LivePages
             f == map
             g == map'
             M == LivePages'
  <2>1. OneToOne(f, L) /\ p \in L
    BY <1>2, <1>5 DEF FramesSplit
  <2>2. M = L \ {p} /\ Agree(f, g, M)
    BY <1>2, <1>8, <1>20, LiveOwn DEF Agree
  <2>3. LiveFrames = Image(f, L) /\ LiveFrames' = Image(g, M)
    BY DEF LiveFrames, Image
  <2> HIDE DEF L, f, g, M
  <2>4. OneToOne(g, M) /\ Image(g, M) = Image(f, L) \ {f[p]}
    BY <2>1, <2>2, ImageLess
  <2>5. QED
    BY <2>3, <2>4 DEF f, g, M
<1>22. FramesSplit'
  <2>1. TableFrames' = TableFrames
    BY <1>1 DEF TableFrames
  <2> DEFINE A == free
             B == LiveFrames
             C == TableFrames
             H == Held[t]
             x == map[p]
  <2>2. /\ A \cap B = {} /\ A \cap C = {} /\ B \cap C = {} /\ H \cap (A \cup B \cup C) = {}
    BY <1>2 DEF FramesSplit, Split
  <2>3. /\ free' = A /\ LiveFrames' = B \ {x} /\ TableFrames' = C /\ Held'[t] = H \cup {x}
        /\ x \in B
    BY <1>1, <1>6, <1>17, <1>21, <2>1
  <2>4. /\ free' \cup LiveFrames' \cup TableFrames' \cup Held'[t] = A \cup B \cup C \cup H
        /\ free' \cap LiveFrames' = {} /\ free' \cap TableFrames' = {}
        /\ LiveFrames' \cap TableFrames' = {}
        /\ Held'[t] \cap (free' \cup LiveFrames' \cup TableFrames') = {}
    <3> HIDE DEF A, B, C, H, x
    <3>1. QED
      BY <2>2, <2>3
  <2>5. OneToOne(tables', {i \in DOMAIN tables' : tables'[i] # EARLY})
    BY <1>1, <1>2 DEF FramesSplit
  <2>6. QED
    BY <1>2, <1>14, <1>21, <2>4, <2>5, FramesChanged
<1>23. QED
  BY <1>16, <1>18, <1>19, <1>22 DEF PagesInv

\* An emergency that does not overdraw is given what it asks for.
LEMMA EmergencyTaken ==
    ASSUME FramesSplit, NEW n \in {1, 2}, NEW S, Take(n, {"FA_EMERG"}, S)
    PROVE  Cardinality(S) = n
<1> DEFINE fl == {"FA_EMERG"}
           T == free \cap Usable(fl)
<1>1. fl \cap {"FA_LOW_MEM", "FA_EMERG"} # {}
  OBVIOUS
<1>2. ~(n > Spare(fl)) /\ Cardinality(S) = Least(n, Spare(fl))
  BY <1>1 DEF Take, Overdrawn
<1>3. Spare(fl) = Cardinality(T)
  BY <1>1 DEF Spare, FreeOf
<1>4. Cardinality(T) \in Nat
  <2>1. free \subseteq Frame
    BY DEF FramesSplit, Split
  <2>2. IsFiniteSet(Frame) /\ T \in SUBSET Frame
    BY <2>1, FramePoolAssumption DEF Frame
  <2> HIDE DEF T
  <2>3. QED
    BY <2>2, FS_Subset, FS_CardinalityType
<1> HIDE DEF fl, T
<1>5. QED
  BY <1>2, <1>3, <1>4 DEF Least

LEMMA OneMoreTime ==
    ASSUME NEW r \in Nat, NEW k \in Nat
    PROVE  r * k + r = r * (k + 1)
  OBVIOUS

\* t is about to free its pages.
ReturnsPages(t) == pc[t] = "free virt"

\* kmem_virt_free of the pages of t.
LEMMA FreeVirtKeeps ==
    ASSUME PagesRunning, NEW t \in Thread, ReturnsPages(t), FreeVirt(t),
           \A u \in Thread \ {t} : mine'[u] = mine[u] /\ pc'[u] = pc[u],
           pc' \in [Thread -> Step], mine' \in [Thread -> CallType], blocks' = blocks,
           CallOK(t)', Own'[t] = {}, Held'[t] = Held[t], pc'[t] # "unmap"
    PROVE  PagesInv'
<1> DEFINE a == mine[t].page
           n == mine[t].n
           X == a..(a + n - 1)
           A == FreePages(virt)
           C == BlockPages
           R == frPages
<1>1. /\ DOMAIN map = Page /\ mine[t] \in CallType /\ CallOK(t)
      /\ RegionsOK /\ VirtOK(virt) /\ PagesSplit /\ FramesSplit /\ CallsOK /\ stopped = "no"
      /\ frPages \in SUBSET Nat /\ IsFiniteSet(frPages) /\ AllocEnd \in frPages
      /\ virt.spare + Len(virt.byAddr) = RegionsPerFrame * Cardinality(frPages)
  BY DEF PagesRunning, RegionsOK, CallsOK, FramesSplit
<1>2. a # 0 /\ a \in Nat /\ n \in Nat \ {0}
  <2>1. a # 0 /\ n > 0
    BY <1>1 DEF CallOK, ReturnsPages
  <2>2. a \in Nat /\ n \in Nat
    BY CallFacts
  <2>3. QED
    BY <2>1, <2>2
<1>3. Own[t] = X /\ ToUnmap(t) = {} /\ ToUnmap(t)' = {}
  <2>1. pc[t] # "free frames" /\ pc[t] # "unmap"
    BY DEF ReturnsPages
  <2>2. QED
    BY <1>2, <2>1, OwnIs DEF ToUnmap, Pages
<1>4. /\ A \cap R = {} /\ A \cap C = {} /\ R \cap C = {}
      /\ X \cap (A \cup R \cup C) = {}
  BY <1>1, <1>3 DEF PagesSplit, Split
<1>5. X \subseteq Page /\ a \in X
  <2>1. X \subseteq KernelPages
    BY <1>1, <1>3 DEF PagesSplit, Split
  <2>2. a \in X
    <3> HIDE DEF a, n
    <3>1. QED
      BY <1>2
  <2>3. QED
    BY <2>1, <2>2, KernelPagesArePages
<1>6. /\ ~AlreadyFree(virt, a)
      /\ ~NeedsFrame(virt, a, n) => Freed(virt, a, n, FreeRegion(virt, a, n))
  <2>1. X \cap FreePages(virt) = {}
    BY <1>4
  <2> HIDE DEF a, n
  <2>2. QED
    BY <1>1, <1>2, <2>1, FreeRegionOK
<1>7. BlockPages' = BlockPages
  BY DEF BlockPages, Pages
<1>8. blocks' \in SUBSET BlockType /\ \A d, e \in blocks' : d # e => Pages(d) \cap Pages(e) = {}
  BY <1>1 DEF PagesSplit
<1>9. CASE /\ ~AlreadyFree(virt, a)
           /\ ~NeedsFrame(virt, a, n)
           /\ virt' = FreeRegion(virt, a, n)
           /\ UNCHANGED <<free, frPages, tables, map, stopped>>
  <2>1. StepOf(t)
    BY <1>1, <1>9 DEF StepOf
  <2>2. CallsOK'
    BY <1>1, <2>1, CallsKept
  <2>3. /\ VirtOK(virt') /\ FreePages(virt') = A \cup X
        /\ virt'.spare + Len(virt'.byAddr) = virt.spare + Len(virt.byAddr)
    BY <1>6, <1>9 DEF Freed
  <2>4. PagesSplit'
    <3> DEFINE D == FreePages(virt')
               F == BlockPages'
    <3>1. D = A \cup X /\ F = C /\ frPages' = R
      BY <1>7, <1>9, <2>3
    <3>2. D = FreePages(virt') /\ F = BlockPages'
      OBVIOUS
    <3> HIDE DEF D, F, X, A, C, R
    <3>3. /\ D \cup frPages' \cup F \cup Own'[t] = A \cup R \cup C \cup Own[t]
          /\ D \cap frPages' = {} /\ D \cap F = {} /\ frPages' \cap F = {}
          /\ Own'[t] \cap (D \cup frPages' \cup F) = {}
      BY <1>3, <1>4, <3>1
    <3>4. /\ D \cup frPages' \cup F \cup Own'[t]
               = FreePages(virt) \cup frPages \cup BlockPages \cup Own[t]
      BY <3>3 DEF A, C, R
    <3>5. QED
      BY <1>1, <1>8, <2>1, <3>2, <3>3, <3>4, PagesChanged
  <2>5. FramesSplit'
    <3>1. free \cap Held[t] = {}
      BY <1>1 DEF FramesSplit, Split
    <3>2. free' \cup Held'[t] = free \cup Held[t] /\ free' \cap Held'[t] = {}
      BY <1>9, <3>1
    <3>3. QED
      BY <1>1, <1>3, <1>7, <1>9, <2>1, <3>2, FramesKept
  <2>6. RegionsOK'
    <3>1. VirtOK(virt)' <=> VirtOK(virt')
      OBVIOUS
    <3>2. virt'.spare + Len(virt'.byAddr) = RegionsPerFrame * Cardinality(frPages)
      BY <1>1, <2>3
    <3>3. QED
      BY <1>1, <1>9, <2>3, <3>1, <3>2 DEF RegionsOK
  <2>7. QED
    BY <2>2, <2>4, <2>5, <2>6 DEF PagesInv
<1> DEFINE table == TableOf(a)
           need == IF table \in DOMAIN tables THEN 1 ELSE 2
           S == Emergency(need)
<1>10. CASE /\ ~AlreadyFree(virt, a)
            /\ NeedsFrame(virt, a, n)
            /\ Overdraw(need, {"FA_EMERG"})
            /\ UNCHANGED <<virt, frPages, tables, map>>
  <2>1. UNCHANGED <<virt, frPages>>
    BY <1>10
  <2> HIDE DEF need
  <2>2. QED
    BY <1>1, <1>10, <2>1, OverdrawKeeps
<1>11. CASE /\ ~AlreadyFree(virt, a)
            /\ NeedsFrame(virt, a, n)
            /\ Take(need, {"FA_EMERG"}, S)
            /\ \E f, g \in S :
                 /\ need = 2 => f # g
                 /\ f <= g
                 /\ map' = [map EXCEPT ![a] = f]
                 /\ tables' = IF need = 2 THEN WithTable(table, g) ELSE tables
            /\ frPages' = frPages \cup {a}
            /\ virt' = FreeRegion(virt, a, n)
            /\ UNCHANGED stopped
  <2>1. PICK f \in S, g \in S :
           /\ need = 2 => f # g
           /\ map' = [map EXCEPT ![a] = f]
           /\ tables' = IF need = 2 THEN WithTable(table, g) ELSE tables
    BY <1>11
  <2>2. /\ S \subseteq free /\ free' = free \ S /\ free \subseteq Frame
        /\ Cardinality(S) = need /\ IsFiniteSet(S)
    <3>1. S \subseteq free /\ free' = free \ S
      BY <1>11 DEF Take
    <3>2. free \subseteq Frame
      BY <1>1 DEF FramesSplit, Split
    <3>3. IsFiniteSet(Frame)
      BY FramePoolAssumption DEF Frame
    <3>4. S \in SUBSET Frame
      BY <3>1, <3>2
    <3> HIDE DEF S
    <3>5. IsFiniteSet(S)
      BY <3>3, <3>4, FS_Subset
    <3>6. Cardinality(S) = need
      <4>1. need \in {1, 2}
        OBVIOUS
      <4> HIDE DEF need, S
      <4>2. QED
        BY <1>1, <1>11, <4>1, EmergencyTaken
    <3>7. QED
      BY <3>1, <3>2, <3>5, <3>6
  <2> HIDE DEF S
  <2>3. /\ f \in free /\ f \in Frame
        /\ OneToOne(tables', {i \in DOMAIN tables' : tables'[i] # EARLY})
        /\ TableFrames' = TableFrames \cup (S \ {f})
    <3>1. f \in free /\ g \in free /\ f \in Frame /\ g \in Frame
      BY <2>1, <2>2
    <3>2. OneToOne(tables, {i \in DOMAIN tables : tables[i] # EARLY})
      BY <1>1 DEF FramesSplit
    <3>3. CASE table \in DOMAIN tables
      <4>0. need = 1 /\ need # 2
        BY <3>3
      <4>1. need = 1 /\ tables' = tables
        <5> HIDE DEF need, table
        <5>1. QED
          BY <2>1, <4>0
      <4>2. S = {f}
        BY <2>1, <2>2, <4>1, OneOrTwo
      <4>3. TableFrames' = TableFrames
        BY <4>1 DEF TableFrames
      <4>4. QED
        BY <3>1, <3>2, <4>1, <4>2, <4>3
    <3>4. CASE table \notin DOMAIN tables
      <4>1. need = 2 /\ tables' = WithTable(table, g) /\ f # g
        BY <2>1, <3>4
      <4>2. S = {f, g}
        BY <2>1, <2>2, <4>1, OneOrTwo
      <4>3. g \notin TableFrames
        BY <1>1, <3>1 DEF FramesSplit, Split
      <4> HIDE DEF table, need
      <4>4. /\ OneToOne(tables', {j \in DOMAIN tables' : tables'[j] # EARLY})
            /\ TableFrames' = TableFrames \cup {g}
        BY <3>1, <3>2, <3>4, <4>1, <4>3, TableAdded
      <4>5. S \ {f} = {g}
        BY <4>1, <4>2
      <4>6. QED
        BY <3>1, <4>4, <4>5
    <3>5. QED
      BY <3>3, <3>4
  <2>4. StepOf(t)
    BY <1>1, <1>3, <1>5, <2>1 DEF StepOf
  <2>5. CallsOK'
    BY <1>1, <2>4, CallsKept
  <2>6. /\ VirtOK(virt') /\ FreePages(virt') = A \cup (X \ {a})
        /\ virt'.spare + Len(virt'.byAddr)
             = virt.spare + Len(virt.byAddr) + RegionsPerFrame
    <3> DEFINE w == virt'
    <3>1. X \cap FreePages(virt) = {} /\ NeedsFrame(virt, a, n) /\ w = FreeRegion(virt, a, n)
      BY <1>4, <1>11
    <3>2. VirtOK(virt) /\ a \in Nat /\ n \in Nat \ {0}
      BY <1>1, <1>2
    <3> HIDE DEF a, n, w
    <3>3. (a + 1)..(a + n - 1) = X \ {a}
      BY <3>2
    <3>4. /\ a..(a + n - 1) \cap FreePages(virt) = {} /\ NeedsFrame(virt, a, n)
          /\ w = FreeRegion(virt, a, n)
      BY <3>1
    <3>5. /\ VirtOK(w)
          /\ FreePages(w) = FreePages(virt) \cup (a + 1)..(a + n - 1)
          /\ w.spare + Len(w.byAddr) = virt.spare + Len(virt.byAddr) + RegionsPerFrame
      BY <3>2, <3>4, FreeWithFrame
    <3>6. QED
      BY <3>3, <3>5 DEF w
  <2>7. a \notin frPages /\ frPages' = frPages \cup {a} /\ a # AllocEnd
    BY <1>1, <1>4, <1>5, <1>11
  <2>8. PagesSplit'
    <3> DEFINE D == FreePages(virt')
               F == BlockPages'
               Q == frPages'
    <3>1. D = A \cup (X \ {a}) /\ F = C /\ Q = R \cup {a} /\ a \in X
      BY <1>5, <1>7, <2>6, <2>7
    <3>2. D = FreePages(virt') /\ F = BlockPages'
      OBVIOUS
    <3> HIDE DEF D, F, X, A, C, R, Q, a
    <3>3. /\ D \cup Q \cup F \cup Own'[t] = A \cup R \cup C \cup Own[t]
          /\ D \cap Q = {} /\ D \cap F = {} /\ Q \cap F = {}
          /\ Own'[t] \cap (D \cup Q \cup F) = {}
      BY <1>3, <1>4, <3>1
    <3>4. /\ D \cup frPages' \cup F \cup Own'[t]
               = FreePages(virt) \cup frPages \cup BlockPages \cup Own[t]
          /\ D \cap frPages' = {} /\ D \cap F = {} /\ frPages' \cap F = {}
          /\ Own'[t] \cap (D \cup frPages' \cup F) = {}
      BY <3>3 DEF A, C, R, Q
    <3>5. QED
      BY <1>1, <1>8, <2>4, <3>2, <3>4, PagesChanged
  <2>9. LiveFrames' = LiveFrames \cup {f} /\ OneToOne(map', LivePages')
    <3> DEFINE L == LivePages
               P == {a}
               h == map
               k == map'
    <3> DEFINE M == LivePages'
    <3>1. M = L \cup P
      <4>1. /\ LivePages = (frPages \ {AllocEnd}) \cup BlockPages \cup ToUnmap(t) \cup Rest(t)
            /\ LivePages' = (frPages' \ {AllocEnd}) \cup BlockPages' \cup ToUnmap(t)'
                              \cup Rest(t)
        BY <2>4, LiveIs
      <4> HIDE DEF a
      <4>2. QED
        BY <1>3, <1>7, <2>7, <4>1
    <3>2. Agree(h, k, L)
      BY <1>1, <1>3, <2>4, LiveOwn DEF StepOf, Agree
    <3>3. k[a] = f
      BY <1>1, <1>5, <2>1
    <3>4. OneToOne(h, L) /\ OneToOne(k, P)
      BY <1>1 DEF FramesSplit, OneToOne
    <3>5. LiveFrames = Image(h, L) /\ LiveFrames' = Image(k, M)
      BY DEF LiveFrames, Image
    <3>6. f \notin LiveFrames
      BY <1>1, <2>3 DEF FramesSplit, Split
    <3>7. Image(k, P) = {f}
      BY <3>3 DEF Image
    <3> HIDE DEF L, P, h, k, M
    <3>8. Image(k, P) \cap Image(h, L) = {}
      BY <3>5, <3>6, <3>7
    <3>9. OneToOne(k, M) /\ Image(k, M) = Image(h, L) \cup Image(k, P)
      BY <3>1, <3>2, <3>4, <3>8, ImageMore
    <3>10. QED
      BY <3>5, <3>7, <3>9 DEF k, M
  <2>10. FramesSplit'
    <3> DEFINE V == free
               B == LiveFrames
               T == TableFrames
               H == Held[t]
    <3>1. /\ V \cap B = {} /\ V \cap T = {} /\ B \cap T = {} /\ H \cap (V \cup B \cup T) = {}
      BY <1>1 DEF FramesSplit, Split
    <3>2. /\ free' = V \ S /\ LiveFrames' = B \cup {f} /\ TableFrames' = T \cup (S \ {f})
          /\ Held'[t] = H /\ S \subseteq V /\ f \in S
      BY <2>1, <2>2, <2>3, <2>9
    <3>3. /\ free' \cup LiveFrames' \cup TableFrames' \cup Held'[t] = V \cup B \cup T \cup H
          /\ free' \cap LiveFrames' = {} /\ free' \cap TableFrames' = {}
          /\ LiveFrames' \cap TableFrames' = {}
          /\ Held'[t] \cap (free' \cup LiveFrames' \cup TableFrames') = {}
      <4> HIDE DEF V, B, T, H
      <4>1. QED
        BY <3>1, <3>2
    <3>4. QED
      BY <1>1, <2>3, <2>4, <2>9, <3>3, FramesChanged
  <2>11. RegionsOK'
    <3>1. VirtOK(virt)' <=> VirtOK(virt')
      OBVIOUS
    <3>2. IsFiniteSet(frPages') /\ Cardinality(frPages') = Cardinality(frPages) + 1
      <4> HIDE DEF a
      <4>1. QED
        BY <1>1, <2>7, FS_AddElement
    <3>3. Cardinality(frPages) \in Nat /\ RegionsPerFrame \in Nat
      BY <1>1, FS_CardinalityType, VirtRegionsAssumption
    <3>4. RegionsPerFrame * Cardinality(frPages) + RegionsPerFrame
            = RegionsPerFrame * (Cardinality(frPages) + 1)
      BY <3>3, OneMoreTime
    <3>5. virt'.spare + Len(virt'.byAddr) = RegionsPerFrame * Cardinality(frPages')
      BY <1>1, <2>6, <3>2, <3>4
    <3>6. frPages' \in SUBSET Nat /\ AllocEnd \in frPages' /\ stopped' # "misuse"
      BY <1>1, <1>2, <1>11, <2>7
    <3>7. QED
      BY <2>6, <3>1, <3>2, <3>5, <3>6 DEF RegionsOK
  <2>12. QED
    BY <2>5, <2>8, <2>10, <2>11 DEF PagesInv
<1>12. QED
  <2>1. \/ AlreadyFree(virt, a)
        \/ /\ ~AlreadyFree(virt, a)
           /\ ~NeedsFrame(virt, a, n)
           /\ virt' = FreeRegion(virt, a, n)
           /\ UNCHANGED <<free, frPages, tables, map, stopped>>
        \/ /\ ~AlreadyFree(virt, a)
           /\ NeedsFrame(virt, a, n)
           /\ Overdraw(need, {"FA_EMERG"})
           /\ UNCHANGED <<virt, frPages, tables, map>>
        \/ /\ ~AlreadyFree(virt, a)
           /\ NeedsFrame(virt, a, n)
           /\ Take(need, {"FA_EMERG"}, S)
           /\ \E f, g \in S :
                /\ need = 2 => f # g
                /\ f <= g
                /\ map' = [map EXCEPT ![a] = f]
                /\ tables' = IF need = 2 THEN WithTable(table, g) ELSE tables
           /\ frPages' = frPages \cup {a}
           /\ virt' = FreeRegion(virt, a, n)
           /\ UNCHANGED stopped
    BY Zenon DEF FreeVirt
  <2>2. QED
    BY <1>6, <1>9, <1>10, <1>11, <2>1

LEMMA FreePagesOfKeeps ==
    ASSUME PagesRunning, NEW t \in Thread, FreePagesOf(t)
    PROVE  PagesInv'
<1>1. /\ pc \in [Thread -> Step] /\ mine \in [Thread -> CallType] /\ CallOK(t)
      /\ pc[t] = "free virt"
  BY DEF PagesRunning, CallsOK, FreePagesOf, At
<1>2. /\ mine' = mine /\ pc' = [pc EXCEPT ![t] = "free frames"]
      /\ blocks' = blocks /\ FreeVirt(t)
  BY DEF FreePagesOf, Goto
<1>3. mine'[t] = mine[t] /\ pc'[t] = "free frames"
  BY <1>1, <1>2
<1>4. \A u \in Thread \ {t} : mine'[u] = mine[u] /\ pc'[u] = pc[u]
  BY <1>1, <1>2
<1>5. pc' \in [Thread -> Step] /\ mine' \in [Thread -> CallType]
  BY <1>1, <1>2 DEF Step
<1>6. CallOK(t)'
  BY <1>1, <1>3 DEF CallOK
<1>7. Own'[t] = {}
  BY <1>3, OwnIsThen
<1>8. Held'[t] = Held[t]
  BY <1>3, OwnIs, OwnIsThen
<1>9. pc'[t] # "unmap"
  BY <1>3
<1>10. QED
  BY <1>1, <1>2, <1>4, <1>5, <1>6, <1>7, <1>8, <1>9, FreeVirtKeeps DEF ReturnsPages

\* Where the pages that t has mapped so far are mapped to, and where they are
\* when the next one is.
LEMMA MapNextMaps ==
    ASSUME PagesRunning, NEW t \in Thread, pc[t] = "map", MapNext(t),
           NEW a, a = mine[t].page, NEW n, n = mine[t].n, NEW k, k = mine[t].i,
           NEW F, F = mine[t].frames
    PROVE  /\ a \in Nat /\ a # 0 /\ n \in Nat /\ k \in Nat /\ k < n
           /\ F \in SUBSET Nat /\ IsFiniteSet(F) /\ Cardinality(F) = n
           /\ Own[t] = a..(a + n - 1) /\ ToUnmap(t) = {} /\ Held[t] = F
           /\ a..(a + n - 1) \subseteq Page
           /\ DOMAIN map' = Page /\ \A x \in Page \ Own[t] : map'[x] = map[x]
           /\ \A j \in 0..k : map'[a + j] = Nth(F, j)
<1>1. /\ mine[t] \in CallType /\ CallOK(t) /\ PagesSplit /\ DOMAIN map = Page
  BY CallFacts DEF PagesRunning, FramesSplit
<1>2. a \in Nat /\ n \in Nat /\ k \in Nat /\ F \subseteq Frame
  BY CallFacts
<1>3. a # 0 /\ k < n /\ Cardinality(F) = n /\ \A j \in 0..(k - 1) : map[a + j] = Nth(F, j)
  BY <1>1 DEF CallOK
<1>4. F \in SUBSET Nat /\ IsFiniteSet(F)
  <2>1. Frame \subseteq Nat
    BY GlobalPagesAssumption
  <2>2. IsFiniteSet(Frame)
    BY FramePoolAssumption DEF Frame
  <2>3. F \in SUBSET Frame
    BY <1>2
  <2>4. QED
    BY <2>1, <2>2, <2>3, FS_Subset
<1>5. Own[t] = a..(a + n - 1) /\ ToUnmap(t) = {} /\ Held[t] = F
  BY <1>3, OwnIs DEF ToUnmap, Pages
<1>6. a..(a + n - 1) \subseteq Page
  <2>1. Own[t] \subseteq KernelPages
    BY <1>1 DEF PagesSplit, Split
  <2>2. QED
    BY <1>5, <2>1, KernelPagesArePages
<1>7. a + k \in a..(a + n - 1)
  BY <1>2, <1>3
<1>8. map' = [map EXCEPT ![a + k] = Nth(F, k)]
  BY DEF MapNext
<1>9. DOMAIN map' = Page /\ \A x \in Page \ Own[t] : map'[x] = map[x]
  BY <1>1, <1>5, <1>7, <1>8
<1>10. ASSUME NEW j \in 0..k PROVE map'[a + j] = Nth(F, j)
  <2>1. CASE j = k
    BY <1>1, <1>6, <1>7, <1>8, <2>1
  <2>2. CASE j # k
    <3>1. j \in 0..(k - 1) /\ a + j # a + k /\ a + j \in a..(a + n - 1)
      BY <1>2, <1>3, <2>2
    <3>2. map'[a + j] = map[a + j]
      BY <1>1, <1>6, <1>8, <3>1
    <3>3. QED
      BY <1>3, <3>1, <3>2
  <2>3. QED
    BY <2>1, <2>2
<1>11. QED
  BY <1>2, <1>3, <1>4, <1>5, <1>6, <1>9, <1>10

\* The n pages from a on are mapped to the n frames of F.
LEMMA MappedInOrder ==
    ASSUME NEW F \in SUBSET Nat, IsFiniteSet(F), NEW n \in Nat, n = Cardinality(F),
           NEW a \in Nat, NEW g, \A j \in 0..(n - 1) : g[a + j] = Nth(F, j),
           NEW X, X = a..(a + n - 1)
    PROVE  OneToOne(g, X) /\ Image(g, X) = F
<1>1. /\ \A k \in 0..(n - 1) : Nth(F, k) \in F
      /\ \A j, k \in 0..(n - 1) : Nth(F, j) = Nth(F, k) => j = k
      /\ \A f \in F : \E k \in 0..(n - 1) : Nth(F, k) = f
  BY NthFacts
<1>2. ASSUME NEW x \in X
      PROVE  x - a \in 0..(n - 1) /\ x = a + (x - a) /\ g[x] = Nth(F, x - a)
  <2>1. x - a \in 0..(n - 1) /\ x = a + (x - a)
    OBVIOUS
  <2>2. QED
    BY <2>1
<1>3. OneToOne(g, X)
  <2>1. SUFFICES ASSUME NEW x \in X, NEW y \in X, g[x] = g[y] PROVE x = y
    BY DEF OneToOne
  <2>2. x - a = y - a
    BY <1>1, <1>2, <2>1
  <2>3. QED
    BY <1>2, <2>2
<1>4. ASSUME NEW f \in Image(g, X) PROVE f \in F
  BY <1>1, <1>2 DEF Image
<1>5. ASSUME NEW f \in F PROVE f \in Image(g, X)
  <2>1. PICK k \in 0..(n - 1) : Nth(F, k) = f
    BY <1>1
  <2>2. a + k \in X /\ g[a + k] = f
    BY <2>1
  <2>3. QED
    BY <2>2 DEF Image
<1>6. QED
  BY <1>3, <1>4, <1>5

\* What a step of t has to keep when t maps a page.
Mapping(t) ==
    /\ pc[t] = "map" /\ MapNext(t)
    /\ virt' = virt /\ frPages' = frPages /\ stopped' = stopped
    /\ OneToOne(tables', {i \in DOMAIN tables' : tables'[i] # EARLY})
    /\ free' \cup TableFrames' = free \cup TableFrames
    /\ free' \cap TableFrames' = {}

LEMMA MapNextKeeps ==
    ASSUME PagesRunning, NEW t \in Thread, Mapping(t)
    PROVE  PagesInv'
<1> DEFINE m == mine[t]
           a == mine[t].page
           n == mine[t].n
           k == mine[t].i
           F == mine[t].frames
           X == a..(a + n - 1)
<1>1. /\ pc \in [Thread -> Step] /\ mine \in [Thread -> CallType] /\ m \in CallType
      /\ RegionsOK /\ PagesSplit /\ FramesSplit /\ CallsOK /\ stopped = "no"
  BY DEF PagesRunning, CallsOK
<1>2. pc[t] = "map" /\ MapNext(t) /\ virt' = virt /\ frPages' = frPages /\ stopped' = stopped
  BY DEF Mapping
<1>3. /\ a \in Nat /\ a # 0 /\ n \in Nat /\ k \in Nat /\ k < n
      /\ F \in SUBSET Nat /\ IsFiniteSet(F) /\ Cardinality(F) = n
      /\ Own[t] = X /\ ToUnmap(t) = {} /\ Held[t] = F /\ X \subseteq Page
      /\ DOMAIN map' = Page /\ \A x \in Page \ Own[t] : map'[x] = map[x]
      /\ \A j \in 0..k : map'[a + j] = Nth(F, j)
  BY <1>2, MapNextMaps
<1>4. RegionsOK'
  BY <1>1, <1>2, RegionsKept
<1>5. /\ free \cap LiveFrames = {} /\ LiveFrames \cap TableFrames = {}
      /\ F \cap (free \cup LiveFrames \cup TableFrames) = {}
  BY <1>1, <1>3 DEF FramesSplit, Split
<1>6. \/ /\ k + 1 # n
         /\ mine' = [mine EXCEPT ![t].i = @ + 1]
         /\ blocks' = blocks /\ pc' = pc
      \/ /\ k + 1 = n
         /\ blocks' = blocks \cup {[page |-> a, n |-> n]}
         /\ Return(t)
  BY <1>2 DEF MapNext
<1>7. CASE /\ k + 1 # n
           /\ mine' = [mine EXCEPT ![t].i = @ + 1]
           /\ blocks' = blocks /\ pc' = pc
  <2> DEFINE c == mine'[t]
  <2>1. c = [page |-> a, n |-> n, frames |-> F, i |-> k + 1]
    <3>1. c = [m EXCEPT !.i = k + 1]
      BY <1>1, <1>7
    <3> HIDE DEF c, m
    <3>2. QED
      BY <1>1, <3>1 DEF CallType, m
  <2>2. mine' = [mine EXCEPT ![t] = c]
    BY <1>1, <1>7
  <2> HIDE DEF c
  <2>3. c \in CallType /\ c.page = a /\ c.n = n /\ c.frames = F /\ c.i = k + 1
    <3>1. F \subseteq Frame
      BY CallFacts
    <3>2. QED
      BY <1>3, <2>1, <3>1 DEF CallType
  <2>4. mine'[t] = c /\ pc'[t] = "map"
    BY <1>2, <1>7 DEF c
  <2>5. StepOf(t)
    <3>1. mine' \in [Thread -> CallType] /\ \A u \in Thread \ {t} : mine'[u] = mine[u]
      BY <1>1, <2>2, <2>3
    <3>2. QED
      BY <1>1, <1>3, <1>7, <3>1 DEF StepOf
  <2>6. CallOK(t)'
    <3>1. c.i < c.n /\ c.n > 0
      BY <1>3, <1>7, <2>3
    <3>2. c.i - 1 = k
      BY <1>3, <2>3
    <3>3. \A j \in 0..(c.i - 1) : map'[c.page + j] = Nth(c.frames, j)
      BY <1>3, <2>3, <3>2
    <3>4. Cardinality(c.frames) = c.n /\ c.page # 0
      BY <1>3, <2>3
    <3>5. QED
      BY <2>4, <3>1, <3>3, <3>4 DEF CallOK
  <2>7. CallsOK'
    BY <1>1, <2>5, <2>6, CallsKept
  <2>8. Own'[t] = Own[t] /\ Held'[t] = F
    <3>1. Own'[t] = Pages(c) /\ Held'[t] = F
      BY <1>3, <2>3, <2>4, OwnIsThen
    <3>2. QED
      BY <1>3, <2>3, <3>1 DEF Pages
  <2>9. PagesSplit'
    BY <1>1, <1>2, <1>7, <2>5, <2>8, PagesKept
  <2>10. LiveFrames' = LiveFrames /\ OneToOne(map', LivePages')
    <3>1. ToUnmap(t)' = {}
      BY <2>4 DEF ToUnmap
    <3>2. BlockPages' = BlockPages
      BY <1>7 DEF BlockPages, Pages
    <3>3. QED
      BY <1>1, <1>2, <1>3, <2>5, <3>1, <3>2, LiveKept
  <2>11. FramesSplit'
    <3> DEFINE V == free
               L == LiveFrames
               T == TableFrames
    <3>1. /\ free' \cup TableFrames' = V \cup T /\ free' \cap TableFrames' = {}
          /\ OneToOne(tables', {i \in DOMAIN tables' : tables'[i] # EARLY})
      BY DEF Mapping
    <3>2. LiveFrames' = L /\ Held'[t] = F
      BY <2>8, <2>10
    <3>3. V \cap L = {} /\ L \cap T = {} /\ F \cap (V \cup L \cup T) = {}
      BY <1>5
    <3>4. /\ free' \cup LiveFrames' \cup TableFrames' \cup Held'[t] = V \cup L \cup T \cup F
          /\ free' \cap LiveFrames' = {} /\ free' \cap TableFrames' = {}
          /\ LiveFrames' \cap TableFrames' = {}
          /\ Held'[t] \cap (free' \cup LiveFrames' \cup TableFrames') = {}
      <4> HIDE DEF V, L, T, F
      <4>1. QED
        BY <3>1, <3>2, <3>3
    <3>5. free' \cup LiveFrames' \cup TableFrames' \cup Held'[t]
            = free \cup LiveFrames \cup TableFrames \cup Held[t]
      BY <1>3, <3>4
    <3>6. QED
      BY <1>1, <2>5, <2>10, <3>1, <3>4, <3>5, FramesChanged
  <2>12. QED
    BY <1>4, <2>7, <2>9, <2>11 DEF PagesInv
<1>8. CASE /\ k + 1 = n
           /\ blocks' = blocks \cup {[page |-> a, n |-> n]}
           /\ Return(t)
  <2> DEFINE b == [page |-> a, n |-> n]
  <2>1. mine' = [mine EXCEPT ![t] = Nothing] /\ pc' = [pc EXCEPT ![t] = "client"]
    BY <1>8 DEF Return, Goto
  <2>2. mine'[t] = Nothing /\ pc'[t] = "client"
    BY <1>1, <2>1
  <2>3. StepOf(t)
    <3>1. /\ mine' \in [Thread -> CallType] /\ \A u \in Thread \ {t} : mine'[u] = mine[u]
      BY <1>1, <2>1, NothingIs
    <3>2. pc' \in [Thread -> Step] /\ \A u \in Thread \ {t} : pc'[u] = pc[u]
      BY <1>1, <2>1 DEF Step
    <3>3. QED
      BY <1>3, <3>1, <3>2 DEF StepOf
  <2>4. CallOK(t)'
    BY <2>2, NothingIs DEF CallOK
  <2>5. CallsOK'
    BY <1>1, <2>3, <2>4, CallsKept
  <2>6. Own'[t] = {} /\ Held'[t] = {} /\ ToUnmap(t)' = {}
    BY <2>2, NothingIs, OwnIsThen DEF ToUnmap
  <2>7. b \in BlockType /\ Pages(b) = X
    BY <1>3 DEF BlockType, Pages
  <2>8. BlockPages' = BlockPages \cup X
    <3>1. BlockPages' = UNION {Pages(d) : d \in blocks'}
      BY DEF BlockPages, Pages
    <3>2. blocks' = blocks \cup {b}
      BY <1>8
    <3> DEFINE P == BlockPages
               Q == BlockPages'
    <3>3. \A x : x \in P <=> \E d \in blocks : x \in Pages(d)
      BY DEF BlockPages
    <3>4. \A x : x \in Q <=> \E d \in blocks' : x \in Pages(d)
      BY <3>1
    <3> HIDE DEF b, P, Q, X
    <3>5. \A x : x \in Q <=> x \in P \/ x \in Pages(b)
      BY <3>2, <3>3, <3>4
    <3>6. Q = P \cup X
      BY <2>7, <3>5
    <3>7. QED
      BY <3>6 DEF P, Q, X
  <2>9. X \cap (FreePages(virt) \cup frPages \cup BlockPages) = {}
    BY <1>1, <1>3 DEF PagesSplit, Split
  <2>10. /\ blocks' \in SUBSET BlockType
         /\ \A d, e \in blocks' : d # e => Pages(d) \cap Pages(e) = {}
    <3> DEFINE B == blocks
               C == blocks'
    <3>1. B \in SUBSET BlockType /\ \A d, e \in B : d # e => Pages(d) \cap Pages(e) = {}
      BY <1>1 DEF PagesSplit
    <3>2. C = B \cup {b}
      BY <1>8
    <3>3. \A d \in B : Pages(d) \cap Pages(b) = {}
      BY <1>1, <2>7, <2>9, BlockFacts
    <3> HIDE DEF b, B, C
    <3>4. C \in SUBSET BlockType
      BY <2>7, <3>1, <3>2
    <3>5. \A d, e \in C : d # e => Pages(d) \cap Pages(e) = {}
      BY <3>1, <3>2, <3>3
    <3>6. QED
      BY <3>4, <3>5 DEF C
  <2>11. PagesSplit'
    <3> DEFINE D == FreePages(virt')
               G == BlockPages'
               A == FreePages(virt)
               C == BlockPages
               R == frPages
    <3>1. D = A /\ G = C \cup X /\ frPages' = R
      BY <1>2, <2>8
    <3>2. A \cap R = {} /\ A \cap C = {} /\ R \cap C = {} /\ X \cap (A \cup R \cup C) = {}
      BY <1>1, <2>9 DEF PagesSplit, Split
    <3>3. D = FreePages(virt') /\ G = BlockPages' /\ Own[t] = X
      BY <1>3
    <3> HIDE DEF D, G, X, A, C, R
    <3>4. /\ D \cup frPages' \cup G \cup Own'[t] = A \cup R \cup C \cup Own[t]
          /\ D \cap frPages' = {} /\ D \cap G = {} /\ frPages' \cap G = {}
          /\ Own'[t] \cap (D \cup frPages' \cup G) = {}
      BY <2>6, <3>1, <3>2, <3>3
    <3>5. D \cup frPages' \cup G \cup Own'[t]
            = FreePages(virt) \cup frPages \cup BlockPages \cup Own[t]
      BY <3>4 DEF A, C, R
    <3>6. QED
      BY <1>1, <2>3, <2>10, <3>3, <3>4, <3>5, PagesChanged
  <2>12. LiveFrames' = LiveFrames \cup F /\ OneToOne(map', LivePages')
    <3> DEFINE L == LivePages
               M == LivePages'
               h == map
               g == map'
    <3>1. M = L \cup X
      <4>1. /\ LivePages = (frPages \ {AllocEnd}) \cup BlockPages \cup ToUnmap(t) \cup Rest(t)
            /\ LivePages' = (frPages' \ {AllocEnd}) \cup BlockPages' \cup ToUnmap(t)'
                              \cup Rest(t)
        BY <2>3, LiveIs
      <4> HIDE DEF X
      <4>2. QED
        BY <1>2, <1>3, <2>6, <2>8, <4>1
    <3>2. Agree(h, g, L) /\ OneToOne(h, L)
      <4>1. L \subseteq Page /\ L \cap Own[t] = ToUnmap(t)
        BY <1>1, LiveOwn
      <4>2. QED
        BY <1>1, <1>3, <4>1 DEF Agree, FramesSplit
    <3>3. OneToOne(g, X) /\ Image(g, X) = F
      <4>1. n - 1 = k
        BY <1>3, <1>8
      <4>2. \A j \in 0..(n - 1) : g[a + j] = Nth(F, j)
        BY <1>3, <4>1
      <4>3. X = a..(a + n - 1) /\ n = Cardinality(F)
        BY <1>3
      <4> HIDE DEF X, a, n, F, g
      <4>4. QED
        BY <1>3, <4>2, <4>3, MappedInOrder
    <3>4. LiveFrames = Image(h, L) /\ LiveFrames' = Image(g, M)
      BY DEF LiveFrames, Image
    <3> HIDE DEF L, M, h, g, X, F
    <3>5. Image(g, X) \cap Image(h, L) = {}
      BY <1>5, <3>3, <3>4
    <3>6. OneToOne(g, M) /\ Image(g, M) = Image(h, L) \cup Image(g, X)
      BY <3>1, <3>2, <3>3, <3>5, ImageMore
    <3>7. QED
      BY <3>3, <3>4, <3>6 DEF g, M
  <2>13. FramesSplit'
    <3> DEFINE V == free
               L == LiveFrames
               T == TableFrames
    <3>1. /\ free' \cup TableFrames' = V \cup T /\ free' \cap TableFrames' = {}
          /\ OneToOne(tables', {i \in DOMAIN tables' : tables'[i] # EARLY})
      BY DEF Mapping
    <3>2. LiveFrames' = L \cup F /\ Held'[t] = {}
      BY <2>6, <2>12
    <3>3. V \cap L = {} /\ L \cap T = {} /\ F \cap (V \cup L \cup T) = {}
      BY <1>5
    <3>4. /\ free' \cup LiveFrames' \cup TableFrames' \cup Held'[t] = V \cup L \cup T \cup F
          /\ free' \cap LiveFrames' = {} /\ free' \cap TableFrames' = {}
          /\ LiveFrames' \cap TableFrames' = {}
          /\ Held'[t] \cap (free' \cup LiveFrames' \cup TableFrames') = {}
      <4> HIDE DEF V, L, T, F
      <4>1. QED
        BY <3>1, <3>2, <3>3
    <3>5. free' \cup LiveFrames' \cup TableFrames' \cup Held'[t]
            = free \cup LiveFrames \cup TableFrames \cup Held[t]
      BY <1>3, <3>4
    <3>6. QED
      BY <1>1, <2>3, <2>12, <3>1, <3>4, <3>5, FramesChanged
  <2>14. QED
    BY <1>4, <2>5, <2>11, <2>13 DEF PagesInv
<1>9. QED
  BY <1>6, <1>7, <1>8

LEMMA MapPageKeeps ==
    ASSUME PagesRunning, NEW t \in Thread, MapPage(t)
    PROVE  PagesInv'
<1> DEFINE i == TableOf(mine[t].page + mine[t].i)
           S == Emergency(1)
<1>1. /\ pc[t] = "map" /\ virt' = virt /\ frPages' = frPages
  BY DEF MapPage, At
<1>2. /\ pc \in [Thread -> Step] /\ mine \in [Thread -> CallType] /\ DOMAIN map = Page
      /\ CallOK(t) /\ RegionsOK /\ PagesSplit /\ FramesSplit /\ CallsOK /\ stopped = "no"
  BY DEF PagesRunning, RegionsOK, CallsOK, FramesSplit
<1>3. /\ OneToOne(tables, {j \in DOMAIN tables : tables[j] # EARLY})
      /\ free \cap TableFrames = {} /\ free \subseteq Frame
  BY <1>2 DEF FramesSplit, Split
<1>4. \/ /\ i \in DOMAIN tables
         /\ MapNext(t)
         /\ UNCHANGED <<free, tables, stopped>>
      \/ /\ i \notin DOMAIN tables
         /\ Take(1, {"FA_EMERG"}, S)
         /\ \E f \in S : tables' = WithTable(i, f)
         /\ MapNext(t)
         /\ UNCHANGED stopped
      \/ Overdraw(1, {"FA_EMERG"})
  BY Zenon DEF MapPage
<1>5. CASE /\ i \in DOMAIN tables
           /\ MapNext(t)
           /\ UNCHANGED <<free, tables, stopped>>
  <2>1. free' = free /\ tables' = tables /\ stopped' = stopped
    BY <1>5
  <2>2. TableFrames' = TableFrames
    BY <2>1 DEF TableFrames
  <2>3. Mapping(t)
    BY <1>1, <1>3, <1>5, <2>1, <2>2 DEF Mapping
  <2>4. QED
    BY <2>3, MapNextKeeps
<1>6. CASE /\ i \notin DOMAIN tables
           /\ Take(1, {"FA_EMERG"}, S)
           /\ \E f \in S : tables' = WithTable(i, f)
           /\ MapNext(t)
           /\ UNCHANGED stopped
  <2>1. PICK f \in S : tables' = WithTable(i, f)
    BY <1>6
  <2>2. S \subseteq free /\ free' = free \ S
    BY <1>6 DEF Take
  <2>3. IsFiniteSet(S)
    <3>1. IsFiniteSet(Frame) /\ S \in SUBSET Frame
      BY <1>3, <2>2, FramePoolAssumption DEF Frame
    <3> HIDE DEF S
    <3>2. QED
      BY <3>1, FS_Subset
  <2> HIDE DEF S
  <2>4. Cardinality(S) = 1
    BY <1>2, <1>6, EmergencyTaken
  <2>5. S = {f}
    BY <2>1, <2>3, <2>4, OneOrTwo
  <2>6. f \in free /\ f \in Frame /\ f \notin TableFrames
    BY <1>3, <2>1, <2>2
  <2> HIDE DEF i
  <2>7. /\ OneToOne(tables', {j \in DOMAIN tables' : tables'[j] # EARLY})
        /\ TableFrames' = TableFrames \cup {f}
    BY <1>3, <1>6, <2>1, <2>6, TableAdded
  <2>8. /\ free' \cup TableFrames' = free \cup TableFrames
        /\ free' \cap TableFrames' = {}
    <3> DEFINE T == TableFrames
               A == free
    <3>1. free' = A \ {f} /\ TableFrames' = T \cup {f} /\ f \in A /\ A \cap T = {}
      BY <1>3, <2>2, <2>5, <2>6, <2>7
    <3> HIDE DEF T, A
    <3>2. free' \cup TableFrames' = A \cup T /\ free' \cap TableFrames' = {}
      BY <3>1
    <3>3. QED
      BY <3>2 DEF T, A
  <2>9. Mapping(t)
    BY <1>1, <1>6, <2>7, <2>8 DEF Mapping
  <2>10. QED
    BY <2>9, MapNextKeeps
<1>7. CASE Overdraw(1, {"FA_EMERG"})
  BY <1>1, <1>2, <1>7, OverdrawKeeps
<1>8. QED
  BY <1>4, <1>5, <1>6, <1>7

-----------------------------------------------------------------------------
(* The initial state.                                                      *)

\* The first region that is freed finds no descriptor; the second one does.
TwoRegions(a, n, b, m, w) ==
    /\ VirtOK(w) /\ w.spare + Len(w.byAddr) = RegionsPerFrame
    /\ FreePages(w) = (a + 1)..(a + n - 1) \cup b..(b + m - 1)

LEMMA FirstRegions ==
    ASSUME NEW a \in Nat, NEW n \in Nat \ {0}, NEW b \in Nat, NEW m \in Nat \ {0},
           b + m < a, RegionsPerFrame > 1,
           NEW v, v = FreeRegion(NoRegions, a, n), NEW w, w = FreeRegion(v, b, m)
    PROVE  TwoRegions(a, n, b, m, w)
<1> DEFINE o == NoRegions
<1>1. o.byAddr = <<>> /\ o.bySize = <<>> /\ o.spare = 0
  BY DEF NoRegions
<1>2. VirtOK(o)
  <2>1. o \in VirtType
    BY DEF NoRegions, VirtType
  <2>2. Len(<<>>) = 0
    OBVIOUS
  <2>3. QED
    BY <1>1, <2>1, <2>2 DEF VirtOK, GapsIn, BySizeBut
<1>3. FreePages(o) = {}
  <2>1. ToSet(<<>>) = {}
    BY DEF ToSet
  <2>2. QED
    BY <1>1, <2>1 DEF FreePages
<1>4. \A c : Below(o, c) = 0
  <2>1. <<>> \in Seq(RegionType) /\ Len(<<>>) = 0
    OBVIOUS
  <2> SUFFICES ASSUME NEW c PROVE Below(o, c) = 0
    OBVIOUS
  <2> DEFINE k == Below(o, c)
             S == {r \in ToSet(o.byAddr) : r.address <= c}
  <2>2. k = WalkLen(<<>>, S)
    BY <1>1 DEF Below
  <2> HIDE DEF k, S
  <2>3. k \in 0..0
    BY <2>1, <2>2, WalkLenFacts
  <2>4. QED
    BY <2>3 DEF k
<1>5. NeedsFrame(o, a, n)
  <2>1. ~EndsAt(o, Below(o, a), a)
    BY <1>4 DEF EndsAt
  <2>2. ~StartsAt(o, Below(o, a) + 1, a + n)
    <3>1. Len(o.byAddr) = 0
      BY <1>1
    <3>2. QED
      BY <1>4, <3>1 DEF StartsAt
  <2>3. QED
    BY <1>1, <2>1, <2>2 DEF NeedsFrame
<1>6. /\ VirtOK(v) /\ FreePages(v) = (a + 1)..(a + n - 1)
      /\ v.spare + Len(v.byAddr) = RegionsPerFrame
  <2>1. a..(a + n - 1) \cap FreePages(o) = {} /\ v = FreeRegion(o, a, n)
    BY <1>3
  <2>2. o.spare + Len(o.byAddr) + RegionsPerFrame = RegionsPerFrame
    <3>1. Len(o.byAddr) = 0 /\ o.spare = 0
      BY <1>1
    <3>2. QED
      BY <3>1, VirtRegionsAssumption
  <2> HIDE DEF o
  <2>3. /\ VirtOK(v) /\ FreePages(v) = FreePages(o) \cup (a + 1)..(a + n - 1)
        /\ v.spare + Len(v.byAddr) = o.spare + Len(o.byAddr) + RegionsPerFrame
    BY <1>2, <1>5, <2>1, FreeWithFrame
  <2>4. QED
    BY <1>3, <2>2, <2>3
<1>7. v.spare # 0
  <2> DEFINE u == [o EXCEPT !.spare = RegionsPerFrame]
  <2>1. u = [byAddr |-> <<>>, bySize |-> <<>>, spare |-> RegionsPerFrame]
    BY DEF NoRegions
  <2>2. v = IF n = 1 THEN u ELSE Insert(u, a + 1, n - 1)
    <3>1. v = InsertBehindFrame(o, a, n)
      <4>1. o = NoRegions /\ v = FreeRegion(o, a, n)
        OBVIOUS
      <4> HIDE DEF o
      <4>2. /\ Below(o, a) = Below(o, a) /\ ~EndsAt(o, Below(o, a), a)
            /\ ~StartsAt(o, Below(o, a) + 1, a + n)
        BY <1>5 DEF NeedsFrame
      <4>3. QED
        BY <1>5, <4>1, <4>2, FreeRegionIs
    <3>2. QED
      BY <3>1 DEF InsertBehindFrame
  <2> HIDE DEF u
  <2>3. u.spare = RegionsPerFrame /\ RegionsPerFrame \in Nat
    BY <2>1, VirtRegionsAssumption
  <2>4. Insert(u, a + 1, n - 1).spare = RegionsPerFrame - 1
    BY <2>1 DEF Insert, InsertSize
  <2>5. QED
    BY <2>2, <2>3, <2>4
<1>8. ~NeedsFrame(v, b, m)
  BY <1>7 DEF NeedsFrame
<1>9. b..(b + m - 1) \cap FreePages(v) = {}
  BY <1>6
<1>10. Freed(v, b, m, w)
  BY <1>6, <1>8, <1>9, FreeRegionOK
<1>11. QED
  BY <1>6, <1>10 DEF Freed, TwoRegions

LEMMA PagesStart == PagesInit => PagesInv
<1> SUFFICES ASSUME PagesInit PROVE PagesInv
  OBVIOUS
<1>1. /\ SetupBegin \in Nat /\ SetupEnd \in Nat /\ AllocEnd \in Nat /\ Top \in Nat
      /\ SetupBegin < SetupEnd /\ SetupEnd < AllocEnd /\ AllocEnd < Top
      /\ RegionsPerFrame \in Nat /\ RegionsPerFrame > 1
  BY GlobalPagesAssumption, VirtRegionsAssumption
<1>2. /\ virt = FreeRegion(FreeRegion(NoRegions, AllocEnd, Top - AllocEnd),
                           SetupBegin, SetupEnd - SetupBegin)
      /\ frPages = {AllocEnd} /\ free = Frame /\ stopped = "no" /\ blocks = {}
      /\ map = [p \in Page |-> IF p = AllocEnd THEN EARLY ELSE NONE]
      /\ pc = [t \in Thread |-> "client"] /\ mine = [t \in Thread |-> Nothing]
  BY DEF PagesInit
<1>3. PICK T \in EarlyTables : tables = [i \in T |-> EARLY]
  BY DEF PagesInit
<1>4. /\ VirtOK(virt) /\ virt.spare + Len(virt.byAddr) = RegionsPerFrame
      /\ FreePages(virt) = (AllocEnd + 1)..(Top - 1) \cup SetupBegin..(SetupEnd - 1)
  <2> DEFINE a == AllocEnd
             b == SetupBegin
             n == Top - AllocEnd
             m == SetupEnd - SetupBegin
             v == FreeRegion(NoRegions, a, n)
             w == FreeRegion(v, b, m)
  <2>1. /\ a \in Nat /\ b \in Nat /\ n \in Nat \ {0} /\ m \in Nat \ {0}
        /\ b + m < a /\ RegionsPerFrame > 1
        /\ a + n - 1 = Top - 1 /\ b + m - 1 = SetupEnd - 1
    BY <1>1
  <2>2. v = FreeRegion(NoRegions, a, n) /\ w = FreeRegion(v, b, m) /\ virt = w
    BY <1>2
  <2> HIDE DEF a, b, n, m, v, w
  <2>3. TwoRegions(a, n, b, m, w)
    BY <2>1, <2>2, FirstRegions
  <2>4. QED
    BY <2>1, <2>2, <2>3, Zenon DEF a, b, TwoRegions
<1>5. RegionsOK
  <2>1. IsFiniteSet(frPages) /\ Cardinality(frPages) = 1
    BY <1>2, FS_Singleton
  <2>2. RegionsPerFrame * 1 = RegionsPerFrame
    BY <1>1
  <2>3. QED
    BY <1>1, <1>2, <1>4, <2>1, <2>2 DEF RegionsOK
<1>6. ASSUME NEW t \in Thread
      PROVE  /\ mine[t] = Nothing /\ pc[t] = "client" /\ Own[t] = {} /\ Held[t] = {}
             /\ ToUnmap(t) = {}
  <2>1. mine[t] = Nothing /\ pc[t] = "client"
    BY <1>2
  <2>2. QED
    BY <2>1, NothingIs, OwnIs DEF ToUnmap
<1>7. CallsOK
  <2>1. ASSUME NEW t \in Thread PROVE CallOK(t)
    BY <1>6, NothingIs DEF CallOK
  <2>2. pc \in [Thread -> Step] /\ mine \in [Thread -> CallType]
    BY <1>2, NothingIs DEF Step
  <2>3. QED
    BY <2>1, <2>2 DEF CallsOK
<1>8. BlockPages = {}
  BY <1>2 DEF BlockPages
<1>9. PagesSplit
  <2> DEFINE A == FreePages(virt)
             K == KernelPages
  <2>1. A \cup {AllocEnd} = K /\ AllocEnd \notin A
    BY <1>1, <1>4 DEF KernelPages
  <2>2. frPages = {AllocEnd} /\ BlockPages = {} /\ \A t \in Thread : Own[t] = {}
    BY <1>2, <1>6, <1>8
  <2> HIDE DEF A, K
  <2>3. Split(A, frPages, BlockPages, Own, K)
    BY <2>1, <2>2 DEF Split
  <2>4. QED
    BY <1>2, <2>3 DEF PagesSplit, A, K
<1>10. LivePages = {}
  BY <1>2, <1>6, <1>8 DEF LivePages
<1>11. TableFrames = {} /\ {i \in DOMAIN tables : tables[i] # EARLY} = {}
  BY <1>3 DEF TableFrames
<1>12. FramesSplit
  <2>1. LiveFrames = {} /\ OneToOne(map, LivePages)
    BY <1>10 DEF LiveFrames, OneToOne
  <2>2. OneToOne(tables, {i \in DOMAIN tables : tables[i] # EARLY})
    BY <1>11 DEF OneToOne
  <2>3. Split(free, LiveFrames, TableFrames, Held, Frame)
    <3>1. free = Frame /\ LiveFrames = {} /\ TableFrames = {} /\ \A t \in Thread : Held[t] = {}
      BY <1>2, <1>6, <1>11, <2>1
    <3>2. QED
      BY <3>1 DEF Split
  <2>4. DOMAIN map = Page
    BY <1>2
  <2>5. QED
    BY <2>1, <2>2, <2>3, <2>4 DEF FramesSplit
<1>13. QED
  BY <1>5, <1>7, <1>9, <1>12 DEF PagesInv

LEMMA PagesStep == PagesInv /\ [PagesNext]_pageVars => PagesInv'
<1> SUFFICES ASSUME PagesInv, [PagesNext]_pageVars PROVE PagesInv'
  OBVIOUS
<1>1. CASE UNCHANGED pageVars
  <2>1. /\ free' = free /\ virt' = virt /\ frPages' = frPages /\ tables' = tables
        /\ map' = map /\ stopped' = stopped /\ blocks' = blocks /\ pc' = pc /\ mine' = mine
    BY <1>1 DEF pageVars, memVars
  <2>2. RegionsOK'
    BY <2>1, RegionsKept DEF PagesInv, RegionsOK
  <2>3. stopped' = "no" => CallsOK' /\ PagesSplit' /\ FramesSplit'
    <3>1. SUFFICES ASSUME stopped = "no" PROVE CallsOK' /\ PagesSplit' /\ FramesSplit'
      BY <2>1
    <3>2. CallsOK /\ PagesSplit /\ FramesSplit
      BY <3>1 DEF PagesInv
    <3>3. CallsOK'
      <4>1. ASSUME NEW t \in Thread PROVE CallOK(t)' <=> CallOK(t)
        BY <2>1 DEF CallOK, Nth
      <4>2. QED
        BY <2>1, <3>2, <4>1 DEF CallsOK
    <3>4. FreePages(virt)' = FreePages(virt) /\ BlockPages' = BlockPages /\ Own' = Own
      BY <2>1 DEF FreePages, Extent, EndOf, BlockPages, Own, Inside, Pages
    <3>5. PagesSplit'
      BY <2>1, <3>2, <3>4 DEF PagesSplit, Split, Pages, KernelPages, BlockType
    <3>6. LivePages' = LivePages
      <4>1. (UNION {ToUnmap(t) : t \in Thread})' = UNION {ToUnmap(t) : t \in Thread}
        BY <2>1 DEF ToUnmap
      <4>2. QED
        BY <2>1, <3>4, <4>1 DEF LivePages
    <3>7. LiveFrames' = LiveFrames /\ TableFrames' = TableFrames /\ Held' = Held
      BY <2>1, <3>6 DEF LiveFrames, TableFrames, Held
    <3>8. FramesSplit'
      BY <2>1, <3>2, <3>6, <3>7 DEF FramesSplit, Split, OneToOne, Frame, Page
    <3>9. QED
      BY <3>3, <3>5, <3>8
  <2>4. QED
    BY <2>2, <2>3 DEF PagesInv
<1>2. CASE stopped # "no"
  <2>1. ASSUME NEW t \in Thread, NEW l PROVE ~At(t, l)
    BY <1>2 DEF At
  <2>2. ~PagesNext \/ UNCHANGED pageVars
    BY <2>1 DEF PagesNext, AllocFrames, AllocVirt, MapPage, UndoFrames, FreeBlock, UnmapPage,
                FreePagesOf, FreeFrame
  <2>3. QED
    BY <1>1, <2>2
<1>3. CASE stopped = "no" /\ PagesNext
  <2>1. PagesRunning
    BY <1>3 DEF PagesRunning, PagesInv
  <2>2. PICK t \in Thread :
          \/ \E n \in 1..MaxPages, fl \in {{}, {"FA_EMERG"}} : AllocFrames(t, n, fl)
          \/ AllocVirt(t) \/ MapPage(t) \/ UndoFrames(t)
          \/ FreeBlock(t) \/ UnmapPage(t) \/ FreePagesOf(t) \/ FreeFrame(t)
    BY <1>3 DEF PagesNext
  <2>3. CASE \E n \in 1..MaxPages, fl \in {{}, {"FA_EMERG"}} : AllocFrames(t, n, fl)
    <3>1. PICK n \in 1..MaxPages, fl \in {{}, {"FA_EMERG"}} : AllocFrames(t, n, fl)
      BY <2>3
    <3>2. RegionsOK /\ UNCHANGED <<virt, frPages>>
      BY <2>1, <3>1 DEF PagesRunning, AllocFrames
    <3>3. QED
      BY <2>1, <3>1, <3>2, AllocFramesKeeps, OverdrawKeeps
  <2>4. CASE AllocVirt(t)
    BY <2>1, <2>4, AllocVirtKeeps
  <2>5. CASE MapPage(t)
    BY <2>1, <2>5, MapPageKeeps
  <2>6. CASE UndoFrames(t)
    BY <2>1, <2>6, UndoFramesKeeps
  <2>8. CASE FreeBlock(t)
    BY <2>1, <2>8, FreeBlockKeeps
  <2>9. CASE UnmapPage(t)
    BY <2>1, <2>9, UnmapPageKeeps
  <2>10. CASE FreePagesOf(t)
    BY <2>1, <2>10, FreePagesOfKeeps
  <2>11. CASE FreeFrame(t)
    BY <2>1, <2>11, FreeFrameKeeps
  <2>12. QED
    BY <2>2, <2>3, <2>4, <2>5, <2>6, <2>8, <2>9, <2>10, <2>11
<1>4. QED
  BY <1>1, <1>2, <1>3

-----------------------------------------------------------------------------

\* The pages and the frames are split between their owners until an allocator
\* gives what it does not have (stopped), and the lists of free regions are in
\* order at all times, whatever memory there is and however many threads
\* allocate.
THEOREM PagesInvariant == PagesSpec => []PagesInv
<1>1. PagesInit => PagesInv
  BY PagesStart
<1>2. PagesInv /\ [PagesNext]_pageVars => PagesInv'
  BY PagesStep
<1>3. QED
  BY <1>1, <1>2, PTL DEF PagesSpec

\* The two lists of free regions agree, are in order, and have no region
\* twice, overlapping or unmerged; no descriptor is lost (memory/virt.c).
THEOREM RegionsAgree == PagesSpec => []RegionsExact
<1>1. PagesInv => RegionsExact
  BY WellFormedFrom DEF PagesInv, RegionsOK, RegionsExact
<1>2. QED
  BY <1>1, PagesInvariant, PTL

\* kmem_page_global_alloc and kmem_page_global_free neither lose a page nor
\* give one to two owners, as long as no request asks for more pages than the
\* largest region has or for more frames than low memory has left; and no page
\* is ever freed that is free.
THEOREM PagesHaveOneOwner == PagesSpec => []PagesAccounted
<1>1. PagesInv => PagesAccounted
  <2> SUFFICES ASSUME PagesInv PROVE PagesAccounted
    OBVIOUS
  <2>1. stopped # "misuse"
    BY DEF PagesInv, RegionsOK
  <2>2. SUFFICES ASSUME stopped = "no"
        PROVE  /\ FreePages(virt) \cup frPages \cup BlockPages \cup InsidePages = KernelPages
               /\ FreePages(virt) \cap (frPages \cup BlockPages \cup InsidePages) = {}
               /\ frPages \cap (BlockPages \cup InsidePages) = {}
               /\ BlockPages \cap InsidePages = {}
               /\ \A b, c \in blocks : b # c => Pages(b) \cap Pages(c) = {}
               /\ \A t, u \in Inside : t # u => Pages(mine[t]) \cap Pages(mine[u]) = {}
    BY <2>1 DEF PagesAccounted, KernelPages
  <2>3. PagesSplit
    BY <2>2 DEF PagesInv
  <2>4. \A t \in Thread : Own[t] = IF t \in Inside THEN Pages(mine[t]) ELSE {}
    BY DEF Own
  <2>5. InsidePages = UNION {Own[t] : t \in Thread}
    <3>1. \A t \in Inside : t \in Thread /\ Own[t] = Pages(mine[t])
      BY <2>4 DEF Inside
    <3>2. ASSUME NEW x \in InsidePages PROVE \E t \in Thread : x \in Own[t]
      BY <3>1 DEF InsidePages
    <3>3. ASSUME NEW t \in Thread, NEW x \in Own[t] PROVE x \in InsidePages
      BY <2>4 DEF InsidePages
    <3>4. QED
      BY <3>2, <3>3
  <2> DEFINE A == FreePages(virt)
             B == frPages
             C == BlockPages
             I == InsidePages
  <2>6. /\ A \cup B \cup C \cup I = KernelPages
        /\ A \cap B = {} /\ A \cap C = {} /\ B \cap C = {}
    BY <2>3, <2>5 DEF PagesSplit, Split
  <2>7. I \cap (A \cup B \cup C) = {}
    <3>1. \A t \in Thread : Own[t] \cap (A \cup B \cup C) = {}
      BY <2>3 DEF PagesSplit, Split
    <3>2. I = UNION {Own[t] : t \in Thread}
      BY <2>5
    <3> HIDE DEF A, B, C, I
    <3>3. QED
      BY <3>1, <3>2
  <2>8. \A b, c \in blocks : b # c => Pages(b) \cap Pages(c) = {}
    BY <2>3 DEF PagesSplit
  <2>9. \A t, u \in Inside : t # u => Pages(mine[t]) \cap Pages(mine[u]) = {}
    <3>1. \A t, u \in Thread : t # u => Own[t] \cap Own[u] = {}
      BY <2>3 DEF PagesSplit, Split
    <3>2. \A t \in Inside : t \in Thread /\ Own[t] = Pages(mine[t])
      BY <2>4 DEF Inside
    <3>3. QED
      BY <3>1, <3>2
  <2> HIDE DEF A, B, C, I
  <2>10. /\ A \cap (B \cup C \cup I) = {} /\ B \cap (C \cup I) = {} /\ C \cap I = {}
    BY <2>6, <2>7
  <2>11. QED
    BY <2>6, <2>8, <2>9, <2>10 DEF A, B, C, I
<1>2. QED
  BY <1>1, PagesInvariant, PTL

\* No frame leaks and none is behind two pages, two page tables or in two
\* hands, also when an allocation fails for want of frames or of a region.
\* Until a request overdraws low memory, that is: it is given a frame of the
\* kernel's image and frame 0 (memory/phys.c, lines 110 to 122), and nothing is
\* said from there on.
THEOREM FramesHaveOneOwner == PagesSpec => []FramesAccounted
<1>1. PagesInv => FramesAccounted
  <2> SUFFICES ASSUME PagesInv, stopped = "no"
      PROVE  /\ free \cup LiveFrames \cup TableFrames \cup InsideFrames = Frame
             /\ free \cap (LiveFrames \cup TableFrames \cup InsideFrames) = {}
             /\ LiveFrames \cap (TableFrames \cup InsideFrames) = {}
             /\ TableFrames \cap InsideFrames = {}
             /\ \A p, q \in LivePages : map[p] = map[q] => p = q
             /\ \A i, j \in DOMAIN tables :
                  tables[i] = tables[j] /\ tables[i] # EARLY => i = j
             /\ \A t, u \in Thread : t # u => mine[t].frames \cap mine[u].frames = {}
    BY DEF FramesAccounted
  <2>1. FramesSplit
    BY DEF PagesInv
  <2>2. \A t \in Thread : Held[t] = mine[t].frames
    BY DEF Held
  <2> DEFINE A == free
             B == LiveFrames
             C == TableFrames
             I == InsideFrames
  <2>3. I = UNION {Held[t] : t \in Thread}
    BY <2>2 DEF InsideFrames
  <2>4. /\ A \cup B \cup C \cup I = Frame
        /\ A \cap B = {} /\ A \cap C = {} /\ B \cap C = {}
    BY <2>1, <2>3 DEF FramesSplit, Split
  <2>5. I \cap (A \cup B \cup C) = {}
    <3>1. \A t \in Thread : Held[t] \cap (A \cup B \cup C) = {}
      BY <2>1 DEF FramesSplit, Split
    <3> HIDE DEF A, B, C, I
    <3>2. QED
      BY <2>3, <3>1
  <2>6. \A t, u \in Thread : t # u => mine[t].frames \cap mine[u].frames = {}
    <3>1. \A t, u \in Thread : t # u => Held[t] \cap Held[u] = {}
      BY <2>1 DEF FramesSplit, Split
    <3>2. QED
      BY <2>2, <3>1
  <2>7. \A p, q \in LivePages : map[p] = map[q] => p = q
    BY <2>1 DEF FramesSplit, OneToOne
  <2>8. \A i, j \in DOMAIN tables : tables[i] = tables[j] /\ tables[i] # EARLY => i = j
    BY <2>1 DEF FramesSplit, OneToOne
  <2> HIDE DEF A, B, C, I
  <2>9. /\ A \cap (B \cup C \cup I) = {} /\ B \cap (C \cup I) = {} /\ C \cap I = {}
    BY <2>4, <2>5
  <2>10. QED
    BY <2>4, <2>6, <2>7, <2>8, <2>9 DEF A, B, C, I
<1>2. QED
  BY <1>1, PagesInvariant, PTL

=============================================================================
