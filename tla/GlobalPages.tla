---------------------------- MODULE GlobalPages -----------------------------
(***************************************************************************)
(* Kernel memory: kmem_page_global_alloc and kmem_page_global_free of      *)
(* memory/page.c, over the frames (FramePool), the free virtual regions    *)
(* (VirtRegions) and the page tables of memory/page_pae.c.                 *)
(*                                                                         *)
(* Each of the three is under a spinlock of its own, and between the steps *)
(* of an allocation none is held, so threads interleave there; an action   *)
(* is one locked section.  Frames of a class are interchangeable, so the   *)
(* least ones are given and an array of them is a set.  Access bits and    *)
(* the flushing of the TLB are left out.                                   *)
(***************************************************************************)
EXTENDS FramePool, VirtRegions

CONSTANTS
    Thread,         \* the threads that allocate kernel memory
    AllocEnd, Top,  \* kmem_page_resv_end and the end of the address space
    SetupBegin, SetupEnd,   \* _ld_setup_begin and _ld_setup_end, mapped high
    PagesPerTable,  \* PT_SIZE
    EarlyTables,    \* the sets of tables that there may be to begin with
    MaxPages,       \* bound: the pages of one allocation
    NONE,           \* not mapped
    EARLY           \* memory taken while the kernel came up, not in Frame

ASSUME GlobalPagesAssumption ==
    /\ {SetupBegin, SetupEnd, AllocEnd, Top} \subseteq Nat
    /\ 0 < SetupBegin /\ SetupBegin < SetupEnd
    /\ SetupEnd < AllocEnd /\ AllocEnd < Top
    /\ RegionsPerFrame > 1
    \* frames are numbered in the order in which they are given
    /\ Frame \subseteq Nat /\ \A l \in Low, f \in Frame \ Low : f < l
    /\ {NONE, EARLY} \cap Frame = {}
    /\ \A T \in EarlyTables : {SetupBegin \div PagesPerTable, AllocEnd \div PagesPerTable} \subseteq T
    /\ PagesPerTable \in Nat \ {0} /\ MaxPages \in Nat

VARIABLES
    virt,       \* the record of VirtRegions
    frPages,    \* the pages of descriptors
    tables,     \* tables[i], the frame of the i-th page table, if it exists
    map,        \* map[p], the frame that page p is mapped to, or NONE
    blocks,     \* the allocations that were returned and not freed
    pc,         \* pc[t], where t is in its call
    mine,       \* mine[t], what t has in its call: the address of n pages, or
                \* 0; their frames; and how many pages it is through with
    stopped     \* "no"; after crash() "misuse", for what it was called; or what
                \* the allocators below do not notice and the model does not
                \* follow: "overrun", when a region was given that is too small,
                \* and "overdrawn", when frames were given that are not free

memVars == <<free, virt, frPages, tables, map, stopped>>
pageVars == <<memVars, blocks, pc, mine>>

Nothing == [page |-> 0, n |-> 0, frames |-> {}, i |-> 0]

Pages(b) == b.page..(b.page + b.n - 1)
Page == SetupBegin..(Top - 1)
TableOf(p) == p \div PagesPerTable
\* The k least frames of S, and the one that comes after k others.
LeastOf(S, k) == {f \in S : Cardinality({g \in S : g < f}) < k}
Nth(S, k) == CHOOSE f \in S : Cardinality({g \in S : g < f}) = k

\* k frames for a request that must not fail, and then does not.
Emergency(k) == LeastOf(free, k)

\* kmem_virt_init: the first region is freed when there are no descriptors,
\* so its first page becomes a page of them, for good.
PagesInit ==
    /\ virt = FreeRegion(FreeRegion(NoRegions, AllocEnd, Top - AllocEnd),
                         SetupBegin, SetupEnd - SetupBegin)
    /\ frPages = {AllocEnd}
    /\ \E T \in EarlyTables : tables = [i \in T |-> EARLY]
    /\ free = Frame
    /\ map = [p \in Page |-> IF p = AllocEnd THEN EARLY ELSE NONE]
    /\ stopped = "no"
    /\ blocks = {}
    /\ pc = [t \in Thread |-> "client"]
    /\ mine = [t \in Thread |-> Nothing]

\* t is at l, or goes on to l, or returns.
At(t, l) == stopped = "no" /\ pc[t] = l
Goto(t, l) == pc' = [pc EXCEPT ![t] = l]
Return(t) == Goto(t, "client") /\ mine' = [mine EXCEPT ![t] = Nothing]

-----------------------------------------------------------------------------
(* kmem_page_global_alloc                                                  *)

\* A request for n frames is given frames that are not free.
Overdraw(n, fl) ==
    /\ Overdrawn(n, fl)
    /\ stopped' = "overdrawn"
    /\ UNCHANGED free

\* kmem_frame_alloc_many, for n pages.
AllocFrames(t, n, fl) ==
    /\ At(t, "client")
    /\ \/ \E k \in 0..n :
            LET S == LeastOf(free \cap Usable(fl), k) IN
            /\ k <= FreeOf(Usable(fl))
            /\ Take(n, fl, S)
            /\ mine' = [mine EXCEPT ![t] = [Nothing EXCEPT !.n = n, !.frames = S]]
            /\ Goto(t, IF k = n THEN "virt" ELSE "undo frames")
            /\ UNCHANGED stopped
       \/ Overdraw(n, fl) /\ UNCHANGED <<mine, pc>>
    /\ UNCHANGED <<virt, frPages, tables, map, blocks>>

\* kmem_virt_alloc.  _alloc_region fails when there is no region left, but
\* does not look whether the pages fit the largest: its size wraps around and
\* pages are given out that are not free.  The model ends there.
AllocVirt(t) ==
    LET n == mine[t].n IN
    /\ At(t, "virt")
    /\ \/ /\ virt.byAddr = <<>>
          /\ Goto(t, "undo frames")
          /\ UNCHANGED <<virt, mine, stopped>>
       \/ /\ virt.byAddr # <<>>
          /\ SizeOf(virt, Head(virt.bySize)) >= n
          /\ virt' = AllocRegion(virt, n)
          /\ mine' = [mine EXCEPT ![t].page = Chosen(virt, n)]
          /\ Goto(t, "map")
          /\ UNCHANGED stopped
       \/ /\ virt.byAddr # <<>>
          /\ SizeOf(virt, Head(virt.bySize)) < n
          /\ stopped' = "overrun"
          /\ UNCHANGED <<virt, mine, pc>>
    /\ UNCHANGED <<free, frPages, tables, map, blocks>>

\* _alloc_page_table_global: f becomes the i-th table.
WithTable(i, f) == [j \in {i} \cup DOMAIN tables |-> IF j = i THEN f ELSE tables[j]]

\* kmem_page_global_map of the next page, its table being there; after the
\* last one the allocation is returned.
MapNext(t) ==
    LET p == mine[t].page + mine[t].i
        last == mine[t].i + 1 = mine[t].n
    IN /\ map' = [map EXCEPT ![p] = Nth(mine[t].frames, mine[t].i)]
       /\ \/ /\ last
             /\ blocks' = blocks \cup {[page |-> mine[t].page, n |-> mine[t].n]}
             /\ Return(t)
          \/ /\ ~last
             /\ mine' = [mine EXCEPT ![t].i = @ + 1]
             /\ UNCHANGED <<blocks, pc>>

\* The same, with _alloc_page_table_global where there is no table.  It would
\* fail without a frame for it, which is never reported: the way back from
\* there (page.c:236 to 242) is not reached.
MapPage(t) ==
    LET i == TableOf(mine[t].page + mine[t].i)
        S == Emergency(1)
    IN /\ At(t, "map")
       /\ \/ /\ i \in DOMAIN tables
             /\ MapNext(t)
             /\ UNCHANGED <<free, tables, stopped>>
          \/ /\ i \notin DOMAIN tables
             /\ Take(1, {"FA_EMERG"}, S)
             /\ \E f \in S : tables' = WithTable(i, f)
             /\ MapNext(t)
             /\ UNCHANGED stopped
          \/ /\ i \notin DOMAIN tables
             /\ Overdraw(1, {"FA_EMERG"})
             /\ UNCHANGED <<tables, map, blocks, pc, mine>>
       /\ UNCHANGED <<virt, frPages>>

\* Mutant of UndoFrames: frames of a request that was cut short are kept.
BugUndoFrames(t) ==
    /\ At(t, "undo frames")
    /\ IF Cardinality(mine[t].frames) < mine[t].n
         THEN UNCHANGED free ELSE Give(mine[t].frames)
    /\ Return(t)
    /\ UNCHANGED <<virt, frPages, tables, map, stopped, blocks>>

\* kmem_frame_free_many on the way out of an allocation that failed, for want
\* of frames or of a region.
UndoFrames(t) ==
    /\ At(t, "undo frames")
    /\ Give(mine[t].frames)
    /\ Return(t)
    /\ UNCHANGED <<virt, frPages, tables, map, stopped, blocks>>

\* kmem_virt_free of what t has.  A new page of descriptors takes a frame,
\* and another one if its page table is missing.  (The crash() for want of
\* them is not reached.)
FreeVirt(t) ==
    LET b == mine[t]
        table == TableOf(b.page)
        need == IF table \in DOMAIN tables THEN 1 ELSE 2
        S == Emergency(need)
    IN \/ /\ AlreadyFree(virt, b.page)
          /\ stopped' = "misuse"
          /\ UNCHANGED <<free, virt, frPages, tables, map>>
       \/ /\ ~AlreadyFree(virt, b.page)
          /\ ~NeedsFrame(virt, b.page, b.n)
          /\ virt' = FreeRegion(virt, b.page, b.n)
          /\ UNCHANGED <<free, frPages, tables, map, stopped>>
       \/ /\ ~AlreadyFree(virt, b.page)
          /\ NeedsFrame(virt, b.page, b.n)
          /\ Take(need, {"FA_EMERG"}, S)
          /\ \E f, g \in S :
               /\ need = 2 => f # g
               /\ f <= g
               /\ map' = [map EXCEPT ![b.page] = f]
               /\ tables' = IF need = 2 THEN WithTable(table, g) ELSE tables
          /\ frPages' = frPages \cup {b.page}
          /\ virt' = FreeRegion(virt, b.page, b.n)
          /\ UNCHANGED stopped
       \/ /\ ~AlreadyFree(virt, b.page)
          /\ NeedsFrame(virt, b.page, b.n)
          /\ Overdraw(need, {"FA_EMERG"})
          /\ UNCHANGED <<virt, frPages, tables, map>>

-----------------------------------------------------------------------------
(* kmem_page_global_free                                                   *)

\* A caller gives up one of its allocations.
FreeBlock(t) ==
    \E b \in blocks :
      /\ At(t, "client")
      /\ blocks' = blocks \ {b}
      /\ mine' = [mine EXCEPT ![t] = [Nothing EXCEPT !.page = b.page, !.n = b.n]]
      /\ Goto(t, "unmap")
      /\ UNCHANGED memVars

\* kmem_page_global_get and kmem_page_global_unmap of the next page.  Two
\* locked sections, but the page is nobody else's in between.
UnmapPage(t) ==
    LET p == mine[t].page + mine[t].i IN
    /\ At(t, "unmap")
    /\ \/ /\ map[p] = NONE
          /\ stopped' = "misuse"
          /\ UNCHANGED <<map, mine, pc>>
       \/ /\ map[p] # NONE
          /\ map' = [map EXCEPT ![p] = NONE]
          /\ mine' = [mine EXCEPT ![t].i = @ + 1, ![t].frames = @ \cup {map[p]}]
          /\ IF mine'[t].i = mine[t].n THEN Goto(t, "free virt") ELSE UNCHANGED pc
          /\ UNCHANGED stopped
    /\ UNCHANGED <<free, virt, frPages, tables, blocks>>

\* kmem_virt_free
FreePagesOf(t) ==
    /\ At(t, "free virt")
    /\ FreeVirt(t)
    /\ Goto(t, "free frames")
    /\ UNCHANGED <<blocks, mine>>

\* kmem_frame_free of the next frame.
FreeFrame(t) ==
    LET first == LeastOf(mine[t].frames, 1) IN
    /\ At(t, "free frames")
    /\ Give(first)
    /\ IF mine[t].frames = first THEN Return(t)
       ELSE mine' = [mine EXCEPT ![t].frames = @ \ first] /\ UNCHANGED pc
    /\ UNCHANGED <<virt, frPages, tables, map, stopped, blocks>>

PagesNext ==
    \/ \E t \in Thread :
         \/ \E n \in 1..MaxPages, fl \in {{}, {"FA_EMERG"}} : AllocFrames(t, n, fl)
         \/ AllocVirt(t) \/ MapPage(t) \/ UndoFrames(t)
         \/ FreeBlock(t) \/ UnmapPage(t) \/ FreePagesOf(t) \/ FreeFrame(t)
    \/ stopped # "no" /\ UNCHANGED pageVars

PagesSpec == PagesInit /\ [][PagesNext]_pageVars

-----------------------------------------------------------------------------

\* The threads whose pages are neither free nor an allocation.
Inside == {t \in Thread : mine[t].page # 0 /\ pc[t] # "free frames"}

\* The pages that t has yet to unmap.
ToUnmap(t) == IF pc[t] = "unmap" THEN (mine[t].page + mine[t].i)..(mine[t].page + mine[t].n - 1)
                                 ELSE {}

\* Who has the pages, and who the frames.
BlockPages == UNION {Pages(b) : b \in blocks}
InsidePages == UNION {Pages(mine[t]) : t \in Inside}
LivePages == (frPages \ {AllocEnd}) \cup BlockPages \cup UNION {ToUnmap(t) : t \in Thread}
LiveFrames == {map[p] : p \in LivePages}
TableFrames == {tables[i] : i \in DOMAIN tables} \ {EARLY}
InsideFrames == UNION {mine[t].frames : t \in Thread}

\* The two lists of free regions agree, whatever was allocated and freed in
\* whatever order: by address without overlap, with no two regions that
\* should have been merged; by size from the largest down, on which the
\* choice of _alloc_region rests; and no descriptor is lost.
RegionsExact ==
    /\ WellFormed(virt)
    /\ virt.spare + Len(virt.byAddr) = RegionsPerFrame * Cardinality(frPages)

\* No page is allocated twice or lost: every page of the kernel's regions is
\* free, or in one allocation, or with one thread inside a call, or has the
\* descriptors of free regions, until an allocator below gives what it does not
\* have (stopped).  And no caller is taken for one that frees what it does not
\* have.
PagesAccounted ==
    /\ stopped # "misuse"
    /\ stopped = "no" =>
      /\ FreePages(virt) \cup frPages \cup BlockPages \cup InsidePages
           = (SetupBegin..(SetupEnd - 1)) \cup (AllocEnd..(Top - 1))
      /\ FreePages(virt) \cap (frPages \cup BlockPages \cup InsidePages) = {}
      /\ frPages \cap (BlockPages \cup InsidePages) = {}
      /\ BlockPages \cap InsidePages = {}
      /\ \A b, c \in blocks : b # c => Pages(b) \cap Pages(c) = {}
      /\ \A t, u \in Inside : t # u => Pages(mine[t]) \cap Pages(mine[u]) = {}

\* No frame leaks and none is in two places: every frame is free, or behind
\* one page of a live allocation or of descriptors, or one page table, or on
\* its way through one thread, also where an allocation fails for want of
\* frames or of a region.  Every page of a live allocation is mapped.  That
\* holds until low memory is overdrawn, from when on frames are given that are
\* the kernel's own (stopped).
FramesAccounted ==
    stopped = "no" =>
      /\ free \cup LiveFrames \cup TableFrames \cup InsideFrames = Frame
      /\ free \cap (LiveFrames \cup TableFrames \cup InsideFrames) = {}
      /\ LiveFrames \cap (TableFrames \cup InsideFrames) = {}
      /\ TableFrames \cap InsideFrames = {}
      /\ \A p, q \in LivePages : map[p] = map[q] => p = q
      /\ \A i, j \in DOMAIN tables : tables[i] = tables[j] /\ tables[i] # EARLY => i = j
      /\ \A t, u \in Thread : t # u => mine[t].frames \cap mine[u].frames = {}
=============================================================================
