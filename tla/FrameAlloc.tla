----------------------------- MODULE FrameAlloc -----------------------------
(***************************************************************************)
(* The physical frame allocator of memory/phys.c: three stacks of free     *)
(* frames that keep their own pages in free frames, the emergency stack,   *)
(* and the start-up that fills them from the memory map.                   *)
(*                                                                         *)
(* Every operation runs under free_stack_lock, so each is one step.  A     *)
(* stack is seen through one mapped page; mem has the contents of all      *)
(* frames that such a page was ever put in, and a frame that is handed out *)
(* loses its contents.  Addresses are counted in frames.  PAE is always    *)
(* enabled, kmem_page_init crashes without it.  FA_WAIT, which no caller   *)
(* passes, is left out.                                                    *)
(***************************************************************************)
EXTENDS Naturals, Sequences, FiniteSets

CONSTANTS
    LowEnd,         \* the frame at 1MiB
    HighBegin,      \* the frame at 4GiB
    FrameEnd,       \* the end of memory
    StackFrames,    \* FRAMES_PER_STACK_FRAME
    EmergStackSize, \* EMERG_STACK_SIZE
    KernelPage,     \* KernelPage[c], the frame of the stack's page in the image
    BootMaps,       \* the memory maps to start with: the regions that are usable
                    \* and reserved, each <<start, end>>
    MaxMany         \* bound: frames in one request

ASSUME FrameAllocAssumption ==
    /\ 0 < LowEnd /\ LowEnd <= HighBegin /\ HighBegin <= FrameEnd
    /\ StackFrames \in Nat \ {0} /\ EmergStackSize \in Nat /\ MaxMany \in Nat
    /\ KernelPage \in [{"low", "free", "high"} -> LowEnd..(HighBegin - 1)]
    /\ {LowEnd, HighBegin, FrameEnd} \subseteq Nat

Class == {"low", "free", "high"}
In(f, regions) == \E i \in DOMAIN regions : regions[i][1] <= f /\ f < regions[i][2]

\* What the loader gives: usable regions that do not overlap.  The image of the
\* kernel, which is reserved, has a page for each stack.
ASSUME BootMapAssumption ==
    /\ \A c, d \in Class : KernelPage[c] = KernelPage[d] => c = d
    /\ \A b \in BootMaps :
         /\ b.usable \in Seq((0..FrameEnd) \X (0..FrameEnd))
         /\ b.reserved \in Seq(Nat \X Nat)
         /\ \A i \in DOMAIN b.usable : b.usable[i][1] <= b.usable[i][2]
         /\ \A i \in DOMAIN b.reserved : b.reserved[i][1] <= b.reserved[i][2]
         /\ \A i, j \in DOMAIN b.usable : i # j =>
              b.usable[i][2] <= b.usable[j][1] \/ b.usable[j][2] <= b.usable[i][1]
         /\ \A c \in Class : In(KernelPage[c], b.reserved)

VARIABLES
    pool,       \* the allocator: page, top of each stack, mem, emerg, count
    held,       \* the frames that were handed out
    bootMap,    \* the memory map
    work        \* the regions that the start-up has yet to push

vars == <<pool, held, bootMap, work>>

FRAME_NULL == FrameEnd
Elements(s) == {s[i] : i \in DOMAIN s}
FirstIndex(S) == CHOOSE i \in S : \A j \in S : i <= j

ClassOf(f) == IF f < LowEnd THEN "low" ELSE IF f >= HighBegin THEN "high" ELSE "free"

\* A frame that is not part of a stack; its contents do not matter.
Blank == [next |-> FRAME_NULL, frames |-> [i \in 1..StackFrames |-> FRAME_NULL]]

\* kmem_phys_init: low_stack is left as the loader cleared it, all zero.
Init ==
    /\ bootMap \in BootMaps
    /\ work = bootMap.usable
    /\ held = {}
    /\ pool = [page |-> KernelPage,
               top |-> [c \in Class |-> 0],
               mem |-> [f \in 0..FrameEnd |->
                          IF f = KernelPage["low"] THEN [Blank EXCEPT !.next = 0]
                                                   ELSE Blank],
               emerg |-> <<>>,
               count |-> 0]

-----------------------------------------------------------------------------

\* Mutant of PushStack: the new page does not link to the old one.
BugPushStack(p, c, f) ==
    IF p.top[c] # StackFrames
      THEN [p EXCEPT !.mem[p.page[c]].frames[p.top[c] + 1] = f, !.top[c] = @ + 1]
      ELSE [p EXCEPT !.page[c] = f, !.top[c] = 0]

\* _push_free_frame_stack: onto a page that is full, f becomes the next page.
PushStack(p, c, f) ==
    IF p.top[c] # StackFrames
      THEN [p EXCEPT !.mem[p.page[c]].frames[p.top[c] + 1] = f, !.top[c] = @ + 1]
      ELSE [p EXCEPT !.page[c] = f, !.top[c] = 0, !.mem[f].next = p.page[c]]

\* _push_free_frame
PushFrame(p, f) ==
    LET q == [p EXCEPT !.count = @ + 1] IN
    IF ClassOf(f) = "free" /\ Len(p.emerg) # EmergStackSize
      THEN [q EXCEPT !.emerg = Append(@, f)]
      ELSE PushStack(q, ClassOf(f), f)

\* What a pop returns: the allocator after it and the frame.
Popped(p, f) == [pool |-> [p EXCEPT !.count = @ - 1], frame |-> f]
NothingPopped(p) == [pool |-> p, frame |-> FRAME_NULL]

\* _pop_free_frame: from an empty page, the page itself, and the one it links
\* to is mapped in its place.
PopStack(p, c) ==
    LET page == p.page[c]
        top == p.top[c]
    IN IF top # 0
         THEN Popped([p EXCEPT !.mem[page].frames[top] = FRAME_NULL, !.top[c] = @ - 1],
                     p.mem[page].frames[top])
       ELSE IF p.mem[page].next # FRAME_NULL
         THEN Popped([p EXCEPT !.mem[page] = Blank, !.top[c] = StackFrames,
                               !.page[c] = p.mem[page].next], page)
       ELSE NothingPopped(p)

\* _pop_emerg_frame
PopEmerg(p) ==
    LET n == Len(p.emerg) IN
    IF n # 0 THEN Popped([p EXCEPT !.emerg = SubSeq(@, 1, n - 1)], p.emerg[n])
             ELSE NothingPopped(p)

Exhausted(p, source) ==
    IF source = "emerg" THEN p.emerg = <<>>
    ELSE p.top[source] = 0 /\ p.mem[p.page[source]].next = FRAME_NULL

Pop(p, source) == IF source = "emerg" THEN PopEmerg(p) ELSE PopStack(p, source)

\* Mutant of Sources: the emergency stack is open to all.
BugSources(fl) ==
    IF "FA_LOW_MEM" \in fl THEN <<"low">>
    ELSE (IF "FA_32BIT" \in fl THEN <<>> ELSE <<"high">>) \o <<"free", "emerg">>
           \o (IF "FA_EMERG" \in fl THEN <<"low">> ELSE <<>>)

\* Where _alloc_frame looks, and in which order.
Sources(fl) ==
    IF "FA_LOW_MEM" \in fl THEN <<"low">>
    ELSE (IF "FA_32BIT" \in fl THEN <<>> ELSE <<"high">>) \o <<"free">>
           \o (IF "FA_EMERG" \in fl THEN <<"emerg", "low">> ELSE <<>>)

\* _alloc_frame; a stack that has nothing is not changed by the look at it.
AllocFrame(p, fl) ==
    LET from == Sources(fl)
        found == {i \in DOMAIN from : ~Exhausted(p, from[i])}
    IN IF found = {} THEN NothingPopped(p) ELSE Pop(p, from[FirstIndex(found)])

\* The body of the loop of kmem_frame_alloc_many.
AllocOneMore(done, fl) ==
    LET r == AllocFrame(done.pool, fl) IN
    IF r.frame = FRAME_NULL THEN done
    ELSE [pool |-> r.pool, frames |-> done.frames \cup {r.frame}]

\* kmem_frame_alloc_many, and with n = 1 kmem_frame_alloc: frames until there
\* are n or there is no more.
AllocUpTo(p, n, fl) ==
    LET done[k \in 0..n] ==
          IF k = 0 THEN [pool |-> p, frames |-> {}]
          ELSE AllocOneMore(done[k - 1], fl)
    IN done[n]
AllocMany(n, fl) ==
    /\ \E done \in {AllocUpTo(pool, n, fl)} :
         pool' = done.pool /\ held' = held \cup done.frames
    /\ UNCHANGED <<bootMap, work>>

\* kmem_frame_free_many, and for one frame kmem_frame_free.
PushAll(p, fs) ==
    LET done[k \in 0..Len(fs)] ==
          IF k = 0 THEN p ELSE PushFrame(done[k - 1], fs[k])
    IN done[Len(fs)]
FreeMany(fs) ==
    /\ pool' = PushAll(pool, fs)
    /\ held' = held \ Elements(fs)
    /\ UNCHANGED <<bootMap, work>>

-----------------------------------------------------------------------------

\* The three ways in which _push_region_non_reserved_frames finds a reserved
\* region rr to meet the region r.
EndsInside(r, rr) == rr[2] > r[1] /\ rr[2] < r[2]
StartsInside(r, rr) == rr[1] > r[1] /\ rr[1] < r[2]
Covers(r, rr) == rr[1] <= r[1] /\ rr[2] >= r[2]
Meets(r, rr) == EndsInside(r, rr) \/ StartsInside(r, rr) \/ Covers(r, rr)

\* The calls it makes for what is left of r.  A reserved region that starts
\* inside r and does not end there makes it call itself for ever.
Remaining(r, rr) ==
    CASE EndsInside(r, rr) ->
           (IF rr[1] > r[1] THEN << <<r[1], rr[1]>> >> ELSE <<>>)
             \o << <<rr[2], r[2]>> >>
      [] ~EndsInside(r, rr) /\ StartsInside(r, rr) -> << <<r[1], rr[2]>> >>
      [] OTHER -> <<>>

\* _push_region_frames
PushRegion(p, r) == PushAll(p, [i \in 1..(r[2] - r[1]) |-> r[1] + i - 1])

\* One call of _push_region_non_reserved_frames for the first region of the
\* work that is left: the first reserved region that meets it counts.
BootStep ==
    LET r == Head(work)
        met == {i \in DOMAIN bootMap.reserved : Meets(r, bootMap.reserved[i])}
    IN /\ work # <<>>
       /\ \/ /\ met # {}
             /\ work' = Remaining(r, bootMap.reserved[FirstIndex(met)]) \o Tail(work)
             /\ UNCHANGED pool
          \/ /\ met = {}
             /\ work' = Tail(work)
             /\ pool' = PushRegion(pool, r)
       /\ UNCHANGED <<held, bootMap>>

-----------------------------------------------------------------------------

\* The page of low_stack in the kernel image was handed out: its next_stack_
\* frame is not FRAME_NULL.  Nothing is said of what the kernel does then.
Wild == KernelPage["low"] \in held

Running == work = <<>> /\ ~Wild

Flags == {{}, {"FA_EMERG"}, {"FA_32BIT"}, {"FA_32BIT", "FA_EMERG"}, {"FA_LOW_MEM"}}

HeldSeqs == UNION {{fs \in [1..n -> held] : Cardinality(Elements(fs)) = n} : n \in 1..MaxMany}

Next ==
    \/ BootStep
    \/ Running /\ \E n \in 1..MaxMany, fl \in Flags : AllocMany(n, fl)
    \/ Running /\ \E fs \in HeldSeqs : FreeMany(fs)
    \/ Wild /\ UNCHANGED vars

Spec == Init /\ [][Next]_vars

-----------------------------------------------------------------------------

\* The frames of a stack of p: its pages but the one in the kernel image,
\* found by following the links, and what is written in them.
PagesOf(p, c) ==
    LET next == [q \in 0..FrameEnd |-> IF q = KernelPage[c] THEN q ELSE p.mem[q].next]
        page[k \in 0..(FrameEnd \div (StackFrames + 1))] ==
          IF k = 0 THEN p.page[c] ELSE next[page[k - 1]]
    IN Elements(page)
StackContents(p, c) ==
    LET used(q) == IF q = p.page[c] THEN p.top[c] ELSE StackFrames IN
    (PagesOf(p, c) \ {KernelPage[c]})
      \cup UNION {{p.mem[q].frames[i] : i \in 1..used(q)} : q \in PagesOf(p, c)}

Contents == Elements(pool.emerg) \cup UNION {StackContents(pool, c) : c \in Class}

\* The memory that is neither the kernel's nor a module's nor missing.
Available ==
    {f \in 0..(FrameEnd - 1) : In(f, bootMap.usable) /\ ~In(f, bootMap.reserved)}

\* No frame is lost, handed out twice or free twice: once the kernel is up,
\* every frame that the memory map has and nothing else occupies is either
\* handed out or found once in the stacks, by way of pages that are free
\* frames themselves, and kmem_free_frames counts them.
EveryFrameOnce ==
    Running =>
      /\ held \cap Contents = {}
      /\ held \cup Contents = Available
      /\ pool.count = Cardinality(Contents)

\* The frames that are free, or will be when the kernel is up.
FreeFrames == IF work = <<>> THEN Contents ELSE Available

OfClass(c) == {f \in 0..(FrameEnd - 1) : ClassOf(f) = c}

Pool == INSTANCE FramePool WITH
    Low <- OfClass("low"),
    Mid <- OfClass("free"),
    High <- OfClass("high"),
    Reserve <- EmergStackSize,
    free <- FreeFrames

\* The promise of phys.h, kept by every request and every release: the
\* frames suit the flags, they are as many as asked for unless memory is
\* short, and only an emergency gets into the reserve, which is filled up
\* again before anything else.  The exception is a request that asks for more
\* than low memory has left: it always gets a page of the kernel, and no other
\* request ever does.
KeepsPromise ==
    [][/\ ~Wild' =>
            /\ work # <<>> => FreeFrames' = FreeFrames
            /\ held \ held' # {} => Pool!Give(held \ held')
       /\ \A n \in 1..MaxMany, fl \in Flags :
            Running /\ AllocMany(n, fl) =>
              IF Pool!Overdrawn(n, fl) THEN Wild'
                                       ELSE ~Wild' /\ Pool!Take(n, fl, held' \ held)
      ]_vars
=============================================================================
