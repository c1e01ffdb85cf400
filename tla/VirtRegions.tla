---------------------------- MODULE VirtRegions -----------------------------
(***************************************************************************)
(* The free regions of the kernel's virtual memory, memory/virt.c, as a    *)
(* record and the functions on it; both run under fr_lock.                 *)
(*                                                                         *)
(* byAddr is the list linked by next_addr, of the regions themselves, and  *)
(* bySize the one linked by next_size, of their addresses.  Addresses and  *)
(* sizes are counted in pages.  spare counts the descriptors on the list   *)
(* of first_free_fr, which are all alike.                                  *)
(***************************************************************************)
EXTENDS Integers, SequencesExt

CONSTANT
    RegionsPerFrame     \* FREE_REGIONS_PER_FRAME

ASSUME VirtRegionsAssumption == RegionsPerFrame \in Nat \ {0}

Region(a, n) == [address |-> a, size |-> n]
EndOf(r) == r.address + r.size

NoRegions == [byAddr |-> <<>>, bySize |-> <<>>, spare |-> 0]

PlaceOf(v, a) == CHOOSE i \in DOMAIN v.byAddr : v.byAddr[i].address = a
SizeOf(v, a) == v.byAddr[PlaceOf(v, a)].size

\* How far a walk along q goes that stops in front of the first element
\* outside S.
WalkLen(q, S) == CHOOSE k \in 0..Len(q) :
    (\A i \in 1..k : q[i] \in S) /\ (k < Len(q) => q[k + 1] \notin S)

RankOf(v, a) == CHOOSE i \in DOMAIN v.bySize : v.bySize[i] = a

\* _region_remove_size
RemoveSize(v, a) == [v EXCEPT !.bySize = RemoveAt(@, RankOf(v, a))]

\* _region_insert_size: behind all that are larger.
InsertSize(v, a) ==
    LET larger == {b \in ToSet(v.bySize) : SizeOf(v, b) > SizeOf(v, a)} IN
    [v EXCEPT !.bySize = InsertAt(@, WalkLen(@, larger) + 1, a)]

\* Region i becomes r, which has the address or the end of what it was, and
\* takes its new place by size.
Resize(v, i, r) ==
    InsertSize([RemoveSize(v, v.byAddr[i].address) EXCEPT !.byAddr[i] = r], r.address)

\* Region i goes and leaves a spare descriptor.
Drop(v, i) ==
    [RemoveSize(v, v.byAddr[i].address) EXCEPT
        !.byAddr = RemoveAt(@, i), !.spare = @ + 1]

\* The region that _alloc_region takes n pages from: the last of those by
\* size that is larger, or the largest.  It is not asked whether n fit.
Chosen(v, n) ==
    LET larger == {b \in ToSet(v.bySize) : SizeOf(v, b) > n} IN
    v.bySize[1 + WalkLen(Tail(v.bySize), larger)]

\* Mutant of AllocRegion: what is left of the region keeps its address.
BugAllocRegion(v, n) ==
    LET a == Chosen(v, n) IN
    IF SizeOf(v, a) = n THEN Drop(v, PlaceOf(v, a))
    ELSE Resize(v, PlaceOf(v, a), Region(a, SizeOf(v, a) - n))

\* _alloc_region from a list that is not empty; the address is Chosen's.
AllocRegion(v, n) ==
    LET a == Chosen(v, n) IN
    IF SizeOf(v, a) = n THEN Drop(v, PlaceOf(v, a))
    ELSE Resize(v, PlaceOf(v, a), Region(a + n, SizeOf(v, a) - n))

\* The region at or below a, as a place in byAddr; 0 when there is none.
Below(v, a) == WalkLen(v.byAddr, {r \in ToSet(v.byAddr) : r.address <= a})

EndsAt(v, i, a) == i > 0 /\ EndOf(v.byAddr[i]) = a
StartsAt(v, i, a) == i <= Len(v.byAddr) /\ v.byAddr[i].address = a

\* No region is next to the pages from a on that are freed, and there is no
\* descriptor for a new one.
NeedsFrame(v, a, n) ==
    /\ ~EndsAt(v, Below(v, a), a)
    /\ ~StartsAt(v, Below(v, a) + 1, a + n)
    /\ v.spare = 0

Insert(v, a, n) ==
    InsertSize([v EXCEPT !.byAddr = InsertAt(@, Below(v, a) + 1, Region(a, n)),
                         !.spare = @ - 1], a)

\* _create_fr_frame: the first page becomes a page of descriptors, for good.
InsertBehindFrame(v, a, n) ==
    LET w == [v EXCEPT !.spare = RegionsPerFrame] IN
    IF n = 1 THEN w ELSE Insert(w, a + 1, n - 1)

\* Mutant of FreeRegion: no merge of three.
BugFreeRegion(v, a, n) ==
    LET i == Below(v, a) IN
    CASE EndsAt(v, i, a) -> Resize(v, i, Region(v.byAddr[i].address, v.byAddr[i].size + n))
      [] ~EndsAt(v, i, a) /\ StartsAt(v, i + 1, a + n) ->
           Resize(v, i + 1, Region(a, v.byAddr[i + 1].size + n))
      [] OTHER -> Insert(v, a, n)

\* _free_region: into the region that ends at a, with the one that starts
\* behind it if they meet now; into the one that starts behind; or as a new
\* one, after a page of descriptors if there is none left.
FreeRegion(v, a, n) ==
    LET i == Below(v, a)
        before == v.byAddr[i]
        behind == v.byAddr[i + 1]
    IN CASE EndsAt(v, i, a) /\ StartsAt(v, i + 1, a + n) ->
              Resize(Drop(v, i + 1), i,
                     Region(before.address, before.size + n + behind.size))
         [] EndsAt(v, i, a) /\ ~StartsAt(v, i + 1, a + n) ->
              Resize(v, i, Region(before.address, before.size + n))
         [] ~EndsAt(v, i, a) /\ StartsAt(v, i + 1, a + n) ->
              Resize(v, i + 1, Region(a, n + behind.size))
         [] NeedsFrame(v, a, n) -> InsertBehindFrame(v, a, n)
         [] OTHER -> Insert(v, a, n)

\* crash("Region freed when it is already free!").  (The end of a region at
\* the top of the address space is 0 there, and it would not notice.  No caller
\* does that, see PagesAccounted.)
AlreadyFree(v, a) ==
    LET i == Below(v, a) IN i > 0 /\ a < EndOf(v.byAddr[i])

-----------------------------------------------------------------------------

Extent(r) == r.address..(EndOf(r) - 1)
FreePages(v) == UNION {Extent(r) : r \in ToSet(v.byAddr)}

\* Regions are in the order of their addresses, apart from each other by at
\* least a page that is not free, and all of them, the largest first, are on
\* the other list.
WellFormed(v) ==
    /\ \A i \in DOMAIN v.byAddr :
         /\ v.byAddr[i].size > 0
         /\ i > 1 => EndOf(v.byAddr[i - 1]) < v.byAddr[i].address
    /\ Len(v.bySize) = Len(v.byAddr)
    /\ ToSet(v.bySize) = {r.address : r \in ToSet(v.byAddr)}
    /\ \A i \in 2..Len(v.bySize) : SizeOf(v, v.bySize[i - 1]) >= SizeOf(v, v.bySize[i])
=============================================================================
