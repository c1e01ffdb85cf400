------------------------------ MODULE VfsProofs ------------------------------
(***************************************************************************)
(* Proofs about module Vfs, for any threads, devices, contents, slots and  *)
(* paths.                                                                  *)
(*                                                                         *)
(* The reference counts do not need the mutexes: a slot is used again when *)
(* its count is 0, and that the count is exact says that nobody is there.  *)
(* The mutexes are needed for the data of a node: from the moment a slot   *)
(* is used for it until its data are written, the thread that does it has  *)
(* the only reference and the mutex of the cache, or the one of the node   *)
(* (Locks, Pending).                                                       *)
(*                                                                         *)
(* That a lookup finds what the path names rests on both: a slot it has a  *)
(* reference to stays the file or directory it is.  The mounts change      *)
(* under it, so it has to be said in which mounts the path names that: in  *)
(* those there were when it began and those it has crossed since (Follow-  *)
(* ed).  A mount it then crosses is added to them, and the way the lookup  *)
(* has come is still the way the names lead in the larger set, because     *)
(* nothing can be mounted behind it that counts: an archive is a tree      *)
(* (Depth) and a device is mounted in one place, so the lookup is on each  *)
(* device once, and on each only goes down (Settled).                      *)
(*                                                                         *)
(* That the cache gives the node of the entry asked for, and not of one    *)
(* with the same first sector, is where SectorAssumption is used           *)
(* (CachedIs).                                                             *)
(***************************************************************************)
EXTENDS Vfs, FiniteSetTheorems, SequenceTheorems, WellFoundedInduction, TLAPS

Busy == {"dir", "cache", "slot", "fill", "found"}

TypeOK ==
    /\ ino \in [Node -> Inode \cup {NULL}]
    /\ DOMAIN data = Node /\ DOMAIN ref = Node
    /\ mounted \in [Node -> Dev \cup {NULL}]
    /\ rootNode \in [Dev -> (Node \ {Root}) \cup {NULL}]
    /\ lock \in [Node \cup Dev -> Thread \cup {NULL}]
    /\ DOMAIN pc = Thread /\ DOMAIN todo = Thread
    /\ node \in [Thread -> Node \cup {NULL}]
    /\ other \in [Thread -> Node \cup {NULL}]
    /\ mdev \in [Thread -> Dev \cup {NULL}]

\* What a thread refers to in each place.
PlaceOf(t) ==
    /\ node[t] = NULL <=> pc[t] \in {"idle", "failed"}
    /\ other[t] # NULL <=> pc[t] \in {"crossed", "slot", "fill", "found"}
    /\ mdev[t] # NULL <=> pc[t] = "mount"
    /\ pc[t] \in Busy => node[t] # Root
    /\ pc[t] \in {"slot", "fill"} => other[t] # Root /\ other[t][1] = node[t][1]
    /\ pc[t] = "cache" => Wanted(t) # NULL

Places == \A t \in Thread : PlaceOf(t)

\* A node that is referred to is a file's or a directory's, on a device that
\* has been mounted; and what vfs_init mounted on Root stays.
Used ==
    /\ \A n \in Node \ {Root} :
         /\ (\E t \in Thread : node[t] = n \/ other[t] = n) => ino[n] # NULL
         /\ (\E d \in Dev : rootNode[d] = n) => ino[n] # NULL
         /\ mounted[n] # NULL => ino[n] # NULL
         /\ ino[n] # NULL => rootNode[n[1]] # NULL
    /\ \A n \in Node : mounted[n] # NULL => rootNode[mounted[n]] # NULL
    /\ \A t \in Thread : mdev[t] # NULL => rootNode[mdev[t]] # NULL
    /\ mounted[Root] # NULL

\* The mutexes of a thread on its way into the cache.
LocksOf(t) ==
    /\ pc[t] \in {"cache", "slot", "fill"} => lock[node[t]] = t
    /\ pc[t] = "slot" => lock[node[t][1]] = t
    /\ pc[t] = "fill" => lock[other[t]] = t

Locks == \A t \in Thread : LocksOf(t)

Distinct ==
    \A m, n \in Node \ {Root} : ino[m] # NULL /\ Place(m) = Place(n) => m = n

\* The data that are not there yet are on their way, and until the thread
\* that brings them has the mutex of the node nobody else refers to it.
Pending ==
    /\ \A n \in Node : data[n] # ino[n] =>
         \E t \in Thread : other[t] = n /\ pc[t] \in {"slot", "fill"}
    /\ \A t \in Thread : pc[t] = "slot" => ref[other[t]] = 1

Inv == TypeOK /\ Places /\ Used /\ RefsExact /\ Locks /\ Distinct /\ Pending

-----------------------------------------------------------------------------
(* Counting.                                                               *)

Count(S, f, n) == Cardinality({x \in S : f[x] = n})
One(x, y) == IF x = y THEN 1 ELSE 0
Some(x) == IF x # NULL THEN 1 ELSE 0

\* g differs from f in what x refers to.
Moves(S, f, g, x, a) == \A y \in S : g[y] = IF y = x THEN a ELSE f[y]

LEMMA CountFacts ==
    ASSUME NEW S, IsFiniteSet(S), NEW f, NEW n
    PROVE  /\ Count(S, f, n) \in Nat
           /\ Count(S, f, n) = 0 <=> \A x \in S : f[x] # n
           /\ Count(S, f, n) = 1 =>
                \A x, y \in S : f[x] = n /\ f[y] = n => x = y
<1> DEFINE H == {x \in S : f[x] = n}
<1>1. IsFiniteSet(H)
  BY FS_Subset
<1>2. Cardinality(H) \in Nat
  BY <1>1, FS_CardinalityType
<1>3. Cardinality(H) = 0 <=> H = {}
  BY <1>1, FS_EmptySet
<1>4. ASSUME Cardinality(H) = 1, NEW x \in H, NEW y \in H PROVE x = y
  <2>1. \E z : H = {z}
    BY <1>1, <1>4, FS_Singleton
  <2>2. QED
    BY <1>4, <2>1
<1>5. QED
  BY <1>2, <1>3, <1>4 DEF Count

\* One thing refers to something else.
LEMMA CountMoves ==
    ASSUME NEW S, IsFiniteSet(S), NEW f, NEW g, NEW x \in S, NEW a,
           Moves(S, f, g, x, a), NEW n
    PROVE  Count(S, g, n) = Count(S, f, n) + One(a, n) - One(f[x], n)
<1> DEFINE H == {y \in S : f[y] = n}
           K == {y \in S : g[y] = n}
<1>1. \A y \in S : g[y] = IF y = x THEN a ELSE f[y]
  BY DEF Moves
<1>2. IsFiniteSet(H) /\ Cardinality(H) \in Nat
  <2>1. IsFiniteSet(H)
    BY FS_Subset
  <2>2. QED
    BY <2>1, FS_CardinalityType
<1>3. CASE a = n /\ f[x] # n
  <2>1. K = H \cup {x} /\ x \notin H
    BY <1>1, <1>3
  <2>2. Cardinality(K) = Cardinality(H) + 1
    BY <1>2, <2>1, FS_AddElement
  <2>3. QED
    BY <1>2, <1>3, <2>2 DEF Count, One
<1>4. CASE a # n /\ f[x] = n
  <2>1. K = H \ {x} /\ x \in H
    BY <1>1, <1>4
  <2>2. Cardinality(K) = Cardinality(H) - 1
    BY <1>2, <2>1, FS_RemoveElement
  <2>3. QED
    BY <1>2, <1>4, <2>2 DEF Count, One
<1>5. CASE a = n <=> f[x] = n
  <2>1. K = H
    BY <1>1, <1>5
  <2>2. One(a, n) = One(f[x], n) /\ One(a, n) \in Nat
    BY <1>5 DEF One
  <2>3. QED
    BY <1>2, <2>1, <2>2 DEF Count
<1>6. QED
  BY <1>3, <1>4, <1>5

LEMMA RefsCount ==
    RefsExact <=>
      \A n \in Node :
        ref[n] = Count(Thread, node, n) + Count(Thread, other, n)
                 + Count(Dev, rootNode, n) + Some(mounted[n]) + One(n, Root)
  BY DEF RefsExact, Count, One, Some

\* What a count of 0, and a count of 1 that is a thread's, say.
LEMMA RefFacts ==
    ASSUME RefsExact, NEW n \in Node
    PROVE  /\ ref[n] \in Nat
           /\ ref[n] = 0 =>
                /\ \A t \in Thread : node[t] # n /\ other[t] # n
                /\ \A d \in Dev : rootNode[d] # n
                /\ mounted[n] = NULL /\ n # Root
           /\ \A t \in Thread : ref[n] = 1 /\ other[t] = n =>
                /\ \A u \in Thread : node[u] # n /\ (other[u] = n => u = t)
                /\ \A d \in Dev : rootNode[d] # n
<1> DEFINE a == Count(Thread, node, n)
           b == Count(Thread, other, n)
           c == Count(Dev, rootNode, n)
<1>1. /\ a \in Nat /\ (a = 0 <=> \A t \in Thread : node[t] # n)
      /\ b \in Nat /\ (b = 0 <=> \A t \in Thread : other[t] # n)
      /\ b = 1 => \A t, u \in Thread : other[t] = n /\ other[u] = n => t = u
      /\ c \in Nat /\ (c = 0 <=> \A d \in Dev : rootNode[d] # n)
  BY CountFacts, NodeAssumption
<1>2. ref[n] = a + b + c + Some(mounted[n]) + One(n, Root)
  BY RefsCount
<1> HIDE DEF a, b, c
<1>3. Some(mounted[n]) \in {0, 1} /\ One(n, Root) \in {0, 1}
  BY DEF One, Some
<1>4. ref[n] \in Nat
  BY <1>1, <1>2, <1>3
<1>5. ASSUME ref[n] = 0
      PROVE  /\ a = 0 /\ b = 0 /\ c = 0
             /\ mounted[n] = NULL /\ n # Root
  BY <1>1, <1>2, <1>3, <1>5 DEF One, Some
<1>6. ASSUME NEW t \in Thread, ref[n] = 1, other[t] = n
      PROVE  a = 0 /\ b = 1 /\ c = 0
  <2>1. b # 0
    BY <1>1, <1>6
  <2>2. QED
    BY <1>1, <1>2, <1>3, <1>6, <2>1
<1>7. QED
  BY <1>1, <1>4, <1>5, <1>6

\* Nobody refers to a slot that has no node yet.
LEMMA EmptySlot ==
    ASSUME Used, RefsExact, NEW n \in Node \ {Root}, ino[n] = NULL
    PROVE  ref[n] = 0
<1>1. /\ \A t \in Thread : node[t] # n /\ other[t] # n
      /\ \A d \in Dev : rootNode[d] # n
      /\ mounted[n] = NULL /\ n # Root
  BY DEF Used
<1>2. /\ Count(Thread, node, n) = 0 /\ Count(Thread, other, n) = 0
      /\ Count(Dev, rootNode, n) = 0
  BY <1>1, CountFacts, NodeAssumption
<1>3. ref[n] = Count(Thread, node, n) + Count(Thread, other, n)
               + Count(Dev, rootNode, n) + Some(mounted[n]) + One(n, Root)
  BY RefsCount
<1>4. QED
  BY <1>1, <1>2, <1>3 DEF One, Some

RefsChange(t, a, b) ==
    \A n \in Node : ref'[n] = ref[n] + One(a, n) - One(node[t], n)
                                     + One(b, n) - One(other[t], n)

\* A thread refers to a and b instead of what it referred to.
LEMMA RefsMove ==
    ASSUME TypeOK, RefsExact, NEW t \in Thread, NEW a, NEW b,
           node' = [node EXCEPT ![t] = a], other' = [other EXCEPT ![t] = b],
           UNCHANGED <<rootNode, mounted>>, RefsChange(t, a, b)
    PROVE  RefsExact'
<1> SUFFICES ASSUME NEW n \in Node
             PROVE  ref'[n] = Count(Thread, node', n) + Count(Thread, other', n)
                              + Count(Dev, rootNode', n) + Some(mounted'[n])
                              + One(n, Root)
  BY DEF RefsExact, Count, One, Some
<1>1. ref[n] = Count(Thread, node, n) + Count(Thread, other, n)
               + Count(Dev, rootNode, n) + Some(mounted[n]) + One(n, Root)
  BY RefsCount
<1>2. Count(Thread, node', n) = Count(Thread, node, n) + One(a, n) - One(node[t], n)
  <2> DEFINE f == node
             g == node'
  <2>1. Moves(Thread, f, g, t, a) /\ IsFiniteSet(Thread)
    BY NodeAssumption DEF TypeOK, Moves
  <2> HIDE DEF f, g
  <2>2. Count(Thread, g, n) = Count(Thread, f, n) + One(a, n) - One(f[t], n)
    BY <2>1, CountMoves
  <2>3. QED
    BY <2>2 DEF f, g
<1>3. Count(Thread, other', n) = Count(Thread, other, n) + One(b, n) - One(other[t], n)
  <2> DEFINE f == other
             g == other'
  <2>1. Moves(Thread, f, g, t, b) /\ IsFiniteSet(Thread)
    BY NodeAssumption DEF TypeOK, Moves
  <2> HIDE DEF f, g
  <2>2. Count(Thread, g, n) = Count(Thread, f, n) + One(b, n) - One(f[t], n)
    BY <2>1, CountMoves
  <2>3. QED
    BY <2>2 DEF f, g
<1>4. /\ Count(Thread, node, n) \in Nat /\ Count(Thread, other, n) \in Nat
      /\ Count(Dev, rootNode, n) \in Nat
  BY CountFacts, NodeAssumption
<1>5. /\ One(a, n) \in Nat /\ One(b, n) \in Nat /\ One(n, Root) \in Nat
      /\ One(node[t], n) \in Nat /\ One(other[t], n) \in Nat
      /\ Some(mounted[n]) \in Nat
  BY DEF One, Some
<1>6. /\ Count(Dev, rootNode', n) = Count(Dev, rootNode, n)
      /\ Some(mounted'[n]) = Some(mounted[n])
  OBVIOUS
<1>7. ref'[n] = ref[n] + One(a, n) - One(node[t], n) + One(b, n) - One(other[t], n)
  BY DEF RefsChange
<1>8. QED
  BY <1>1, <1>2, <1>3, <1>4, <1>5, <1>6, <1>7

-----------------------------------------------------------------------------
(* What a thread refers to.                                                *)

Usable(x) == x \in {NULL, Root} \/ (x \in Node /\ ino[x] # NULL)

\* x is not a node whose data some thread is about to bring.
NotPending(x) == \A u \in Thread : pc[u] = "slot" => x # other[u]

LEMMA Referred ==
    ASSUME Inv
    PROVE  /\ Usable(NULL) /\ Usable(Root) /\ NotPending(NULL) /\ NotPending(Root)
           /\ \A t \in Thread : /\ Usable(node[t]) /\ NotPending(node[t])
                                /\ Usable(other[t])
                                /\ pc[t] # "slot" => NotPending(other[t])
           /\ \A d \in Dev : Usable(rootNode[d]) /\ NotPending(rootNode[d])
<1> USE NodeAssumption
<1>1. Usable(NULL) /\ Usable(Root)
  BY DEF Usable
<1>2. ASSUME NEW u \in Thread, pc[u] = "slot"
      PROVE  /\ other[u] \in Node \ {Root} /\ ref[other[u]] = 1
             /\ \A t \in Thread : node[t] # other[u] /\ (other[t] = other[u] => t = u)
             /\ \A d \in Dev : rootNode[d] # other[u]
  <2>1. other[u] \in Node \ {Root} /\ ref[other[u]] = 1
    BY <1>2 DEF Inv, TypeOK, Places, PlaceOf, Pending
  <2>2. RefsExact
    BY DEF Inv
  <2>3. QED
    BY <2>1, <2>2, RefFacts
<1>3. NotPending(NULL) /\ NotPending(Root)
  BY <1>2 DEF NotPending
<1>4. ASSUME NEW t \in Thread
      PROVE  /\ Usable(node[t]) /\ NotPending(node[t]) /\ Usable(other[t])
             /\ pc[t] # "slot" => NotPending(other[t])
  <2>1. Usable(node[t]) /\ Usable(other[t])
    BY DEF Usable, Inv, TypeOK, Used
  <2>2. NotPending(node[t]) /\ (pc[t] # "slot" => NotPending(other[t]))
    BY <1>2 DEF NotPending
  <2>3. QED
    BY <2>1, <2>2
<1>5. ASSUME NEW d \in Dev PROVE Usable(rootNode[d]) /\ NotPending(rootNode[d])
  <2>1. Usable(rootNode[d])
    BY DEF Usable, Inv, TypeOK, Used
  <2>2. NotPending(rootNode[d])
    BY <1>2 DEF NotPending
  <2>3. QED
    BY <2>1, <2>2
<1>6. QED
  BY <1>1, <1>3, <1>4, <1>5

\* A node that is referred to is not empty, its device has been mounted.
LEMMA OnDevice ==
    ASSUME NEW n \in Node \ {Root}
    PROVE  n[1] \in Dev /\ n = <<n[1], n[2]>> /\ n[2] \in Slot
  BY DEF Node

LEMMA RootIsAlone == Root[1] = NULL /\ Root \notin Dev \X Slot
  BY VfsAssumption DEF Root

\* The mutexes of the others are not touched by t.
LEMMA LocksKept ==
    ASSUME Inv, NEW t \in Thread,
           \A y \in Node \cup Dev : lock[y] \notin {NULL, t} => lock'[y] = lock[y],
           \A u \in Thread \ {t} :
              pc'[u] = pc[u] /\ node'[u] = node[u] /\ other'[u] = other[u],
           LocksOf(t)'
    PROVE  Locks'
<1> SUFFICES ASSUME NEW u \in Thread, u # t PROVE LocksOf(u)'
  BY DEF Locks
<1>1. LocksOf(u) /\ PlaceOf(u) /\ u # NULL
  BY VfsAssumption DEF Inv, Locks, Places
<1>2. /\ node[u] \in Node \cup {NULL} /\ other[u] \in Node \cup {NULL}
      /\ \A n \in Node \ {Root} : n[1] \in Dev
  BY OnDevice DEF Inv, TypeOK
<1>3. pc[u] \in {"cache", "slot", "fill"} => lock'[node[u]] = u
  BY <1>1, <1>2 DEF LocksOf, PlaceOf
<1>4. pc[u] = "slot" => lock'[node[u][1]] = u
  BY <1>1, <1>2 DEF LocksOf, PlaceOf, Busy
<1>5. pc[u] = "fill" => lock'[other[u]] = u
  BY <1>1, <1>2 DEF LocksOf, PlaceOf
<1>6. QED
  BY <1>3, <1>4, <1>5 DEF LocksOf

-----------------------------------------------------------------------------
(* The steps of a lookup that neither use a slot nor fill one.             *)

\* t comes to l, and refers to a and b instead of what it referred to.
Walk(t, a, b, l) ==
    /\ node' = [node EXCEPT ![t] = a]
    /\ other' = [other EXCEPT ![t] = b]
    /\ pc' = [pc EXCEPT ![t] = l]
    /\ DOMAIN todo' = Thread /\ \A u \in Thread \ {t} : todo'[u] = todo[u]
    /\ DOMAIN ref' = Node /\ RefsChange(t, a, b)
    /\ UNCHANGED <<ino, data, mounted, rootNode, mdev>>

LEMMA Walks ==
    ASSUME Inv, NEW t \in Thread, NEW a, NEW b, NEW l, Walk(t, a, b, l),
           Usable(a), Usable(b), NotPending(a), NotPending(b),
           pc[t] \notin {"slot", "fill"}, l \notin {"slot", "fill"}, PlaceOf(t)',
           lock' \in [Node \cup Dev -> Thread \cup {NULL}]
    PROVE  TypeOK' /\ Places' /\ Used' /\ RefsExact' /\ Distinct' /\ Pending'
<1> USE NodeAssumption
<1>1. /\ a \in Node \cup {NULL} /\ b \in Node \cup {NULL}
      /\ (a \in Node \ {Root} => ino[a] # NULL)
      /\ (b \in Node \ {Root} => ino[b] # NULL)
  BY DEF Usable, Node
<1>2. TypeOK'
  BY <1>1 DEF Inv, TypeOK, Walk
<1>3. /\ UNCHANGED <<ino, data, mounted, rootNode, mdev>>
      /\ \A u \in Thread : /\ node'[u] = IF u = t THEN a ELSE node[u]
                           /\ other'[u] = IF u = t THEN b ELSE other[u]
                           /\ pc'[u] = IF u = t THEN l ELSE pc[u]
                           /\ u # t => todo'[u] = todo[u]
  BY DEF Inv, TypeOK, Walk
<1>4. Places'
  <2> SUFFICES ASSUME NEW u \in Thread, u # t PROVE PlaceOf(u)'
    BY DEF Places
  <2>1. PlaceOf(u) /\ Wanted(u)' = Wanted(u)
    BY <1>3 DEF Inv, Places, Wanted
  <2>2. QED
    BY <1>3, <2>1 DEF PlaceOf
<1>5. Used'
  BY <1>1, <1>3 DEF Inv, Used
<1>6. RefsExact'
  <2>1. /\ UNCHANGED <<rootNode, mounted>> /\ TypeOK /\ RefsExact
        /\ node' = [node EXCEPT ![t] = a] /\ other' = [other EXCEPT ![t] = b]
        /\ RefsChange(t, a, b)
    BY DEF Walk, Inv
  <2>2. QED
    BY <2>1, RefsMove
<1>7. Distinct'
  BY <1>3 DEF Inv, Distinct, Place
<1>8. Pending'
  <2>1. \A n \in Node : data'[n] # ino'[n] =>
           \E u \in Thread : other'[u] = n /\ pc'[u] \in {"slot", "fill"}
    BY <1>3 DEF Inv, Pending
  <2>2. ASSUME NEW u \in Thread, pc'[u] = "slot" PROVE ref'[other'[u]] = 1
    <3> DEFINE n == other[u]
    <3>1. /\ u # t /\ pc[u] = "slot" /\ other'[u] = n
      BY <1>3, <2>2
    <3>2. n \in Node /\ ref[n] = 1 /\ RefsExact
      BY <3>1 DEF Inv, TypeOK, Places, PlaceOf, Pending
    <3>3. node[t] # n /\ other[t] # n
      BY <3>1, <3>2, RefFacts
    <3>4. a # n /\ b # n
      BY <3>1 DEF NotPending
    <3>5. ref'[n] = ref[n] + One(a, n) - One(node[t], n) + One(b, n) - One(other[t], n)
      BY <3>2 DEF Walk, RefsChange
    <3>6. QED
      BY <3>1, <3>2, <3>3, <3>4, <3>5 DEF One
  <2>3. QED
    BY <2>1, <2>2 DEF Pending
<1>9. QED
  BY <1>2, <1>4, <1>5, <1>6, <1>7, <1>8

-----------------------------------------------------------------------------
(* The actions of a lookup.                                                *)

\* What they start from.
LEMMA Start ==
    ASSUME Inv, NEW t \in Thread
    PROVE  /\ PlaceOf(t) /\ LocksOf(t) /\ t # NULL
           /\ node \in [Thread -> Node \cup {NULL}] /\ NULL \notin Node
           /\ other \in [Thread -> Node \cup {NULL}]
           /\ lock \in [Node \cup Dev -> Thread \cup {NULL}]
           /\ DOMAIN pc = Thread /\ DOMAIN todo = Thread /\ DOMAIN ref = Node
           /\ \A n \in Node : ref[n] \in Nat
           /\ node[t] \in Node <=> pc[t] \notin {"idle", "failed"}
           /\ other[t] \in Node <=> pc[t] \in {"crossed", "slot", "fill", "found"}
           /\ mounted[Root] # NULL
<1>1. /\ PlaceOf(t) /\ LocksOf(t) /\ TypeOK /\ RefsExact /\ mounted[Root] # NULL
  BY DEF Inv, Places, Locks, Used
<1>2. \A n \in Node : ref[n] \in Nat
  BY <1>1, RefFacts
<1>3. t # NULL /\ NULL \notin Node
  BY VfsAssumption, NodeAssumption
<1>4. QED
  BY <1>1, <1>2, <1>3 DEF TypeOK, PlaceOf

\* Nothing changes for the others, and t locks nothing.
LEMMA Together ==
    ASSUME Inv, NEW t \in Thread, NEW a, NEW b, NEW l, Walk(t, a, b, l),
           Usable(a), Usable(b), NotPending(a), NotPending(b),
           pc[t] \notin {"slot", "fill"}, l \notin {"slot", "fill"}, PlaceOf(t)',
           lock' \in [Node \cup Dev -> Thread \cup {NULL}],
           \A y \in Node \cup Dev : lock[y] \notin {NULL, t} => lock'[y] = lock[y],
           l = "cache" => lock'[a] = t
    PROVE  Inv'
<1>1. TypeOK' /\ Places' /\ Used' /\ RefsExact' /\ Distinct' /\ Pending'
  BY Walks
<1>2. \A u \in Thread : /\ node'[u] = IF u = t THEN a ELSE node[u]
                        /\ other'[u] = IF u = t THEN b ELSE other[u]
                        /\ pc'[u] = IF u = t THEN l ELSE pc[u]
  BY DEF Inv, TypeOK, Walk
<1>3. LocksOf(t)'
  BY <1>2 DEF LocksOf
<1>4. Locks'
  BY <1>2, <1>3, LocksKept
<1>5. QED
  BY <1>1, <1>4 DEF Inv

LEMMA KeepCall ==
    ASSUME Inv, NEW t \in Thread, NEW q, Call(t, q)
    PROVE  Inv'
<1>1. /\ PlaceOf(t) /\ node[t] = NULL /\ other[t] = NULL /\ mdev[t] = NULL
      /\ pc[t] = "idle"
  BY Start DEF Call, At, PlaceOf
<1>2. Walk(t, Root, NULL, "resolve")
  <2>1. other' = [other EXCEPT ![t] = NULL]
    BY <1>1, Start DEF Call
  <2>2. RefsChange(t, Root, NULL)
    BY <1>1, Start DEF Call, RefsChange, One, Node
  <2>3. QED
    BY <2>1, <2>2, Start DEF Call, Walk
<1>3. PlaceOf(t)'
  BY <1>1, Start DEF Call, PlaceOf, Busy, Node
<1>4. /\ Usable(Root) /\ Usable(NULL) /\ NotPending(Root) /\ NotPending(NULL)
  BY Referred
<1>5. lock' = lock
  BY DEF Call
<1>6. QED
  BY <1>1, <1>2, <1>3, <1>4, <1>5, Start, Together

LEMMA KeepCross ==
    ASSUME Inv, NEW t \in Thread, Cross(t)
    PROVE  Inv'
<1> DEFINE m == node[t]
           r == rootNode[mounted[node[t]]]
<1>1. /\ PlaceOf(t) /\ m \in Node /\ other[t] = NULL /\ mdev[t] = NULL
      /\ pc[t] = "resolve" /\ mounted[m] # NULL
  BY Start DEF Cross, At, PlaceOf
<1>2. mounted[m] \in Dev /\ r \in Node
  BY <1>1 DEF Inv, TypeOK, Used
<1>3. Walk(t, r, m, "crossed")
  <2>1. node' = [node EXCEPT ![t] = r] /\ node'[t] = r
    BY Start DEF Cross
  <2>2. RefsChange(t, r, m)
    <3>1. ref' = [ref EXCEPT ![r] = @ + 1]
      BY <2>1 DEF Cross
    <3>2. QED
      BY <1>1, <1>2, <3>1, Start DEF RefsChange, One
  <2>3. QED
    BY <2>1, <2>2, Start DEF Cross, Walk
<1>4. PlaceOf(t)'
  BY <1>1, <1>2, <1>3, Start DEF Walk, PlaceOf, Busy
<1>5. /\ Usable(r) /\ Usable(m) /\ NotPending(r) /\ NotPending(m)
  BY <1>1, <1>2, Referred
<1>6. lock' = lock
  BY DEF Cross
<1>7. QED
  BY <1>1, <1>3, <1>4, <1>5, <1>6, Start, Together

LEMMA KeepCrossed ==
    ASSUME Inv, NEW t \in Thread, Crossed(t)
    PROVE  Inv'
<1>1. /\ PlaceOf(t) /\ node[t] \in Node /\ other[t] \in Node /\ mdev[t] = NULL
      /\ pc[t] = "crossed"
  BY Start DEF Crossed, At, PlaceOf
<1>2. Walk(t, node[t], NULL, "resolve")
  <2>1. node' = [node EXCEPT ![t] = node[t]]
    BY Start DEF Crossed
  <2>2. RefsChange(t, node[t], NULL)
    BY <1>1, Start DEF Crossed, RefsChange, One
  <2>3. QED
    BY <2>1, <2>2, Start DEF Crossed, Walk
<1>3. PlaceOf(t)'
  BY <1>1, Start DEF Crossed, PlaceOf, Busy
<1>4. /\ Usable(node[t]) /\ NotPending(node[t]) /\ Usable(NULL) /\ NotPending(NULL)
  BY Referred
<1>5. lock' = lock
  BY DEF Crossed
<1>6. QED
  BY <1>1, <1>2, <1>3, <1>4, <1>5, Start, Together

\* A lookup that fails, with the mutexes of the others kept.
LEMMA KeepFail ==
    ASSUME Inv, NEW t \in Thread, NEW e, Fail(t, e),
           pc[t] \in {"resolve", "dir", "cache"},
           UNCHANGED <<ino, data, mounted, rootNode>>,
           lock' \in [Node \cup Dev -> Thread \cup {NULL}],
           \A y \in Node \cup Dev : lock[y] \notin {NULL, t} => lock'[y] = lock[y]
    PROVE  Inv'
<1>1. PlaceOf(t) /\ node[t] \in Node /\ other[t] = NULL /\ mdev[t] = NULL
  BY Start DEF PlaceOf
<1>2. Walk(t, NULL, NULL, "failed")
  <2>1. other' = [other EXCEPT ![t] = NULL]
    BY <1>1, Start DEF Fail
  <2>2. RefsChange(t, NULL, NULL)
    BY <1>1, Start DEF Fail, RefsChange, One
  <2>3. QED
    BY <2>1, <2>2, Start DEF Fail, Walk
<1>3. PlaceOf(t)'
  BY <1>1, Start DEF Fail, PlaceOf, Busy
<1>4. Usable(NULL) /\ NotPending(NULL)
  BY Referred
<1>5. QED
  BY <1>2, <1>3, <1>4, Together

LEMMA KeepResolved ==
    ASSUME Inv, NEW t \in Thread, Resolved(t)
    PROVE  Inv'
<1>1. /\ pc[t] = "resolve" /\ mounted[node[t]] = NULL
      /\ UNCHANGED <<ino, data, mounted, rootNode, lock>>
  BY DEF Resolved, At
<1>2. PlaceOf(t) /\ node[t] \in Node /\ other[t] = NULL /\ mdev[t] = NULL
  BY <1>1, Start DEF PlaceOf
<1>3. CASE Fail(t, "NOT_DIR")
  BY <1>1, <1>3, Start, KeepFail
<1>4. CASE /\ pc' = [pc EXCEPT ![t] = IF todo[t] = <<"">> THEN "done" ELSE "dir"]
           /\ UNCHANGED <<ref, callVars, historyVars>>
  <2> DEFINE l == IF todo[t] = <<"">> THEN "done" ELSE "dir"
  <2>1. Walk(t, node[t], NULL, l)
    <3>1. node' = [node EXCEPT ![t] = node[t]] /\ other' = [other EXCEPT ![t] = NULL]
      BY <1>2, <1>4, Start DEF callVars
    <3>2. RefsChange(t, node[t], NULL)
      <4>1. ref' = ref
        BY <1>4
      <4>2. QED
        BY <1>2, <4>1, Start DEF RefsChange, One
    <3>3. QED
      BY <1>1, <1>4, <3>1, <3>2, Start DEF Walk, callVars
  <2>2. node[t] # Root
    BY <1>1, Start
  <2>3. PlaceOf(t)'
    BY <1>2, <1>4, <2>2, Start DEF PlaceOf, Busy, callVars
  <2>4. /\ Usable(node[t]) /\ NotPending(node[t]) /\ Usable(NULL) /\ NotPending(NULL)
    BY Referred
  <2>5. l \notin {"slot", "fill", "cache"}
    OBVIOUS
  <2>6. QED
    BY <1>1, <2>1, <2>3, <2>4, <2>5, Start, Together
<1>5. QED
  BY <1>3, <1>4 DEF Resolved

LEMMA KeepFind ==
    ASSUME Inv, NEW t \in Thread, Find(t)
    PROVE  Inv'
<1>1. /\ pc[t] = "dir" /\ lock[node[t]] = NULL
      /\ UNCHANGED <<ino, data, mounted, rootNode>>
  BY DEF Find, At, Free
<1>2. /\ PlaceOf(t) /\ node[t] \in Node /\ node[t] # Root
      /\ other[t] = NULL /\ mdev[t] = NULL
  BY <1>1, Start DEF PlaceOf, Busy
<1>3. CASE Fail(t, "NOT_FOUND") /\ UNCHANGED lock
  BY <1>1, <1>3, Start, KeepFail
<1>4. CASE /\ Wanted(t) # NULL
           /\ lock' = [lock EXCEPT ![node[t]] = t]
           /\ pc' = [pc EXCEPT ![t] = "cache"]
           /\ UNCHANGED <<ref, callVars, historyVars>>
  <2>1. Walk(t, node[t], NULL, "cache")
    <3>1. node' = [node EXCEPT ![t] = node[t]] /\ other' = [other EXCEPT ![t] = NULL]
      BY <1>2, <1>4, Start DEF callVars
    <3>2. RefsChange(t, node[t], NULL)
      <4>1. ref' = ref
        BY <1>4
      <4>2. QED
        BY <1>2, <4>1, Start DEF RefsChange, One
    <3>3. QED
      BY <1>1, <1>4, <3>1, <3>2, Start DEF Walk, callVars
  <2>2. Wanted(t)' = Wanted(t)
    BY <1>1, <1>4 DEF Wanted, callVars
  <2>3. PlaceOf(t)'
    BY <1>2, <1>4, <2>2, Start DEF PlaceOf, Busy, callVars
  <2>4. /\ Usable(node[t]) /\ NotPending(node[t]) /\ Usable(NULL) /\ NotPending(NULL)
    BY Referred
  <2>5. /\ lock' \in [Node \cup Dev -> Thread \cup {NULL}]
        /\ \A y \in Node \cup Dev : lock[y] \notin {NULL, t} => lock'[y] = lock[y]
        /\ lock'[node[t]] = t
    BY <1>1, <1>2, <1>4, Start
  <2>6. QED
    BY <1>1, <2>1, <2>3, <2>4, <2>5, Together
<1>5. QED
  BY <1>3, <1>4 DEF Find

LEMMA KeepFull ==
    ASSUME Inv, NEW t \in Thread, Full(t)
    PROVE  Inv'
<1>1. /\ pc[t] = "cache" /\ Fail(t, "NO_MEMORY")
      /\ lock' = [lock EXCEPT ![node[t]] = NULL]
      /\ UNCHANGED <<ino, data, mounted, rootNode>>
  BY DEF Full, At
<1>2. node[t] \in Node /\ lock[node[t]] = t
  BY <1>1, Start DEF LocksOf
<1>3. /\ lock' \in [Node \cup Dev -> Thread \cup {NULL}]
      /\ \A y \in Node \cup Dev : lock[y] \notin {NULL, t} => lock'[y] = lock[y]
  BY <1>1, <1>2, Start
<1>4. QED
  BY <1>1, <1>3, KeepFail

LEMMA KeepFound ==
    ASSUME Inv, NEW t \in Thread, Found(t)
    PROVE  Inv'
<1> DEFINE l == IF Len(todo[t]) = 1 THEN "done" ELSE "resolve"
<1>1. /\ PlaceOf(t) /\ node[t] \in Node /\ other[t] \in Node /\ mdev[t] = NULL
      /\ pc[t] = "found"
  BY Start DEF Found, At, PlaceOf
<1>2. Walk(t, other[t], NULL, l)
  <2>1. RefsChange(t, other[t], NULL)
    BY <1>1, Start DEF Found, RefsChange, One
  <2>2. QED
    BY <2>1, Start DEF Found, Walk
<1>3. PlaceOf(t)'
  BY <1>1, Start DEF Found, PlaceOf, Busy
<1>4. /\ Usable(other[t]) /\ NotPending(other[t]) /\ Usable(NULL) /\ NotPending(NULL)
  BY <1>1, Referred
<1>5. lock' = lock
  BY DEF Found
<1>6. l \notin {"slot", "fill", "cache"}
  OBVIOUS
<1>7. QED
  BY <1>1, <1>2, <1>3, <1>4, <1>5, <1>6, Start, Together

LEMMA KeepRelease ==
    ASSUME Inv, NEW t \in Thread, Release(t)
    PROVE  Inv'
<1>1. PlaceOf(t) /\ other[t] = NULL /\ mdev[t] = NULL /\ pc[t] \in {"done", "failed"}
  BY Start DEF Release, At, PlaceOf
<1>2. Walk(t, NULL, NULL, "idle")
  <2>1. other' = [other EXCEPT ![t] = NULL]
    BY <1>1, Start DEF Release
  <2>2. RefsChange(t, NULL, NULL)
    <3>1. CASE pc[t] = "done"
      BY <1>1, <3>1, Start DEF Release, At, RefsChange, One
    <3>2. CASE pc[t] = "failed"
      BY <1>1, <3>2, Start DEF Release, At, RefsChange, One
    <3>3. QED
      BY <1>1, <3>1, <3>2
  <2>3. DOMAIN ref' = Node
    BY Start DEF Release
  <2>4. QED
    BY <2>1, <2>2, <2>3, Start DEF Release, Walk
<1>3. PlaceOf(t)'
  BY <1>1, Start DEF Release, PlaceOf, Busy
<1>4. Usable(NULL) /\ NotPending(NULL)
  BY Referred
<1>5. lock' = lock
  BY DEF Release
<1>6. QED
  BY <1>1, <1>2, <1>3, <1>4, <1>5, Start, Together

\* As no two entries have one first sector, the cache finds the right one.
LEMMA CachedIs ==
    ASSUME Inv, NEW t \in Thread, pc[t] = "cache"
    PROVE  /\ Wanted(t) \in Inode
           /\ Cached(t) = {n \in Cache(t) : ino[n] = Wanted(t)}
<1>1. node[t] \in Node /\ node[t] # Root /\ Wanted(t) # NULL
  BY Start DEF PlaceOf, Busy
<1>2. ino \in [Node -> Inode \cup {NULL}] /\ ino[node[t]] # NULL
  BY <1>1 DEF Inv, TypeOK, Used
<1>3. Wanted(t) \in Inode
  <2>1. ino[node[t]] \in Inode
    BY <1>1, <1>2
  <2>2. QED
    BY <1>1, <2>1, TreeAssumption DEF Wanted
<1>4. \A n \in Cache(t) :
        ino[n] # NULL /\ Sector[ino[n]] = Sector[Wanted(t)] <=> ino[n] = Wanted(t)
  <2> SUFFICES ASSUME NEW n \in Cache(t)
               PROVE  ino[n] # NULL /\ Sector[ino[n]] = Sector[Wanted(t)]
                        <=> ino[n] = Wanted(t)
    OBVIOUS
  <2>1. ino[n] \in Inode \cup {NULL}
    BY <1>2 DEF Cache
  <2>2. QED
    BY <1>1, <1>3, <2>1, SectorAssumption
<1>5. QED
  BY <1>3, <1>4 DEF Cached

\* The node was there, and as the cache is free no thread is about to fill it.
LEMMA KeepHit ==
    ASSUME Inv, NEW t \in Thread, Hit(t)
    PROVE  Inv'
<1>1. /\ pc[t] = "cache" /\ lock[node[t][1]] = NULL
      /\ UNCHANGED <<ino, data, mounted, rootNode, node, todo, mdev>>
      /\ pc' = [pc EXCEPT ![t] = "found"]
      /\ lock' = [lock EXCEPT ![node[t]] = NULL]
  BY DEF Hit, At, Free
<1>2. /\ PlaceOf(t) /\ node[t] \in Node /\ node[t] # Root
      /\ other[t] = NULL /\ mdev[t] = NULL /\ lock[node[t]] = t
      /\ Wanted(t) # NULL
  BY <1>1, Start DEF PlaceOf, Busy, LocksOf
<1>3. PICK n \in Cached(t) : /\ ref' = [ref EXCEPT ![n] = @ + 1]
                             /\ other' = [other EXCEPT ![t] = n]
  BY DEF Hit
<1>4. n \in Node /\ n[1] = node[t][1] /\ ino[n] # NULL
  BY <1>1, <1>2, CachedIs DEF Cache
<1>5. Walk(t, node[t], n, "found")
  <2>1. node' = [node EXCEPT ![t] = node[t]]
    BY <1>1, Start
  <2>2. RefsChange(t, node[t], n)
    BY <1>2, <1>3, <1>4, Start DEF RefsChange, One
  <2>3. QED
    BY <1>1, <1>3, <2>1, <2>2, Start DEF Walk
<1>6. PlaceOf(t)'
  BY <1>1, <1>2, <1>3, <1>4, Start DEF PlaceOf, Busy
<1>7. Usable(node[t]) /\ NotPending(node[t]) /\ Usable(n)
  BY <1>4, Referred DEF Usable
<1>8. NotPending(n)
  <2> SUFFICES ASSUME NEW u \in Thread, pc[u] = "slot", n = other[u] PROVE FALSE
    BY DEF NotPending
  <2>1. LocksOf(u) /\ PlaceOf(u) /\ u # NULL
    BY Start
  <2>2. lock[n[1]] = u
    BY <2>1 DEF LocksOf, PlaceOf
  <2>3. QED
    BY <1>1, <1>4, <2>1, <2>2
<1>9. /\ lock' \in [Node \cup Dev -> Thread \cup {NULL}]
      /\ \A y \in Node \cup Dev : lock[y] \notin {NULL, t} => lock'[y] = lock[y]
  BY <1>1, <1>2, Start
<1>10. QED
  BY <1>1, <1>5, <1>6, <1>7, <1>8, <1>9, Together

\* Nobody refers to the node whose slot is used.
LEMMA Unreferenced ==
    ASSUME Inv, NEW t \in Thread, pc[t] = "cache", NEW n \in Evictable(t)
    PROVE  /\ n \in Node \ {Root} /\ n[1] = node[t][1] /\ n[1] \in Dev
           /\ ref[n] = 0 /\ rootNode[n[1]] # NULL /\ mounted[n] = NULL
           /\ \A u \in Thread : node[u] # n /\ other[u] # n
           /\ \A d \in Dev : rootNode[d] # n
<1>1. node[t] \in Node /\ node[t] # Root
  BY Start DEF PlaceOf, Busy
<1>2. n \in Node /\ n[1] = node[t][1] /\ (ino[n] = NULL \/ ref[n] = 0)
  BY DEF Evictable, Cache
<1>3. n[1] \in Dev
  BY <1>1, <1>2, OnDevice
<1>4. n # Root
  BY <1>3, VfsAssumption DEF Root
<1>5. RefsExact /\ Used
  BY DEF Inv
<1>6. rootNode[n[1]] # NULL
  BY <1>1, <1>2, <1>5 DEF Used
<1>7. ref[n] = 0
  BY <1>2, <1>4, <1>5, EmptySlot
<1>8. QED
  BY <1>2, <1>3, <1>4, <1>5, <1>6, <1>7, RefFacts

LEMMA KeepMiss ==
    ASSUME Inv, NEW t \in Thread, Miss(t)
    PROVE  Inv'
<1>1. /\ pc[t] = "cache" /\ lock[node[t][1]] = NULL /\ Cached(t) = {}
      /\ UNCHANGED <<data, mounted, rootNode, node, todo, mdev>>
      /\ pc' = [pc EXCEPT ![t] = "slot"]
      /\ lock' = [lock EXCEPT ![node[t][1]] = t]
  BY DEF Miss, At, Free
<1>2. /\ PlaceOf(t) /\ node[t] \in Node /\ node[t] # Root
      /\ other[t] = NULL /\ mdev[t] = NULL /\ lock[node[t]] = t
      /\ Wanted(t) # NULL
  BY <1>1, Start DEF PlaceOf, Busy, LocksOf
<1>3. PICK n \in Evictable(t) : /\ ino' = [ino EXCEPT ![n] = Wanted(t)]
                                /\ ref' = [ref EXCEPT ![n] = 1]
                                /\ other' = [other EXCEPT ![t] = n]
  BY DEF Miss
<1>4. /\ n \in Node \ {Root} /\ n[1] = node[t][1] /\ n[1] \in Dev
      /\ ref[n] = 0 /\ rootNode[n[1]] # NULL /\ mounted[n] = NULL
      /\ \A u \in Thread : node[u] # n /\ other[u] # n
      /\ \A d \in Dev : rootNode[d] # n
  BY <1>1, Unreferenced
<1>5. TypeOK
  BY DEF Inv
<1>6. TypeOK'
  <2>1. ino' \in [Node -> Inode \cup {NULL}]
    BY <1>1, <1>3, <1>5, CachedIs DEF TypeOK
  <2>2. QED
    BY <1>1, <1>3, <1>4, <1>5, <2>1 DEF TypeOK
<1>7. /\ \A m \in Node : ino'[m] = IF m = n THEN Wanted(t) ELSE ino[m]
      /\ \A m \in Node : ref'[m] = IF m = n THEN 1 ELSE ref[m]
      /\ \A u \in Thread : /\ other'[u] = IF u = t THEN n ELSE other[u]
                           /\ pc'[u] = IF u = t THEN "slot" ELSE pc[u]
  BY <1>1, <1>3, <1>5 DEF TypeOK
<1>8. Places'
  <2>1. PlaceOf(t)'
    BY <1>1, <1>2, <1>4, <1>7, NodeAssumption DEF PlaceOf, Busy
  <2>2. ASSUME NEW u \in Thread, u # t PROVE PlaceOf(u)'
    <3>1. PlaceOf(u)
      BY Start
    <3>2. pc[u] = "cache" => Wanted(u)' = Wanted(u)
      <4>1. pc[u] = "cache" => node[u] \in Node /\ node[u] # n
        BY <1>4, Start
      <4>2. QED
        BY <1>1, <1>7, <4>1 DEF Wanted
    <3>3. QED
      BY <1>1, <1>7, <2>2, <3>1, <3>2 DEF PlaceOf
  <2>3. QED
    BY <2>1, <2>2 DEF Places
<1>9. Used'
  BY <1>1, <1>2, <1>4, <1>7 DEF Inv, Used
<1>10. RefsExact'
  <2>1. /\ RefsExact /\ UNCHANGED <<rootNode, mounted>>
        /\ node' = [node EXCEPT ![t] = node[t]]
        /\ other' = [other EXCEPT ![t] = n]
    BY <1>1, <1>3, <1>5 DEF Inv, TypeOK
  <2>2. RefsChange(t, node[t], n)
    BY <1>2, <1>4, <1>7, Start DEF RefsChange, One
  <2>3. QED
    BY <1>5, <2>1, <2>2, RefsMove
<1>11. Locks'
  <2>1. \A y \in Node \cup Dev : lock[y] \notin {NULL, t} => lock'[y] = lock[y]
    BY <1>1, Start
  <2>2. \A u \in Thread \ {t} : pc'[u] = pc[u] /\ node'[u] = node[u] /\ other'[u] = other[u]
    BY <1>1, <1>7
  <2>3. node[t] # node[t][1] /\ node[t][1] \in Dev
    BY <1>2, <1>4, NodeAssumption
  <2>4. lock'[node[t]] = t /\ lock'[node[t][1]] = t
    BY <1>1, <1>2, <2>3, Start
  <2>5. LocksOf(t)'
    BY <1>1, <1>7, <2>4 DEF LocksOf
  <2>6. QED
    BY <2>1, <2>2, <2>5, LocksKept
<1>12. Distinct'
  <2> SUFFICES ASSUME NEW x \in Node \ {Root}, NEW y \in Node \ {Root},
                      ino'[x] # NULL, x[1] = y[1], ino'[x] = ino'[y]
               PROVE  x = y
    BY DEF Distinct, Place
  <2>1. \A m \in Node \ {n} : m[1] = n[1] => ino[m] # Wanted(t)
    BY <1>1, <1>4, CachedIs DEF Cache
  <2>2. CASE x # n /\ y # n
    BY <1>7, <2>2 DEF Inv, Distinct, Place
  <2>3. CASE x = n \/ y = n
    BY <1>7, <2>1, <2>3
  <2>4. QED
    BY <2>2, <2>3
<1>13. Pending'
  <2>1. ASSUME NEW m \in Node, data'[m] # ino'[m]
        PROVE  \E u \in Thread : other'[u] = m /\ pc'[u] \in {"slot", "fill"}
    <3>1. CASE m = n
      BY <1>7, <3>1
    <3>2. CASE m # n
      <4>1. data[m] # ino[m]
        BY <1>1, <1>7, <2>1, <3>2
      <4>2. PICK u \in Thread : other[u] = m /\ pc[u] \in {"slot", "fill"}
        BY <4>1 DEF Inv, Pending
      <4>3. QED
        BY <1>1, <1>7, <4>2
    <3>3. QED
      BY <3>1, <3>2
  <2>2. ASSUME NEW u \in Thread, pc'[u] = "slot" PROVE ref'[other'[u]] = 1
    <3>1. CASE u = t
      BY <1>4, <1>7, <3>1
    <3>2. CASE u # t
      <4>1. pc[u] = "slot" /\ other'[u] = other[u] /\ other[u] # n
        BY <1>4, <1>7, <2>2, <3>2
      <4>2. ref[other[u]] = 1 /\ other[u] \in Node
        BY <4>1, Start DEF Inv, Pending
      <4>3. QED
        BY <1>7, <4>1, <4>2
    <3>3. QED
      BY <3>1, <3>2
  <2>3. QED
    BY <2>1, <2>2 DEF Pending
<1>14. QED
  BY <1>6, <1>8, <1>9, <1>10, <1>11, <1>12, <1>13 DEF Inv

\* With the mutex of the node, nobody else can wait for the one of the cache
\* on its behalf any more, and t still has the two that it needs.
LEMMA KeepTakeSlot ==
    ASSUME Inv, NEW t \in Thread, TakeSlot(t)
    PROVE  Inv'
<1>1. /\ pc[t] = "slot" /\ lock[other[t]] = NULL
      /\ UNCHANGED <<ino, data, ref, mounted, rootNode, node, other, todo, mdev>>
      /\ pc' = [pc EXCEPT ![t] = "fill"]
      /\ lock' = [lock EXCEPT ![other[t]] = t, ![other[t][1]] = NULL]
  BY DEF TakeSlot, At, Free, nodeVars, callVars
<1>2. /\ PlaceOf(t) /\ node[t] \in Node /\ node[t] # Root
      /\ other[t] \in Node /\ other[t] # Root /\ other[t][1] = node[t][1]
      /\ lock[node[t]] = t /\ lock[node[t][1]] = t
  BY <1>1, Start DEF PlaceOf, Busy, LocksOf
<1>3. node[t] # other[t][1] /\ other[t] # other[t][1] /\ other[t][1] \in Dev
  BY <1>2, OnDevice, NodeAssumption
<1>4. \A u \in Thread : pc'[u] = IF u = t THEN "fill" ELSE pc[u]
  BY <1>1, Start
<1>5. TypeOK'
  <2>1. TypeOK
    BY DEF Inv
  <2>2. lock' \in [Node \cup Dev -> Thread \cup {NULL}]
    BY <1>1, Start
  <2>3. DOMAIN pc' = Thread
    BY <1>1, Start
  <2>4. QED
    BY <1>1, <2>1, <2>2, <2>3 DEF TypeOK
<1>6. Places'
  <2> SUFFICES ASSUME NEW u \in Thread PROVE PlaceOf(u)'
    BY DEF Places
  <2>1. PlaceOf(u) /\ Wanted(u)' = Wanted(u)
    BY <1>1, Start DEF Wanted
  <2>2. QED
    BY <1>1, <1>2, <1>4, <2>1 DEF PlaceOf, Busy
<1>7. Used' /\ RefsExact' /\ Distinct'
  BY <1>1 DEF Inv, Used, RefsExact, Distinct, Place
<1>8. Locks'
  <2>1. \A y \in Node \cup Dev : lock[y] \notin {NULL, t} => lock'[y] = lock[y]
    BY <1>1, <1>2, Start
  <2>2. \A u \in Thread \ {t} : pc'[u] = pc[u] /\ node'[u] = node[u] /\ other'[u] = other[u]
    BY <1>1, <1>4
  <2>3. lock'[node[t]] = t /\ lock'[other[t]] = t
    BY <1>1, <1>2, <1>3, Start
  <2>4. LocksOf(t)'
    BY <1>1, <1>4, <2>3 DEF LocksOf
  <2>5. QED
    BY <2>1, <2>2, <2>4, LocksKept
<1>9. Pending'
  BY <1>1, <1>4 DEF Inv, Pending
<1>10. QED
  BY <1>5, <1>6, <1>7, <1>8, <1>9 DEF Inv

LEMMA KeepFill ==
    ASSUME Inv, NEW t \in Thread, Fill(t)
    PROVE  Inv'
<1>1. /\ pc[t] = "fill"
      /\ UNCHANGED <<ino, ref, mounted, rootNode, node, other, todo, mdev>>
      /\ data' = [data EXCEPT ![other[t]] = ino[other[t]]]
      /\ pc' = [pc EXCEPT ![t] = "found"]
      /\ lock' = [lock EXCEPT ![other[t]] = NULL, ![node[t]] = NULL]
  BY DEF Fill, At, callVars
<1>2. /\ PlaceOf(t) /\ node[t] \in Node /\ node[t] # Root /\ other[t] \in Node
      /\ lock[node[t]] = t /\ lock[other[t]] = t
  BY <1>1, Start DEF PlaceOf, Busy, LocksOf
<1>3. \A u \in Thread : pc'[u] = IF u = t THEN "found" ELSE pc[u]
  BY <1>1, Start
<1>4. TypeOK'
  <2>1. TypeOK
    BY DEF Inv
  <2>2. lock' \in [Node \cup Dev -> Thread \cup {NULL}]
    BY <1>1, Start
  <2>3. DOMAIN pc' = Thread /\ DOMAIN data' = Node
    BY <1>1, <2>1 DEF TypeOK
  <2>4. QED
    BY <1>1, <2>1, <2>2, <2>3 DEF TypeOK
<1>5. Places'
  <2> SUFFICES ASSUME NEW u \in Thread PROVE PlaceOf(u)'
    BY DEF Places
  <2>1. PlaceOf(u) /\ Wanted(u)' = Wanted(u)
    BY <1>1, Start DEF Wanted
  <2>2. QED
    BY <1>1, <1>2, <1>3, <2>1 DEF PlaceOf, Busy
<1>6. Used' /\ RefsExact' /\ Distinct'
  BY <1>1 DEF Inv, Used, RefsExact, Distinct, Place
<1>7. Locks'
  <2>1. \A y \in Node \cup Dev : lock[y] \notin {NULL, t} => lock'[y] = lock[y]
    BY <1>1, <1>2, Start
  <2>2. \A u \in Thread \ {t} : pc'[u] = pc[u] /\ node'[u] = node[u] /\ other'[u] = other[u]
    BY <1>1, <1>3
  <2>3. LocksOf(t)'
    BY <1>3 DEF LocksOf
  <2>4. QED
    BY <2>1, <2>2, <2>3, LocksKept
<1>8. Pending'
  <2>1. \A m \in Node : data'[m] = IF m = other[t] THEN ino[m] ELSE data[m]
    BY <1>1 DEF Inv, TypeOK
  <2>2. ASSUME NEW m \in Node, data'[m] # ino'[m]
        PROVE  \E u \in Thread : other'[u] = m /\ pc'[u] \in {"slot", "fill"}
    <3>1. m # other[t] /\ data[m] # ino[m]
      BY <1>1, <2>1, <2>2
    <3>2. PICK u \in Thread : other[u] = m /\ pc[u] \in {"slot", "fill"}
      BY <3>1 DEF Inv, Pending
    <3>3. QED
      BY <1>1, <1>3, <3>1, <3>2
  <2>3. \A u \in Thread : pc'[u] = "slot" => ref'[other'[u]] = 1
    BY <1>1, <1>3 DEF Inv, Pending
  <2>4. QED
    BY <2>2, <2>3 DEF Pending
<1>9. QED
  BY <1>4, <1>5, <1>6, <1>7, <1>8 DEF Inv

\* Nothing but who has what mutex: an unmount that fails, or a crash.
LEMMA KeepLocked ==
    ASSUME Inv, NEW t \in Thread, UNCHANGED <<nodeVars, pc, callVars>>,
           lock' \in [Node \cup Dev -> Thread \cup {NULL}],
           \A y \in Node \cup Dev : lock[y] # NULL => lock'[y] = lock[y]
    PROVE  Inv'
<1>1. UNCHANGED <<ino, data, ref, mounted, rootNode, pc, node, other, todo, mdev>>
  BY DEF nodeVars, callVars
<1>2. TypeOK'
  BY <1>1 DEF Inv, TypeOK
<1>3. Places'
  <2> SUFFICES ASSUME NEW u \in Thread PROVE PlaceOf(u)'
    BY DEF Places
  <2>1. PlaceOf(u) /\ Wanted(u)' = Wanted(u)
    BY <1>1, Start DEF Wanted
  <2>2. QED
    BY <1>1, <2>1 DEF PlaceOf
<1>4. Used' /\ RefsExact' /\ Distinct' /\ Pending'
  BY <1>1 DEF Inv, Used, RefsExact, Distinct, Place, Pending
<1>5. Locks'
  <2>1. LocksOf(t)'
    <3>1. LocksOf(t) /\ t # NULL /\ PlaceOf(t)
      BY Start
    <3>2. pc[t] \in {"cache", "slot", "fill"} => node[t] \in Node \ {Root}
      BY Start DEF PlaceOf, Busy
    <3>3. pc[t] \in {"cache", "slot", "fill"} => node[t][1] \in Dev
      BY <3>2, OnDevice
    <3>4. pc[t] = "fill" => other[t] \in Node
      BY Start
    <3>5. QED
      BY <1>1, <3>1, <3>2, <3>3, <3>4 DEF LocksOf
  <2>2. QED
    BY <1>1, <2>1, LocksKept
<1>6. QED
  BY <1>2, <1>3, <1>4, <1>5 DEF Inv

LEMMA KeepMountSet ==
    ASSUME Inv, NEW t \in Thread, MountSet(t)
    PROVE  Inv'
<1> DEFINE m == node[t]
<1>1. /\ pc[t] = "mount"
      /\ UNCHANGED <<ino, data, rootNode, lock, node, other, todo>>
      /\ mdev' = [mdev EXCEPT ![t] = NULL]
      /\ pc' = [pc EXCEPT ![t] = "done"]
  BY DEF MountSet, At
<1>2. PlaceOf(t) /\ m \in Node /\ other[t] = NULL /\ mdev[t] \in Dev
  BY <1>1, Start DEF PlaceOf, Inv, TypeOK
<1>3. PICK e \in {TRUE, FALSE} :
        IF e THEN /\ mounted[m] = NULL
                  /\ mounted' = [mounted EXCEPT ![m] = mdev[t]]
                  /\ ref' = [ref EXCEPT ![m] = @ + 1]
             ELSE UNCHANGED <<mounted, ref>>
  BY DEF MountSet
<1>4. TypeOK /\ RefsExact /\ Used
  BY DEF Inv
<1>5. TypeOK'
  <2>1. mounted' \in [Node -> Dev \cup {NULL}] /\ DOMAIN ref' = Node
    BY <1>2, <1>3, <1>4 DEF TypeOK
  <2>2. mdev' \in [Thread -> Dev \cup {NULL}] /\ DOMAIN pc' = Thread
    BY <1>1, <1>4 DEF TypeOK
  <2>3. QED
    BY <1>1, <1>4, <2>1, <2>2 DEF TypeOK
<1>6. \A u \in Thread : /\ pc'[u] = IF u = t THEN "done" ELSE pc[u]
                        /\ mdev'[u] = IF u = t THEN NULL ELSE mdev[u]
  BY <1>1, <1>4 DEF TypeOK
<1>7. /\ \A n \in Node : mounted'[n] = mounted[n] \/ (n = m /\ mounted'[n] = mdev[t])
      /\ \A n \in Node : mounted[n] # NULL => mounted'[n] # NULL
  BY <1>2, <1>3, <1>4, VfsAssumption DEF TypeOK
<1>8. Places'
  <2> SUFFICES ASSUME NEW u \in Thread PROVE PlaceOf(u)'
    BY DEF Places
  <2>1. PlaceOf(u) /\ Wanted(u)' = Wanted(u)
    BY <1>1, Start DEF Wanted
  <2>2. QED
    BY <1>1, <1>2, <1>6, <2>1 DEF PlaceOf, Busy
<1>9. Used'
  <2>1. /\ ino[m] # NULL \/ m = Root
        /\ rootNode[mdev[t]] # NULL
    BY <1>2, <1>4, VfsAssumption DEF Used
  <2>2. Root \in Node
    BY DEF Node
  <2>3. mounted'[Root] # NULL
    BY <1>4, <1>7, <2>2 DEF Used
  <2>4. \A n \in Node : mounted'[n] # NULL => rootNode[mounted'[n]] # NULL
    BY <1>4, <1>7, <2>1 DEF Used
  <2>5. \A n \in Node \ {Root} : mounted'[n] # NULL => ino[n] # NULL
    BY <1>4, <1>7, <2>1 DEF Used
  <2>6. QED
    BY <1>1, <1>4, <1>6, <2>3, <2>4, <2>5 DEF Used
<1>10. RefsExact'
  <2> SUFFICES ASSUME NEW n \in Node
               PROVE  ref'[n] = Count(Thread, node', n) + Count(Thread, other', n)
                                + Count(Dev, rootNode', n) + Some(mounted'[n])
                                + One(n, Root)
    BY DEF RefsExact, Count, One, Some
  <2>1. ref[n] = Count(Thread, node, n) + Count(Thread, other, n)
                 + Count(Dev, rootNode, n) + Some(mounted[n]) + One(n, Root)
    BY <1>4, RefsCount
  <2>2. /\ Count(Thread, node, n) \in Nat /\ Count(Thread, other, n) \in Nat
        /\ Count(Dev, rootNode, n) \in Nat /\ One(n, Root) \in Nat
    BY CountFacts, NodeAssumption DEF One
  <2>3. /\ Count(Thread, node', n) = Count(Thread, node, n)
        /\ Count(Thread, other', n) = Count(Thread, other, n)
        /\ Count(Dev, rootNode', n) = Count(Dev, rootNode, n)
    BY <1>1
  <2>4. \/ ref'[n] = ref[n] /\ Some(mounted'[n]) = Some(mounted[n])
        \/ ref'[n] = ref[n] + 1 /\ Some(mounted[n]) = 0 /\ Some(mounted'[n]) = 1
    <3>1. DOMAIN ref = Node /\ DOMAIN mounted = Node /\ mdev[t] # NULL
      BY <1>2, <1>4, VfsAssumption DEF TypeOK
    <3>2. QED
      BY <1>3, <3>1 DEF Some
  <2>5. Some(mounted[n]) \in Nat
    BY DEF Some
  <2>6. QED
    BY <2>1, <2>2, <2>3, <2>4, <2>5
<1>11. Locks'
  <2>1. LocksOf(t)'
    BY <1>6 DEF LocksOf
  <2>2. QED
    BY <1>1, <1>6, <2>1, LocksKept
<1>12. Distinct'
  BY <1>1 DEF Inv, Distinct, Place
<1>13. Pending'
  <2>1. \A n \in Node : data'[n] # ino'[n] =>
          \E u \in Thread : other'[u] = n /\ pc'[u] \in {"slot", "fill"}
    BY <1>1, <1>6 DEF Inv, Pending
  <2>2. ASSUME NEW u \in Thread, pc'[u] = "slot" PROVE ref'[other'[u]] = 1
    <3>1. pc[u] = "slot" /\ other'[u] = other[u] /\ other[u] # m
      BY <1>1, <1>6, <2>2, Referred DEF NotPending
    <3>2. ref[other[u]] = 1 /\ other[u] \in Node
      BY <3>1, Start DEF Inv, Pending
    <3>3. QED
      BY <1>3, <1>4, <3>1, <3>2 DEF TypeOK
  <2>3. QED
    BY <2>1, <2>2 DEF Pending
<1>14. QED
  BY <1>5, <1>8, <1>9, <1>10, <1>11, <1>12, <1>13 DEF Inv

\* A device comes with a cache that nobody has seen before.
LEMMA KeepMountRead ==
    ASSUME Inv, NEW t \in Thread, NEW d \in Dev, MountRead(t, d)
    PROVE  Inv'
<1> DEFINE r == <<d, CHOOSE s \in Slot : TRUE>>
<1>1. /\ pc[t] = "done" /\ rootNode[d] = NULL
      /\ UNCHANGED <<mounted, lock, node, other, todo>>
      /\ rootNode' = [rootNode EXCEPT ![d] = r]
      /\ ino' = [ino EXCEPT ![r] = RootOf[d]]
      /\ data' = [data EXCEPT ![r] = RootOf[d]]
      /\ ref' = [ref EXCEPT ![r] = 1]
      /\ mdev' = [mdev EXCEPT ![t] = d]
      /\ pc' = [pc EXCEPT ![t] = "mount"]
  BY DEF MountRead, At
<1>2. /\ r \in Node \ {Root} /\ r # NULL /\ r[1] = d
      /\ RootOf[d] # NULL /\ d # NULL
  <2>1. (CHOOSE s \in Slot : TRUE) \in Slot
    BY VfsAssumption
  <2>2. r \in Dev \X Slot
    BY <2>1
  <2>3. RootOf[d] # NULL /\ d # NULL
    BY VfsAssumption
  <2>4. QED
    BY <2>2, <2>3, RootIsAlone, NodeAssumption DEF Node
<1> HIDE DEF r
<1>3. /\ PlaceOf(t) /\ node[t] \in Node /\ other[t] = NULL
      /\ TypeOK /\ Used /\ RefsExact
  BY <1>1, Start DEF PlaceOf, Inv
<1>4. /\ \A n \in Node \ {Root} : n[1] = d => ino[n] = NULL
      /\ ino[r] = NULL
  BY <1>1, <1>2, <1>3 DEF Used
<1>5. ref[r] = 0
  BY <1>2, <1>3, <1>4, EmptySlot
<1>6. /\ \A u \in Thread : node[u] # r /\ other[u] # r
      /\ \A x \in Dev : rootNode[x] # r
      /\ mounted[r] = NULL
  BY <1>2, <1>3, <1>5, RefFacts
<1>7. TypeOK'
  <2>1. RootOf[d] \in Inode
    BY VfsAssumption
  <2>2. ino' \in [Node -> Inode \cup {NULL}]
    BY <1>1, <1>3, <2>1 DEF TypeOK
  <2>3. QED
    BY <1>1, <1>2, <1>3, <2>2 DEF TypeOK
<1>8. /\ \A n \in Node : /\ ino'[n] = IF n = r THEN RootOf[d] ELSE ino[n]
                         /\ data'[n] = IF n = r THEN RootOf[d] ELSE data[n]
                         /\ ref'[n] = IF n = r THEN 1 ELSE ref[n]
      /\ \A u \in Thread : /\ mdev'[u] = IF u = t THEN d ELSE mdev[u]
                           /\ pc'[u] = IF u = t THEN "mount" ELSE pc[u]
      /\ \A x \in Dev : rootNode'[x] = IF x = d THEN r ELSE rootNode[x]
  BY <1>1, <1>3 DEF TypeOK
<1>9. Places'
  <2>1. PlaceOf(t)'
    BY <1>1, <1>2, <1>3, <1>8, NodeAssumption DEF PlaceOf, Busy
  <2>2. ASSUME NEW u \in Thread, u # t PROVE PlaceOf(u)'
    <3>1. PlaceOf(u)
      BY Start
    <3>2. pc[u] = "cache" => Wanted(u)' = Wanted(u)
      <4>1. pc[u] = "cache" => node[u] \in Node /\ node[u] # r
        BY <1>6, Start
      <4>2. QED
        BY <1>1, <1>8, <4>1 DEF Wanted
    <3>3. QED
      BY <1>1, <1>8, <2>2, <3>1, <3>2 DEF PlaceOf
  <2>3. QED
    BY <2>1, <2>2 DEF Places
<1>10. Used'
  <2>1. \A n \in Node \ {Root} :
          /\ (\E u \in Thread : node'[u] = n \/ other'[u] = n) => ino'[n] # NULL
          /\ mounted'[n] # NULL => ino'[n] # NULL
    BY <1>1, <1>2, <1>3, <1>8 DEF Used
  <2>2. \A n \in Node \ {Root} : (\E x \in Dev : rootNode'[x] = n) => ino'[n] # NULL
    BY <1>2, <1>3, <1>8 DEF Used
  <2>3. \A x \in Dev : rootNode[x] # NULL => rootNode'[x] # NULL
    BY <1>2, <1>8
  <2>4. \A n \in Node \ {Root} : ino'[n] # NULL => rootNode'[n[1]] # NULL
    <3> SUFFICES ASSUME NEW n \in Node \ {Root}, ino'[n] # NULL
                 PROVE  rootNode'[n[1]] # NULL
      OBVIOUS
    <3>1. n[1] \in Dev
      BY OnDevice
    <3>2. CASE n = r
      BY <1>2, <1>8, <3>2
    <3>3. CASE n # r
      BY <1>3, <1>8, <2>3, <3>1, <3>3 DEF Used
    <3>4. QED
      BY <3>2, <3>3
  <2>5. \A n \in Node : mounted'[n] # NULL => rootNode'[mounted'[n]] # NULL
    BY <1>1, <1>3, <2>3 DEF Used, TypeOK
  <2>6. \A u \in Thread : mdev'[u] # NULL => rootNode'[mdev'[u]] # NULL
    BY <1>2, <1>3, <1>8, <2>3 DEF Used, TypeOK
  <2>7. mounted'[Root] # NULL
    BY <1>1, <1>3 DEF Used
  <2>8. QED
    BY <2>1, <2>2, <2>4, <2>5, <2>6, <2>7 DEF Used
<1>11. RefsExact'
  <2> SUFFICES ASSUME NEW n \in Node
               PROVE  ref'[n] = Count(Thread, node', n) + Count(Thread, other', n)
                                + Count(Dev, rootNode', n) + Some(mounted'[n])
                                + One(n, Root)
    BY DEF RefsExact, Count, One, Some
  <2>1. ref[n] = Count(Thread, node, n) + Count(Thread, other, n)
                 + Count(Dev, rootNode, n) + Some(mounted[n]) + One(n, Root)
    BY <1>3, RefsCount
  <2>2. Count(Dev, rootNode', n) = Count(Dev, rootNode, n) + One(r, n) - One(NULL, n)
    <3> DEFINE f == rootNode
               g == rootNode'
    <3>1. Moves(Dev, f, g, d, r) /\ IsFiniteSet(Dev) /\ f[d] = NULL
      BY <1>1, <1>8, NodeAssumption DEF Moves
    <3> HIDE DEF f, g
    <3>2. Count(Dev, g, n) = Count(Dev, f, n) + One(r, n) - One(f[d], n)
      BY <3>1, CountMoves
    <3>3. QED
      BY <3>1, <3>2 DEF f, g
  <2>3. One(NULL, n) = 0
    BY NodeAssumption DEF One
  <2>4. ref'[n] = ref[n] + One(r, n)
    BY <1>5, <1>8, Start DEF One
  <2>5. /\ Count(Thread, node, n) \in Nat /\ Count(Thread, other, n) \in Nat
        /\ Count(Dev, rootNode, n) \in Nat
        /\ One(n, Root) \in Nat /\ One(r, n) \in Nat /\ Some(mounted[n]) \in Nat
    BY CountFacts, NodeAssumption DEF One, Some
  <2>6. /\ Count(Thread, node', n) = Count(Thread, node, n)
        /\ Count(Thread, other', n) = Count(Thread, other, n)
        /\ Some(mounted'[n]) = Some(mounted[n])
    BY <1>1
  <2>7. QED
    BY <2>1, <2>2, <2>3, <2>4, <2>5, <2>6
<1>12. Locks'
  <2>1. LocksOf(t)'
    BY <1>8 DEF LocksOf
  <2>2. QED
    BY <1>1, <1>8, <2>1, LocksKept
<1>13. Distinct'
  <2> SUFFICES ASSUME NEW x \in Node \ {Root}, NEW y \in Node \ {Root},
                      ino'[x] # NULL, x[1] = y[1], ino'[x] = ino'[y]
               PROVE  x = y
    BY DEF Distinct, Place
  <2>1. CASE x = r \/ y = r
    BY <1>2, <1>4, <1>8, <2>1
  <2>2. CASE x # r /\ y # r
    BY <1>8, <2>2 DEF Inv, Distinct, Place
  <2>3. QED
    BY <2>1, <2>2
<1>14. Pending'
  <2>1. ASSUME NEW m \in Node, data'[m] # ino'[m]
        PROVE  \E u \in Thread : other'[u] = m /\ pc'[u] \in {"slot", "fill"}
    <3>1. data[m] # ino[m]
      BY <1>8, <2>1
    <3>2. PICK u \in Thread : other[u] = m /\ pc[u] \in {"slot", "fill"}
      BY <3>1 DEF Inv, Pending
    <3>3. QED
      BY <1>1, <1>8, <3>2
  <2>2. ASSUME NEW u \in Thread, pc'[u] = "slot" PROVE ref'[other'[u]] = 1
    <3>1. pc[u] = "slot" /\ other'[u] = other[u] /\ other[u] # r
      BY <1>1, <1>6, <1>8, <2>2
    <3>2. ref[other[u]] = 1 /\ other[u] \in Node
      BY <3>1, Start DEF Inv, Pending
    <3>3. QED
      BY <1>8, <3>1, <3>2
  <2>3. QED
    BY <2>1, <2>2 DEF Pending
<1>15. QED
  BY <1>7, <1>9, <1>10, <1>11, <1>12, <1>13, <1>14 DEF Inv

LEMMA KeepUnmount ==
    ASSUME Inv, NEW t \in Thread, Unmount(t) \/ Recursive(t)
    PROVE  Inv'
<1>1. UNCHANGED <<nodeVars, pc, callVars>>
  BY DEF Unmount, Recursive
<1>2. \/ lock' = lock
      \/ /\ pc[t] = "done" /\ lock[node[t]] = NULL
         /\ lock' = [lock EXCEPT ![node[t]] = t]
  BY DEF Unmount, Recursive, At, Free
<1>3. /\ lock' \in [Node \cup Dev -> Thread \cup {NULL}]
      /\ \A y \in Node \cup Dev : lock[y] # NULL => lock'[y] = lock[y]
  <2>1. CASE lock' = lock
    BY <2>1, Start
  <2>2. CASE /\ pc[t] = "done" /\ lock[node[t]] = NULL
             /\ lock' = [lock EXCEPT ![node[t]] = t]
    BY <2>2, Start
  <2>3. QED
    BY <1>2, <2>1, <2>2
<1>4. QED
  BY <1>1, <1>3, KeepLocked

-----------------------------------------------------------------------------
(* The theorems.                                                           *)

LEMMA InvInit == Init => Inv
<1> SUFFICES ASSUME Init PROVE Inv
  OBVIOUS
<1> DEFINE r == <<Initrd, CHOOSE s \in Slot : TRUE>>
<1>1. /\ ino = [n \in Node |-> IF n = r THEN RootOf[Initrd] ELSE NULL]
      /\ data = ino
      /\ ref = [n \in Node |-> IF n = Root THEN 2 ELSE IF n = r THEN 1 ELSE 0]
      /\ mounted = [n \in Node |-> IF n = Root THEN Initrd ELSE NULL]
      /\ rootNode = [d \in Dev |-> IF d = Initrd THEN r ELSE NULL]
      /\ lock = [x \in Node \cup Dev |-> NULL]
      /\ pc = [t \in Thread |-> "idle"]
      /\ node = [t \in Thread |-> NULL] /\ other = node /\ mdev = node
      /\ todo = [t \in Thread |-> <<>>]
  BY DEF Init
<1>2. /\ r \in Node \ {Root} /\ r # NULL /\ r[1] = Initrd
      /\ RootOf[Initrd] # NULL /\ Initrd # NULL /\ Initrd \in Dev
      /\ Root \in Node
  <2>1. (CHOOSE s \in Slot : TRUE) \in Slot
    BY VfsAssumption
  <2>2. r \in Dev \X Slot
    BY <2>1, VfsAssumption
  <2>3. RootOf[Initrd] # NULL /\ Initrd # NULL /\ Initrd \in Dev
    BY VfsAssumption
  <2>4. QED
    BY <2>2, <2>3, RootIsAlone, NodeAssumption DEF Node
<1> HIDE DEF r
<1>3. TypeOK
  <2>1. RootOf[Initrd] \in Inode
    BY <1>2, VfsAssumption
  <2>2. ino \in [Node -> Inode \cup {NULL}]
    BY <1>1, <2>1
  <2>3. QED
    BY <1>1, <1>2, <2>2 DEF TypeOK
<1>4. Places /\ Locks
  BY <1>1 DEF Places, PlaceOf, Locks, LocksOf, Busy
<1>5. Used
  <2>1. \A t \in Thread : node[t] = NULL /\ other[t] = NULL /\ mdev[t] = NULL
    BY <1>1
  <2>2. \A d \in Dev : rootNode[d] = IF d = Initrd THEN r ELSE NULL
    BY <1>1
  <2>3. \A n \in Node : /\ mounted[n] = IF n = Root THEN Initrd ELSE NULL
                        /\ ino[n] = IF n = r THEN RootOf[Initrd] ELSE NULL
    BY <1>1
  <2>4. \A n \in Node : n # NULL
    BY NodeAssumption
  <2>5. QED
    BY <1>2, <2>1, <2>2, <2>3, <2>4 DEF Used
<1>6. RefsExact
  <2> SUFFICES ASSUME NEW n \in Node
               PROVE  ref[n] = Count(Thread, node, n) + Count(Thread, other, n)
                               + Count(Dev, rootNode, n) + Some(mounted[n])
                               + One(n, Root)
    BY RefsCount
  <2>1. n # NULL
    BY NodeAssumption
  <2>2. Count(Thread, node, n) = 0 /\ Count(Thread, other, n) = 0
    BY <1>1, <2>1, CountFacts, NodeAssumption
  <2>3. Count(Dev, rootNode, n) = IF n = r THEN 1 ELSE 0
    <3>1. CASE n = r
      <4>1. {d \in Dev : rootNode[d] = n} = {Initrd}
        BY <1>1, <1>2, <2>1, <3>1
      <4>2. Cardinality({Initrd}) = 1
        BY FS_Singleton
      <4>3. QED
        BY <3>1, <4>1, <4>2 DEF Count
    <3>2. CASE n # r
      <4>1. \A d \in Dev : rootNode[d] # n
        BY <1>1, <2>1, <3>2
      <4>2. QED
        BY <3>2, <4>1, CountFacts, NodeAssumption
    <3>3. QED
      BY <3>1, <3>2
  <2>4. Some(mounted[n]) = One(n, Root)
    BY <1>1, <1>2 DEF Some, One
  <2>5. QED
    BY <1>1, <1>2, <2>2, <2>3, <2>4 DEF One
<1>7. Distinct /\ Pending
  <2>1. \A n \in Node : ino[n] # NULL => n = r
    BY <1>1
  <2>2. Distinct
    BY <2>1 DEF Distinct, Place
  <2>3. Pending
    BY <1>1 DEF Pending
  <2>4. QED
    BY <2>2, <2>3
<1>8. QED
  BY <1>3, <1>4, <1>5, <1>6, <1>7 DEF Inv

LEMMA InvNext == Inv /\ [Next]_vars => Inv'
<1> SUFFICES ASSUME Inv, [Next]_vars PROVE Inv'
  OBVIOUS
<1>1. ASSUME NEW t \in Thread, Step(t) PROVE Inv'
  BY <1>1, KeepCross, KeepCrossed, KeepResolved, KeepFind, KeepHit, KeepMiss,
     KeepFull, KeepTakeSlot, KeepFill, KeepFound, KeepMountSet, KeepUnmount DEF Step
<1>2. ASSUME NEW t \in Thread, Release(t) \/ Unmount(t) PROVE Inv'
  BY <1>2, KeepRelease, KeepUnmount
<1>3. ASSUME NEW t \in Thread, NEW q \in Query[t], Call(t, q) PROVE Inv'
  BY <1>3, KeepCall
<1>4. ASSUME NEW t \in Thread, NEW d \in Dev, MountRead(t, d) PROVE Inv'
  BY <1>4, KeepMountRead
<1>5. CASE UNCHANGED vars
  <2>1. UNCHANGED <<ino, data, ref, mounted, rootNode, lock, pc, node, other, todo, mdev>>
    BY <1>5 DEF vars, nodeVars, callVars
  <2>2. Inv' = Inv
    <3>1. TypeOK' = TypeOK /\ Used' = Used
      BY <2>1 DEF TypeOK, Used
    <3>2. RefsExact' = RefsExact /\ Distinct' = Distinct /\ Pending' = Pending
      BY <2>1 DEF RefsExact, Distinct, Place, Pending
    <3>3. Places' = Places /\ Locks' = Locks
      BY <2>1 DEF Places, PlaceOf, Wanted, Locks, LocksOf
    <3>4. QED
      BY <3>1, <3>2, <3>3 DEF Inv
  <2>3. QED
    BY <2>2
<1>6. QED
  BY <1>1, <1>2, <1>3, <1>4, <1>5 DEF Next, Stopped

\* In every state of every run the references are counted, and the threads
\* that go for one file or directory meet at its node.
THEOREM VfsInvariance == Spec => []Inv
<1>1. Init => Inv
  BY InvInit
<1>2. Inv /\ [Next]_vars => Inv'
  BY InvNext
<1>3. QED
  BY <1>1, <1>2, PTL DEF Spec

\* refcount_inc and refcount_dec are in balance, over every interleaving of
\* lookups that succeed, fail half-way or find no slot, of mounts and of
\* unmounts: a count is what refers to the node, whatever the numbers of
\* threads, devices and slots and whatever is on the devices.
THEOREM CountsAreExact == Spec => []RefsExact
<1>1. Inv => RefsExact
  BY DEF Inv
<1>2. QED
  BY <1>1, VfsInvariance, PTL

\* vfs_node_cache_find and _saif_get_node give a file or a directory one node
\* at a time, and its data are only missing while the thread that brings
\* them keeps everybody else away from it; in archives whose entries have first
\* sectors of their own (SectorAssumption).
THEOREM OneNodeForEach == Spec => []OneNodeEach
<1>1. ASSUME Inv PROVE OneNodeEach
  <2>1. Distinct /\ Pending
    BY <1>1 DEF Inv
  <2>2. ASSUME NEW n \in Node, data[n] # ino[n]
        PROVE  \E t \in Thread :
                 /\ other[t] = n
                 /\ \/ pc[t] = "slot" /\ lock[n[1]] = t /\ ref[n] = 1
                    \/ pc[t] = "fill" /\ lock[n] = t
    <3>1. PICK t \in Thread : other[t] = n /\ pc[t] \in {"slot", "fill"}
      BY <2>1, <2>2 DEF Pending
    <3>2. PlaceOf(t) /\ LocksOf(t)
      BY <1>1, Start
    <3>3. CASE pc[t] = "slot"
      BY <2>1, <3>1, <3>2, <3>3 DEF PlaceOf, LocksOf, Pending
    <3>4. CASE pc[t] = "fill"
      BY <3>1, <3>2, <3>4 DEF LocksOf
    <3>5. QED
      BY <3>1, <3>3, <3>4
  <2>3. QED
    BY <2>1, <2>2 DEF OneNodeEach, Distinct
<1>2. QED
  BY <1>1, VfsInvariance, PTL

-----------------------------------------------------------------------------
(* Lookups.                                                                *)

\* What stands behind the last separator.
Blank == ""

\* A file or a directory, on its device.
Spot == Dev \X Inode

\* Nothing is mounted there.
Clear(M, y) == \A d \in Dev : ~On(M, y, d)

\* A lookup at x that has left the devices V does not come by y again, and no
\* device that is still to be crossed can be mounted on it: y is on a device
\* that was left, or above x.
Settled(M, V, x, y) ==
    /\ Clear(M, y)
    /\ y[1] \in V \/ (y[1] = x[1] /\ Depth[y[2]] < Depth[x[2]])

\* The devices that were left were entered and left through mounts, so that no
\* further device is mounted on them by one of these.
Arrived(M, V, x) ==
    /\ x \in Spot /\ x[1] \notin V
    /\ \A d \in V \cup {x[1]} : d = Initrd \/ \E z \in Spot : z[1] \in V /\ On(M, z, d)

\* x is j mounts from y.
Climbed(M, y, j, x) ==
    /\ Climb(M, y)[j] = x
    /\ \A i \in 0..(j - 1) : ~Clear(M, Climb(M, y)[i])

\* The first k names of p, and j mounts from there, lead to x.
Reached(M, p, V, k, j, x) ==
    /\ Arrived(M, V, x)
    /\ j <= Cardinality(V)
    /\ Way(M, p)[k] # <<>>
    /\ Climbed(M, Last(Way(M, p)[k]), j, x)
    /\ \A i \in 0..(k - 1) : Settled(M, V, x, Top(M, Last(Way(M, p)[i])))

\* x is on the way p leads, with the names rest to go.
OnWay(M, p, rest, x) ==
    \E V \in SUBSET Dev : \E k \in 0..(Len(p) - 1) : \E j \in 0..Cardinality(Dev) :
      rest = SubSeq(p, k + 1, Len(p)) /\ Reached(M, p, V, k, j, x)

\* The path that vfs_normalize_path makes of the arguments.
Path(t) == Normalize(query[t][1], query[t][2])

\* What the lookup of t has found, in each place of vfs_resolve_path, if M are
\* the mounts.
CallAt(t, M) ==
    /\ pc[t] \in {"resolve", "crossed"} =>
         \/ pc[t] = "resolve" /\ node[t] = Root /\ todo[t] = Path(t)
         \/ node[t] # Root /\ OnWay(M, Path(t), todo[t], Place(node[t]))
    /\ pc[t] \in {"dir", "cache", "slot", "fill", "found"} =>
         /\ OnWay(M, Path(t), todo[t], Place(node[t]))
         /\ Clear(M, Place(node[t])) /\ todo[t] # <<Blank>>
    /\ pc[t] \in {"slot", "fill", "found"} =>
         /\ other[t] # Root /\ Wanted(t) # NULL
         /\ Place(other[t]) = <<node[t][1], Wanted(t)>>
    /\ pc[t] \in {"done", "mount"} => Place(node[t]) = Names(M, Path(t))
    /\ outcome[t] \in {"NOT_FOUND", "NOT_DIR"} => Names(M, Path(t)) = NULL

\* The root of a device is the root.
RootsOK ==
    \A d \in Dev : rootNode[d] # NULL => Place(rootNode[d]) = <<d, RootOf[d]>>

\* A device is mounted in one place, as vfs_mount takes one that has no root
\* node yet.
MountedOnce ==
    /\ mounted[Root] = Initrd
    /\ \A m, n \in Node : mounted[m] # NULL /\ mounted[m] = mounted[n] => m = n
    /\ \A t \in Thread : mdev[t] # NULL =>
         /\ \A n \in Node : mounted[n] # mdev[t]
         /\ \A u \in Thread : mdev[u] = mdev[t] => u = t

\* A call has arguments; only one that ended without a node has an error.
HistoryOK ==
    /\ DOMAIN query = Thread /\ DOMAIN began = Thread /\ DOMAIN outcome = Thread
    /\ \A t \in Thread : /\ pc[t] # "idle" => query[t] \in Query[t]
                         /\ pc[t] # "failed" => outcome[t] = NULL

\* Each lookup has followed its path, in mounts that it may have found.
Followed == \A t \in Thread : \E M \in Seen(t) : CallAt(t, M)

\* With Inv, the invariant.
PathInv == RootsOK /\ MountedOnce /\ HistoryOK /\ Followed

-----------------------------------------------------------------------------
(* Functions that are defined from one number to the next.                 *)

\* A set of numbers has a least one.
LEMMA LeastNat ==
    ASSUME NEW S \in SUBSET Nat, S # {}
    PROVE  \E n \in S : \A m \in S : n <= m
<1>1. IsWellFoundedOn({r \in Nat \X Nat : r[1] < r[2]}, Nat)
  BY NatLessThanWellFounded DEF OpToRel
<1>2. PICK n \in S : \A m \in S : <<m, n>> \notin {r \in Nat \X Nat : r[1] < r[2]}
  BY <1>1, WFMin
<1>3. ASSUME NEW m \in S PROVE n <= m
  <2>1. <<m, n>> \in Nat \X Nat /\ ~(m < n)
    BY <1>2
  <2>2. QED
    BY <2>1
<1>4. QED
  BY <1>3

\* From one number to the next, up to n.
LEMMA UpTo ==
    ASSUME NEW n \in Nat, NEW S, 0 \in S, \A k \in 1..n : k - 1 \in S => k \in S
    PROVE  0..n \subseteq S
<1>1. SUFFICES ASSUME (0..n) \ S # {} PROVE FALSE
  OBVIOUS
<1>2. PICK k \in (0..n) \ S : \A m \in (0..n) \ S : k <= m
  <2> DEFINE R == (0..n) \ S
  <2>1. R \in SUBSET Nat /\ R # {}
    BY <1>1
  <2> HIDE DEF R
  <2>2. \E k \in R : \A m \in R : k <= m
    BY <2>1, LeastNat
  <2>3. QED
    BY <2>2 DEF R
<1>3. k # 0 /\ k \in 1..n /\ k - 1 \in 0..n /\ ~(k <= k - 1)
  BY <1>2
<1>4. k - 1 \in S
  BY <1>2, <1>3
<1>5. QED
  BY <1>2, <1>3, <1>4

\* f and g begin alike, and go on alike up to n.
Alike(f, g, n) ==
    f[0] = g[0] /\ \A k \in 1..n : f[k - 1] = g[k - 1] => f[k] = g[k]

\* Then they agree up to n.
LEMMA Agree ==
    ASSUME NEW n \in Nat, NEW f, NEW g, Alike(f, g, n)
    PROVE  \A k \in 0..n : f[k] = g[k]
<1> USE DEF Alike
<1> DEFINE S == {k \in 0..n : f[k] = g[k]}
<1>1. 0 \in S
  OBVIOUS
<1>2. \A k \in 1..n : k - 1 \in S => k \in S
  OBVIOUS
<1> HIDE DEF S
<1>3. 0..n \subseteq S
  BY <1>1, <1>2, UpTo
<1>4. QED
  BY <1>3 DEF S

\* G takes what there is at k - 1 to what there is at k.
IsIteration(f, n, a, G) ==
    f[0] = a /\ \A k \in 1..n : f[k] = G[<<f[k - 1], k>>]

\* There is such a function.
LEMMA Iterates ==
    ASSUME NEW n \in Nat, NEW S, NEW a \in S, NEW G \in [S \X (1..n) -> S]
    PROVE  \E f \in [0..n -> S] : IsIteration(f, n, a, G)
<1> DEFINE T == {m \in 0..n : \E f \in [0..m -> S] : IsIteration(f, m, a, G)}
<1>1. 0 \in T
  <2> DEFINE f == [k \in 0..0 |-> a]
  <2>1. f \in [0..0 -> S] /\ f[0] = a /\ \A k \in 1..0 : FALSE
    OBVIOUS
  <2> HIDE DEF f
  <2>2. IsIteration(f, 0, a, G)
    BY <2>1 DEF IsIteration
  <2>3. QED
    BY <2>1, <2>2
<1>2. ASSUME NEW m \in 1..n, m - 1 \in T PROVE m \in T
  <2>1. PICK f \in [0..(m - 1) -> S] : IsIteration(f, m - 1, a, G)
    BY <1>2
  <2>2. f[m - 1] \in S /\ G[<<f[m - 1], m>>] \in S
    OBVIOUS
  <2> DEFINE g == [k \in 0..m |-> IF k = m THEN G[<<f[m - 1], m>>] ELSE f[k]]
  <2>3. g \in [0..m -> S]
    BY <2>2
  <2>4. g[m] = G[<<f[m - 1], m>>] /\ \A k \in 0..(m - 1) : g[k] = f[k]
    OBVIOUS
  <2> HIDE DEF g
  <2>5. f[0] = a /\ \A k \in 1..(m - 1) : f[k] = G[<<f[k - 1], k>>]
    BY <2>1 DEF IsIteration
  <2>6. g[0] = a
    BY <2>4, <2>5
  <2>7. ASSUME NEW k \in 1..m PROVE g[k] = G[<<g[k - 1], k>>]
    <3>1. g[k - 1] = f[k - 1]
      BY <2>4
    <3>2. CASE k = m
      BY <2>4, <3>1, <3>2
    <3>3. CASE k # m
      BY <2>4, <2>5, <3>1, <3>3
    <3>4. QED
      BY <3>2, <3>3
  <2>8. IsIteration(g, m, a, G)
    BY <2>6, <2>7 DEF IsIteration
  <2>9. QED
    BY <2>3, <2>8
<1> HIDE DEF T
<1>3. 0..n \subseteq T
  BY <1>1, <1>2, UpTo
<1>4. n \in T
  BY <1>3
<1>5. QED
  BY <1>4 DEF T

-----------------------------------------------------------------------------
(* vfs_normalize_path.                                                     *)

\* A name that vfs_resolve_path looks for in a directory.
Normal(c) == c \notin {".", ".."}

\* What stands in a path, and what stands behind its last separator; the
\* provers do not know the empty string.
Text == STRING \cup {Blank}

LEMMA BlankFacts == Blank \in Text /\ Normal(Blank)
<1>1. Blank \in Text
  BY DEF Text
<1>2. Normal(Blank)
  BY DEF Blank, Normal
<1>3. QED
  BY <1>1, <1>2

LEMMA PartType ==
    ASSUME NEW out \in Seq(Text), NEW c \in Text
    PROVE  Part(out, c) \in Seq(Text)
<1>1. Append(out, c) \in Seq(Text) /\ <<>> \in Seq(Text)
  BY AppendProperties, EmptySeq
<1>2. Front(out) \in Seq(Text)
  BY DEF Front
<1>3. QED
  BY <1>1, <1>2 DEF Part

LEMMA PartsFacts ==
    ASSUME NEW cur \in Seq(Text), NEW in \in Seq(Text)
    PROVE  /\ Parts(cur, in) \in [0..Len(in) -> Seq(Text)]
           /\ Parts(cur, in)[0] = cur
           /\ \A k \in 1..Len(in) : Parts(cur, in)[k] = Part(Parts(cur, in)[k - 1], in[k])
<1> DEFINE n == Len(in)
           S == Seq(Text)
           Is(f) == f = [k \in 0..n |-> IF k = 0 THEN cur ELSE Part(f[k - 1], in[k])]
           G == [z \in S \X (1..n) |-> Part(z[1], in[z[2]])]
<1>1. n \in Nat /\ \A k \in 1..n : in[k] \in Text
  OBVIOUS
<1>2. G \in [S \X (1..n) -> S]
  BY <1>1, PartType
<1>3. \A z \in S, k \in 1..n : G[<<z, k>>] = Part(z, in[k])
  OBVIOUS
<1> HIDE DEF G, S, n
<1>4. cur \in S
  BY DEF S
<1>5. PICK f \in [0..n -> S] : IsIteration(f, n, cur, G)
  BY <1>1, <1>2, <1>4, Iterates
<1>6. f[0] = cur /\ \A k \in 1..n : f[k] = Part(f[k - 1], in[k])
  <2>1. \A k \in 1..n : k - 1 \in 0..n
    BY <1>1
  <2>2. \A k \in 1..n : f[k - 1] \in S
    BY <1>5, <2>1
  <2>3. QED
    BY <1>3, <1>5, <2>2 DEF IsIteration
<1>7. Is(f)
  <2>1. f = [k \in 0..n |-> f[k]]
    OBVIOUS
  <2>2. \A k \in 0..n : f[k] = IF k = 0 THEN cur ELSE Part(f[k - 1], in[k])
    BY <1>1, <1>6
  <2>3. QED
    BY <2>1, <2>2
<1>8. Parts(cur, in) = CHOOSE g : Is(g)
  BY DEF Parts, n
<1> DEFINE h == Parts(cur, in)
<1> HIDE DEF Is, h
<1>9. Is(h)
  BY <1>7, <1>8 DEF h
<1>10. h[0] = cur /\ \A k \in 1..n : h[k] = Part(h[k - 1], in[k])
  BY <1>1, <1>9 DEF Is
<1>11. \A k \in 0..n : h[k] = f[k]
  <2>1. Alike(h, f, n)
    BY <1>6, <1>10 DEF Alike
  <2>2. QED
    BY <1>1, <2>1, Agree
<1>12. h \in [0..n -> S]
  BY <1>9, <1>11 DEF Is
<1>13. QED
  BY <1>10, <1>12 DEF h, n, S

-----------------------------------------------------------------------------
(* From a place to what is mounted there.                                  *)

LEMMA DevFacts ==
    /\ Cardinality(Dev) \in Nat
    /\ \A d \in Dev : <<d, RootOf[d]>> \in Spot
    /\ <<Initrd, RootOf[Initrd]>> \in Spot
<1>1. Cardinality(Dev) \in Nat
  BY NodeAssumption, FS_CardinalityType
<1>2. QED
  BY <1>1, VfsAssumption DEF Spot

LEMMA AboveFacts ==
    ASSUME NEW M, NEW y \in Spot
    PROVE  /\ Above(M, y) \in Spot
           /\ Clear(M, y) => Above(M, y) = y
<1>1. CASE \E d \in Dev : On(M, y, d)
  <2> DEFINE e == CHOOSE d \in Dev : On(M, y, d)
  <2>1. e \in Dev
    BY <1>1
  <2>2. Above(M, y) = <<e, RootOf[e]>>
    BY <1>1 DEF Above
  <2> HIDE DEF e
  <2>3. QED
    BY <1>1, <2>1, <2>2, DevFacts DEF Clear
<1>2. CASE ~\E d \in Dev : On(M, y, d)
  BY <1>2 DEF Above
<1>3. QED
  BY <1>1, <1>2

\* The device of the mount at y.
LEMMA AboveMount ==
    ASSUME NEW M, NEW y, NEW d \in Dev, On(M, y, d),
           \A e \in Dev : On(M, y, e) => e = d
    PROVE  Above(M, y) = <<d, RootOf[d]>>
<1> DEFINE e == CHOOSE f \in Dev : On(M, y, f)
<1>1. e = d
  OBVIOUS
<1>2. Above(M, y) = <<e, RootOf[e]>>
  BY DEF Above
<1>3. QED
  BY <1>1, <1>2

LEMMA ClimbFacts ==
    ASSUME NEW M, NEW x \in Spot
    PROVE  /\ Climb(M, x) \in [0..Cardinality(Dev) -> Spot]
           /\ Climb(M, x)[0] = x
           /\ \A k \in 1..Cardinality(Dev) : Climb(M, x)[k] = Above(M, Climb(M, x)[k - 1])
<1> DEFINE n == Cardinality(Dev)
           S == Spot
           Is(f) == f = [k \in 0..n |-> IF k = 0 THEN x ELSE Above(M, f[k - 1])]
           G == [z \in S \X (1..n) |-> Above(M, z[1])]
<1>1. n \in Nat /\ x \in S
  BY DevFacts
<1>2. G \in [S \X (1..n) -> S]
  BY AboveFacts
<1>3. \A z \in S, k \in 1..n : G[<<z, k>>] = Above(M, z)
  OBVIOUS
<1> HIDE DEF G, S, n
<1>4. PICK f \in [0..n -> S] : IsIteration(f, n, x, G)
  BY <1>1, <1>2, Iterates
<1>5. f[0] = x /\ \A k \in 1..n : f[k] = Above(M, f[k - 1])
  <2>1. \A k \in 1..n : k - 1 \in 0..n
    BY <1>1
  <2>2. \A k \in 1..n : f[k - 1] \in S
    BY <1>4, <2>1
  <2>3. QED
    BY <1>3, <1>4, <2>2 DEF IsIteration
<1>6. Is(f)
  <2>1. f = [k \in 0..n |-> f[k]]
    OBVIOUS
  <2>2. \A k \in 0..n : f[k] = IF k = 0 THEN x ELSE Above(M, f[k - 1])
    BY <1>1, <1>5
  <2>3. QED
    BY <2>1, <2>2
<1>7. Climb(M, x) = CHOOSE g : Is(g)
  BY DEF Climb, n
<1> DEFINE h == Climb(M, x)
<1> HIDE DEF Is, h
<1>8. Is(h)
  BY <1>6, <1>7 DEF h
<1>9. h[0] = x /\ \A k \in 1..n : h[k] = Above(M, h[k - 1])
  BY <1>1, <1>8 DEF Is
<1>10. \A k \in 0..n : h[k] = f[k]
  <2>1. Alike(h, f, n)
    BY <1>5, <1>9 DEF Alike
  <2>2. QED
    BY <1>1, <2>1, Agree
<1>11. h \in [0..n -> S]
  BY <1>8, <1>10 DEF Is
<1>12. QED
  BY <1>9, <1>11 DEF h, n, S

LEMMA TopType ==
    ASSUME NEW M, NEW x \in Spot
    PROVE  Top(M, x) \in Spot
  BY ClimbFacts, DevFacts DEF Top

\* Where nothing is mounted the climb ends.
LEMMA ClimbStops ==
    ASSUME NEW M, NEW x \in Spot, NEW j \in 0..Cardinality(Dev),
           Clear(M, Climb(M, x)[j])
    PROVE  Top(M, x) = Climb(M, x)[j]
<1> DEFINE n == Cardinality(Dev)
           h == Climb(M, x)
           S == {m \in 0..(n - j) : h[j + m] = h[j]}
<1>1. n \in Nat /\ n - j \in Nat
  BY DevFacts
<1>2. /\ h \in [0..n -> Spot] /\ \A k \in 1..n : h[k] = Above(M, h[k - 1])
      /\ h[j] \in Spot /\ Clear(M, h[j])
  <2>1. h \in [0..n -> Spot] /\ \A k \in 1..n : h[k] = Above(M, h[k - 1])
    BY ClimbFacts
  <2> HIDE DEF h
  <2>2. h[j] \in Spot
    BY <2>1
  <2>3. QED
    BY <2>1, <2>2 DEF h
<1> HIDE DEF h, n
<1>3. 0 \in S
  BY <1>1 DEF n
<1>4. ASSUME NEW m \in 1..(n - j), m - 1 \in S PROVE m \in S
  <2>1. h[j + (m - 1)] = h[j] /\ j + m \in 1..n /\ (j + m) - 1 = j + (m - 1)
    BY <1>1, <1>4 DEF n
  <2>2. h[j + m] = Above(M, h[j])
    BY <1>2, <2>1
  <2>3. QED
    BY <1>2, <2>2, AboveFacts
<1> HIDE DEF S
<1>5. 0..(n - j) \subseteq S
  BY <1>1, <1>3, <1>4, UpTo
<1>6. n - j \in S
  BY <1>1, <1>5
<1>7. h[n] = h[j]
  BY <1>1, <1>6 DEF S, n
<1>8. QED
  BY <1>7 DEF Top, h, n

\* At most one device is mounted on a place.
Functional(M) ==
    \A y \in Spot : \A d, e \in Dev : On(M, y, d) /\ On(M, y, e) => d = e

\* With more mounts the climb begins as it did.
LEMMA ClimbGrows ==
    ASSUME NEW M, NEW L, M \subseteq L, Functional(L), NEW x \in Spot,
           NEW j \in 0..Cardinality(Dev),
           \A i \in 0..(j - 1) : ~Clear(M, Climb(M, x)[i])
    PROVE  \A i \in 0..j : Climb(L, x)[i] = Climb(M, x)[i]
<1> DEFINE n == Cardinality(Dev)
           h == Climb(M, x)
           g == Climb(L, x)
<1>1. n \in Nat
  BY DevFacts
<1>2. /\ h \in [0..n -> Spot] /\ \A k \in 1..n : h[k] = Above(M, h[k - 1])
      /\ \A k \in 1..n : g[k] = Above(L, g[k - 1])
      /\ h[0] = g[0]
  BY ClimbFacts
<1>3. \A i \in 0..(j - 1) : ~Clear(M, h[i])
  OBVIOUS
<1> HIDE DEF h, g
<1>4. ASSUME NEW k \in 1..j, g[k - 1] = h[k - 1] PROVE g[k] = h[k]
  <2>1. k \in 1..n /\ k - 1 \in 0..n /\ k - 1 \in 0..(j - 1)
    BY <1>1
  <2> DEFINE y == h[k - 1]
  <2>2. y \in Spot /\ ~Clear(M, y)
    BY <1>2, <1>3, <2>1
  <2>3. h[k] = Above(M, y) /\ g[k] = Above(L, y)
    BY <1>2, <1>4, <2>1
  <2> HIDE DEF y, n
  <2>4. PICK d \in Dev : On(M, y, d)
    BY <2>2 DEF Clear
  <2>5. On(L, y, d)
    BY <2>4 DEF On
  <2>6. \A e \in Dev : On(L, y, e) => e = d
    BY <2>2, <2>5 DEF Functional
  <2>7. \A e \in Dev : On(M, y, e) => e = d
    BY <2>6 DEF On
  <2>8. Above(M, y) = <<d, RootOf[d]>> /\ Above(L, y) = <<d, RootOf[d]>>
    BY <2>4, <2>5, <2>6, <2>7, AboveMount
  <2>9. QED
    BY <2>3, <2>8
<1>5. Alike(g, h, j) /\ j \in Nat
  BY <1>1, <1>2, <1>4 DEF Alike
<1>6. QED
  BY <1>5, Agree DEF g, h

\* What one climbs to stays the same when nothing new is mounted there.
LEMMA TopKept ==
    ASSUME NEW M, NEW L, M \subseteq L, Functional(L), NEW x \in Spot,
           Clear(M, Top(M, x)), Clear(L, Top(M, x))
    PROVE  Top(L, x) = Top(M, x)
<1> DEFINE n == Cardinality(Dev)
           S == {i \in 0..n : Clear(M, Climb(M, x)[i])}
<1>1. n \in Nat /\ n \in S
  BY DevFacts DEF Top
<1>2. PICK j \in S : \A i \in S : j <= i
  <2>1. S \in SUBSET Nat /\ S # {}
    BY <1>1
  <2> HIDE DEF S
  <2>2. QED
    BY <2>1, LeastNat
<1>3. j \in 0..n /\ Clear(M, Climb(M, x)[j])
  OBVIOUS
<1>4. \A i \in 0..(j - 1) : ~Clear(M, Climb(M, x)[i])
  <2> SUFFICES ASSUME NEW i \in 0..(j - 1), Clear(M, Climb(M, x)[i]) PROVE FALSE
    OBVIOUS
  <2>1. i \in 0..n /\ ~(j <= i)
    BY <1>1, <1>3
  <2>2. i \in S
    BY <2>1
  <2>3. QED
    BY <1>2, <2>1, <2>2
<1> HIDE DEF S
<1>5. Climb(L, x)[j] = Climb(M, x)[j]
  <2>1. j \in 0..j
    BY <1>3, <1>1
  <2>2. QED
    BY <1>3, <1>4, <2>1, ClimbGrows
<1>6. Top(M, x) = Climb(M, x)[j]
  BY <1>3, ClimbStops
<1>7. Clear(L, Climb(L, x)[j])
  BY <1>5, <1>6
<1>8. Top(L, x) = Climb(L, x)[j]
  BY <1>3, <1>7, ClimbStops
<1>9. QED
  BY <1>5, <1>6, <1>8

-----------------------------------------------------------------------------
(* The names, followed one by one.                                         *)

\* What the name c stands for in the directory i.
There(i, c) == IF c \in DOMAIN Entry[i] THEN Entry[i][c] ELSE NULL

LEMMA ThereType ==
    ASSUME NEW i \in Inode, NEW c
    PROVE  There(i, c) \in Inode \cup {NULL}
  BY TreeAssumption DEF There

LEMMA FollowNormal ==
    ASSUME NEW M, NEW way, way # <<>>, NEW c, Normal(c)
    PROVE  Follow(M, way, c) =
             LET x == Top(M, Last(way)) IN
             IF There(x[2], c) = NULL THEN <<>> ELSE Append(way, <<x[1], There(x[2], c)>>)
  BY DEF Follow, Normal, There

LEMMA LastType ==
    ASSUME NEW S, NEW s \in Seq(S), s # <<>>
    PROVE  /\ Last(s) \in S /\ Len(s) \in Nat \ {0}
           /\ Last(s) = s[Len(s)] /\ Front(s) \in Seq(S) /\ Len(Front(s)) = Len(s) - 1
           /\ \A i \in 1..(Len(s) - 1) : Front(s)[i] = s[i]
<1>1. Len(s) \in Nat \ {0} /\ \A i \in 1..Len(s) : s[i] \in S
  BY EmptySeq, ElementOfSeq
<1>2. Last(s) \in S /\ Last(s) = s[Len(s)]
  BY <1>1 DEF Last
<1> DEFINE n == Len(s) - 1
<1>3. n \in Nat /\ \A i \in 1..n : s[i] \in S
  BY <1>1
<1>4. Front(s) = SubSeq(s, 1, n)
  BY DEF Front
<1> HIDE DEF n
<1>5. /\ SubSeq(s, 1, n) \in Seq(S) /\ Len(SubSeq(s, 1, n)) = n
      /\ \A i \in 1..n : SubSeq(s, 1, n)[i] = s[i]
  BY <1>3
<1>6. QED
  BY <1>1, <1>2, <1>4, <1>5 DEF n

LEMMA FollowType ==
    ASSUME NEW M, NEW way \in Seq(Spot), NEW c
    PROVE  Follow(M, way, c) \in Seq(Spot)
<1>1. CASE way = <<>> \/ c = "."
  BY <1>1 DEF Follow
<1>2. CASE way # <<>> /\ c # "." /\ c = ".."
  BY <1>2, LastType DEF Follow
<1>3. CASE way # <<>> /\ Normal(c)
  <2> DEFINE x == Top(M, Last(way))
             i == There(x[2], c)
  <2>1. Last(way) \in Spot
    BY <1>3, LastType
  <2>2. x \in Spot
    BY <2>1, TopType
  <2>3. x[1] \in Dev /\ x[2] \in Inode
    BY <2>2 DEF Spot
  <2>4. i = NULL \/ <<x[1], i>> \in Spot
    BY <2>3, ThereType DEF Spot
  <2>5. Follow(M, way, c) = IF i = NULL THEN <<>> ELSE Append(way, <<x[1], i>>)
    BY <1>3, FollowNormal
  <2> HIDE DEF x, i
  <2>6. QED
    BY <2>4, <2>5, AppendProperties, EmptySeq
<1>4. QED
  BY <1>1, <1>2, <1>3 DEF Normal

LEMMA WayFacts ==
    ASSUME NEW M, NEW p \in Seq(Text)
    PROVE  /\ Way(M, p) \in [0..Len(p) -> Seq(Spot)]
           /\ Way(M, p)[0] = <<<<Initrd, RootOf[Initrd]>>>>
           /\ \A k \in 1..Len(p) : Way(M, p)[k] = Follow(M, Way(M, p)[k - 1], p[k])
<1> DEFINE n == Len(p)
           S == Seq(Spot)
           a == <<<<Initrd, RootOf[Initrd]>>>>
           Is(f) == f = [k \in 0..n |-> IF k = 0 THEN a ELSE Follow(M, f[k - 1], p[k])]
           G == [z \in S \X (1..n) |-> Follow(M, z[1], p[z[2]])]
<1>1. n \in Nat /\ a \in S
  <2>1. <<Initrd, RootOf[Initrd]>> \in Spot
    BY DevFacts
  <2>2. QED
    BY <2>1
<1>2. G \in [S \X (1..n) -> S]
  BY FollowType
<1>3. \A z \in S, k \in 1..n : G[<<z, k>>] = Follow(M, z, p[k])
  OBVIOUS
<1>4. Way(M, p) = CHOOSE g : Is(g)
  BY DEF Way
<1> HIDE DEF G, S, n, a
<1>5. PICK f \in [0..n -> S] : IsIteration(f, n, a, G)
  BY <1>1, <1>2, Iterates
<1>6. f[0] = a /\ \A k \in 1..n : f[k] = Follow(M, f[k - 1], p[k])
  <2>1. \A k \in 1..n : k - 1 \in 0..n
    BY <1>1
  <2>2. \A k \in 1..n : f[k - 1] \in S
    BY <1>5, <2>1
  <2>3. QED
    BY <1>3, <1>5, <2>2 DEF IsIteration
<1>7. Is(f)
  <2>1. f = [k \in 0..n |-> f[k]]
    OBVIOUS
  <2>2. \A k \in 0..n : f[k] = IF k = 0 THEN a ELSE Follow(M, f[k - 1], p[k])
    BY <1>1, <1>6
  <2>3. QED
    BY <2>1, <2>2
<1> DEFINE h == Way(M, p)
<1> HIDE DEF Is, h
<1>8. Is(h)
  BY <1>4, <1>7 DEF h
<1>9. h[0] = a /\ \A k \in 1..n : h[k] = Follow(M, h[k - 1], p[k])
  BY <1>1, <1>8 DEF Is
<1>10. \A k \in 0..n : h[k] = f[k]
  <2>1. Alike(h, f, n)
    BY <1>6, <1>9 DEF Alike
  <2>2. QED
    BY <1>1, <2>1, Agree
<1>11. h \in [0..n -> S]
  BY <1>8, <1>10 DEF Is
<1>12. QED
  BY <1>9, <1>11 DEF h, n, S, a

\* The way to the k-th name depends on the names up to it.
SameNames(p, q, n) == \A i \in 1..n : p[i] = q[i]

LEMMA WayPrefix ==
    ASSUME NEW M, NEW p \in Seq(Text), NEW q \in Seq(Text),
           NEW n \in Nat, n <= Len(p), n <= Len(q), SameNames(p, q, n)
    PROVE  \A k \in 0..n : Way(M, p)[k] = Way(M, q)[k]
<1> DEFINE f == Way(M, p)
           g == Way(M, q)
<1>1. /\ f[0] = g[0]
      /\ \A k \in 1..Len(p) : f[k] = Follow(M, f[k - 1], p[k])
      /\ \A k \in 1..Len(q) : g[k] = Follow(M, g[k - 1], q[k])
  BY WayFacts
<1> HIDE DEF f, g
<1>2. Len(p) \in Nat /\ Len(q) \in Nat
  OBVIOUS
<1>3. ASSUME NEW k \in 1..n, f[k - 1] = g[k - 1] PROVE f[k] = g[k]
  <2>1. k \in 1..Len(p) /\ k \in 1..Len(q) /\ p[k] = q[k]
    BY <1>2 DEF SameNames
  <2>2. f[k] = Follow(M, f[k - 1], p[k]) /\ g[k] = Follow(M, g[k - 1], q[k])
    BY <1>1, <2>1
  <2>3. QED
    BY <1>3, <2>1, <2>2
<1>4. Alike(f, g, n)
  BY <1>1, <1>3 DEF Alike
<1>5. QED
  BY <1>4, Agree DEF f, g

\* Behind a name that is not there is nothing.
LEMMA WayEnds ==
    ASSUME NEW M, NEW p \in Seq(Text), NEW k \in 0..Len(p), Way(M, p)[k] = <<>>,
           NEW m \in k..Len(p)
    PROVE  Way(M, p)[m] = <<>>
<1> DEFINE n == Len(p)
           f == Way(M, p)
           S == {i \in 0..(m - k) : f[k + i] = <<>>}
<1>1. n \in Nat /\ m - k \in Nat
  OBVIOUS
<1>2. \A i \in 1..n : f[i] = Follow(M, f[i - 1], p[i])
  BY WayFacts
<1>3. f[k] = <<>>
  OBVIOUS
<1> HIDE DEF f
<1>4. 0 \in S
  BY <1>1, <1>3
<1>5. ASSUME NEW i \in 1..(m - k), i - 1 \in S PROVE i \in S
  <2>1. f[k + (i - 1)] = <<>> /\ k + i \in 1..n /\ (k + i) - 1 = k + (i - 1)
    BY <1>1, <1>5
  <2>2. f[k + i] = Follow(M, <<>>, p[k + i])
    BY <1>2, <2>1
  <2>3. f[k + i] = <<>>
    BY <2>2 DEF Follow
  <2>4. QED
    BY <2>3
<1> HIDE DEF S
<1>6. 0..(m - k) \subseteq S
  BY <1>1, <1>4, <1>5, UpTo
<1>7. m - k \in S /\ k + (m - k) = m
  BY <1>1, <1>6
<1>8. QED
  BY <1>7 DEF S, f

Clean(p) == \A i \in 1..Len(p) : Normal(p[i])

LEMMA FrontAppend ==
    ASSUME NEW S, NEW s \in Seq(S), NEW e \in S
    PROVE  Front(Append(s, e)) = s /\ Last(Append(s, e)) = e
<1> DEFINE a == Append(s, e)
<1>1. /\ a \in Seq(S) /\ a # <<>> /\ Len(a) = Len(s) + 1 /\ Len(s) \in Nat
      /\ \A i \in 1..Len(s) : a[i] = s[i]
      /\ a[Len(s) + 1] = e
  BY AppendProperties
<1> HIDE DEF a
<1>2. /\ Last(a) = a[Len(a)] /\ Front(a) \in Seq(S) /\ Len(Front(a)) = Len(a) - 1
      /\ \A i \in 1..(Len(a) - 1) : Front(a)[i] = a[i]
  BY <1>1, LastType
<1>3. Last(a) = e
  BY <1>1, <1>2
<1>4. Len(Front(a)) = Len(s) /\ \A i \in 1..Len(Front(a)) : Front(a)[i] = s[i]
  BY <1>1, <1>2
<1>5. Front(a) = s
  BY <1>2, <1>4, SeqEqual
<1>6. QED
  BY <1>3, <1>5 DEF a

\* One more name of a path without "." and "..".
LEMMA WayStep ==
    ASSUME NEW M, NEW p \in Seq(Text), NEW k \in 1..Len(p), Normal(p[k])
    PROVE  LET way == Way(M, p)[k - 1]
               x == Top(M, Last(way))
               i == There(x[2], p[k])
           IN /\ way = <<>> \/ i = NULL => Way(M, p)[k] = <<>>
              /\ way # <<>> /\ i # NULL =>
                   /\ Way(M, p)[k] = Append(way, <<x[1], i>>)
                   /\ Last(Way(M, p)[k]) = <<x[1], i>>
                   /\ Front(Way(M, p)[k]) = way
                   /\ Len(Way(M, p)[k]) = Len(way) + 1
<1> DEFINE way == Way(M, p)[k - 1]
           x == Top(M, Last(way))
           i == There(x[2], p[k])
<1>1. way \in Seq(Spot) /\ Way(M, p)[k] = Follow(M, way, p[k])
  <2>1. k - 1 \in 0..Len(p)
    OBVIOUS
  <2>2. QED
    BY <2>1, WayFacts
<1>2. CASE way = <<>>
  BY <1>1, <1>2 DEF Follow
<1>3. CASE way # <<>>
  <2>1. Follow(M, way, p[k]) = IF i = NULL THEN <<>> ELSE Append(way, <<x[1], i>>)
    BY <1>3, FollowNormal
  <2>2. i # NULL => <<x[1], i>> \in Spot
    <3>1. Last(way) \in Spot
      BY <1>1, <1>3, LastType
    <3>2. x \in Spot
      BY <3>1, TopType
    <3>3. x[1] \in Dev /\ x[2] \in Inode
      BY <3>2 DEF Spot
    <3>4. QED
      BY <3>3, ThereType DEF Spot
  <2> HIDE DEF way, x, i
  <2>3. CASE i = NULL
    BY <1>1, <1>3, <2>1, <2>3 DEF way, x, i
  <2>4. CASE i # NULL
    <3> DEFINE e == <<x[1], i>>
    <3>1. e \in Spot
      BY <2>2, <2>4
    <3> HIDE DEF e
    <3>2. /\ Front(Append(way, e)) = way /\ Last(Append(way, e)) = e
          /\ Len(Append(way, e)) = Len(way) + 1
      BY <1>1, <3>1, FrontAppend, AppendProperties
    <3>3. Way(M, p)[k] = Append(way, e)
      BY <1>1, <2>1, <2>4 DEF e
    <3>4. QED
      BY <1>3, <2>4, <3>2, <3>3 DEF e, way, x, i
  <2>5. QED
    BY <2>3, <2>4
<1>4. QED
  BY <1>2, <1>3

LEMMA WayLength ==
    ASSUME NEW M, NEW p \in Seq(Text), Clean(p), NEW k \in 0..Len(p),
           Way(M, p)[k] # <<>>
    PROVE  Len(Way(M, p)[k]) = k + 1
<1> DEFINE n == Len(p)
           f == Way(M, p)
           S == {i \in 0..n : f[i] # <<>> => Len(f[i]) = i + 1}
<1>1. n \in Nat
  OBVIOUS
<1>2. Len(f[0]) = 1
  <2>1. f[0] = <<<<Initrd, RootOf[Initrd]>>>>
    BY WayFacts
  <2>2. \A z : Len(<<z>>) = 1
    OBVIOUS
  <2> HIDE DEF f
  <2>3. QED
    BY <2>1, <2>2
<1>3. \A i \in 1..n : f[i] # <<>> => f[i - 1] # <<>> /\ Len(f[i]) = Len(f[i - 1]) + 1
  BY WayStep DEF Clean
<1> HIDE DEF f
<1>4. 0 \in S
  <2>1. 0 \in 0..n /\ (f[0] # <<>> => Len(f[0]) = 0 + 1)
    BY <1>1, <1>2
  <2>2. QED
    BY <2>1
<1>5. ASSUME NEW i \in 1..n, i - 1 \in S PROVE i \in S
  <2>1. f[i - 1] # <<>> => Len(f[i - 1]) = (i - 1) + 1
    BY <1>5
  <2>2. f[i] # <<>> => Len(f[i]) = i + 1
    BY <1>3, <2>1
  <2>3. i \in 0..n
    BY <1>1
  <2>4. QED
    BY <2>2, <2>3
<1> HIDE DEF S
<1>6. 0..n \subseteq S
  BY <1>1, <1>4, <1>5, UpTo
<1>7. QED
  BY <1>6 DEF S, f, n

-----------------------------------------------------------------------------
(* The normalized path names what the path does, if the path names anything. *)

LEMMA PartClean ==
    ASSUME NEW out \in Seq(Text), Clean(out), NEW c \in Text
    PROVE  Clean(Part(out, c))
<1>1. CASE c = "." \/ (c = ".." /\ out = <<>>)
  BY <1>1 DEF Part, Clean
<1>2. CASE c = ".." /\ out # <<>>
  <2>1. Part(out, c) = Front(out)
    BY <1>2 DEF Part
  <2>2. /\ Len(Front(out)) = Len(out) - 1 /\ Len(out) \in Nat
        /\ \A i \in 1..(Len(out) - 1) : Front(out)[i] = out[i]
    BY <1>2, LastType
  <2>3. QED
    BY <2>1, <2>2 DEF Clean
<1>3. CASE Normal(c)
  <2>1. Part(out, c) = Append(out, c)
    BY <1>3 DEF Part, Normal
  <2>2. /\ Len(Append(out, c)) = Len(out) + 1 /\ Len(out) \in Nat
        /\ \A i \in 1..Len(out) : Append(out, c)[i] = out[i]
        /\ Append(out, c)[Len(out) + 1] = c
    BY AppendProperties
  <2>3. QED
    BY <1>3, <2>1, <2>2 DEF Clean
<1>4. QED
  BY <1>1, <1>2, <1>3 DEF Normal

LEMMA PartsClean ==
    ASSUME NEW cur \in Seq(Text), Clean(cur), NEW in \in Seq(Text), NEW k \in 0..Len(in)
    PROVE  Parts(cur, in)[k] \in Seq(Text) /\ Clean(Parts(cur, in)[k])
<1> DEFINE n == Len(in)
           f == Parts(cur, in)
           S == {i \in 0..n : Clean(f[i])}
<1>1. n \in Nat /\ \A i \in 1..n : in[i] \in Text
  OBVIOUS
<1>2. /\ f \in [0..n -> Seq(Text)] /\ f[0] = cur
      /\ \A i \in 1..n : f[i] = Part(f[i - 1], in[i])
  BY PartsFacts
<1> HIDE DEF f
<1>3. 0 \in S
  BY <1>1, <1>2
<1>4. ASSUME NEW i \in 1..n, i - 1 \in S PROVE i \in S
  <2>1. f[i - 1] \in Seq(Text) /\ Clean(f[i - 1])
    BY <1>2, <1>4
  <2>2. Clean(f[i])
    BY <1>1, <1>2, <2>1, PartClean
  <2>3. QED
    BY <1>1, <2>2
<1> HIDE DEF S
<1>5. 0..n \subseteq S
  BY <1>1, <1>3, <1>4, UpTo
<1>6. Clean(f[k]) /\ f[k] \in Seq(Text)
  BY <1>2, <1>5 DEF S
<1>7. QED
  BY <1>6 DEF f

\* A part of the input does to the output what it does to the way.
LEMMA PartWay ==
    ASSUME NEW M, NEW out \in Seq(Text), Clean(out), NEW c \in Text,
           Way(M, out)[Len(out)] # <<>>
    PROVE  Follow(M, Way(M, out)[Len(out)], c) = Way(M, Part(out, c))[Len(Part(out, c))]
<1> DEFINE n == Len(out)
           way == Way(M, out)[Len(out)]
<1>1. n \in Nat /\ n \in 0..n /\ way # <<>> /\ Len(way) = n + 1
  <2>1. n \in Nat /\ n \in 0..n
    OBVIOUS
  <2>2. QED
    BY <2>1, WayLength
<1>2. CASE c = "."
  BY <1>2 DEF Part, Follow
<1>3. CASE c = ".." /\ out = <<>>
  <2>1. Len(way) = 1
    BY <1>1, <1>3
  <2>2. Follow(M, way, c) = way /\ Part(out, c) = out
    BY <1>1, <1>3, <2>1 DEF Part, Follow
  <2>3. QED
    BY <2>2
<1>4. CASE c = ".." /\ out # <<>>
  <2> DEFINE p == Front(out)
  <2>1. /\ n \in Nat \ {0} /\ p \in Seq(Text) /\ Len(p) = n - 1
        /\ \A i \in 1..(n - 1) : p[i] = out[i]
    BY <1>4, LastType
  <2>2. Part(out, c) = p
    BY <1>4 DEF Part
  <2>3. Follow(M, way, c) = Front(way)
    <3>1. Len(way) # 1
      BY <1>1, <2>1
    <3>2. c # "." /\ ~(way = <<>>)
      BY <1>1, <1>4
    <3>3. QED
      BY <1>4, <3>1, <3>2 DEF Follow
  <2>4. Front(way) = Way(M, out)[n - 1]
    <3>1. n \in 1..Len(out) /\ Normal(out[n])
      BY <2>1 DEF Clean
    <3>2. QED
      BY <1>1, <3>1, WayStep
  <2> HIDE DEF p
  <2>5. Way(M, out)[n - 1] = Way(M, p)[n - 1]
    <3>1. n - 1 \in Nat /\ n - 1 <= Len(out) /\ n - 1 <= Len(p) /\ n - 1 \in 0..(n - 1)
      BY <2>1
    <3>2. SameNames(out, p, n - 1)
      BY <2>1 DEF SameNames
    <3>3. QED
      BY <2>1, <3>1, <3>2, WayPrefix
  <2>6. QED
    BY <2>1, <2>2, <2>3, <2>4, <2>5
<1>5. CASE Normal(c)
  <2> DEFINE p == Append(out, c)
  <2>1. /\ p \in Seq(Text) /\ Len(p) = n + 1
        /\ \A i \in 1..n : p[i] = out[i]
        /\ p[n + 1] = c
    BY AppendProperties
  <2>2. Part(out, c) = p
    BY <1>5 DEF Part, Normal
  <2> HIDE DEF p
  <2>3. Way(M, p)[n + 1] = Follow(M, Way(M, p)[n], c)
    <3>1. n + 1 \in 1..Len(p) /\ (n + 1) - 1 = n
      BY <1>1, <2>1
    <3>2. QED
      BY <2>1, <3>1, WayFacts
  <2>4. Way(M, p)[n] = Way(M, out)[n]
    <3>1. n <= Len(p) /\ n <= Len(out) /\ n \in 0..n /\ SameNames(p, out, n)
      BY <1>1, <2>1 DEF SameNames
    <3>2. QED
      BY <1>1, <2>1, <3>1, WayPrefix
  <2>5. QED
    BY <2>1, <2>2, <2>3, <2>4
<1>6. QED
  BY <1>2, <1>3, <1>4, <1>5 DEF Normal

\* What is named by a way, at the end of a path whose last part is end.
Named(M, way, end) ==
    IF way = <<>> THEN NULL
    ELSE IF end # Blank /\ Normal(end) THEN Last(way)
    ELSE IF Top(M, Last(way))[2] \in Dir THEN Top(M, Last(way)) ELSE NULL

LEMMA NamesIs ==
    ASSUME NEW M, NEW p
    PROVE  Names(M, p) =
             Named(M, Way(M, p)[IF Last(p) = Blank THEN Len(p) - 1 ELSE Len(p)], Last(p))
  BY DEF Names, Named, Blank, Normal

\* What vfs_normalize_path returns is a path, without "." and "..".
LEMMA NormalizeFacts ==
    ASSUME NEW cur \in Seq(Text), Clean(cur), NEW in \in Seq(Text), in # <<>>
    PROVE  /\ Normalize(cur, in) \in Seq(Text) /\ Normalize(cur, in) # <<>>
           /\ Clean(Normalize(cur, in))
<1> DEFINE n == Len(in)
           D == Parts(cur, in)
           c == Last(in)
<1>1. n \in Nat \ {0} /\ c = in[n] /\ c \in Text
  BY LastType
<1>2. n \in 0..n /\ n - 1 \in 0..n /\ n \in 1..n
  BY <1>1
<1>3. D[n] = Part(D[n - 1], c)
  BY <1>1, <1>2, PartsFacts
<1>4. /\ D[n] \in Seq(Text) /\ Clean(D[n])
      /\ D[n - 1] \in Seq(Text) /\ Clean(D[n - 1])
  BY <1>2, PartsClean
<1> HIDE DEF D
<1>5. CASE c \in {".", ".."}
  <2>1. Normalize(cur, in) = Append(D[n], Blank)
    BY <1>5 DEF Normalize, D, Blank
  <2>2. Part(D[n], Blank) = Append(D[n], Blank)
    BY BlankFacts DEF Part, Normal
  <2>3. Append(D[n], Blank) \in Seq(Text) /\ Append(D[n], Blank) # <<>>
    BY <1>4, BlankFacts, AppendProperties
  <2>4. Clean(Part(D[n], Blank))
    BY <1>4, BlankFacts, PartClean
  <2>5. QED
    BY <2>1, <2>2, <2>3, <2>4
<1>6. CASE c \notin {".", ".."}
  <2>1. Normalize(cur, in) = D[n]
    BY <1>6 DEF Normalize, D
  <2>2. D[n] = Append(D[n - 1], c)
    BY <1>3, <1>6 DEF Part
  <2>3. QED
    BY <1>1, <1>4, <2>1, <2>2, AppendProperties
<1>7. QED
  BY <1>5, <1>6

\* Following the names one by one, up and down, one comes to where the
\* normalized path leads, or finds that something on the way is not there.
LEMMA WayNormalized ==
    ASSUME NEW M, NEW cur \in Seq(Text), Clean(cur), NEW in \in Seq(Text),
           NEW k \in 0..Len(in)
    PROVE  Way(M, cur \o in)[Len(cur) + k] \in
             {<<>>, Way(M, Parts(cur, in)[k])[Len(Parts(cur, in)[k])]}
<1> DEFINE n == Len(in)
           m == Len(cur)
           p == cur \o in
           W == Way(M, p)
           D == Parts(cur, in)
           S == {i \in 0..n : W[m + i] \in {<<>>, Way(M, D[i])[Len(D[i])]}}
<1>1. n \in Nat /\ m \in Nat /\ \A i \in 1..n : in[i] \in Text
  OBVIOUS
<1>2. /\ p \in Seq(Text) /\ Len(p) = m + n
      /\ \A i \in 1..m : p[i] = cur[i]
      /\ \A i \in 1..n : p[m + i] = in[i]
  <2>1. /\ p \in Seq(Text) /\ Len(p) = m + n
        /\ \A i \in 1..(m + n) : p[i] = IF i <= m THEN cur[i] ELSE in[i - m]
    BY ConcatProperties
  <2> HIDE DEF p
  <2>2. \A i \in 1..m : i \in 1..(m + n) /\ i <= m
    BY <1>1
  <2>3. \A i \in 1..n : m + i \in 1..(m + n) /\ ~(m + i <= m) /\ (m + i) - m = i
    BY <1>1
  <2>4. QED
    BY <2>1, <2>2, <2>3
<1>3. D[0] = cur /\ \A i \in 1..n : D[i] = Part(D[i - 1], in[i])
  BY PartsFacts
<1>4. \A i \in 0..n : D[i] \in Seq(Text) /\ Clean(D[i])
  BY PartsClean
<1> HIDE DEF p, D, n, m
<1>5. \A i \in 1..(m + n) : W[i] = Follow(M, W[i - 1], p[i])
  BY <1>2, WayFacts
<1>6. W[m] = Way(M, cur)[m]
  <2>1. /\ m \in Nat /\ m <= Len(p) /\ m <= Len(cur) /\ m \in 0..m
        /\ SameNames(p, cur, m) /\ p \in Seq(Text) /\ cur \in Seq(Text)
    BY <1>1, <1>2 DEF m, SameNames
  <2>2. \A i \in 0..m : Way(M, p)[i] = Way(M, cur)[i]
    BY <2>1, WayPrefix
  <2>3. QED
    BY <2>1, <2>2
<1> HIDE DEF W
<1>7. 0 \in S
  <2>1. m + 0 = m /\ 0 \in 0..n
    BY <1>1
  <2>2. W[m + 0] = Way(M, D[0])[Len(D[0])]
    BY <1>3, <1>6, <2>1 DEF m
  <2>3. QED
    BY <2>1, <2>2
<1>8. ASSUME NEW i \in 1..n, i - 1 \in S PROVE i \in S
  <2> DEFINE out == D[i - 1]
             w == W[m + (i - 1)]
  <2>1. w \in {<<>>, Way(M, out)[Len(out)]} /\ i \in 0..n /\ i - 1 \in 0..n
    BY <1>1, <1>8
  <2>2. m + i \in 1..(m + n) /\ (m + i) - 1 = m + (i - 1)
    BY <1>1
  <2>3. W[m + i] = Follow(M, w, in[i])
    BY <1>2, <1>5, <2>2
  <2>4. out \in Seq(Text) /\ Clean(out) /\ in[i] \in Text /\ D[i] = Part(out, in[i])
    BY <1>1, <1>3, <1>4, <2>1
  <2> HIDE DEF out, w, S
  <2>5. CASE w = <<>>
    <3>1. W[m + i] = <<>>
      BY <2>3, <2>5 DEF Follow
    <3>2. QED
      BY <2>1, <3>1 DEF S
  <2>6. CASE w # <<>>
    <3>1. w = Way(M, out)[Len(out)] /\ Way(M, out)[Len(out)] # <<>>
      BY <2>1, <2>6
    <3>2. W[m + i] = Way(M, D[i])[Len(D[i])]
      BY <2>3, <2>4, <3>1, PartWay
    <3>3. QED
      BY <2>1, <3>2 DEF S
  <2>7. QED
    BY <2>5, <2>6
<1> HIDE DEF S
<1>9. 0..n \subseteq S
  BY <1>1, <1>7, <1>8, UpTo
<1>10. k \in S
  BY <1>9 DEF n
<1>11. QED
  BY <1>10 DEF S, W, D, p, m

\* vfs_normalize_path takes "name/.." away without a look whether name is
\* there, so the path may name something when the arguments do not.
LEMMA NormalizedNames ==
    ASSUME NEW M, NEW cur \in Seq(Text), Clean(cur), NEW in \in Seq(Text), in # <<>>
    PROVE  Names(M, cur \o in) \in {NULL, Names(M, Normalize(cur, in))}
<1> DEFINE n == Len(in)
           m == Len(cur)
           p == cur \o in
           c == Last(in)
           D == Parts(cur, in)
           q == Normalize(cur, in)
           To(k) == Way(M, D[k])[Len(D[k])]
<1>1. /\ n \in Nat \ {0} /\ c = in[n] /\ c \in Text /\ m \in Nat
      /\ n \in 0..n /\ n - 1 \in 0..n /\ n \in 1..n
  BY LastType
<1>2. /\ D[n - 1] \in Seq(Text) /\ Clean(D[n - 1]) /\ D[n] \in Seq(Text) /\ Clean(D[n])
      /\ D[n] = Part(D[n - 1], c)
  BY <1>1, PartsClean, PartsFacts
<1>3. p \in Seq(Text) /\ Len(p) = m + n /\ Last(p) = c
  <2>1. /\ p \in Seq(Text) /\ Len(p) = m + n
        /\ \A i \in 1..(m + n) : p[i] = IF i <= m THEN cur[i] ELSE in[i - m]
    BY ConcatProperties
  <2> HIDE DEF p
  <2>2. m + n \in 1..(m + n) /\ ~(m + n <= m) /\ (m + n) - m = n
    BY <1>1
  <2>3. p[m + n] = c
    BY <1>1, <2>1, <2>2
  <2>4. QED
    BY <2>1, <2>3 DEF Last
<1>4. /\ Way(M, p)[m + n] \in {<<>>, To(n)}
      /\ Way(M, p)[m + (n - 1)] \in {<<>>, To(n - 1)}
  BY <1>1, WayNormalized
<1>5. /\ Names(M, p) = Named(M, Way(M, p)[IF c = Blank THEN Len(p) - 1 ELSE Len(p)], c)
      /\ Names(M, q) = Named(M, Way(M, q)[IF Last(q) = Blank THEN Len(q) - 1 ELSE Len(q)],
                             Last(q))
  BY <1>3, NamesIs
\* The way along a path that goes on behind the directory.
<1>6. ASSUME NEW d \in Seq(Text), NEW e \in Text, q = Append(d, e)
      PROVE  /\ Last(q) = e /\ Len(q) - 1 = Len(d)
             /\ Way(M, q)[Len(q) - 1] = Way(M, d)[Len(d)]
  <2>1. /\ Append(d, e) \in Seq(Text) /\ Len(Append(d, e)) = Len(d) + 1 /\ Len(d) \in Nat
        /\ \A i \in 1..Len(d) : Append(d, e)[i] = d[i]
    BY AppendProperties
  <2>2. Last(Append(d, e)) = e
    BY FrontAppend
  <2> HIDE DEF q
  <2>3. SameNames(q, d, Len(d)) /\ Len(d) <= Len(q) /\ Len(d) \in 0..Len(d) /\ q \in Seq(Text)
    BY <1>6, <2>1 DEF SameNames
  <2>4. Way(M, q)[Len(d)] = Way(M, d)[Len(d)]
    BY <2>1, <2>3, WayPrefix
  <2>5. QED
    BY <1>6, <2>1, <2>2, <2>4
<1> HIDE DEF p, D, q, To
<1>7. CASE ~Normal(c)
  <2>1. q = Append(D[n], Blank)
    BY <1>7 DEF q, D, Normalize, Normal, Blank
  <2>2. Last(q) = Blank /\ Way(M, q)[Len(q) - 1] = To(n)
    BY <1>2, <1>6, <2>1, BlankFacts DEF To
  <2>3. Names(M, q) = Named(M, To(n), Blank)
    BY <1>5, <2>2
  <2>4. c # Blank
    BY <1>7, BlankFacts
  <2>5. Names(M, p) = Named(M, Way(M, p)[m + n], c)
    BY <1>3, <1>5, <2>4
  <2>6. Named(M, To(n), c) = Named(M, To(n), Blank) /\ Named(M, <<>>, c) = NULL
    BY <1>7 DEF Named
  <2>7. QED
    BY <1>4, <2>3, <2>5, <2>6 DEF p, q
<1>8. CASE Normal(c)
  <2>1. D[n] = Append(D[n - 1], c)
    BY <1>2, <1>8 DEF Part, Normal
  <2>2. q = D[n]
    BY <1>8 DEF q, D, Normalize, Normal
  <2>3. Last(q) = c /\ Way(M, q)[Len(q) - 1] = To(n - 1)
    BY <1>1, <1>2, <1>6, <2>1, <2>2 DEF To
  <2>4. Way(M, q)[Len(q)] = To(n)
    BY <2>2 DEF To
  <2>5. Named(M, <<>>, c) = NULL
    BY DEF Named
  <2>6. CASE c = Blank
    <3>1. Names(M, q) = Named(M, To(n - 1), c)
      BY <1>5, <2>3, <2>6
    <3>2. Names(M, p) = Named(M, Way(M, p)[m + (n - 1)], c)
      <4>1. Len(p) - 1 = m + (n - 1)
        BY <1>1, <1>3
      <4>2. QED
        BY <1>5, <2>6, <4>1
    <3>3. QED
      BY <1>4, <2>5, <3>1, <3>2 DEF p, q
  <2>7. CASE c # Blank
    <3>1. Names(M, q) = Named(M, To(n), c)
      BY <1>5, <2>3, <2>4, <2>7
    <3>2. Names(M, p) = Named(M, Way(M, p)[m + n], c)
      BY <1>3, <1>5, <2>7
    <3>3. QED
      BY <1>4, <2>5, <3>1, <3>2 DEF p, q
  <2>8. QED
    BY <2>6, <2>7
<1>9. QED
  BY <1>7, <1>8

-----------------------------------------------------------------------------
(* The way of a lookup.                                                    *)

LEMMA OneElement ==
    ASSUME NEW S, NEW s \in Seq(S), NEW e
    PROVE  s = <<e>> <=> (Len(s) = 1 /\ s[1] = e)
<1>1. Len(<<e>>) = 1 /\ <<e>>[1] = e
  OBVIOUS
<1>2. ASSUME Len(s) = 1, s[1] = e PROVE s = <<e>>
  <2>1. s \in Seq(S) /\ <<e>> \in Seq(S)
    BY <1>2, ElementOfSeq
  <2>2. \A i \in 1..Len(s) : s[i] = <<e>>[i]
    BY <1>1, <1>2
  <2>3. QED
    BY <1>1, <1>2, <2>1, <2>2, SeqEqual
<1>3. QED
  BY <1>1, <1>2

LEMMA RestFacts ==
    ASSUME NEW p \in Seq(Text), NEW k \in 0..(Len(p) - 1)
    PROVE  LET rest == SubSeq(p, k + 1, Len(p)) IN
           /\ rest \in Seq(Text) /\ rest # <<>> /\ Len(rest) = Len(p) - k
           /\ Head(rest) = p[k + 1] /\ Tail(rest) = SubSeq(p, (k + 1) + 1, Len(p))
           /\ rest = <<Blank>> <=> (k = Len(p) - 1 /\ Last(p) = Blank)
<1> DEFINE rest == SubSeq(p, k + 1, Len(p))
<1>1. Len(p) \in Nat /\ \A i \in 1..Len(p) : p[i] \in Text
  OBVIOUS
<1>2. k + 1 \in 1..Len(p) /\ Len(p) \in (k + 1)..Len(p)
  BY <1>1
<1>3. Head(rest) = p[k + 1] /\ Tail(rest) = SubSeq(p, (k + 1) + 1, Len(p))
  BY <1>2, HeadTailOfSubSeq
<1>4. /\ rest \in Seq(Text) /\ Len(rest) = Len(p) - k
      /\ \A i \in 1..(Len(p) - k) : rest[i] = p[k + i]
  <2> DEFINE m == k + 1
             n == Len(p)
  <2>1. m \in Int /\ n \in Int /\ m <= n /\ (\A i \in m..n : p[i] \in Text) /\ k \in Nat
    BY <1>1, <1>2
  <2>2. n - m + 1 = n - k /\ \A i \in 1..(n - k) : m + i - 1 = k + i
    BY <2>1
  <2>3. rest = SubSeq(p, m, n)
    OBVIOUS
  <2> HIDE DEF m, n
  <2>4. /\ SubSeq(p, m, n) \in Seq(Text)
        /\ Len(SubSeq(p, m, n)) = n - m + 1
        /\ \A i \in 1..n - m + 1 : SubSeq(p, m, n)[i] = p[m + i - 1]
    BY <2>1, SubSeqProperties
  <2>5. \A i \in 1..(n - k) : rest[i] = p[k + i]
    BY <2>2, <2>3, <2>4
  <2>6. QED
    BY <2>2, <2>3, <2>4, <2>5 DEF n
<1>5. Last(p) = p[Len(p)]
  BY DEF Last
<1> HIDE DEF rest
<1> DEFINE n == Len(p)
<1>6. n \in Nat /\ k \in 0..(n - 1) /\ Len(rest) = n - k /\ rest \in Seq(Text)
  BY <1>1, <1>4
<1>7. \A i \in 1..(n - k) : rest[i] = p[k + i]
  BY <1>4
<1>8. rest = <<Blank>> <=> (Len(rest) = 1 /\ rest[1] = Blank)
  BY <1>6, OneElement
<1> HIDE DEF n
<1>9. Len(rest) # 0 /\ rest[1] = p[k + 1] /\ (Len(rest) = 1 <=> k = n - 1)
  BY <1>6, <1>7
<1>10. rest # <<>>
  BY <1>9
<1>11. rest = <<Blank>> <=> (k = n - 1 /\ p[n] = Blank)
  BY <1>6, <1>8, <1>9
<1>12. QED
  BY <1>3, <1>4, <1>5, <1>10, <1>11 DEF n, rest

\* One more device is left.
LEMMA DevicesLeft ==
    ASSUME NEW V \in SUBSET Dev, NEW d \in Dev \ V
    PROVE  /\ Cardinality(V) \in Nat /\ Cardinality(V \cup {d}) = Cardinality(V) + 1
           /\ Cardinality(V) + 1 <= Cardinality(Dev)
<1>1. IsFiniteSet(V) /\ IsFiniteSet(Dev)
  BY NodeAssumption, FS_Subset
<1>2. Cardinality(V) \in Nat /\ Cardinality(V \cup {d}) = Cardinality(V) + 1
  BY <1>1, FS_AddElement, FS_CardinalityType
<1>3. V \cup {d} \subseteq Dev
  OBVIOUS
<1>4. Cardinality(V \cup {d}) <= Cardinality(Dev)
  BY <1>1, <1>3, FS_Subset
<1>5. QED
  BY <1>2, <1>4

\* The lookup begins at the root of the initrd.
LEMMA WayBegins ==
    ASSUME NEW M, NEW p \in Seq(Text), p # <<>>
    PROVE  OnWay(M, p, p, <<Initrd, RootOf[Initrd]>>)
<1> DEFINE x == <<Initrd, RootOf[Initrd]>>
<1>1. x \in Spot /\ x[1] = Initrd /\ Initrd \in Dev
  BY DevFacts, VfsAssumption
<1>2. Arrived(M, {}, x)
  BY <1>1 DEF Arrived
<1>3. Way(M, p)[0] = <<x>>
  BY WayFacts
<1> HIDE DEF x
<1>4. Way(M, p)[0] # <<>> /\ Last(Way(M, p)[0]) = x
  BY <1>3 DEF Last
<1>5. Climbed(M, x, 0, x)
  BY <1>1, ClimbFacts DEF Climbed
<1>6. Cardinality({}) = 0 /\ Cardinality(Dev) \in Nat
  BY FS_EmptySet, DevFacts
<1>7. Reached(M, p, {}, 0, 0, x)
  BY <1>2, <1>4, <1>5, <1>6 DEF Reached
<1>8. Len(p) \in Nat \ {0} /\ p = SubSeq(p, 0 + 1, Len(p))
  <2>1. Len(p) \in Nat \ {0}
    BY EmptySeq
  <2>2. SubSeq(p, 1, Len(p)) = p
    BY SubSeqFull
  <2>3. QED
    BY <2>1, <2>2
<1>9. 0 \in 0..(Len(p) - 1) /\ 0 \in 0..Cardinality(Dev) /\ {} \in SUBSET Dev
  BY <1>6, <1>8
<1>10. QED
  BY <1>7, <1>8, <1>9 DEF OnWay, x

\* Where the names so far lead to is the place the lookup is at, once nothing is
\* mounted there.
LEMMA WayTop ==
    ASSUME NEW M, NEW p \in Seq(Text), NEW V \in SUBSET Dev, NEW k \in 0..(Len(p) - 1),
           NEW j \in 0..Cardinality(Dev), NEW x, Reached(M, p, V, k, j, x), Clear(M, x)
    PROVE  /\ Way(M, p)[k] \in Seq(Spot) /\ Way(M, p)[k] # <<>>
           /\ Last(Way(M, p)[k]) \in Spot /\ Top(M, Last(Way(M, p)[k])) = x
<1> DEFINE y == Last(Way(M, p)[k])
<1>1. Way(M, p)[k] \in Seq(Spot)
  <2>1. k \in 0..Len(p)
    OBVIOUS
  <2>2. QED
    BY <2>1, WayFacts
<1>2. Way(M, p)[k] # <<>> /\ Climb(M, y)[j] = x
  BY DEF Reached, Climbed
<1>3. y \in Spot
  BY <1>1, <1>2, LastType
<1> HIDE DEF y
<1>4. Top(M, y) = x
  BY <1>2, <1>3, ClimbStops
<1>5. QED
  BY <1>1, <1>2, <1>3, <1>4 DEF y

\* What is there on the way to a name that is there.
LEMMA WayThere ==
    ASSUME NEW M, NEW p \in Seq(Text), NEW k \in 0..Len(p), Way(M, p)[k] # <<>>,
           NEW i \in 0..k
    PROVE  Way(M, p)[i] \in Seq(Spot) /\ Way(M, p)[i] # <<>> /\ Last(Way(M, p)[i]) \in Spot
<1>1. i \in 0..Len(p) /\ k \in i..Len(p)
  OBVIOUS
<1>2. Way(M, p)[i] # <<>>
  BY <1>1, WayEnds
<1>3. Way(M, p)[i] \in Seq(Spot)
  BY <1>1, WayFacts
<1>4. QED
  BY <1>2, <1>3, LastType

\* With more mounts the way begins as it did, as long as they are elsewhere.
LEMMA WayGrows ==
    ASSUME NEW M, NEW L, NEW p \in Seq(Text), NEW k \in 0..Len(p),
           \A i \in 0..(k - 1) : Top(L, Last(Way(M, p)[i])) = Top(M, Last(Way(M, p)[i]))
    PROVE  \A i \in 0..k : Way(L, p)[i] = Way(M, p)[i]
<1> DEFINE f == Way(M, p)
           g == Way(L, p)
<1>1. /\ f[0] = g[0]
      /\ \A i \in 1..Len(p) : f[i] = Follow(M, f[i - 1], p[i])
      /\ \A i \in 1..Len(p) : g[i] = Follow(L, g[i - 1], p[i])
  BY WayFacts
<1>2. \A i \in 0..(k - 1) : Top(L, Last(f[i])) = Top(M, Last(f[i]))
  OBVIOUS
<1> HIDE DEF f, g
<1>3. k \in Nat /\ Len(p) \in Nat /\ k <= Len(p)
  OBVIOUS
<1>4. ASSUME NEW i \in 1..k, g[i - 1] = f[i - 1] PROVE g[i] = f[i]
  <2>1. i \in 1..Len(p) /\ i - 1 \in 0..(k - 1)
    BY <1>3
  <2>2. f[i] = Follow(M, f[i - 1], p[i]) /\ g[i] = Follow(L, f[i - 1], p[i])
    BY <1>1, <1>4, <2>1
  <2>3. Top(L, Last(f[i - 1])) = Top(M, Last(f[i - 1]))
    BY <1>2, <2>1
  <2>4. Follow(L, f[i - 1], p[i]) = Follow(M, f[i - 1], p[i])
    BY <2>3 DEF Follow
  <2>5. QED
    BY <2>2, <2>4
<1>5. Alike(g, f, k)
  BY <1>1, <1>4 DEF Alike
<1>6. QED
  BY <1>3, <1>5, Agree DEF f, g

\* resolve_node goes from the mountpoint to what is mounted on it.  The mount
\* may be a new one; nothing that the lookup has left behind changes by it,
\* and a device is not come to twice.
LEMMA WayCrosses ==
    ASSUME NEW M, NEW L, M \subseteq L, Functional(L), NEW p \in Seq(Text),
           NEW rest, NEW x, NEW d \in Dev \ {Initrd}, On(L, x, d),
           \A y \in Spot : \A e \in Dev : On(L, y, e) => On(M, y, e) \/ y = x,
           \A z \in Spot : On(L, z, d) => z = x,
           OnWay(M, p, rest, x)
    PROVE  OnWay(L, p, rest, <<d, RootOf[d]>>)
<1> DEFINE r == <<d, RootOf[d]>>
<1>1. PICK V \in SUBSET Dev, k \in 0..(Len(p) - 1), j \in 0..Cardinality(Dev) :
         rest = SubSeq(p, k + 1, Len(p)) /\ Reached(M, p, V, k, j, x)
  BY DEF OnWay
<1> DEFINE W == Way(M, p)
           z == Last(W[k])
           U == V \cup {x[1]}
<1>2. /\ Arrived(M, V, x) /\ j <= Cardinality(V) /\ W[k] # <<>> /\ Climbed(M, z, j, x)
      /\ \A i \in 0..(k - 1) : Settled(M, V, x, Top(M, Last(W[i])))
  BY <1>1 DEF Reached
<1>3. /\ x \in Spot /\ x[1] \in Dev \ V /\ x[2] \in Inode
      /\ \A e \in U : e = Initrd \/ \E y \in Spot : y[1] \in V /\ On(M, y, e)
  BY <1>2 DEF Arrived, Spot
<1>4. r \in Spot /\ r[1] = d
  BY DevFacts
<1>5. \A y, e : On(M, y, e) => On(L, y, e)
  BY DEF On
<1>6. d \notin U
  BY <1>3, <1>5
<1>7. Arrived(L, U, r)
  <2>1. \A e \in U : e = Initrd \/ \E y \in Spot : y[1] \in U /\ On(L, y, e)
    BY <1>3, <1>5
  <2>2. x[1] \in U
    OBVIOUS
  <2> HIDE DEF U, r
  <2>3. QED
    BY <1>3, <1>4, <1>6, <2>1, <2>2 DEF Arrived
<1>8. /\ Cardinality(V) \in Nat /\ Cardinality(U) = Cardinality(V) + 1
      /\ Cardinality(U) <= Cardinality(Dev) /\ U \in SUBSET Dev /\ Cardinality(Dev) \in Nat
  BY <1>3, DevicesLeft, DevFacts
<1>9. k \in 0..Len(p) /\ \A i \in 0..(k - 1) : i \in 0..k
  OBVIOUS
<1>10. /\ W[k] # <<>> /\ z \in Spot
       /\ \A i \in 0..(k - 1) : Last(W[i]) \in Spot
  <2>1. \A i \in 0..k : Last(W[i]) \in Spot
    BY <1>2, <1>9, WayThere
  <2>2. k \in 0..k
    OBVIOUS
  <2> HIDE DEF W
  <2>3. QED
    BY <1>2, <1>9, <2>1, <2>2
<1> HIDE DEF r, U, W, z
<1>11. ASSUME NEW i \in 0..(k - 1)
       PROVE  /\ Top(L, Last(W[i])) = Top(M, Last(W[i]))
              /\ Settled(L, U, r, Top(M, Last(W[i])))
  <2> DEFINE y == Top(M, Last(W[i]))
  <2>1. Last(W[i]) \in Spot /\ y \in Spot
    BY <1>10, TopType
  <2>2. Clear(M, y) /\ (y[1] \in V \/ (y[1] = x[1] /\ Depth[y[2]] < Depth[x[2]]))
    BY <1>2 DEF Settled
  <2> HIDE DEF y
  <2>3. y # x
    <3>1. Depth[x[2]] \in Nat
      BY <1>3, TreeAssumption
    <3>2. ~(Depth[x[2]] < Depth[x[2]])
      BY <3>1
    <3>3. QED
      BY <1>3, <2>2, <3>2
  <2>4. Clear(L, y)
    BY <2>1, <2>2, <2>3 DEF Clear
  <2>5. y[1] \in U
    BY <2>2 DEF U
  <2>6. Top(L, Last(W[i])) = y
    BY <2>1, <2>2, <2>4, TopKept DEF y
  <2>7. QED
    BY <2>4, <2>5, <2>6 DEF Settled, y
<1>12. \A i \in 0..k : Way(L, p)[i] = W[i]
  <2>1. \A i \in 0..(k - 1) : Top(L, Last(W[i])) = Top(M, Last(W[i]))
    BY <1>11
  <2>2. QED
    BY <1>9, <2>1, WayGrows DEF W
<1>13. Climbed(L, z, j + 1, r)
  <2> DEFINE f == Climb(M, z)
             g == Climb(L, z)
  <2>1. f[j] = x /\ \A i \in 0..(j - 1) : ~Clear(M, f[i])
    BY <1>2 DEF Climbed
  <2>2. \A i \in 0..j : g[i] = f[i]
    BY <1>10, <2>1, ClimbGrows
  <2>3. j \in Nat /\ j + 1 \in 1..Cardinality(Dev) /\ (j + 1) - 1 = j
    BY <1>2, <1>8
  <2>4. g[j + 1] = Above(L, g[j])
    <3>1. \A i \in 1..Cardinality(Dev) : g[i] = Above(L, g[i - 1])
      BY <1>10, ClimbFacts
    <3>2. QED
      BY <2>3, <3>1
  <2> HIDE DEF f, g
  <2>5. Above(L, x) = r
    <3>1. \A e \in Dev : On(L, x, e) => e = d
      BY <1>3 DEF Functional
    <3>2. QED
      BY <3>1, AboveMount DEF r
  <2>6. g[j] = x /\ g[j + 1] = r
    BY <2>1, <2>2, <2>3, <2>4, <2>5
  <2>7. \A i \in 0..(j - 1) : ~Clear(L, g[i])
    <3>1. \A i \in 0..(j - 1) : g[i] = f[i]
      BY <2>2, <2>3
    <3>2. \A y : ~Clear(M, y) => ~Clear(L, y)
      BY <1>5 DEF Clear
    <3>3. QED
      BY <2>1, <3>1, <3>2
  <2>8. ~Clear(L, x)
    BY DEF Clear
  <2>9. \A i \in 0..((j + 1) - 1) : ~Clear(L, g[i])
    BY <2>3, <2>6, <2>7, <2>8
  <2>10. QED
    BY <2>6, <2>9 DEF Climbed, g
<1>14. Reached(L, p, U, k, j + 1, r)
  <2>1. k \in 0..k
    OBVIOUS
  <2>2. Way(L, p)[k] = W[k]
    BY <1>12, <2>1
  <2>3. \A i \in 0..(k - 1) : Way(L, p)[i] = W[i]
    BY <1>9, <1>12
  <2>4. \A i \in 0..(k - 1) : Settled(L, U, r, Top(L, Last(Way(L, p)[i])))
    BY <1>11, <2>3
  <2>5. j + 1 <= Cardinality(U)
    BY <1>2, <1>8
  <2>6. QED
    BY <1>2, <1>7, <1>13, <2>2, <2>4, <2>5 DEF Reached, z
<1>15. j + 1 \in 0..Cardinality(Dev)
  BY <1>2, <1>8
<1>16. QED
  BY <1>1, <1>8, <1>14, <1>15 DEF OnWay, r

\* From a directory with nothing mounted on it to a name in it.
LEMMA WayMoves ==
    ASSUME NEW M, NEW p \in Seq(Text), Clean(p), NEW rest, NEW x,
           OnWay(M, p, rest, x), Clear(M, x), There(x[2], Head(rest)) # NULL
    PROVE  /\ Len(rest) # 1 => OnWay(M, p, Tail(rest), <<x[1], There(x[2], Head(rest))>>)
           /\ Len(rest) = 1 /\ rest # <<Blank>> =>
                Names(M, p) = <<x[1], There(x[2], Head(rest))>>
<1> DEFINE i == There(x[2], Head(rest))
           e == <<x[1], i>>
           W == Way(M, p)
<1>1. PICK V \in SUBSET Dev, k \in 0..(Len(p) - 1), j \in 0..Cardinality(Dev) :
         rest = SubSeq(p, k + 1, Len(p)) /\ Reached(M, p, V, k, j, x)
  BY DEF OnWay
<1>2. /\ Arrived(M, V, x) /\ W[k] # <<>>
      /\ \A m \in 0..(k - 1) : Settled(M, V, x, Top(M, Last(W[m])))
  BY <1>1 DEF Reached
<1>3. Top(M, Last(W[k])) = x
  BY <1>1, WayTop
<1>4. /\ rest \in Seq(Text) /\ rest # <<>> /\ Len(rest) = Len(p) - k
      /\ Head(rest) = p[k + 1] /\ Tail(rest) = SubSeq(p, (k + 1) + 1, Len(p))
      /\ rest = <<Blank>> <=> (k = Len(p) - 1 /\ Last(p) = Blank)
  BY <1>1, RestFacts
<1>5. Len(p) \in Nat /\ k + 1 \in 1..Len(p) /\ (k + 1) - 1 = k
  OBVIOUS
<1>6. x[1] \in Dev /\ x[2] \in Inode /\ x[1] \notin V
  BY <1>2 DEF Arrived, Spot
<1>7. i \in Inode /\ Depth[x[2]] < Depth[i] /\ Depth[i] \in Nat /\ Depth[x[2]] \in Nat
  <2>1. i = Entry[x[2]][Head(rest)] /\ Head(rest) \in DOMAIN Entry[x[2]]
    BY DEF There
  <2>2. i \in Inode /\ Depth[i] > Depth[x[2]]
    BY <1>6, <2>1, TreeAssumption
  <2>3. QED
    BY <1>6, <2>2, TreeAssumption
<1>8. e \in Spot /\ e[1] = x[1] /\ e[2] = i
  BY <1>6, <1>7 DEF Spot
<1>9. W[k + 1] # <<>> /\ Last(W[k + 1]) = e
  <2> DEFINE way == W[(k + 1) - 1]
             y == Top(M, Last(way))
             b == There(y[2], p[k + 1])
  <2>1. way = W[k] /\ y = x /\ b = i
    BY <1>3, <1>4, <1>5
  <2>2. Normal(p[k + 1])
    BY <1>5 DEF Clean
  <2>3. /\ way # <<>> /\ b # NULL =>
             /\ W[k + 1] = Append(way, <<y[1], b>>)
             /\ Last(W[k + 1]) = <<y[1], b>>
             /\ Len(W[k + 1]) = Len(way) + 1
    BY <1>5, <2>2, WayStep
  <2>4. way \in Seq(Spot)
    <3>1. W[k] \in Seq(Spot)
      BY <1>1, WayTop
    <3>2. QED
      BY <2>1, <3>1
  <2> HIDE DEF way, y, b, W, e, i
  <2>5. Last(W[k + 1]) = e /\ Len(W[k + 1]) = Len(way) + 1
    BY <1>2, <2>1, <2>3 DEF e, i
  <2>6. Len(W[k + 1]) # 0
    BY <2>4, <2>5
  <2>7. W[k + 1] # <<>>
    BY <2>6, EmptySeq
  <2>8. QED
    BY <2>5, <2>7
<1> HIDE DEF i, e, W
<1>10. CASE Len(rest) # 1
  <2>1. k + 1 \in 0..(Len(p) - 1) /\ (k + 1) - 1 = k
    BY <1>4, <1>5, <1>10
  <2>2. Arrived(M, V, e)
    BY <1>2, <1>8 DEF Arrived
  <2>3. Climbed(M, Last(W[k + 1]), 0, e)
    BY <1>8, <1>9, ClimbFacts DEF Climbed
  <2>4. Settled(M, V, e, x)
    BY <1>7, <1>8 DEF Settled
  <2>5. ASSUME NEW m \in 0..k PROVE Settled(M, V, e, Top(M, Last(W[m])))
    <3>1. CASE m = k
      BY <1>3, <2>4, <3>1 DEF W
    <3>2. CASE m # k
      <4> DEFINE y == Top(M, Last(W[m]))
      <4>1. m \in 0..(k - 1)
        BY <3>2
      <4>2. Settled(M, V, x, y)
        BY <1>2, <4>1
      <4>3. y[1] \notin V => y[2] \in Inode
        <5>1. m \in 0..k /\ k \in 0..Len(p)
          BY <1>5
        <5>2. Last(W[m]) \in Spot
          BY <1>2, <5>1, WayThere DEF W
        <5>3. y \in Spot
          BY <5>2, TopType
        <5>4. QED
          BY <5>3 DEF Spot
      <4> HIDE DEF y
      <4>4. y[2] \in Inode => Depth[y[2]] \in Nat
        BY TreeAssumption
      <4>5. QED
        BY <1>7, <1>8, <4>2, <4>3, <4>4 DEF Settled, y
    <3>3. QED
      BY <3>1, <3>2
  <2>6. 0 <= Cardinality(V) /\ 0 \in 0..Cardinality(Dev)
    <3>1. Cardinality(V) \in Nat /\ Cardinality(Dev) \in Nat
      BY <1>6, DevicesLeft, DevFacts
    <3>2. QED
      BY <3>1
  <2>7. Reached(M, p, V, k + 1, 0, e)
    BY <1>9, <2>1, <2>2, <2>3, <2>5, <2>6 DEF Reached, W
  <2>8. OnWay(M, p, Tail(rest), e)
    BY <1>4, <2>1, <2>6, <2>7 DEF OnWay
  <2>9. QED
    BY <1>10, <2>8 DEF e, i
<1>11. CASE Len(rest) = 1 /\ rest # <<Blank>>
  <2>1. k + 1 = Len(p) /\ Last(p) = p[k + 1] /\ Last(p) # Blank
    <3>1. k + 1 = Len(p)
      <4>1. Len(p) - k = 1
        BY <1>4, <1>11
      <4>2. k \in Nat
        BY <1>1
      <4>3. QED
        BY <1>5, <4>1, <4>2
    <3>2. k = Len(p) - 1
      BY <1>5, <3>1
    <3>3. QED
      BY <1>4, <1>11, <3>1, <3>2 DEF Last
  <2>2. Normal(Last(p))
    BY <1>5, <2>1 DEF Clean
  <2>3. Names(M, p) = Named(M, W[k + 1], Last(p))
    BY <2>1, NamesIs DEF W
  <2>4. Named(M, W[k + 1], Last(p)) = e
    BY <1>9, <2>1, <2>2 DEF Named
  <2>5. QED
    BY <1>11, <2>3, <2>4 DEF e, i
<1>12. QED
  BY <1>10, <1>11

\* Behind the last separator the directory itself is meant.
LEMMA WayAtEnd ==
    ASSUME NEW M, NEW p \in Seq(Text), NEW x, OnWay(M, p, <<Blank>>, x), Clear(M, x)
    PROVE  Names(M, p) = IF x[2] \in Dir THEN x ELSE NULL
<1> DEFINE rest == <<Blank>>
<1>1. PICK V \in SUBSET Dev, k \in 0..(Len(p) - 1), j \in 0..Cardinality(Dev) :
         rest = SubSeq(p, k + 1, Len(p)) /\ Reached(M, p, V, k, j, x)
  BY DEF OnWay
<1>2. k = Len(p) - 1 /\ Last(p) = Blank
  BY <1>1, RestFacts
<1>3. Top(M, Last(Way(M, p)[k])) = x /\ Way(M, p)[k] # <<>>
  BY <1>1, WayTop
<1>4. Names(M, p) = Named(M, Way(M, p)[k], Blank)
  BY <1>2, NamesIs
<1>5. QED
  BY <1>3, <1>4 DEF Named

\* A name on the way that is not there.
LEMMA WayMisses ==
    ASSUME NEW M, NEW p \in Seq(Text), Clean(p), NEW rest, NEW x,
           OnWay(M, p, rest, x), Clear(M, x), There(x[2], Head(rest)) = NULL,
           rest # <<Blank>>
    PROVE  Names(M, p) = NULL
<1> DEFINE n == IF Last(p) = Blank THEN Len(p) - 1 ELSE Len(p)
<1>1. PICK V \in SUBSET Dev, k \in 0..(Len(p) - 1), j \in 0..Cardinality(Dev) :
         rest = SubSeq(p, k + 1, Len(p)) /\ Reached(M, p, V, k, j, x)
  BY DEF OnWay
<1>2. Top(M, Last(Way(M, p)[k])) = x
  BY <1>1, WayTop
<1>3. Head(rest) = p[k + 1] /\ ~(k = Len(p) - 1 /\ Last(p) = Blank)
  BY <1>1, RestFacts
<1>4. Len(p) \in Nat /\ k + 1 \in 1..Len(p) /\ (k + 1) - 1 = k
  OBVIOUS
<1>5. Way(M, p)[k + 1] = <<>>
  <2>1. Normal(p[k + 1])
    BY <1>4 DEF Clean
  <2> DEFINE way == Way(M, p)[(k + 1) - 1]
  <2>2. There(Top(M, Last(way))[2], p[k + 1]) = NULL
    BY <1>2, <1>3, <1>4
  <2>3. QED
    BY <1>4, <2>1, <2>2, WayStep
<1>6. n \in (k + 1)..Len(p) /\ k + 1 \in 0..Len(p)
  BY <1>3, <1>4
<1>7. Way(M, p)[n] = <<>>
  BY <1>5, <1>6, WayEnds
<1>8. Names(M, p) = Named(M, Way(M, p)[n], Last(p))
  BY NamesIs
<1>9. QED
  BY <1>7, <1>8 DEF Named

-----------------------------------------------------------------------------
(* What a lookup has followed.                                             *)

\* The lookup of t has followed its path.
FollowedBy(t) == \E M \in Seen(t) : CallAt(t, M)

LEMMA QueryFacts ==
    ASSUME HistoryOK, NEW t \in Thread, pc[t] # "idle"
    PROVE  /\ query[t][1] \in Seq(Text) /\ query[t][2] \in Seq(Text)
           /\ query[t][2] # <<>> /\ Clean(query[t][1])
<1> DEFINE q == query[t]
<1>1. q \in Query[t]
  BY DEF HistoryOK
<1>2. /\ q[1] \in Seq(STRING) /\ q[2] \in Seq(STRING) /\ q[2] # <<>>
      /\ \A i \in DOMAIN q[1] : Normal(q[1][i])
  BY <1>1, VfsAssumption, TreeAssumption DEF Normal
<1> HIDE DEF q
<1>3. STRING \subseteq Text
  BY DEF Text
<1>4. q[1] \in Seq(Text) /\ q[2] \in Seq(Text)
  BY <1>2, <1>3, SeqMonotonic
<1>5. DOMAIN q[1] = 1..Len(q[1])
  BY <1>4, LenProperties
<1>6. Clean(q[1])
  BY <1>2, <1>5 DEF Clean
<1>7. QED
  BY <1>2, <1>4, <1>6 DEF q

LEMMA PathFacts ==
    ASSUME HistoryOK, NEW t \in Thread, pc[t] # "idle"
    PROVE  Path(t) \in Seq(Text) /\ Path(t) # <<>> /\ Clean(Path(t))
  BY QueryFacts, NormalizeFacts DEF Path

\* What the mounts say of the nodes.
LEMMA MountsFacts ==
    ASSUME Inv, MountedOnce
    PROVE  /\ \A z \in Spot : \A d : On(Mounts, z, d) =>
                \E n \in Node \ {Root} : mounted[n] = d /\ d # NULL /\ z = Place(n)
           /\ \A n \in Node \ {Root} : mounted[n] # NULL =>
                <<n[1], ino[n], mounted[n]>> \in Mounts
           /\ \A M : M \subseteq Mounts => Functional(M)
           /\ \A M : M \subseteq Mounts =>
                \A n \in Node \ {Root} :
                  ino[n] # NULL /\ mounted[n] = NULL /\ Place(n) \in Spot => Clear(M, Place(n))
<1>1. ASSUME NEW z \in Spot, NEW d, On(Mounts, z, d)
      PROVE  \E n \in Node \ {Root} : mounted[n] = d /\ d # NULL /\ z = Place(n)
  <2>1. <<z[1], z[2], d>> \in Mounts
    BY <1>1 DEF On
  <2>2. PICK n \in Node \ {Root} :
          mounted[n] # NULL /\ <<z[1], z[2], d>> = <<n[1], ino[n], mounted[n]>>
    BY <2>1 DEF Mounts
  <2>3. z = <<z[1], z[2]>>
    BY DEF Spot
  <2>4. z[1] = n[1] /\ z[2] = ino[n] /\ d = mounted[n]
    BY <2>2
  <2>5. QED
    BY <2>2, <2>3, <2>4 DEF Place
<1>2. \A n \in Node \ {Root} : mounted[n] # NULL => <<n[1], ino[n], mounted[n]>> \in Mounts
  BY DEF Mounts
<1>3. Distinct
  BY DEF Inv
<1>4. Used
  BY DEF Inv
<1>5. ASSUME NEW z \in Spot, NEW d, NEW e, On(Mounts, z, d), On(Mounts, z, e)
      PROVE  d = e
  <2>1. PICK m \in Node \ {Root} : mounted[m] = d /\ d # NULL /\ z = Place(m)
    BY <1>1, <1>5
  <2>2. PICK n \in Node \ {Root} : mounted[n] = e /\ e # NULL /\ z = Place(n)
    BY <1>1, <1>5
  <2>3. m = n
    BY <1>3, <1>4, <2>1, <2>2 DEF Distinct, Used
  <2>4. QED
    BY <2>1, <2>2, <2>3
<1>6. \A M : M \subseteq Mounts => \A z, d : On(M, z, d) => On(Mounts, z, d)
  BY DEF On
<1>7. \A M : M \subseteq Mounts => Functional(M)
  BY <1>5, <1>6 DEF Functional
<1>8. ASSUME NEW M, M \subseteq Mounts, NEW n \in Node \ {Root}, ino[n] # NULL,
             mounted[n] = NULL, Place(n) \in Spot, NEW d \in Dev, On(M, Place(n), d)
      PROVE  FALSE
  <2>1. PICK m \in Node \ {Root} : mounted[m] = d /\ d # NULL /\ Place(n) = Place(m)
    BY <1>1, <1>6, <1>8
  <2>2. m = n
    BY <1>3, <1>8, <2>1 DEF Distinct
  <2>3. QED
    BY <1>8, <2>1, <2>2
<1>9. \A M : M \subseteq Mounts =>
        \A n \in Node \ {Root} :
          ino[n] # NULL /\ mounted[n] = NULL /\ Place(n) \in Spot => Clear(M, Place(n))
  BY <1>8 DEF Clear
<1>10. QED
  BY <1>1, <1>2, <1>7, <1>9

\* What a thread or the mounts refer to stays what it is.
Steady ==
    \A n \in Node : ref[n] # 0 =>
      /\ ino'[n] = ino[n]
      /\ mounted[n] # NULL => mounted'[n] = mounted[n]

LEMMA SteadyFacts ==
    ASSUME Inv, Steady
    PROVE  /\ \A u \in Thread : node[u] \in Node => ino'[node[u]] = ino[node[u]]
           /\ \A u \in Thread : other[u] \in Node => ino'[other[u]] = ino[other[u]]
           /\ \A d \in Dev : rootNode[d] \in Node => ino'[rootNode[d]] = ino[rootNode[d]]
           /\ Mounts \subseteq Mounts'
<1>1. RefsExact
  BY DEF Inv
<1>2. ASSUME NEW n \in Node, ref[n] = 0
      PROVE  /\ \A t \in Thread : node[t] # n /\ other[t] # n
             /\ \A d \in Dev : rootNode[d] # n
             /\ mounted[n] = NULL
  BY <1>1, <1>2, RefFacts
<1>3. \A n \in Node : mounted[n] # NULL => ino'[n] = ino[n] /\ mounted'[n] = mounted[n]
  BY <1>2 DEF Steady
<1>4. Mounts \subseteq Mounts'
  <2> SUFFICES ASSUME NEW z \in Mounts PROVE z \in Mounts'
    OBVIOUS
  <2>1. PICK n \in Node \ {Root} : mounted[n] # NULL /\ z = <<n[1], ino[n], mounted[n]>>
    BY DEF Mounts
  <2>2. mounted'[n] # NULL /\ z = <<n[1], ino'[n], mounted'[n]>>
    BY <1>3, <2>1
  <2>3. QED
    BY <2>2 DEF Mounts
<1>5. QED
  BY <1>2, <1>4 DEF Steady

\* Nothing of the call of u changes.
Same(u) ==
    /\ pc'[u] = pc[u] /\ node'[u] = node[u] /\ other'[u] = other[u] /\ todo'[u] = todo[u]
    /\ query'[u] = query[u] /\ began'[u] = began[u] /\ outcome'[u] = outcome[u]

\* A lookup keeps what it has followed while the others go on.
LEMMA OthersFollow ==
    ASSUME Inv, Steady, NEW u \in Thread, Same(u), FollowedBy(u)
    PROVE  FollowedBy(u)'
<1>1. PICK M \in Seen(u) : CallAt(u, M)
  BY DEF FollowedBy
<1>2. M \in Seen(u)'
  BY <1>1, SteadyFacts DEF Seen, Same
<1>3. Path(u)' = Path(u)
  BY DEF Same, Path
<1>4. pc[u] \notin {"idle", "failed"} =>
        Place(node[u])' = Place(node[u]) /\ Wanted(u)' = Wanted(u)
  <2>1. pc[u] \notin {"idle", "failed"} => ino'[node[u]] = ino[node[u]]
    BY Start, SteadyFacts
  <2>2. QED
    BY <2>1 DEF Same, Place, Wanted
<1>5. pc[u] \in {"slot", "fill", "found"} => Place(other[u])' = Place(other[u])
  <2>1. pc[u] \in {"slot", "fill", "found"} => ino'[other[u]] = ino[other[u]]
    BY Start, SteadyFacts
  <2>2. QED
    BY <2>1 DEF Same, Place
<1>6. CallAt(u, M)'
  <2>1. /\ pc'[u] = pc[u] /\ node'[u] = node[u] /\ other'[u] = other[u]
        /\ todo'[u] = todo[u] /\ outcome'[u] = outcome[u]
    BY DEF Same
  <2>2. CASE pc[u] \in {"idle", "failed"}
    BY <1>1, <1>3, <2>1, <2>2 DEF CallAt
  <2>3. CASE pc[u] \notin {"idle", "failed"}
    BY <1>1, <1>3, <1>4, <1>5, <2>1, <2>3 DEF CallAt
  <2>4. QED
    BY <2>2, <2>3
<1>7. QED
  BY <1>2, <1>6 DEF FollowedBy

\* The inodes and the mounts do not change.
LEMMA StillFacts ==
    ASSUME UNCHANGED <<ino, mounted>>
    PROVE  /\ Steady /\ Mounts' = Mounts
           /\ \A n : Place(n)' = Place(n)
           /\ \A t : began'[t] = began[t] => Seen(t)' = Seen(t)
<1>1. Steady
  BY DEF Steady
<1>2. Mounts' = Mounts
  BY DEF Mounts
<1>3. \A n : Place(n)' = Place(n)
  BY DEF Place
<1>4. \A t : began'[t] = began[t] => Seen(t)' = Seen(t)
  BY <1>2 DEF Seen
<1>5. QED
  BY <1>1, <1>2, <1>3, <1>4

\* vfs_resolve_path begins, at the mounts there are.
LEMMA FollowCall ==
    ASSUME Inv, HistoryOK, NEW t \in Thread, NEW q, Call(t, q)
    PROVE  FollowedBy(t)'
<1>1. /\ pc[t] = "idle" /\ pc'[t] = "resolve" /\ node'[t] = Root
      /\ todo'[t] = Normalize(q[1], q[2]) /\ query'[t] = q /\ began'[t] = Mounts
      /\ outcome'[t] = outcome[t] /\ UNCHANGED <<ino, mounted>>
  BY Start DEF Call, At, HistoryOK
<1>2. outcome[t] = NULL
  BY <1>1 DEF HistoryOK
<1>3. todo'[t] = Path(t)'
  BY <1>1 DEF Path
<1>4. outcome'[t] \notin {"NOT_FOUND", "NOT_DIR"}
  BY <1>1, <1>2, VfsAssumption
<1>5. CallAt(t, Mounts)'
  BY <1>1, <1>3, <1>4 DEF CallAt
<1>6. Mounts \in Seen(t)'
  BY <1>1, StillFacts DEF Seen
<1>7. Mounts' = Mounts
  BY <1>1, StillFacts
<1>8. QED
  BY <1>5, <1>6, <1>7 DEF FollowedBy

\* resolve_node goes on to what is mounted here.
LEMMA FollowCross ==
    ASSUME Inv, RootsOK, MountedOnce, HistoryOK, NEW t \in Thread, FollowedBy(t), Cross(t)
    PROVE  FollowedBy(t)'
<1> DEFINE n == node[t]
           d == mounted[n]
           r == <<d, RootOf[d]>>
<1>1. PICK M \in Seen(t) : CallAt(t, M)
  BY DEF FollowedBy
<1>2. /\ pc[t] = "resolve" /\ n \in Node /\ d # NULL /\ d \in Dev
      /\ pc'[t] = "crossed" /\ node'[t] = rootNode[d] /\ todo'[t] = todo[t]
      /\ query' = query /\ began' = began /\ outcome' = outcome
      /\ UNCHANGED <<ino, mounted>>
  BY Start DEF Cross, At, historyVars, Inv, TypeOK
<1>3. rootNode[d] \in Node \ {Root} /\ Place(rootNode[d]) = r
  BY <1>2 DEF Inv, TypeOK, Used, RootsOK
<1>4. node'[t] # Root /\ Place(node[t])' = r
  BY <1>2, <1>3 DEF Place
<1>5. Path(t)' = Path(t) /\ Path(t) \in Seq(Text) /\ Path(t) # <<>>
  BY <1>2, PathFacts DEF Path
<1>6. Seen(t)' = Seen(t) /\ M \subseteq Mounts /\ Mounts' = Mounts
  BY <1>1, <1>2, StillFacts DEF Seen
<1>7. outcome'[t] \notin {"NOT_FOUND", "NOT_DIR"}
  BY <1>2, VfsAssumption DEF HistoryOK
<1>8. ASSUME NEW L \in Seen(t), OnWay(L, Path(t), todo[t], r)
      PROVE  FollowedBy(t)'
  <2>1. CallAt(t, L)'
    BY <1>2, <1>4, <1>5, <1>7, <1>8 DEF CallAt
  <2>2. QED
    BY <1>6, <1>8, <2>1 DEF FollowedBy
<1> HIDE DEF n, d
<1>9. CASE n = Root
  <2>1. todo[t] = Path(t)
    BY <1>1, <1>2, <1>9 DEF CallAt, n
  <2>2. d = Initrd
    BY <1>9 DEF MountedOnce, d
  <2>3. OnWay(M, Path(t), todo[t], r)
    BY <1>5, <2>1, <2>2, WayBegins
  <2>4. QED
    BY <1>1, <1>8, <2>3
<1>10. CASE n # Root
  <2> DEFINE x == Place(n)
             L == M \cup {<<n[1], ino[n], d>>}
  <2>1. OnWay(M, Path(t), todo[t], x)
    BY <1>1, <1>2, <1>10 DEF CallAt, n
  <2>2. <<n[1], ino[n], d>> \in Mounts
    BY <1>2, <1>10, MountsFacts DEF d
  <2>3. L \subseteq Mounts /\ L \in Seen(t)
    BY <1>1, <1>6, <2>2 DEF Seen
  <2>4. Functional(L)
    BY <2>3, MountsFacts
  <2>5. d # Initrd
    BY <1>2, <1>10, RootIsAlone DEF MountedOnce, d, Node
  <2>6. On(L, x, d) /\ M \subseteq L
    BY DEF On, Place
  <2>7. \A y \in Spot : \A e \in Dev : On(L, y, e) => On(M, y, e) \/ y = x
    <3> SUFFICES ASSUME NEW y \in Spot, NEW e \in Dev, On(L, y, e), ~On(M, y, e)
                 PROVE  y = x
      OBVIOUS
    <3>1. <<y[1], y[2], e>> = <<n[1], ino[n], d>>
      BY DEF On
    <3>2. y = <<y[1], y[2]>>
      BY DEF Spot
    <3>3. QED
      BY <3>1, <3>2 DEF Place
  <2>8. \A z \in Spot : On(L, z, d) => z = x
    <3> SUFFICES ASSUME NEW z \in Spot, On(L, z, d) PROVE z = x
      OBVIOUS
    <3>1. On(Mounts, z, d)
      BY <2>3 DEF On
    <3>2. PICK m \in Node \ {Root} : mounted[m] = d /\ z = Place(m)
      BY <3>1, MountsFacts
    <3>3. m = n
      BY <1>2, <3>2 DEF MountedOnce, d
    <3>4. QED
      BY <3>2, <3>3
  <2> HIDE DEF x, L
  <2>9. d \in Dev \ {Initrd}
    BY <1>2, <2>5
  <2>10. OnWay(L, Path(t), todo[t], r)
    BY <1>5, <2>1, <2>4, <2>6, <2>7, <2>8, <2>9, WayCrosses
  <2>11. QED
    BY <1>8, <2>3, <2>10
<1>11. QED
  BY <1>9, <1>10

\* The lookup is still the same one.
LEMMA GoesOn ==
    ASSUME Inv, Steady, NEW t \in Thread, NEW M \in Seen(t), began'[t] = began[t],
           CallAt(t, M)'
    PROVE  FollowedBy(t)'
  BY SteadyFacts DEF Seen, FollowedBy

LEMMA FollowCrossed ==
    ASSUME Inv, HistoryOK, NEW t \in Thread, FollowedBy(t), Crossed(t)
    PROVE  FollowedBy(t)'
<1>1. PICK M \in Seen(t) : CallAt(t, M)
  BY DEF FollowedBy
<1>2. /\ pc[t] = "crossed" /\ pc'[t] = "resolve" /\ node' = node /\ todo' = todo
      /\ query' = query /\ began' = began /\ outcome' = outcome
      /\ UNCHANGED <<ino, mounted>>
  BY Start DEF Crossed, At, historyVars
<1>3. node[t] # Root /\ OnWay(M, Path(t), todo[t], Place(node[t]))
  BY <1>1, <1>2 DEF CallAt
<1>4. Path(t)' = Path(t) /\ Place(node[t])' = Place(node[t]) /\ Steady
  BY <1>2, StillFacts DEF Path, Place
<1>5. outcome'[t] \notin {"NOT_FOUND", "NOT_DIR"}
  BY <1>2, VfsAssumption DEF HistoryOK
<1>6. CallAt(t, M)'
  BY <1>2, <1>3, <1>4, <1>5 DEF CallAt
<1>7. QED
  BY <1>1, <1>2, <1>4, <1>6, GoesOn

\* A lookup that fails because of a name that is not there.
LEMMA FollowFail ==
    ASSUME Inv, HistoryOK, NEW t \in Thread, NEW e, Fail(t, e), UNCHANGED <<ino, mounted>>,
           NEW M \in Seen(t), e \in {"NOT_FOUND", "NOT_DIR"} => Names(M, Path(t)) = NULL
    PROVE  FollowedBy(t)'
<1>1. /\ pc'[t] = "failed" /\ query' = query /\ began' = began /\ outcome'[t] = e
  BY Start DEF Fail, HistoryOK
<1>2. Path(t)' = Path(t) /\ Steady
  BY <1>1, StillFacts DEF Path
<1>3. CallAt(t, M)'
  BY <1>1, <1>2 DEF CallAt
<1>4. QED
  BY <1>1, <1>2, <1>3, GoesOn

\* The data of a node that is not locked are there.
LEMMA DataHere ==
    ASSUME Inv, NEW t \in Thread, node[t] \in Node, lock[node[t]] = NULL
    PROVE  data[node[t]] = ino[node[t]]
<1> DEFINE n == node[t]
<1> SUFFICES ASSUME data[n] # ino[n] PROVE FALSE
  OBVIOUS
<1>1. PICK u \in Thread : other[u] = n /\ pc[u] \in {"slot", "fill"}
  BY DEF Inv, Pending
<1>2. pc[u] # "fill"
  BY <1>1, Start DEF LocksOf
<1>3. ref[n] = 1 /\ RefsExact
  BY <1>1, <1>2 DEF Inv, Pending
<1>4. QED
  BY <1>1, <1>3, RefFacts

LEMMA WantedIs == \A t : Wanted(t) = There(Place(node[t])[2], Head(todo[t]))
  BY DEF Wanted, There, Place

\* The place of a lookup is one of an archive.
LEMMA OnWaySpot ==
    ASSUME NEW M, NEW p, NEW rest, NEW x, OnWay(M, p, rest, x)
    PROVE  x \in Spot
  BY DEF OnWay, Reached, Arrived

LEMMA FollowResolved ==
    ASSUME Inv, MountedOnce, HistoryOK, NEW t \in Thread, FollowedBy(t), Resolved(t)
    PROVE  FollowedBy(t)'
<1> DEFINE n == node[t]
           x == Place(n)
<1>1. PICK M \in Seen(t) : CallAt(t, M)
  BY DEF FollowedBy
<1>2. /\ pc[t] = "resolve" /\ n \in Node /\ lock[n] = NULL /\ mounted[n] = NULL
      /\ UNCHANGED <<ino, mounted>> /\ n # Root /\ ino[n] # NULL
  BY Start DEF Resolved, At, Free, Inv, Used
<1>3. OnWay(M, Path(t), todo[t], x)
  BY <1>1, <1>2 DEF CallAt
<1>4. Path(t) \in Seq(Text) /\ Clean(Path(t))
  BY <1>2, PathFacts
<1>5. x \in Spot /\ x[2] = ino[n] /\ x[2] \in Inode
  <2>1. x \in Spot
    BY <1>3, OnWaySpot
  <2>2. QED
    BY <2>1 DEF Place, Spot
<1>6. Clear(M, x)
  <2>1. M \subseteq Mounts
    BY <1>1 DEF Seen
  <2>2. QED
    BY <1>2, <1>5, <2>1, MountsFacts
<1>7. data[n] = x[2]
  BY <1>2, <1>5, DataHere
<1>8. Steady
  BY <1>2, StillFacts
<1>9. CASE /\ data[n] \in Dir
           /\ pc' = [pc EXCEPT ![t] = IF todo[t] = <<"">> THEN "done" ELSE "dir"]
           /\ UNCHANGED <<ref, callVars, historyVars>>
  <2>1. /\ node' = node /\ todo' = todo /\ query' = query /\ began' = began
        /\ outcome' = outcome /\ Path(t)' = Path(t)
    BY <1>9 DEF callVars, historyVars, Path
  <2>2. pc'[t] = IF todo[t] = <<Blank>> THEN "done" ELSE "dir"
    BY <1>9, Start DEF Blank
  <2>3. outcome'[t] \notin {"NOT_FOUND", "NOT_DIR"}
    BY <1>2, <2>1, VfsAssumption DEF HistoryOK
  <2>4. Place(node[t])' = x
    BY <1>2, <2>1 DEF Place
  <2>5. CASE todo[t] = <<Blank>>
    <3>1. Names(M, Path(t)) = x
      BY <1>3, <1>4, <1>6, <1>7, <1>9, <2>5, WayAtEnd
    <3>2. CallAt(t, M)'
      BY <2>1, <2>2, <2>3, <2>4, <2>5, <3>1 DEF CallAt
    <3>3. QED
      BY <1>1, <1>8, <2>1, <3>2, GoesOn
  <2>6. CASE todo[t] # <<Blank>>
    <3>1. CallAt(t, M)'
      BY <1>3, <1>6, <2>1, <2>2, <2>3, <2>4, <2>6 DEF CallAt
    <3>2. QED
      BY <1>1, <1>8, <2>1, <3>1, GoesOn
  <2>7. QED
    BY <2>5, <2>6
<1>10. CASE data[n] \notin Dir /\ Fail(t, "NOT_DIR")
  <2>1. x[2] \notin Dir
    BY <1>7, <1>10
  <2>2. Names(M, Path(t)) = NULL
    <3>1. CASE todo[t] = <<Blank>>
      BY <1>3, <1>4, <1>6, <2>1, <3>1, WayAtEnd
    <3>2. CASE todo[t] # <<Blank>>
      <4>1. There(x[2], Head(todo[t])) = NULL
        BY <1>5, <2>1, VfsAssumption DEF There
      <4>2. QED
        BY <1>3, <1>4, <1>6, <3>2, <4>1, WayMisses
    <3>3. QED
      BY <3>1, <3>2
  <2>3. QED
    BY <1>1, <1>2, <1>10, <2>2, FollowFail
<1>11. QED
  BY <1>9, <1>10 DEF Resolved

LEMMA FollowFind ==
    ASSUME Inv, HistoryOK, NEW t \in Thread, FollowedBy(t), Find(t)
    PROVE  FollowedBy(t)'
<1> DEFINE x == Place(node[t])
<1>1. PICK M \in Seen(t) : CallAt(t, M)
  BY DEF FollowedBy
<1>2. pc[t] = "dir" /\ UNCHANGED <<ino, mounted>>
  BY DEF Find, At
<1>3. OnWay(M, Path(t), todo[t], x) /\ Clear(M, x) /\ todo[t] # <<Blank>>
  BY <1>1, <1>2 DEF CallAt
<1>4. Path(t) \in Seq(Text) /\ Clean(Path(t))
  BY <1>2, PathFacts
<1>5. Steady
  BY <1>2, StillFacts
<1>6. CASE pc' = [pc EXCEPT ![t] = "cache"] /\ UNCHANGED <<ref, callVars, historyVars>>
  <2>1. /\ node' = node /\ todo' = todo /\ query' = query /\ began' = began
        /\ outcome' = outcome /\ Path(t)' = Path(t) /\ pc'[t] = "cache"
    BY <1>6, Start DEF callVars, historyVars, Path
  <2>2. outcome'[t] \notin {"NOT_FOUND", "NOT_DIR"}
    BY <1>2, <2>1, VfsAssumption DEF HistoryOK
  <2>3. Place(node[t])' = x
    BY <1>2, <2>1 DEF Place
  <2>4. CallAt(t, M)'
    BY <1>3, <2>1, <2>2, <2>3 DEF CallAt
  <2>5. QED
    BY <1>1, <1>5, <2>1, <2>4, GoesOn
<1>7. CASE Wanted(t) = NULL /\ Fail(t, "NOT_FOUND")
  <2>1. Names(M, Path(t)) = NULL
    <3>1. There(x[2], Head(todo[t])) = NULL
      BY <1>7, WantedIs
    <3>2. QED
      BY <1>3, <1>4, <3>1, WayMisses
  <2>2. QED
    BY <1>1, <1>2, <1>7, <2>1, FollowFail
<1>8. QED
  BY <1>6, <1>7 DEF Find

LEMMA FollowFull ==
    ASSUME Inv, HistoryOK, NEW t \in Thread, FollowedBy(t), Full(t)
    PROVE  FollowedBy(t)'
<1>1. PICK M \in Seen(t) : CallAt(t, M)
  BY DEF FollowedBy
<1>2. Fail(t, "NO_MEMORY") /\ UNCHANGED <<ino, mounted>>
  BY DEF Full
<1>3. QED
  BY <1>1, <1>2, FollowFail

\* From the directory to the node of the name, which another lookup may have
\* brought or may still be filling.
LEMMA FollowSlot ==
    ASSUME Inv, HistoryOK, Steady, NEW t \in Thread, FollowedBy(t),
           pc[t] \in {"cache", "slot", "fill"}, pc'[t] \in {"slot", "fill", "found"},
           node' = node, todo' = todo, query' = query, began' = began, outcome' = outcome,
           other'[t] # Root, ino'[other'[t]] = Wanted(t), other'[t][1] = node[t][1],
           Wanted(t) # NULL
    PROVE  FollowedBy(t)'
<1> DEFINE x == Place(node[t])
<1>1. PICK M \in Seen(t) : CallAt(t, M)
  BY DEF FollowedBy
<1>2. OnWay(M, Path(t), todo[t], x) /\ Clear(M, x) /\ todo[t] # <<Blank>>
  BY <1>1 DEF CallAt
<1>3. /\ Place(node[t])' = x /\ Wanted(t)' = Wanted(t) /\ Path(t)' = Path(t)
      /\ Place(other[t])' = <<node[t][1], Wanted(t)>>
  <2>1. ino'[node[t]] = ino[node[t]]
    BY Start, SteadyFacts
  <2>2. QED
    BY <2>1 DEF Place, Wanted, Path
<1>4. outcome'[t] \notin {"NOT_FOUND", "NOT_DIR"}
  BY VfsAssumption DEF HistoryOK
<1>5. CallAt(t, M)'
  BY <1>2, <1>3, <1>4 DEF CallAt
<1>6. QED
  BY <1>1, <1>5, GoesOn

LEMMA FollowHit ==
    ASSUME Inv, HistoryOK, NEW t \in Thread, FollowedBy(t), Hit(t)
    PROVE  FollowedBy(t)'
<1>1. /\ pc[t] = "cache" /\ pc'[t] = "found" /\ UNCHANGED <<ino, mounted>>
      /\ node' = node /\ todo' = todo /\ query' = query /\ began' = began
      /\ outcome' = outcome
  BY Start DEF Hit, At, historyVars
<1>2. PICK n \in Cached(t) : other' = [other EXCEPT ![t] = n]
  BY DEF Hit
<1>3. /\ node[t] \in Node \ {Root} /\ Wanted(t) # NULL
      /\ other'[t] = n /\ n[1] = node[t][1] /\ ino[n] = Wanted(t)
  BY <1>1, <1>2, Start, CachedIs DEF PlaceOf, Busy, Cache
<1>4. node[t][1] \in Dev /\ n # Root
  BY <1>3, OnDevice, RootIsAlone, VfsAssumption
<1>5. Steady
  BY <1>1, StillFacts
<1>6. QED
  BY <1>1, <1>3, <1>4, <1>5, FollowSlot

\* A slot that is used for another node is one that nobody refers to.
LEMMA SteadyMiss ==
    ASSUME Inv, NEW t \in Thread, Miss(t)
    PROVE  Steady
<1>1. PICK n \in Evictable(t) : ino' = [ino EXCEPT ![n] = Wanted(t)]
  BY DEF Miss
<1>2. ref[n] = 0
  <2>1. pc[t] = "cache"
    BY DEF Miss, At
  <2>2. QED
    BY <2>1, Unreferenced
<1>3. mounted' = mounted
  BY DEF Miss
<1>4. QED
  BY <1>1, <1>2, <1>3 DEF Steady, Inv, TypeOK

LEMMA FollowMiss ==
    ASSUME Inv, HistoryOK, NEW t \in Thread, FollowedBy(t), Miss(t)
    PROVE  FollowedBy(t)'
<1>1. /\ pc[t] = "cache" /\ pc'[t] = "slot"
      /\ node' = node /\ todo' = todo /\ query' = query /\ began' = began
      /\ outcome' = outcome
  BY Start DEF Miss, At, historyVars
<1>2. PICK n \in Evictable(t) : /\ other' = [other EXCEPT ![t] = n]
                                /\ ino' = [ino EXCEPT ![n] = Wanted(t)]
  BY DEF Miss
<1>3. /\ node[t] \in Node \ {Root} /\ Wanted(t) # NULL
      /\ n \in Node /\ other'[t] = n /\ n[1] = node[t][1] /\ ino'[n] = Wanted(t)
  BY <1>1, <1>2, Start DEF PlaceOf, Busy, Evictable, Cache, Inv, TypeOK
<1>4. node[t][1] \in Dev /\ n # Root
  BY <1>3, OnDevice, RootIsAlone, VfsAssumption
<1>5. QED
  BY <1>1, <1>3, <1>4, SteadyMiss, FollowSlot

\* The node stays the one of the name while its data are brought.
LEMMA FollowData ==
    ASSUME Inv, HistoryOK, NEW t \in Thread, FollowedBy(t), TakeSlot(t) \/ Fill(t)
    PROVE  FollowedBy(t)'
<1>1. /\ pc[t] \in {"slot", "fill"} /\ pc'[t] \in {"fill", "found"}
      /\ UNCHANGED <<ino, mounted>> /\ other' = other
      /\ node' = node /\ todo' = todo /\ query' = query /\ began' = began
      /\ outcome' = outcome
  BY Start DEF TakeSlot, Fill, At, nodeVars, callVars, historyVars
<1>2. PICK M \in Seen(t) : CallAt(t, M)
  BY DEF FollowedBy
<1>3. other[t] # Root /\ Wanted(t) # NULL /\ Place(other[t]) = <<node[t][1], Wanted(t)>>
  BY <1>1, <1>2 DEF CallAt
<1>4. other[t][1] = node[t][1] /\ ino[other[t]] = Wanted(t)
  BY <1>3 DEF Place
<1>5. Steady
  BY <1>1, StillFacts
<1>6. QED
  BY <1>1, <1>3, <1>4, <1>5, FollowSlot

\* The lookup moves on to the node, or has found what it looked for.
LEMMA FollowFound ==
    ASSUME Inv, HistoryOK, NEW t \in Thread, FollowedBy(t), Found(t)
    PROVE  FollowedBy(t)'
<1> DEFINE x == Place(node[t])
           y == Place(other[t])
<1>1. PICK M \in Seen(t) : CallAt(t, M)
  BY DEF FollowedBy
<1>2. /\ pc[t] = "found" /\ pc'[t] = (IF Len(todo[t]) = 1 THEN "done" ELSE "resolve")
      /\ UNCHANGED <<ino, mounted>> /\ node'[t] = other[t] /\ todo'[t] = Tail(todo[t])
      /\ query' = query /\ began' = began /\ outcome' = outcome
  BY Start DEF Found, At, historyVars
<1>3. /\ OnWay(M, Path(t), todo[t], x) /\ Clear(M, x) /\ todo[t] # <<Blank>>
      /\ other[t] # Root /\ Wanted(t) # NULL /\ y = <<node[t][1], Wanted(t)>>
  BY <1>1, <1>2 DEF CallAt
<1>4. Path(t) \in Seq(Text) /\ Clean(Path(t))
  BY <1>2, PathFacts
<1>5. There(x[2], Head(todo[t])) = Wanted(t) /\ x[1] = node[t][1]
  BY WantedIs DEF Place
<1>6. /\ Len(todo[t]) # 1 => OnWay(M, Path(t), Tail(todo[t]), y)
      /\ Len(todo[t]) = 1 => Names(M, Path(t)) = y
  <2> HIDE DEF x, y
  <2>1. There(x[2], Head(todo[t])) # NULL /\ y = <<x[1], There(x[2], Head(todo[t]))>>
    BY <1>3, <1>5
  <2>2. QED
    BY <1>3, <1>4, <2>1, WayMoves
<1>7. Place(node[t])' = y /\ Path(t)' = Path(t) /\ Steady
  BY <1>2, StillFacts DEF Place, Path
<1>8. outcome'[t] \notin {"NOT_FOUND", "NOT_DIR"}
  BY <1>2, VfsAssumption DEF HistoryOK
<1> HIDE DEF x, y
<1>9. CallAt(t, M)'
  <2>1. CASE Len(todo[t]) = 1
    BY <1>2, <1>6, <1>7, <1>8, <2>1 DEF CallAt
  <2>2. CASE Len(todo[t]) # 1
    BY <1>2, <1>3, <1>6, <1>7, <1>8, <2>2 DEF CallAt
  <2>3. QED
    BY <2>1, <2>2
<1>10. QED
  BY <1>1, <1>2, <1>7, <1>9, GoesOn

LEMMA FollowRelease ==
    ASSUME Inv, HistoryOK, NEW t \in Thread, Release(t)
    PROVE  FollowedBy(t)'
<1>1. /\ pc'[t] = "idle" /\ outcome'[t] = NULL /\ began'[t] = {}
  BY Start DEF Release, HistoryOK
<1>2. CallAt(t, {})'
  BY <1>1, VfsAssumption DEF CallAt
<1>3. {} \in Seen(t)'
  BY <1>1 DEF Seen
<1>4. QED
  BY <1>2, <1>3 DEF FollowedBy

\* The result stays what the path names, while something is mounted on it.
LEMMA FollowMount ==
    ASSUME Inv, HistoryOK, Steady, NEW t \in Thread, FollowedBy(t),
           pc[t] \in {"done", "mount"}, pc'[t] \in {"done", "mount"},
           UNCHANGED <<node, historyVars>>
    PROVE  FollowedBy(t)'
<1>1. PICK M \in Seen(t) : CallAt(t, M)
  BY DEF FollowedBy
<1>2. Place(node[t]) = Names(M, Path(t))
  BY <1>1 DEF CallAt
<1>3. Place(node[t])' = Place(node[t]) /\ Path(t)' = Path(t)
  <2>1. ino'[node[t]] = ino[node[t]]
    BY Start, SteadyFacts
  <2>2. QED
    BY <2>1 DEF Place, Path, historyVars
<1>4. outcome'[t] \notin {"NOT_FOUND", "NOT_DIR"}
  BY VfsAssumption DEF HistoryOK, historyVars
<1>5. CallAt(t, M)'
  BY <1>2, <1>3, <1>4 DEF CallAt
<1>6. QED
  BY <1>1, <1>5, GoesOn DEF historyVars

\* The root directory of a device comes into a slot that nobody refers to.
LEMMA SteadyMountRead ==
    ASSUME Inv, NEW t \in Thread, NEW d \in Dev, MountRead(t, d)
    PROVE  Steady
<1> DEFINE r == <<d, CHOOSE s \in Slot : TRUE>>
<1>1. /\ rootNode[d] = NULL /\ mounted' = mounted
      /\ ino' = [ino EXCEPT ![r] = RootOf[d]]
  BY DEF MountRead
<1>2. r \in Node \ {Root} /\ r[1] = d
  <2>1. (CHOOSE s \in Slot : TRUE) \in Slot
    BY VfsAssumption
  <2>2. QED
    BY <2>1, VfsAssumption DEF Node, Root
<1> HIDE DEF r
<1>3. ino[r] = NULL
  BY <1>1, <1>2 DEF Inv, Used
<1>4. ref[r] = 0
  BY <1>2, <1>3, EmptySlot DEF Inv
<1>5. QED
  BY <1>1, <1>4 DEF Steady, Inv, TypeOK

LEMMA SteadyMountSet ==
    ASSUME Inv, NEW t \in Thread, MountSet(t)
    PROVE  Steady
<1>1. /\ ino' = ino
      /\ \/ mounted' = mounted
         \/ mounted[node[t]] = NULL /\ mounted' = [mounted EXCEPT ![node[t]] = mdev[t]]
  BY DEF MountSet
<1>2. \A n \in Node : mounted[n] # NULL => mounted'[n] = mounted[n]
  BY <1>1 DEF Inv, TypeOK
<1>3. QED
  BY <1>1, <1>2 DEF Steady

-----------------------------------------------------------------------------
(* The invariant.                                                          *)

\* A step of t, by what it does to the nodes and to the other threads.
LEMMA StepsOf ==
    ASSUME Inv, HistoryOK, NEW t \in Thread,
           \/ Step(t) \/ Release(t) \/ Unmount(t)
           \/ \E q \in Query[t] : Call(t, q)
           \/ \E d \in Dev : MountRead(t, d)
    PROVE  /\ Steady
           /\ \A u \in Thread \ {t} : Same(u)
           /\ DOMAIN query' = Thread /\ DOMAIN began' = Thread /\ DOMAIN outcome' = Thread
           /\ pc'[t] # "idle" => query'[t] \in Query[t]
           /\ pc'[t] # "failed" => outcome'[t] = NULL
<1> USE DEF HistoryOK
<1>1. CASE \E q \in Query[t] : Call(t, q)
  <2>1. PICK q \in Query[t] : Call(t, q)
    BY <1>1
  <2>2. Steady
    BY <2>1, StillFacts DEF Call
  <2>3. QED
    BY <2>1, <2>2, Start DEF Call, At, Same
<1>2. CASE Cross(t)
  <2>1. Steady
    BY <1>2, StillFacts DEF Cross
  <2>2. QED
    BY <1>2, <2>1, Start DEF Cross, At, Same, historyVars
<1>3. CASE Crossed(t)
  <2>1. Steady
    BY <1>3, StillFacts DEF Crossed
  <2>2. QED
    BY <1>3, <2>1, Start DEF Crossed, At, Same, historyVars
<1>4. ASSUME NEW e, Fail(t, e), pc[t] # "idle", UNCHANGED <<ino, mounted>>
      PROVE  /\ Steady
             /\ \A u \in Thread \ {t} : Same(u)
             /\ DOMAIN query' = Thread /\ DOMAIN began' = Thread /\ DOMAIN outcome' = Thread
             /\ pc'[t] # "idle" => query'[t] \in Query[t]
             /\ pc'[t] # "failed" => outcome'[t] = NULL
  <2>1. Steady
    BY <1>4, StillFacts
  <2>2. QED
    BY <1>4, <2>1, Start DEF Fail, Same
<1>5. CASE Resolved(t)
  <2>1. Steady /\ pc[t] = "resolve" /\ UNCHANGED <<ino, mounted>>
    BY <1>5, StillFacts DEF Resolved, At
  <2>2. CASE Fail(t, "NOT_DIR")
    BY <1>4, <2>1, <2>2
  <2>3. CASE /\ pc' = [pc EXCEPT ![t] = IF todo[t] = <<"">> THEN "done" ELSE "dir"]
             /\ UNCHANGED <<ref, callVars, historyVars>>
    <3>1. pc' = [pc EXCEPT ![t] = IF todo[t] = <<Blank>> THEN "done" ELSE "dir"]
      BY <2>3 DEF Blank
    <3>2. UNCHANGED <<node, other, todo, query, began, outcome>>
      BY <2>3 DEF callVars, historyVars
    <3>3. QED
      BY <2>1, <3>1, <3>2, Start DEF Same
  <2>4. QED
    BY <1>5, <2>2, <2>3 DEF Resolved
<1>6. CASE Find(t)
  <2>1. Steady /\ pc[t] = "dir" /\ UNCHANGED <<ino, mounted>>
    BY <1>6, StillFacts DEF Find, At
  <2>2. CASE Fail(t, "NOT_FOUND")
    BY <1>4, <2>1, <2>2
  <2>3. CASE pc' = [pc EXCEPT ![t] = "cache"] /\ UNCHANGED <<ref, callVars, historyVars>>
    BY <2>1, <2>3, Start DEF Same, callVars, historyVars
  <2>4. QED
    BY <1>6, <2>2, <2>3 DEF Find
<1>7. CASE Hit(t)
  <2>1. Steady
    BY <1>7, StillFacts DEF Hit
  <2>2. QED
    BY <1>7, <2>1, Start DEF Hit, At, Same, historyVars
<1>8. CASE Miss(t)
  BY <1>8, SteadyMiss, Start DEF Miss, At, Same, historyVars
<1>9. CASE Full(t)
  <2>1. pc[t] = "cache" /\ UNCHANGED <<ino, mounted>> /\ Fail(t, "NO_MEMORY")
    BY <1>9 DEF Full, At
  <2>2. QED
    BY <1>4, <2>1
<1>10. CASE TakeSlot(t)
  <2>1. Steady
    BY <1>10, StillFacts DEF TakeSlot, nodeVars
  <2>2. QED
    BY <1>10, <2>1, Start DEF TakeSlot, At, Same, callVars, historyVars
<1>11. CASE Fill(t)
  <2>1. Steady
    BY <1>11, StillFacts DEF Fill
  <2>2. QED
    BY <1>11, <2>1, Start DEF Fill, At, Same, callVars, historyVars
<1>12. CASE Found(t)
  <2>1. Steady
    BY <1>12, StillFacts DEF Found
  <2>2. QED
    BY <1>12, <2>1, Start DEF Found, At, Same, historyVars
<1>13. CASE MountSet(t)
  BY <1>13, SteadyMountSet, Start DEF MountSet, At, Same, historyVars
<1>14. CASE Recursive(t) \/ Unmount(t)
  <2>1. Steady
    BY <1>14, StillFacts DEF Recursive, Unmount, nodeVars
  <2>2. UNCHANGED <<pc, node, other, todo, query, began, outcome>>
    BY <1>14 DEF Recursive, Unmount, callVars, historyVars
  <2>3. QED
    BY <2>1, <2>2 DEF Same
<1>15. CASE Release(t)
  <2>1. Steady
    BY <1>15, StillFacts DEF Release
  <2>2. QED
    BY <1>15, <2>1, Start DEF Release, Same
<1>16. CASE \E d \in Dev : MountRead(t, d)
  <2>1. PICK d \in Dev : MountRead(t, d)
    BY <1>16
  <2>2. QED
    BY <2>1, SteadyMountRead, Start DEF MountRead, At, Same, historyVars
<1>17. QED
  BY <1>1, <1>2, <1>3, <1>5, <1>6, <1>7, <1>8, <1>9, <1>10, <1>11, <1>12, <1>13,
     <1>14, <1>15, <1>16 DEF Step

LEMMA FollowStep ==
    ASSUME Inv, RootsOK, MountedOnce, HistoryOK, Followed, NEW t \in Thread,
           \/ Step(t) \/ Release(t) \/ Unmount(t)
           \/ \E q \in Query[t] : Call(t, q)
           \/ \E d \in Dev : MountRead(t, d)
    PROVE  Followed'
<1>1. Steady /\ \A u \in Thread \ {t} : Same(u)
  BY StepsOf
<1>2. \A u \in Thread : FollowedBy(u)
  BY DEF Followed, FollowedBy
<1>3. \A u \in Thread \ {t} : FollowedBy(u)'
  BY <1>1, <1>2, OthersFollow
<1>4. FollowedBy(t)'
  <2>1. CASE \E q \in Query[t] : Call(t, q)
    BY <2>1, FollowCall
  <2>2. CASE Cross(t) \/ Crossed(t) \/ Resolved(t)
    BY <1>2, <2>2, FollowCross, FollowCrossed, FollowResolved
  <2>3. CASE Find(t) \/ Hit(t) \/ Miss(t) \/ Full(t)
    BY <1>2, <2>3, FollowFind, FollowHit, FollowMiss, FollowFull
  <2>4. CASE TakeSlot(t) \/ Fill(t) \/ Found(t)
    BY <1>2, <2>4, FollowData, FollowFound
  <2>5. CASE Release(t)
    BY <2>5, FollowRelease
  <2>6. CASE Recursive(t) \/ Unmount(t)
    <3>1. Same(t)
      BY <2>6 DEF Recursive, Unmount, Same, callVars, historyVars
    <3>2. QED
      BY <1>1, <1>2, <3>1, OthersFollow
  <2>7. CASE MountSet(t) \/ \E d \in Dev : MountRead(t, d)
    <3>1. /\ pc[t] \in {"done", "mount"} /\ pc'[t] \in {"done", "mount"}
          /\ UNCHANGED <<node, historyVars>>
      BY <2>7, Start DEF MountSet, MountRead, At
    <3>2. QED
      BY <1>1, <1>2, <3>1, FollowMount
  <2>8. QED
    BY <2>1, <2>2, <2>3, <2>4, <2>5, <2>6, <2>7 DEF Step
<1>5. \A u \in Thread : FollowedBy(u)'
  BY <1>3, <1>4
<1>6. QED
  BY <1>5 DEF Followed, FollowedBy

LEMMA KeepHistory ==
    ASSUME Inv, HistoryOK, NEW t \in Thread,
           \/ Step(t) \/ Release(t) \/ Unmount(t)
           \/ \E q \in Query[t] : Call(t, q)
           \/ \E d \in Dev : MountRead(t, d)
    PROVE  HistoryOK'
<1>1. /\ \A u \in Thread \ {t} : Same(u)
      /\ DOMAIN query' = Thread /\ DOMAIN began' = Thread /\ DOMAIN outcome' = Thread
      /\ pc'[t] # "idle" => query'[t] \in Query[t]
      /\ pc'[t] # "failed" => outcome'[t] = NULL
  BY StepsOf
<1>2. QED
  BY <1>1 DEF HistoryOK, Same

\* Only a mount changes what is mounted where.
LEMMA NoMount ==
    ASSUME NEW t,
           \/ Step(t) /\ ~MountSet(t)
           \/ Release(t) \/ Unmount(t) \/ \E q \in Query[t] : Call(t, q)
    PROVE  UNCHANGED <<mounted, rootNode, mdev>>
<1>1. CASE \E q \in Query[t] : Call(t, q)
  BY <1>1 DEF Call
<1>2. CASE Cross(t) \/ Crossed(t)
  BY <1>2 DEF Cross, Crossed
<1>3. CASE Resolved(t)
  BY <1>3 DEF Resolved, Fail, callVars
<1>4. CASE Find(t) \/ Full(t)
  BY <1>4 DEF Find, Full, Fail, callVars
<1>5. CASE Hit(t) \/ Miss(t)
  BY <1>5 DEF Hit, Miss
<1>6. CASE TakeSlot(t) \/ Fill(t) \/ Found(t)
  BY <1>6 DEF TakeSlot, Fill, Found, nodeVars, callVars
<1>7. CASE Recursive(t) \/ Unmount(t)
  BY <1>7 DEF Recursive, Unmount, nodeVars, callVars
<1>8. CASE Release(t)
  BY <1>8 DEF Release
<1>9. QED
  BY <1>1, <1>2, <1>3, <1>4, <1>5, <1>6, <1>7, <1>8 DEF Step

LEMMA KeepMounts ==
    ASSUME Inv, RootsOK, MountedOnce, HistoryOK, NEW t \in Thread,
           \/ Step(t) \/ Release(t) \/ Unmount(t)
           \/ \E q \in Query[t] : Call(t, q)
           \/ \E d \in Dev : MountRead(t, d)
    PROVE  RootsOK' /\ MountedOnce'
<1> USE NodeAssumption
<1>1. Steady
  BY StepsOf
<1>2. \A d \in Dev : rootNode[d] # NULL => ino'[rootNode[d]] = ino[rootNode[d]]
  BY <1>1, SteadyFacts DEF Inv, TypeOK
<1>3. CASE UNCHANGED <<mounted, rootNode, mdev>>
  BY <1>2, <1>3 DEF RootsOK, MountedOnce, Place
<1>4. CASE MountSet(t)
  <2> DEFINE n == node[t]
             d == mdev[t]
  <2>1. /\ n \in Node /\ d # NULL /\ d \in Dev /\ rootNode' = rootNode
        /\ mdev' = [mdev EXCEPT ![t] = NULL]
        /\ \/ mounted[n] = NULL /\ mounted' = [mounted EXCEPT ![n] = d]
           \/ mounted' = mounted
    BY <1>4, Start DEF MountSet, At, PlaceOf, Inv, TypeOK
  <2>2. mounted \in [Node -> Dev \cup {NULL}] /\ mdev \in [Thread -> Dev \cup {NULL}]
    BY DEF Inv, TypeOK
  <2>3. RootsOK'
    BY <1>2, <2>1 DEF RootsOK, Place
  <2>4. \A u \in Thread : mdev'[u] = IF u = t THEN NULL ELSE mdev[u]
    BY <2>1, <2>2
  <2>5. CASE mounted' = mounted
    <3>1. /\ mounted'[Root] = Initrd
          /\ \A a, b \in Node : mounted'[a] # NULL /\ mounted'[a] = mounted'[b] => a = b
      BY <2>5 DEF MountedOnce
    <3>2. ASSUME NEW u \in Thread, mdev'[u] # NULL
          PROVE  /\ \A m \in Node : mounted'[m] # mdev'[u]
                 /\ \A v \in Thread : mdev'[v] = mdev'[u] => v = u
      <4>1. u # t /\ mdev'[u] = mdev[u]
        BY <2>4, <3>2
      <4>2. \A m \in Node : mounted[m] # mdev[u]
        BY <3>2, <4>1 DEF MountedOnce
      <4>3. \A v \in Thread : mdev[v] = mdev[u] => v = u
        BY <3>2, <4>1 DEF MountedOnce
      <4>4. QED
        BY <2>4, <2>5, <3>2, <4>1, <4>2, <4>3
    <3>3. MountedOnce'
      BY <3>1, <3>2 DEF MountedOnce
    <3>4. QED
      BY <2>3, <3>3
  <2>6. CASE mounted[n] = NULL /\ mounted' = [mounted EXCEPT ![n] = d]
    <3>1. \A m \in Node : mounted'[m] = IF m = n THEN d ELSE mounted[m]
      BY <2>1, <2>2, <2>6
    <3>2. /\ \A m \in Node : mounted[m] # d
          /\ \A u \in Thread : mdev[u] = d => u = t
      BY <2>1 DEF MountedOnce
    <3>3. mounted'[Root] = Initrd
      BY <2>6, <3>1, Start DEF MountedOnce, Node
    <3>4. \A a, b \in Node : mounted'[a] # NULL /\ mounted'[a] = mounted'[b] => a = b
      BY <3>1, <3>2 DEF MountedOnce
    <3>5. ASSUME NEW u \in Thread, mdev'[u] # NULL
          PROVE  /\ \A m \in Node : mounted'[m] # mdev'[u]
                 /\ \A v \in Thread : mdev'[v] = mdev'[u] => v = u
      <4>1. u # t /\ mdev'[u] = mdev[u] /\ mdev[u] # d
        BY <2>4, <3>2, <3>5
      <4>2. \A m \in Node : mounted[m] # mdev[u]
        BY <3>5, <4>1 DEF MountedOnce
      <4>3. \A v \in Thread : mdev[v] = mdev[u] => v = u
        BY <3>5, <4>1 DEF MountedOnce
      <4>4. QED
        BY <2>4, <3>1, <3>5, <4>1, <4>2, <4>3
    <3>6. MountedOnce'
      BY <3>3, <3>4, <3>5 DEF MountedOnce
    <3>7. QED
      BY <2>3, <3>6
  <2>7. QED
    BY <2>1, <2>3, <2>5, <2>6
<1>5. CASE \E d \in Dev : MountRead(t, d)
  <2>1. PICK d \in Dev : MountRead(t, d)
    BY <1>5
  <2> DEFINE r == <<d, CHOOSE s \in Slot : TRUE>>
  <2>2. /\ pc[t] = "done" /\ rootNode[d] = NULL
        /\ rootNode' = [rootNode EXCEPT ![d] = r]
        /\ ino' = [ino EXCEPT ![r] = RootOf[d]]
        /\ mdev' = [mdev EXCEPT ![t] = d] /\ mounted' = mounted
    BY <2>1 DEF MountRead, At
  <2>3. r \in Node /\ r[1] = d
    <3>1. (CHOOSE s \in Slot : TRUE) \in Slot
      BY VfsAssumption
    <3>2. QED
      BY <3>1 DEF Node
  <2> HIDE DEF r
  <2>4. /\ rootNode \in [Dev -> (Node \ {Root}) \cup {NULL}] /\ DOMAIN ino = Node
        /\ mdev \in [Thread -> Dev \cup {NULL}]
        /\ \A n \in Node : mounted[n] # NULL => rootNode[mounted[n]] # NULL
        /\ \A u \in Thread : mdev[u] # NULL => rootNode[mdev[u]] # NULL
    BY DEF Inv, TypeOK, Used
  <2>5. RootsOK'
    <3> SUFFICES ASSUME NEW e \in Dev, rootNode'[e] # NULL
                 PROVE  Place(rootNode[e])' = <<e, RootOf[e]>>
      BY DEF RootsOK
    <3>1. CASE e = d
      BY <2>2, <2>3, <2>4, <3>1 DEF Place
    <3>2. CASE e # d
      <4>1. rootNode'[e] = rootNode[e] /\ rootNode[e] # NULL
        BY <2>2, <2>4, <3>2
      <4>2. ino'[rootNode[e]] = ino[rootNode[e]]
        BY <1>2, <4>1
      <4>3. Place(rootNode[e]) = <<e, RootOf[e]>>
        BY <4>1 DEF RootsOK
      <4>4. QED
        BY <4>1, <4>2, <4>3 DEF Place
    <3>3. QED
      BY <3>1, <3>2
  <2>6. /\ \A n \in Node : mounted[n] # d
        /\ \A u \in Thread : mdev[u] # d
        /\ \A u \in Thread : mdev'[u] = IF u = t THEN d ELSE mdev[u]
    BY <2>2, <2>4, VfsAssumption
  <2>7. MountedOnce'
    BY <2>2, <2>6 DEF MountedOnce
  <2>8. QED
    BY <2>5, <2>7
<1>6. QED
  BY <1>3, <1>4, <1>5, NoMount

LEMMA PathInit == Init => PathInv
<1> SUFFICES ASSUME Init PROVE PathInv
  OBVIOUS
<1> USE DEF Init
<1> DEFINE r == <<Initrd, CHOOSE s \in Slot : TRUE>>
<1>1. r \in Node /\ r[1] = Initrd /\ Root \in Node /\ NULL \notin Dev
  <2>1. (CHOOSE s \in Slot : TRUE) \in Slot
    BY VfsAssumption
  <2>2. QED
    BY <2>1, VfsAssumption DEF Node
<1>2. RootsOK
  BY <1>1 DEF RootsOK, Place
<1>3. MountedOnce
  <2>1. \A n \in Node : mounted[n] = IF n = Root THEN Initrd ELSE NULL
    OBVIOUS
  <2>2. \A t \in Thread : mdev[t] = NULL
    OBVIOUS
  <2>3. QED
    BY <1>1, <2>1, <2>2 DEF MountedOnce
<1>4. HistoryOK
  BY DEF HistoryOK
<1>5. ASSUME NEW t \in Thread PROVE CallAt(t, {}) /\ {} \in Seen(t)
  <2>1. pc[t] = "idle" /\ outcome[t] = NULL /\ began[t] = {}
    OBVIOUS
  <2>2. QED
    BY <2>1, VfsAssumption DEF CallAt, Seen
<1>6. QED
  BY <1>2, <1>3, <1>4, <1>5 DEF PathInv, Followed

LEMMA PathNext == Inv /\ PathInv /\ [Next]_vars => PathInv'
<1> SUFFICES ASSUME Inv, PathInv, [Next]_vars PROVE PathInv'
  OBVIOUS
<1>1. RootsOK /\ MountedOnce /\ HistoryOK /\ Followed
  BY DEF PathInv
<1>2. ASSUME NEW t \in Thread,
             \/ Step(t) \/ Release(t) \/ Unmount(t)
             \/ \E q \in Query[t] : Call(t, q)
             \/ \E d \in Dev : MountRead(t, d)
      PROVE  PathInv'
  <2>1. RootsOK' /\ MountedOnce'
    BY <1>1, <1>2, KeepMounts
  <2>2. HistoryOK'
    BY <1>1, <1>2, KeepHistory
  <2>3. Followed'
    BY <1>1, <1>2, FollowStep
  <2>4. QED
    BY <2>1, <2>2, <2>3 DEF PathInv
<1>3. CASE UNCHANGED vars
  <2>1. UNCHANGED <<ino, mounted, rootNode, pc, node, other, todo, mdev, query, began, outcome>>
    BY <1>3 DEF vars, nodeVars, callVars, historyVars
  <2>2. RootsOK' /\ MountedOnce' /\ HistoryOK'
    BY <1>1, <2>1 DEF RootsOK, MountedOnce, HistoryOK, Place
  <2>3. \A u \in Thread : Same(u)
    BY <2>1 DEF Same
  <2>4. Steady
    BY <2>1, StillFacts
  <2>5. \A u \in Thread : FollowedBy(u)
    BY <1>1 DEF Followed, FollowedBy
  <2>6. \A u \in Thread : FollowedBy(u)'
    BY <2>3, <2>4, <2>5, OthersFollow
  <2>7. Followed'
    BY <2>6 DEF Followed, FollowedBy
  <2>8. QED
    BY <2>2, <2>7 DEF PathInv
<1>4. QED
  BY <1>2, <1>3 DEF Next, Stopped

\* vfs_resolve_path gives the node of what the path names, and says
\* VFS_ERROR_NOT_FOUND or NOT_DIR only when it names nothing, in the mounts
\* there were when the call began and some of those made since; and the path
\* vfs_normalize_path makes names what its arguments name, if they do.  That is
\* so in archives whose entries have first sectors of their own
\* (SectorAssumption), those without empty files and directories: a cache
\* looks for a sector (fs/vfs.c, line 162) and does not see what else begins
\* there.
THEOREM LookupsAreRight == Spec => []ResolveCorrect
<1>1. Init => PathInv
  BY PathInit
<1>2. Inv /\ PathInv /\ [Next]_vars => PathInv'
  BY PathNext
<1>3. ASSUME Inv, PathInv PROVE ResolveCorrect
  <2> SUFFICES ASSUME NEW t \in Thread
               PROVE
                 /\ pc[t] \in {"done", "mount"} =>
                      \E M \in Seen(t) :
                        /\ Place(node[t]) = Names(M, Path(t))
                        /\ Names(M, query[t][1] \o query[t][2]) \in {NULL, Place(node[t])}
                 /\ outcome[t] \in {"NOT_FOUND", "NOT_DIR"} =>
                      \E M \in Seen(t) : Names(M, Path(t)) = NULL
    BY DEF ResolveCorrect, Path
  <2>1. PICK M \in Seen(t) : CallAt(t, M)
    BY <1>3 DEF PathInv, Followed
  <2>2. HistoryOK
    BY <1>3 DEF PathInv
  <2>3. ASSUME pc[t] \in {"done", "mount"}
        PROVE  /\ Place(node[t]) = Names(M, Path(t))
               /\ Names(M, query[t][1] \o query[t][2]) \in {NULL, Place(node[t])}
    <3>1. Place(node[t]) = Names(M, Path(t))
      BY <2>1, <2>3 DEF CallAt
    <3>2. /\ query[t][1] \in Seq(Text) /\ query[t][2] \in Seq(Text)
          /\ query[t][2] # <<>> /\ Clean(query[t][1])
      BY <2>2, <2>3, QueryFacts
    <3>3. Names(M, query[t][1] \o query[t][2]) \in {NULL, Names(M, Path(t))}
      BY <3>2, NormalizedNames DEF Path
    <3>4. QED
      BY <3>1, <3>3
  <2>4. outcome[t] \in {"NOT_FOUND", "NOT_DIR"} => Names(M, Path(t)) = NULL
    BY <2>1 DEF CallAt
  <2>5. QED
    BY <2>1, <2>3, <2>4
<1>4. QED
  BY <1>1, <1>2, <1>3, VfsInvariance, PTL DEF Spec
=============================================================================
