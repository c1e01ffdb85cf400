--------------------------------- MODULE Vfs ---------------------------------
(***************************************************************************)
(* Path lookup and mounts of fs/vfs.c over the file system of fs/saif.c:   *)
(* nodes with reference counts and mutexes, and a cache of nodes for each  *)
(* device, whose slots are used again when nobody refers to their node.    *)
(*                                                                         *)
(* A lookup holds one reference and moves it along the path.  It takes the *)
(* mutex of a directory, in it the mutex of the cache, and in that the     *)
(* mutex of the node whose slot it uses.  The mutexes are the ones of      *)
(* module Mutex; here they are owners.  What a directory contains is       *)
(* constant, as SAIF can only be read, and it has no symbolic links.       *)
(***************************************************************************)
EXTENDS Naturals, SequencesExt

CONSTANTS
    Thread, NULL,
    Dev,        \* the devices
    Initrd,     \* the one that vfs_init mounts
    Inode,      \* what is on them: files and directories
    Sector,     \* Sector[i], where i begins: its device and inode_no
    Dir,        \* the directories
    Entry,      \* Entry[i][name], the inode of that name in i, or NULL
    RootOf,     \* RootOf[d], the root directory of d
    Depth,      \* Depth[i], how deep i is in its archive
    Slot,       \* the slots of a cache, SAIF_CACHE_SIZE of them
    Query       \* Query[t], the paths that t looks up, <<cur_path, path_in>>

\* A path is the sequence of what stands before, between and behind its
\* separators; a cur_path ends with a separator, which is left out.
ASSUME VfsAssumption ==
    /\ Initrd \in Dev /\ Dir \subseteq Inode /\ Slot # {}
    /\ NULL \notin Dev \cup Thread \cup Inode \cup {"NOT_FOUND", "NOT_DIR"}
    /\ RootOf \in [Dev -> Dir]
    /\ \A i \in Inode \ Dir : \A name \in DOMAIN Entry[i] : Entry[i][name] = NULL
    /\ \A t \in Thread : \A q \in Query[t] :
         q[1] \in Seq(STRING) /\ q[2] \in Seq(STRING) /\ q[2] # <<>>

\* An archive is a tree, and what stands in a cur_path is where a lookup came to
\* (canonical_path_out): without "." and "..".
ASSUME TreeAssumption ==
    /\ Depth \in [Inode -> Nat]
    /\ \A i \in Inode : \A name \in DOMAIN Entry[i] :
         Entry[i][name] # NULL =>
           Entry[i][name] \in Inode /\ Depth[Entry[i][name]] > Depth[i]
    /\ \A t \in Thread : \A q \in Query[t] : \A i \in DOMAIN q[1] :
         q[1][i] \notin {".", ".."}

\* A cache knows an entry by its first sector only.  The packer gives an empty
\* file or directory the first sector of the entry behind it: an archive with
\* one is not covered, as there a lookup may end at the node of the other entry.
ASSUME SectorAssumption ==
    \A i, j \in Inode : Sector[i] = Sector[j] => i = j

\* vfs_root, which is on no device, and the nodes of the caches: the pool
\* gives a slot its node once, and it stays there.
Root == <<NULL, 0>>
Node == {Root} \cup (Dev \X Slot)

\* Nodes and caches are different objects, and so are their mutexes; and they
\* are in a memory that ends.
ASSUME NodeAssumption ==
    /\ NULL \notin Node /\ Node \cap Dev = {}
    /\ IsFiniteSet(Thread) /\ IsFiniteSet(Dev)

VARIABLES
    ino,        \* ino[n], the inode of the thread that set inode_no, which is
                \* its sector; NULL for a slot that has no node yet
    data,       \* data[n], the inode of which dev, ops, flags and size are;
                \* NULL for the ones the pool left behind
    ref,        \* ref[n], refcount
    mounted,    \* mounted[n], the device mounted on n, NULL without the flag
    rootNode,   \* rootNode[d], root_node
    lock,       \* lock[x], the owner of the mutex of a node or of a cache
    pc,         \* pc[t], where t is
    node,       \* node[t], of vfs_resolve_path; then its result
    other,      \* other[t], the second node that t refers to, or NULL
    todo,       \* todo[t], the normalized path from the next name on
    mdev,       \* mdev[t], the device t mounts, or NULL
    query,      \* history: the path of the lookup of t
    began,      \* history: the mounts there were when it began
    outcome,    \* history: the error it failed with, or NULL
    kept,       \* history: vfs_unmount returned with a mutex
    halted      \* crash() or a page fault

nodeVars == <<ino, data, ref, mounted, rootNode>>
callVars == <<node, other, todo, mdev>>
historyVars == <<query, began, outcome>>
vars == <<nodeVars, lock, pc, callVars, historyVars, kept, halted>>

\* vfs_normalize_path: one part of the path behind what is there already.
Part(out, c) ==
    CASE c = "." -> out
      [] c = ".." -> IF out = <<>> THEN <<>> ELSE Front(out)
      [] OTHER -> Append(out, c)

\* The output of the loop after each part of the input.
Parts(cur, in) ==
    LET out[k \in 0..Len(in)] == IF k = 0 THEN cur ELSE Part(out[k - 1], in[k])
    IN out

\* The last part has no separator behind it; "" if the path ends with one,
\* as it does behind "." and "..".
Normalize(cur, in) ==
    LET out == Parts(cur, in)[Len(in)] IN
    IF Last(in) \in {".", ".."} THEN Append(out, "") ELSE out

\* vfs_init has mounted the initrd on vfs_root.
Init ==
    LET r == <<Initrd, CHOOSE s \in Slot : TRUE>> IN
    /\ ino = [n \in Node |-> IF n = r THEN RootOf[Initrd] ELSE NULL]
    /\ data = ino
    /\ ref = [n \in Node |-> IF n = Root THEN 2 ELSE IF n = r THEN 1 ELSE 0]
    /\ mounted = [n \in Node |-> IF n = Root THEN Initrd ELSE NULL]
    /\ rootNode = [d \in Dev |-> IF d = Initrd THEN r ELSE NULL]
    /\ lock = [x \in Node \cup Dev |-> NULL]
    /\ pc = [t \in Thread |-> "idle"]
    /\ node = [t \in Thread |-> NULL] /\ other = node /\ mdev = node
    /\ todo = [t \in Thread |-> <<>>]
    /\ query = [t \in Thread |-> NULL]
    /\ began = [t \in Thread |-> {}]
    /\ outcome = [t \in Thread |-> NULL]
    /\ kept = FALSE /\ halted = FALSE

At(t, l) == ~halted /\ pc[t] = l
Free(x) == lock[x] = NULL

\* The mounts, by what they are mounted on.
Mounts == {<<n[1], ino[n], mounted[n]>> : n \in {m \in Node \ {Root} : mounted[m] # NULL}}

-----------------------------------------------------------------------------
(* vfs_resolve_path.                                                       *)

Call(t, q) ==
    /\ At(t, "idle")
    /\ pc' = [pc EXCEPT ![t] = "resolve"]
    /\ node' = [node EXCEPT ![t] = Root]
    /\ ref' = [ref EXCEPT ![Root] = @ + 1]
    /\ todo' = [todo EXCEPT ![t] = Normalize(q[1], q[2])]
    /\ query' = [query EXCEPT ![t] = q]
    /\ began' = [began EXCEPT ![t] = Mounts]
    /\ UNCHANGED <<ino, data, mounted, rootNode, lock, other, mdev, outcome, kept, halted>>

\* The lookup fails with e and its reference is dropped.
Fail(t, e) ==
    /\ ref' = [ref EXCEPT ![node[t]] = @ - 1]
    /\ pc' = [pc EXCEPT ![t] = "failed"]
    /\ node' = [node EXCEPT ![t] = NULL]
    /\ todo' = [todo EXCEPT ![t] = <<>>]
    /\ outcome' = [outcome EXCEPT ![t] = e]
    /\ UNCHANGED <<other, mdev, query, began>>

\* resolve_node: from a mountpoint to what is mounted on it, first the
\* reference to the one, then the reference to the other.
Cross(t) ==
    /\ At(t, "resolve")
    /\ Free(node[t]) /\ mounted[node[t]] # NULL
    /\ other' = [other EXCEPT ![t] = node[t]]
    /\ node' = [node EXCEPT ![t] = rootNode[mounted[node[t]]]]
    /\ ref' = [ref EXCEPT ![node'[t]] = @ + 1]
    /\ pc' = [pc EXCEPT ![t] = "crossed"]
    /\ UNCHANGED <<ino, data, mounted, rootNode, lock, todo, mdev, historyVars, kept, halted>>
Crossed(t) ==
    /\ At(t, "crossed")
    /\ ref' = [ref EXCEPT ![other[t]] = @ - 1]
    /\ other' = [other EXCEPT ![t] = NULL]
    /\ pc' = [pc EXCEPT ![t] = "resolve"]
    /\ UNCHANGED <<ino, data, mounted, rootNode, lock, node, todo, mdev, historyVars, kept, halted>>

\* resolve_node of a node with nothing on it; behind a name with a separator
\* only a directory will do.
Resolved(t) ==
    /\ At(t, "resolve")
    /\ Free(node[t]) /\ mounted[node[t]] = NULL
    /\ \/ /\ data[node[t]] \in Dir
          /\ pc' = [pc EXCEPT ![t] = IF todo[t] = <<"">> THEN "done" ELSE "dir"]
          /\ UNCHANGED <<ref, callVars, historyVars>>
       \/ /\ data[node[t]] \notin Dir
          /\ Fail(t, "NOT_DIR")
    /\ UNCHANGED <<ino, data, mounted, rootNode, lock, kept, halted>>

\* _saif_find_node under the mutex of the directory: the inode of the name.
Wanted(t) ==
    LET names == Entry[ino[node[t]]] IN
    IF Head(todo[t]) \in DOMAIN names THEN names[Head(todo[t])] ELSE NULL

Find(t) ==
    /\ At(t, "dir")
    /\ Free(node[t])
    /\ \/ /\ Wanted(t) # NULL
          /\ lock' = [lock EXCEPT ![node[t]] = t]
          /\ pc' = [pc EXCEPT ![t] = "cache"]
          /\ UNCHANGED <<ref, callVars, historyVars>>
       \/ /\ Wanted(t) = NULL
          /\ Fail(t, "NOT_FOUND")
          /\ UNCHANGED lock
    /\ UNCHANGED <<ino, data, mounted, rootNode, kept, halted>>

\* _saif_get_node, with the mutex of the cache, on the device of t's directory.
Cache(t) == {n \in Node : n[1] = node[t][1]}
Cached(t) ==
    {n \in Cache(t) : ino[n] # NULL /\ Sector[ino[n]] = Sector[Wanted(t)]}

\* Mutant of Evictable: the count is not looked at.
BugEvictable(t) ==
    IF \E n \in Cache(t) : ino[n] = NULL THEN {n \in Cache(t) : ino[n] = NULL}
                                         ELSE Cache(t) \ {node[t]}

\* Where vfs_node_cache_find puts a node: an empty slot if there is one.  The
\* counts fall while it looks at one slot after the other, so the node may be
\* any that nobody refers to.
Evictable(t) ==
    IF \E n \in Cache(t) : ino[n] = NULL THEN {n \in Cache(t) : ino[n] = NULL}
                                         ELSE {n \in Cache(t) : ref[n] = 0}

\* Mutant of Hit: the reference is not counted.
BugHit(t) ==
    /\ At(t, "cache") /\ Free(node[t][1])
    /\ \E n \in Cached(t) :
         /\ other' = [other EXCEPT ![t] = n]
         /\ lock' = [lock EXCEPT ![node[t]] = NULL]
         /\ pc' = [pc EXCEPT ![t] = "found"]
    /\ UNCHANGED <<nodeVars, node, todo, mdev, historyVars, kept, halted>>

\* The node is there; it may be one that nobody refers to.  What the directory
\* says of its type and size is not looked at.
Hit(t) ==
    /\ At(t, "cache") /\ Free(node[t][1])
    /\ \E n \in Cached(t) :
         /\ ref' = [ref EXCEPT ![n] = @ + 1]
         /\ other' = [other EXCEPT ![t] = n]
         /\ lock' = [lock EXCEPT ![node[t]] = NULL]
         /\ pc' = [pc EXCEPT ![t] = "found"]
    /\ UNCHANGED <<ino, data, mounted, rootNode, node, todo, mdev, historyVars, kept, halted>>

\* Mutant of Miss: the mutex of the cache is released first.
BugMiss(t) ==
    /\ At(t, "cache") /\ Free(node[t][1])
    /\ Cached(t) = {}
    /\ \E n \in Evictable(t) :
         /\ ino' = [ino EXCEPT ![n] = Wanted(t)]
         /\ ref' = [ref EXCEPT ![n] = 1]
         /\ other' = [other EXCEPT ![t] = n]
         /\ pc' = [pc EXCEPT ![t] = "slot"]
    /\ UNCHANGED <<data, mounted, rootNode, lock, node, todo, mdev, historyVars, kept, halted>>

\* It is not, and a slot is used for it; t goes for the mutex of its node.
Miss(t) ==
    /\ At(t, "cache") /\ Free(node[t][1])
    /\ Cached(t) = {}
    /\ \E n \in Evictable(t) :
         /\ ino' = [ino EXCEPT ![n] = Wanted(t)]
         /\ ref' = [ref EXCEPT ![n] = 1]
         /\ other' = [other EXCEPT ![t] = n]
         /\ lock' = [lock EXCEPT ![node[t][1]] = t]
         /\ pc' = [pc EXCEPT ![t] = "slot"]
    /\ UNCHANGED <<data, mounted, rootNode, node, todo, mdev, historyVars, kept, halted>>

\* Mutant of Full: the directory is not released.
BugFull(t) ==
    /\ At(t, "cache") /\ Free(node[t][1])
    /\ Cached(t) = {}
    /\ \A n \in Evictable(t) : ino[n] = NULL
    /\ Fail(t, "NO_MEMORY")
    /\ UNCHANGED <<ino, data, mounted, rootNode, lock, kept, halted>>

\* Every slot is referred to, or the pool has no memory for an empty one.
Full(t) ==
    /\ At(t, "cache") /\ Free(node[t][1])
    /\ Cached(t) = {}
    /\ \A n \in Evictable(t) : ino[n] = NULL
    /\ lock' = [lock EXCEPT ![node[t]] = NULL]
    /\ Fail(t, "NO_MEMORY")
    /\ UNCHANGED <<ino, data, mounted, rootNode, kept, halted>>

\* With the mutex of the node the one of the cache is released.
TakeSlot(t) ==
    /\ At(t, "slot")
    /\ Free(other[t])
    /\ lock' = [lock EXCEPT ![other[t]] = t, ![other[t][1]] = NULL]
    /\ pc' = [pc EXCEPT ![t] = "fill"]
    /\ UNCHANGED <<nodeVars, callVars, historyVars, kept, halted>>

\* What the directory of t said of it.  Others may have found the node by then,
\* and wait for its mutex, or not.
Fill(t) ==
    /\ At(t, "fill")
    /\ data' = [data EXCEPT ![other[t]] = ino[other[t]]]
    /\ lock' = [lock EXCEPT ![other[t]] = NULL, ![node[t]] = NULL]
    /\ pc' = [pc EXCEPT ![t] = "found"]
    /\ UNCHANGED <<ino, ref, mounted, rootNode, callVars, historyVars, kept, halted>>

\* The reference moves from the directory to the node.  A last name without
\* a separator is not resolved.
Found(t) ==
    /\ At(t, "found")
    /\ ref' = [ref EXCEPT ![node[t]] = @ - 1]
    /\ node' = [node EXCEPT ![t] = other[t]]
    /\ other' = [other EXCEPT ![t] = NULL]
    /\ todo' = [todo EXCEPT ![t] = Tail(@)]
    /\ pc' = [pc EXCEPT ![t] = IF Len(todo[t]) = 1 THEN "done" ELSE "resolve"]
    /\ UNCHANGED <<ino, data, mounted, rootNode, lock, mdev, historyVars, kept, halted>>

-----------------------------------------------------------------------------
(* What is done with the result.                                           *)

\* refcount_dec of the result, or nothing but an error to be looked at.
Release(t) ==
    /\ \/ /\ At(t, "done")
          /\ ref' = [ref EXCEPT ![node[t]] = @ - 1]
       \/ /\ At(t, "failed")
          /\ UNCHANGED ref
    /\ node' = [node EXCEPT ![t] = NULL]
    /\ todo' = [todo EXCEPT ![t] = <<>>]
    /\ pc' = [pc EXCEPT ![t] = "idle"]
    /\ query' = [query EXCEPT ![t] = NULL]
    /\ began' = [began EXCEPT ![t] = {}]
    /\ outcome' = [outcome EXCEPT ![t] = NULL]
    /\ UNCHANGED <<ino, data, mounted, rootNode, lock, other, mdev, kept, halted>>

\* vfs_mount.  Of its callers it is assumed that they give it a device once
\* only (rootNode[d] = NULL): dev->fs, by which it would know, is never set, and
\* a second call would replace the cache of a device that is in use.  The type
\* is read without the mutex, so it may be the one of an earlier node in the
\* slot.  _saif_try_read gives the device a cache with the root directory in it; the
\* calls that fail change nothing that matters here.
MountRead(t, d) ==
    LET r == <<d, CHOOSE s \in Slot : TRUE>> IN
    /\ At(t, "done")
    /\ data[node[t]] \in Dir \cup {NULL}
    /\ rootNode[d] = NULL
    /\ rootNode' = [rootNode EXCEPT ![d] = r]
    /\ ino' = [ino EXCEPT ![r] = RootOf[d]]
    /\ data' = [data EXCEPT ![r] = RootOf[d]]
    /\ ref' = [ref EXCEPT ![r] = 1]
    /\ mdev' = [mdev EXCEPT ![t] = d]
    /\ pc' = [pc EXCEPT ![t] = "mount"]
    /\ UNCHANGED <<mounted, lock, node, other, todo, historyVars, kept, halted>>

\* The rest of it, under the mutex: the mountpoint keeps a reference to
\* itself.  What is mounted already stays.
MountSet(t) ==
    /\ At(t, "mount")
    /\ Free(node[t])
    /\ \/ /\ mounted[node[t]] = NULL
          /\ mounted' = [mounted EXCEPT ![node[t]] = mdev[t]]
          /\ ref' = [ref EXCEPT ![node[t]] = @ + 1]
       \/ /\ mounted[node[t]] # NULL
          /\ UNCHANGED <<mounted, ref>>
    /\ mdev' = [mdev EXCEPT ![t] = NULL]
    /\ pc' = [pc EXCEPT ![t] = "done"]
    /\ UNCHANGED <<ino, data, rootNode, lock, node, other, todo, historyVars, kept, halted>>

\* vfs_unmount.  Of a node with nothing on it, it returns an error and keeps
\* the mutex.  Otherwise it goes through dev->fs, which nothing ever sets.
Unmount(t) ==
    /\ At(t, "done")
    /\ Free(node[t])
    /\ \/ /\ mounted[node[t]] = NULL
          /\ lock' = [lock EXCEPT ![node[t]] = t]
          /\ kept' = TRUE
          /\ UNCHANGED halted
       \/ /\ mounted[node[t]] # NULL
          /\ halted' = TRUE
          /\ UNCHANGED <<lock, kept>>
    /\ UNCHANGED <<nodeVars, pc, callVars, historyVars>>

\* The mutex that t is about to acquire.
Target(t) ==
    CASE pc[t] \in {"resolve", "dir", "mount"} -> node[t]
      [] pc[t] = "cache" -> node[t][1]
      [] pc[t] = "slot" -> other[t]
      [] OTHER -> NULL

\* mutex_acquire of one that t kept: crash().
Recursive(t) ==
    /\ ~halted
    /\ Target(t) # NULL
    /\ lock[Target(t)] = t
    /\ halted' = TRUE
    /\ UNCHANGED <<nodeVars, lock, pc, callVars, historyVars, kept>>

\* t goes on with the call it is in.
Step(t) ==
    \/ Cross(t) \/ Crossed(t) \/ Resolved(t)
    \/ Find(t) \/ Hit(t) \/ Miss(t) \/ Full(t) \/ TakeSlot(t) \/ Fill(t) \/ Found(t)
    \/ MountSet(t) \/ Recursive(t)

\* With a mutex kept, everybody may be waiting for it.
Stopped == (halted \/ kept) /\ UNCHANGED vars

Next ==
    \/ \E t \in Thread :
         \/ Step(t) \/ Release(t) \/ Unmount(t)
         \/ \E q \in Query[t] : Call(t, q)
         \/ \E d \in Dev : MountRead(t, d)
    \/ Stopped

Spec == Init /\ [][Next]_vars

\* Threads get their turn (Sched) and a mutex is handed on in order (Mutex),
\* so a call goes on if it can do so again and again.  Nobody has to start one.
FairSpec == Spec /\ \A t \in Thread : SF_vars(Step(t))

-----------------------------------------------------------------------------
(* The names, followed one by one.                                         *)

Place(n) == <<n[1], ino[n]>>

On(M, y, d) == <<y[1], y[2], d>> \in M

\* From a place to the root of what is mounted on it, in the mounts M, and so on
\* until nothing is.
Above(M, y) ==
    IF \E d \in Dev : On(M, y, d)
      THEN LET d == CHOOSE d \in Dev : On(M, y, d) IN <<d, RootOf[d]>>
      ELSE y
Climb(M, x) ==
    LET up[k \in 0..Cardinality(Dev)] == IF k = 0 THEN x ELSE Above(M, up[k - 1])
    IN up
Top(M, x) == Climb(M, x)[Cardinality(Dev)]

\* The places on the way, the last one last; empty when a name is not there.
Follow(M, way, c) ==
    IF way = <<>> \/ c = "." THEN way
    ELSE IF c = ".." THEN IF Len(way) = 1 THEN way ELSE Front(way)
    ELSE LET x == Top(M, Last(way)) IN
         IF c \notin DOMAIN Entry[x[2]] THEN <<>>
         ELSE IF Entry[x[2]][c] = NULL THEN <<>>
         ELSE Append(way, <<x[1], Entry[x[2]][c]>>)

\* The same for the first k names of p.
Way(M, p) ==
    LET way[k \in 0..Len(p)] ==
          IF k = 0 THEN <<<<Initrd, RootOf[Initrd]>>>> ELSE Follow(M, way[k - 1], p[k])
    IN way

\* What the path p names in the mounts M, NULL if nothing.
Names(M, p) ==
    LET end == Last(p)
        way == Way(M, p)[IF end = "" THEN Len(p) - 1 ELSE Len(p)]
    IN IF way = <<>> THEN NULL
       ELSE IF end \notin {"", ".", ".."} THEN Last(way)
       ELSE IF Top(M, Last(way))[2] \in Dir THEN Top(M, Last(way)) ELSE NULL

\* The mounts that t may have found: those there were, and some of those made
\* since, as it passes a place before or after something is mounted there.
Seen(t) == {M \in SUBSET Mounts : began[t] \subseteq M}

\* The counts are exact, over lookups that fail half-way, slots used again
\* and mounts: one for each node a call is at, for the result it gave, for
\* what is mounted on the node, and for the root of a device.
RefsExact ==
    \A n \in Node :
      ref[n] = Cardinality({t \in Thread : node[t] = n})
             + Cardinality({t \in Thread : other[t] = n})
             + Cardinality({d \in Dev : rootNode[d] = n})
             + (IF mounted[n] # NULL THEN 1 ELSE 0)
             + (IF n = Root THEN 1 ELSE 0)

\* A result is what the path names in mounts that the lookup may have found,
\* and stays that as long as it is referred to, however the slots are used
\* meanwhile.  A path with ".." is the place one comes to by going
\* up, where that exists; a lookup says that a name is not there only if so.
ResolveCorrect ==
    \A t \in Thread :
      /\ pc[t] \in {"done", "mount"} =>
           \E M \in Seen(t) :
             /\ Place(node[t]) = Names(M, Normalize(query[t][1], query[t][2]))
             /\ Names(M, query[t][1] \o query[t][2]) \in {NULL, Place(node[t])}
      /\ outcome[t] \in {"NOT_FOUND", "NOT_DIR"} =>
           \E M \in Seen(t) : Names(M, Normalize(query[t][1], query[t][2])) = NULL

\* The threads that have a file or a directory share one node for it, and
\* nobody acts on the data of the node that was in its slot before: until it
\* has its own, the thread that fills it has the mutex of the cache and the
\* only reference, or the mutex of the node.
OneNodeEach ==
    /\ \A m, n \in Node \ {Root} :
         ino[m] # NULL /\ Place(m) = Place(n) => m = n
    /\ \A n \in Node : data[n] # ino[n] =>
         \E t \in Thread :
           /\ other[t] = n
           /\ \/ pc[t] = "slot" /\ lock[n[1]] = t /\ ref[n] = 1
              \/ pc[t] = "fill" /\ lock[n] = t

InCall(t) == pc[t] \notin {"idle", "done", "failed"}

\* Every lookup and every mount returns, unless an unmount went wrong: the
\* three mutexes are never waited for in a circle, because nobody has the
\* mutex of a node that nobody refers to.
LookupReturns ==
    \A t \in Thread :
      InCall(t) ~> ~InCall(t) \/ halted \/ kept
=============================================================================
