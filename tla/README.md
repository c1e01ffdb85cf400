# Verification of the Sage Aasvogel kernel

TLA+ models of the kernel under `src/src/kernel`, checked with TLC, and proofs
about its scheduler, threads, locks, log, memory, serial port and file system, checked with TLAPS. Paths below are relative to
`src/src/kernel` unless they start with `src/`.

Contents: [the system](#the-system), [how the code is modelled](#how-the-code-is-modelled),
[the modules](#the-modules), [what the runs check](#what-the-runs-check),
[what is proved](#what-is-proved), [what the checks found](#what-the-checks-found),
[not modelled](#not-modelled), [plan](#plan).

## The system

A 32-bit x86 kernel for one processor. It boots with interrupts disabled on a
thread of its own (`core/kernel.c`), brings up the console, the log, memory, the
scheduler, the virtual file system and ACPI, and ends that thread. From then on
it is a set of kernel threads, preempted by the PIT and interrupted by the
serial ports.

| Component | Source | State it keeps | Operations | Models |
|---|---|---|---|---|
| Scheduler | `core/sched.c`, `core/sched.S` | a run queue per process, the queue of processes, the sleep queue sorted by due tick, the current thread, the quantum | create and end threads, create processes, block, sleep, wake, the timer tick | `Sched`, `Dispatch`, `ThreadLife`, `ThreadQueue`, `Fifo`; `SchedProofs`, `ThreadLifeProofs` |
| Mutex | `lock/mutex.c` | taken, owner, wait queue; the held list of each thread | acquire, try, release with hand-off | `Mutex`; `SerialProofs` |
| Semaphore | `lock/semaphore.c` | a value that goes below zero for waiters, wait queue | wait, try, signal | `Semaphore`; `KLogProofs` |
| Reader-writer lock | `lock/rwlock.c` | reader and writer counts, two wait queues | acquire, try and release in both modes | `RwLock`; `RwLockProofs` |
| Condition variables | `lock/condvar.c` | wait queue, the mutex or spinlock it is bound to | wait, signal, broadcast | `CondVar`, `Serial`; `SerialProofs` |
| Spinlock | `lock/spinlock.S` | the lock bit and the eflags of the owner | acquire, try, release | atomic steps |
| Kernel log | `core/klog.c` | a list of messages, a semaphore that counts them, a flushing thread | log, flush | `KLog`; `KLogProofs` |
| Crash handling | `core/crash.c` | none | stop, flush the log, show the registers | `KLog` (the flush) |
| Physical memory | `memory/phys.c` | three stacks of free frames kept inside free frames, the emergency stack, two counters | allocate and free one or many, fill from the memory map | `FrameAlloc`, `FramePool`; `MemoryProofs` |
| Virtual regions | `memory/virt.c` | free regions by address and by size, unused descriptors | allocate, free | `VirtRegions`; `MemoryProofs` |
| Paging | `memory/page.c`, `memory/page_pae.c` | page tables, global and per context | map, unmap, allocate and free kernel pages | `GlobalPages` (kernel pages); `MemoryProofs` |
| Object pools | `memory/pool.c` | free lists in parts, parts on lists | allocate, free, grow | planned |
| Serial driver | `io/serial.c` | two rings, the port and its interrupt, a spinlock and two `cond_var_s` per port | send, receive, interrupt, stop at a crash | `Serial`; `SerialProofs` |
| Tty and consoles | `io/tty.c`, `io/console.c` | a mutex per tty, virtual consoles, the active one | write, read, switch | `Serial` (the serial tty); `SerialProofs` |
| Virtual file system | `fs/vfs.c`, `include/refcount.h` | nodes, a cache of them per device, reference counts, mounts | look up, mount, unmount | `Vfs`; `VfsProofs` |
| SAIF, initial ramdisk | `fs/saif.c`, `fs/initrd.c` | the super block and the cache of a device | read the super block, find a name, get a node | `Vfs`; `VfsProofs` |
| GDB stub | `core/gdb_stub.c` | a packet buffer and its state | receive, reply | planned |
| Early memory, boot, descriptors, symbols, library, ACPI | see [not modelled](#not-modelled) | | | |

How they interact:

- Everything that blocks does so the same way: the caller puts itself into a wait
  queue under the queue's spinlock, sets its status and calls `sched_yield`;
  whoever releases takes it out and calls `sched_thread_wake`. `Dispatch` is the
  contract of that, and `CondVar`, `Mutex`, `RwLock`, `Semaphore` and
  `ThreadLife` are written on top of it.
- A condition variable releases and reacquires a mutex (`CondVar` extends `Mutex`);
  the log counts its messages with a semaphore (`KLog` extends `Semaphore`).
- A writer to a serial tty holds the tty's mutex over a line and the port's spinlock
  over a character; when the ring is full it waits on a `cond_var_s` and gives both
  up. The interrupt handler empties the ring and wakes it (`Serial` extends `CondVar`).
- A lookup takes the mutex of a directory, in it the mutex of the device's cache, and
  in that the mutex of the node whose slot it uses (`Vfs`).
- `sched_thread_create` takes a stack from `kmem_page_global_alloc`, which takes
  frames, addresses and page tables from three allocators under three spinlocks;
  freeing addresses may take a frame again (`GlobalPages` composes `FramePool`
  and `VirtRegions`).
- Signals of semaphores come from threads and from interrupt handlers, and any
  code with interrupts enabled may be preempted by `pit_tick_handle`.

What is hard here: the moments between two sections with interrupts disabled
(a mutex release, a wait on a condition variable, thread creation, page
allocation); state that one thread writes on behalf of another that is asleep
(hand-off of mutexes and of the reader-writer lock); linked queues that share
one link per thread and leave it stale; allocators that need memory to free
memory; wake-ups that must match messages one to one; and a crash at any moment.
`PROJECT.json` lists these hazards at their lines, with the properties for each.

What makes each component correct:

- *Scheduler*: a thread's status names the one queue it is in; sleepers wake on
  their tick; a ready thread runs in the end; the processor idles only while
  nobody is ready (or until the next tick); creation loses no stack and shares none.
- *Locks*: exclusion in the sense of the callers, owner and held lists that
  agree, no waiter that nobody will wake, service in order where it is promised.
- *Semaphore and log*: one return per signal; one signal per message; messages
  in order, once, and all of them, or all but a known part after a crash.
- *Memory*: every frame, page and descriptor in exactly one place at any time,
  on the paths that fail too; no request gets into the reserve without the flag.
- *Object pools* (planned): an object is in one free list or in use; a part moves
  between the lists exactly when it becomes full, partial or empty.
- *Serial, tty*: characters in order, each once; a writer that waits is woken; lines
  stay together.
- *Vfs*: a lookup returns what its path names, and that stays what it is while it is
  referred to; the counts are exact on every path; one node for each file; the
  mutexes are never waited for in a circle.

## How the code is modelled

**Atomicity.** There is one processor. A section under `cli`, a spinlock
(`spinlock_acquire` disables interrupts and `spinlock_release` restores them) or
an interrupt gate runs to its end, or to its `sched_yield`, without anything
between: it is one action. Where code runs with interrupts enabled between two
such sections it is two actions, and `Preempt` (`pit_tick_handle` at the end of a
quantum, `core/sched.c:171-188`) may come between.

**Blocking.** A blocking operation is two actions: up to `sched_yield`, and from
its return on. In the second the thread has been switched to and still has
interrupts disabled, so `Preempt` excludes that place.

**`Dispatch`.** What the other modules need of the scheduler: a status per
thread, the running thread, and `SwitchAny`, which gives the processor to *any*
ready thread or to none if none is ready. It is looser than the two round
robins of `sched.c`, so what holds over it holds for them, and the run `sched`
checks that `Sched` implements it (property `ImplementsDispatch`).

**Fairness.** Liveness is claimed under:

- a timer that ticks, `WF(Tick)`, in `Sched`. From this alone `ReadyRuns` says
  that every ready thread gets the processor.
- `SF(DispatchTo(t))` in the lock modules and `KLog`: a thread that is ready again
  and again is dispatched. This is `ReadyRuns`, the same fact one level up.
- `WF` of the step in which a woken thread returns: interrupts are disabled
  there, nothing can come between.
- `SF(Release...)`: callers release what they hold. This is an assumption about
  callers, strong because a tick may disable the step again and again; a
  quantum is `TICKS_BEFORE_PREEMPT` = 10 ticks (`include/core/sched.h:18`), so a
  dispatched thread does get steps. `SF(RunFlusher)` in `KLog` is the same for the log's
  thread.
- In `Mutex`, callers acquire in an order (`MayNest`); without it they deadlock and
  so would any mutex. In `CondVar` the order holds also of the second acquire, by
  which a wait takes its mutex back (`KeepsOrder`): a thread that waits on a variable
  bound to the first mutex while it holds the second waits for ever for an owner
  of the first that wants the second. TLC finds that circle when the rule is left out. The theorems
  hold for every `MayNest`.
- In `Serial`, `SF` of each thread's steps and of its turns, as above, `WF(Drained)`: the
  transmitter sends what it was given, and `SF(Interrupt)`: a request that stands
  is answered, as interrupts are enabled again and again.
- In `Vfs`, `SF(Step(t))`: a call goes on when it can do so again and again. Turns
  come from `Sched`, and a free mutex to its first waiter is `AcquireReturns`. Nobody is
  made to start a call.

**Data.** Threads, stacks, mutexes and queues' items are model values. Messages
are numbered. Addresses are frame or page numbers. Register contents are
reduced to the stack they point into; page table entries to the frame.

## The modules

Every definition that stands for code is listed with its lines in `PROJECT.json`
(`map`). In short:

**`Sched`** (`core/sched.c`). `runq`, `procq`, `sleepq`, `current`, `quantum` are the
run queues, `process_run_queue`, `sleep_queue`, `current_thread` and
`ticks_until_preempt`; `remaining[t]` is `sleep_until - ticks`, which needs no
bound on time. `Tick` is the whole of `pit_tick_handle`: sleepers that are due, the
quantum, the switch. `Sleep`, `SleepZero`, `Block` and `End` are the ways to
give up the processor, `Wake` is `sched_thread_wake`; they share
`SwitchAny`/`GoIdle`, translated from `sched_switch_any` with its idle loop.

**`Dispatch`**. See above. `DispatchNext` is the contract as a specification;
`Waiting`, `Woken`, `BlockSwitch` and `PreemptSwitch` are what the others use.

**`ThreadQueue`** and **`Fifo`**. The linked queues with `first`, `last`,
`next_in_queue` and `in_queue`, links that stay stale after a dequeue and that
start with any value, and the insertion of `sched_sleep` that never sets `last`.
`Fifo` says what they are for: sequences, and a sorted one. `Abstract` is the
refinement mapping.

**`ThreadLife`**. `sched_thread_create` in the six steps in which another thread
could see its writes (stack, slot, ready queue, registers, both stack bounds),
and its failure path. `sched_thread_end` unmaps the stack it runs on
(`core/sched.c:327`, `memory/page.c:255-262`) and then uses it: for a thread that has one, that is the end of
the machine (`EndFaults`, after which nothing runs). `End` is for the thread of the boot, whose stack was
not allocated: it unlinks and frees its own record and yields, and the record is used again by a later
creation, with the registers that are in it. `Sched` has `End` as it is meant, for any thread.
`Spec` has no preemption (the `SCHED_NO_PREEMPT` build, and the boot thread);
`PreemptiveSpec` adds it.

**`Mutex`**. `AcquireFree`, `AcquireRecursive`, `AcquireBlock` and `AcquireReturn`
are the ways through `mutex_acquire`; `TryAcquire`; and `mutex_release` as
`ReleaseUnlink` (owner check, held list) and `ReleaseHandOff` (spinlock, first
waiter). `has` is what callers believe they have. The held list is a set: only
membership matters to the code that is there.

**`CondVar`** extends `Mutex`. `CondWait` is `cond_var_wait` up to its yield: queue, release,
sleep in one section; `CondReturn` and `CondReblock` are the reacquisition, at once or
through the queue of the mutex. Variables with and without a mutex. `CondSWait` and
`CondSBroadcast` are the same for `cond_var_s`, whose waiters name the mutex they give
up; `Serial` uses them.

**`Serial`** extends `CondVar`. `send` and `recv` are the rings with their indices; `ready`,
`thri` and `rx` are the port (transmitter empty, its interrupt latched, a character
to be read), and `irr` the request in the interrupt controller, which `cpu/idt.c`
programs for edges. `SendChar`, `SendWait`, `ReadChar` and `ReadWait` are a call of
`tty_serial_write` or `tty_serial_read` each, `WaitOver` the way back from
`cond_var_s_wait`, `Interrupt` the handler with `serial_send_buffer` and the standard
sink, `CrashStop` what `do_crash` does to the port. A thread's line and the answer
it reads have lengths that are constants. `plock` is the port's spinlock where a
thread has it between two steps: back from a wait, before it looks at the ring.

**`Vfs`** (`fs/vfs.c`, `fs/saif.c`, `include/refcount.h`). A node is `vfs_root` or a slot of a
device's cache; `ino`, `data`, `ref`, `mounted` are its fields, `data` the ones that are
written only under its own mutex. A lookup is one step for each section between two
acquires: `Call`, `Cross`/`Crossed` and `Resolved` (`resolve_node`), `Find`
(`_saif_find_node`), `Hit`, `Miss` or `Full` (`vfs_node_cache_find`), `TakeSlot`, `Fill`,
`Found`; a mount is `MountRead` and `MountSet`. Mutexes are owners: that waiters get
theirs is `CondVar`'s business. What is in a directory is constant. A cache knows an entry by its
first sector (`Sector`), and the model assumes that no two entries share one. `Normalize` is
`vfs_normalize_path` on sequences of names. `Names` is the reference definition that lookups are held
against: the names followed one by one from the root.

**`Semaphore`**. `WaitTake`, `WaitBlock`, `WaitReturn`, `TryWait`, `Signal`. `credit` is a
history variable that counts signals against returns.

**`RwLock`**. One action per operation and outcome; `rwlock_try_acquire_write`
only in `NextWithTryWrite`, since it breaks the lock (see the findings).
`TryRead` is `rwlock_try_acquire_read`, which succeeds as `ReadEnter` does and otherwise
changes nothing.

**`KLog`** extends `Semaphore`. `LogDirect` (before the flusher exists) and
`LogBuffered` are `klog`; `FlushWait`, `FlushLocked`, `FlushDetach`, `FlushPrint` and
`FlushDone` are the loop of the background thread with `klog_flush`; `CrashFlush`
is `do_crash` with interrupts off, from any context.

**`FramePool`** and **`FrameAlloc`**. `FramePool` is the contract of
`memory/phys.h`: which frames a request may get (`Usable`), how many (`Spare`), that
low memory is an emergency's last resort (`Take`); less the requests that reach low memory and ask for
more than there is (`Overdrawn`), which `memory/phys.h:148` promises `FRAME_NULL` and the code gives
a page of the kernel. `FrameAlloc` is
`memory/phys.c`: stacks seen through one mapped page, whose pages are free frames
and link to each other, the emergency stack that is refilled first, and the
recursion of `_push_region_non_reserved_frames` over the memory map, one call a
step. `KeepsPromise` says that each of its steps is one of `FramePool`, and that the requests that
`FramePool` excepts, and no others, get the page in the kernel's image (`Wild`).

**`VirtRegions`**. `memory/virt.c` as functions on a record of both lists and the
count of spare descriptors.

**`GlobalPages`** composes both with the page tables: `kmem_page_global_alloc` and
`kmem_page_global_free`, one action per locked section. `mine[t]` is what a call has
in its hands. Where an allocator below gives what it does not have, and the code goes on with it,
the model ends: `overdrawn`, when a request for frames goes beyond low memory, and `overrun`, when a
region is too small. So `kmem_page_global_map` never fails before that, and the way back from there
(`memory/page.c:236-242`) is not in it.

The **`...Proofs`** modules hold the theorems: `RwLockProofs`, `ThreadLifeProofs` and `VfsProofs` about
the module they are named after, `SchedProofs` about `Sched` and `ThreadQueue`, `MemoryProofs` about
`FrameAlloc` and `GlobalPages` with `VirtRegions`, `SerialProofs` about
`Mutex`, `CondVar` and `Serial`, of which each extends the one before, `KLogProofs` about `Semaphore` and `KLog`, `DispatchProofs` the facts on queues and on the
scheduler's switch that the others use. The `MC*` modules have the model
values and nothing else. Definitions named `Bug...` are mutants: forms of the code
with a plausible mistake, one for each property, each of which breaks it.

## What the runs check

| Run | Instance | States | Shows |
|---|---|---|---|
| `sched` | 2 processes with 2 threads each, quantum 2, sleeps up to 3 | 13,192 | `QueuesExact`, `SleepsExactly`, `IdleEndsAtTick`, `ImplementsDispatch`, `ReadyRuns`. The scheduler's queues, sleep times and idle transitions over two processes with two threads each; that it implements the contract of Dispatch on which the lock modules are built; and, under a ticking timer alone, that every ready thread runs, which is the fairness those modules assume. |
| `thread_queue` | 4 items, 2 FIFO queues and the sleep queue, 2 keys | 3,921 | `BackPointersAgree`, `ImplementsFifo`. The linked queues, whose items keep stale links, implement the sequences that the other modules use, the hand-made insertion into the sleep queue included. |
| `rwlock` | 4 threads, without `rwlock_try_acquire_write` | 1,816 | `WriterExcludes`, `CountsExact`, `NoStrandedWaiter`, `WriterServed`. The reader-writer lock for four threads that use everything but rwlock_try_acquire_write: exclusion, the counters, no waiter left behind, and a queued writer gets in although readers keep coming. |
| `rwlock_try_assert` | 4 threads, with it | violated | `NoReadersAtWriteRelease`. A writer let in by rwlock_try_acquire_write beside readers fails the assertion of rwlock_release_write. |
| `condvar` | 3 threads, 2 mutexes, a variable with one and a variable without; callers in lock order or recursive | 11,004 | `HeldListExact`, `WaitersHaveOwner`, `OneQueue`, `OwnershipAcrossWaits`, `NoBarging`, `AcquireReturns`. Mutexes and the condition variables over them: preemption between the two halves of a release, hand-offs to threads that hold another mutex, callers that make every mistake the code checks for; no wake-up is lost, the mutex is given up and taken back, and a thread that is owed a mutex gets it. |
| `klog` | the flusher and 2 threads, 4 messages | 1,144 | `CreditsMatch`, `ValueCountsWaiters`, `InOrderOnce`, `SignalsMatchMessages`, `CrashLosesOnlyDetached`, `EveryMessagePrinted`. The kernel log from its start-up to a crash at any moment: order, no duplicates, no wait of its semaphore that returns without a signal, no message without a pending wake-up, what a crash loses, and that every message is printed. |
| `thread_life` | 3 slots, 3 stacks, no preemption | 2,849 | `RunsOnOwnStack`, `StacksAccounted`, `ListExact`. Creation and end of threads without preemption (SCHED_NO_PREEMPT), until a thread with a stack ends, which resets the machine: creations that fail leak no stack, every thread runs on a stack of its own, also in the record that Boot has left, and the list of the process survives Boot's end. |
| `thread_life_assert` | the same, with preemption | violated | `StackAsserted`. With preemption, a thread can be switched to while its creator is still writing its fields, and the assertion of sched_switch_thread fails. |
| `frames` | 13 frames, pages of 2, reserve of 1, 3 memory maps, requests of up to 2 | 4,774 | `EveryFrameOnce`, `KeepsPromise`. The frame stacks from the memory map at boot on: every frame in exactly one place through growing and shrinking stacks, every request and release as FramePool says, which GlobalPages is built on, and that exactly the requests that FramePool excepts get a page of the kernel. |
| `global_pages` | 2 threads, 4 frames, 6 pages, 2 regions per descriptor page, requests of up to 2 | 354,767 | `RegionsExact`, `PagesAccounted`, `FramesAccounted`. Two threads allocate and free kernel pages while frames, page tables and region descriptors run short: regions split and merge, and neither pages nor frames are lost or given twice, also where an allocation fails, until one asks for more than the allocators below notice they do not have. |
| `serial` | 2 threads, lines of 5 and 1, an answer of 2, rings of 2 and 1, 2 arrivals | 142,585 | `SentInOrder`, `ReadInOrder`, `LinesMixOnlyAtWaits`, `RingIsServed`, `LineSent`. Two threads write lines to a serial port and one reads answers, over rings that fill up, interrupts and a crash at any moment: nothing is lost, sent twice or out of order, lines mix only where a writer waited for room, and every line gets out unless the port falls silent. |
| `vfs` | 2 threads, 3 devices, 3 slots per cache, 3 and 2 paths | 175,547 | `RefsExact`, `ResolveCorrect`, `OneNodeEach`, `LookupReturns`. Two threads look up paths and mount two devices, over a cache with room for the root and two more nodes: the reference counts are exact, a lookup finds what the path names in spite of evictions and mounts, and it returns. The entries of its archives have first sectors of their own. |

Why the bounds are enough, where it is not obvious:

- *sched*: two threads in each of two processes are the least with which both
  round robins choose. Sleeps up to three ticks against a quantum of two let a
  sleep end before, with and after a quantum, and several sleepers be due at
  once. Threads come to exist one by one.
- *thread_queue*: four items, so that an item is inserted before, between and
  behind others in the sleep queue while one stays in another queue; two keys
  give ties. Symmetric in the items.
- *condvar*: three threads make two waiters for one mutex, whose order matters, or a
  waiter, an owner and a signaller; two mutexes make a hand-off to a thread that
  holds another one, and a wait with a second mutex held.
- *rwlock*: four threads, so that two wait while two are inside.
- *klog*: one message being printed, one detached, one on the list and one that
  arrives. The messages are capped at four in a life of the kernel, the signals nobody
  consumed (`MaxCredit`) at as many, which none exceeds. The semaphore is signalled by
  two threads and waited on by one; for any threads its two invariants are proved.
- *serial*: five characters pass through a ring of two and the port, so that the
  indices wrap at every phase and the writer waits more than once; a line of one
  comes in between; two characters arrive for a ring of one, so that one may find it full.
- *vfs*: three slots, one for the root that is always referred to. `/a/f` alone
  fills the cache, with `/b/` nodes are evicted, and a lookup can find the cache
  full. Two devices to mount, so that the second mount finds the first, or is made on it; `../a/g`
  exists on the first only. Each thread has `/a` and its own paths.
- *thread_life*: with three slots Boot can be the first, the middle or the last of the list when it
  ends, and its record is used again; three stacks, so that all slots can have one, while a fourth creation
  fails, again and again, for want of a record or of a stack. The state space is closed.
- *frames*: pages of two frames, so that the middle class spans two pages of its
  stack and shrinks again; three memory maps, with reserved regions that cover,
  split and adjoin each other. Requests of up to two.
- *global_pages*: two threads with one call each at a time, over four frames and
  six pages (three of the setup code, one that goes to descriptors at once, two
  whose page table may be missing). Pages, frames and descriptors all run short,
  each at every point of the other thread's call; low memory has one frame, so requests end at the
  reserve, in it, and beyond it. Symmetric in the threads. The only alternatives that never happen are
  the two crashes for a caller that frees what it does not have, which `PagesAccounted` excludes.

The two runs that expect a violation are findings, below.

Checked by TLC only: what the next section does not list.

## What is proved

About 22,100 obligations, for every value of the constants that the modules allow: any sets of threads,
processes, mutexes, variables, queues and stacks, any memory map, any quantum, sizes, keys and bounds. The
assumptions are those that the modules state by name, which TLC evaluates on the
instances: `NULL` is none of the other values, there is a thread, numbers are natural, a
process for every thread (`SchedAssumption`), as many signals as messages
(`KLogAssumption`), finitely many items (`QueueAssumption`) and thread records
(`FiniteThreads`: they are in a memory that ends), two variables and rings with room for a character
(`SerialAssumption`), finitely many threads and devices, and nodes that
are no devices (`NodeAssumption`). Of files:

- `VfsAssumption`: the initrd is a device, the root of a device is one of the directories, only directories
  have entries, a cache has a slot, and paths are sequences of strings, of which `path_in` has one.
- `TreeAssumption`: an archive is a tree, each entry deeper in it than its directory (`Depth`): the packer
  walks down a directory with `lstat`, so it follows no links (`saif_packer/pack.c:126`). And a `cur_path`
  has no "." and "..", as it is a path that an earlier lookup has normalized (`canonical_path_out`).
- `SectorAssumption`: no two entries begin in the same sector. The packer gives an empty file or an empty
  directory the first sector of the entry behind it (`src/src/saif_packer/pack.c:180` and `194`), so this says
  that archives have neither; with them a lookup may end at the node of the other entry, whatever the
  directory says of type and size (`fs/vfs.c:162`, `fs/saif.c:164-188`). The three theorems of `VfsProofs`
  rest on it, for the cache gives the node of the entry only because of it (`CachedIs`).

A guard of `Vfs` is an assumption about callers: that a device is mounted once (`MountRead`; see the findings).

Of memory:

- `BootMapAssumption`: usable regions do not overlap and end where they begin or behind, and the
  pages of the three stacks in the kernel's image, which differ, are reserved.
- `FramePoolAssumption`: finitely many frames, of which each has one class.
- `GlobalPagesAssumption`: the setup code has a page (its linker script ends it with
  `MAX(_ld_setup_begin + 0x20000, .)`, `linker.ld:33`) and lies below the free addresses; a
  page holds two descriptors or more; the tables that exist to begin with include those of the two
  pages that the start-up writes to; and frames are numbered as the pool gives them, low memory
  last, which is what naming a set of them by the least ones means.

| Module | Theorem | States |
|---|---|---|
| `SchedProofs` | `OneQueueEach` | `[]QueuesExact`: the status of a thread names the one queue it is in |
| | `SleepersWokenInTime` | `SleepsExactly`: a tick wakes the sleepers that are due, all of them and nobody else |
| | `IdleIsShort` | `IdleEndsAtTick`: a thread made ready over the idle loop waits for one tick at most |
| | `KeepsContract` | `ImplementsDispatch`: queues, quantum and idle loop implement the contract of the locks |
| `SchedProofs`, of `ThreadQueue` | `PointersAgree` | `[]BackPointersAgree`, whatever stale links the items carry |
| | `QueuesAreFifo` | `ImplementsFifo`: the linked queues are sequences, the sleep queue a sorted one |
| `ThreadLifeProofs` | `OwnStackEach` | `[]RunsOnOwnStack`, also in the record that Boot leaves, up to the fault of the first thread with a stack that ends |
| | `NoStackLeaks` | `[]StacksAccounted`: no path of a creation leaks a stack or shares one |
| | `ListOfLiving` | `[]ListExact`: the list of the process has the living threads, each once, wherever Boot is taken out of it |
| `SerialProofs`, of `Mutex` alone | `TypeCorrect`, `Exclusion`, `WokenOwns`, `BlockedAreQueued` | types; two threads never both have a mutex; a woken waiter owns it before it runs; a thread is blocked exactly while it is, once, in one queue |
| | `HeldLists`, `NoStrandedWaiter` | `[]HeldListExact`, `[]WaitersHaveOwner` |
| | `FirstWaiterNext`, `CrashOnMisuse` | `NoBarging`, `[]CrashOnlyOnMisuse` |
| `SerialProofs`, of `CondVar` | `NoLostWakeUp`, `ReturnsWithMutex` | `[]OneQueue`, `[]OwnershipAcrossWaits` |
| | `HeldListsAgree`, `NoOneStranded`, `SignalNeverBarges`, `CondCrashOnMisuse` | what is said of mutexes alone, with the waits on variables in between |
| `SerialProofs`, of `Serial` | `SentOnce`, `ReadOnce` | `[]SentInOrder`, `[]ReadInOrder`: nothing is lost, doubled or out of order on its way through the rings |
| | `NeverIdle` | `[]RingIsServed`: characters in the ring have a busy transmitter or a latched interrupt |
| | `LinesStayTogether`, `PortReturnsWithMutex` | `[]LinesMixOnlyAtWaits`, `[]OwnershipAcrossWaits` |
| `RwLockProofs` | `WriterAlone`, `CountersCount`, `WaiterNotStranded` | `[]WriterExcludes`, `[]CountsExact`, `[]NoStrandedWaiter` |
| | `AssertionsHold` | the assertion of `rwlock_release_write` holds as long as nobody calls `rwlock_try_acquire_write` |
| `KLogProofs` | `NoSignalUsedTwice`, `EveryWaiterCounted` | `[]CreditsMatch`, `[]ValueCountsWaiters` of `Semaphore` alone |
| | `LogCreditsMatch`, `LogWaitersCounted` | the same of the log's semaphore, which is drained as well |
| | `MessagesInOrder`, `NoMessageForgotten`, `CrashPrintsRest` | `[]InOrderOnce`, `[]SignalsMatchMessages`, `[]CrashLosesOnlyDetached` |
| `MemoryProofs`, of `FrameAlloc` | `FramesOnce` | `[]EveryFrameOnce`: a frame is handed out or in the stacks, once, from the memory map on |
| | `PromiseKept` | `KeepsPromise`: every request and release does what `FramePool` says, but those for more than low memory has, which all get a page of the kernel |
| `MemoryProofs`, of `GlobalPages` | `RegionsAgree` | `[]RegionsExact`: both lists of free regions keep their orders, agree, and have no neighbours that should be one |
| | `PagesHaveOneOwner` | `[]PagesAccounted`: no page is lost or given twice, by any number of threads, until a request is given what is not there; and none is ever freed twice |
| | `FramesHaveOneOwner` | `[]FramesAccounted`: no frame is, also where an allocation fails, until a request overdraws low memory |
| | `PagesInvariant` | the inductive invariant behind the three |
| `VfsProofs` | `CountsAreExact` | `[]RefsExact`: the reference counts, for any devices, contents, slots and paths |
| | `OneNodeForEach` | `[]OneNodeEach`: a file or a directory has one node, whose data only the thread that brings them can see missing |
| | `LookupsAreRight` | `[]ResolveCorrect`: a lookup gives what its path names, or says that there is nothing when the path names nothing, whatever is evicted and mounted meanwhile; in archives without empty files and directories |
| `SerialProofs`, `RwLockProofs`, `KLogProofs` | `KeepsContract`, `CondKeepsContract`, `LogKeepsContract` | `DispatchSpec`: what a lock does to the processor and the statuses is what the contract allows |

Two chains of refinement meet in `Dispatch`: `Sched` implements it, and every step of the
locks and of the log is one of its steps or a stutter. `ThreadQueue` implements `Fifo`,
which is what a sequence stands for in all the others. Requests and releases of `FrameAlloc` are those of
`FramePool`, on which `GlobalPages` is built.

### The arguments

In each module an inductive invariant is proved first (`Invariance`, or a name of its own
where two modules share a file), one lemma per action and in it one step per conjunct; the
listed properties follow from it, the action properties from it and the steps.

*Mutex.* `MutualExclusion` needs that a thread woken by a hand-off already owns the mutex
it will return with unseen; that needs that the head of a queue is blocked and in
`mutex_acquire` for *that* mutex (`BlockedIffQueued`), and that the releasing thread owns it
still, however long ago it took the mutex off its list (`OwnershipByPlace`):

    Inv == TypeOK /\ OwnershipByPlace /\ HeldListExact /\ WaitersHaveOwner /\ BlockedIffQueued

`NoBarging` and `CrashOnlyOnMisuse` follow from the invariant and the steps: that a
held list is never found corrupted is `HeldListExact` at the moment of a release. `Exclusion`
and `BlockedAreQueued` have no run of their own: in `condvar`, `OwnershipAcrossWaits` and
`OneQueue` say the same of mutexes and condition variables together.

*Condition variables.* `BlockedIffQueued` is not true any more: a waiter is in the
place "acquire" without being in the queue of a mutex. The invariant says where a thread is from
`inCond` (`Places`), and from that which of the two queues has it (`Queues`). A wait is a
release, a hand-off and a block in one step; its parts are lemmas on rigid values
(`HandsPasses`, `PassedMutexes`) that the hand-off of `mutex_release` uses as well.

*Reader-writer lock.* A release gives the right to threads that have yet to run. What is
inductive is therefore said of `ReadersIn` and `WritersIn`, which have the woken as
well as those whose acquire has returned; the counters are cardinalities of these sets, and a
release of a writer wakes a whole queue of readers, whose length is the cardinality of its
members (`QueueCardinality`).

*Semaphore.* `CreditsMatch` relates a count of signals and returns to the value and to the
cardinality of the set of threads inside `semaphore_wait`; a return needs a credit that no other
waiter has a claim to. That is so because the queued threads are distinct, all inside and no
more than the value says (`ValueCountsWaiters`), while the one that returns is inside and
not queued.

*Log.* The invariant of the semaphore is kept by the log's own steps, the drain of
`klog_flush` included. To it comes `Loop`, where the background thread is and what it has in its hands,
and `Listed`, `InOrderOnce` said message by message.

*Scheduler.* `QueuesExact` is nearly inductive: that a switch finds a ready thread needs
that the process of every thread is in the queue of processes (`Listed`). That a tick wakes exactly
the sleepers that are due, though it stops at the first that is not, needs the order of the sleep queue
(`SleepSorted`) and that remaining times are positive just for sleepers. The refinement
shows the current thread as running (`ShownStatus`: a tick may put it back and choose it again), and the two
round robins make one of the choices that `Dispatch` leaves open.

*Linked queues.* `QueueInv` says that there is a sequence behind the links of each queue
(`Shape`): the links go through its items and end after the last, `in_queue` says whose
sequence an item is in, `last` is its last, but of the sleep queue, and that one is sorted. As `in_queue` decides it, the
sequences are disjoint, and the one link of an item serves all queues. Walks along the links
(`Nth`, and the insertion of `sched_sleep`) are compared with the sequence.

*Creation and end of threads.* Without preemption the creator runs all the while
(`OneCreator`); `NewThread` says what the new thread has at each point, `Complete` what any
other one has, `FreeSlots` which records may have stale contents. From that nobody shares a stack
(`OwnStacks`) and none leaks (`NoLeak`). `ListInv` is, as for the queues, a sequence behind the links of the
process's list. The one record that is freed and used again is Boot's; the step by which another thread
ends changes nothing but that it is the last (`EndFaults`).

*Serial port.* What the rings hold is a sequence (`Ring`); that filling one appends to it and emptying one
takes its head off, at whatever index, are lemmas on rings of any size (`RingAppend`, `RingRest`), and
`SendRing` and `RecvRing` say that the indices and lengths stay what those need. `ReadInOrder` is kept in the form
`InOrder(Received, arrived, dropped)`, which a new number keeps as it is larger than all others
(`InOrderArrive`) and so does one left out (`InOrderDrop`). Every step of the port keeps the invariant of
mutexes and condition variables (`SerialCondInv`): a wait of `cond_var_s` is that of `cond_var` with the
mutex given by the waiter. That lines mix only at waits needs this for the mutex of the tty, and of every
writer inside of its line that it wrote last, or waited for room (`KeepsLine`); after a crash, which may come
between any two characters, nobody writes.

*Virtual file system.* `RefsExact` is not inductive: that a step leaves no reference uncounted
needs what a thread refers to in each place of its call (`Places`), and that a slot is empty only while
nobody refers to it (`Used`). Then no mutex is needed for it: a slot is used again at a count of 0,
and an exact count of 0 says that nobody is there. A step of a lookup replaces what one thread refers to
(`RefsMove`); counts are cardinalities, and one function value changes (`CountMoves`). `OneNodeEach`
does need the mutexes (`Locks`): the cache's from the moment a slot is used until the mutex of the node is
taken, and until then the count of that node is 1 (`Pending`), so that whoever waits for that mutex has
found the node with its data on the way. `Hit` keeps this because the cache is free then.

`ResolveCorrect` compares a loop, one node at a time with mounts made under it, with names followed at once
in fixed mounts. What a lookup has followed (`CallAt`) is therefore said of some mounts *M* between those
there were at its start and those there are now (`Followed`): the first k names, and j mounts from there, lead
to where it is (`Reached`). *M* grows only when the lookup crosses a mount that is not in it. Then the names
followed so far have to lead the same way in the larger set (`WayGrows`, `WayCrosses`), though the new
mount could be on a place the lookup has come by: it is not, since a device is mounted in one place
(`MountedOnce`: `MountRead` takes one without a root node), so that each place behind is on a device the
lookup has left by another mount, or above where it is in the tree (`Settled`). The same
facts bound how many mounts are on top of each other, which is why the climb to the top ends (`Top`). A path
with ".." is normalized before it is followed; that both forms name the same, where the longer one
names anything, is an induction on the parts of the input (`NormalizedNames`). The rest of the invariant,
`PathInv`, says that roots are the roots (`RootsOK`) and a call's arguments stay (`HistoryOK`). TLC
was run on `PathInv` over the instance of `vfs` as well.

*Frames.* `EveryFrameOnce` says which frames are in the stacks, not how. The invariant has for each stack
the list of its pages, from the one in the image to the one that is mapped, each linking to
the one before (`StackPages`), with all entries in use different and none of them a page
(`Entries`). A push adds one frame to the set that such a stack has and a pop takes one away
(`PushStackOK`, `PopStackOK`), also where the frame becomes a page or was one; the other two stacks do not
notice, as their pages are other frames (`OtherStacks`). That is kept up to the moment at which
the page of low memory in the image is handed out (`Wild`). `KeepsPromise` counts frames: what the loop
takes is all of one source before the next (`Taken`, `Enough`), and the reserve is full
or the middle stack is empty (`EmergencyKept`), from which follows how many a request without
`FA_EMERG` can get (`SpareIs`). That a request overdraws is that the loop comes to a low stack that has nothing
but its page in the image left: it pops that page (`OneMoreOK`, `AllocUpToOK`), and `Wild` is the same as
asking for more than there is (`RequestKept`). Of the start-up: what is left of a region, cut at a
reserved one, and the frames that are in the stacks already are together what is available (`FramesOK`).

*Free regions.* `WellFormed` compares neighbours on two lists; `VirtOK` says the same of any two places,
gaps by address (`GapsIn`) and larger first by size (`BySizeBut`), and `VirtBut` of the moment at
which one region is out of the second list. `_region_remove_size`, `_region_insert_size` and the five ways through
`_free_region` keep it and change the set of free pages by exactly what was freed
(`FreeRegionOK`); `_alloc_region` takes its pages from the front of one region (`AllocRegionOK`).

*Kernel pages.* `PagesAccounted` and `FramesAccounted` need each other: that a mapping overwrites
no live page is because pages have one owner, that an unmapping frees what nobody else has is because
`map` is one-to-one on live pages. Both are kept as a set split among three owners in common and
the threads (`PagesSplit`, `FramesSplit`), and a step moves something between those and one
thread (`Moved`). `CallOK` says what a thread has in each place of its call: of n pages
i are mapped, to the least frames it was given. That freeing a block never
finds it free already (`misuse`) is that a block is not among the free pages. A request that is
`Overdrawn` ends the run of the model (`OverdrawKeeps`); one that is not and has `FA_EMERG` gets all it asks
for (`EmergencyTaken`), which is why a page table or a page of descriptors has its frame.

Where a proof goes through a sequence or along links, the induction is on a number: a least
counterexample (`LeastNat`), or a set of numbers that is all of them (`SetInduction`).
The theorems of the library on recursive definitions take an operator as a parameter,
which the provers cannot instantiate. So `Tick` puts the sleepers into the run queues by a closed form
(`EnqueueAll`), and where the model has a recursive function, a walk along links or the loop of
`kmem_frame_alloc_many`, that a function with its defining equation exists is proved first, by an
induction of that kind on where the function ends (`AllocationExists`, `ReleaseExists`, `WalkIs`,
`Iterates` for the parts, the climbs and the ways of `Vfs`).

### What is only model-checked

- Of the passing runs only liveness (`ReadyRuns`, `AcquireReturns`, `WriterServed`, `EveryMessagePrinted`, `LineSent`,
  `LookupReturns`): fairness and `ENABLED` are out of the prover's reach.
- `ThreadLife` with preemption, which violates its assertion, and `RwLock` with
  `rwlock_try_acquire_write`, likewise.

## What the checks found

Reproduced by a run:

1. `rwlock_try_acquire_write` (`lock/rwlock.c:90`) looks at the writers only and
   lets a writer in beside readers. The assertion of
   `rwlock_release_write` (line 133) fails (`rwlock_try_assert`).
2. `sched_thread_create` (`core/sched.c:309`) makes the thread ready before its
   registers and stack bounds are written. With preemption the assertion of
   `sched_switch_thread` (line 477) fails (`thread_life_assert`). The only caller
   of today, `core/kernel.c:47`, has interrupts disabled.

Met while reading, visible in the models but not the subject of a run:

- A handler of a serial interrupt reads the reason once (`io/serial.c:68`), and of two
  pending reasons reception comes first. The other keeps the line up, and the
  controller, programmed for edges, sees no further request: the port is silent from then on
  (`Deaf` in `Serial`). If the ring is empty by then, the next character written goes straight to
  the port, which answers the reason and revives it; if it is not, it stays until a
  crash empties it, and a writer that waits for room waits for ever. `LineSent` makes
  that one exception.
- A writer that waits for room gives up the mutex of the tty in the middle of a line
  (`io/serial.c:100`), and another line may come in between (`LinesMixOnlyAtWaits`).
- `vfs_unmount` of a node with nothing on it returns with the node's mutex
  (`fs/vfs.c:586`; `kept` in `Vfs`), and otherwise goes through `dev->fs` (line 607), which nothing
  ever sets. It has no caller yet. For the same reason `vfs_mount` never finds
  a device busy (line 553): a second mount of a device would read it anew and replace its cache.
- `vfs_mount` reads the type of a node without its mutex (`fs/vfs.c:521`): of a node that
  is being filled it reads what was in the slot before, and may mount on a file.
- `_saif_try_read` leaks the cache's array when the root has no node (`fs/saif.c:121`);
  `_initrd_load` ignores that `_initrd_map` failed (`fs/initrd.c:71`); a read of several
  sectors returns the first one several times (`fs/initrd.c:13-18`, `sector` for `s`); and an empty file
  or directory has the first sector, by which the cache knows it, of what comes next in the archive
  (`src/src/saif_packer/pack.c:180` and `194`): a lookup of the one may return the node of the other.
  `SectorAssumption` has such archives out.
- A thread that has a stack of its own cannot end: `sched_thread_destroy` unmaps the stack that it runs on
  (`core/sched.c:327`, `memory/page.c:255-262`) and the return from there faults, with no stack to take the
  fault on (`EndFaults` in `ThreadLife`). `core/sched.c:659` says that the thread will never resume, and that is so for
  this reason. Only the thread of the boot gets to `sched_yield`.
- `mutex_try_acquire` over the idle loop, where the current thread is `NULL`, takes
  a free mutex, whose owner is `NULL` too, for one that the caller owns
  (`lock/mutex.c:67`; `include/lock/mutex.h:70` allows the call from handlers).
- `sched_thread_create` releases `process->lock`, which it does not hold, when there is
  no thread record (`core/sched.c:303`); the creator goes on with interrupts
  disabled (`irqOff` in `ThreadLife`).
- `first_thread` is updated without a lock (`core/sched.c:77`): two creators that
  preempt each other lose a thread from the list of the process.
- `low_stack.next_stack_frame` is never set to `FRAME_NULL` (`memory/phys.c:323-330`
  sets it for the other two), so when low memory runs out its own page in the
  kernel image is handed out and then frame 0, where `include/memory/phys.h:148` promises `FRAME_NULL`
  (`Wild` in `FrameAlloc`, `overdrawn` in `GlobalPages`). `KeepsPromise` says of which requests that is
  so. No `FA_EMERG` request is ever refused, and so nothing that looks for it is reached: the
  `crash()` in `memory/virt.c:52` and the way back from a mapping in `memory/page.c:236`.
- A reserved region that starts inside a memory region and does not end there
  makes `_push_region_non_reserved_frames` call itself with the same arguments for
  ever (`memory/phys.c:238`; `rr->end_address` should read `rr->start_address`).
- A usable region smaller than a page that contains no page boundary has its begin rounded up to
  behind its end, and `_push_unallocated` looks for equality only (`memory/phys.c:306`). Unless a
  reserved region covers it, the loop of `_push_region_frames` (line 205) then goes past its
  end. `BootMapAssumption` has such regions out.
- `kmem_total_frames` counts all regions of the memory map, against
  `include/memory/phys.h:121-122`.
- `_alloc_region` does not compare the size of the largest region with the request
  (`memory/virt.c:117`): the size wraps around (`overrun` in `GlobalPages`).
- When a mapping fails half-way, `memory/page.c:237` unmaps page `i`, which failed,
  `i` times, and leaves the pages before it mapped to frames that are freed. (It is not reached, see
  above.)
- `klog` writes through the buffer before it looks whether it has one (`core/klog.c:160-164`).
- A free region at the end of the address space has an end of 0, and freeing a part of it again is
  not noticed (`memory/virt.c:158`).
- `kmem_page_context_create` (`memory/page.c:184`) returns false whatever it did.
- The first object of a pool part with an alignment of 32 overlaps the header of
  the part (`memory/pool.c`, `part_first_offset`).

## Not modelled

- *Spinlocks* as such: with one processor and interrupts disabled they never spin.
  A lock that is taken twice by one context is outside the models.
- *Early memory* (`memory/early.c`, `boot/memory.c`), *boot* (`boot/`, `core/kernel.c`,
  `core/bootparam.c`): straight lines that run once, before there are threads.
- *Descriptors and interrupts* (`cpu/`): hardware set-up. What the kernel gets from
  them is in the `Preempt` and `Tick` actions.
- *Symbols and unwinding* (`core/ksym.c`, `core/unwind.c`) and the *library* (`lib/`): pure
  functions of constant data, and formatting.
- *GDB stub* (`core/gdb_stub.c`): it runs with interrupts disabled while the rest of the
  kernel stands still; its commands are formatting of registers and memory.
- *Object pools* (`memory/pool.c`): next in the plan. Each operation runs under the
  spinlock of its pool, so that the models of their users, in which an allocation
  succeeds or fails, do not depend on it.
- *Virtual consoles*: cursor, colours and screen contents are layout. `tty_switch_vc`
  takes two mutexes in the order of its call, but a crash is its only caller.
- *ACPI*: `io/acpi.c` initialises the tables of ACPICA, which is vendored
  (`src/src/acpica`). `src/src/saif_packer` is a tool of the host.
- `sched_process_destroy`: a stub that crashes. `FA_WAIT`: nobody passes it and its
  wait is a TODO. User page contexts: nothing creates one.
- In modelled parts: sending and receiving by polling (`serial_send_spin`,
  `serial_receive_spin`), as before the interrupts are set up, and a crash while the port's
  spinlock is held; symbolic links, which SAIF does not have, and names and paths
  that are too long; log levels and formatting, the console and flush mutexes of the
  log (its thread may stay in front of them for any time), access bits and
  TLB flushes, the order of the held lists.

## Plan

In order of what matters to the system; the first six lines are done.

1. `Sched`, `Dispatch`, `ThreadQueue`, `ThreadLife`: everything else runs on them.
2. `Mutex` with its theorems, `Semaphore`, `RwLock`, `CondVar`, `KLog`.
3. `FramePool`, `FrameAlloc`, `VirtRegions`, `GlobalPages`.
4. `Serial`: rings, interrupt, `cond_var_s` and the mutex of the tty.
5. `Vfs`: nodes, caches and reference counts, lookups and mounts.
6. Proofs. Done: scheduler, linked queues, threads, locks, log, nodes and
   their reference counts, the serial port, frames, free regions and kernel pages.
7. `Pool`: parts and their three lists, growth through `GlobalPages`' contract, the
   failure path of `memory/pool.c:359`. Run: one pool of two objects a part, three
   parts. Properties: an object is free or in use, a part is on the list its count
   says.
8. `GdbStub`: the receiver and Ctrl-C.
