# spacex: a verification development

spacex (`src/`) is a simulator of a two-tier log-structured block store. A workload
generator sends reads and writes of 8 KB pages through a queue to one *host*
thread; each tier is a flash translation layer with garbage collection over a
disk; pages that are used least go from tier 0 to tier 1. This directory holds TLA+
models of its core, the TLC runs that check them, and proofs that TLAPS checks: about the flash
translation layer, the layer that drives it, the tier module with its LFU queue, the two request
queues, the tier-down hand-over of the storage system, the histograms, and the configuration.
Every safety property that a passing run checks, the two refinements of channels, that of the
page map and that of the eviction order are also proved; liveness is model-checked.

Paths below are relative to the repository (`src/...` is the repository's own `src`).

## Inventory

| Part | State | Operations | Talks to |
|---|---|---|---|
| GC module (`src/base/gc_module.c`), one per tier | blocks of pages, free queue, open host and GC block, 50 garbage buckets, space index | `WriteIO`, `Delete`, `GarbageCollection`, `ReadIO`, queries | called by the layer module |
| LFU queue (`src/utility/lfu.c`) | sorted list of frequency nodes, key index, age | `update`, `evict`, `delete` | called by the tier module |
| Tier module (`src/base/tier_module.c`), one per tier | read and write counters per page, LFU queue | `WriteIO`, `readIO`, `tierDown`, `delete`, `queryFrequency` | called by the layer module |
| Layer module (`src/base/layer_module.c`), one per tier | water levels, statistics | host write and read, tier-down write, `deleteData`, GC and tier-down when a level is reached, slow-down and stall loops | GC module, tier module, disk operator |
| Storage system (`src/base/storage_system.c`) | two globals that hold a tier-down batch, a condition variable, a flag that ends the tier thread, a histogram | host write and read, tier thread, report of the histograms, end | layers, scheduler |
| IO scheduler (`src/base/io_scheduler.c`) | thresholds (never initialised) | `ScheduleLayer` | disk queues, tier 1 |
| Disk operator (`src/base/disk_operator.c`), one per tier | host queue (bounded), GC and tier queues (unbounded), thread pools | `handleIO`, queue sizes, three kinds of worker, end | the queues, `io_request.c` |
| Blocking queue, unblocking queue (`src/utility/`) | ring or list, size, shutdown flag | `push`, `pop`, `shutdown`, destruction | producers and consumers |
| Indexer (`src/utility/indexer.c`) | hash table | query, insert, delete | used by all of the above |
| Instances (`src/proc/instance.c`) | flags; generator, storage system loop, orderly end | configuration, loops, shutdown | workload queue, storage system |
| Histogram (`src/utility/histogram.c`), one per host thread of a disk and one of the system | buckets, number, sum, least and greatest | `Add`, `Merge`, `Clear`, median | host threads, report |
| Disk requests (`src/utility/io_request.c`) | file descriptor | read and write at an offset | workers |
| Statistics, generators, drivers | counters, random numbers | - | - |

**Interaction.** Generator -> workload queue -> host thread. The host thread calls the
scheduler, writes the chosen tier (GC module, then tier module), runs GC and
tier-down at the end of the same call, deletes the copy in the other tier, and signals
the tier thread. The tier thread writes batches to tier 1. Each call also
pushes disk requests, which the workers of the disk operator serve.

**What is hard.** GC walks intrusive lists that it changes as it goes, needs free
blocks to make free blocks, and takes its victims by counters that every overwrite
adjusts. Three key sets (space index, counters, LFU index) must stay equal while
tier-down and delete take pages out from two ends, and a tier-down that is cut short leaves them different. The tier-down hand-over is two unprotected
globals. The queues wait with `if` and shut down without the mutex, and are freed before the threads are joined.
Histograms are merged and cleared while threads add to them. A failing
`ASSERT` only prints (`src/utility/infracture.h:20`), so the code runs on into a
null pointer; the lower-case `assert` of the LFU queue and the indexer is `infracture.h`'s own (line 124), which
ends the process in every build. The full list with lines is `hazards` in
`PROJECT.json`; where no property covers one, its note says why.

**What makes each part correct.** GC module: it is a map from addresses to pages of
their own, GC moves pages without losing one and, on a disk with spare space, never empties the free queue. LFU queue
and tier module: victims come in order of priority and then age, and no index
disagrees with another. Queues: channels that lose, repeat and reorder nothing. Storage
system: an address is lost only through tier-down, the two tiers hold it at once only after a late batch,
and a batch on its way arrives (it does not: see the findings). Histograms: a report
is exact unless a request ended while it was made.

## Modules

| Module | Models |
|---|---|
| `PageMap` | abstract: what the GC module promises, a map of addresses to pages of their own |
| `GCModule` | `gc_module.c`, with `GCCondition` and the end of `HandleGC`, after each page as tier 0 has them |
| `GCModuleProofs` | theorems about `GCModule`, `GCRequests` and `Configuration`, and about the first with the sizes of the last |
| `EvictionOrder` | abstract: the keys with their priorities, and for each the keys of the same priority that are evicted before it |
| `LFU` | `lfu.c` as operators on the list of nodes |
| `TierModule` | `tier_module.c` over `LFU`, with `HandleTierDown`, `DeleteData` and the keys of the space index of `layer_module.c` |
| `TierModuleProofs` | theorems about `LFU` and `TierModule` |
| `RequestChannel` | abstract: a bounded channel |
| `QueueThreads` | what both queues share: threads, mutex, condition variables, and the end with shutdown, free and join |
| `BlockingQueue` | `blocking_queue.c` with its users' loops |
| `UnblockingQueue` | `unblocking_queue.c` with its users' loops |
| `BlockingQueueProofs`, `UnblockingQueueProofs` | theorems about the two |
| `StorageSystem` | `storage_system.c`, `HandleTierDown` on the globals, the tier thread, the end |
| `StorageSystemProofs` | theorems about `StorageSystem` |
| `DiskOperator` | `disk_operator.c`: three queues and their threads, as counts |
| `LayerModule` | `layer_module.c` over `DiskOperator`: the writes, their stalls, `HandleGC`, `HandleTierDown` |
| `LayerModuleProofs` | theorems about `LayerModule` |
| `GCRequests` | the disk requests of a garbage collection (`HandleGC`, `DiskWrite`, `SendWriteRequest`), over `GCModule` |
| `Histogram` | `histogram.c` with the host threads that add and the report that merges and clears |
| `HistogramProofs` | theorems about `Histogram` |
| `FoldLemmas` | folds, sums and recursive functions, for the proofs that need them |
| `Configuration` | the levels that `CreateStorageSystemInstance` derives from the flags |
| `MCGCModule`, `MCTierModule` | the symmetry sets for TLC |
| `MCLayerModule` | states that the instance of `LayerModule` is one the flags can give |

Definitions named "Faulty" are plausible bugs: replacing the definition after them
by one breaks the property that `mutants` in `PROJECT.json` names.

**GCModule.** One action per operation. `WriteIO(l)` is the whole of `WriteIO`:
allocation of a host block, `WriteHostBlock`, `UpdateSpaceIndex` and
`AttachGarbageBuckets`. `GarbageCollection` is split: `NextBucket`, `EnterBucket`,
`CopyPage`, `SkipPage`, `RecycleBlock`, since its loop saves `next` before the body
changes the lists. A page is its address when VALID, or `WRITEABLE` or `INVALID`; a
list is a sequence with its head first; the space index is a set of pairs, so that a
second entry for an address would be seen. Undefined behaviour (the list head taken for a
block, a bucket index below zero) is `pc = "corrupt"`, where the model ends.
After a write, `StartGC` may run when free blocks are below `gcWL`, or `EndWrite`
when the disk's GC queue, which is not in the module, is still busy; at the stall level or
below, the writer has waited for it, so GC runs. That is `WriteHostIO`, which writes one page to each stall and test: what
the module says of free blocks (`NeverCorrupt`, `CopiesAvoidVictims`, `GCWritesItsCopies`) it says of tier 0. In tier 1
`WriteTierDownIO` writes all pages of a batch (`layer_module.c:368-373`) before its stall (384) and its only test (403), the host
may write between them, and free blocks may fall further. `GCKeepsFreeBlocks` and the invariants of index, lists and counters do not depend on when GC starts.

**LFU and TierModule.** A node is `[freq, items]`. `Update` has the early return, the
detaching (with the node when it was its last item), the search from the node
before the old one, and the join or the new node. `Frequency` is
`(uint32_t)(0.7 r + 0.3 w)` in binary floating point: the three pairs up to 11 where it is one
below the exact value are listed, and no run counts further. `lower`, chosen at the start, says
which tier this is: pages come down into the lower one and only the upper one tiers down.
`HandleTierDown` is `StartTierDown` (the size of the batch, from the space index), `EvictPage` for each page, `DeletePages` (the batch leaves the
space index) and `EndTierDown` (the `ASSERT` behind the loop). The loop's bound is a global that the tier thread clears: `CutTierDownShort` ends it after some of the
pages, and the others stay in `spaceIndex` though nothing ranks them. `left`, a history variable, remembers them until they are written again. `DeleteData` is guarded by the
space index, as the layer is; a delete of such a page, or a batch that counts it and asks for more than is ranked, is `pc = "fault"`, the failed `assert`.
`EvictionOrder` knows no lists. `Priorities` and `Order` give what it sees: a key's priority is the frequency of its node,
and the keys ahead of it are those behind it in the node's list, since keys join at the head and the tail is evicted.

**QueueThreads, BlockingQueue and UnblockingQueue.** What a thread does under the mutex is one action. A consumer
that found the queue empty is a state of its own ("checked"), because `Shutdown`
takes no mutex and can fall between the test and the wait. The end is a walk of its own: the consumers'
flag is set, the queue is shut down, the broadcast is sent, the queue is freed, the threads are joined. A
thread that takes the mutex of a freed queue is undefined behaviour, where the model ends ("misused"); a free waits, as
glibc's `pthread_cond_destroy` does, until the threads that wait have left.
`RequestChannel` is the promise of both: the ring's room is its capacity, the list's has no limit.

**StorageSystem.** The tiers are sets of addresses (`stored`, and `ranked` for the LFU
queue of tier 0). Every access to `g_tierDownPages` and `g_tierDownPageCnt` by either
thread is a step: count, allocate, fill, each turn of the delete loop, the test and
the signal on one side; copy, copy, clear, clear, test on the other. A global is read
anew where the source reads it, as a build without optimisation does. Entries of a batch
that were never filled hold any address. `Crash` is a null pointer that is followed, or a failed
`assert`. The end (`main`) stops the host thread between two writes, clears the tier thread's flag, signals
once without the mutex and joins. Three history variables serve the properties only: `tieredDown`, `late` (addresses a batch brought down after a
newer write to tier 0) and `missed` (the end's signal came just before the tier thread waited).

**DiskOperator and LayerModule.** A request is in a queue, or under way in a thread that popped it
(`busy`), or done. A write is a walk of `pc`: write, GC stall, tier stall, push, test for GC,
wait for the host queue, collect, push the copies one by one, test for tier-down, push the reads. Of the
GC module only the number of free blocks is kept (a GC gives back at least what it takes, which
`GCModule`'s `GCKeepsFreeBlocks` says) and the number of pages of tier 0. In tier 1 (`lower`) the
tier thread writes too, and the two interleave. The loops that sleep are guards. A tier-down may be cut short,
as `StorageSystem` shows; `cutShort` remembers it.

**GCRequests.** Operators over `GCModule`'s state: `GCWrites` are the writes that `HandleGC` joins from the copies
of a garbage collection, `PlaceOnDisk` where a page lies when its byte offset is cut to 32 bits.

**Histogram.** `buckets[b] += 1` and `num++` are a load and a store in separate steps; merge and clear are two steps each
(the counts, the buckets), in either of which another thread may be. A report may come at any time, since the `sleep(10)`
that the drivers put before it is cut short by the timer's signal (`instance.c:62`). `tally`, `merged`, `tainted` and
`dirty` remember what was really added and which clears and merges an `Add` overlapped.

**Configuration.** The arithmetic of `CreateStorageSystemInstance`, with its rounding. `MCLayerModule` has TLC check that
the levels of `LayerModule_disk.cfg` are what flags give.

## Runs

| Run | Instance | Shows |
|---|---|---|
| `gc_core` | 4 addresses, 5 blocks of 3 pages, 3 buckets, GC of 2 blocks below 2 free | types; index = VALID pages; lists are a partition and free blocks clean; no corruption; no block is recycled twice or reused in one GC; GC gives back what it takes; the joined disk writes cover the copies and nothing else |
| `gc_promise` | 3 addresses, 3 blocks of 4 pages, 3 buckets, no stall level, no spare blocks | `GCModule` implements `PageMap`; with two garbage counts in one bucket counters and buckets are right; a GC ends; all up to the undefined behaviour, which this instance reaches |
| `tier_queue` | 4 pages, level 3, batches of 2, counters to 3, either tier | implements `EvictionOrder`; the queue is sorted, the indexes agree, rank is use plus age and never falls; a tier-down that is not cut short ends at its level, and no `assert` fails while no page of one that was is left |
| `queue_host` | 1 producer, 3 consumers, room for 2, 5 requests, the end at any time | implements `RequestChannel`; no lost wakeup; all taken; at the end no thread hangs unless its broadcast is lost (a use of the freed queue is an end too) |
| `queue_back` | 2 producers, 2 consumers, 3 requests each, the end at any time | the list implements `RequestChannel`; all taken |
| `system_tiers` | 2 addresses, level 1, batches of 1, bypass | ranked pages are stored; only tier-down drops the last copy; an address is in both tiers only after a late batch; a pending batch is taken over; the end returns unless its signal is lost |
| `layer_disk` | 4 blocks, levels 3 and 1; pages with levels 3 and 4; host queue of 2; 2 host threads, 1 each for GC and tier; either tier | tier 0 stays below its limit; scarce blocks are collected; GC buffers suffice; a GC overtakes no waiting host request; writes return |
| `histogram` | 2 host threads, latencies 0 and 1, 3 buckets, 2 counts | reports that no `Add` overlapped are exact, the median parts in halves |
| `system_lost`, `system_alloc`, `system_read` | 2 addresses, level 1 | expected violations, one property each: see below |
| `histogram_min` | 1 host thread, latencies 1 and 2, 4 buckets with 3 limits | expected violation: see below |

**Bounds, and why they are enough.** The geometry keeps the repository's proportions
where they matter: 3 pages and 3 buckets make the bucket of a block full of garbage exceed the last
one, as 512 pages and 50 buckets do (512 / (512 / 49) = 51), so the cap is
used; 4 pages put two counts in one bucket. Four addresses in five blocks of three
fill host and GC blocks, recycle two victims in one GC, and let a GC block fill while its
own bucket is walked. `maxOccupied` is the most that a tier holds, which `LayerModule`'s
`OccupancyIsBounded` gives for tier 0; `gc_core` has 4 addresses for 15 pages, and `gc_promise` shows that the spare
room is needed. Counters
to 3 and an age to 2 make nodes split, merge, empty and be overtaken; with 4 pages, a level of 3 and batches of 2 a tier-down cut short leaves one or two pages, and the next
asks for as many pages as are ranked or for one more. Two
addresses and batches of one already show every order of the two threads, and a batch that differs from the page
that is written. Two latencies on either side of a limit, and two threads, are what a report can mix up. In `layer_disk` two requests suffice for a queue to
be full, partly taken and under way. `MaxFreq`, `MaxAge`, `MaxPush`, `MaxRequests`, `MaxCount` and `MaxTierQueue` bound otherwise
unbounded counters; the last one stands for a wait that the code has commented out (`layer_module.c:356`). `tierDownCnt <= tierDownWL`: with the program's default
`tierdownWaterLevel` of 0 a batch would be larger than the queue, which asserts;
the scripts set it.

**Symmetry** over addresses or pages is used in `gc_core` and `tier_queue`, which check safety only (invariants, action properties, and the
refinement of `EvictionOrder`, which states no fairness).
**Deadlock** is checked in `gc_core`, `layer_disk` and the two histogram runs. The others stop: at
undefined behaviour, at a crash or a failed `assert` (`tier_queue`), or when the system has ended.

**Fairness.** `GCModule`: the one thread that began a write or a GC goes on; nothing says
that writes come. `BlockingQueue`: each thread runs while it can (weak fairness per
thread; the mutex is held for a step or two), and so does an end that began; no end ever has to begin. `UnblockingQueue`: the same.
`LayerModule`: a write that began goes on, and each kind of disk thread serves its queue; nothing
says that writes come. In tier 1 each of two writers can keep the other waiting, so `WritesReturn` is about tier 0.
`StorageSystem`: host and tier thread run on and writes keep coming, since the lost signal
is made up for only by the next write; the end, once begun, goes on. `Histogram` has no liveness: nothing says that requests or reports come.

**Assumptions.** `pthread_cond_wait` returns only after a signal; with a spurious wakeup,
or with two producers, the `if` at `blocking_queue.c:13` overruns the ring. A histogram's sums are exact (doubles, far below 2^53). The
drivers run one generator at a time, and only the host thread pushes to a host queue.
A call into a tier is a single step between the two threads. `gcStallWL < gcWL`: both are percentages
rounded down (`instance.c:99`), and for a small tier both can be 0, when no GC ever runs.

## Findings

Four runs show where the code does not do what its comments and assertions say.

- `system_lost`: `TierDownThread` copies the global, clears it, and then tests the global
  instead of its copy (`storage_system.c:25-30`): the batch is neither written nor freed.
- `system_alloc`: the tier thread clears the pointer between the host's `malloc` and the
  `ASSERT` on it (`layer_module.c:218-219`).
- `system_read`: a read of an address that only tier 1 has follows a null pointer in tier 0
  (`gc_module.c:271`) and never reaches tier 1.
- `histogram_min`: `Clear` starts `min` from the last of `kBucketLimit` (`histogram.c:222`), which has 154 entries for
  `kNumBuckets` = 162 (`histogram.h:10`): it is 0, and so is every `Min` that a report prints.

Three more the models reach and no property states, since no text of the repository says otherwise plainly enough:
`GCCondition` takes an empty GC queue for "the last GC task already finished" (`layer_module.c:59`) while a request
that was popped is under way; a pending batch is overwritten by the next `malloc` (`layer_module.c:218`); and a write to tier 1 can see
the batch of an earlier write (the `ASSERT` at `storage_system.c:57`, which only prints). A late batch, which
leaves an old copy in tier 1 after a newer write to tier 0, is allowed by `DoublesComeFromLateBatches`, which says that
nothing else leaves one.

## Proofs

All theorems are about the specifications that TLC checks, with every value of their
constants that the named assumptions allow. Each rests on an inductive invariant that
TLC checked on a small instance first; one lemma per action, or per group of actions
that do the same to it, shows that a step keeps it.

**What is assumed.** `GeometryAssumption` (at least one block, one page and two buckets,
and a divisor that is not zero), `WaterLevelAssumption` and `ValueAssumption` (NULL and the page
states are distinct values) for `GCModule`; `TierDownAssumption` (a batch is not larger
than the level); `StorageAssumption` (there are finitely many addresses, a batch is not larger than the
level); `ThreadAssumption` (finitely many producers, none of them a
consumer), `QueueAssumption` (a ring has room) and, for the ring, `OneProducer`: a woken `Push` does not look again
(`blocking_queue.c:13`), so with two producers its count would exceed its room. The code
has one: the generator that runs for the workload queue, the host thread for a disk's host
queue. `DiskAssumption`, `LevelAssumption` and `FlagAssumption` are in `LayerModule` and `Configuration`.

### GCModuleProofs

`TypeOK`, `IndexMatchesPages`, `BlocksArePartitioned`, `GarbageIsCounted`,
`BucketsMatchGarbage` and `FreeBlocksAreClean` always hold. (`GarbageIsCounted` and `FreeBlocksAreClean`
are conjuncts of `BucketsMatchGarbage` and `BlocksArePartitioned`.)
None of the six is inductive alone: the partition needs the types of the lists, the
bucket counters need the partition (a block that leaves its bucket must be in it),
the counters need the index (a page that is invalidated was VALID, so its count
grows by one), and the index needs the walk (a page copied already is VALID in two
places until its block is cleared). The inductive invariant `IInv` is their conjunction,
in parts: `TypeOK`, `GarbageOK` (FULL blocks and buckets), `FreeOK` (free queue), `OpenOK`
(open blocks), `CursorOK` (pages beyond the cursor are WRITEABLE), `LevelOK`, `WalkOK` (the victim is
FULL and in the bucket that is walked, `next` is behind it),
`GarbageIsCounted` and `IndexMatchesPages`.

`PageMapImplemented`: `GCModule` implements `PageMap`. By `IndexMatchesPages` the address that a step
changes gets a page that no other address has; `IInv` is the invariant of the refinement.

`GCKeepsFreeBlocksHolds`: a GC ends with no fewer free blocks than it began with, without further assumption. The count is of pages, not of
blocks: the room for copies (free blocks and the rest of the GC block) and the pages of the victim that are walked are
at least the room of the blocks that were free at the start (`KeepOK`). A copy takes one page of the room and walks one; a
recycled block gives back a whole one. As the GC block always has a page written (`RoomOK`), it is not enough to stand for a free block.

`NeverCorruptHolds`: no allocation finds the free queue empty and no walk runs below bucket 0, if the disk has `SpareSpace`: a stall level between 0 and the GC
level, more blocks than the GC level and one GC need, and fewer addresses than
`(pages - Unit + 1) * (blocks - gcStallWL - 2)`, where `Unit` is the garbage of one level of the buckets. `gc_core`'s instance satisfies it; in `gc_promise`, which
does not, the property is false. The argument:
- A writer that is not stalled leaves free blocks above the stall level. At the stall level or below it collects before it
  returns, so the room of host and GC together is at least `gcStallWL + 1` blocks when it is idle (`SpaceOK`).
- A write can take the last page above that share. The GC that follows must then find a page of garbage, which it leaves out
  of its copies. At that moment at least `blocks - gcStallWL - 2` blocks are FULL. If all were in bucket 0, each would hold at least `pages - Unit + 1` addresses, and there are
  not so many (`ManyForEach`, `StoredInBlock`, `GarbageSomewhere`).
- The walk goes from the fullest bucket down and comes to that page while it has blocks to recycle.
- FULL blocks that the walk has still to come to are at least as many as it has to recycle (`AheadOK`), so it ends above bucket 0.

`CopiesAvoidVictimsHolds`: on the same disk, with `gcBlockCnt <= gcStallWL`, a GC recycles no block twice and reuses none that it has recycled. `EraseOK`: what it
recycled stands at the head of the free queue, its allocations take from the tail, and the
queue never gets shorter than what it recycled. What is not true, and is not
claimed: that a GC does not collect a block that it has filled itself. A GC block whose pages are overwritten while it is open can
fill during a later GC, go to a lower bucket, and be walked there by the same GC; TLC finds this with 6 addresses in 5 blocks. Its copies are then read from
pages whose writes are still in the same queue.

### Configuration

Flags which satisfy `FlagAssumption` (a level of at least one block, a tier-down ratio not above the
level) give what `LayerModule`, `TierModule` and `GCModule` assume of the levels (`LevelsAreOrdered`); tier 0 keeps the blocks of its
water level spare when the percentages add up to at most 100 (`TierZeroHasSpareBlocks`), and tier 1 reserves what
tier 0 may send (`TierOneTakesTheRest`). `TierZeroHasSpareSpace` shows that the sizes of tier 0 satisfy the formulas of `SpareSpace` and
`gcBlockCnt <= gcStallWL`, when besides the GC level is at most 50 percent, one GC takes at most half of it, and the tier has enough blocks: 64 at the default level of 10 percent, where the
default is 100 blocks. `maxOccupied` is there the tier-down stall level: `OccupancyIsBounded` keeps tier 0 below it between writes, as long as no tier-down is cut short, and
`OccupancyDuringWrites` of `LayerModuleProofs` shows that it does not exceed it in the middle of one. That the `occupied` of `LayerModule` counts the
pages of `GCModule` is said here and not proved. `TierZeroIsSafe` takes a `GCModule` whose
sizes and levels are those that `Configuration` derives for tier 0, and concludes `NeverCorrupt`, `CopiesAvoidVictims` and, for a tier of at
most 4 GB, `GCWritesItsCopies`, from the conditions on the flags alone.
The default tier-down level of 0 does not satisfy `FlagAssumption`; the scripts' flags do,
but with a level above 85 (and the offset of 5 and GC level of 10) the percentages add up to more than 100.

### TierModuleProofs

`TypeOK`, `QueueIsSorted`, `IndexesAgree`, `RankIsUsePlusAge`, `TierDownMakesRoom` and the action property `RankNeverFalls`,
in either tier and for any pages, level, batch and bounds. The invariant `TierInv` has five parts that need each other: the queue's list is well formed and holds the keys
of its index (`QueueInv`); the frequency index has the same keys (`IndexInv`); ranks are use plus age (`RankIsUsePlusAge`), without which the search from the old node would not
find the right place; the pages of a batch differ (`BatchInv`); and the space index has the ranked pages, those left by a tier-down that was cut short and the batch,
which are disjoint, where what is still to evict is what the first two have above the level aimed at (`SpaceInv`). Hence `TierDownMakesRoom`: with nothing left there is a ranked page to
evict, and once the batch is deleted `tierDownWL - tierDownCnt` pages remain, whatever was left before. Without the condition that nothing is left it would be false: TLC
reaches the failed `assert` with three pages, a tier-down cut before its first delete, and a delete of one of its pages. A
queue's step is described by what it does to the ranks (`IsRanked`), so that the proofs about the tier do not look into the list.
Of the floating-point frequency they use only that it is a natural number that no further access lowers (`FrequencyProperties`). That is true of
the C expression for every counter, since rounding and truncation keep order; `Frequency` itself is exact up to 11 only.

`EvictionOrderImplemented`: the queue implements `EvictionOrder`, so each step of the tier is one rise, one drop, one eviction of the first, or none of them. A
step is described by what it does to a key's place, its priority with the keys ahead of it (`IsPlaced`): a detach takes the key from the
places of the others and changes nothing else, across the two cases of a node that stays and one that goes; an attach
changes no other place and puts the key behind all of its priority, in a node that was there or a new one (`HasLast`). The victim, last of the first node, has nothing
ahead of it and the lowest priority by the order of the nodes.

### BlockingQueueProofs and UnblockingQueueProofs

For the ring: `TypeOK`, `WakeupsAreNotLost` and that it implements `RequestChannel`. The invariant adds to the two that the next slot to fill is `currentSize` behind
the next to empty and that those between hold requests (`RingInv`), that a woken producer has room (`ProducerInv`), and that a
consumer which has seen the ring empty still holds the mutex (`ConsumerInv`). `DestroyEnds` says what the broken end does.
For the list: `TypeOK` and that it implements `RequestChannel`; the invariant adds that the requests in it are distinct and were
pushed (`ListInv`), so that they are never as many as the channel has room for.

### StorageSystemProofs

`TypeOK`, `RankedAreStored`, `DoublesComeFromLateBatches` and the action property `OnlyTierDownDrops`, over all interleavings of host and tier thread
on the two globals. The invariant `TiersInv` says of the middle of a write what the properties say of its end: the pages that the delete loop has still to delete
are no longer ranked (`TodoOK`), the page that was just written is in its tier (`WrittenPageIsThere`), and doubles are
late or the page of the write under way (`DoublesAreKnown`).

### LayerModuleProofs

`TypeOK`, `OccupancyIsBounded`, `GCBuffersSuffice`, `GCFollowsHostRequests` and `ScarceBlocksAreCollected` for
every size, under `DiskAssumption` and `LevelAssumption`. The properties are about the ends of a write, the
invariant about its middle: after the tier stall tier 0 is below the limit or its tier queue is empty
(`RoomOrNoTierDown`), after the GC stall there are blocks or the GC queue is empty (`BlocksOrNoGC`), and both last
until the condition is tested because tier 0 has one writer (`OneWriter`) and the disk only takes requests out. For the same
reason the host queue, empty when the wait for it ends, stays empty until all copies are handed over. `OccupancyDuringWrites` carries the bound on tier 0 into the
middle of a write.

### GCRequests

`PlacesAreDistinct`: pages of a tier that is no larger than the 32-bit offset tells apart never share a place. The
scripts (`run_x.sh:15`) run tiers of 2500 and 25000 blocks of 4 MB, and the offset wraps after 1024.

`GCWritesItsCopiesHolds`: on such a disk, with `SpareSpace` and `gcBlockCnt <= gcStallWL`, the joined writes cover the copies, each once, and no
other VALID page. `HandleGC` joins by the block number alone, so this is about the order in which a GC allocates. Two invariants are needed. `CopiesOK`: no
two copies lie in the same place, each is in a block that the GC has recycled since or that is behind the block's cursor, and the last one is just
behind the cursor of its block; it is inductive only with `EraseOK` (a recycled block that were allocated again would be written over). `JoinedOK`: the writes cover the
copies so far, and the last write ends where the last copy is. A copy either goes on in that block, at its cursor, or opens a block that no copy is in,
and begins a write. `GCWrites` is a fold over a sequence: `WritesGrow` says that the fold of a list with one more copy is
`Join` of the fold of the list.

### HistogramProofs

`TypeOK`, `ReportsAreExact` and `MedianParts`, for any number of threads and latencies and any table of the source's form. The invariant says what each
histogram holds in the middle of things. A thread whose last clear no `Add` overlapped has the histogram of its tally when it is idle or has loaded
its bucket; when it has stored the bucket it has the counts of the tally with the buckets of one latency more (`IsPartOf`), and what
it has loaded is still there (`ThreadInv`). Between the two parts of a clear the counts are zero and the thread is idle. The report's counts are those of
the tallies it has merged, and its buckets lack at most those of the thread whose turn it is (`ReportInv`). The threads disturb neither each
other nor, unless `dirty` is set, the report.
`MedianCorrect` needs of the table that its entries ascend up to the last that the source gives, which `DecadeFacts` and what follows it show of the
formula of `kBucketLimit`, and that every latency is below that last entry; that the entries behind it are zero does no harm, since
the search ends before them.

### FoldLemmas

What the proofs of the last two need of folds. The library's induction theorems take an operator as parameter, which the provers
cannot instantiate. Induction over finite sets and over the naturals is stated here for a set instead (`SubsetInduction`, `NatSetInduction`: what holds of the empty
set and of one element more is in the set `G`), and follows from well-foundedness. From it: `FoldExists` and `FoldsAgree` (a fold that is a `CHOOSE` of a recursive
function is that function), the sum over a set takes any element and the sum of the others, sums of functions and over disjoint sets, and
`IterationExists` for functions on the naturals.

### Only model-checked

- Everything under fairness (`GCTerminates`, `EveryRequestIsTaken`, `DestroyEnds`, `PendingBatchIsTaken`, `DestroyReturns`,
  `WritesReturn`): liveness and ENABLED are out of the prover's reach. All safety properties of the passing runs are proved.
- The findings, which are counterexamples.

## Not modelled

- Statistics (`stat_module.c`, the counters of the layer and the disk, `Report`): one thread counts, prints and resets.
- Generators: any address in any order is what the models take, which contains what they produce. (The
  uniform generator compares where it should shift, `< PAGE_8K_SHIFT` at `src/include/workload/random_generator.c:15`, and so
  produces the addresses 0 and 1 only; the models do not depend on it.)
- Drivers (`src/test`), `spaceX.h` and `spaceX.txt`, and the logger: command lines and code that is not built.
- The content and the time of disk reads and writes; `sum_squares`, the text of a report and the place within a bucket at which
  the median lies; `DestroyHostDiskIOThread`, which nothing calls.
- Data races inside a hash table or a list of tier 1, which host and tier thread both use without a lock: a call into a tier is one
  step of `StorageSystem`.

## Plan

1. Pages in the requests of `LayerModule`, for the order of a host write, the GC's read of it and the reuse of its block: what `CopiesAvoidVictims`
   and `GCFollowsHostRequests` leave open.
2. The bound on tier 0 across modules: that a run of `LayerModule` with no tier-down cut short gives `GCModule` its `maxOccupied`
   (`OccupancyDuringWrites`), which `TierZeroIsSafe` takes as the tier-down stall level.
3. Tier 1's spare space from the flags, as `TierZeroHasSpareSpace` for tier 0; it needs a bound on the addresses of the workload.
