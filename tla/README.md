# Verification of the Banshee DRAM-cache simulator

TLA+ models of the simulator in `src/` (zsim extended with the DRAM cache
schemes of the Banshee paper), the TLC configurations that check them on small
instances, and TLAPS proofs for instances of any size. The code is what is
modelled; comments, assertions and documents are quoted only as statements to
be checked. Paths below are relative to `src/src/`.

## The system

zsim simulates many cores in parallel. Time is cut into *phases*; every phase
has two halves:

* in the **bound** half host threads run the simulated threads. Each simulated
  thread owns a core (a *context*), and its loads and stores walk the cache
  tree, taking and giving up locks on the way (`cache.cpp`,
  `coherence_ctrls.*`, `filter_cache.h`). Misses of the last level reach the
  memory controller (`mc.cpp`), which in this repository is a DRAM cache in
  front of external DRAM;
* in the **weave** half the events recorded meanwhile are replayed in time
  order by the domain threads (`contention_sim.cpp`, `timing_event.*`), which
  keep them in priority queues (`prio_queue.h`); memory requests become DRAM
  commands there (`ddr_mem.*`).

The **barrier** (`barrier.h`) ends a phase when every core in it has had its
turn and lets only so many cores run at once. The **scheduler**
(`scheduler.h`, `scheduler.cpp`) maps simulated threads to cores, takes them
out of the barrier for system calls, lets them sleep in simulated time and
moves time on when everybody sleeps. It calls the barrier under its own lock
(`locks.h`); the barrier calls it back at the end of a phase. System calls are
patched in `virt/`; a thread that woke others through a futex joins only after
they have.

| part | state | operations | interacts with |
|---|---|---|---|
| tag buffer (`mc.h:51-87`, `mc.cpp:858-998`) | entries with tag, remap flag, LRU stamp; number of remaps | lookup, insert, ask for room for one or two, clear | controller, placement policy |
| DRAM cache controller (`mc.cpp:222-793`) | cache ways, TLB copy of the mapping, tag buffer, index of switched-off sets | one access with lookup, placement, eviction, flush, rebalancing | placement policy, tag buffer, the two DRAMs |
| page placement (`page_placement.*`), line placement (`line_placement.*`) | recency bits; sampled counters of cached and candidate pages | on hit, on miss | controller, tag buffer |
| barrier (`barrier.h`) | run list, states, remembered indices, three counters, futex words | join, leave, sync, wake-up, end of phase | scheduler |
| scheduler (`scheduler.*`), time virtualisation (`virt/time.cpp`, `virt/timeout.cpp`) | threads, contexts, run, out, sleep and free queues, fake leaves, promised handoffs | join, sync, leave, sleep, finish, tick, watchdog | barrier, system calls |
| futex matching (`scheduler.cpp`, `virt/timeout.cpp`) | two counters of wake-ups, what each thread will do when it joins | wake call, report, join of the waker and of the woken | scheduler, host kernel |
| locks (`locks.h`) | one word | lock, timed lock, unlock | every part that is shared |
| caches (`cache.cpp`, `coherence_ctrls.*`, `cache_arrays.*`), filter (`filter_cache.h`) | tags, MESI states, directory, locks, filter entry | access, eviction, invalidation, filter replacement | each other up and down the tree; memory |
| weave phase (`contention_sim.*`, `timing_event.*`, `*_recorder.*`, `timing_cache.*`) | event graph, per-domain queues, crossings | enqueue, run, requeue, cross, advance | barrier's end of phase |
| event queue (`prio_queue.h`) | ring of blocks, map of far events, current block | enqueue, dequeue, first cycle | weave phase |
| DDR memory (`ddr_mem.*`) | request queues, banks, activation windows, scheduling events | enqueue, tick, issue, refresh | weave phase |
| replacement and partitioning (`repl_policies.h`, `part_repl_policies.h`, `partitioner.h`, `lookahead.cpp`, `utility_monitor.*`) | ranks, timestamps, utility counters | update, rank, allocate | cache arrays |
| processes (`zsim.cpp`, `process_tree.*`, `zsim_harness.cpp`) | process states, start barrier, termination | start, fork, exec, fast-forward, end | scheduler |
| the rest: cores, decoder, statistics, traces, configuration, heap | per-core or host-side | | |

`PROJECT.json` lists every part with its files under `components`, and what is
hard to test about each, line by line, under `hazards`. Its `map` names the
source lines each definition stands for. Most of the tree under `src/` is not
the simulator but the bundled Pin kit and other third-party code, so the mapped
lines are a small share of all lines there.

## Modules

### `TagBuffer`

The tag buffer holds page remappings that the TLBs have not been told of yet,
so an entry with its remap flag set must survive until the buffer is flushed,
and a page replacement, which needs two entries, must find room for both.
The methods are operators on a buffer value (`existInTB`, `canInsert`,
`canInsert2` for its two-argument overload, `updateLRU`, `insert`); the
controller's uses are the actions `InsertOne`, `InsertPair` and
`clearTagBuffer`. `LruDistinct` compares the stamps of the entries without a
remapping, the only ones `insert` ranks.

### `PagePlacement`, `MemoryController`, `MCDramCache`, `DramCacheProofs`

`PagePlacement` gives the policy's methods as operators on one set. A method
that draws a random number returns the set of its outcomes, so sampling, the
replacement coin and the choice of a random candidate are all free.
`MemoryController` has one action, `access`, which is the whole of
`MemoryController::access` for the schemes HybridCache (Banshee), UnisonCache,
Tagless and AlloyCache: lookup, hit or miss, placement, eviction with
write-back, tag buffer insertion or hint, flush when the buffer is crowded, and
the rebalancing of the sets in use. `fresh` is a history variable: for every
line, whether DRAM cache and external DRAM hold its newest value. Latencies,
traffic, the DRAM model behind the controller and the statistics are left out;
the bandwidth measurement that decides on rebalancing is a free choice.
The configuration is a variable chosen initially and never changed, so one run
covers all schemes. Pages have as many lines as a bit vector has bits
(`PagesAssumption`): 64, or 4 KB, in the code. The constructor accepts pages of
2 MB for HybridCache as well, but its assertions on bit numbers do not.

### `Barrier`, `BarrierProofs`

The barrier object is the record `bar`; `joining`, `leaving`, `syncing`,
`checkRunList`, `checkEndPhase`, `cleanup`, `shuffle` are the code's methods as
operators on it. Critical sections are atomic (they run under the scheduler's
lock), but the futex protocol is not: state store, futex word store and wake-up
call of the waker interleave with the state check, the kernel's re-check of the
word, the sleep and the interruption by signals of the waiter. `phaseCount`
matters only for the cleanup period and is kept modulo that.

### `Scheduler`, `MCScheduler`

The scheduler object is the record `sched`, including the barrier, whose
operators it takes from `Barrier` (`INSTANCE`). One action per critical section
of `schedLock`: where the code releases the lock in the middle of an operation
(finish after a fake leave, the watchdog, a timeout's event), there are two.
Wake-up phases are counted down instead of compared with an absolute phase
number. The step-by-step futex protocol of `Barrier` is one step here.
`workload`, chosen initially, says which threads exist, their processor masks,
which system calls they make, which of them are processes that may be killed at
any moment (the watchdog cleans up after them) and which are fast-forwarded in
and out of the simulation.

### `AtomicLock`, `FutexLock`, `FutexLockProofs`

`FutexLock` is the futex lock of `locks.h`, one step per access to the word and
per system call: the compare-and-swap, the exchange before the wait, the
kernel's comparison, sleep, time-out and interruption, and the unlock, whose
plain store of 0 is a step apart from the decrement that precedes it.
`AtomicLock` is what a lock promises: a lock that is free is taken by one thread
at a time and only given up by an unlock.

### `FutexMatch`, `FutexMatchProofs`

The two counters with which the scheduler matches futex wake-ups: what calls in
flight may still wake, and woken threads nobody has accounted for. Kernel,
threads outside the simulation and threads that are late are the environment;
they misbehave only if `faults` is set.

### `PriorityQueue`, `PrioQueue`, `EventProofs`

`PrioQueue` is the event queue of a domain: a ring of blocks with an occupancy
mask per block, a sorted map for events beyond half the ring, moved into the
ring as it turns, and `firstCycle`. `PriorityQueue` is the abstract queue: a set
of events with their cycles, from which one with the least cycle is taken.

### `Coherence`, `MCCoherence`, `CoherenceCalls`, `CoherenceAccess`, `CoherenceProofs`

Threads with stacks of calls walk a tree of caches. A frame has a program point
for every place where the code may wait for a lock or hands control to another
cache; steps run from one point to the next. On its way up an access releases
the lock of the cache below, so an invalidation from another core can overtake
it: `CheckForMESIRace` and the re-check of states on the way back are what is
at stake. A store that hits in the filter (`storeHit`) asks no cache. `stale` and
`unmarked` are history variables: lines written and not yet written back to
memory, and those last written through a filter entry whose line the
first-level cache no longer had modified. Victims, and the order in which children are invalidated, are free.
A hierarchy gives every cache and line its parent (banks differ by line), the
first-level caches and their cores, a level that grows towards the memory, the
requests the cores make, and whether first-level caches map pages (`tlb`).

### `TimingEvents`, `CoreRecorders`, `WeavePhase`, `MCWeave`

`TimingEvents` is the event graph `g`: events with parents and children, and
crossings, the pairs of events that join a parent and a child of different
domains. The methods of `timing_event.*` and the enqueue methods of
`contention_sim.cpp` are operators on it; a failing assertion makes `g.ok`
false, or, for the two assertions that do fail, adds its name to `g.failed`,
and the simulation ends there. `CoreRecorders` has the two core recorders and the events that an access
leaves in the timing cache and the memory, as operators on the graph and a
core. `WeavePhase` puts them in motion: in the bound phase cores join, run basic
blocks with accesses and leave; `startWeave` and `endWeave` are the two halves
of `simulatePhase`; in between every simulation thread picks a domain, dequeues
an event, simulates it and notifies its children. What an event does to its own
domain is one step. A step ends where threads meet: before a crossing's flag is
set (`notify`), and in the polling of a crossing between reading the flag, the
source domain's clock, the core's slack, and the flag again
(`simulateCrossing`, `readSrcCycle`, `readSlack`, `recheck`). A domain's queue
is a set from which any event of the least cycle is taken, which is what
`PriorityQueue` promises. The layout of a system (cores, domains, threads,
MSHRs, basic blocks) is chosen initially.

### `DDRClock`, `DDRMemory`, `MCDDRMemory`, `EventProofs`

`DDRClock` has the translations between system and memory cycles. `DDRMemory`
is one channel: requests wait in the read or the write queue and in the list of
their bank, overflow requests behind them; `tick` issues the first ready one
and computes its precharge, activation and column commands from the state of
bank, rank and bus; the scheduling event requeues itself or is recycled, and an
earlier one replaces it. `trace` keeps every command for the properties; the
code keeps only a few cycle numbers per bank and a window of activations.

## Runs

| run | instance | distinct states | properties |
|---|---|---|---|
| `dram_cache` | up to 4 pages, one set of 2 ways or 2 direct-mapped sets, tag buffer of 2x2; seven configurations: four schemes, HybridCache with both policies, with a crowded tag buffer and with balancing | 140,172 | `OccupancyExact`, `TLBMatchesCache`, `ChunksMatchCache`, `ReplacementFits`, `StaleMappingsBuffered`, `NewestDataServed` |
| `barrier` | 3 cores, 2 at a time, clean-up every 2 phases | 27,181 | `RejoinFindsItself`, `OneTurnPerPhase`, `WakeupsMatch`, `PhaseComplete`, `WaitersRun` |
| `scheduler` | up to 4 threads, 2 cores, seven workloads (fake leaves, sleeps, pinned threads, more threads than cores, a mix, killed processes, fast-forwarding) | 1,359,671 | `QueuesMatch`, `WorkConserving`, `BarrierMatches`, `HandoffsPrompt`, `SleepersOnTime` |
| `scheduler_live` | 3 threads, 1 core, one that sleeps; or 2 threads, one that may be killed | 29,492 | `WaitersRun`, `SleepersWake` |
| `coherence` | 2 cores, 2 lines, four trees: data and instruction caches below a shared cache of one line, a private second level on one side only, two banks of a shared cache (without and with a TLB), a first-level cache of two lines whose core only stores | 857,340 | `SingleWriter`, `DirectoryExact`, `DirtyKept`, `AssertsHold`, `NoCircularWait` |
| `weave` | in-order and out-of-order cores, timing cache and memory in 1 to 3 domains on 1 to 3 threads, with clean and dirty victims, 2 phases | 268,294 | `GraphSound`, `AssertsHold`, `OnTime`, `MSHRsExact`, `PhaseEnds` |
| `locks` | 4 threads, one lock | 491,168 | `NoLostWakeup`, `ImplementsLock`, `LockTaken` |
| `prio_queue` | 3 events, ring of 4 blocks of 2 cycles, 17 cycles | 146,688 | `FirstCycleExact`, `ImplementsQueue` |
| `futex_match` | 3 threads, calls that wake 1 or 2, one lost thread | 231,766 | `MatchExact`, `WakersReturn` |
| `ddr_memory` | 2 ranks of 2 banks, up to 5 requests, memory at 2/5 of the system clock | 976,620 | `SchedulerAwake`, `NeverLate`, `CommandsLegal`, `FRFCFS`, `Drains` |

Two runs end in a violation, each of one statement the code makes about itself:

| run | statement | what happens |
|---|---|---|
| `alloy_balance` | "All dirty data between _ds_index and _ds_index + delta_index should be written back to external dram." (`mc.cpp:730`) | the request sent is a GETS, a read; the way is then invalidated and the newest value is nowhere |
| `scheduler_watchdog` | `assert(th->state == BLOCKED \|\| th->state == STARTED)` in `join` (`scheduler.h:313`) | the watchdog ends a fake leave and releases `schedLock` before it calls `leave`; a system call that returns in between joins a thread that is still RUNNING |

The other runs leave these two out: `NewestDataServed` is stated for
configurations without balancing, and with `WatchdogRaces` FALSE no system call
returns between the watchdog's two steps.

Three properties name the cases in which they do not hold; TLC reaches each of
them in the same run:

* `AssertsHold` of `weave`: `state == DRAINING` (`ooo_core_recorder.cpp:348`)
  may fail only if a thread with several domains simulates an out-of-order core
  (`TapersAtLimit`), and `visitedChildren == numChildren` (`timing_event.h`)
  only if a miss evicts a dirty line and the memory is in a third domain
  (`DirtyVictimsCross`). `PhaseEnds` is about phases in which neither fails.
* `DirtyKept` of `coherence` leaves out lines last written through a filter
  entry that had outlived the line in its cache (`unmarked`). With a TLB
  invalidations never find the entry. Without one the lock under which `replace`
  fills the filter may be released by another thread; `DirtyKept` also says that
  whoever still has the lock still has the line.
* `OnTime` of `weave` allows a crossing that is chained to another one the
  lateness of that one. Memories of that run answer no earlier than estimated,
  which `ddr_mem.cpp` does not guarantee (see the last observation).

**Bounds.** Three cores, of which two may run, are the fewest with a core that
runs, one that waits for its turn and one that has had it. Four threads on two
cores give each core a runner and the queue more than one waiter; the sleepers'
phases distinguish now, next and later. A DRAM cache with one page more than it
has ways has to replace pages all the time, and three pages in one set of the
two-way tag buffer make remappings compete for room. In the cache trees two
lines conflict in caches of one line, so accesses evict; a third level makes an
invalidation meet an access half-way. A first-level cache of two lines lets a
store hit while the other line is being invalidated, which is what it takes to
lose the filter's lock. The ring of the event queue turns more than four times. The DDR instance has more
banks than the activation window has entries, and a rank to change to. Counters
that grow without bound in the code are bounded in the guards: `MaxCycle`,
`MaxPhases`, `MaxSleep`, `MaxLost`; a workload of `ddr_memory` is finite, which
is why that run may stop (`CHECK_DEADLOCK FALSE`); all others are checked for
deadlock. No symmetry sets are used, because most runs check liveness and the
others have few interchangeable values.

**Mutants.** For each property of a passing run `PROJECT.json` names a mutated
definition, written before the original in the same module, under which TLC
finds the property violated: a dropped guard, a missing reset, a stale index, a
swapped order.

## Fairness

* `Barrier`: weak fairness of the waker's and the waiter's own steps, because
  the host schedules every runnable thread; strong fairness of `sync`, because a
  core that runs comes to the end of its phase even if it leaves and rejoins.
  `join` and `leave` are never forced.
* `Scheduler`: weak fairness of what a thread does by itself, strong fairness of
  its `sync` for the same reason, strong fairness of the watchdog's `takeOut`
  and `driveTime`, since it looks for stalls and sleepers in every turn of its
  loop, weak fairness of its second half. System calls need not return.
* `FutexLock`, `FutexMatch`: weak fairness of a thread's own steps. Nobody has
  to call `lock` or `unlock`, signals need not come, sleepers need not be woken.
  `WakersReturn` also supposes that new wake calls end, because `futexWakeJoin`
  starts over whenever another waker was faster.
* `WeavePhase`: weak fairness of every simulation thread and of the end of the
  phase, written out with the condition under which one is enabled.
* `DDRMemory`: events that are queued run; no request and no refresh is forced.

## Proofs

What TLC checks for one instance, the following modules prove for every value of
the constants. Each proves an inductive invariant by one lemma per action and
derives the properties from it.

**`DramCacheProofs`, tag buffer** (any number of sets and ways, any hash). `TBInv` says that
tags are unique, hashed to their set, and the counter counts remap entries; the
stamps of replaceable entries are distinct and bounded by their number, which is
what makes the victim unique. From it: `TagsUnique`, `OccupancyIsExact`,
`StampsDistinct`, `PairAlwaysFits` (`canInsert(tag1, tag2)` keeps its promise
also when both pages hash to one set) and `RemapsAreSticky`. These are stated of
the buffer alone; the controller's calls are a subset.

**`DramCacheProofs`, cache** (any cache, tag buffer and page set, every scheme and
policy, configurations without bandwidth balancing). `CacheInv` joins what the
code keeps in four places: a page's TLB entry names the way that holds it and no
other way does; the policy's counters name the same pages way by way; a mapping
the page tables do not know is a remap entry of the tag buffer; and the memory
that would serve a line has its newest value, a clean way only duplicating
external DRAM. None is inductive without the others: serving the newest value
depends on the TLB being right, which depends on the replacement having found
room for two remappings. The theorems `NewestIsServed`,
`StaleMappingsAreBuffered`, `ReplacementsAlwaysFit`, `CountersFollowCache` and
`OccupancyStaysExact` follow. With balancing the first fails, as
`alloy_balance` shows. `TLBMatchesCache` of the run also covers configurations
with balancing and is model-checked; its content without balancing is part of
`CacheInv`.

**`BarrierProofs`** (any finite set of cores, any `parallelThreads` of at least
one, any clean-up period of at least two). `ObjectInv` describes the barrier
object: run list without repetitions, counters equal to the number of cores in
each state, the cores behind `curThreadIdx` not waiting, as many running as
allowed while one waits. `Placed(t)` ties a thread's place in the futex
protocol to the state of its core, its futex word and the wakers still on their
way. Neither half is inductive alone: a core is only woken because it was
counted, and only counted once because it was asleep or running.

**`FutexLockProofs`** (any set of threads). The word is 0 only if nobody owns the
lock; a sleeper implies the word 2, a wake-up under way, or a thread that is
about to take the lock and write 2. `FutexLockImplementsLock` is the refinement
of `AtomicLock`.

**`EventProofs`, queue** (any ring, any cycles, any events). `Shape` says where an
event with a given cycle is kept and that the occupancy masks are exact,
`Counted` that `elems` is the number of events; the map's events lie
beyond the ring. `PrioQueueImplementsQueue` is the refinement of
`PriorityQueue`; the weave module builds on it when it keeps a domain's queue as
a set.

**`FutexMatchProofs`** (any finite set of threads, any sizes of calls).
`Balanced` is the bookkeeping equation: the allowance is the sum over the calls
in flight of what each may wake or has woken. `MatchingIsExact` and
`WakeJoinAssertionsHold` follow.

**`CoherenceCalls`, `CoherenceAccess`, `CoherenceProofs`** (trees of caches of
any shape and size, any lines, any threads). `CoherenceCalls` states the
invariant and proves what making a call and returning from one keep,
`CoherenceAccess` has the steps of an access, `CoherenceProofs` those of an
invalidation and the theorems. `HierarchiesAssumption` says what a tree is: a cache's level is below
its parent's, first-level caches are nobody's parent and belong to one core
each, and of the caches asked for a line only one asks the memory.
`CoherenceInv` has these parts:

* `Types`, and `Distinct`: no cache holds a line twice.
* `CallsOK`, for every call on every thread's stack: the locks it holds
  (`LocksOK`), who made it (`ShapeOK`: an access comes from the core or from an
  access of a child that waits for it, an invalidation from an eviction, an
  upgrade, a downgrade or an invalidation of the parent), and what it still
  knows (`KnowsOK`): the states of its own cache and of the child's line that it
  read before it gave up a lock, weakened by what may overtake it. The race
  check of `CheckForMESIRace` is the difference between the two.
* `Ordered`: within a stack accesses climb the tree and invalidations descend,
  so a thread never meets itself in a cache.
* `SlotsOK`: inclusion within a cache's own slot, and exclusive entries only for
  lines the cache itself may write.
* `Directory`: for every child and line the parent's entry lists exactly what
  the child holds, except in three windows: an upgrade that has taken the child
  off the list and not yet put it back, and an invalidation or a downgrade the
  child has done and the parent not yet noted. Each window is tied to a call
  that is in it.

The properties hold in the middle of any transaction, so the windows are needed:
`OneWriter` (of the children of one parent, a cache that may write a line is the
only one that has it) reads it off the parent's entry, which says so also in a
window; `DirectoriesAreExact` holds because a window implies that the parent is
locked; the assertions hold because of what `KnowsOK` keeps. `CoherenceInvariance` is the induction, one lemma per action;
`OneWriter`, `DirectoriesAreExact` and `AssertionsHold` (the assertions of
`coherence_ctrls.*` and `cache.cpp`) follow from it.

**`EventProofs`, clock** (all frequencies the constructor accepts). `MatchingCycle`
is the round trip from memory to system cycles and back, of which the code says
only that it can be proved; `TickOnTime` is the consequence for `tick`'s first
assertion.

Assumptions are named next to the constants they are about and evaluated by TLC
in every run.

Only model-checked: the liveness properties (out of the prover's reach); the
invariants of `Scheduler`, `TimingEvents`/`WeavePhase` and `DDRMemory`, whose
sequences and graphs are handled with recursive operators or folds; `DirtyKept`
and `NoCircularWait` of `Coherence`; everything with bandwidth balancing.

## Not modelled

* Data that no property distinguishes: latencies, statistics, traffic, the
  values of lines, the time arithmetic of system calls, the instruction-level
  timing of the cores.
* Processes with several threads that are killed. A sibling waiting for a
  promised core, or in the barrier, breaks the assertions of `finish`.
* Non-inclusive caches, prefetches, `PUTX_KEEPEXCL`, zcaches and skewed arrays.
* Replacement policies and partitioning: every victim is possible instead.
* Fork, exec, synchronised fast-forwarding, magic operations, the process tree
  and the harness: behaviour of the host's processes.
* The detailed DRAM model and the other memories: alternatives with the role of
  the DDR controller, or latency formulas.
* The event queue of the end of a phase, prefetcher, network, decoder, traces,
  logging, configuration, shared heap: sequential support code.

## Observations

Met while modelling; outside what the runs state, or excluded by an assumption
or an exception that the module names.

* `filter_cache.h:139`: without a TLB, `replace` does not take `filterLock`, but
  its access unlocks it, perhaps for an invalidation that holds it; that one's
  own unlock then releases the lock of `replace`, which may fill the filter with
  a line it no longer has. The `coherence` run reaches this (`unmarked`).
* `filter_cache.h:180`: with a TLB the filter compares virtual with physical
  line numbers and keeps its entry when the line is invalidated.
* `mc.cpp:51` with `mc.cpp:551` and `614`: with pages of 2 MB the bit of a line,
  `address - tag * 64`, passes 63 and the assertions fail.
* `timing_event.h:249`: a crossing that answers a request is added to the
  children being visited; as a fourth child it opens a block the visit has
  passed, and `assert(visitedChildren == numChildren)` fails. The `weave` run
  reaches this.
* `scheduler.cpp:346`: a thread that comes after its waker's wait timed out
  counts against a later call, and the assertion can fail.
* `virt/timeout.cpp:214` with `scheduler.cpp:343`: a failed wake call leaves its
  allowance behind.
* `locks.h:218`: "No false positives" does not hold of `futex_haswaiters`; the
  word stays 2 after the last waiter timed out.
* `zsim.cpp:919`: a second system call without a join in between meets the
  assertion at `scheduler.h:299`.
* `contention_sim.cpp:372`: the taper at the last cycle meets the assertion at
  `ooo_core_recorder.cpp:348`. The `weave` run reaches this.
* `ddr_mem.cpp`: `moveOverflow` discards the result of `findMinCmdCycle`, which
  only wakes the scheduler early; an activation older than the whole window is
  put in the wrong place, which is only pessimistic; tRRD is applied within a
  bank only; with deferred writes the next tick may be late; one overflow
  request is moved per tick; `lastCmdWasWrite` is read before it is written
  (both values are initial states).
* `ddr_mem.cpp:270` with `core_recorder.cpp:193`: two latencies rounded one by
  one in the bound phase, their sum in the weave phase: the skew can be negative.
