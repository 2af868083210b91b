# A TLA+ model of TokenSim's KV cache and serving cluster

TokenSim simulates an LLM serving cluster whose KV cache spans GPU memory, a
DRAM or PCM tier and a flash tier. Its results are counts and times: blocks
reused, evicted, demoted, written, requests served. They are right only if the
cache never loses, duplicates or confuses a block, if schedulers, workers and
engine finish what they were given, and if the counters agree with what they
count. This directory models the parts that decide it, checks them with TLC and
proves the block layer, the block pool, the schedulers, the connectors, the tiered
store and its counters, the cluster's queues, the layout of a model over the workers
and the reported times with TLAPS.

Paths below are relative to `src/TokenSim/TokenSim/` unless they start with `src/`.

## 1. Inventory

| Part | State | Operations | What is hard | What makes it correct | Modelled in |
|---|---|---|---|---|---|
| GPU block layer: `block/block_manager.py`, `kv_cache_manager.py`, `block_pool.py`, `prefix_cache.py` | blocks (ref count, key, cached, last access), block table, index key → block, reservations | can_allocate, allocate, can_append_slot, append_slot, commit_input_cache, free, release_request_blocks, reserve, release_reserved | sharing, keys attached before they are committed, two requests computing the same prefix, eviction during an admission, rollback of a reservation | no leak, no double use, index entries never stale, admission never runs out | KVBlocks |
| Free queue: `block/free_queue.py` | deque, heap, map of valid entries | append, append_lru, popleft, remove | lazily deleted entries | pops exactly the free blocks, uncached first, then least recently used | FreeQueue, FreeList |
| Paged scheduler: `llm/llm_scheduler.py` | waiting, running | schedule, update, finish_recompute, free, _preempt | preemption by recompute, order of the queues, one phase per batch | nobody lost or run twice, arrival order, progress | PagedScheduler |
| Static and dynamic scheduler: same file | waiting, running | schedule, update | batch bound hit only when the sum is exact | nobody lost, batches finish | BatchScheduler |
| Worker: `llm/llm_engine.py` (LLMWorker) | mailbox, status, pending connector metadata | ADD, STEP, STOP | mailbox is a heap; worker sends STEPs to itself; exception stops it | never asleep with work left | PagedScheduler, Cluster |
| Engine: `llm/llm_engine.py` (LLMEngine), `placement/policies.py` | mailbox, worker pools | ADD, STOP, dispatch_prefill_to_decode | handing requests over between workers while these step | each request in one place, in its group, served | Cluster, WorkerPools, RequestFlow |
| Request: `llm/llm_request.py` | status, generated tokens, flags, times | step, prepare_recompute, finish_recompute | flags and times across preemption | status agrees with the queues, times add up | KVBlocks, PagedScheduler, StepTiming |
| Tiered store: `mooncake/store.py` | objects, memory LRU and byte counter (whole or per rank) | lookup, get, put | eviction cascades between two tiers, policies that combine | no dangling or orphan entry, capacities hold, loss only under pressure | TieredStore |
| Offload tier: `mooncake/ssd.py` | blocks, LRU, used count | contains, read, write | a rewrite of a block it has | capacity | TieredStore |
| Store statistics: `mooncake/metrics.py`, `store.py` | counters, marks per key | changed on every path of put, get, lookup | one path too few | identities between the counters | StoreLedger |
| Store connector: `kv_transfer/connectors/mooncake_store.py` | pending loads, asynchronous puts, delayed releases, saved requests | lookup at admission, load and save plans, eviction hook, delayed free | lookup and load are steps apart, saves finish later, eviction inside an allocation | loads what it matched, every delayed block is released | StoreConnector |
| Other connectors: `kv_transfer/connectors/`, `mooncake/service.py`, `pool_key.py` | bound metadata, services | own plans, start_load_kv, wait_for_save, MultiConnector | siblings see each other's plans; who shares a store | each plan counted once, saved blocks found | Connectors |
| Layout: `config/parallel_config.py`, `moe/placement.py`, `parallel.py` | none | ranks, stages, experts | uneven divisions | everything has one owner | ExpertPlacement |
| Expert routing: `moe/routing.py`, `moe/stats.py`, `latency/roofline.py` | memos, counters | route, record | memo per request, rounding | routes add up, traced histograms are used | ExpertRouting |
| Measurements: `llm_request.py`, `llm_engine.py`, `src/TokenSim/util/results.py` | aggregates per request and worker | step, sample, flush | preemption between two events | the parts add up to the whole | StepTiming |
| Workload: `workload/loaders.py`, `src/TokenSim/util/request.py` | request list, clock of the source | load, jitter, scale, replay | bursts, order, rows without a time | bursts stay together, requests arrive on time | Workload |
| Latency formulas, transfer engine, parsing and validation, result formats | tables | formulas | floating point | out of reach of a model checker | — |

Interaction: `LLMSource` (`src/TokenSim/util/request.py`) sends ADD messages to
the engine, which routes them to a worker's mailbox. A worker is one simpy
process: it takes a message, and while it has work and no message it sends
itself a STEP. A STEP calls the scheduler, which calls the block manager and the
connector's hooks; the connector calls the store. Everything inside a STEP is
atomic except for the latencies the worker waits for (load, batch, save), in
which other processes put messages into its mailbox. A prefill worker that ends
a step hands what still runs to decode workers, with a plan of the KV transfer
in the ADD.

The hazards, each at the line where it bites, are listed in `PROJECT.json`.

## 2. Modules

| Module | Models | Composed with |
|---|---|---|
| `KVBlocks` | the GPU block layer, one action per BlockManager operation | |
| `Listings` | what `sorted()` returns for a set of numbers, and filtering a list | |
| `SequenceFacts` | no part of the program: lemmas about sequences and induction on numbers that the proofs share | extends Listings |
| `KVBlocksProofs` | its inductive invariant; what its steps never do | extends KVBlocks |
| `PagedScheduler` | worker loop and paged scheduler | extends KVBlocks and calls its operations |
| `PagedSchedulerProofs` | that it implements KVBlocks; its queues, batches, preemptions and order | extends PagedScheduler, KVBlocksProofs |
| `BatchScheduler` | the static and the dynamic scheduler | |
| `TieredStore` | store and offload tier, all policies | |
| `StoreLedger` | the store's counters | extends TieredStore |
| `TieredStoreProofs` | the store's inductive invariant; when a key may leave; that the counters agree with each other | extends StoreLedger |
| `FreeList`, `FreeQueue` | what the block pool promises; its lazily deleted entries | FreeQueue implements FreeList |
| `StoreConnector` | connector hooks in the scheduler's steps | extends PagedScheduler, instantiates TieredStore |
| `StoreConnectorProofs` | that it implements KVBlocks; the blocks of a put in flight | extends StoreConnector, PagedSchedulerProofs |
| `Connectors` | which connector counts a plan, who shares a store | |
| `ComponentProofs` | the block pool's inductive invariant and refinement; that the plain schedulers lose nobody; that connectors keep their plans apart and share what they save; that each rank, expert and layer has one place | extends FreeQueue, BatchScheduler, Connectors, ExpertPlacement |
| `WorkerPools` | how a worker is chosen | |
| `Cluster` | source, engine, workers of all roles | instantiates WorkerPools, implements RequestFlow |
| `ClusterProofs` | its inductive invariant: one place per request, nobody asleep with work; that it implements RequestFlow; its data-parallel groups | extends Cluster |
| `RequestFlow` | what the cluster promises for each request | |
| `ExpertPlacement` | ranks, stages, experts of each worker | |
| `ExpertRouting` | the routed load of each step | instantiates ExpertPlacement |
| `StepTiming` | times of requests, load integral of a worker | |
| `Workload` | loaders, jitter, replay | |
| `TimesProofs` | that the times of StepTiming add up; what Workload keeps of a dataset's times | extends StepTiming, Workload |
| `MC...` | the instances for TLC | |

### KVBlocks

Blocks are numbers. `ref`, `hash`, `cached`, `stamp` are the fields of
`PhysicalTokenBlock` (`is_full` is always set and cleared together with `cached`
once a key is committed). `held` is the block table, with `_reserved_gpu_blocks`
as one more row; `index` is `KVCacheManager._cache`. The free queue is abstract:
`fifo` holds the free blocks without cache entry, never-used block numbers
first, and `lru` is the set of the free cached ones, popped by `stamp`
(`IsPopOrder`). `Keys` are model values; a prefix key hashes its parent's, and
`KeyChainAssumption` is all the model keeps of that.

`Take` is acquire plus allocate, used by admission, slots and reservation;
`FreeFirst` is the release of a row's first blocks, used by release, finish and
release of reservations. Operations with a partial failure have one action per
outcome (`ReserveBlocks`, `ReserveFails`). The guards that are the callers' duty
(a row must exist, a token needs a slot) are conjuncts; `PagedScheduler` has the
callers. `MaxAccess` bounds the access counter.

### PagedScheduler

It extends `KVBlocks`, and every action contains at most one of its operations.
`schedule()` and `update()` are loops: each iteration is an action, and `pc` says
which loop runs. Nothing else touches the worker's state meanwhile, so this adds
no interleaving; it keeps the actions as small as the code's own steps. Messages
arrive when `pc` is "mailbox", and at the start of the loops that follow the
batch latency, which is when the simulated time passes. (A message that arrives
during the rest of a step would be the same message at its end.)

The mailbox is `simpy.PriorityStore`, a heap whose messages compare by task
only. `HeapRest` is `heapq.heappop` for messages that all compare equal: three or
fewer come out in order, four do not. A worker that waits in `get()` takes an ADD
directly (`Deliver`), any other ADD joins the heap (`Send`, `Receive`). The
worker sends itself a STEP only when the heap is empty and takes it at once, so
a STEP never waits in the heap. `MaxMail` bounds the number of ADDs that pile up.

The connector is the default no-op one, whose hooks change nothing. The
request's `arrival_at` is `Arrival`; the used-block threshold that
`max_occupy_ratio` implies is `MaxOccupied`. Requests satisfy
`validate_request_capacity` (`CapacityAssumption`), as the engine checks at start.

### TieredStore

One object is one block, as the connectors store it, so capacities count blocks.
A put or get of a list of keys is a sequence of the actions. The policies are one
variable, chosen at the start and never changed, so a run covers all of them.
A put cascades: it may evict from memory, which may write to the offload tier,
which may evict there; the admission then may write through. The steps are
operators on the store's contents as a record (`EvictMemory`, `OffloadWrite`,
`AdmitMemory`, `Bypass`) and the put is one action, as in the code, where nothing
can come between. `Parts` are the partitions: one for a global store, one per
rank under `per_rank`. `admission_policy = never` turns put into a no-op and is
not a separate behaviour; the partition mode "count" only adds statistics.

### FreeQueue

`KVBlocks` sees the pool as a queue of uncached and a set of cached free blocks.
`FreeList` states that view for single blocks and `FreeQueue` has what implements
it: the counter of never-used blocks, and a deque and a heap of entries that are
only marked invalid when their block is taken back. Entries are numbers in the
order they are made, so an entry also stands for the sequence number it gets in
the heap. The heap is a set, of which a pop takes the least pair of access and
entry, as `heapq` does. The actions are the uses the allocator and the cache
manager make of the queue: only a cached block is taken back, so it is in the
heap that stale entries of a block meet newer ones of the same block. Reference
counts are left out: a block is out or free. `FreeList` is instantiated with the
fresh numbers followed by the valid entries of the deque, and with the
last_accessed of the blocks that have a valid entry in the heap.
`set_num_free_blocks` has no caller.

### StoreLedger

It extends `TieredStore` with the counters of `MooncakeStats` (in blocks) and the
marks they need: which offload copy nobody has read, why a key left, whether the
memory tier served it. Each action is one of the store together with the changes
of its counters, computed from the state before the call, as the code's
increments are. `MaxCalls` bounds the run, since counters only grow.

### BatchScheduler

`LLMStaticScheduler` and `LLMDynamicScheduler` pop from the end of their lists
until the prompt lengths sum to exactly `max_parallem_sum`; `Taken` is that loop.
The worker's loop around them is reduced to `Add` and `Step`, without a mailbox,
which `PagedScheduler` has.

### StoreConnector

A hybrid worker with the store connector, alone or below a MultiConnector. It
extends `PagedScheduler`; each of its actions is one of the scheduler conjoined
with what the connector's hooks do in it (`SAdmit` is `Admit` with the lookup and
the eviction hook, `SEndSlots` has build_connector_meta and start_load_kv, and so
on), and two phases are added at the end of a step, "save" and "feedback". The
store is a record on which `TieredStore`'s operators are folded key by key. The
configuration is one variable, chosen at the start.

### Cluster, WorkerPools, RequestFlow

`Cluster` has one action per message handled: an arrival, the engine's ADD and
STOP, a worker's ADD and STOP, and a STEP in two parts, since the engine and the
other workers run during its latencies. Messages of one task come in any order
(the heap compares by task only), an ADD before a STOP. Blocks are never short
here, so nothing is preempted; `PagedScheduler` has that. `FailStep` is the
hand-over that raises. `WorkerPools` is the choice of a worker as operators on a
pool record: round robin, least memory, balanced load, with or without
data-parallel groups. How many of its GPU blocks a worker uses is not modelled
here, so `Loads` leaves the memory a pool sees open: any member of a group may be
the least loaded one, and the parts of one hand-over see the same loads. The
requests a balanced pool counts are modelled. `RequestFlow` states what a client may expect: a request is
in one place, gets its first token from a worker that prefills, the rest from one
that decodes, and exactly as many as it asked for. `Flow` is the refinement
mapping; `Place` reads the place of a request off the queues and lists.

### Connectors

The connectors of each worker and the services behind them, on one level above
blocks: a prompt is one chunk. A step looks a chunk up and plans a load or a
save, a hand-over plans a transfer; `Owns` is `_own_plans`, `Service` and `Key`
are what the factory and `pool_key.py` make of a worker.

### ExpertPlacement, ExpertRouting

`ExpertPlacement` translates the computations of ranks, stages, experts and peers
as operators on a configuration record (`Effective` joins the parallel
configuration and the model); its actions are the overrides of the command line. `ExpertRouting` runs steps of requests over a layout, with the
histograms a trace provides, the synthetic ones, the memos of both and the
counters of `moe/stats.py`. `asked` is a history variable: the histograms the
documentation promises to each step.

### StepTiming, Workload

`StepTiming` has discrete time. A step has the phases of `LLMWorker.run`, and how
many requests are admitted or preempted is chosen, so any schedule is covered.
`truth` is a history variable, the real integral of the number of running
requests. `Workload` goes from the rows of a dataset to the arrivals: repetition
and ids, jitter per request or per burst, scaling, the order of the replay and the
source's waits. A behaviour has one of the configurations in `Configs`; `original`
is a history variable, the times as the loader made them.

### The MC modules

`MCKVBlocks` is a plain instance. The others put machines
that share no state side by side in one run: a variable (`scheduler`, `counting`,
`short`, `setup`, `study`) is chosen at the start and says which of them runs;
the variables of the rest keep one initial state. So a run's state space is the
sum of those of its machines, never their product, and a property about one
machine is conditional on the choice. Fairness is stated per machine.

Definitions named as a faulty variant are used by no module: each is a plausible
mistake in the definition that follows it, kept to show that the property it
breaks is able to fail.

## 3. Runs

| Run | Instance and bounds | Shows |
|---|---|---|
| `blocks` (`MCKVBlocks.cfg`) | 4 blocks of 2 tokens, no watermark, requests with keys ab, abc, ax, access counter up to 3 at an admission | TypeOK, RefCounts, FreeQueueExact, CacheSound, AdmissionFits, HitsSurviveAdmission, InUseKeyStays, EvictsOldestUnderPressure |
| `blocks_hook`, `blocks_decode` | the same | two comments about the eviction hook are violated, see 4 |
| `scheduler` (`MCPagedScheduler.cfg`) | paged: 5 blocks of 2 tokens, watermark 1, 3 running at most, admission stops at 4 used blocks, 5 requests, up to 4 ADDs in the mailbox. Static and dynamic: 6 requests, sum bound 3 | SchedTypeOK, NobodyLost, BatchesReady, FcfsUnlessCrowded, OldestAdvances, EveryoneFinishes |
| `store` (`MCTieredStore.cfg`) | both tiers of 2 blocks per partition, 5 keys in one and 1 in the other; without counters all 64 policies and any number of calls, with counters 6 calls on the 5 keys; symmetric in two keys | TiersExact, NoDangling, OnlyReadBlocksWritten, LeavesUnderPressure, CountersAgree, ContentsCounted |
| `components` (`MCComponents.cfg`) | pool: 3 blocks, 5 accesses, 5 entries. Static and dynamic scheduler: 6 requests, sum bound 3. Connectors: two workers, 6 plans, five configurations | PoolExact, ImplementsFreeList, PlainBatchesSound, PlansKeptApart, SavedIsFound |
| `connector` (`MCStoreConnector.cfg`) | 4 blocks of 2 tokens, 4 requests with common prefixes; a memory tier of 2 blocks; over an unlimited offload tier with all save, spill and lookup policies, alone with those that do not spill, alone with asynchronous transfers | MatchesSound, PrefillIsSaved, PinnedWhileSaved, SpillsExact, EveryRequestFinishes |
| `connector_dropped` (`MCStoreDropped.cfg`) | asynchronous saves, requests that decode | RunningIsScheduled is violated, see 4 |
| `cluster` (`MCCluster.cfg`) | 4 requests; a prefill, a decode, a hybrid and a decode worker: one group, round robin; two data-parallel groups, least memory, a burst; one group, balanced load, a burst (safety only); hand-overs that raise | RequestsKept, NoSleepWithWork, GroupsHold, FlowsAsPromised, StopReachesAll |
| `cluster_kv` (`MCClusterKv.cfg`) | two prefill workers, one decode worker | TransferredKvIsLoaded is violated, see 4 |
| `experts` (`MCExperts.cfg`) | every layout with up to 3 tensor, pipeline and data ranks of 60 small models; routing of 3 requests on one rank and on four | PlacedOnce, RoutesExact |
| `times` (`MCTimes.cfg`) | 2 requests of 2 and 3 tokens up to time 8, one preemption each; files of 3 rows, repeated up to 4, in four configurations: jitter per burst, jitter per request, none with times before the start, and the arrival distribution "burst" | TimesAddUp, JitterSound, ArrivesOnTime |

Several of these are conjunctions of parts that are about one thing (TiersExact,
CacheSound, NobodyLost, PlacedOnce and others); each part has a mutant of its own.

Why the bounds suffice. In `blocks` two requests do not fit together without
sharing, so hits, duplicates of the same prefix, eviction of both ends of a
chain, a partial block, output blocks that become another request's prompt, and
failed reservations all occur; three accesses at the last admission leave room
for two generations of reuse and eviction. In `scheduler` the paged requests fit
one by one but not together, so that slots run out, requests are preempted, also
one after another, and recomputed; two requests arrive at the same time, and the
fifth makes a burst of four possible behind one that runs; the prompts of the
other schedulers reach the bound exactly in some orders and jump over it in
others. In `store` the first partition has one key more than both tiers hold,
which is what a cascade needs; the second shows that partitions do not touch each
other; six calls let a key be written, demoted, pushed out and admitted again, or
read back more than once; no chain of requests tells the two last keys of the
first partition apart. In `components` a block is released, taken back, released again
and popped with another cached block between its two entries; the connectors'
configurations are a direct transfer with a store beside it, waited for or
overlapped, each of the two alone, and a store alone in two data-parallel groups,
and six plans let a hand-over meet the loads and saves of both workers. In `connector` the
GPU holds fewer blocks than two requests need, so every admission after the first
may spill, while the store of two blocks loses keys between lookup and load. In `cluster` the decode pool has three workers and batches of one or two
requests are cut into parts of one request (`cluster_kv` and the theorems have
larger parts); with two groups, one of which has two workers that decode, both
the rotation over groups and the choice within one are visible; four
requests are twice `MaxRunning`. The layouts include every way in which
experts and layers leave a remainder, and more stages than layers with experts.
The times let a request be preempted before, between and after decodes while the
other one arrives at any moment.

`CHECK_DEADLOCK FALSE`: the block layer, the pool, the connectors, the counters
and the studies of time stop at their bounds, schedulers and cluster when every
request is finished or the engine has stopped, and a store without requests is at
rest.

Fairness. simpy always runs the next scheduled event, so a process whose event is
due is never passed over for ever. `PagedScheduler` and `StoreConnector` assume
weak fairness of the worker's own step, `BatchScheduler` of `Step`: arrivals are
not fair there, and a request that was sent is finished in every behaviour.
`Cluster` assumes weak fairness of the source, of the engine and of each worker:
each is a simpy process of its own that waits for a message or a timeout only.
Its setup under balanced load is checked for safety alone and has no fairness.

## 4. Where code and documents differ

Four runs expect a violation.

* `block/kv_cache_manager.py:48` describes the eviction hook as firing just
  before an entry leaves the prefix cache. It fires before a cached block is
  reused. If a second request computed the same prefix, the block's key belongs
  to the newer block and stays resident. Under `hbm_evict_save_policy` this
  counts, and may store, a key that HBM still serves.
* `kv_transfer/connectors/mooncake_store.py:218` says decode blocks are never
  cached. `register_output_blocks` caches the full output blocks of requests
  that declare output hash ids.
* `src/TokenSim/docs/parallelism.md:15` says a hybrid worker accepts prefill and
  decode. With asynchronous saves, `update_connector_output`
  (`llm/llm_scheduler.py:318`) drops a request from running when its prefill save
  is done, and nobody schedules the rest of its tokens.
* `src/TokenSim/docs/parallelism.md:17` says a decode worker consumes transferred
  KV. If two hand-overs reach it before its next step, the metadata of the second
  replaces that of the first (`llm/llm_engine.py:370`), whose load never happens.

First come first served does not hold once more than three ADDs pile up during
one step: the heap returns four as first, third, second, fourth. No document
promises the order; FcfsUnlessCrowded has the condition, everything else is
checked with the reordering.

The following was seen while modelling. The models follow the code, and no run is
about it.

* `kv_transfer/connectors/mooncake_store.py:379`: what a request has saved is
  remembered only under the aligned policy, so "once" saves in every step
  (`mooncake/config.py:126`).
* `mooncake_store.py:347` takes the maximum of GPU and store hits, where
  `src/TokenSim/docs/prefix-cache.md:115` adds them up.
* `mooncake_store.py:569`: the stock load span reloads blocks that are resident
  (`src/TokenSim/docs/mooncake.md:66`).
* `mooncake_store.py:601` filters against the store before any put, so two
  requests of a batch transfer the same keys.
* `llm/llm_scheduler.py:179`: a MultiConnector does not get the block releaser;
  blocks whose release it delays stay allocated
  (compare `mooncake_store.py:533`). The run uses it with synchronous transfers.
* `llm/llm_scheduler.py:227` looks the store up before it allocates. With
  `on_evict`, the spills of that allocation may push out the keys just matched;
  MatchesSound is limited to policies that do not spill for this reason.
* `mooncake/store.py:362` classifies an eviction as useful or wasted before the
  demoted copy can be read (`mooncake/metrics.py:67`).
* `mooncake/ssd.py:70`: an offload tier of capacity zero raises in the middle of
  a put, after memory has evicted; `StoreAssumption` excludes it.
* `block/free_queue.py:87`: invalid entries stay in the heap until a pop meets
  them; a cache that is hit and never evicts grows it without bound.
* `llm/llm_scheduler.py:205`: a hybrid worker that also receives dispatched
  decodes batches them with prefills.
* `kv_transfer/connectors/base.py:93`: below a MultiConnector a P2P child
  executes the store child's plans too; CountedOnce asks for a sibling that does not
  (`OneDirectChild`).
* `kv_transfer/connectors/mooncake.py:86` records the load wait before overlap is
  applied; ReportedWaitIsWait is about configurations without overlap.
* `kv_transfer/connectors/factory.py:42`: below a MultiConnector each worker gets
  a store of its own, and `mooncake/pool_key.py:67` puts the data-parallel rank
  into the key (`src/TokenSim/docs/prefix-cache.md:75`). SavedIsFound is about
  plain store connectors, group by group.
* `moe/placement.py:24`: with expert parallelism off, replicas hold different
  experts (`src/TokenSim/docs/parallelism.md:76`); PlacedOnce is about
  configurations with it on.
* `config/cache_config.py:148` divides the share of the experts by the tensor
  size twice (`src/TokenSim/docs/moe.md:67`).
* `moe/routing.py:95` memoises a histogram per request, so on a hybrid worker the
  prefill's histogram answers for decode (`moe.md:106`); the run has separate
  workers.
* `latency/roofline.py:243`: a step that routes nothing to its own rank is not
  recorded (`moe.md:124`).
* `llm/llm_engine.py:289`: the load integral counts the idle time after a step
  with the step's requests, so AreaCoversRunning is an inequality.
* `workload/loaders.py:213`: the row number given to a repeated id may collide
  with another row's id.

## 5. Proofs

All statements hold for every value of the constants under the named assumptions
of the modules they are about: `SizesAssumption`, `RequestsAssumption` and
`KeyChainAssumption` for the blocks, with `CapacityAssumption` (what
`validate_request_capacity` checks at start) and `LimitsAssumption` for the
scheduler, `PoolAssumption` for the pool, `BatchAssumption` for the plain schedulers,
`StoreAssumption` for the store, `ConnAssumption` for the store connector and
`ConnectorsAssumption` for the other connectors, `ClusterAssumption` for the cluster,
`TimingAssumption` and `WorkloadAssumption` for the times and `PlacementAssumption`
for the layout. The bounds of the instances (`MaxAccess`, `MaxMail`, `MaxMade`,
`MaxTime`, `MaxPreempt`) are constants too, so the theorems hold for any bound.

`SequenceFacts` has what the proofs share: heads, tails, suffixes,
concatenations and injective sequences, what filtering keeps, and the least
number with a property. The last replaces induction: the induction theorems of
the library take an operator as argument, which the provers cannot instantiate,
but "the first step at which it fails" is a set of numbers like any other.

### Blocks

`KVBlocksProofs` proves `Spec => []IInv` (**BlocksInvariant**), where `IInv` is
TypeOK, RefCounts, FreeQueueExact, IndexSound, SharedOnlyCached and
RowsKeepKeys (the last three are CacheSound). None of them is inductive alone:

* RefCounts needs FreeQueueExact, since a popped block must be in no row when it
  is given count 1; FreeQueueExact needs RefCounts, since a block that is freed
  must not be queued while another row has it.
* IndexSound needs RowsKeepKeys: registration changes the key of a block, and
  only if its row already carries that key does no other entry point at it.
* RowsKeepKeys needs SharedOnlyCached and FreeQueueExact: keys are attached to
  popped blocks, which are in no row, and blocks cleared on release are in no
  other row because they are not cached.

There is one lemma per operation, over two shared ones: `TakeKeeps`, what taking
hits and popped blocks preserves, and `FreeKeeps`, what releasing does. From the
invariant follow **BlocksTyped**, **NoBlockLeaks**, **PrefixCacheSound** and
**AdmissionNeverRunsOut** (AdmissionFits is a consequence of FreeQueueExact, not
an invariant of its own: hits with no reference are distinct members of `lru`).

Three action properties rest on it.
**InUseKeysStay**: what is evicted was popped and has no reference, and a
registration can only rekey a block its own row carries under that key.
**AdmissionKeepsItsHits** (HitsSurviveAdmission): hits are taken out of the heap
before the first pop, and a cached block is popped from the heap only.
**OldestEntryGoesFirst** (EvictsOldestUnderPressure): an entry is lost only when
every uncached block was popped before it, and no entry that stays in the heap
was accessed earlier. It needs one more invariant, `StampsOrdered`: no two cached
blocks have the same last access, and none has one after the clock. Otherwise two
entries could tie, and the heap would decide by the order of insertion.

### Scheduler

`PagedSchedulerProofs` proves SchedTypeOK (**SchedulerTyped**), and with it that
every step of the worker is a step of `KVBlocks` or leaves its variables alone
(**SchedulerImplementsBlocks**, `SchedSpec => Spec`), hence
**SchedulerKeepsBlocks**.

The rest of the module proves `SchedSpec => []SchedInv` (**SchedulerInvariant**).
Beside the types and QueuesAgree it has what the loops of a step know of each
other: `LoopsAgree` (what a loop has still to visit, and what it has put aside,
are the running requests, each once), `DoneIsFreed` and `RowsFit` (how many
blocks a request holds in which state), `PhasesAgree` (which requests a batch may
contain), `SlotsInOrder` (the slot loop goes through the requests by arrival) and
`RestsEmpty`. QueuesAgree alone is not inductive: whether a request that update()
takes off a list is in another list is known from LoopsAgree only. From it follow

* **NobodyIsLost** (NobodyLost). That a worker which rests has every block free
  also needs that a waiting request can always be admitted when nothing runs,
  which is where `CapacityAssumption` comes in;
* **BatchesAreReady** (BatchesReady), with RowsFit for the slot under each token;
* **OldestGoesOn** (OldestAdvances): when the oldest request asks for a slot, every
  younger one may be preempted, which frees all blocks but its own, and its own
  are never more than the capacity check allowed;
* **ArrivalOrderKept** (FcfsUnlessCrowded), over the invariant `ArrivalOrder`:
  mailbox and waiting list are sorted by arrival, and whatever is still to arrive
  comes later. A preempted request is put back at the head, which keeps the list
  sorted because the slot loop takes the youngest first.

### Block pool

`ComponentProofs` proves `PoolSpec => []PoolInv` (**PoolInvariant**): the index has
at most one valid entry per free block (`EntriesExact`), the deque has every
valid entry of an uncached block in the order it was made (`DequeInOrder`), the
heap every one of a cached block (`HeapExact`), and blocks never used are in
neither (`FreshUnused`). **PoolStaysExact** (PoolExact) adds the count.
**PoolImplementsFreeList** (ImplementsFreeList) is the whole refinement, initial
states and steps: a popleft that skips stale entries takes the head of the
abstract list or its least recently accessed block, and an entry that becomes
stale changes nothing. The part that costs most is that the abstract list, which
is the deque without its stale entries, changes by exactly one element
when an entry in its middle becomes stale.

### Schedulers without paged memory

**PlainBatchesAreSound** (PlainBatchesSound, in `ComponentProofs`) holds for every
prompt, length and bound of the sum; requests are numbered as they arrive and
lengths are positive (`BatchAssumption`). The invariant `BatchInv` says who is in which list
and that what waits has no token and what runs has one, which makes a static batch
of one kind: it is taken either all from the running or all from the waiting requests.
The proof does not say where the sum cuts a list, which is a fold over data: wherever
it does, `Taken` splits the list (`TakenSplits`), so nothing is lost or doubled
(`ScheduleMoves`).

### Tiered store

`TieredStoreProofs` treats the contents of the store as one record and proves for
each operator of a put (EvictMemory, OffloadWrite, AdmitMemory, Bypass and the
cascades between them) what it keeps of `Sound`: `MemorySound` (objects of the
memory tier are listed once, counted, and fit), `OffloadSound` (what the offload tier
holds belongs to an object, fits, and was read where the policy filters, `Filtered`),
and every offloaded object has its data. `StoreSpec => []StoreInv` (**StoreInvariant**)
gives **StoreTiersExact**, **NothingDangles** and **WriteFilterHolds**. Within a put an
object may already be on the offload tier while its data is still to be written
there; `ReadyToWrite` is Sound but for that one key, and each lemma starts from the
one or the other. **NothingLeavesWithoutPressure**
(LeavesUnderPressure) is about steps: `Pressed` relates the contents before and
after each operator, and composes along the cascade, given that every copy is
listed (`CopiesTracked`).

### Counters of the store

The rest of `TieredStoreProofs` proves `LedgerSpec => []CountersAgree` (**CountersAlwaysAgree**),
over StoreInv. Two of its parts are not inductive. Why a key left must be known
whenever it is gone (SourcesKnown): `PutEffect` says that whatever a put removes is in
`LostToHbf` or `LostToDrop`, which the ledger computes from the state before the put
while the store changes in up to three steps, and `DeparturesKnown` excludes the
reason "other". And a block that passes the gate must have been served
(GatePassesServed): `MarksServed` says that under `read_credit` "served" each read mark
in the memory tier belongs to a served block, because nothing enters that tier
already read (`MarksKept`).

**ContentsAlwaysCounted** (ContentsCounted) says that the blocks written to a tier less
those evicted from it are the blocks it holds, for memory always and for the offload
tier with write_back. It rests on `CopiesTracked`: with write_back the block that a put
demotes, or sends past memory, has no copy below, so each write adds a key, and
takes the oldest one away exactly when the tier is full (`WriteTakesPlace`). The
counters are computed from the state before the put, the tiers change during it:
`PutMemory` and `PutFlash` say that both make the same of it (`OneWrite`).

### Connector

`StoreConnectorProofs` proves `ConnSpec => Spec` (**ConnectorImplementsBlocks**) for
every configuration in the type of `Configs`: the hooks change the blocks through
the operations of `KVBlocks` only, so what `KVBlocksProofs` says of the block layer
holds under the connector too. A delayed free is a stutter of the block layer and
its release in the feedback is `Release`.

**PutsArePinned** (PinnedWhileSaved) follows from `PinInv`. `InFlight` binds what the
connector keeps between its hooks to the step: a load waits for a request of the
batch, a put is in flight for one of the batch, a delayed request is one with a put
in flight. `PutsPinned` says that what is scheduled has blocks, which a delayed
request keeps because request_finished() skips the release. The property alone is
not inductive: that a put in flight is reported in the same step is known only because the
batch is not empty as long as one exists.

**SpillsAreExact** (SpillsExact) is about the contents of the store. The store is a record
and its operators are those of `TieredStore`, so the module takes `TieredStoreProofs`
as `SP`, with one partition, and cites what it says of one put, one lookup and one
read. `PutsOf(s, t, K)` is what a put does that composes: no key but those of K enters,
and, if nothing is lost, those of K are there afterwards and no other left. The folds
over keys and plans are chains of states again. The invariant is `SpillInv`: the
block layer's, the types, a sound store, and no save plan under spill_only. Each step
then spills what it pops, writes the step's plans, or neither (`Spilling`,
`WritingSaves`, `Reading`), and a key that HBM loses belongs to a block that
is popped (`HookGetsEvicted`, from IndexSound).

**PrefillAlwaysSaved** (PrefillIsSaved) says that a prompt block which prefill
computed is in a store that loses nothing. The property speaks of the time between two
steps; the invariant `SavedInv` says when the save is decided. A request is `Offered`
when each of its keys is stored or in a plan that the step under way will write, or
when it loaded from the store, which excuses it. Who has a token, or is in `savedIds`,
is offered; so is whoever runs, unless the admission is still going on. The plans
belong to the batch, so they exist only while the step that writes them runs
(`PlansLast`), and a request that is recomputed, whose save is skipped because it is in
`savedIds`, is offered since its first step (`StoredStay`). `SavesAll` are the policies
under which the code saves everything.

**MatchesAreSound** (MatchesSound) goes from a lookup to the step that relies on it.
What get_num_new_matched_tokens() counted at admission is used steps later: the blocks
of the local part must still be cached under the same keys, and the keys of the
external part still stored. `MatchInv` adds three parts to the invariants above.

* `QueuesApart`: no request is twice in a queue or in two of them, so an admission
  never meets the row or the match of a request that is under way.
* `PhasesApart`: what runs is `Settled` (it has a token and needs no recomputation) or
  belongs to the batch. Only unsettled requests are `Reusing` a match.
* `MatchesKept`: the matched blocks are the first of the row and cached, which
  is kept because a referenced block is not evicted; the keys to load are stored, which
  is kept because without spilling the tiers change at the end of a step only
  (`TiersStay`). A connector that spills can push out what an earlier lookup found,
  so the property leaves it out.

Of the other connectors, `ComponentProofs` proves **PlansAreKeptApart**
(PlansKeptApart), for any number of workers, prompts and configurations
(`layout`) and in whatever order hand-overs and steps meet: every plan that is built
is owned by one child, where one child transfers directly, with or without a store
beside it (`OneDirectChild`), and the reported wait is the real one where transfers
do not overlap. The first condition is what the code needs: a p2p connector
executes every plan it sees, so beside a sibling it would count the sibling's.
**SavedIsAlwaysFound** (SavedIsFound) holds for the workers of each data-parallel
group if their store is not below a MultiConnector.

### Cluster

`ClusterProofs` proves `Spec => []ClusterInv` (**ClusterInvariant**) for any number
of requests and workers, any layout of roles and ranks and every policy, whichever
of `Loads` a hand-over reads.
`ClusterInv` has three parts.

* `EachPlaced`: every request `SitsAt` one place, which says for each list and each
  message of the whole cluster whether the request is in it. It is stronger
  than counting places: a step that moves a request has to say where it no longer
  is, and only then is a second step free to add it elsewhere.
* `Types`, with the pools in it: `PoolOf` keeps the groups of a pool not empty
  and its cursors inside them, or a choice would have nothing to choose from.
* `WorkerSound`: lists and messages have each request once, a batch is part of
  what runs, and a step under way belongs to a RUNNING worker and is empty only
  if nothing runs. The last is what **NobodySleepsOnWork** (NoSleepWithWork) needs:
  a worker goes to sleep at the end of a step only, and looks at its waiting list
  then.

There is one lemma per action. The choice of a worker is `Selects` (whatever the
policy and the group, a member of the pool), the cutting of a batch `Cuts` and
`PartsAre` (the parts cover the batch and do not overlap, also when it does not
divide evenly), and `Dispatches` follows the loop over the parts: `Holds` says what
the mailboxes have after each of them. Loops are chains of states, and `StepsExist`
of `SequenceFacts` takes the place of an induction on their length.
**RequestsAreKept** (RequestsKept) counts: the set of places that hold a request,
over all messages and workers, has one element, and no list has it twice.

The rest of the module says of every step what it does to places, tokens and ranks
(`Moves`: nothing, one request is placed, a worker finishes a step, or its
hand-over raises), and draws three conclusions.

* **ClusterImplementsFlow**: under `~DispatchFails` every step is a step of
  `RequestFlow` or leaves place and tokens alone. A hand-over that raises gives
  requests a token on a prefill worker and keeps them there, which RequestFlow does
  not promise. The invariant is `FlowInv`: tokens fit the place (`TokensFit`: none
  before the prefill, some at a worker that only decodes), and a prefill worker runs
  nothing but the batch of the step under way (`BatchWhole`); without the second
  a request could be handed over without its first token.
* **RequestsAreDealtEvenly** (GroupsEven): the groups before the next one in turn
  have had one placement more than the others (`Dealt`), given that a request has no
  rank before it is placed (`Unplaced`).
* **GroupsAlwaysHold** (GroupsHold) adds that a request stays in its group
  (StaysInGroup): it has the rank of the worker it is at (`InGroup`), and none without
  data parallelism (`NoRanks`). The condition is `GroupsComplete`: every group that
  prefills has a worker that decodes. Otherwise `_select_for_request`
  (`placement/policies.py:90`) falls back to the next group and the request keeps a
  rank that is not its worker's. All parts of a batch then
  go to one group, since a worker only ever runs requests of its own.

### Times

`TimesProofs` proves `TimingSpec => []TimesAddUp` (**TimesAlwaysAddUp**). The
aggregates of one request are `ReqSound` at a time t; `AdvancedSound` and
`RecomputedSound` say what a token and a recomputation keep of it. Two things
TimesAddUp does not say make it inductive. The compute time of a recomputation is
counted when it ends, the time it took only with the next token: until then it is
bounded by the decode time and what passed since the last token. And that time is
there only if the recomputation began after the last token, so a request that has
no token or no cache runs in the batch of the step under way and nowhere else
(`ListsSound`), and what its aggregates miss is the time since that step's compute
phase began (`Since`). The load integral needs that the sampled count is never
less than what runs: requests leave the running list between two samples, none
joins it.

For the workload it proves `WorkloadSpec => []JitterSound` (**JitterAlwaysSound**) and
`WorkloadSpec => []ArrivesOnTime` (**ArrivesAlwaysOnTime**), for every set of datasets
and configurations that WorkloadAssumption allows: a row has a time or a gap, not both
(`UserRequest.__post_init__`), a gap and a wait are not negative, a scale is positive.
The invariant `WInv` has three parts. `ListInv`: the requests keep their number and
which of them have a time. `StageInv`: at each stage of the loader a request is as
near to its time in the file as the jitters behind that stage allow (`Near`), on the
clock of the trace before the scale and of the replay after it; per burst, times are
exactly scaled until the jitter, so requests with the same time get the same offset.
`SourceInv`: what is still to come is in the order of time, requests without one last
(`InOrder`), and the clock is never past the next time. `ByTimeSorts` shows that the
order by counting is a sort: the numbers of earlier requests are distinct and less
than the length, so each place is one request's (`EveryPlaceTaken`). The ids of the
loader are a fold and stay opaque: neither property is about them.

### Layout

`ComponentProofs` proves `PlacementSpec => []PlacedOnce` (**PlacedAlwaysOnce**), for all
sizes of the three dimensions, every number of experts and layers and both strategies.
The invariant is that the configuration stays one `__post_init__` accepts (`IsConfig`);
the rest is arithmetic of quotients and remainders.

* Ranks: `RankOfWorker` and `WorkerOfRank` show that `RankInfo` and `WorkerAt` are
  inverse, so that the ranks are the whole grid. The turn of the stages (`Turn`) gives
  the worker n stages on (`ReachedIs`), which is the first one again after pp steps and
  not before.
* Parts: the loop that adds up the shares has the closed form
  `(n \div p) * i + Least(i, n % p)` (`CursorIs`), so the parts follow each other
  without a gap and each thing is in one of them (`OneHolder`). The layers of the
  stages and the linear placement of experts rest on this; the round robin on
  `OneInK`, which counts the numbers below n with a given remainder.
* The expert ranks of the workers of a stage are 0 to tp * dp - 1, each once
  (`EpRanksOfStage`), which turns owners among expert ranks into owners among workers.

### Model-checked only

Liveness (EveryoneFinishes, EveryRequestFinishes, StopReachesAll and the last
conjunct of FlowsAsPromised) and enabledness are out of the prover's reach: that the
scheduler's operations are enabled when it reaches them is shown by EveryoneFinishes
on the instance. RoutesExact is checked by TLC and not proved: the loads that it
adds up are sums over data computed by folds, which the provers cannot unfold.

## 6. Not modelled

Not modelled, and why:

* Latency formulas (`latency/`, `mooncake/transfer_engine.py`, `parallel.py`'s
  communication times, `src/TokenSim/TransformerRoofline`): floating point
  arithmetic without control flow. Time is the order of events, or small integers
  in `StepTiming`.
* Parsing and validation of configurations, traces and command lines: input
  checking; the models start from accepted configurations, whose conditions are
  the `ASSUME`s.
* Report formats (`src/TokenSim/util/results.py`) beyond the load integral.
* `LLMPrefillScheduler`, which nothing constructs, the CPU block allocator, from
  which nothing allocates, and `set_num_free_blocks`, which has no caller.
* Random prompt and output lengths: lengths are constants of an instance.

## 7. Running it

    tlc -workers 2 -config MCKVBlocks.cfg MCKVBlocks
    tlapm KVBlocksProofs.tla
    tlapm PagedSchedulerProofs.tla

and likewise for the other modules with proofs.

`MCKVBlocks.cfg` and `MCCluster.cfg` take about two minutes, `MCTieredStore.cfg`
and `MCComponents.cfg` one; the other runs take less than that.
