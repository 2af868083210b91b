------------------------------ MODULE KVBlocks ------------------------------
(***************************************************************************)
(* The paged KV cache of one worker, as BlockManager offers it to the      *)
(* scheduler: the block pool and its free queue, the reference counts, the *)
(* request-to-block table and the prefix-cache index.                      *)
(*                                                                         *)
(* One action per BlockManager operation.  The callers (the scheduler, the *)
(* engine's prefill-to-decode dispatch, the connectors) may issue them in  *)
(* any order their own guards allow; PagedScheduler restricts that order   *)
(* to the one of LLMPagedAttnScheduler and is shown to implement this      *)
(* module.                                                                 *)
(***************************************************************************)
EXTENDS Integers, Sequences, FiniteSets, Functions

CONSTANTS
    NumBlocks,   \* num_gpu_blocks
    BlockSize,   \* tokens per block
    Watermark,   \* watermark_blocks, kept free by admission
    Keys,        \* PrefixCacheKey values
    NoKey,       \* block_hash is None
    Reqs,        \* requests the worker ever sees
    Reserve,     \* the owner of _reserved_gpu_blocks
    PrefillLen, DecodeLen,   \* tokens of a request's prompt and output
    InputKeys,   \* keys of a request's full input blocks that carry a hash id
    OutputKeys,  \* keys chained after them for its output_hash_ids
    MaxAccess    \* bound: no admission once this many touches were made

VARIABLES
    ref,        \* ref_count of each block
    hash,       \* block_hash of each block
    cached,     \* cached (and is_full, set and cleared with it) of each block
    stamp,      \* last_accessed of each block
    clock,      \* _access_counter
    fifo,       \* free uncached blocks in pop order: fresh ids, then the deque
    lru,        \* free cached blocks: the valid entries of the heap
    index,      \* _cache: key -> block
    held,       \* block_table rows, and _reserved_gpu_blocks as row Reserve
    committed,  \* input_cache_committed of each request
    gen         \* generation_idx of each request

vars == <<ref, hash, cached, stamp, clock, fifo, lru, index, held, committed, gen>>

Blocks == 0..(NumBlocks - 1)
NoBlock == -1
Owners == Reqs \cup {Reserve}

Lesser(a, b) == IF a <= b THEN a ELSE b

\* The first position of b in s.
Pos(s, b) == CHOOSE i \in DOMAIN s : s[i] = b

-----------------------------------------------------------------------------
(* Requests and their keys *)

\* num_logical_token_blocks: the prompt and the tokens generated so far.
NumLogical(r) == (PrefillLen[r] + gen[r] + BlockSize - 1) \div BlockSize

\* The keys register_output_blocks may use: none unless the prompt is block
\* aligned and every full input block has a hash id.
RegistrableOutput(r) ==
    IF \/ PrefillLen[r] % BlockSize # 0
       \/ Len(InputKeys[r]) < PrefillLen[r] \div BlockSize
    THEN <<>>
    ELSE SubSeq(OutputKeys[r], 1,
                Lesser(Len(OutputKeys[r]), DecodeLen[r] \div BlockSize))

Chain(r) == InputKeys[r] \o RegistrableOutput(r)

ASSUME SizesAssumption ==
    /\ NumBlocks \in Nat \ {0}
    /\ BlockSize \in Nat \ {0}
    /\ Watermark \in Nat
    /\ MaxAccess \in Nat

ASSUME RequestsAssumption ==
    /\ IsFiniteSet(Reqs)
    /\ Reserve \notin Reqs
    /\ NoKey \notin Keys
    /\ PrefillLen \in [Reqs -> Nat \ {0}]
    /\ DecodeLen \in [Reqs -> Nat \ {0}]
    /\ InputKeys \in [Reqs -> Seq(Keys)]
    /\ OutputKeys \in [Reqs -> Seq(Keys)]
    /\ \A r \in Reqs : Len(InputKeys[r]) <= PrefillLen[r] \div BlockSize

\* A key hashes its parent key, so equal keys have equal predecessors.
ASSUME KeyChainAssumption ==
    \A r, s \in Reqs : \A i \in DOMAIN Chain(r), j \in DOMAIN Chain(s) :
        Chain(r)[i] = Chain(s)[j] =>
            /\ i = j
            /\ \A m \in 1..i : Chain(r)[m] = Chain(s)[m]

-----------------------------------------------------------------------------
(* Free blocks and the index *)

NumFree == Len(fifo) + Cardinality(lru)

\* Faulty variant of IsPopOrder: the most recently accessed block goes first.
PopsNewestFirst(new, heap) ==
    \A i \in DOMAIN new :
        IF i <= Len(fifo) THEN new[i] = fifo[i]
        ELSE /\ new[i] \in heap
             /\ \A j \in Len(fifo) + 1 .. i - 1 : new[j] # new[i]
             /\ \A b \in heap : stamp[b] > stamp[new[i]] =>
                    \E j \in Len(fifo) + 1 .. i - 1 : new[j] = b

\* new is what popleft() returns, pop after pop: uncached blocks in queue
\* order, then cached blocks by last_accessed.
IsPopOrder(new, heap) ==
    \A i \in DOMAIN new :
        IF i <= Len(fifo) THEN new[i] = fifo[i]
        ELSE /\ new[i] \in heap
             /\ \A j \in Len(fifo) + 1 .. i - 1 : new[j] # new[i]
             /\ \A b \in heap : stamp[b] < stamp[new[i]] =>
                    \E j \in Len(fifo) + 1 .. i - 1 : new[j] = b

\* Faulty variant of Evicted: the entry of a reused block stays.
EvictedKeepsEntry(S) == index

\* The index after evict() of the cached blocks among S.
Evicted(S) ==
    [k \in Keys |-> IF index[k] \in S /\ cached[index[k]] /\ hash[index[k]] = k
                    THEN NoBlock ELSE index[k]]

IsHit(k) == index[k] # NoBlock /\ cached[index[k]]

\* plan_reuse(): h is the number of leading input keys that hit.
IsHitCount(r, h) ==
    /\ \A i \in 1..h : IsHit(InputKeys[r][i])
    /\ h < Len(InputKeys[r]) => ~IsHit(InputKeys[r][h + 1])

HitBlocks(r, h) == [i \in 1..h |-> index[InputKeys[r][i]]]

MissCount(r, h) == NumLogical(r) - h

\* Faulty variant of ZeroRefHits: hits that sit in the free queue are forgotten.
NoZeroRefHits(r, h) == 0

ZeroRefHits(r, h) == Cardinality({i \in 1..h : ref[HitBlocks(r, h)[i]] = 0})

CanAllocate(r, h) ==
    NumFree - ZeroRefHits(r, h) - MissCount(r, h) >= Watermark

CanAppendSlot(r) == NumFree >= (IF Len(held[r]) < NumLogical(r) THEN 1 ELSE 0)

-----------------------------------------------------------------------------
(* Operations *)

Init ==
    /\ ref = [b \in Blocks |-> 0]
    /\ hash = [b \in Blocks |-> NoKey]
    /\ cached = [b \in Blocks |-> FALSE]
    /\ stamp = [b \in Blocks |-> 0]
    /\ clock = 0
    /\ fifo = [i \in 1..NumBlocks |-> i - 1]
    /\ lru = {}
    /\ index = [k \in Keys |-> NoBlock]
    /\ held = [o \in Owners |-> <<>>]
    /\ committed = [r \in Reqs |-> FALSE]
    /\ gen = [r \in Reqs |-> 0]

\* Faulty variant of TakenRefs: a hit block gains no reference.
TakenRefsMissesOnly(H, T) == [b \in Blocks |-> IF b \in T THEN 1 ELSE ref[b]]

\* acquire() counts one more reference, and takes the hits out of the heap.
TakenRefs(H, T) ==
    [b \in Blocks |-> IF b \in T THEN 1 ELSE IF b \in H THEN ref[b] + 1 ELSE ref[b]]

\* Faulty variant of HeapWithout: hits stay in the heap and can be popped.
HeapWithHits(H) == lru

HeapWithout(H) == lru \ H

\* Faulty variant of Take: a hit block loses its cached flag.
TakeUncachesHits(o, hits, new, newHash) ==
    LET H == Range(hits)
        T == Range(new)
    IN  /\ IsPopOrder(new, HeapWithout(H))
        /\ held' = [held EXCEPT ![o] = (@ \o hits) \o new]
        /\ ref' = TakenRefs(H, T)
        /\ fifo' = SubSeq(fifo, Len(new) + 1, Len(fifo))
        /\ lru' = HeapWithout(H) \ T
        /\ index' = Evicted(T)
        /\ cached' = [b \in Blocks |-> b \notin T \cup H /\ cached[b]]
        /\ hash' = [b \in Blocks |-> IF b \in T THEN newHash[Pos(new, b)] ELSE hash[b]]
        /\ UNCHANGED <<stamp, clock>>

\* Owner o takes the hit blocks (acquire), then the popped blocks `new`
\* (BlockAllocator.allocate), whose i-th gets hash newHash[i].
Take(o, hits, new, newHash) ==
    LET H == Range(hits)
        T == Range(new)
    IN  /\ IsPopOrder(new, HeapWithout(H))
        /\ held' = [held EXCEPT ![o] = (@ \o hits) \o new]
        /\ ref' = TakenRefs(H, T)
        /\ fifo' = SubSeq(fifo, Len(new) + 1, Len(fifo))
        /\ lru' = HeapWithout(H) \ T
        /\ index' = Evicted(T)
        /\ cached' = [b \in Blocks |-> b \notin T /\ cached[b]]
        /\ hash' = [b \in Blocks |-> IF b \in T THEN newHash[Pos(new, b)] ELSE hash[b]]
        /\ stamp' = [b \in Blocks |-> IF b \in T THEN 0
                                      ELSE IF b \in H THEN clock + Pos(hits, b)
                                      ELSE stamp[b]]
        /\ clock' = clock + Len(hits)

\* Faulty variant of Allocate: the new blocks are keyed from the prompt's start.
AllocateKeysFromStart(r) ==
    /\ held[r] = <<>> /\ gen[r] < DecodeLen[r] /\ clock <= MaxAccess
    /\ \E h \in 0..Len(InputKeys[r]) :
        /\ IsHitCount(r, h)
        /\ CanAllocate(r, h)
        /\ \E new \in [1..MissCount(r, h) -> Blocks] :
            Take(r, HitBlocks(r, h), new,
                 [i \in DOMAIN new |-> IF i <= Len(InputKeys[r])
                                       THEN InputKeys[r][i] ELSE NoKey])
    /\ committed' = [committed EXCEPT ![r] = FALSE]
    /\ UNCHANGED gen

\* can_allocate() and allocate(): reuse the resident prefix, pop the rest, and
\* mark the new full input blocks with the key they will be registered under.
Allocate(r) ==
    /\ held[r] = <<>>
    /\ gen[r] < DecodeLen[r]
    /\ clock <= MaxAccess
    /\ \E h \in 0..Len(InputKeys[r]) :
        /\ IsHitCount(r, h)
        /\ CanAllocate(r, h)
        /\ \E new \in [1..MissCount(r, h) -> Blocks] :
            Take(r, HitBlocks(r, h), new,
                 [i \in DOMAIN new |-> IF h + i <= Len(InputKeys[r])
                                       THEN InputKeys[r][h + i] ELSE NoKey])
    /\ committed' = [committed EXCEPT ![r] = FALSE]
    /\ UNCHANGED gen

\* append_slot() when the request has outgrown its blocks.
AppendSlot(r) ==
    /\ held[r] # <<>>
    /\ Len(held[r]) < NumLogical(r)
    /\ CanAppendSlot(r)
    /\ \E new \in [1..1 -> Blocks] : Take(r, <<>>, new, <<NoKey>>)
    /\ UNCHANGED <<committed, gen>>

\* Request.step(): one more token, whose slot must exist.
Step(r) ==
    /\ held[r] # <<>>
    /\ NumLogical(r) <= Len(held[r])
    /\ gen[r] < DecodeLen[r]
    /\ gen' = [gen EXCEPT ![r] = @ + 1]
    /\ UNCHANGED <<ref, hash, cached, stamp, clock, fifo, lru, index, held, committed>>

\* register_blocks() of r's blocks at the positions I: the metadata and the
\* index after it.  A block that carries another key is evicted first.
Registered(r, I) == {held[r][i] : i \in I}

RegisteredHash(r, I) ==
    [b \in Blocks |-> IF b \in Registered(r, I) THEN Chain(r)[Pos(held[r], b)]
                      ELSE hash[b]]

RegisteredStamp(r, I, first) ==
    [b \in Blocks |-> IF b \in Registered(r, I)
                      THEN clock + 1 + Pos(held[r], b) - first ELSE stamp[b]]

RegisteredIndex(r, I) ==
    LET rekeyed == {b \in Registered(r, I) :
                        hash[b] # NoKey /\ hash[b] # Chain(r)[Pos(held[r], b)]}
    IN  [k \in Keys |-> IF \E i \in I : Chain(r)[i] = k
                        THEN held[r][CHOOSE i \in I : Chain(r)[i] = k]
                        ELSE Evicted(rekeyed)[k]]

\* commit_input_cache(): the input blocks become reusable.
CommitInput(r) ==
    LET I == 1..Lesser(Len(held[r]), Len(InputKeys[r]))
    IN  /\ held[r] # <<>>
        /\ ~committed[r]
        /\ hash' = RegisteredHash(r, I)
        /\ cached' = [b \in Blocks |-> b \in Registered(r, I) \/ cached[b]]
        /\ stamp' = RegisteredStamp(r, I, 1)
        /\ clock' = clock + Cardinality(I)
        /\ index' = RegisteredIndex(r, I)
        /\ committed' = [committed EXCEPT ![r] = TRUE]
        /\ UNCHANGED <<ref, fifo, lru, held, gen>>

\* The elements of S in the order they have in row.
InRowOrder(S, row) ==
    {q \in [1..Cardinality(S) -> S] :
        /\ Range(q) = S
        /\ \A i, j \in DOMAIN q : i < j => Pos(row, q[i]) < Pos(row, q[j])}

CachedBlocks == {b \in Blocks : cached[b]}

\* Faulty variant of LastReferences: a block others still hold is queued as free.
AnyReferences(S) == S

\* The blocks of S whose last reference is dropped.
LastReferences(S) == {b \in S : ref[b] = 1}

\* Faulty variant of FreeFirst: the row keeps its blocks, so they are freed again.
FreeFirstKeepsRow(o, n, isCached, newHash, newStamp) ==
    LET out == {held[o][i] : i \in 1..n}
        plain == LastReferences(out) \ isCached
    IN  /\ ref' = [b \in Blocks |-> IF b \in out THEN ref[b] - 1 ELSE ref[b]]
        /\ lru' = lru \cup (LastReferences(out) \cap isCached)
        /\ \E q \in InRowOrder(plain, held[o]) : fifo' = fifo \o q
        /\ hash' = newHash /\ stamp' = newStamp
        /\ UNCHANGED held

\* free() of the first n blocks of owner o's row, given the blocks that are
\* cached by then and the metadata they have: an unreferenced block goes to the
\* heap if cached, else it is cleared and queued.
FreeFirst(o, n, isCached, newHash, newStamp) ==
    LET out == {held[o][i] : i \in 1..n}
        idle == LastReferences(out)
        plain == idle \ isCached
    IN  /\ ref' = [b \in Blocks |-> IF b \in out THEN ref[b] - 1 ELSE ref[b]]
        /\ lru' = lru \cup (idle \cap isCached)
        /\ \E q \in InRowOrder(plain, held[o]) : fifo' = fifo \o q
        /\ hash' = [b \in Blocks |-> IF b \in plain THEN NoKey ELSE newHash[b]]
        /\ stamp' = [b \in Blocks |-> IF b \in plain THEN 0 ELSE newStamp[b]]
        /\ held' = [held EXCEPT ![o] = SubSeq(@, n + 1, Len(@))]

\* release_request_blocks(): preemption, dispatch to a decode worker, delayed
\* release.
Release(r) ==
    /\ held[r] # <<>>
    /\ FreeFirst(r, Len(held[r]), CachedBlocks, hash, stamp)
    /\ UNCHANGED <<cached, clock, index, committed, gen>>

\* free(): register what is still unregistered, the full output blocks too,
\* then release.
Finish(r) ==
    LET first == IF committed[r] THEN Len(InputKeys[r]) + 1 ELSE 1
        I == first..Lesser(Len(held[r]), Len(Chain(r)))
        keep == CachedBlocks \cup Registered(r, I)
    IN  /\ held[r] # <<>>
        /\ gen[r] = DecodeLen[r]
        /\ FreeFirst(r, Len(held[r]), keep,
                     RegisteredHash(r, I), RegisteredStamp(r, I, first))
        /\ cached' = [b \in Blocks |-> b \in keep]
        /\ clock' = clock + Cardinality(I)
        /\ index' = RegisteredIndex(r, I)
        /\ committed' = [committed EXCEPT ![r] = TRUE]
        /\ UNCHANGED gen

\* reserve_gpu_blocks(n) when n blocks are free.
ReserveBlocks(n) ==
    /\ n <= NumFree
    /\ \E new \in [1..n -> Blocks] : Take(Reserve, <<>>, new, [i \in 1..n |-> NoKey])
    /\ UNCHANGED <<committed, gen>>

\* reserve_gpu_blocks(n) when they are not: every free block is popped, its
\* cache entry evicted, and the rollback queues them all again.
ReserveFails(n) ==
    /\ n > NumFree
    /\ \E new \in [1..NumFree -> Blocks] :
        /\ IsPopOrder(new, lru)
        /\ fifo' = new
        /\ index' = Evicted(Range(new))
        /\ hash' = [b \in Blocks |-> IF b \in Range(new) THEN NoKey ELSE hash[b]]
        /\ cached' = [b \in Blocks |-> b \notin Range(new) /\ cached[b]]
        /\ stamp' = [b \in Blocks |-> IF b \in Range(new) THEN 0 ELSE stamp[b]]
    /\ lru' = {}
    /\ UNCHANGED <<ref, clock, held, committed, gen>>

\* release_reserved_blocks(n), oldest reservation first.
ReleaseReserved(n) ==
    /\ n <= Len(held[Reserve])
    /\ FreeFirst(Reserve, n, CachedBlocks, hash, stamp)
    /\ UNCHANGED <<cached, clock, index, committed, gen>>

Next ==
    \/ \E r \in Reqs : \/ Allocate(r)
                       \/ AppendSlot(r)
                       \/ Step(r)
                       \/ CommitInput(r)
                       \/ Release(r)
                       \/ Finish(r)
    \/ \E n \in 1..NumBlocks : \/ ReserveBlocks(n)
                               \/ ReserveFails(n)
                               \/ ReleaseReserved(n)

Spec == Init /\ [][Next]_vars

-----------------------------------------------------------------------------
(* Properties *)

\* Every variable has its type: counts never go below zero, rows and queues
\* hold block ids.
TypeOK ==
    /\ ref \in [Blocks -> Nat]
    /\ hash \in [Blocks -> Keys \cup {NoKey}]
    /\ cached \in [Blocks -> BOOLEAN]
    /\ stamp \in [Blocks -> Nat]
    /\ clock \in Nat
    /\ fifo \in Seq(Blocks)
    /\ lru \in SUBSET Blocks
    /\ index \in [Keys -> Blocks \cup {NoBlock}]
    /\ held \in [Owners -> Seq(Blocks)]
    /\ committed \in [Reqs -> BOOLEAN]
    /\ gen \in [Reqs -> Nat]

Holders(b) == {o \in Owners : b \in Range(held[o])}

\* A block's ref_count is the number of rows it is in, and no row lists a block
\* twice: allocate, acquire, free and the rollbacks neither leak a reference
\* nor drop one that is still in use.
RefCounts ==
    /\ \A o \in Owners : IsInjective(held[o])
    /\ \A b \in Blocks : ref[b] = Cardinality(Holders(b))

\* The free queue holds exactly the unreferenced blocks, each once: the
\* uncached ones in the deque (or never used), the cached ones in the heap.
FreeQueueExact ==
    /\ IsInjective(fifo)
    /\ Range(fifo) = {b \in Blocks : ref[b] = 0 /\ ~cached[b]}
    /\ lru = {b \in Blocks : ref[b] = 0 /\ cached[b]}

\* What the index offers for a key is a cached block that still carries that
\* key, whatever was evicted, shadowed or registered again since.
IndexSound ==
    \A k \in Keys : index[k] # NoBlock => cached[index[k]] /\ hash[index[k]] = k

\* A block without cache entry belongs to one row only: a partial prompt block
\* or a decode block is never shared, and only a registered block is.
SharedOnlyCached ==
    \A b \in Blocks : ~cached[b] => ref[b] <= 1

\* Request r's row covers its keyed prompt, block for block, and nothing else
\* of it is keyed.
RowKeepsKeys(r) ==
    /\ held[r] # <<>> => Len(InputKeys[r]) <= Len(held[r])
    /\ \A i \in DOMAIN held[r] :
        IF i <= Len(InputKeys[r])
        THEN /\ hash[held[r][i]] = InputKeys[r][i]
             /\ committed[r] => cached[held[r][i]]
        ELSE hash[held[r][i]] = NoKey /\ ~cached[held[r][i]]

\* The blocks a request holds for its keyed prompt carry those keys until it
\* releases them (so register_blocks never rekeys), and they are cached once
\* committed; the rest of its blocks carry none, and neither do reserved ones.
RowsKeepKeys ==
    /\ \A r \in Reqs : RowKeepsKeys(r)
    /\ \A b \in Range(held[Reserve]) : hash[b] = NoKey /\ ~cached[b]

\* Whatever was shared, evicted or computed twice since, a request that reuses
\* cached blocks reads its own prefix: what the index offers, what requests share
\* and what they hold agree on the keys (_cache, hash, is_cached).
CacheSound == IndexSound /\ SharedOnlyCached /\ RowsKeepKeys

\* When can_allocate() says yes, the misses can be popped after the hits have
\* left the free queue: BlockAllocator.allocate never raises OutOfBlocksError
\* in the middle of an admission.
AdmissionFits ==
    \A r \in Reqs : \A h \in 0..Len(InputKeys[r]) :
        held[r] = <<>> /\ IsHitCount(r, h) /\ CanAllocate(r, h) =>
            MissCount(r, h) <= Len(fifo) + Cardinality(lru \ Range(HitBlocks(r, h)))

\* An admitted request gets the longest resident prefix of its keys, and no
\* block of that prefix is evicted to make room for its own misses.
HitsSurviveAdmission ==
    [][\A r \in Reqs : held[r] = <<>> /\ held'[r] # <<>> =>
        \A i \in 1..Len(InputKeys[r]) :
            (\A j \in 1..i : index[InputKeys[r][j]] # NoBlock) =>
                /\ held'[r][i] = index[InputKeys[r][i]]
                /\ index'[InputKeys[r][i]] = held'[r][i]]_vars

\* As long as the block the index offers for a key stays referenced, the key
\* stays resident: eviction only ever takes idle blocks.
InUseKeyStays ==
    [][\A k \in Keys :
        LET b == index[k]
        IN  b # NoBlock /\ ref[b] > 0 /\ ref'[b] > 0 => index'[k] # NoBlock]_vars

\* A cache entry is lost only under pressure, oldest access first: when a block
\* loses its entry no uncached block was left free, and every cached block that
\* stays in the free queue was accessed later.
EvictsOldestUnderPressure ==
    [][\A b \in Blocks : cached[b] /\ ~cached'[b] =>
        /\ Range(fifo) \cap Range(fifo') = {} \/ lru' = {}
        /\ \A c \in lru \cap lru' : stamp[b] < stamp[c]]_vars

\* kv_cache_manager.py:48 says the eviction hook fires just before an entry
\* leaves the prefix cache: a block that loses its entry is the one the index
\* has for its key.
HookMeansEntryLeaves ==
    [][\A b \in Blocks : cached[b] /\ ~cached'[b] => index[hash[b]] = b]_vars

\* mooncake_store.py:218 says decode blocks are never cached, so that the
\* eviction hook sees prompt blocks only: a request that lets go of its blocks
\* leaves none behind the full blocks of its prompt cached.
DecodeBlocksNotCached ==
    [][\A r \in Reqs : held[r] # <<>> /\ held'[r] = <<>> =>
        \A i \in PrefillLen[r] \div BlockSize + 1 .. Len(held[r]) :
            ~cached'[held[r][i]]]_vars
=============================================================================
