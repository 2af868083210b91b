----------------------------- MODULE FreeQueue -----------------------------
(***************************************************************************)
(* BlockPool and FreeBlockQueue: never-used block numbers behind a counter, *)
(* a deque of released uncached blocks and a heap of released cached ones. *)
(* Taking a block back only marks its entry invalid; the entry stays until *)
(* a pop meets it, while the same block may be queued again with a later   *)
(* last_accessed.                                                          *)
(*                                                                         *)
(* The actions are what BlockAllocator and KVCacheManager do with a block. *)
(***************************************************************************)
EXTENDS Integers, Sequences, FiniteSets, Functions, Listings

CONSTANTS
    NumBlocks,   \* num_blocks
    MaxAccess,   \* bound: touches
    MaxEntries   \* bound: entries ever made

VARIABLES
    nextFresh,    \* _next_fresh
    entryBlock,   \* the block of each _Entry made so far, in order
    valid,        \* the entries with valid = True
    entryOf,      \* _entries: the entry of each block, NoEntry if it has none
    deque,        \* _fifo, of entries
    heap,         \* _heap: pairs of last_accessed and entry
    cached,       \* cached of each block
    stamp,        \* last_accessed of each block
    clock,        \* _access_counter
    handed        \* what the last pop_free_block() returned

queueVars == <<nextFresh, entryBlock, valid, entryOf, deque, heap>>
poolVars == <<queueVars, cached, stamp, clock, handed>>

ASSUME PoolAssumption ==
    /\ NumBlocks \in Nat \ {0}
    /\ MaxAccess \in Nat
    /\ MaxEntries \in Nat

Blocks == 0..(NumBlocks - 1)
NoBlock == -1
NoEntry == 0

Made == Len(entryBlock)

\* Handed out and not released: neither fresh nor queued.
Out(b) == b < nextFresh /\ entryOf[b] = NoEntry

\* Faulty variant of NumFree: counts the entries, invalid ones too.
NumQueued == (NumBlocks - nextFresh) + Len(deque) + Cardinality(heap)

\* get_num_free_blocks()
NumFree ==
    (NumBlocks - nextFresh) + Cardinality({b \in Blocks : entryOf[b] # NoEntry})

\* Faulty variant of Invalidated: the entry stays valid.
NothingInvalidated(b) == valid

\* _invalidate(): the block's entry, if any, no longer counts.
Invalidated(b) == valid \ {entryOf[b]}

\* Heap order: last_accessed, then _seq, which grows with the entries.
Before(s, t) == s[1] < t[1] \/ (s[1] = t[1] /\ s[2] < t[2])

\* Faulty variant of Pushed: the heap is ordered by the time of release.
PushedByRelease(b, e) == heap \cup {<<e, e>>}

\* heappush() of the block's entry under its last_accessed.
Pushed(b, e) == heap \cup {<<stamp[b], e>>}

-----------------------------------------------------------------------------
(* Operations *)

PoolInit ==
    /\ nextFresh = 0
    /\ entryBlock = <<>>
    /\ valid = {}
    /\ entryOf = [b \in Blocks |-> NoEntry]
    /\ deque = <<>>
    /\ heap = {}
    /\ cached = [b \in Blocks |-> FALSE]
    /\ stamp = [b \in Blocks |-> 0]
    /\ clock = 0
    /\ handed = NoBlock

\* Faulty variant of PopFresh: one number too many.
PopFreshOneMore ==
    /\ nextFresh <= NumBlocks
    /\ handed' = nextFresh
    /\ nextFresh' = nextFresh + 1
    /\ UNCHANGED <<entryBlock, valid, entryOf, deque, heap, cached, stamp, clock>>

\* pop_free_block() of a block never used before.
PopFresh ==
    /\ nextFresh < NumBlocks
    /\ handed' = nextFresh
    /\ nextFresh' = nextFresh + 1
    /\ UNCHANGED <<entryBlock, valid, entryOf, deque, heap, cached, stamp, clock>>

\* _finalize_pop() of entry e, and the eviction of its block if it is cached.
HandOut(e) ==
    LET b == entryBlock[e]
    IN  /\ handed' = b
        /\ valid' = valid \ {e}
        /\ entryOf' = [entryOf EXCEPT ![b] = NoEntry]
        /\ cached' = [cached EXCEPT ![b] = FALSE]
        /\ stamp' = [stamp EXCEPT ![b] = IF cached[b] THEN 0 ELSE @]

\* popleft() that finds a valid entry in the deque, after the invalid ones.
PopDeque ==
    /\ nextFresh = NumBlocks /\ NumFree > 0
    /\ \E i \in DOMAIN deque :
        /\ deque[i] \in valid
        /\ \A j \in 1..i - 1 : deque[j] \notin valid
        /\ HandOut(deque[i])
        /\ deque' = SubSeq(deque, i + 1, Len(deque))
    /\ UNCHANGED <<nextFresh, entryBlock, heap, clock>>

\* popleft() that empties the deque and finds a valid entry in the heap.
PopHeap ==
    /\ nextFresh = NumBlocks /\ NumFree > 0
    /\ Range(deque) \cap valid = {}
    /\ \E t \in heap :
        /\ t[2] \in valid
        /\ \A s \in heap : s[2] \in valid => ~Before(s, t)
        /\ HandOut(t[2])
        /\ heap' = {s \in heap : Before(t, s)}
    /\ deque' = <<>>
    /\ UNCHANGED <<nextFresh, entryBlock, clock>>

\* register_blocks() of a block in use, or another acquire() of one: touch().
Access(b) ==
    /\ Out(b)
    /\ clock < MaxAccess
    /\ cached' = [cached EXCEPT ![b] = TRUE]
    /\ stamp' = [stamp EXCEPT ![b] = clock + 1]
    /\ clock' = clock + 1
    /\ UNCHANGED <<queueVars, handed>>

\* acquire() of a prefix hit nobody uses: out of the queue, and touched.
Acquire(b) ==
    /\ entryOf[b] # NoEntry /\ cached[b]
    /\ clock < MaxAccess
    /\ valid' = Invalidated(b)
    /\ entryOf' = [entryOf EXCEPT ![b] = NoEntry]
    /\ stamp' = [stamp EXCEPT ![b] = clock + 1]
    /\ clock' = clock + 1
    /\ UNCHANGED <<nextFresh, entryBlock, deque, heap, cached, handed>>

\* release_block() of the last reference: append_unique() or append_lru().
Release(b) ==
    LET e == Made + 1
    IN  /\ Out(b)
        /\ Made < MaxEntries
        /\ entryBlock' = Append(entryBlock, b)
        /\ valid' = Invalidated(b) \cup {e}
        /\ entryOf' = [entryOf EXCEPT ![b] = e]
        /\ IF cached[b] THEN heap' = Pushed(b, e) /\ UNCHANGED deque
                        ELSE deque' = Append(deque, e) /\ UNCHANGED heap
        /\ stamp' = IF cached[b] THEN stamp ELSE [stamp EXCEPT ![b] = 0]
        /\ UNCHANGED <<nextFresh, cached, clock, handed>>

PoolNext ==
    \/ PopFresh \/ PopDeque \/ PopHeap
    \/ \E b \in Blocks : Access(b) \/ Acquire(b) \/ Release(b)

PoolSpec == PoolInit /\ [][PoolNext]_poolVars

-----------------------------------------------------------------------------
(* Properties *)

\* Every variable of the pool has its type: the fresh counter stops at
\* num_blocks, and queues and index name entries that were made.
PoolTypeOK ==
    /\ nextFresh \in 0..NumBlocks
    /\ entryBlock \in Seq(Blocks)
    /\ valid \subseteq 1..Made
    /\ entryOf \in [Blocks -> 0..Made]
    /\ Range(deque) \subseteq 1..Made
    /\ heap \subseteq (1..MaxAccess) \X (1..Made)
    /\ cached \in [Blocks -> BOOLEAN]
    /\ stamp \in [Blocks -> 0..MaxAccess]
    /\ clock \in 0..MaxAccess
    /\ handed \in Blocks \cup {NoBlock}

\* The valid entries are those the index has for their blocks, and each is in
\* exactly one of the two queues: no block is free twice, nor lost.
EntriesExact ==
    /\ valid = {entryOf[b] : b \in Blocks} \ {NoEntry}
    /\ \A b \in Blocks : entryOf[b] # NoEntry =>
        /\ entryBlock[entryOf[b]] = b
        /\ entryOf[b] \in Range(deque) <=> ~cached[b]
        /\ entryOf[b] \in {t[2] : t \in heap} <=> cached[b]

\* get_num_free_blocks() counts what can be popped, invalid entries not among
\* it: allocate() checks the count first, and popleft() never finds nothing.
CountExact ==
    NumFree = (NumBlocks - nextFresh)
              + Cardinality({i \in DOMAIN deque : deque[i] \in valid})
              + Cardinality({t \in heap : t[2] \in valid})

\* The index of entries, the two queues with their stale entries and the count
\* always describe the same free blocks.
PoolExact == PoolTypeOK /\ EntriesExact /\ CountExact

-----------------------------------------------------------------------------
(* The pool implements the free list *)

\* The entries of the deque that still count, oldest first.
ValidDeque == Listed(Range(deque) \cap valid)

ValidHeap == {t \in heap : t[2] \in valid}

\* The free uncached blocks, the never used ones first.
FreshList == [i \in 1..NumBlocks - nextFresh |-> nextFresh + i - 1]
PlainList == [i \in DOMAIN ValidDeque |-> entryBlock[ValidDeque[i]]]

\* The last_accessed of the free cached ones.
AgedStamps == [b \in {entryBlock[t[2]] : t \in ValidHeap} |-> stamp[b]]

List == INSTANCE FreeList WITH fifo <- FreshList \o PlainList, aged <- AgedStamps

\* free_queue.py:6 promises uncached blocks first, then cached blocks in
\* least-recently-accessed order: stale entries of a block that was reused and
\* released again never bring it out early, twice or out of turn.
ImplementsFreeList == List!ListSpec
=============================================================================
