----------------------------- MODULE TieredStore -----------------------------
(***************************************************************************)
(* MooncakeStore: the KV block store behind the GPU, a memory tier (DRAM   *)
(* or PCM) over an offload tier (SSD or high-bandwidth flash), each with   *)
(* its own LRU order and its own capacity.                                 *)
(*                                                                         *)
(* An object is one KV block, so capacities count blocks.  A put, get or   *)
(* save of a list of keys handles them one after the other: it is a        *)
(* sequence of the actions here.  The connectors issue lookups, gets and   *)
(* puts in any order, and a get may name keys dropped since the lookup.    *)
(***************************************************************************)
EXTENDS Integers, Sequences, FiniteSets, Functions

CONSTANTS
    Keys,      \* PoolKey strings
    Parts,     \* partitions: one if the store is global, the ranks if per_rank
    PartOf,    \* the partition of each key
    MemCap,    \* memory_capacity_blocks of a partition
    OffCap,    \* ssd_capacity_blocks of a partition
    Chains     \* the key lists that requests look up

VARIABLES
    policy,    \* the policy fields of MooncakeConfig
    tier,      \* objects[key].tier, "none" if the key has no object
    read,      \* read_count > 0
    memLru,    \* memory_lru or _rank_lru[rank], least recent first
    memUsed,   \* memory_used_bytes or _rank_used_bytes[rank], in blocks
    offLru     \* OffloadTier._lru and _blocks of each partition

storeVars == <<policy, tier, read, memLru, memUsed, offLru>>

ASSUME StoreAssumption ==
    /\ PartOf \in [Keys -> Parts]
    /\ MemCap \in Nat
    /\ OffCap \in Nat \ {0}   \* with 0, OffloadTier.write raises
    /\ Chains \subseteq Seq(Keys)

Policies ==
    [offload : BOOLEAN,                           \* enable_offload
     unlimited : BOOLEAN,                         \* hbf_capacity_mode
     write : {"write_through", "write_back"},     \* admission_write_policy
     demote : {"always", "if_read"},              \* demote_policy
     evict : {"lru", "none"},                     \* eviction_policy
     credit : {"walked", "served"}]               \* read_credit

\* s without its element k.
Without(s, k) ==
    IF k \in Range(s)
    THEN LET i == CHOOSE j \in DOMAIN s : s[j] = k
         IN  SubSeq(s, 1, i - 1) \o SubSeq(s, i + 1, Len(s))
    ELSE s

MoveToEnd(s, k) == IF k \in Range(s) THEN Append(Without(s, k), k) ELSE s

Contains(k) == k \in Range(offLru[PartOf[k]])

-----------------------------------------------------------------------------
(* The steps of a put, on the store's contents as a record *)

Contents == [tier |-> tier, read |-> read, memLru |-> memLru,
             memUsed |-> memUsed, offLru |-> offLru]

Becomes(s) ==
    /\ tier' = s.tier
    /\ read' = s.read
    /\ memLru' = s.memLru
    /\ memUsed' = s.memUsed
    /\ offLru' = s.offLru

\* Faulty variant of Dropped: the object stays behind without a tier.
DroppedToNowhere(s, K) == [s EXCEPT !.tier = [k \in Keys |-> IF k \in K THEN "" ELSE @[k]]]

Dropped(s, K) ==
    [s EXCEPT !.tier = [k \in Keys |-> IF k \in K THEN "none" ELSE @[k]],
              !.read = [k \in Keys |-> k \notin K /\ @[k]]]

\* Faulty variants of FullTier: one block too many, one block too few.
FullTierLate(s, p) == ~policy.unlimited /\ Len(s.offLru[p]) > OffCap

FullTierEarly(s, p) ==
    ~policy.unlimited /\ Len(s.offLru[p]) >= OffCap - 1 /\ s.offLru[p] # <<>>

\* The offload tier of partition p must evict before it writes.
FullTier(s, p) == ~policy.unlimited /\ Len(s.offLru[p]) >= OffCap

\* Faulty variant of OffloadVictims: the store keeps listing the evicted block.
NoVictims(s, k) == {}

\* What the store forgets when the tier evicts to write k: the oldest entry,
\* unless the store has it in memory or it is k.
OffloadVictims(s, k) ==
    {v \in Keys : /\ FullTier(s, PartOf[k])
                  /\ v = Head(s.offLru[PartOf[k]])
                  /\ v # k /\ s.tier[v] = "ssd"}

\* Faulty variant of Stored: a block written again is entered again.
StoredTwice(q, k) == Append(q, k)

Stored(q, k) == Append(Without(q, k), k)

\* OffloadTier.write and _drop_offload_victims: a full tier first evicts its
\* oldest entry, also when it already holds k.
OffloadWrite(s, k) ==
    LET p == PartOf[k]
        rest == IF FullTier(s, p) THEN Tail(s.offLru[p]) ELSE s.offLru[p]
    IN  Dropped([s EXCEPT !.offLru[p] = Stored(rest, k)], OffloadVictims(s, k))

\* Faulty variant of Popped: the used bytes are not given back.
PoppedLeaks(s, p) == [s EXCEPT !.memLru[p] = Tail(@)]

\* The oldest block of partition p's memory tier gives up its room.
Popped(s, p) == [s EXCEPT !.memLru[p] = Tail(@), !.memUsed[p] = @ - 1]

\* Faulty variant of NotDemoted: the write-through copy is forgotten.
NotDemotedForgetsCopy(s, v) == Dropped(s, {v})

\* A block that is not demoted is dropped, unless the offload tier still has
\* its write-through copy to serve it from.
NotDemoted(s, v) ==
    IF v \in Range(s.offLru[PartOf[v]])
    THEN [s EXCEPT !.tier[v] = "ssd"] ELSE Dropped(s, {v})

\* _evict_memory_lru(): the oldest block of the memory tier is demoted, or not
\* by demote_policy, or dropped because there is no offload tier.
EvictMemory(s, p) ==
    LET v == Head(s.memLru[p])
    IN  IF ~policy.offload THEN Dropped(Popped(s, p), {v})
        ELSE IF policy.demote = "if_read" /\ ~s.read[v] THEN NotDemoted(Popped(s, p), v)
        ELSE OffloadWrite([Popped(s, p) EXCEPT !.tier[v] = "ssd"], v)

\* Faulty variant of WritesThrough: write_back writes through.
AlwaysWritesThrough == policy.offload

WritesThrough == policy.offload /\ policy.write = "write_through"

\* The memory tier takes k, and write_through copies it to the offload tier.
AdmitMemory(s, k) ==
    LET p == PartOf[k]
        held == [s EXCEPT !.tier[k] = "memory", !.read[k] = FALSE,
                          !.memLru[p] = Append(@, k), !.memUsed[p] = @ + 1]
    IN  IF WritesThrough THEN OffloadWrite(held, k) ELSE held

\* The memory tier cannot take k: it goes straight to the offload tier, if any.
Bypass(s, k) ==
    IF policy.offload
    THEN OffloadWrite([s EXCEPT !.tier[k] = "ssd", !.read[k] = FALSE], k)
    ELSE s

\* _ensure_memory_capacity(): one eviction makes room for one block.
CanEvict(s, p) == policy.evict = "lru" /\ MemCap > 0 /\ s.memLru[p] # <<>>

Touched(s, k) ==
    IF s.tier[k] = "memory" THEN [s EXCEPT !.memLru[PartOf[k]] = MoveToEnd(@, k)] ELSE s

\* _put_one(): a key the store has is touched, another one is admitted.
Put(s, k) ==
    LET p == PartOf[k]
    IN  IF s.tier[k] # "none" THEN Touched(s, k)
        ELSE IF s.memUsed[p] < MemCap THEN AdmitMemory(s, k)
        ELSE IF CanEvict(s, p) THEN AdmitMemory(EvictMemory(s, p), k)
        ELSE Bypass(s, k)

\* get() of one key: the tier that has it moves it to the recent end; a key
\* that left the store since its lookup is skipped.
Got(s, k) ==
    IF s.tier[k] = "none" THEN s
    ELSE [Touched(s, k) EXCEPT
            !.read[k] = @ \/ policy.credit = "served",
            !.offLru[PartOf[k]] = IF s.tier[k] = "ssd" /\ policy.offload
                                  THEN MoveToEnd(@, k) ELSE @]

Served(s, k) ==
    s.tier[k] # "none" /\ (s.tier[k] = "ssd" /\ policy.offload => k \in Range(s.offLru[PartOf[k]]))

\* The leading keys of chain that a lookup finds.
HitKeys(s, chain) ==
    {chain[i] : i \in {j \in DOMAIN chain : \A m \in 1..j : Served(s, chain[m])}}

\* Faulty variant of Credited: a lookup credits what it walks over in any case.
CreditedAlways(s, chain) ==
    [s EXCEPT !.read = [k \in Keys |-> @[k] \/ k \in HitKeys(s, chain)]]

\* lookup() credits the keys it finds as read.
Credited(s, chain) ==
    IF policy.credit = "walked"
    THEN [s EXCEPT !.read = [k \in Keys |-> @[k] \/ k \in HitKeys(s, chain)]] ELSE s

-----------------------------------------------------------------------------
(* Operations *)

StoreInit ==
    /\ policy \in Policies
    /\ tier = [k \in Keys |-> "none"]
    /\ read = [k \in Keys |-> FALSE]
    /\ memLru = [p \in Parts |-> <<>>]
    /\ memUsed = [p \in Parts |-> 0]
    /\ offLru = [p \in Parts |-> <<>>]

PutKey(k) == Becomes(Put(Contents, k)) /\ UNCHANGED policy

GetKey(k) == Becomes(Got(Contents, k)) /\ UNCHANGED policy

Lookup(chain) == Becomes(Credited(Contents, chain)) /\ UNCHANGED policy

StoreNext ==
    \/ \E k \in Keys : PutKey(k) \/ GetKey(k)
    \/ \E chain \in Chains : Lookup(chain)

StoreSpec == StoreInit /\ [][StoreNext]_storeVars

-----------------------------------------------------------------------------
(* Properties *)

\* Every variable of the store has its type: no byte counter is negative.
StoreTypeOK ==
    /\ policy \in Policies
    /\ tier \in [Keys -> {"none", "memory", "ssd"}]
    /\ read \in [Keys -> BOOLEAN]
    /\ memLru \in [Parts -> Seq(Keys)]
    /\ memUsed \in [Parts -> Nat]
    /\ offLru \in [Parts -> Seq(Keys)]

\* No dangling entry: an object on the offload tier has its data there, so a
\* lookup never stops at a key the store lists, and a put never takes a lost
\* block for a stored one.
NoDangling == \A k \in Keys : tier[k] = "ssd" => Contains(k)

\* No orphan data: what the offload tier holds belongs to an object the store
\* lists, each key once, in its own partition.
OffloadOwned ==
    \A p \in Parts :
        /\ IsInjective(offLru[p])
        /\ \A k \in Range(offLru[p]) :
            PartOf[k] = p /\ tier[k] # "none" /\ policy.offload

\* The memory tier's byte counter, its LRU order and the objects that say they
\* are in memory are the same thing, and fit the capacity.
MemAccounting ==
    \A p \in Parts :
        /\ IsInjective(memLru[p])
        /\ Range(memLru[p]) = {k \in Keys : PartOf[k] = p /\ tier[k] = "memory"}
        /\ memUsed[p] = Len(memLru[p])
        /\ memUsed[p] <= MemCap

\* The offload tier never holds more than its capacity, unless it is unlimited.
OffloadFits ==
    ~policy.unlimited => \A p \in Parts : Len(offLru[p]) <= OffCap

\* The write filter: with write_back and demote_policy if_read, a memory tier
\* that evicts writes only blocks to the offload tier that were read.
OnlyReadBlocksWritten ==
    /\ policy.write = "write_back" /\ policy.demote = "if_read"
    /\ policy.evict = "lru" /\ MemCap > 0
    => \A p \in Parts : \A k \in Range(offLru[p]) : read[k]

\* The objects, the two LRU orders and the byte counter are one state: each
\* tier's order holds the keys whose objects say so, each once and in its own
\* partition, within the capacity.
TiersExact == StoreTypeOK /\ OffloadOwned /\ MemAccounting /\ OffloadFits

Full(p) == ~policy.unlimited /\ Len(offLru[p]) >= OffCap

\* A block leaves the store only when its tier was full: from the offload tier
\* by a write to a full one; from the memory tier as the oldest entry of a full
\* one, and with an offload tier below only if it was never read and the copy
\* that write_through made is gone or goes with this put.  A block that was
\* read is lost so only if the offload tier holds a single block.
LossNeedsPressure ==
    [][\A k \in Keys :
        LET p == PartOf[k]
        IN  tier[k] # "none" /\ tier'[k] = "none" =>
            \/ tier[k] = "ssd" /\ Full(p)
            \/ /\ tier[k] = "memory"
               /\ k = Head(memLru[p]) /\ memUsed[p] = MemCap
               /\ policy.offload =>
                    \/ /\ policy.demote = "if_read" /\ ~read[k]
                       /\ Contains(k) => Full(p)
                    \/ OffCap = 1 /\ Full(p)]_storeVars

\* config.py:65: a write past the tier's capacity evicts.  A demotion rewrites
\* the write-through copy of its block and evicts first even so, but the put
\* that caused it fills that slot: over a whole put, data leaves the offload
\* tier only if what it held and what was written do not fit together.
EvictsOnlyPastCapacity ==
    [][\A p \in Parts :
        Range(offLru[p]) \ Range(offLru'[p]) # {} =>
            Cardinality(Range(offLru[p]) \cup Range(offLru'[p])) > OffCap]_storeVars

\* Nothing leaves the store, or a tier of it, while there is room.
LeavesUnderPressure == LossNeedsPressure /\ EvictsOnlyPastCapacity
=============================================================================
