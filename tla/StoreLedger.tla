----------------------------- MODULE StoreLedger -----------------------------
(***************************************************************************)
(* TieredStore with the statistics MooncakeStats keeps of it and the marks *)
(* that the optional counters need: which offload copy was read back, why  *)
(* a key left the store, whether the memory tier served a block.  The      *)
(* results of the study are these counters, so they must agree with each   *)
(* other and with what the store holds.                                    *)
(*                                                                         *)
(* A block has one size, so byte counters follow block counters.           *)
(***************************************************************************)
EXTENDS TieredStore

CONSTANTS
    LedgerPolicies,  \* the policies to run with
    MaxCalls         \* bound: store calls of a run

VARIABLES
    n,         \* MooncakeStats, in blocks
    unread,    \* _hbf_unread: keys whose latest offload copy nobody read
    seen,      \* _seen_keys
    departed,  \* _departed: why a key left, "" if unknown
    served     \* keys whose pcm_served_reads > 0

ledgerVars == <<n, unread, seen, departed, served>>
ledgerAll == <<storeVars, ledgerVars>>

Bit(b) == IF b THEN 1 ELSE 0

Counters ==
    {"put", "get", "hit", "miss", "memoryHit", "diskHit", "admitted", "rejected",
     "bypassed", "memoryWrites", "memoryEvictions", "useful", "wasted", "dropped",
     "demoted", "ssdReads", "ssdWrites", "ssdEvictions", "gatePasses",
     "gatePassesServed", "written", "readBack", "first", "afterDrop",
     "afterHbfEvict", "afterOther"}

\* The counters after adding what `more` says of some of them.
Counted(more) == [c \in Counters |-> n[c] + (IF c \in DOMAIN more THEN more[c] ELSE 0)]

Calls == n.put + n.get + n.hit + n.miss

-----------------------------------------------------------------------------
(* What a put does to the counters *)

\* The put of k must evict the oldest block of the memory tier.
Evicts(k) ==
    /\ tier[k] = "none" /\ memUsed[PartOf[k]] >= MemCap
    /\ CanEvict(Contents, PartOf[k])

Admits(k) == tier[k] = "none" /\ (memUsed[PartOf[k]] < MemCap \/ Evicts(k))

Bypasses(k) == tier[k] = "none" /\ ~Admits(k) /\ policy.offload

Oldest(k) == Head(memLru[PartOf[k]])

Drops(v) == policy.demote = "if_read" /\ ~read[v]

Demotes(k) == Evicts(k) /\ policy.offload /\ ~Drops(Oldest(k))

\* The store just before the demotion of v, and before the admission of k.
BeforeDemotion(v) == [Popped(Contents, PartOf[v]) EXCEPT !.tier[v] = "ssd"]

BeforeAdmission(k) == IF Evicts(k) THEN EvictMemory(Contents, PartOf[k]) ELSE Contents

\* A write of k to the offload tier that evicts another key of the store.
PushesOut(s, k) ==
    /\ FullTier(s, PartOf[k])
    /\ Head(s.offLru[PartOf[k]]) # k /\ s.tier[Head(s.offLru[PartOf[k]])] # "none"

\* Faulty variant of WritesCopy: a bypass is not counted as a write.
WritesCopyAdmitted(k) == Admits(k) /\ WritesThrough

\* The put of k writes k itself to the offload tier.
WritesCopy(k) == (Admits(k) /\ WritesThrough) \/ Bypasses(k)

\* Faulty variant of LostToHbf: a demotion's victims are forgotten unrecorded.
LostToHbfAdmission(k) ==
    IF WritesCopy(k) THEN OffloadVictims(BeforeAdmission(k), k) ELSE {}

\* The keys that lose their only copy in the put of k.
LostToHbf(k) ==
    (IF Demotes(k) THEN OffloadVictims(BeforeDemotion(Oldest(k)), Oldest(k)) ELSE {})
    \cup (IF WritesCopy(k) THEN OffloadVictims(BeforeAdmission(k), k) ELSE {})

\* A dropped block leaves the store unless its write-through copy stays.
LostToDrop(k) ==
    {v \in Keys : /\ Evicts(k) /\ v = Oldest(k) /\ ~Demotes(k)
                  /\ policy.offload => ~Contains(v)}

\* _record_departure(): the latest departure wins; a memory admission pops it.
Left(k) ==
    [v \in Keys |-> IF v \in LostToHbf(k) THEN "hbf_evict"
                    ELSE IF v \in LostToDrop(k)
                    THEN (IF policy.offload THEN "if_read_drop" ELSE "other")
                    ELSE IF v = k /\ Admits(k) THEN "" ELSE departed[v]]

\* _record_admit_source(): why k was not in the store.
Source(k) ==
    IF k \notin seen THEN "first"
    ELSE IF departed[k] = "if_read_drop" THEN "afterDrop"
    ELSE IF departed[k] = "hbf_evict" THEN "afterHbfEvict" ELSE "afterOther"

\* Faulty variant of PushedOut: the victims of an admission are not counted.
PushedOutByDemotion(k) == Bit(Demotes(k) /\ PushesOut(BeforeDemotion(Oldest(k)), Oldest(k)))

\* The blocks of the put of k that the offload tier evicts while it writes.
PushedOut(k) ==
    Bit(Demotes(k) /\ PushesOut(BeforeDemotion(Oldest(k)), Oldest(k)))
    + Bit(WritesCopy(k) /\ PushesOut(BeforeAdmission(k), k))

\* The demotion that the put of k causes passes the if_read gate.
Passes(k) == Demotes(k) /\ policy.demote = "if_read"

\* What the put of k adds to the counters: _put_one(), _evict_memory_lru() and
\* record_memory_eviction().
PutCounts(k) ==
    [put |-> 1, admitted |-> Bit(Admits(k) \/ Bypasses(k)), bypassed |-> Bit(Bypasses(k)),
     rejected |-> Bit(tier[k] = "none" /\ ~Admits(k) /\ ~Bypasses(k)),
     memoryWrites |-> Bit(Admits(k)), memoryEvictions |-> Bit(Evicts(k)),
     useful |-> Bit(Evicts(k) /\ read[Oldest(k)]),
     wasted |-> Bit(Evicts(k) /\ ~read[Oldest(k)]),
     demoted |-> Bit(Demotes(k)), dropped |-> Bit(Evicts(k) /\ ~Demotes(k)),
     ssdWrites |-> Bit(Demotes(k)) + Bit(WritesCopy(k)),
     written |-> Bit(Demotes(k)) + Bit(WritesCopy(k)), ssdEvictions |-> PushedOut(k),
     gatePasses |-> Bit(Passes(k)),
     gatePassesServed |-> Bit(Passes(k) /\ Oldest(k) \in served)]

AddSource(c, k) == IF Admits(k) THEN [c EXCEPT ![Source(k)] = @ + 1] ELSE c

-----------------------------------------------------------------------------
(* The store's operations with their counters *)

LedgerPut(k) ==
    /\ Calls < MaxCalls
    /\ PutKey(k)
    /\ n' = AddSource(Counted(PutCounts(k)), k)
    /\ unread' = unread \cup {v \in Keys : \/ Demotes(k) /\ v = Oldest(k)
                                           \/ WritesCopy(k) /\ v = k}
    /\ seen' = seen \cup {v \in {k} : Admits(k) \/ Bypasses(k)}
    /\ departed' = Left(k)
    /\ served' = served \ {v \in Keys : tier'[v] = "none" \/ tier[v] = "none"}

OnOffload(k) == tier[k] = "ssd" /\ policy.offload

\* Faulty variant of ReadsBack: every read of an offload copy counts.
ReadsBackAgain(k) == OnOffload(k) /\ Contains(k)

\* The first read of an offload copy.
ReadsBack(k) == OnOffload(k) /\ Contains(k) /\ k \in unread

LedgerGet(k) ==
    /\ Calls < MaxCalls
    /\ GetKey(k)
    /\ n' = Counted([get |-> 1, ssdReads |-> Bit(OnOffload(k) /\ Contains(k)),
                     readBack |-> Bit(ReadsBack(k))])
    /\ unread' = unread \ {v \in {k} : ReadsBack(k)}
    /\ served' = served \cup {v \in {k} : tier[k] # "none" /\ ~OnOffload(k)}
    /\ UNCHANGED <<seen, departed>>

LedgerLookup(chain) ==
    /\ Calls < MaxCalls
    /\ Lookup(chain)
    /\ LET hits == HitKeys(Contents, chain)
           onDisk == \E k \in hits : tier[k] = "ssd"
       IN  n' = Counted([hit |-> Bit(hits # {}), miss |-> Bit(hits = {}),
                         diskHit |-> Bit(onDisk), memoryHit |-> Bit(hits # {} /\ ~onDisk)])
    /\ UNCHANGED <<unread, seen, departed, served>>

CountersInit ==
    /\ n = [c \in Counters |-> 0]
    /\ unread = {} /\ seen = {} /\ served = {}
    /\ departed = [k \in Keys |-> ""]

LedgerInit == StoreInit /\ policy \in LedgerPolicies /\ CountersInit

LedgerNext ==
    \/ \E k \in Keys : LedgerPut(k) \/ LedgerGet(k)
    \/ \E chain \in Chains : LedgerLookup(chain)

LedgerSpec == LedgerInit /\ [][LedgerNext]_ledgerAll

-----------------------------------------------------------------------------
(* Properties *)

\* test_mooncake_simulator.py:1411: what the offload tier was made to write is
\* exactly the admissions (write_through) or the bypasses (write_back) plus the
\* demotions; the study's write volumes rest on it.
WriteIdentity ==
    policy.offload =>
        n.ssdWrites = n.demoted + (IF WritesThrough THEN n.admitted ELSE n.bypassed)

\* metrics.py:160: the four sources of memory admissions add up to them, and
\* with an offload tier every key that is gone has a known reason, so that
\* "other" stays 0.
SourcesKnown ==
    /\ n.first + n.afterDrop + n.afterHbfEvict + n.afterOther = n.memoryWrites
    /\ policy.offload =>
        /\ n.afterOther = 0
        /\ \A k \in seen : tier[k] = "none" => departed[k] # ""

\* metrics.py:149: a written block counts as read back at most once before it
\* is written again, however often it is read.
ReadBackOnce ==
    /\ n.readBack + Cardinality(unread) <= n.written
    /\ n.readBack <= n.ssdReads

\* With read_credit "served" a block passes the if_read gate only if the memory
\* tier has served it.
GatePassesServed == policy.credit = "served" => n.gatePassesServed = n.gatePasses

\* MooncakeStats agrees with itself and with what the store did: writes with their
\* causes, admissions with the reason the key was gone, read-backs with what was
\* written, the gate with its credit rule.
CountersAgree == WriteIdentity /\ SourcesKnown /\ ReadBackOnce /\ GatePassesServed

\* The keys in the memory tier, and those that the offload tier has data of.
InMemory == {k \in Keys : tier[k] = "memory"}

OnFlash == {k \in Keys : Contains(k)}

\* Once calls are counted, what a tier holds is what was written to it less what
\* left it: the memory tier always, the offload tier when no copy is written twice.
ContentsCounted ==
    Calls > 0 =>
        /\ n.memoryWrites - n.memoryEvictions = Cardinality(InMemory)
        /\ policy.write = "write_back" =>
            n.ssdWrites - n.ssdEvictions = Cardinality(OnFlash)
=============================================================================
