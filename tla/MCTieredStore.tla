---------------------------- MODULE MCTieredStore ----------------------------
(* The store for TLC, without and with its counters: two ranks, the first    *)
(* with one key more than its two tiers hold together, the second with one   *)
(* key.  Without the counters there is any number of calls; with them a      *)
(* bounded number, all on the first rank.                                    *)
EXTENDS StoreLedger, TLC

CONSTANTS ka, kb, kc, kd, ke, kf,   \* keys
          p1, p2              \* partitions

MCKeys == {ka, kb, kc, kd, ke, kf}
MCParts == {p1, p2}
MCPartOf == ka :> p1 @@ kb :> p1 @@ kc :> p1 @@ kd :> p1 @@ ke :> p1
            @@ kf :> p2

\* Two requests with a common prefix, one on its own.
MCChains == {<<ka, kb>>, <<ka, kc>>, <<kf>>}

\* Every policy with an offload tier and LRU eviction, and two without.
CountedPolicies ==
    {p \in Policies : p.offload /\ p.evict = "lru"}
    \cup {p \in Policies : /\ p.offload # (p.evict = "lru")
                           /\ p.write = "write_back" /\ p.credit = "walked"
                           /\ p.demote = "always" /\ ~p.unlimited}

VARIABLE counting   \* whether the counters are kept

MCInit ==
    /\ counting \in BOOLEAN
    /\ StoreInit /\ CountersInit
    /\ counting => policy \in LedgerPolicies

MCNext ==
    /\ UNCHANGED counting
    /\ \/ ~counting /\ StoreNext /\ UNCHANGED ledgerVars
       \/ counting /\ \E k \in Keys \ {kf} : LedgerPut(k) \/ LedgerGet(k)
       \/ counting /\ LedgerLookup(<<ka, kb>>)

MCSpec == MCInit /\ [][MCNext]_<<ledgerAll, counting>>

\* No chain of requests tells these two keys apart.
MCSymmetry == Permutations({kd, ke})
=============================================================================
