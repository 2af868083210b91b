-------------------------- MODULE MCStoreConnector --------------------------
(* StoreConnector for TLC: four blocks of two tokens and four requests with  *)
(* common prefixes.  The store has two blocks of memory, over an unlimited   *)
(* offload tier or alone.  With asynchronous transfers requests have one     *)
(* token, since a hybrid worker drops longer ones.                           *)
EXTENDS StoreConnector, TLC

CONSTANTS ka, kb, kc, kd,   \* keys
          r1, r2, r3, r4    \* requests

\* r2 extends r1's prompt by a block; r3 repeats r1's prompt; r4's is its own.
MCKeys == {ka, kb, kc, kd}
MCReqs == {r1, r2, r3, r4}
MCPrefillLen == r1 :> 4 @@ r2 :> 5 @@ r3 :> 4 @@ r4 :> 3
MCDecodeLen == r1 :> 2 @@ r2 :> 1 @@ r3 :> 3 @@ r4 :> 2
MCInputKeys == r1 :> <<ka, kb>> @@ r2 :> <<ka, kb>> @@ r3 :> <<ka, kc>> @@ r4 :> <<kd>>
MCOutputKeys == [r \in MCReqs |-> <<>>]
MCArrival == r1 :> 1 @@ r2 :> 2 @@ r3 :> 2 @@ r4 :> 2

\* Requests that are done with their prefill step.
MCOneToken == [r \in MCReqs |-> 1]

MCPolicy(offload, unlimited) ==
    [offload |-> offload, unlimited |-> unlimited, write |-> "write_back",
     demote |-> "always", evict |-> "lru", credit |-> "served"]
MCUnlimited == MCPolicy(TRUE, TRUE)
MCMemoryOnly == MCPolicy(FALSE, FALSE)

MCConfig(save, evict, lookup, span, async, multi, policy) ==
    [save |-> save, evict |-> evict, lookup |-> lookup, span |-> span,
     async |-> async, multi |-> multi, policy |-> policy]

\* Every combination of the save and eviction policies with synchronous
\* transfers over an unlimited store, each under one lookup and load span.
MCRoomy ==
    {MCConfig("mooncake", e, l, IF l = "zero" THEN "from_start" ELSE "missing", FALSE, FALSE,
              MCUnlimited) :
        e \in {"prefill", "on_evict", "spill_only"}, l \in {"zero", "after_hbm"}}
    \cup {MCConfig("every_step", "count", "zero", "missing", FALSE, FALSE, MCUnlimited),
          MCConfig("mooncake", "prefill", "zero", "missing", FALSE, TRUE, MCUnlimited)}

\* The ones that do not spill over a small store.
MCSmall == {[c EXCEPT !.policy = MCMemoryOnly] : c \in {d \in MCRoomy : d.evict \in {"prefill", "count"}}}
MCSync == MCRoomy \cup MCSmall

\* Asynchronous transfers over a small store.
MCAsync ==
    {[c EXCEPT !.async = TRUE, !.policy = MCMemoryOnly] : c \in {d \in MCRoomy : ~d.multi}}
MCConfigs == MCSync \cup MCAsync

MCAsyncStock == {MCConfig("mooncake", "prefill", "zero", "from_start", TRUE, FALSE, MCUnlimited)}

VARIABLE short   \* whether the requests are those of one token

mcVars == <<everything, short>>

Short == INSTANCE StoreConnector WITH Configs <- MCAsync, DecodeLen <- MCOneToken

MCInit ==
    \/ short = FALSE /\ ConnInit /\ ~cfg.async
    \/ short = TRUE /\ Short!ConnInit

In(s, step) == short = s /\ step /\ UNCHANGED short

MCNext == In(FALSE, ConnNext) \/ In(TRUE, Short!ConnNext)

\* The fairness of ConnSpec with either kind of requests.
MCSpec ==
    /\ MCInit /\ [][MCNext]_mcVars
    /\ WF_mcVars(In(FALSE, ConnStep)) /\ WF_mcVars(In(TRUE, Short!ConnStep))

\* Asynchronous saves of requests that have tokens left to decode.
DecodingSpec == short = FALSE /\ ConnInit /\ [][In(FALSE, ConnNext)]_mcVars
=============================================================================
