--------------------------- MODULE StoreConnector ---------------------------
(***************************************************************************)
(* A hybrid worker whose scheduler offloads KV blocks through the          *)
(* MooncakeStoreConnector, alone or as a child of a MultiConnector.        *)
(*                                                                         *)
(* The connector's hooks run inside the scheduler's steps: the store       *)
(* lookup and the eviction hook inside an admission, build_connector_meta  *)
(* and start_load_kv when the batch is known, request_finished when a      *)
(* request is freed, wait_for_save and the feedback at the end of the      *)
(* step.  So each action here is one of PagedScheduler with what the       *)
(* connector adds to it.  The store is the one of TieredStore, and a list  *)
(* of keys is handled key by key.                                          *)
(***************************************************************************)
EXTENDS PagedScheduler, Listings

CONSTANTS
    Configs,   \* configurations to choose from
    MemCap, OffCap

VARIABLES
    cfg,           \* save_policy, hbm_evict_save_policy, store_lookup_start,
                   \* load_span, load_async; multi: inside a MultiConnector;
                   \* policy: the store's own
    store,         \* the contents of the MooncakeStore
    matched,       \* blocks found at a request's admission, in HBM and beyond
    pendingLoads,  \* _pending_loads: the keys to load
    loads, saves,  \* the plans of the step's KVConnectorMetadata
    savedIds,      \* _saved_request_ids
    pendingPuts,   \* _pending_async_puts
    delayed,       \* _delayed_releases
    preempted,     \* requests preempted in this step
    everLoaded     \* history: the requests that ever loaded from the store

connVars == <<cfg, store, matched, pendingLoads, loads, saves, savedIds,
              pendingPuts, delayed, preempted, everLoaded>>
everything == <<allVars, connVars>>

Store == INSTANCE TieredStore WITH
    Parts <- {1}, PartOf <- [k \in Keys |-> 1], Chains <- {InputKeys[r] : r \in Reqs},
    policy <- cfg.policy, tier <- store.tier, read <- store.read,
    memLru <- store.memLru, memUsed <- store.memUsed, offLru <- store.offLru

ASSUME ConnAssumption ==
    /\ MemCap \in Nat
    /\ OffCap \in Nat \ {0}
    /\ Configs \subseteq
        [save : {"mooncake", "every_step"},
         evict : {"prefill", "on_evict", "spill_only", "count"},
         lookup : {"zero", "after_hbm"}, span : {"from_start", "missing"},
         async : BOOLEAN, multi : BOOLEAN, policy : Store!Policies]

Aligned == cfg.save = "mooncake"

\* Under a MultiConnector the scheduler finds no eviction hook and no way to
\* hand over its block releaser, and preemptions are not forwarded.
HookInstalled == cfg.evict # "prefill" /\ ~cfg.multi
ReleaserInstalled == ~cfg.multi

InStore(k) == Store!Served(store, k)

\* The store after a put, or a get, of each key of a list in turn ...
PutAll(s, keys) ==
    LET after[i \in 0 .. Len(keys)] ==
            IF i = 0 THEN s ELSE Store!Put(after[i - 1], keys[i])
    IN  after[Len(keys)]

GotAll(s, keys) ==
    LET after[i \in 0 .. Len(keys)] ==
            IF i = 0 THEN s ELSE Store!Got(after[i - 1], keys[i])
    IN  after[Len(keys)]

\* ... and after the plans of a step.
PutPlans(s, plans) ==
    LET after[i \in 0 .. Len(plans)] ==
            IF i = 0 THEN s ELSE PutAll(after[i - 1], plans[i].keys)
    IN  after[Len(plans)]

GotPlans(s, plans) ==
    LET after[i \in 0 .. Len(plans)] ==
            IF i = 0 THEN s ELSE GotAll(after[i - 1], plans[i].keys)
    IN  after[Len(plans)]

-----------------------------------------------------------------------------
(* The lookup of an admission *)

\* The block before which the lookup does not look.
LookupStart(local) == IF cfg.lookup = "after_hbm" THEN local ELSE 0

\* The number of leading keys after block `from` that the store has.
Found(r, from) ==
    Cardinality({i \in from + 1 .. Len(InputKeys[r]) :
                    \A j \in from + 1 .. i : InStore(InputKeys[r][j])})

\* A full hit leaves the last block to compute.
Capped(r, n) ==
    IF Aligned /\ n * BlockSize >= PrefillLen[r] THEN (PrefillLen[r] - 1) \div BlockSize ELSE n

\* Faulty variant of External: a capped full hit of HBM counts as a negative one.
ExternalUnguarded(r, local) ==
    LET from == LookupStart(local) IN Capped(r, from + Found(r, from)) - local

\* External blocks beyond the `local` ones hit in HBM.
External(r, local) ==
    LET from == LookupStart(local)
        found == Found(r, from)
        end == Capped(r, from + found)
    IN  IF found = 0 \/ end <= local THEN 0 ELSE end - local

\* The first block that the load plan reads is the one after this.
LoadStart(local) == IF cfg.span = "missing" THEN local ELSE LookupStart(local)

\* Faulty variant of EvictedKeys: the hook misses the last block.
EvictedKeysButLast(new) ==
    Kept([i \in 1..Len(new) - 1 |-> IF cached[new[i]] THEN hash[new[i]] ELSE NoKey], Keys)

\* The keys of the cached blocks among those just popped, in pop order.
EvictedKeys(new) ==
    Kept([i \in DOMAIN new |-> IF cached[new[i]] THEN hash[new[i]] ELSE NoKey], Keys)

\* Faulty variant of Spilled: the hook stores whatever the policy.
SpilledAlways(s, new) == PutAll(s, EvictedKeys(new))

\* The hook stores what HBM evicts.
Spills == HookInstalled /\ cfg.evict \in {"on_evict", "spill_only"}

\* _on_hbm_evict() of each block popped by allocate().
Spilled(s, new) == IF Spills THEN PutAll(s, EvictedKeys(new)) ELSE s

-----------------------------------------------------------------------------
(* The step of the worker, with the connector's hooks *)

Forgotten(f, R) == [r \in Reqs |-> IF r \in R THEN <<>> ELSE f[r]]

\* The store is looked up before the blocks are allocated, and the evictions
\* of the allocation come after it.
SAdmit ==
    /\ Admit
    /\ LET r == Head(waiting)
           local == CHOOSE h \in 0..Len(InputKeys[r]) : IsHitCount(r, h)
           ext == External(r, local)
           new == SubSeq(held'[r], local + 1, Len(held'[r]))
           from == LookupStart(local)
       IN  /\ matched' = [matched EXCEPT ![r] = [local |-> local, ext |-> ext]]
           /\ pendingLoads' =
                [pendingLoads EXCEPT ![r] =
                    IF ext = 0 THEN @
                    ELSE SubSeq(InputKeys[r], LoadStart(local) + 1, LoadStart(local) + ext)]
           /\ store' = Spilled(Store!Credited(store, SubSeq(InputKeys[r], from + 1, Len(InputKeys[r]))), new)
    /\ UNCHANGED <<cfg, loads, saves, savedIds, pendingPuts, delayed, preempted, everLoaded>>

SGiveSlot ==
    /\ GiveSlot
    /\ LET r == Head(todo)
       IN  store' = Spilled(store, SubSeq(held'[r], Len(held[r]) + 1, Len(held'[r])))
    /\ UNCHANGED <<cfg, matched, pendingLoads, loads, saves, savedIds, pendingPuts, delayed, preempted, everLoaded>>

SPreempt ==
    /\ Preempt
    /\ preempted' = preempted \cup {todo[Len(todo)]}
    /\ UNCHANGED <<cfg, store, matched, pendingLoads, loads, saves, savedIds, pendingPuts, delayed, everLoaded>>

\* Faulty variant of MaySave: spill_only saves at prefill all the same.
MaySaveSpilling(r) ==
    Aligned => gen[r] = 0 /\ r \notin savedIds /\ pendingLoads[r] = <<>>

\* Aligned with the reference, a request is saved once, during prefill, and
\* not in a step that loads it; else in every step.
MaySave(r) ==
    /\ cfg.evict # "spill_only"
    /\ Aligned => gen[r] = 0 /\ r \notin savedIds /\ pendingLoads[r] = <<>>

\* Faulty variant of SaveKeys: the existence check takes a stored key for a
\* missing one.
SaveKeysStored(r) ==
    IF Aligned THEN Kept(InputKeys[r], {k \in Keys : InStore(k)}) ELSE InputKeys[r]

\* The keys of a save plan: the missing ones, or all of the prompt.
SaveKeys(r) ==
    IF Aligned THEN Kept(InputKeys[r], {k \in Keys : ~InStore(k)}) ELSE InputKeys[r]

\* build_connector_meta() for the scheduled requests, handle_preemptions(),
\* and start_load_kv().  A step that preempted schedules nothing for it.
BuildMeta(scheduled, victims) ==
    LET plan(r, keys) == [req |-> r, keys |-> keys]
        loading == Kept(scheduled, {r \in Reqs : pendingLoads[r] # <<>>})
        saving == Kept(scheduled, {r \in Reqs : MaySave(r) /\ SaveKeys(r) # <<>>})
        once == {r \in Range(scheduled) : Aligned /\ cfg.evict # "spill_only" /\ gen[r] = 0}
        forgotten == IF cfg.multi THEN {} ELSE victims
    IN  /\ loads' = [i \in DOMAIN loading |-> plan(loading[i], pendingLoads[loading[i]])]
        /\ saves' = [i \in DOMAIN saving |-> plan(saving[i], SaveKeys(saving[i]))]
        /\ store' = GotPlans(store, loads')
        /\ pendingLoads' = Forgotten(pendingLoads, Range(scheduled) \cup forgotten)
        /\ savedIds' = (savedIds \cup once) \ forgotten
        /\ pendingPuts' = pendingPuts \cup (IF cfg.async THEN Range(saving) ELSE {})
        /\ everLoaded' = everLoaded \cup Range(loading)
        /\ UNCHANGED <<cfg, matched, delayed>>

SEndAdmission ==
    /\ EndAdmission
    /\ preempted' = {}
    /\ IF batch # <<>> THEN BuildMeta(batch, {})
       ELSE UNCHANGED <<cfg, store, matched, pendingLoads, loads, saves, savedIds, pendingPuts, delayed, everLoaded>>

SEndSlots ==
    /\ EndSlots
    /\ BuildMeta(IF preempted = {} THEN running ELSE <<>>, preempted)
    /\ UNCHANGED preempted

\* _forget_request()
Forget(R) ==
    /\ pendingLoads' = Forgotten(pendingLoads, R)
    /\ savedIds' = savedIds \ R

\* Faulty variant of SFreeOne: blocks still being saved are freed.
SFreeOneAtOnce ==
    /\ FreeOne
    /\ Forget({r \in Reqs : held[r] # <<>> /\ held'[r] = <<>>})
    /\ UNCHANGED <<cfg, store, matched, loads, saves, pendingPuts, delayed, preempted, everLoaded>>

\* free(): a request with a put in flight keeps its blocks until the feedback.
SFreeOne ==
    IF todo # <<>> /\ Head(todo) \in pendingPuts /\ IsDone(Head(todo))
    THEN /\ pc = "free"
         /\ status' = [status EXCEPT ![Head(todo)] = "WAITING_FOR_CONNECTOR_FREE"]
         /\ delayed' = delayed \cup {Head(todo)}
         /\ todo' = Tail(todo)
         /\ UNCHANGED <<vars, pc, workerStatus, mail, waiting, running, batch, needsRecompute>>
         /\ UNCHANGED <<cfg, store, matched, pendingLoads, loads, saves, savedIds, pendingPuts, preempted, everLoaded>>
    ELSE /\ FreeOne
         /\ Forget({r \in Reqs : held[r] # <<>> /\ held'[r] = <<>>})
         /\ UNCHANGED <<cfg, store, matched, loads, saves, pendingPuts, delayed, preempted, everLoaded>>

\* Faulty variant of EndUpdate: a step that leaves nothing running ends here.
EndUpdateSkipsFeedback ==
    /\ pc \in {"recompute", "free"} /\ todo = <<>>
    /\ running' \in InRowOrder({r \in Range(running) : pc = "free" => ~IsDone(r)}, running)
    /\ IF running' # <<>> THEN pc' = "save" /\ UNCHANGED workerStatus
       ELSE /\ pc' = "mailbox"
            /\ workerStatus' = IF waiting = <<>> THEN "WAITING" ELSE "RUNNING"
    /\ UNCHANGED <<vars, mail, status, waiting, todo, batch, needsRecompute, connVars>>

\* update() drops the finished requests from running; a step that ran nothing
\* ends here.
EndUpdate ==
    /\ pc \in {"recompute", "free"} /\ todo = <<>>
    /\ running' \in InRowOrder({r \in Range(running) : pc = "free" => ~IsDone(r)}, running)
    /\ IF batch # <<>> THEN pc' = "save" /\ UNCHANGED workerStatus
       ELSE /\ pc' = "mailbox"
            /\ workerStatus' = IF waiting = <<>> THEN "WAITING" ELSE "RUNNING"
    /\ UNCHANGED <<vars, mail, status, waiting, todo, batch, needsRecompute, connVars>>

\* wait_for_save()
SaveBlocks ==
    /\ pc = "save"
    /\ pc' = "feedback"
    /\ store' = PutPlans(store, saves)
    /\ UNCHANGED <<vars, workerStatus, mail, status, waiting, running, todo, batch, needsRecompute>>
    /\ UNCHANGED <<cfg, matched, pendingLoads, loads, saves, savedIds, pendingPuts, delayed, preempted, everLoaded>>

\* Every pending put counts as finished: update_connector_output() releases
\* the blocks of a delayed request ...
ReleaseDelayed(r) ==
    /\ pc = "feedback"
    /\ r \in pendingPuts \cap delayed
    /\ delayed' = delayed \ {r}
    /\ Forget({r})
    /\ IF ReleaserInstalled
       THEN Release(r) /\ status' = [status EXCEPT ![r] = "FINISHED_STOPPED"]
       ELSE UNCHANGED <<vars, status>>
    /\ UNCHANGED <<pc, workerStatus, mail, waiting, running, todo, batch, needsRecompute>>
    /\ UNCHANGED <<cfg, store, matched, loads, saves, pendingPuts, preempted, everLoaded>>

\* ... and the scheduler drops whatever was sent from running.
EndFeedback ==
    /\ pc = "feedback"
    /\ pendingPuts \cap delayed = {}
    /\ pc' = "mailbox"
    /\ workerStatus' = IF running = <<>> /\ waiting = <<>> THEN "WAITING" ELSE "RUNNING"
    /\ running' \in InRowOrder(Range(running) \ pendingPuts, running)
    /\ batch' = <<>> /\ loads' = <<>> /\ saves' = <<>>
    /\ pendingPuts' = {}
    /\ Forget(pendingPuts)
    /\ UNCHANGED <<vars, mail, status, waiting, todo, needsRecompute>>
    /\ UNCHANGED <<cfg, store, matched, delayed, preempted, everLoaded>>

ConnInit ==
    /\ SchedInit
    /\ cfg \in Configs
    /\ store = [tier |-> [k \in Keys |-> "none"], read |-> [k \in Keys |-> FALSE],
                memLru |-> <<(<<>>)>>, memUsed |-> <<0>>, offLru |-> <<(<<>>)>>]
    /\ matched = [r \in Reqs |-> [local |-> 0, ext |-> 0]]
    /\ pendingLoads = [r \in Reqs |-> <<>>]
    /\ loads = <<>> /\ saves = <<>>
    /\ savedIds = {} /\ pendingPuts = {} /\ delayed = {} /\ preempted = {}
    /\ everLoaded = {}

ConnStep ==
    \/ SAdmit \/ SGiveSlot \/ SPreempt \/ SEndAdmission \/ SEndSlots \/ SFreeOne
    \/ EndUpdate \/ SaveBlocks \/ EndFeedback
    \/ \E r \in Reqs : ReleaseDelayed(r)
    \/ /\ Receive \/ StartStep \/ FinishRecompute \/ StepOne \/ CommitOne \/ NextLoop
       /\ UNCHANGED connVars

ConnNext ==
    \/ ConnStep
    \/ \E r \in Reqs : (Deliver(r) \/ Send(r)) /\ UNCHANGED connVars

\* simpy always runs the worker's next event.
ConnSpec == ConnInit /\ [][ConnNext]_everything /\ WF_everything(ConnStep)

-----------------------------------------------------------------------------
(* Properties *)

\* Every variable of the connector has its type; plans name requests and keys.
ConnTypeOK ==
    /\ cfg \in Configs
    /\ Store!StoreTypeOK
    /\ matched \in [Reqs -> [local : Nat, ext : Nat]]
    /\ pendingLoads \in [Reqs -> Seq(Keys)]
    /\ loads \in Seq([req : Reqs, keys : Seq(Keys)])
    /\ saves \in Seq([req : Reqs, keys : Seq(Keys)])
    /\ savedIds \cup pendingPuts \cup delayed \cup preempted \cup everLoaded \subseteq Reqs

\* Between two steps nothing of the connector is in flight: every load was
\* picked up by the step that looked it up, every put was reported, and no
\* finished request still waits for its blocks unless nothing releases them.
NothingInFlight ==
    pc = "mailbox" =>
        /\ \A r \in Reqs : pendingLoads[r] = <<>>
        /\ pendingPuts = {} /\ delayed = {}
        /\ \A r \in Reqs : status[r] = "WAITING_FOR_CONNECTOR_FREE" => ~ReleaserInstalled

\* A put in flight pins its blocks: as long as a save plan of a finished
\* request has not been written, the request holds the blocks to write.
SavedBlocksStay ==
    cfg.async /\ pc \in {"free", "save"} =>
        \A i \in DOMAIN saves : held[saves[i].req] # <<>>

\* The blocks of a put in flight stay allocated, and no longer than that: between
\* two steps no put, load or delayed request is left over (request_finished(),
\* update_connector_output()).
PinnedWhileSaved == SavedBlocksStay /\ NothingInFlight

\* What the step skips is really there: every block counted as matched at the
\* admission is in HBM under the request's key, or still in the store when the
\* batch is run.
Backed(r) ==
    \A i \in 1 .. matched[r].local + matched[r].ext :
        \/ /\ i <= matched[r].local
           /\ cached[held[r][i]] /\ hash[held[r][i]] = InputKeys[r][i]
        \/ i > matched[r].local /\ InStore(InputKeys[r][i])

SkippedTokensBacked ==
    pc \in {"step", "recompute"} =>
        \A r \in Range(todo) : gen[r] = 0 \/ needsRecompute[r] => Backed(r)

\* A lookup counts as matched what can be skipped (schedule() and the connector's
\* hooks): no number of tokens below zero whatever HBM and store have in common,
\* and nothing that is not there when the batch runs.  An allocation that spills
\* into a full store may push out what the lookup before it found, so
\* connectors that spill are left out.
MatchesSound == ConnTypeOK /\ (~Spills => SkippedTokensBacked)

\* A store that loses nothing.
Roomy == cfg.policy.offload /\ cfg.policy.unlimited /\ cfg.policy.demote = "always"

\* A prompt block that prefill computed is offered to the store once a step
\* has saved it (wait_for_save() of the plans of build_connector_meta()): with
\* room for everything and the reference's save policy, the keyed prompt of
\* every request that has a token is in the store, unless it ever loaded from
\* the store, since a step that loads does not save.
PrefillIsSaved ==
    Aligned /\ cfg.evict # "spill_only" /\ Roomy /\ pc = "mailbox" =>
        \A r \in Range(running) \ everLoaded :
            \A k \in Range(InputKeys[r]) : InStore(k)

\* A key that leaves the prefix cache is not lost when the store loses nothing:
\* whatever path made room for the block, _on_hbm_evict() has stored it.
SpillsKept ==
    [][Roomy /\ Spills =>
        \A k \in Keys :
            index[k] # NoBlock /\ index'[k] = NoBlock => Store!Served(store', k)]_everything

\* config.py:27 says of spill_only that a block enters the store only when HBM
\* evicts it: a key enters in the very step in which its block is reused.
OnlySpilledEnter ==
    [][cfg.evict = "spill_only" =>
        \A k \in Keys : store.tier[k] = "none" /\ store'.tier[k] # "none" =>
            \E b \in Blocks : cached[b] /\ hash[b] = k /\ ~cached'[b]]_everything

\* The eviction hook is the store's only way in and no way out: what it spills is
\* kept, and spill_only stores nothing else.
SpillsExact == SpillsKept /\ OnlySpilledEnter

-----------------------------------------------------------------------------
(* What the documents and comments say *)

\* docs/parallelism.md:15 says a hybrid worker accepts both prefill and
\* decode: a request it admitted and did not finish is still scheduled.
RunningIsScheduled ==
    pc = "mailbox" => \A r \in Reqs : status[r] = "RUNNING" => r \in Range(running)
=============================================================================
