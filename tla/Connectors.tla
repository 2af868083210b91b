---- MODULE Connectors ----
\* The connectors of the workers of a cluster (TokenSim/kv_transfer/connectors)
\* and the services behind them: which connector of a worker counts a transfer
\* plan, what the worker waits for, which store a connector works on and under
\* which key. A worker has one connector, or a MultiConnector over children of
\* the kinds "p2p", "mooncake" (direct transfer) and "store".
\*
\* The prompt of a request is one chunk; a step looks one chunk up, loads it on
\* a hit and saves it on a miss. That two hand-overs to a worker may meet before
\* its next step is Cluster's; here the second waits.
EXTENDS Integers, Sequences, FiniteSets, FiniteSetsExt, SequencesExt, Functions, Listings

CONSTANTS
  Workers,   \* the workers, integers
  Layouts,   \* the configurations, as records:
             \*   kinds    of the children, or of the only connector
             \*   multi    whether they are children of a MultiConnector
             \*   overlap  load_async and transfer_overlap of the mooncake connectors
             \*   ranks    the data-parallel rank of each worker
  Chunks,    \* the prompts
  MaxPlans   \* bound on the plans made

VARIABLES
  layout,    \* the configuration the workers were built with
  stored,    \* per service, the keys in its store
  saved,     \* the chunks each worker has finished saving
  bound,     \* per worker, the metadata bound to its connectors
  incoming,  \* per worker, the load plan of a hand-over not yet bound
  loading,   \* whether the worker is between start_load_kv and wait_for_save
  plans,     \* how many plans were made
  tally,     \* how many connectors counted a load or a save of a plan
  loadWait,  \* load_wait_time of the connectors of each worker, added up
  waited     \* the time each worker really waited for loads

connectorsVars == <<layout, stored, saved, bound, incoming, loading, plans, tally,
                    loadWait, waited>>

\* A worker without a MultiConnector has one connector.
ASSUME ConnectorsAssumption == \A l \in Layouts :
  /\ l.kinds \in Seq({"p2p", "mooncake", "store"})
  /\ ~l.multi => DOMAIN l.kinds = {1}

Kinds == layout.kinds
Children == DOMAIN Kinds

\* Faulty variant: a connector of its own service for every worker.
ServicePerWorker(w, c) == <<w, c>>

\* get_mooncake_service: one service for one engine_id and configuration. The
\* workers share the engine_id of the cluster's configuration; a child's
\* configuration names none and draws a fresh one on every worker.
Service(w, c) == IF layout.multi THEN <<w, c>> ELSE <<0, c>>

\* build_key_metadata: the ranks are part of the key.
Key(w, chunk) == <<layout.ranks[w], chunk>>

\* Whether lookup on some store child of w finds the chunk.
Finds(w, chunk) ==
  \E c \in Children : Kinds[c] = "store" /\ Key(w, chunk) \in stored[Service(w, c)]

\* Faulty variant: the direct transfers are the store's too.
OwnsTransfers(kind, plan) ==
  CASE kind = "p2p" -> TRUE
    [] kind = "mooncake" -> plan.kind = "mooncake"
    [] kind = "store" -> plan.kind # "p2p"

\* _own_plans; the base connector, and so P2PConnector, has no filter.
Owns(kind, plan) ==
  CASE kind = "p2p" -> TRUE
    [] kind = "mooncake" -> plan.kind = "mooncake"
    [] kind = "store" -> plan.kind = "store"

\* The connectors of a worker that count a plan.
Counting(plan) == {c \in Children : Owns(Kinds[c], plan)}

\* tally after the connectors of a worker ran over the plans in a direction.
Tallied(ps, way) ==
  LET ran == {<<p.id, way>> : p \in ps}
      Of(x) == CHOOSE p \in ps : p.id = x[1]
  IN  [x \in ran \cup DOMAIN tally |->
         IF x \in ran THEN Cardinality(Counting(Of(x))) ELSE tally[x]]

\* The latencies of the plans (1 each) that a child records as load wait, and
\* those start_load_kv returns: none where the transfer overlaps.
Recorded(ps) == SumFunction([p \in ps |-> Cardinality(Counting(p))])

\* Faulty variant: a MultiConnector waits for its slowest child.
BlockingOfSlowest(ps) ==
  Max({0} \cup {Cardinality({p \in ps : Owns(Kinds[c], p)}) : c \in Children})

\* What start_load_kv returns, added up over the children.
Blocking(ps) ==
  LET blocks(c) == ~layout.overlap \/ Kinds[c] = "p2p"
  IN  SumFunction([p \in ps |-> Cardinality({c \in Counting(p) : blocks(c)})])

NoPlans == [loads |-> {}, saves |-> {}]
Plan(kind, chunk) == [id |-> plans + 1, kind |-> kind, chunk |-> chunk]

ConnectorsInit ==
  /\ layout \in Layouts
  /\ stored = [s \in {Service(w, c) : w \in Workers, c \in Children} |-> {}]
  /\ saved = [w \in Workers |-> {}]
  /\ bound = [w \in Workers |-> NoPlans]
  /\ incoming = [w \in Workers |-> {}]
  /\ loading = [w \in Workers |-> FALSE]
  /\ plans = 0 /\ tally = <<>>
  /\ loadWait = [w \in Workers |-> 0] /\ waited = [w \in Workers |-> 0]

HasStore == \E c \in Children : Kinds[c] = "store"

\* A step up to start_load_kv, for a request with the given prompt: the store
\* child plans a load on a hit and a save on a miss; the pending metadata of a
\* hand-over is merged in and all of it is bound to every child.
StartStep(w, chunk) ==
  /\ ~loading[w] /\ plans < MaxPlans
  /\ LET plan == Plan("store", chunk)
         mine == IF HasStore THEN {plan} ELSE {}
         loads == incoming[w] \cup IF Finds(w, chunk) THEN mine ELSE {}
         saves == IF Finds(w, chunk) THEN {} ELSE mine
     IN  /\ bound' = [bound EXCEPT ![w] = [loads |-> loads, saves |-> saves]]
         /\ plans' = plans + Cardinality(mine)
         /\ tally' = Tallied(loads, "load")
         /\ loadWait' = [loadWait EXCEPT ![w] = @ + Recorded(loads)]
         /\ waited' = [waited EXCEPT ![w] = @ + Blocking(loads)]
  /\ incoming' = [incoming EXCEPT ![w] = {}]
  /\ loading' = [loading EXCEPT ![w] = TRUE]
  /\ UNCHANGED <<layout, stored, saved>>

\* wait_for_save at the end of the step: the store child writes its plans.
EndStep(w) ==
  /\ loading[w]
  /\ LET saves == bound[w].saves
         mine(c) == {p \in saves : Kinds[c] = "store" /\ Owns("store", p)}
     IN  /\ tally' = Tallied(saves, "save")
         /\ stored' = [s \in DOMAIN stored |->
                         stored[s] \cup UNION {{Key(w, p.chunk) : p \in mine(c)} :
                           c \in {c \in Children : Service(w, c) = s}}]
         /\ saved' = [saved EXCEPT ![w] = @ \cup UNION {{p.chunk : p \in mine(c)} : c \in Children}]
  /\ loading' = [loading EXCEPT ![w] = FALSE]
  /\ UNCHANGED <<layout, bound, incoming, plans, loadWait, waited>>

\* The kind of the plan of a hand-over: that of the first child with
\* build_transfer_plan, or the default P2P plan of a connector without one.
TransferKind ==
  LET builders == Kept(Kinds, {"p2p", "mooncake"})
  IN  IF builders = <<>> THEN "p2p" ELSE Head(builders)

\* dispatch_prefill_to_decode: the sender binds and saves the plan, the
\* receiver gets it with its ADD. A MultiConnector without a child that builds
\* plans raises instead.
HandOver(w, v, chunk) ==
  /\ w # v /\ ~loading[w] /\ incoming[v] = {} /\ plans < MaxPlans
  /\ layout.multi => \E c \in Children : Kinds[c] # "store"
  /\ LET plan == Plan(TransferKind, chunk) IN
       /\ bound' = [bound EXCEPT ![w] = [loads |-> {}, saves |-> {plan}]]
       /\ tally' = Tallied({plan}, "save")
       /\ incoming' = [incoming EXCEPT ![v] = {plan}]
  /\ plans' = plans + 1
  /\ UNCHANGED <<layout, stored, saved, loading, loadWait, waited>>

ConnectorsNext ==
  \E w \in Workers :
    \/ \E chunk \in Chunks : StartStep(w, chunk)
    \/ EndStep(w)
    \/ \E v \in Workers, chunk \in Chunks : HandOver(w, v, chunk)

ConnectorsSpec == ConnectorsInit /\ [][ConnectorsNext]_connectorsVars

-----------------------------------------------------------------------------
\* One child transfers directly, and a store beside it takes what is not evicted:
\* a p2p connector is the only one, since it executes every plan it sees.
OneDirectChild ==
  /\ IsInjective(Kinds)
  /\ \/ Kinds = <<"p2p">>
     \/ "mooncake" \in Range(Kinds) /\ "p2p" \notin Range(Kinds)

\* Every load and every save of a plan is counted by one connector, neither
\* dropped nor counted by two children ("Each child contributes transfer plans
\* and metrics", docs/mooncake.md:133).
CountedOnce == \A x \in DOMAIN tally : tally[x] = 1

\* The load wait the connectors report is the time the worker waited.
ReportedWaitIsWait == \A w \in Workers : loadWait[w] = waited[w]

\* Siblings below a MultiConnector see each other's plans: each plan is counted
\* by one of them, and unless transfers overlap the load wait they report is what
\* the worker waited (_own_plans(), start_load_kv()).
PlansKeptApart ==
  /\ OneDirectChild => CountedOnce
  /\ ~layout.overlap => ReportedWaitIsWait

\* What one worker has saved, every worker of its data-parallel group finds: the
\* store is shared, also by the workers that disaggregated placement sends related
\* requests to (docs/prefix-cache.md:72-76). Not so below a MultiConnector, whose
\* store children each have a service of their own, nor across groups, whose rank
\* is part of the key. Nothing is evicted here.
SavedIsFound == ~layout.multi /\ HasStore =>
  \A v, w \in Workers : layout.ranks[v] = layout.ranks[w] =>
    \A chunk \in saved[v] : Finds(w, chunk)
====
