---- MODULE ExpertRouting ----
\* The routed experts of each step (moe/routing.py) and what the workers record
\* of them (moe/stats.py, _moe_step_latency of latency/roofline.py). A worker runs
\* batches of requests; a request brings histograms of its own or gets a synthetic
\* one, and each worker's backend memoises both kinds.
EXTENDS Integers, Sequences, FiniteSets, FiniteSetsExt, SequencesExt, Functions

CONSTANTS
  Config,      \* the layout, a record as in ExpertPlacement
  Reqs,        \* the requests
  Prompt,      \* their prompt tokens to compute
  Outputs,     \* their decode_len
  Provided,    \* their histograms: [any, prefill, decode], each one or NoHistogram
  PrefillAt,   \* the worker that prefills a request
  DecodeAt,    \* the worker that decodes it
  TopK,        \* num_experts_per_tok
  Hot,         \* moe_hot_experts; the empty sequence for uniform routing
  HotShare,    \* moe_hot_expert_fraction, 0 to 100 hundredths
  CacheLimit,  \* _SYNTHETIC_CACHE_LIMIT, positive
  MaxRecompute,\* how often a request is preempted: a bound of the model
  NoHistogram

VARIABLES
  generation,  \* generation_idx of each request
  recompute,   \* the tokens a preempted request recomputes, 0 for none
  preempted,   \* how often each request was preempted
  normalized,  \* _normalized_cache of each worker
  synthetic,   \* the memoised route counts of each worker
  stats,       \* moe_stats of each worker
  asked        \* history: the routes the steps of the documents would make

routingVars ==
  <<generation, recompute, preempted, normalized, synthetic, stats, asked>>

Layout == INSTANCE ExpertPlacement
  WITH Sizes <- {}, Models <- {}, config <- Config, workers <- 0

Experts == 0 .. Config.experts - 1

Nothing == [e \in Experts |-> 0]

Plus(f, g) == [e \in DOMAIN f |-> f[e] + g[e]]

Total(f) == SumFunction(f)

WorkersUsed == {PrefillAt[r] : r \in Reqs} \cup {DecodeAt[r] : r \in Reqs}

----
\* Synthetic histograms.

\* n routes dealt in turn to a sequence of experts.
Dealt(n, list) ==
  [e \in Experts |->
     Cardinality({i \in 0 .. n - 1 : list[(i % Len(list)) + 1] = e})]

InOrder(set) == SetToSortSeq(set, <)

HotExperts ==
  LET known == SelectSeq(Hot, LAMBDA e : e \in Experts)
  IN  IF known = <<>> THEN <<0>> ELSE known

ColdExperts ==
  LET cold == Experts \ ToSet(HotExperts)
  IN  IF cold = {} THEN HotExperts ELSE InOrder(cold)

\* Faulty variant: both parts of the split are rounded down.
SyntheticRoundedDown(routes) ==
  IF Hot = <<>>
  THEN Dealt(routes, InOrder(Experts))
  ELSE Plus(Dealt((routes * HotShare) \div 100, HotExperts),
            Dealt((routes * (100 - HotShare)) \div 100, ColdExperts))

Synthetic(routes) ==
  IF Hot = <<>>
  THEN Dealt(routes, InOrder(Experts))
  ELSE LET hot == (routes * HotShare) \div 100
       IN  Plus(Dealt(hot, HotExperts), Dealt(routes - hot, ColdExperts))

----
\* The histogram of a request in its next step.

InPrefill(r) == generation[r] = 0

\* Faulty variant: the histogram for both phases comes first.
ProvidedFallbackFirst(r) ==
  LET own == IF InPrefill(r) THEN Provided[r].prefill ELSE Provided[r].decode
  IN  IF Provided[r].any # NoHistogram THEN Provided[r].any ELSE own

\* The histogram of the request's phase, or else the one for both phases.
ProvidedNow(r) ==
  LET own == IF InPrefill(r) THEN Provided[r].prefill ELSE Provided[r].decode
  IN  IF own # NoHistogram THEN own ELSE Provided[r].any

Tokens(r) ==
  IF recompute[r] > 0 THEN recompute[r] ELSE IF InPrefill(r) THEN Prompt[r] ELSE 1

\* Faulty variant: a full memo keeps its entries.
MemoisedUnbounded(memo, key, value) ==
  [k \in DOMAIN memo \cup {key} |-> IF k \in DOMAIN memo THEN memo[k] ELSE value]

\* A memo that is cleared as a whole when it is full, before the new entry.
Memoised(memo, key, value) ==
  IF key \in DOMAIN memo THEN memo
  ELSE LET kept == IF Cardinality(DOMAIN memo) >= CacheLimit THEN <<>> ELSE memo
       IN  [k \in DOMAIN kept \cup {key} |-> IF k = key THEN value ELSE kept[k]]

\* The requests of the batch one after the other: a provided histogram is
\* normalised once per request, a synthetic one made once per route count, and
\* the memo answers after that.
Routed(w, batch) ==
  LET One(step, r) ==
        IF ProvidedNow(r) # NoHistogram
        THEN LET memo == Memoised(step.normalized, r, ProvidedNow(r))
             IN  [step EXCEPT !.histogram = Plus(@, memo[r]), !.normalized = memo]
        ELSE LET routes == Tokens(r) * TopK
                 memo   == IF routes = 0 THEN step.synthetic
                           ELSE Memoised(step.synthetic, routes, Synthetic(routes))
             IN  [step EXCEPT !.histogram = IF routes = 0 THEN @ ELSE Plus(@, memo[routes]),
                              !.synthetic = memo]
  IN  FoldLeft(One, [histogram  |-> Nothing,
                     normalized |-> normalized[w],
                     synthetic  |-> synthetic[w]], batch)

----
\* The load of the expert ranks, and what the step records of it.

EpRanks == 0 .. Layout!EpRankCount(Config) - 1

RankLoad(histogram) ==
  [k \in EpRanks |->
     SumFunctionOnSet(histogram, Layout!ExpertsOfEpRank(Config, k) \cap Experts)]

\* A step of a worker whose stage has no layer with experts, or whose expert rank
\* gets none of the routes, costs nothing and records nothing.
Recording(w, histogram) ==
  LET mine == Layout!EpRank(w, Config) IN
  /\ Layout!MoeLayersOfStage(Config, Layout!RankInfo(w, Config).pp) # {}
  /\ mine \in EpRanks
  /\ RankLoad(histogram)[mine] > 0

Recorded(w, histogram) ==
  IF Recording(w, histogram)
  THEN [stats EXCEPT ![w] =
          [routed    |-> @.routed + Total(histogram),
           perExpert |-> Plus(@.perExpert, histogram),
           perRank   |-> Plus(@.perRank, RankLoad(histogram)),
           all2all   |-> @.all2all + (IF Layout!EpRankCount(Config) > 1 THEN 1 ELSE 0)]]
  ELSE stats

NoStats ==
  [routed |-> 0, perExpert |-> Nothing, perRank |-> [k \in EpRanks |-> 0], all2all |-> 0]

RoutingInit ==
  /\ generation = [r \in Reqs |-> 0]
  /\ recompute = [r \in Reqs |-> 0]
  /\ preempted = [r \in Reqs |-> 0]
  /\ normalized = [w \in WorkersUsed |-> <<>>]
  /\ synthetic = [w \in WorkersUsed |-> <<>>]
  /\ stats = [w \in WorkersUsed |-> NoStats]
  /\ asked = [w \in WorkersUsed |-> Nothing]

\* History only: what docs/moe.md:102-106 gives to a step of r.
Scope(r) ==
  LET own == IF InPrefill(r) THEN Provided[r].prefill ELSE Provided[r].decode
  IN  CASE own # NoHistogram -> own
        [] own = NoHistogram /\ Provided[r].any # NoHistogram -> Provided[r].any
        [] OTHER -> Synthetic(Tokens(r) * TopK)

Unfinished(r) == generation[r] < Outputs[r]

Worker(r) == IF InPrefill(r) THEN PrefillAt[r] ELSE DecodeAt[r]

\* A step of worker w: prefills, decodes and recomputations are never in the same
\* batch here, though a hybrid worker can mix them (README). A recomputation ends
\* without a token.
Step(w, batch) ==
  LET set    == ToSet(batch)
      routed == Routed(w, batch)
  IN  /\ \A r \in set : Unfinished(r) /\ Worker(r) = w
      /\ \A r, q \in set : InPrefill(r) = InPrefill(q) /\ (recompute[r] > 0) = (recompute[q] > 0)
      /\ normalized' = [normalized EXCEPT ![w] = routed.normalized]
      /\ synthetic' = [synthetic EXCEPT ![w] = routed.synthetic]
      /\ stats' = Recorded(w, routed.histogram)
      /\ generation' = [r \in Reqs |->
           IF r \in set /\ recompute[r] = 0 THEN generation[r] + 1 ELSE generation[r]]
      /\ recompute' = [r \in Reqs |-> IF r \in set THEN 0 ELSE recompute[r]]
      /\ asked' = [asked EXCEPT ![w] =
           FoldLeft(LAMBDA sum, r : Plus(sum, Scope(r)), @, batch)]
      /\ UNCHANGED preempted

\* A request is preempted while it decodes (prepare_recompute): its whole context
\* is recomputed.
Preempt(r) ==
  /\ Unfinished(r)
  /\ ~InPrefill(r)
  /\ recompute[r] = 0
  /\ preempted[r] < MaxRecompute
  /\ preempted' = [preempted EXCEPT ![r] = @ + 1]
  /\ recompute' = [recompute EXCEPT ![r] = Prompt[r] + generation[r]]
  /\ UNCHANGED <<generation, normalized, synthetic, stats, asked>>

RoutingNext ==
  \/ \E w \in WorkersUsed, set \in SUBSET Reqs \ {{}} : Step(w, SetToSeq(set))
  \/ \E r \in Reqs : Preempt(r)

RoutingSpec == RoutingInit /\ [][RoutingNext]_routingVars
----
\* Types; the memos of a worker never outgrow their limit (routing.py:60-62).
RoutingTypeOK ==
  /\ generation \in [Reqs -> Nat]
  /\ recompute \in [Reqs -> Nat]
  /\ \A w \in WorkersUsed :
       /\ stats[w].perExpert \in [Experts -> Nat]
       /\ stats[w].perRank \in [EpRanks -> Nat]
       /\ Cardinality(DOMAIN normalized[w]) =< CacheLimit
       /\ Cardinality(DOMAIN synthetic[w]) =< CacheLimit

\* The exported loads are views of the same routes: over any number of steps the
\* routes of the experts and of the expert ranks add up to the routed tokens
\* (record_step, _per_rank_load), and no expert is without a rank.
LoadsAddUp ==
  \A w \in WorkersUsed :
    /\ Total(stats[w].perExpert) = stats[w].routed
    /\ Total(stats[w].perRank) = stats[w].routed
    /\ \A k \in EpRanks :
         stats[w].perRank[k] = RankLoad(stats[w].perExpert)[k]

\* What a worker has recorded is what docs/moe.md:102-106 says of the phases of its
\* steps, whatever the memos held (_request_histogram): the histogram of the phase,
\* the one for both, or a synthetic one.
AsTraced == \A w \in WorkersUsed : stats[w].perExpert = asked[w]

\* Synthetic routing loses no route (synthetic_histogram): the memo of a route
\* count has that many routes, also when hot and cold experts share them.
SyntheticExact ==
  \A w \in WorkersUsed : \A n \in DOMAIN synthetic[w] :
    /\ Total(synthetic[w][n]) = n
    /\ synthetic[w][n] = Synthetic(n)
====
