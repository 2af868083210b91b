---- MODULE ExpertPlacement ----
\* How TokenSim lays a model out over its workers: the ranks of the parallel
\* configuration (config/parallel_config.py), the experts and the
\* mixture-of-experts layers of each rank (moe/placement.py, moe/config.py), the
\* layers the memory estimate counts for a rank (config/cache_config.py), and the
\* peers a rank synchronises with (parallel.py).
\*
\* A configuration is a record
\*   tp, pp, dp                 tensor, pipeline and data parallel sizes
\*   ep, strategy               enable_expert_parallel, expert_placement_strategy
\*   experts                    num_experts
\*   layers                     the layers of the model
\*   moeLayers, firstMoe, freq  num_moe_layers, first_k_dense_replace,
\*                              moe_layer_freq
EXTENDS Integers, FiniteSets

CONSTANTS
  Sizes,   \* the sizes of a dimension a run can choose
  Models   \* the models, records of the last five fields

\* ParallelConfig.__post_init__ and MoEModelConfig.__post_init__.
ASSUME PlacementAssumption ==
  /\ Sizes \subseteq Nat \ {0}
  /\ \A m \in Models :
       /\ m.experts \in Nat \ {0} /\ m.layers \in Nat
       /\ m.moeLayers \in Nat \ {0} /\ m.firstMoe \in Nat /\ m.freq \in Nat \ {0}

RanksPerGroup(c) == c.tp * c.pp

WorldSize(c) == RanksPerGroup(c) * c.dp

GlobalRanks(c) == 0 .. WorldSize(c) - 1

\* The rank of a worker in the three dimensions; the tensor rank varies fastest.
\* The workers past a world of one rank are all rank zero.
RankInfo(g, c) ==
  IF g >= WorldSize(c)
  THEN [dp |-> 0, pp |-> 0, tp |-> 0]
  ELSE [dp |-> g \div RanksPerGroup(c),
        pp |-> (g % RanksPerGroup(c)) \div c.tp,
        tp |-> (g % RanksPerGroup(c)) % c.tp]

\* Only the first tensor rank of the first stage of a data-parallel group takes
\* requests, unless there is a single rank.
Schedulable(g, c) ==
  WorldSize(c) = 1 \/ (RankInfo(g, c).tp = 0 /\ RankInfo(g, c).pp = 0)

----
\* Experts and layers.

EpRankCount(c) == IF c.ep THEN c.tp * c.dp ELSE 1

\* Computed the same way whether or not expert parallelism is enabled.
EpRank(g, c) == RankInfo(g, c).dp * c.tp + RankInfo(g, c).tp

\* The size of part i when n things are cut in parts, the first ones larger.
Share(n, parts, i) == n \div parts + (IF i < n % parts THEN 1 ELSE 0)

\* The things before part i, the parts one after the other.
Cursor(n, parts, i) ==
  LET cursor[k \in 0 .. parts] ==
        IF k = 0 THEN 0 ELSE cursor[k - 1] + Share(n, parts, k - 1)
  IN  cursor[i]

\* Faulty variant: the experts that do not divide evenly are left out.
ExpertsOfEpRankEven(c, r) ==
  IF c.strategy = "linear"
  THEN LET even == c.experts \div EpRankCount(c) IN r * even .. (r + 1) * even - 1
  ELSE {e \in 0 .. c.experts - 1 : e % EpRankCount(c) = r}

ExpertsOfEpRank(c, r) ==
  IF c.strategy = "linear"
  THEN LET first == Cursor(c.experts, EpRankCount(c), r)
       IN  first .. first + Share(c.experts, EpRankCount(c), r) - 1
  ELSE {e \in 0 .. c.experts - 1 : e % EpRankCount(c) = r}

\* The experts of a worker: none when its expert rank is past the placement.
ExpertsOf(c, g) ==
  IF EpRank(g, c) < EpRankCount(c) THEN ExpertsOfEpRank(c, EpRank(g, c)) ELSE {}

\* The layers with experts, cut at the last layer of the model.
MoeLayerIndices(c) ==
  {l \in c.firstMoe .. c.layers - 1 :
     /\ (l - c.firstMoe) % c.freq = 0
     /\ (l - c.firstMoe) \div c.freq < c.moeLayers}

\* Faulty variant: the layers are cut in equal parts, the rest to the last stage.
StageOfLayerEven(c, l) ==
  LET even == c.layers \div c.pp
  IN  IF even = 0 \/ l \div even >= c.pp THEN c.pp - 1 ELSE l \div even

\* The stage whose span of layers holds layer l.
StageOfLayer(c, l) ==
  CHOOSE s \in 0 .. c.pp - 1 :
    /\ Cursor(c.layers, c.pp, s) =< l
    /\ l < Cursor(c.layers, c.pp, s) + Share(c.layers, c.pp, s)

MoeLayersOfStage(c, s) == {l \in MoeLayerIndices(c) : StageOfLayer(c, l) = s}

\* The layers of a stage as the memory estimate counts them; a second
\* implementation of the same cut (cache_config.py).
StageLayerCount(c, s) == Share(c.layers, c.pp, s)

----
\* The peers of a worker: the rest of its tensor group, the same shard of the
\* next stage (the last stage goes back to the first), and the other expert ranks
\* of its stage.

TensorPeers(c, g) ==
  {h \in GlobalRanks(c) :
     /\ RankInfo(h, c).dp = RankInfo(g, c).dp
     /\ RankInfo(h, c).pp = RankInfo(g, c).pp
     /\ RankInfo(h, c).tp # RankInfo(g, c).tp}

\* Faulty variant: any worker of the next stage.
NextStageAnyShard(c, g) ==
  {h \in GlobalRanks(c) :
     /\ RankInfo(h, c).dp = RankInfo(g, c).dp
     /\ RankInfo(h, c).pp = (RankInfo(g, c).pp + 1) % c.pp}

NextStage(c, g) ==
  {h \in GlobalRanks(c) :
     /\ RankInfo(h, c).dp = RankInfo(g, c).dp
     /\ RankInfo(h, c).tp = RankInfo(g, c).tp
     /\ RankInfo(h, c).pp = (RankInfo(g, c).pp + 1) % c.pp}

ExpertPeers(c, g) ==
  {h \in GlobalRanks(c) :
     /\ RankInfo(h, c).pp = RankInfo(g, c).pp
     /\ \/ RankInfo(h, c).tp # RankInfo(g, c).tp
        \/ RankInfo(h, c).dp # RankInfo(g, c).dp}

----
\* The configuration a run ends up with: the one of the cluster or of the model,
\* some fields replaced by the command line. The number of workers must then be
\* the world size.
VARIABLES
  config,  \* the effective configuration
  workers  \* the number of workers of the cluster

placementVars == <<config, workers>>

Parallel == [tp : Sizes, pp : Sizes, dp : Sizes, ep : BOOLEAN,
             strategy : {"linear", "round_robin"}]

Effective(p, m) ==
  [tp |-> p.tp, pp |-> p.pp, dp |-> p.dp, ep |-> p.ep, strategy |-> p.strategy,
   experts |-> m.experts, layers |-> m.layers,
   moeLayers |-> m.moeLayers, firstMoe |-> m.firstMoe, freq |-> m.freq]

PlacementInit ==
  /\ \E p \in Parallel, m \in Models : config = Effective(p, m)
  /\ workers = WorldSize(config)

\* An override leaves the workers as the cluster lists them: only a
\* configuration of the same world size, or of a single rank, is accepted.
Override(changed) ==
  /\ WorldSize(changed) \in {1, workers}
  /\ config' = changed
  /\ UNCHANGED workers

PlacementNext ==
  \/ \E size \in Sizes : \/ Override([config EXCEPT !.tp = size])
                         \/ Override([config EXCEPT !.pp = size])
                         \/ Override([config EXCEPT !.dp = size])
  \/ \E enabled \in BOOLEAN : Override([config EXCEPT !.ep = enabled])
  \/ \E strategy \in {"linear", "round_robin"} : Override([config EXCEPT !.strategy = strategy])

PlacementSpec == PlacementInit /\ [][PlacementNext]_placementVars
----
Stages == 0 .. config.pp - 1

RanksOfStage(s) == {g \in GlobalRanks(config) : RankInfo(g, config).pp = s}

\* The workers n stages after g.
Reached(c, g, n) ==
  LET reached[k \in 0 .. c.pp] ==
        IF k = 0 THEN {g} ELSE UNION {NextStage(c, h) : h \in reached[k - 1]}
  IN  reached[n]

\* No two workers have the same ranks (from_global_rank), every group has one worker
\* that takes requests, the tensor groups are whole, and following the stages of a shard
\* comes back after pp steps and not before.
RanksCoverTheGrid ==
  LET rank == [g \in GlobalRanks(config) |-> RankInfo(g, config)]
  IN  /\ {rank[g] : g \in DOMAIN rank}
           = [dp : 0 .. config.dp - 1, pp : Stages, tp : 0 .. config.tp - 1]
      /\ \A d \in 0 .. config.dp - 1 :
           Cardinality({g \in DOMAIN rank : rank[g].dp = d /\ Schedulable(g, config)}) = 1
      /\ \A g \in DOMAIN rank :
           /\ Cardinality(TensorPeers(config, g)) = config.tp - 1
           /\ Reached(config, g, config.pp) = {g}
           /\ \A n \in 1 .. config.pp - 1 : g \notin Reached(config, g, n)

\* With expert parallelism the workers of a stage own every expert once, none
\* has two more than another, and the peers of a worker's all-to-all own the
\* experts it does not.
ExpertsOwnedOnce ==
  config.ep =>
    \A s \in Stages :
      LET own == [g \in RanksOfStage(s) |-> ExpertsOf(config, g)] IN
      /\ \A e \in 0 .. config.experts - 1 :
           Cardinality({g \in DOMAIN own : e \in own[g]}) = 1
      /\ \A g, h \in DOMAIN own : Cardinality(own[g]) =< Cardinality(own[h]) + 1
      /\ \A g \in DOMAIN own :
           UNION {own[h] : h \in ExpertPeers(config, g)}
             = (0 .. config.experts - 1) \ own[g]

\* The two cuts of the model into stages agree: each layer with experts is on one
\* stage, within the layers the memory estimate counts for it, so that the number
\* of its dense layers is not clamped, and those counts add up to the model.
StagesHoldTheirLayers ==
  /\ UNION {MoeLayersOfStage(config, s) : s \in Stages} = MoeLayerIndices(config)
  /\ \A s \in Stages :
       /\ Cardinality(MoeLayersOfStage(config, s)) =< StageLayerCount(config, s)
       /\ MoeLayersOfStage(config, s) \subseteq
            Cursor(config.layers, config.pp, s)
              .. Cursor(config.layers, config.pp, s) + StageLayerCount(config, s) - 1
       /\ Cursor(config.layers, config.pp, s) + StageLayerCount(config, s)
            = Cursor(config.layers, config.pp, s + 1)
  /\ Cursor(config.layers, config.pp, config.pp) = config.layers

\* The grid of ranks, the experts and the layers are cut by three computations:
\* each rank, expert and layer has one owner, however unevenly they divide.
PlacedOnce == RanksCoverTheGrid /\ ExpertsOwnedOnce /\ StagesHoldTheirLayers
====
