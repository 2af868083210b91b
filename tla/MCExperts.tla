---- MODULE MCExperts ----
\* Experts for TLC. The study "placement" takes the layouts of small models over
\* up to 27 workers; "traced" a prefill and a decode worker without parallel
\* ranks and three requests, two with histograms of their own; "loads" the four
\* workers of two groups, with hot experts.
EXTENDS ExpertPlacement, Sequences, TLC

CONSTANTS r1, r2, r3, NoHistogram

\* Models whose experts and layers do not divide evenly, with layers with experts
\* next to each other or every second one, some of them past the end.
MCModels ==
  {[experts |-> e, layers |-> n, moeLayers |-> m, firstMoe |-> 1, freq |-> f] :
     e \in 1 .. 5, n \in 3 .. 5, m \in {2, 4}, f \in {1, 2}}

LayoutOf(dp, tp, experts) ==
  [tp |-> tp, pp |-> 1, dp |-> dp, ep |-> dp * tp > 1, strategy |-> "linear",
   experts |-> experts, layers |-> 3, moeLayers |-> 2, firstMoe |-> 1, freq |-> 1]

OneRank == LayoutOf(1, 1, 3)
TwoGroups == LayoutOf(2, 2, 5)

\* A histogram of one of the layouts' experts.
Routes(layout, seq) ==
  [e \in 0 .. layout.experts - 1 |-> IF e < Len(seq) THEN seq[e + 1] ELSE 0]

Unrouted == [any |-> NoHistogram, prefill |-> NoHistogram, decode |-> NoHistogram]

VARIABLES study, generation, recompute, preempted, normalized, synthetic, stats, asked

routingVars ==
  <<generation, recompute, preempted, normalized, synthetic, stats, asked>>
mcVars == <<study, placementVars, routingVars>>

Traced == INSTANCE ExpertRouting WITH
  Config <- OneRank, Reqs <- {r1, r2, r3},
  Prompt <- r1 :> 2 @@ r2 :> 3 @@ r3 :> 1, Outputs <- r1 :> 3 @@ r2 :> 2 @@ r3 :> 2,
  PrefillAt <- [r \in {r1, r2, r3} |-> 0], DecodeAt <- [r \in {r1, r2, r3} |-> 1],
  Provided <-
    r1 :> [Unrouted EXCEPT !.prefill = Routes(OneRank, <<4, 0, 0>>),
                           !.decode = Routes(OneRank, <<0, 1, 1>>)]
    @@ r2 :> [Unrouted EXCEPT !.any = Routes(OneRank, <<1, 1, 0>>),
                              !.decode = Routes(OneRank, <<0, 0, 2>>)]
    @@ r3 :> Unrouted,
  TopK <- 2, Hot <- <<0, 7>>, HotShare <- 75, CacheLimit <- 1, MaxRecompute <- 1

\* r1 has one histogram for both phases; only the first worker of each group
\* takes requests.
Loads == INSTANCE ExpertRouting WITH
  Config <- TwoGroups, Reqs <- {r1, r2, r3},
  Prompt <- r1 :> 2 @@ r2 :> 3 @@ r3 :> 1, Outputs <- r1 :> 3 @@ r2 :> 2 @@ r3 :> 2,
  PrefillAt <- r1 :> 0 @@ r2 :> 0 @@ r3 :> 2, DecodeAt <- r1 :> 0 @@ r2 :> 0 @@ r3 :> 2,
  Provided <- r1 :> [Unrouted EXCEPT !.any = Routes(TwoGroups, <<0, 3, 1>>)]
              @@ r2 :> Unrouted @@ r3 :> Unrouted,
  TopK <- 2, Hot <- <<0, 7>>, HotShare <- 25, CacheLimit <- 2, MaxRecompute <- 1

\* What a study leaves out keeps its initial state.
MCInit ==
  \/ study = "placement" /\ PlacementInit /\ Traced!RoutingInit
  \/ study = "traced" /\ config = OneRank /\ workers = 1 /\ Traced!RoutingInit
  \/ study = "loads" /\ config = TwoGroups /\ workers = 4 /\ Loads!RoutingInit

MCNext ==
  \/ study = "placement" /\ PlacementNext /\ UNCHANGED <<study, routingVars>>
  \/ study = "traced" /\ Traced!RoutingNext /\ UNCHANGED <<study, placementVars>>
  \/ study = "loads" /\ Loads!RoutingNext /\ UNCHANGED <<study, placementVars>>

MCSpec == MCInit /\ [][MCNext]_mcVars

\* Each step routes by the histogram its phase was traced with, out of a memo
\* that stays within its limit (on a worker that runs both phases the memo of the
\* prefill answers for decode too), and neither the split into hot and cold shares
\* nor the sum over the ranks loses or invents a routed token.
RoutesExact ==
  /\ study = "traced" => Traced!RoutingTypeOK /\ Traced!AsTraced
  /\ study = "loads" => Loads!LoadsAddUp /\ Loads!SyntheticExact
====
