---- MODULE MCCluster ----
\* Small clusters for TLC: a prefill, a decode, a hybrid and a second decode
\* worker, and four requests, one of them done after its prefill. The setups:
\*   plain    one group, round robin, requests queued at the engine
\*   grouped  two data-parallel groups, least memory, a burst: the workers with a
\*            hand-over are one group, the hybrid worker is the other
\*   balanced one group, balanced load, a burst (no fairness: safety only)
\*   failing  one group, round robin, hand-overs raise
EXTENDS Cluster

MCDecodeLen == <<2, 1, 3, 2>>
MCRoles == <<"prefill", "decode", "hybrid", "decode">>
MCRanks == <<0, 0, 1, 0>>

\* Two prefill workers that share a decode worker, and three requests.
MCSharedDecode == <<"prefill", "prefill", "decode">>
MCOneRank == <<0, 0, 0>>
MCThreeLens == <<2, 1, 3>>

VARIABLE setup

mcVars == <<setup, vars>>

Grouped == INSTANCE Cluster WITH
  Burst <- TRUE, Policy <- "least_gpu_memory", DataParallel <- TRUE
Balanced == INSTANCE Cluster WITH Burst <- TRUE, Policy <- "balanced_load"
Failing == INSTANCE Cluster WITH DispatchFails <- TRUE

MCInit ==
  \/ setup = "plain" /\ Init
  \/ setup = "grouped" /\ Grouped!Init
  \/ setup = "balanced" /\ Balanced!Init
  \/ setup = "failing" /\ Failing!Init

InCluster(s, step) == setup = s /\ step /\ UNCHANGED setup

MCNext ==
  \/ InCluster("plain", Next)
  \/ InCluster("grouped", Grouped!Next)
  \/ InCluster("balanced", Balanced!Next)
  \/ InCluster("failing", Failing!Next)

\* The fairness of Spec in each setup but balanced.
MCArrive == \/ InCluster("plain", Arrive) \/ InCluster("grouped", Grouped!Arrive)
            \/ InCluster("failing", Failing!Arrive)
MCEngineStep == \/ InCluster("plain", EngineStep) \/ InCluster("grouped", Grouped!EngineStep)
                \/ InCluster("failing", Failing!EngineStep)
MCWorkerStep(w) ==
  \/ InCluster("plain", WorkerStep(w)) \/ InCluster("grouped", Grouped!WorkerStep(w))
  \/ InCluster("failing", Failing!WorkerStep(w))

MCSpec ==
  /\ MCInit /\ [][MCNext]_mcVars
  /\ WF_mcVars(MCArrive) /\ WF_mcVars(MCEngineStep)
  /\ \A w \in Workers : WF_mcVars(MCWorkerStep(w))

\* The first setup alone, for a cluster of other workers.
PlainSpec == setup = "plain" /\ Init /\ [][InCluster("plain", Next)]_mcVars

-----------------------------------------------------------------------------
Serving == setup # "failing"
Fair == setup # "balanced"

\* Where hand-overs do not raise, the cluster implements RequestFlow, where the
\* setup is fair its liveness included: every request goes through the pools of the
\* roles and gets its tokens, each once.
FlowsAsPromised ==
  /\ Flow!FlowInit
  /\ [][Serving => Flow!FlowNext]_(Flow!flowVars)
  /\ \A r \in Reqs : <>(Serving /\ Fair => Place(r) = Done)
====
