---- MODULE MCComponents ----
\* Small instances, for TLC, of three components that have a model of their own and
\* share nothing: the pool of free blocks, the schedulers without paged memory and
\* the connectors of two workers. A behaviour studies one of them; the others stay
\* as they begin.
EXTENDS FreeQueue, BatchScheduler, Connectors

\* Six requests whose prompts reach the bound exactly, or jump over it.
MCReqs == 1..6
MCPromptLen == <<2, 3, 1, 2, 1, 4>>
MCDecodeLen == <<2, 1, 3, 2, 1, 3>>

\* A direct transfer with a store beside it, waited for or overlapped, a direct
\* transfer alone, and a store alone, of one data-parallel group and of two.
Layout(kinds, multi, overlap, ranks) ==
  [kinds |-> kinds, multi |-> multi, overlap |-> overlap, ranks |-> ranks]
Waiting == Layout(<<"mooncake", "store">>, TRUE, FALSE, <<0, 0>>)
MCLayouts ==
  {Waiting,
   Layout(<<"mooncake", "store">>, TRUE, TRUE, <<0, 0>>),
   Layout(<<"p2p">>, FALSE, FALSE, <<0, 0>>),
   Layout(<<"store">>, FALSE, FALSE, <<0, 0>>),
   Layout(<<"store">>, FALSE, FALSE, <<0, 1>>)}

VARIABLE study   \* "pool", "plain" or "connectors"

mcVars == <<study, poolVars, batchVars, connectorsVars>>

MCInit ==
  /\ study \in {"pool", "plain", "connectors"}
  /\ PoolInit
  /\ BatchInit /\ (study # "plain" => discipline = "static")
  /\ ConnectorsInit /\ (study # "connectors" => layout = Waiting)

Pool(step) == study = "pool" /\ step /\ UNCHANGED <<study, batchVars, connectorsVars>>
Plain(step) == study = "plain" /\ step /\ UNCHANGED <<study, poolVars, connectorsVars>>
Linked(step) == study = "connectors" /\ step /\ UNCHANGED <<study, poolVars, batchVars>>

MCNext == Pool(PoolNext) \/ Plain(BatchNext) \/ Linked(ConnectorsNext)

MCSpec == MCInit /\ [][MCNext]_mcVars
====
