------------------------- MODULE MCPagedScheduler -------------------------
(* The schedulers a worker may be built with, for TLC.  The paged one has    *)
(* five blocks of two tokens, one of them the watermark, and five requests   *)
(* that fit one by one but not together; the static and the dynamic one      *)
(* have six requests whose prompts reach the bound exactly, or jump over it. *)
EXTENDS PagedScheduler, TLC

CONSTANTS ka, kb, kc, kd,          \* keys
          r1, r2, r3, r4, r5   \* requests

\* r2 and r3 share r1's prefix; r3 also declares the key of r1's first output
\* block; r2 ends in a partial block; r4 and r5 share nothing.
MCKeys == {ka, kb, kc, kd}
MCReqs == {r1, r2, r3, r4, r5}
MCPrefillLen == r1 :> 2 @@ r2 :> 3 @@ r3 :> 4 @@ r4 :> 2 @@ r5 :> 1
MCDecodeLen == r1 :> 5 @@ r2 :> 3 @@ r3 :> 2 @@ r4 :> 4 @@ r5 :> 1
MCInputKeys == r1 :> <<ka>> @@ r2 :> <<ka>> @@ r3 :> <<ka, kb>> @@ r4 :> <<kd>> @@ r5 :> <<>>
MCOutputKeys == r1 :> <<kb, kc>> @@ r2 :> <<>> @@ r3 :> <<>> @@ r4 :> <<>> @@ r5 :> <<>>

\* r2 and r3 arrive at the same time.
MCArrival == r1 :> 1 @@ r2 :> 2 @@ r3 :> 2 @@ r4 :> 3 @@ r5 :> 4

VARIABLES
    scheduler,   \* which scheduler the worker has: "paged", "static" or "dynamic"
    arrived, bWaiting, bRunning, generation, bBatch, awake

Batch == INSTANCE BatchScheduler WITH
    Reqs <- 1..6, PromptLen <- <<2, 3, 1, 2, 1, 4>>, DecodeLen <- <<2, 1, 3, 2, 1, 3>>,
    MaxSum <- 3, discipline <- scheduler, waiting <- bWaiting, running <- bRunning,
    batch <- bBatch

batchVars == <<scheduler, arrived, bWaiting, bRunning, generation, bBatch, awake>>

MCInit ==
    /\ SchedInit
    /\ scheduler \in {"paged", "static", "dynamic"}
    /\ Batch!NothingYet

\* A worker has one scheduler; the variables of the others stay as they are.
Paged(step) ==
    /\ scheduler = "paged"
    /\ step
    /\ UNCHANGED batchVars

Unpaged(step) ==
    /\ scheduler # "paged"
    /\ step
    /\ UNCHANGED allVars

mcVars == <<allVars, batchVars>>

MCNext == Paged(SchedNext) \/ Unpaged(Batch!BatchNext)

\* The fairness of SchedSpec and of BatchSpec.
MCSpec ==
    /\ MCInit /\ [][MCNext]_mcVars
    /\ WF_mcVars(Paged(WorkerNext)) /\ WF_mcVars(Unpaged(Batch!Step))

\* Every request that reaches the worker is done at last, under each scheduler,
\* and the dynamic scheduler leaves no running request out of a step.
EveryoneFinishes ==
    EveryRequestFinishes /\ Batch!EveryBatchFinishes /\ Batch!EveryRunningAdvances
=============================================================================
