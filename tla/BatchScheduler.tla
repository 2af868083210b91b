---- MODULE BatchScheduler ----
\* The schedulers without paged memory, LLMStaticScheduler and
\* LLMDynamicScheduler (llm/llm_scheduler.py), driven by the step loop of a worker
\* (llm/llm_engine.py). Both pop from the end of their lists and stop only when
\* the prompts they took sum to exactly max_parallem_sum.
EXTENDS Integers, Sequences, FiniteSets, SequencesExt, Listings

CONSTANTS
  Reqs,        \* the requests, 1, 2, ... in the order of their arrival
  PromptLen,   \* prefill_len of each request, positive
  DecodeLen,   \* decode_len of each request, positive
  MaxSum       \* max_parallem_sum

VARIABLES
  discipline,  \* the scheduler the worker was built with, "static" or "dynamic"
  arrived,     \* the requests that were added
  waiting,     \* LLMScheduler.waiting
  running,     \* LLMScheduler.running
  generation,  \* generation_idx of each request
  batch,       \* the requests of the last step
  awake        \* whether the worker is RUNNING, so that it sends itself STEPs

\* Requests are numbered in the order of their arrival, lengths are positive
\* (workload/user_request.py:31).
ASSUME BatchAssumption ==
  /\ IsFiniteSet(Reqs) /\ Reqs = 1 .. Cardinality(Reqs)
  /\ DecodeLen \in [Reqs -> Nat \ {0}]

batchVars == <<discipline, arrived, waiting, running, generation, batch, awake>>

Prompts(seq) == FoldLeft(LAMBDA sum, r : sum + PromptLen[r], 0, seq)

IsDone(r) == generation[r] = DecodeLen[r]

\* Faulty variant: the request that reaches the sum stays in the list and is run
\* as well.
TakenTwice(list) ==
  LET backwards == Reverse(list)
      cuts == {n \in 1 .. Len(list) : Prompts(SubSeq(backwards, 1, n)) = MaxSum}
      n == IF cuts = {} THEN Len(list) ELSE CHOOSE m \in cuts : \A k \in cuts : m =< k
  IN  [taken |-> SubSeq(backwards, 1, n),
       rest  |-> SubSeq(list, 1, Len(list) - n + (IF cuts = {} THEN 0 ELSE 1))]

\* What the loop "pop until the sum is exactly MaxSum" takes from a list, in the
\* order of the pops, and what it leaves. A sum that jumps over MaxSum takes all.
Taken(list) ==
  LET backwards == Reverse(list)
      cuts == {n \in 1 .. Len(list) : Prompts(SubSeq(backwards, 1, n)) = MaxSum}
      n == IF cuts = {} THEN Len(list) ELSE CHOOSE m \in cuts : \A k \in cuts : m =< k
  IN  [taken |-> SubSeq(backwards, 1, n), rest |-> SubSeq(list, 1, Len(list) - n)]

\* Faulty variant: waiting requests join the batch that runs.
StaticJoins ==
  LET run == Taken(running)
      new == Taken(waiting)
  IN  [batch |-> run.taken \o new.taken, running |-> run.rest \o run.taken \o new.taken,
       waiting |-> new.rest]

\* The static discipline: the running batch, and only when nothing runs a new one.
Static ==
  LET run == Taken(running)
      new == Taken(waiting)
  IN  IF running # <<>>
      THEN [batch |-> run.taken, running |-> run.rest \o run.taken, waiting |-> waiting]
      ELSE [batch |-> new.taken, running |-> new.taken, waiting |-> new.rest]

\* The requests of a set, last arrival first.
LatestFirst(set) == Kept([i \in 1 .. arrived |-> arrived + 1 - i], set)

\* Faulty variant: a step that admits runs the new requests alone.
DynamicNewOnly ==
  LET new    == Taken(waiting)
      turned == LatestFirst(Range(running))
  IN  IF waiting # <<>>
      THEN [batch |-> new.taken, running |-> running \o new.taken, waiting |-> new.rest]
      ELSE [batch |-> turned, running |-> turned, waiting |-> waiting]

\* The dynamic discipline: waiting requests join at once; without any, the running
\* ones are turned round, last arrival first. Everything that runs is the batch.
Dynamic ==
  LET new    == Taken(waiting)
      joined == running \o new.taken
      turned == LatestFirst(Range(running))
  IN  IF waiting # <<>>
      THEN [batch |-> joined, running |-> joined, waiting |-> new.rest]
      ELSE [batch |-> turned, running |-> turned, waiting |-> waiting]

Schedule == IF discipline = "static" THEN Static ELSE Dynamic

----
NothingYet ==
  /\ arrived = 0
  /\ waiting = <<>>
  /\ running = <<>>
  /\ generation = [r \in Reqs |-> 0]
  /\ batch = <<>>
  /\ awake = FALSE

BatchInit == discipline \in {"static", "dynamic"} /\ NothingYet

\* The next request reaches the worker (Task.ADD).
Add ==
  /\ arrived < Cardinality(Reqs)
  /\ arrived' = arrived + 1
  /\ waiting' = Append(waiting, arrived + 1)
  /\ awake' = TRUE
  /\ UNCHANGED <<discipline, running, generation, batch>>

\* Faulty variant: the worker sleeps when the batch is over, whoever waits.
SleepsAfterBatch(stillRunning, stillWaiting) == stillRunning = <<>>

\* Whether the worker stops sending itself STEPs.
Sleeps(stillRunning, stillWaiting) == stillRunning = <<>> /\ stillWaiting = <<>>

\* A step (Task.STEP): schedule, run the batch, drop what is done.
Step ==
  /\ awake
  /\ \E s \in {Schedule} :
     LET next == [r \in Reqs |->
                    generation[r] + (IF r \in Range(s.batch) THEN 1 ELSE 0)]
         left == Kept(s.running, {r \in Reqs : next[r] # DecodeLen[r]})
     IN  /\ batch' = s.batch
         /\ generation' = next
         /\ running' = left
         /\ waiting' = s.waiting
         /\ awake' = ~Sleeps(IF s.batch = <<>> THEN <<>> ELSE left, s.waiting)
  /\ UNCHANGED <<discipline, arrived>>

BatchNext == Add \/ Step

BatchSpec == BatchInit /\ [][BatchNext]_batchVars /\ WF_batchVars(Step)
----
\* Types, and: every request that arrived and is not done is in exactly one list,
\* once (schedule moves requests between the lists and update drops the done ones).
InOneList ==
  /\ generation \in [Reqs -> Nat]
  /\ \A r \in Reqs :
       LET places == Cardinality({i \in DOMAIN waiting : waiting[i] = r})
                       + Cardinality({i \in DOMAIN running : running[i] = r})
       IN  places = (IF r =< arrived /\ ~IsDone(r) THEN 1 ELSE 0)

\* A static batch never mixes a prompt with decodes, in whatever order requests
\* arrive and wherever the sum cuts the lists: a new batch starts only when the
\* last request of the old one is done.
StaticBatchesPure == discipline = "static" =>
  \A i, j \in DOMAIN batch : (generation[batch[i]] = 1) = (generation[batch[j]] = 1)

\* No request is lost or queued twice, and a static batch is of one kind
\* (schedule(), update()).
PlainBatchesSound == InOneList /\ StaticBatchesPure

\* No step of the dynamic discipline leaves a running request out: whatever was
\* running before a step and is not done after it got a token (schedule returns
\* all of running, whichever branch it took).
EveryRunningAdvances ==
  [][discipline = "dynamic" /\ Step => \A i \in DOMAIN running :
       generation'[running[i]] = generation[running[i]] + 1]_batchVars

\* Every request that arrived is done at last, although both lists are stacks and
\* a batch may be cut: the arrivals end, and a step takes at least one request.
EveryBatchFinishes == \A r \in Reqs : (arrived >= r) ~> IsDone(r)
====
